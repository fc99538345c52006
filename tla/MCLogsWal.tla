------------------------------ MODULE MCLogsWal ------------------------------
(* Small instances of LogsWal: payloads of 1 and 2 bytes.                    *)
EXTENDS LogsWal, Functions

CONSTANTS r1, h1

MCReaders == {r1}
MCReceivers == {h1}
MCSize == [k \in Keys |-> 1 + (k % 2)]
MCSizeOf == [K \in SUBSET Keys |-> SumFunctionOnSet(MCSize, K)]
=============================================================================
