----------------------------- MODULE MCSendQueue -----------------------------
(* Small instances of SendQueue: payloads of 1, 2, 3, 1 and 2 bytes.         *)
EXTENDS SendQueue, Functions

CONSTANTS s1, s2

MCSenders1 == {s1}
MCSenders2 == {s1, s2}
MCSize == [k \in Keys |-> 1 + (k % 3)]
MCSizeOf == [K \in SUBSET Keys |-> SumFunctionOnSet(MCSize, K)]
=============================================================================
