--------------------------- MODULE MCCheckRuntime ---------------------------
(* Two SNMP checks that share one slot. *)
EXTENDS CheckRuntime

CONSTANTS c1, c2

MCChecks == {c1, c2}
=============================================================================
