------------------------------ MODULE MCLedger ------------------------------
(* Small instances of Ledger for TLC.                                      *)
EXTENDS Ledger

CONSTANTS t1, x, y, z   \* a transfer and messages of other publishers

MCKind == [m \in Message |-> CASE m = t1 -> "transfer"
                               [] m = x  -> "garbage"
                               [] m = y  -> "unrouted"
                               [] m = z  -> "failure"]
=============================================================================
