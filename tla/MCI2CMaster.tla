----------------------------- MODULE MCI2CMaster -----------------------------
(***************************************************************************)
(* Parts of 2 bytes, where the code has 30 and 29: transactions of exactly *)
(* one part, of one and a byte, and for a write of two full ones.  Three   *)
(* calls: one that is broken off, one that may be broken off on what it    *)
(* left, and one after both.  The answers taken for another's are those of *)
(* CNTL_0 at rest and of a CNTL_1 that asks for a byte.                    *)
(***************************************************************************)
EXTENDS I2CMaster

ForeignFlags == {{"DONE", "START", "RECEIVE"}}
ForeignCounts == {[n |-> 1, count |-> 1]}

=============================================================================
