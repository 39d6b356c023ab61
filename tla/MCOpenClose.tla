---------------------------- MODULE MCOpenClose ----------------------------
(***************************************************************************)
(* Two sessions: the second finds what the first, cut off anywhere, left.  *)
(* Every further session would meet a device in one of the states in which *)
(* the first may already find it (Init).                                   *)
(***************************************************************************)
EXTENDS OpenClose

=============================================================================
