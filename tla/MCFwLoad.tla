------------------------------ MODULE MCFwLoad ------------------------------
(***************************************************************************)
(* Model checking of FwLoad: every file length from 0 to past the offset   *)
(* range, with chunk boundaries before, at and after its end.              *)
(***************************************************************************)
EXTENDS FwLoad

=============================================================================
