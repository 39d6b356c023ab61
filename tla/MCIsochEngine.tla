---------------------------- MODULE MCIsochEngine ----------------------------
(***************************************************************************)
(* Model checking of IsochEngine: two transfers of two packets, and enough *)
(* microframes for each buffer to be filled again after it was read.       *)
(***************************************************************************)
EXTENDS IsochEngine

=============================================================================
