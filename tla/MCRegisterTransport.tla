------------------------- MODULE MCRegisterTransport -------------------------
(***************************************************************************)
(* Three calls: one that is given up, one that meets the answer it left,   *)
(* and one whose computation is off because of it.                         *)
(***************************************************************************)
EXTENDS RegisterTransport

=============================================================================
