---------------------------- MODULE MCReceivePath ----------------------------
(***************************************************************************)
(* Model checking of ReceivePath: lines of two frame bytes and a section   *)
(* of three, carried by packets of three and four bytes, so that packets,  *)
(* sections and losses meet at every offset.                               *)
(***************************************************************************)
EXTENDS ReceivePath

=============================================================================
