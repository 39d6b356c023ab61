------------------------------- MODULE MCTuner -------------------------------
(***************************************************************************)
(* Two calls of tda18271_tune with any number of attaches between them, a  *)
(* chip of the revision C2 (a failed read may pass it off for C1), and a   *)
(* transfer failing anywhere.                                              *)
(***************************************************************************)
EXTENDS Tuner

=============================================================================
