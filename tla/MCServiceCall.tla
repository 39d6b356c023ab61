---------------------------- MODULE MCServiceCall ----------------------------
(***************************************************************************)
(* Model checking of ServiceCall: a boot call and two service calls in     *)
(* each of two sessions, so that a late answer can meet the next call of   *)
(* its own session and the calls of the next one.                          *)
(***************************************************************************)
EXTENDS ServiceCall

=============================================================================
