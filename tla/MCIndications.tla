---------------------------- MODULE MCIndications ----------------------------
(***************************************************************************)
(* One controller with two event characteristics, so that one event waits  *)
(* while another is on its way, and one indication that fails.             *)
(***************************************************************************)
EXTENDS Indications
=============================================================================
