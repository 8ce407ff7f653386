--------------------------- MODULE MCControlState ---------------------------
(***************************************************************************)
(* Two threads that both read, refresh and write: a protocol worker and    *)
(* the worker of an abandoned probe that still runs its last request (the  *)
(* poller's steps are among theirs), on the two controls that share the    *)
(* media volume.  The revision bound allows two writes one after the other *)
(* or overlapping, the change bound one change by the user.                *)
(***************************************************************************)
EXTENDS ControlState

CONSTANTS worker, oldWorker
=============================================================================
