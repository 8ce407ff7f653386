----------------------------- MODULE MCRuntime -----------------------------
(***************************************************************************)
(* A database of two services, two attempts to open a server and two       *)
(* disturbances; two controllers, a state number that wraps after three    *)
(* and one restart for another reason than the health check.               *)
(***************************************************************************)
EXTENDS Runtime
=============================================================================
