------------------------------ MODULE MCProbe ------------------------------
(***************************************************************************)
(* A database of two services, two attempts to open a server, and a        *)
(* bounded number of disturbances, in any combination.                     *)
(***************************************************************************)
EXTENDS Probe
=============================================================================
