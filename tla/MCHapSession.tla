---------------------------- MODULE MCHapSession ----------------------------
(***************************************************************************)
(* Two connections of three writes each; one transaction identifier, so    *)
(* that it is used again at once, and two values.                          *)
(***************************************************************************)
EXTENDS HapSession
=============================================================================
