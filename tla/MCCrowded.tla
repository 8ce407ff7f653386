----------------------------- MODULE MCCrowded -----------------------------
(***************************************************************************)
(* One peer, whose schedule has another channel in each of the 16 slots,   *)
(* or the channel in all of them on which the node itself is while it is   *)
(* alone.  Either of the two leads to the counterexample by itself.        *)
(***************************************************************************)
EXTENDS Node

CONSTANT a

Sixteen == <<1, 2, 3, 4, 5, 7, 8, 9, 10, 11, 36, 40, 48, 153, 157, 161>>
Crowded == [i \in 0..15 |-> Sixteen[i + 1]]
Alone == [i \in 0..15 |-> 36]
MCAdvertised == {Crowded, Alone}
MCNoLead == -1
MCSocial == <<6, 44, 149>>
MCFill == <<149, 6, 44>>
MCWorlds == {[mode |-> "hop", peers |-> {a}, inputs |-> {"action"}, heard |-> Advertised,
              slow |-> FALSE, frames |-> 0]}
=============================================================================
