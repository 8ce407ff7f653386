------------------------------- MODULE MCNode -------------------------------
EXTENDS Node

CONSTANTS a, b

Schedule(c0, c1, c2, c3) == [i \in 0..3 |-> <<c0, c1, c2, c3>>[i + 1]]
Full == Schedule(149, 44, 6, 149)
Poor == Schedule(52, 0, 44, 52)
Alone == Schedule(36, 36, 36, 36)
MCAdvertised == {Full, Poor, Alone, Schedule(0, 0, 0, 0)}

\* Injecting a social channel into a null or repeated slot always finds one.
ASSUME RoomAssumption == \A seq \in MCAdvertised : RoomFor(seq)

MCNoLead == -1
MCSocial == <<6, 44, 149>>
MCFill == <<149, 6, 44>>

W(mode, peers, inputs, heard, slow, n) ==
    [mode |-> mode, peers |-> peers, inputs |-> inputs, heard |-> heard, slow |-> slow, frames |-> n]

MCWorlds == {W("hop", {a, b}, {"action"}, MCAdvertised, FALSE, 0),
             W("hop", {a}, {"action", "data"}, {Full, Poor, Alone}, FALSE, 0),
             W("hop", {a}, {"action", "clock", "unicast"}, {Full}, FALSE, 2),
             W("hop", {a}, {"action", "clock", "mcast"}, {Full}, FALSE, 1),
             W("hop", {a}, {"action", "mcast", "fail"}, {Full}, FALSE, 1),
             W("hop", {a}, {"mcast", "fail"}, {}, TRUE, 1),
             W("hop", {a}, {"clock", "action", "fail"}, {Poor}, TRUE, 0),
             W("park", {a, b}, {"action"}, MCAdvertised, FALSE, 0),
             W("station", {a}, {"action", "mcast", "unicast", "fail"}, {Full, Alone}, FALSE, 2),
             W("roc", {a}, {"action"}, {Full, Poor}, FALSE, 0),
             W("roc", {a}, {"mcast", "fail"}, {}, FALSE, 1),
             W("roc", {a}, {}, {}, TRUE, 0)}
=============================================================================
