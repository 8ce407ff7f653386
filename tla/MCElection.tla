----------------------------- MODULE MCElection -----------------------------
(* Three nodes that all hear each other, a forced master and two of equal  *)
(* rank, one of which hears itself; three of different ranks in a line;    *)
(* and three, each of which hears one other, that have just lost the       *)
(* master they all followed.                                               *)
EXTENDS Election

Three == {1, 2, 3}
Triangle == {<<m, n>> \in Three \X Three : m # n}
Line == {<<1, 2>>, <<2, 1>>, <<2, 3>>, <<3, 2>>}
Ascending == [n \in Nodes |-> 60 + n]
Ring == {<<1, 2>>, <<2, 3>>, <<3, 1>>}
Orphans == [present |-> Three, hears |-> Ring, forced |-> {}, rank |-> Ascending]

MCWorlds ==
    {[present |-> Three, hears |-> Triangle \cup {<<3, 3>>}, forced |-> {1},
      rank |-> [n \in Nodes |-> IF n = 1 THEN 99 ELSE 60]],
     [present |-> Three, hears |-> Line, forced |-> {}, rank |-> Ascending],
     Orphans}

MCFrames == {Good, [kind |-> "Psf", signal |-> "strong", timed |-> FALSE]}

\* All follow node 4, which has gone: what Init leads to in the presence of 4.
Orphaned ==
    /\ world = Orphans
    /\ up = Three
    /\ elect = [n \in Nodes |-> [master |-> 4, sync |-> 4, rank |-> 64,
                                 height |-> IF n = 4 THEN 0 ELSE 1]]
    /\ peers = [n \in Nodes |-> [p \in Nodes |->
                   IF n = 4 \/ n = p THEN NoPeer
                   ELSE [view |-> elect[p], valid |-> TRUE, age |-> 0]]]
    /\ synced = [n \in Nodes |-> IF n = 4 THEN NoNode ELSE 4]
    /\ clockOf = synced
    /\ disturbances = MaxDisturbances

MCSpec == ((Init /\ world # Orphans) \/ Orphaned) /\ [][Next]_vars /\ Fairness
=============================================================================
