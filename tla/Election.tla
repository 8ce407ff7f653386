------------------------------ MODULE Election ------------------------------
(***************************************************************************)
(* The election of an AWDL master and the clock that follows it            *)
(* (native/airdrop/crates/filin-rs/src/lib.rs, modules election, peers,    *)
(* rx and state).  Every node announces what it has elected; a node that   *)
(* hears a frame stores it in its peer table, runs the election over the   *)
(* whole table and, if the frame is of the elected parent, takes its       *)
(* clock.  Once a second it drops the peers it has not heard for a while   *)
(* and elects again.                                                       *)
(*                                                                         *)
(* Addresses are numbers.  The pair (counter, metric), which is compared   *)
(* lexicographically, is one number, the rank.  The channel sequences that *)
(* the same handlers carry are the subject of module Node: the election    *)
(* never reads them.                                                       *)
(***************************************************************************)
EXTENDS Integers, FiniteSets

CONSTANTS Nodes,            \* addresses of the nodes
          Worlds,           \* what may differ: nodes present, who hears whom, ranks, forced masters
          TreeMaxHeight,    \* TREE_MAX_HEIGHT
          Lease,            \* seconds a peer that is not heard stays listed
          NoNode,
          Frames,           \* kinds of frames: MIF or PSF, signal, acceptable clock
          MaxDisturbances   \* bound: peers left unheard for a second, bad clocks, stops

ASSUME NodesAssumption == Nodes \subseteq Nat /\ IsFiniteSet(Nodes) /\ NoNode \notin Nodes
ASSUME HeightAssumption == TreeMaxHeight \in Nat /\ Lease \in Nat
ASSUME WorldsAssumption ==
    Worlds \subseteq [present: SUBSET Nodes, hears: SUBSET (Nodes \X Nodes), rank: [Nodes -> Nat], forced: SUBSET Nodes]
ASSUME FramesAssumption ==
    Frames \subseteq [kind: {"Mif", "Psf"}, signal: {"strong", "faint"}, timed: BOOLEAN]
ASSUME BoundAssumption == MaxDisturbances \in Nat

VARIABLES world,         \* the radio links and settings, fixed for a behaviour
          up,            \* nodes whose daemon runs
          elect,         \* what each node has elected (ElectionState)
          peers,         \* its peer table
          synced,        \* synchronized_master
          clockOf,       \* history: the master named by the frame the clock is of
          disturbances   \* bound: disturbances so far

vars == <<world, up, elect, peers, synced, clockOf, disturbances>>

Views == [master: Nodes, sync: Nodes, height: 0..TreeMaxHeight, rank: Nat]
NoView == [master |-> NoNode, sync |-> NoNode, height |-> 0, rank |-> 0]
NoPeer == [view |-> NoView, valid |-> FALSE, age |-> 0]

\* What a node claims that leads its own tree.
Self(n) == [master |-> n, sync |-> n, height |-> 0, rank |-> world.rank[n]]

Listed(table) == {p \in Nodes : table[p] # NoPeer}

Disturb == disturbances < MaxDisturbances /\ disturbances' = disturbances + 1

Init ==
    /\ world \in Worlds
    /\ up = world.present
    /\ elect = [n \in Nodes |-> Self(n)]
    /\ peers = [n \in Nodes |-> [p \in Nodes |-> NoPeer]]
    /\ synced = [n \in Nodes |-> NoNode]
    /\ clockOf = [n \in Nodes |-> NoNode]
    /\ disturbances = 0
-----------------------------------------------------------------------------
(* The election.                                                           *)

\* The view v of node p is preferred to the view w of node q.
Beats(v, p, w, q) ==
    \/ v.rank > w.rank
    \/ v.rank = w.rank /\ v.height < w.height
    \/ v.rank = w.rank /\ v.height = w.height /\ p > q

\* The peers n may adopt: complete, not too high, not synchronised to n itself
\* and better than n on its own.
Eligible(n, table) ==
    {p \in Listed(table) :
        /\ table[p].valid
        /\ table[p].view.height + 1 <= TreeMaxHeight
        /\ table[p].view.sync # n
        /\ Beats(table[p].view, p, Self(n), n)}

\* The best of them, which no other beats.
Best(n, table) ==
    {p \in Eligible(n, table) :
        \A q \in Eligible(n, table) \ {p} : Beats(table[p].view, p, table[q].view, q)}

\* One step further from the root than the peer p.
Follow(p, view) ==
    [master |-> view.master, sync |-> p, height |-> view.height + 1, rank |-> view.rank]

\* Mutant: an election nobody wins leaves the last result.
ElectedSticky(n, table) ==
    IF n \in world.forced THEN {Self(n)}
    ELSE IF Eligible(n, table) = {} THEN {elect[n]}
    ELSE {Follow(p, table[p].view) : p \in Best(n, table)}

\* The result of the election, in a set of its own.
Elected(n, table) ==
    IF n \in world.forced \/ Eligible(n, table) = {}
    THEN {Self(n)}
    ELSE {Follow(p, table[p].view) : p \in Best(n, table)}

\* run_election: the table of n becomes table; a change of master forgets that
\* its clock was taken.
Reelect(n, table) ==
    /\ peers' = [peers EXCEPT ![n] = table]
    /\ \E result \in Elected(n, table) : elect' = [elect EXCEPT ![n] = result]

StillSynced(n) == IF elect'[n].master = elect[n].master THEN synced[n] ELSE NoNode
-----------------------------------------------------------------------------
(* Frames.  The air delivers at once: a frame carries what its sender has   *)
(* elected when it is heard.                                               *)

InRange(n) == {p \in up : <<n, p>> \in world.hears}

\* rssi_admits: between the two thresholds only a peer that is listed is heard.
Admitted(n, p, signal) == signal = "strong" \/ peers[n][p] # NoPeer

\* The peer table after a frame of p: a peer is complete once a MIF was heard.
Touched(n, p, kind) ==
    [peers[n] EXCEPT ![p] = [view |-> elect[p], age |-> 0,
                             valid |-> peers[n][p].valid \/ kind = "Mif"]]

\* Mutant: the clock of any peer will do.
TakesAnyClock(n, p, timed) == timed

\* The clock is taken from this very frame if it elects its sender or finds it elected.
TakesClock(n, p, timed) == timed /\ elect'[n].sync = p

\* n hears a frame of p.  A frame without an acceptable clock is a disturbance.
Receive(n, p, frame) ==
    /\ n \in up /\ p \in InRange(n)
    /\ p # n /\ Admitted(n, p, frame.signal)
    /\ IF frame.timed THEN UNCHANGED disturbances ELSE Disturb
    /\ Reelect(n, Touched(n, p, frame.kind))
    /\ synced' = [synced EXCEPT ![n] =
                      IF TakesClock(n, p, frame.timed) THEN elect'[n].master ELSE StillSynced(n)]
    /\ clockOf' = [clockOf EXCEPT ![n] = IF TakesClock(n, p, frame.timed) THEN elect[p].master ELSE @]
    /\ UNCHANGED <<world, up>>
-----------------------------------------------------------------------------
(* Time, stops and restarts.                                               *)

\* A second passes at n: peers get older and those over their lease are dropped.
\* All that are in range were heard meanwhile, unless the second is disturbed.
Aged(n) ==
    [p \in Nodes |-> IF peers[n][p] = NoPeer \/ peers[n][p].age >= Lease
                     THEN NoPeer ELSE [peers[n][p] EXCEPT !.age = @ + 1]]

AllHeard(n) ==
    \A p \in InRange(n) \ {n} :
        peers[n][p] # NoPeer /\ peers[n][p].valid /\ peers[n][p].age = 0

\* Mutant: peers are dropped without a new election.
CleanOnly(n) ==
    /\ n \in up
    /\ Listed(peers[n]) # {}
    /\ IF AllHeard(n) THEN UNCHANGED disturbances ELSE Disturb
    /\ peers' = [peers EXCEPT ![n] = Aged(n)]
    /\ UNCHANGED <<world, up, elect, synced, clockOf>>

Clean(n) ==
    /\ n \in up
    /\ Listed(peers[n]) # {}
    /\ IF AllHeard(n) THEN UNCHANGED disturbances ELSE Disturb
    /\ Reelect(n, Aged(n))
    /\ synced' = [synced EXCEPT ![n] = StillSynced(n)]
    /\ UNCHANGED <<world, up, clockOf>>

\* The daemon stops and all it knows is gone.
Stop(n) ==
    /\ n \in up
    /\ Disturb
    /\ up' = up \ {n}
    /\ elect' = [elect EXCEPT ![n] = Self(n)]
    /\ peers' = [peers EXCEPT ![n] = [p \in Nodes |-> NoPeer]]
    /\ synced' = [synced EXCEPT ![n] = NoNode]
    /\ clockOf' = [clockOf EXCEPT ![n] = NoNode]
    /\ UNCHANGED world

\* AwdlState::new: it begins as its own master.
Start(n) ==
    /\ n \in world.present \ up
    /\ up' = up \cup {n}
    /\ UNCHANGED <<world, elect, peers, synced, clockOf, disturbances>>

Next ==
    \E n \in Nodes :
        \/ \E p \in Nodes, frame \in Frames : Receive(n, p, frame)
        \/ Clean(n)
        \/ Stop(n)
        \/ Start(n)

Good == [kind |-> "Mif", signal |-> "strong", timed |-> TRUE]

\* Complete frames keep being heard and the timer of a second fires.
\* Nothing makes a stopped node start.
Fairness ==
    \A n \in Nodes :
        /\ WF_vars(Clean(n))
        /\ \A p \in Nodes : WF_vars(Receive(n, p, Good))

Spec == Init /\ [][Next]_vars /\ Fairness
-----------------------------------------------------------------------------
(* Properties.                                                             *)

TypeOK ==
    /\ world \in Worlds
    /\ up \subseteq Nodes
    /\ elect \in [Nodes -> Views]
    /\ peers \in [Nodes -> [Nodes -> [view: Views, valid: BOOLEAN, age: 0..Lease] \cup {NoPeer}]]
    /\ synced \in [Nodes -> Nodes \cup {NoNode}]
    /\ clockOf \in [Nodes -> Nodes \cup {NoNode}]
    /\ disturbances \in 0..MaxDisturbances

HasMasterSync(n) == elect[n].sync # n /\ synced[n] = elect[n].master

\* A node that reports to be synchronised runs on a clock of the very cluster it
\* is in: the last clock it took was of a frame that named its present master, however
\* often parents and masters changed in between (has_master_sync).
ClockIsOfCluster == \A n \in Nodes : HasMasterSync(n) => clockOf[n] = elect[n].master

\* What every node believes of the others is what they would announce now.
Settled ==
    /\ \A n \in up : Listed(peers[n]) \subseteq up
    /\ \A n \in up : \A p \in Listed(peers[n]) : peers[n][p].view = elect[p]

\* Once views are current, the nodes form trees: a parent runs, is one step nearer to the
\* root and names the same master, and a node without a parent leads itself.  So (going up
\* the tree) every master runs: no cycle and no master that has gone survives the exchange
\* of views.
SettledIsForest ==
    Settled => \A n \in up :
        LET parent == elect[n].sync
        IN  IF parent = n THEN elect[n] = Self(n)
            ELSE /\ parent \in up
                 /\ elect[n].height = elect[parent].height + 1
                 /\ elect[n].master = elect[parent].master

\* The node all others should follow.
Leader(S) ==
    CHOOSE n \in S : \A m \in S \ {n} : Beats(Self(n), n, Self(m), m)

\* The running nodes that n can exchange views with, over others or not.
Reach(n) ==
    {m \in up : \A S \in SUBSET up :
        n \in S /\ (\A p \in S, q \in up : <<q, p>> \in world.hears => q \in S) => m \in S}

Decided(S) ==
    \A m, n \in S : m # n => <<m, n>> \in world.hears \/ world.rank[m] # world.rank[n]

\* When disturbances end, running nodes that reach each other come to agree on the best
\* of them, although views of a master that has gone are passed round with growing
\* heights.  Beyond direct range nodes of equal rank need not agree: height decides before
\* the address.
Agreement ==
    <>[](\A n \in up : Decided(Reach(n)) => elect[n].master = Leader(Reach(n)))
=============================================================================
