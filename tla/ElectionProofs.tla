--------------------------- MODULE ElectionProofs ---------------------------
(***************************************************************************)
(* For any nodes, radio links, ranks and lost or untimed frames: a node    *)
(* that reports to be synchronised runs on a clock of its own cluster,     *)
(* every election has exactly one result, and nodes with current views     *)
(* form trees whose masters run.                                           *)
(***************************************************************************)
EXTENDS Election, FiniteSetTheorems, WellFoundedInduction, TLAPS

Entries == [view : Views, valid : BOOLEAN, age : 0..Lease]
Tables == [Nodes -> Entries \cup {NoPeer}]

\* A node that does not run knows nothing.
Resting == \A n \in Nodes \ up : peers[n] = [p \in Nodes |-> NoPeer] /\ elect[n] = Self(n)

\* A node does not list itself: its reflected frames are dropped.
NotItself == \A n \in Nodes : peers[n][n] = NoPeer

\* The clock a node reports is the last one it took.
ClockIsTaken == \A n \in Nodes : synced[n] \in {NoNode, clockOf[n]}

\* What a node has elected is always the result of an election among its
\* present peers: no change of the table goes without one.
UpToDate == \A n \in up : elect[n] \in Elected(n, peers[n])

IInv == TypeOK /\ Resting /\ NotItself /\ ClockIsTaken /\ UpToDate

-----------------------------------------------------------------------------
\* Who is elected is a possible view of the node, and not a listed node's
\* parent unless that node is the parent elected.
LEMMA SelfType == ASSUME TypeOK, NEW n \in Nodes PROVE Self(n) \in Views
  BY WorldsAssumption, HeightAssumption DEF TypeOK, Self, Views

LEMMA EmptyTable ==
    ASSUME NEW n \in Nodes
    PROVE  Elected(n, [p \in Nodes |-> NoPeer]) = {Self(n)}
  BY DEF Elected, Eligible, Listed

LEMMA ElectedType ==
    ASSUME TypeOK, NEW n \in Nodes, NEW table \in Tables, NEW v \in Elected(n, table)
    PROVE  /\ v \in Views
           /\ \/ v = Self(n)
              \/ \E p \in Nodes : table[p] # NoPeer /\ v = Follow(p, table[p].view)
<1>1. CASE v = Self(n)
  BY <1>1, SelfType
<1>2. CASE \E p \in Best(n, table) : v = Follow(p, table[p].view)
  <2>1. PICK p \in Best(n, table) : v = Follow(p, table[p].view)
    BY <1>2
  <2>2. /\ p \in Nodes /\ table[p] \in Entries /\ table[p] # NoPeer
        /\ table[p].view.height + 1 <= TreeMaxHeight
    BY <2>1 DEF Best, Eligible, Listed, Tables
  <2>3. table[p].view \in Views
    BY <2>2 DEF Entries
  <2>4. v \in Views
    BY <2>1, <2>2, <2>3, HeightAssumption DEF Follow, Views
  <2>. QED  BY <2>1, <2>2, <2>4
<1>. QED  BY <1>1, <1>2 DEF Elected

\* The election looks at the world and its table only.
LEMMA SameElection ==
    ASSUME UNCHANGED world, NEW n \in Nodes
    PROVE  Elected(n, peers[n])' = Elected(n, peers'[n]) /\ Self(n)' = Self(n)
  BY DEF Elected, Eligible, Best, Follow, Self, Listed, Beats

LEMMA InitOK == Init => IInv
<1>. SUFFICES ASSUME Init PROVE IInv
  OBVIOUS
<1>1. TypeOK
  <2>1. world \in Worlds /\ world.present \subseteq Nodes /\ disturbances \in 0..MaxDisturbances
    BY WorldsAssumption, BoundAssumption DEF Init
  <2>2. \A n \in Nodes : Self(n) \in Views
    BY <2>1, WorldsAssumption, HeightAssumption DEF Self, Views
  <2>. QED  BY <2>1, <2>2 DEF Init, TypeOK
<1>2. Resting /\ NotItself /\ ClockIsTaken
  BY DEF Init, Resting, NotItself, ClockIsTaken
<1>3. UpToDate
  BY <1>1, EmptyTable DEF Init, UpToDate, TypeOK
<1>. QED  BY <1>1, <1>2, <1>3 DEF IInv

-----------------------------------------------------------------------------
\* A set of numbers that is not empty has a least one.
LEMMA LeastNumber ==
    ASSUME NEW T \in SUBSET Nat, T # {}
    PROVE  \E x \in T : \A y \in T : x <= y
<1>. DEFINE R == {s \in Nat \X Nat : s[1] < s[2]}
<1>1. IsWellFoundedOn(R, Nat)
  <2>1. OpToRel(<, Nat) = R
    BY DEF OpToRel
  <2>. QED  BY <2>1, NatLessThanWellFounded
<1>2. \A x, y \in Nat : <<y, x>> \notin R => x <= y
  OBVIOUS
<1>. HIDE DEF R
<1>3. PICK x \in T : \A y \in T : <<y, x>> \notin R
  BY <1>1, WFMin
<1>4. \A y \in T : x <= y
  BY <1>2, <1>3
<1>. QED  BY <1>4

\* In a finite set whose members are all comparable one is above all others.
LEMMA OneIsAbove ==
    ASSUME NEW S, IsFiniteSet(S), S # {}, NEW R,
           \A x, y \in S : x # y => <<x, y>> \in R \/ <<y, x>> \in R,
           \A x, y, z \in S : <<x, y>> \in R /\ <<y, z>> \in R => <<x, z>> \in R
    PROVE  \E b \in S : \A x \in S \ {b} : <<b, x>> \in R
<1>. DEFINE Topped(T) == \E b \in T : \A x \in T \ {b} : <<b, x>> \in R
            Bad == {k \in Nat : \E T \in SUBSET S : T # {} /\ ~Topped(T) /\ k = Cardinality(T)}
<1>1. SUFFICES ASSUME ~Topped(S) PROVE FALSE
  OBVIOUS
<1>2. \A T \in SUBSET S : IsFiniteSet(T) /\ Cardinality(T) \in Nat
  BY FS_Subset, FS_CardinalityType
<1>3. Cardinality(S) \in Bad
  BY <1>1, <1>2
<1>4. PICK k \in Bad : \A m \in Bad : k <= m
  BY <1>3, LeastNumber
<1>5. PICK T \in SUBSET S : T # {} /\ ~Topped(T) /\ k = Cardinality(T)
  BY <1>4
<1>6. PICK p \in T : TRUE
  BY <1>5
<1>7. CASE T \ {p} = {}
  BY <1>5, <1>6, <1>7
<1>8. CASE T \ {p} # {}
  <2>1. /\ Cardinality(T \ {p}) = k - 1 /\ T \ {p} \in SUBSET S
        /\ Cardinality(T \ {p}) \in Nat /\ k \in Nat
    BY <1>2, <1>5, <1>6, FS_RemoveElement
  <2>2. Cardinality(T \ {p}) \notin Bad
    <3>. HIDE DEF Bad
    <3>1. ~(k <= k - 1)
      BY <2>1
    <3>. QED  BY <1>4, <2>1, <3>1
  <2>3. Topped(T \ {p})
    BY <1>8, <2>1, <2>2
  <2>4. PICK b \in T \ {p} : \A x \in (T \ {p}) \ {b} : <<b, x>> \in R
    BY <2>3
  <2>5. CASE <<b, p>> \in R
    <3>1. \A x \in T \ {b} : <<b, x>> \in R
      BY <2>4, <2>5
    <3>. QED  BY <1>5, <3>1
  <2>6. CASE <<p, b>> \in R
    <3>1. \A x \in T \ {p} : <<p, x>> \in R
      BY <1>6, <2>4, <2>6
    <3>. QED  BY <1>5, <1>6, <3>1
  <2>7. b \in S /\ p \in S /\ b # p
    BY <1>6, <2>4
  <2>. QED  BY <2>5, <2>6, <2>7
<1>. QED  BY <1>7, <1>8
-----------------------------------------------------------------------------
(* Every election has a result.                                            *)

\* Beats, as a relation between the entries of a table.
Better(S, table) ==
    {s \in S \X S : Beats(table[s[1]].view, s[1], table[s[2]].view, s[2])}

\* Of two nodes one is preferred, and not the other: addresses differ.
LEMMA BeatsOrders ==
    ASSUME NEW v \in Views, NEW w \in Views, NEW u \in Views,
           NEW p \in Nodes, NEW q \in Nodes, NEW r \in Nodes
    PROVE  /\ p # q => Beats(v, p, w, q) \/ Beats(w, q, v, p)
           /\ ~(Beats(v, p, w, q) /\ Beats(w, q, v, p))
           /\ Beats(v, p, w, q) /\ Beats(w, q, u, r) => Beats(v, p, u, r)
<1>1. /\ v.rank \in Nat /\ w.rank \in Nat /\ u.rank \in Nat
      /\ v.height \in Nat /\ w.height \in Nat /\ u.height \in Nat
      /\ p \in Nat /\ q \in Nat /\ r \in Nat
  BY NodesAssumption, HeightAssumption DEF Views
<1>. QED  BY <1>1 DEF Beats

\* A node that has peers to choose from has one best.
LEMMA OneIsBest ==
    ASSUME NEW n \in Nodes, NEW table \in Tables, Eligible(n, table) # {}
    PROVE  \E p \in Eligible(n, table) : Best(n, table) = {p}
<1>. DEFINE S == Eligible(n, table)
            R == Better(S, table)
<1>1. /\ S \subseteq Nodes /\ IsFiniteSet(S)
      /\ \A p \in S : p \in Nodes /\ table[p].view \in Views
  <2>1. S \subseteq Nodes
    BY DEF Eligible, Listed
  <2>2. \A p \in S : table[p] \in Entries
    BY DEF Eligible, Listed, Tables
  <2>. QED  BY <2>1, <2>2, NodesAssumption, FS_Subset DEF Entries
<1>2. \A p, q \in S : <<p, q>> \in R <=> Beats(table[p].view, p, table[q].view, q)
  BY DEF Better
<1>. HIDE DEF R
<1>3. \A p, q \in S : p # q => <<p, q>> \in R \/ <<q, p>> \in R
  BY <1>1, <1>2, BeatsOrders
<1>4. \A p, q, r \in S : <<p, q>> \in R /\ <<q, r>> \in R => <<p, r>> \in R
  BY <1>1, <1>2, BeatsOrders
<1>5. PICK b \in S : \A p \in S \ {b} : <<b, p>> \in R
  BY <1>1, <1>3, <1>4, OneIsAbove
<1>6. b \in Best(n, table)
  BY <1>2, <1>5 DEF Best
<1>7. \A p \in Best(n, table) : p = b
  BY <1>1, <1>6, BeatsOrders DEF Best
<1>. QED  BY <1>6, <1>7

\* Every election of a node has exactly one result, whatever its table (run_election).
\* So no node waits for ever with a frame or a tick that its election cannot end.
THEOREM ElectionIsDecided ==
    ASSUME NEW n \in Nodes, NEW table \in Tables
    PROVE  \E view : Elected(n, table) = {view}
<1>1. CASE n \in world.forced \/ Eligible(n, table) = {}
  BY <1>1 DEF Elected
<1>2. CASE ~(n \in world.forced \/ Eligible(n, table) = {})
  <2>1. PICK p \in Eligible(n, table) : Best(n, table) = {p}
    BY <1>2, OneIsBest
  <2>2. Elected(n, table) = {Follow(p, table[p].view)}
    BY <1>2, <2>1 DEF Elected
  <2>. QED  BY <2>2
<1>. QED  BY <1>1, <1>2

-----------------------------------------------------------------------------
\* An election of n, as seen by the invariant.
LEMMA ReelectStep ==
    ASSUME IInv, UNCHANGED <<world, up>>, NEW n \in up, NEW table \in Tables, table[n] = NoPeer,
           Reelect(n, table)
    PROVE  /\ elect' \in [Nodes -> Views] /\ peers' \in [Nodes -> Tables]
           /\ elect'[n] \in Elected(n, table) /\ elect'[n] \in Views
           /\ Resting' /\ NotItself' /\ UpToDate'
<1>1. PICK v \in Elected(n, table) : elect' = [elect EXCEPT ![n] = v]
  BY DEF Reelect
<1>2. n \in Nodes /\ v \in Views
  BY <1>1, ElectedType DEF IInv, TypeOK
<1>3. /\ elect' \in [Nodes -> Views] /\ elect'[n] = v
      /\ \A m \in Nodes \ {n} : elect'[m] = elect[m]
  BY <1>1, <1>2 DEF IInv, TypeOK
<1>4. peers \in [Nodes -> Tables]
  BY DEF IInv, TypeOK, Tables, Entries
<1>5. /\ peers' \in [Nodes -> Tables] /\ peers'[n] = table
      /\ \A m \in Nodes \ {n} : peers'[m] = peers[m]
  BY <1>2, <1>4 DEF Reelect
<1>6. Resting'
  BY <1>2, <1>3, <1>5, SameElection DEF IInv, Resting
<1>7. NotItself'
  BY <1>2, <1>5 DEF IInv, NotItself
<1>8. UpToDate'
  <2>1. ASSUME NEW m \in up PROVE elect'[m] \in Elected(m, peers'[m])
    BY <1>1, <1>2, <1>3, <1>5 DEF IInv, UpToDate, TypeOK
  <2>2. up \subseteq Nodes
    BY DEF IInv, TypeOK
  <2>. QED  BY <2>1, <2>2, SameElection DEF UpToDate
<1>. QED  BY <1>1, <1>2, <1>3, <1>5, <1>6, <1>7, <1>8

LEMMA Step == IInv /\ [Next]_vars => IInv'
<1>. SUFFICES ASSUME IInv, [Next]_vars PROVE IInv'
  OBVIOUS
<1>a. /\ peers \in [Nodes -> Tables] /\ elect \in [Nodes -> Views] /\ up \subseteq Nodes
      /\ synced \in [Nodes -> Nodes \cup {NoNode}] /\ clockOf \in [Nodes -> Nodes \cup {NoNode}]
      /\ disturbances \in 0..MaxDisturbances /\ world \in Worlds
  BY DEF IInv, TypeOK, Tables, Entries
<1>b. \A v \in Views : v.master \in Nodes
  BY DEF Views
<1>c. ASSUME Disturb \/ UNCHANGED disturbances PROVE disturbances' \in 0..MaxDisturbances
  BY <1>a, <1>c, BoundAssumption DEF Disturb
<1>1. ASSUME NEW n \in Nodes, NEW p \in Nodes, NEW frame \in Frames, Receive(n, p, frame)
      PROVE  IInv'
  <2>. DEFINE table == Touched(n, p, frame.kind)
  <2>1. n \in up /\ p # n /\ Reelect(n, table) /\ UNCHANGED <<world, up>>
    BY <1>1 DEF Receive
  <2>2. table \in Tables /\ table[p].view = elect[p] /\ table[n] = NoPeer
    <3>1. [view |-> elect[p], age |-> 0, valid |-> peers[n][p].valid \/ frame.kind = "Mif"] \in Entries
      <4>1. peers[n][p].valid \in BOOLEAN
        <5>1. peers[n][p] \in Entries \cup {NoPeer}
          BY <1>a DEF Tables
        <5>2. NoPeer.valid = FALSE /\ \A e \in Entries : e.valid \in BOOLEAN
          BY DEF NoPeer, Entries
        <5>. QED  BY <5>1, <5>2, Zenon
      <4>. QED  BY <1>a, <4>1, HeightAssumption DEF Entries
    <3>2. peers[n] \in Tables /\ peers[n][n] = NoPeer
      BY <1>a DEF IInv, NotItself
    <3>. QED  BY <2>1, <3>1, <3>2 DEF Touched, Tables
  <2>. HIDE DEF table
  <2>3. /\ elect' \in [Nodes -> Views] /\ peers' \in [Nodes -> Tables]
        /\ elect'[n] \in Elected(n, table) /\ elect'[n] \in Views
        /\ Resting' /\ NotItself' /\ UpToDate'
    BY <2>1, <2>2, ReelectStep
  <2>4. /\ synced' = [synced EXCEPT ![n] =
                IF TakesClock(n, p, frame.timed) THEN elect'[n].master ELSE StillSynced(n)]
        /\ clockOf' = [clockOf EXCEPT ![n] =
                IF TakesClock(n, p, frame.timed) THEN elect[p].master ELSE @]
    BY <1>1 DEF Receive
  <2>5. TakesClock(n, p, frame.timed) => elect'[n].master = elect[p].master
    <3>1. \/ elect'[n] = Self(n)
          \/ \E q \in Nodes : elect'[n] = Follow(q, table[q].view)
      BY <2>2, <2>3, ElectedType DEF IInv
    <3>2. Self(n).sync = n /\ \A q, v : Follow(q, v).sync = q /\ Follow(q, v).master = v.master
      BY DEF Self, Follow
    <3>3. ASSUME elect'[n].sync = p PROVE elect'[n].master = elect[p].master
      BY <2>1, <2>2, <3>1, <3>2, <3>3
    <3>. QED  BY <3>3 DEF TakesClock
  <2>6. StillSynced(n) \in {NoNode, synced[n]}
    BY DEF StillSynced
  <2>7. /\ synced' \in [Nodes -> Nodes \cup {NoNode}] /\ clockOf' \in [Nodes -> Nodes \cup {NoNode}]
        /\ ClockIsTaken'
    <3>1. CASE TakesClock(n, p, frame.timed)
      BY <1>a, <1>b, <2>3, <2>4, <2>5, <3>1 DEF IInv, ClockIsTaken
    <3>2. CASE ~TakesClock(n, p, frame.timed)
      BY <1>a, <2>4, <2>6, <3>2 DEF IInv, ClockIsTaken
    <3>. QED  BY <3>1, <3>2
  <2>8. disturbances' \in 0..MaxDisturbances
    BY <1>1, <1>c DEF Receive
  <2>9. TypeOK'
    BY <1>a, <2>1, <2>3, <2>7, <2>8 DEF TypeOK, Tables, Entries
  <2>. QED  BY <2>3, <2>7, <2>9 DEF IInv
<1>2. ASSUME NEW n \in Nodes, Clean(n) PROVE IInv'
  <2>1. n \in up /\ Reelect(n, Aged(n)) /\ UNCHANGED <<world, up, clockOf>>
    BY <1>2 DEF Clean
  <2>2. Aged(n) \in Tables /\ Aged(n)[n] = NoPeer
    <3>1. ASSUME NEW p \in Nodes, peers[n][p] # NoPeer, ~(peers[n][p].age >= Lease)
          PROVE  [peers[n][p] EXCEPT !.age = @ + 1] \in Entries
      BY <1>a, <3>1, HeightAssumption DEF Tables, Entries
    <3>. QED  BY <3>1 DEF Aged, Tables, IInv, NotItself
  <2>3. /\ elect' \in [Nodes -> Views] /\ peers' \in [Nodes -> Tables]
        /\ Resting' /\ NotItself' /\ UpToDate'
    BY <2>1, <2>2, ReelectStep
  <2>4. synced' = [synced EXCEPT ![n] = StillSynced(n)] /\ StillSynced(n) \in {NoNode, synced[n]}
    BY <1>2 DEF Clean, StillSynced
  <2>5. synced' \in [Nodes -> Nodes \cup {NoNode}] /\ ClockIsTaken'
    BY <1>a, <2>1, <2>4 DEF IInv, ClockIsTaken
  <2>6. disturbances' \in 0..MaxDisturbances
    BY <1>2, <1>c DEF Clean
  <2>7. TypeOK'
    BY <1>a, <2>1, <2>3, <2>5, <2>6 DEF TypeOK, Tables, Entries
  <2>. QED  BY <2>3, <2>5, <2>7 DEF IInv
<1>3. ASSUME NEW n \in Nodes, Stop(n) PROVE IInv'
  <2>. DEFINE empty == [p \in Nodes |-> NoPeer]
  <2>1. empty \in Tables /\ empty[n] = NoPeer /\ Self(n) \in Views
    BY SelfType DEF Tables, IInv
  <2>2. /\ UNCHANGED world /\ up' = up \ {n}
        /\ elect' = [elect EXCEPT ![n] = Self(n)] /\ peers' = [peers EXCEPT ![n] = empty]
        /\ synced' = [synced EXCEPT ![n] = NoNode] /\ clockOf' = [clockOf EXCEPT ![n] = NoNode]
        /\ disturbances' \in 0..MaxDisturbances
    BY <1>3, <1>c DEF Stop
  <2>. HIDE DEF empty
  <2>3. /\ elect' \in [Nodes -> Views] /\ peers' \in [Nodes -> Tables]
        /\ elect'[n] = Self(n) /\ peers'[n] = empty
        /\ \A m \in Nodes \ {n} : elect'[m] = elect[m] /\ peers'[m] = peers[m]
    BY <1>a, <2>1, <2>2
  <2>4. synced' \in [Nodes -> Nodes \cup {NoNode}] /\ clockOf' \in [Nodes -> Nodes \cup {NoNode}]
        /\ ClockIsTaken'
    BY <1>a, <2>2 DEF IInv, ClockIsTaken
  <2>5. TypeOK'
    BY <1>a, <2>2, <2>3, <2>4 DEF TypeOK, Tables, Entries
  <2>6. Resting'
    BY <2>2, <2>3, SameElection DEF IInv, Resting, empty
  <2>7. NotItself'
    BY <2>1, <2>3 DEF IInv, NotItself
  <2>8. UpToDate'
    BY <1>a, <2>2, <2>3, SameElection DEF IInv, UpToDate
  <2>. QED  BY <2>4, <2>5, <2>6, <2>7, <2>8 DEF IInv
<1>4. ASSUME NEW n \in Nodes, Start(n) PROVE IInv'
  <2>1. /\ n \notin up /\ up' = up \cup {n}
        /\ UNCHANGED <<world, elect, peers, synced, clockOf, disturbances>>
    BY <1>4 DEF Start
  <2>2. TypeOK' /\ NotItself' /\ ClockIsTaken'
    BY <1>a, <2>1 DEF IInv, TypeOK, NotItself, ClockIsTaken
  <2>3. Resting'
    BY <2>1, SameElection DEF IInv, Resting
  <2>4. elect[n] \in Elected(n, peers[n])
    BY <2>1, EmptyTable DEF IInv, Resting
  <2>5. UpToDate'
    BY <1>a, <2>1, <2>4, SameElection DEF IInv, UpToDate
  <2>. QED  BY <2>2, <2>3, <2>5 DEF IInv
<1>5. CASE UNCHANGED vars
  <2>1. UNCHANGED <<world, up, elect, peers, synced, clockOf, disturbances>>
    BY <1>5 DEF vars
  <2>. QED
    BY <1>a, <2>1, SameElection DEF IInv, TypeOK, Resting, NotItself, ClockIsTaken, UpToDate
<1>. QED  BY <1>1, <1>2, <1>3, <1>4, <1>5 DEF Next

-----------------------------------------------------------------------------
LEMMA ClockFollows == IInv => ClockIsOfCluster
  BY NodesAssumption DEF IInv, ClockIsTaken, ClockIsOfCluster, HasMasterSync, TypeOK, Views

LEMMA ForestFollows == IInv => SettledIsForest
<1>. SUFFICES ASSUME IInv, Settled, NEW n \in up
              PROVE  IF elect[n].sync = n THEN elect[n] = Self(n)
                     ELSE /\ elect[n].sync \in up
                          /\ elect[n].height = elect[elect[n].sync].height + 1
                          /\ elect[n].master = elect[elect[n].sync].master
  BY DEF SettledIsForest
<1>1. n \in Nodes /\ peers[n] \in Tables /\ elect[n] \in Elected(n, peers[n]) /\ TypeOK
  BY DEF IInv, TypeOK, UpToDate, Tables, Entries
<1>2. CASE elect[n] = Self(n)
  BY <1>2 DEF Self
<1>3. CASE \E p \in Nodes : peers[n][p] # NoPeer /\ elect[n] = Follow(p, peers[n][p].view)
  <2>1. PICK p \in Nodes : peers[n][p] # NoPeer /\ elect[n] = Follow(p, peers[n][p].view)
    BY <1>3
  <2>2. p # n /\ p \in up /\ peers[n][p].view = elect[p]
    BY <1>1, <2>1 DEF IInv, NotItself, Settled, Listed
  <2>. QED  BY <2>1, <2>2 DEF Follow
<1>. QED  BY <1>1, <1>2, <1>3, ElectedType

\* Every reachable state is well typed; in particular no tree grows over the
\* limit of run_election.
THEOREM TypeCorrect == Spec => []TypeOK
<1>1. IInv => TypeOK
  BY DEF IInv
<1>. QED  BY <1>1, InitOK, Step, PTL DEF Spec

\* A node that reports to be synchronised (has_master_sync) took its clock from
\* a frame that named its present master.
THEOREM ClockIsKept == Spec => []ClockIsOfCluster
<1>. QED  BY InitOK, Step, ClockFollows, PTL DEF Spec

\* Nodes with current views of each other form trees (run_election, clean_peers).
THEOREM ForestIsKept == Spec => []SettledIsForest
<1>. QED  BY InitOK, Step, ForestFollows, PTL DEF Spec

\* Whom the running nodes name runs, and leads itself.
MastersRun == Settled => \A n \in up : elect[n].master \in up /\ elect[elect[n].master].sync = elect[n].master

\* Of the nodes whose master does not run the nearest to the root would have a nearer one.
LEMMA RootsRun == IInv => MastersRun
<1>. SUFFICES ASSUME IInv, Settled PROVE \A n \in up : elect[n].master \in up /\ elect[elect[n].master].sync = elect[n].master
  BY DEF MastersRun
<1>. DEFINE Led(n) == elect[n].master \in up /\ elect[elect[n].master].sync = elect[n].master
            Heights == {elect[n].height : n \in {m \in up : ~Led(m)}}
<1>1. \A n \in up : elect[n].height \in Nat
  BY HeightAssumption DEF IInv, TypeOK, Views
<1>2. SUFFICES ASSUME Heights # {} PROVE FALSE
  OBVIOUS
<1>3. PICK h \in Heights : \A k \in Heights : h <= k
  BY <1>1, <1>2, LeastNumber
<1>4. PICK n \in up : ~Led(n) /\ h = elect[n].height
  BY <1>3
<1>. DEFINE p == elect[n].sync
<1>5. IF p = n THEN elect[n] = Self(n)
      ELSE p \in up /\ elect[n].height = elect[p].height + 1 /\ elect[n].master = elect[p].master
  BY ForestFollows DEF SettledIsForest
<1>6. CASE p = n
  BY <1>4, <1>5, <1>6 DEF Self
<1>7. CASE p # n
  <2>1. p \in up /\ ~Led(p) /\ elect[p].height < h /\ elect[p].height \in Nat /\ h \in Nat
    <3>1. p \in up /\ elect[n].height = elect[p].height + 1 /\ elect[n].master = elect[p].master
      BY <1>5, <1>7
    <3>2. ~Led(p)
      BY <1>4, <3>1
    <3>3. elect[p].height \in Nat
      BY <1>1, <3>1
    <3>4. h = elect[p].height + 1
      BY <1>4, <3>1
    <3>. HIDE DEF p, Led
    <3>. QED  BY <3>1, <3>2, <3>3, <3>4
  <2>2. elect[p].height \in Heights
    BY <2>1
  <2>3. ~(h <= elect[p].height)
    BY <2>1
  <2>. HIDE DEF Heights
  <2>. QED  BY <1>3, <2>2, <2>3
<1>. QED  BY <1>6, <1>7

\* Once views are current every node follows, over its parents, a master that runs and
\* leads itself: no master that has gone survives the exchange of views (run_election,
\* clean_peers).
THEOREM MastersAreAlive == Spec => []MastersRun
<1>. QED  BY InitOK, Step, RootsRun, PTL DEF Spec
=============================================================================
