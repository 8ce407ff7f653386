----------------------------- MODULE NodeProofs -----------------------------
(***************************************************************************)
(* For any peers, clocks, schedules, queue sizes and debounce times:       *)
(* unicasts to a peer leave in the order of the host; the schedule goes    *)
(* from one master to another only after that one has won every election   *)
(* for the whole debounce time; no reservation is opened by the grant of   *)
(* another; an own radio is never led to a channel it may not use, and to  *)
(* every social one if the announced schedules have room and one was       *)
(* followed that is not the node's own; and a multicast that nothing       *)
(* disturbs is tried on every channel of the schedule.                     *)
(***************************************************************************)
EXTENDS Node, FiniteSetTheorems, WellFoundedInduction, TLAPS

\* Frames are numbered as the host hands them over; none is numbered yet that is to come.
Frame == [id : Nat, dst : Peers, age : Nat]
Numbered ==
    /\ frames \in Nat
    /\ txq \subseteq Frame
    /\ \A f \in txq : f.id <= frames
    /\ \A e \in sent : e.id \in Nat /\ e.id <= frames

InOrder == Numbered /\ TxInOrder

\* Without data nothing pins the radio.
Unpinned == "data" \notin world.inputs => rxq = <<>> /\ pin = NoPin

\* The schedule that is waited for is that of the elected master, who was elected for as
\* long as it is waited for.
Patient ==
    "data" \notin world.inputs /\ ~Fixed =>
        /\ pending = winner
        /\ pendAge \in Nat /\ won \in Nat
        /\ pendAge <= won /\ pendAge <= Debounce

Debounced == Unpinned /\ Patient
-----------------------------------------------------------------------------
(* Numbers, and steps that are numbered.                                   *)

\* A set of numbers that is not empty has a least one.
LEMMA LeastNumber ==
    ASSUME NEW T \in SUBSET Nat, T # {}
    PROVE  \E x \in T : \A y \in T : x <= y
<1>. DEFINE Less == {s \in Nat \X Nat : s[1] < s[2]}
<1>1. IsWellFoundedOn(Less, Nat)
  <2>1. OpToRel(<, Nat) = Less
    BY DEF OpToRel
  <2>. QED  BY <2>1, NatLessThanWellFounded
<1>2. \A x, y \in Nat : <<y, x>> \notin Less => x <= y
  OBVIOUS
<1>. HIDE DEF Less
<1>3. PICK x \in T : \A y \in T : <<y, x>> \notin Less
  BY <1>1, WFMin
<1>4. \A y \in T : x <= y
  BY <1>2, <1>3
<1>. QED  BY <1>4

\* Of numbers up to a limit one is the greatest.
LEMMA Greatest ==
    ASSUME NEW n \in Nat, NEW S \in SUBSET (0..n), S # {}
    PROVE  Max(S) \in S
<1>. DEFINE T == {n - s : s \in S}
<1>1. PICK t \in T : \A y \in T : t <= y
  <2>1. \A s \in S : n - s \in Nat
    OBVIOUS
  <2>2. T \in SUBSET Nat /\ T # {}
    BY <2>1
  <2>. HIDE DEF T
  <2>. QED  BY <2>2, LeastNumber
<1>2. PICK high \in S : t = n - high
  OBVIOUS
<1>3. \A y \in S : high >= y
  <2>. SUFFICES ASSUME NEW y \in S PROVE high >= y
    OBVIOUS
  <2>1. n - high <= n - y
    <3>1. n - y \in T
      OBVIOUS
    <3>. HIDE DEF T
    <3>. QED  BY <1>1, <1>2, <3>1
  <2>2. n \in Nat /\ high \in Nat /\ y \in Nat
    OBVIOUS
  <2>. QED  BY <2>1, <2>2
<1>. QED  BY <1>3 DEF Max

LEMMA Least ==
    ASSUME NEW S \in SUBSET Nat, S # {}
    PROVE  Min(S) \in S
<1>1. PICK low \in S : \A y \in S : low <= y
  BY LeastNumber
<1>. QED  BY <1>1 DEF Min

\* Of things that are counted and not more than so many, some are the most.
LEMMA MostOften ==
    ASSUME NEW some, some # {}, NEW N \in Nat, NEW count \in [some -> 0..N]
    PROVE  \E c \in some : \A d \in some : count[d] <= count[c]
<1>. DEFINE T == {N - count[c] : c \in some}
<1>1. T \in SUBSET Nat /\ T # {}
  OBVIOUS
<1>2. PICK t \in T : \A y \in T : t <= y
  <2>. HIDE DEF T
  <2>. QED  BY <1>1, LeastNumber
<1>3. PICK c \in some : t = N - count[c]
  OBVIOUS
<1>4. \A d \in some : count[d] <= count[c]
  <2>. SUFFICES ASSUME NEW d \in some PROVE count[d] <= count[c]
    OBVIOUS
  <2>1. N - count[d] \in T
    OBVIOUS
  <2>2. N - count[c] <= N - count[d]
    <3>. HIDE DEF T
    <3>. QED  BY <1>2, <1>3, <2>1
  <2>. QED  BY <2>2
<1>. QED  BY <1>4

\* What is reached from 0 in steps of 1 is everything up to n.
LEMMA Stepwise ==
    ASSUME NEW n \in Nat, NEW good, 0 \in good,
           \A i \in 1..n : i - 1 \in good => i \in good
    PROVE  \A i \in 0..n : i \in good
<1>. DEFINE Bad == (0..n) \ good
<1>1. SUFFICES ASSUME Bad # {} PROVE FALSE
  OBVIOUS
<1>2. PICK i \in Bad : \A j \in Bad : i <= j
  <2>1. Bad \in SUBSET Nat
    OBVIOUS
  <2>. HIDE DEF Bad
  <2>. QED  BY <1>1, <2>1, LeastNumber
<1>3. i \in 1..n
  OBVIOUS
<1>4. i - 1 \in Bad
  BY <1>3
<1>5. ~(i <= i - 1)
  BY <1>3
<1>. HIDE DEF Bad
<1>. QED  BY <1>2, <1>4, <1>5

\* h starts with a and goes on by step.
Chain(h, S, a, n, step) ==
    /\ h \in [0..n -> S]
    /\ \A i \in 0..n : h[i] = IF i = 0 THEN a ELSE step[<<h[i - 1], i>>]

\* A step that is taken for each of the first n numbers leads somewhere.
LEMMA Iterate ==
    ASSUME NEW S, NEW a \in S, NEW n \in Nat, NEW step \in [S \X (1..n) -> S]
    PROVE  \E h : Chain(h, S, a, n, step)
<1>. DEFINE To(h, k) == /\ h \in [0..k -> S]
                        /\ \A i \in 0..k : h[i] = IF i = 0 THEN a ELSE step[<<h[i - 1], i>>]
            Good == {k \in 0..n : \E h : To(h, k)}
<1>1. 0 \in Good
  <2>1. To([i \in 0..0 |-> a], 0)
    OBVIOUS
  <2>2. 0 \in 0..n
    OBVIOUS
  <2>. QED  BY <2>1, <2>2
<1>2. ASSUME NEW k \in 1..n, k - 1 \in Good PROVE k \in Good
  <2>1. PICK h : To(h, k - 1)
    BY <1>2
  <2>2. step[<<h[k - 1], k>>] \in S
    <3>1. h[k - 1] \in S
      BY <2>1
    <3>. QED  BY <3>1
  <2>. DEFINE g == [i \in 0..k |-> IF i = k THEN step[<<h[k - 1], k>>] ELSE h[i]]
  <2>3. g \in [0..k -> S]
    <3>1. \A i \in 0..k : i # k => h[i] \in S
      BY <2>1
    <3>. QED  BY <2>2, <3>1
  <2>4. ASSUME NEW i \in 0..k PROVE g[i] = IF i = 0 THEN a ELSE step[<<g[i - 1], i>>]
    <3>1. CASE i = k
      <4>1. i - 1 \in 0..k /\ i - 1 # k /\ i # 0
        BY <3>1
      <4>. QED  BY <3>1, <4>1
    <3>2. CASE i # k
      <4>1. i \in 0..(k - 1) /\ (i # 0 => i - 1 \in 0..k /\ i - 1 # k)
        BY <3>2
      <4>2. h[i] = IF i = 0 THEN a ELSE step[<<h[i - 1], i>>]
        BY <2>1, <4>1
      <4>. QED  BY <3>2, <4>1, <4>2
    <3>. QED  BY <3>1, <3>2
  <2>. HIDE DEF g
  <2>5. To(g, k)
    BY <2>3, <2>4
  <2>. QED  BY <2>5
<1>3. n \in Good
  <2>1. \A i \in 0..n : i \in Good
    <3>. HIDE DEF Good
    <3>. QED  BY <1>1, <1>2, Stepwise
  <2>2. n \in 0..n
    OBVIOUS
  <2>. QED  BY <2>1, <2>2
<1>4. PICK h : To(h, n)
  BY <1>3
<1>. QED  BY <1>4 DEF Chain
\* What is left of a queue was at those places.
At(q, places) == {q[i] : i \in {j \in 1..Len(q) : j \in places}}

LEMMA OfPlaces ==
    ASSUME NEW U, NEW q \in Seq(U), NEW places
    PROVE  Those(q, places) \in Seq(At(q, places))
<1>. DEFINE S == At(q, places)
            N == Len(q)
            Next1(r, i) == IF i \in places THEN Append(r, q[i]) ELSE r
            step == [p \in Seq(S) \X (1..N) |-> Next1(p[1], p[2])]
            those == CHOOSE h : h = [i \in 0..N |->
                        IF i = 0 THEN <<>> ELSE IF i \in places THEN Append(h[i - 1], q[i]) ELSE h[i - 1]]
            good == {i \in 0..N : those[i] \in Seq(S)}
<1>1. Those(q, places) = those[N]
  BY DEF Those
<1>2. N \in Nat /\ \A i \in 1..N : i \in places => q[i] \in S
  BY DEF At
<1>3. \E h : h = [i \in 0..N |->
                     IF i = 0 THEN <<>> ELSE IF i \in places THEN Append(h[i - 1], q[i]) ELSE h[i - 1]]
  <2>1. step \in [Seq(S) \X (1..N) -> Seq(S)]
    BY <1>2
  <2>. DEFINE Q == Seq(S)
              none == <<>>
  <2>2. PICK h : Chain(h, Q, none, N, step)
    <3>1. none \in Q
      OBVIOUS
    <3>2. step \in [Q \X (1..N) -> Q]
      BY <2>1
    <3>3. N \in Nat
      BY <1>2
    <3>. HIDE DEF N, step, Q, none
    <3>. QED  BY <3>1, <3>2, <3>3, Iterate, Zenon
  <2>3. ASSUME NEW i \in 0..N, i # 0 PROVE step[<<h[i - 1], i>>] = Next1(h[i - 1], i)
    <3>1. i \in 1..N /\ i - 1 \in 0..N /\ h[i - 1] \in Q
      <4>1. i \in 1..N /\ i - 1 \in 0..N
        BY <1>2, <2>3
      <4>. HIDE DEF N, Q
      <4>. QED  BY <2>2, <4>1 DEF Chain
    <3>. HIDE DEF N, Next1
    <3>. QED  BY <3>1
  <2>. HIDE DEF step, N
  <2>. WITNESS h
  <2>. QED  BY <2>2, <2>3 DEF Chain
<1>4. those = [i \in 0..N |->
                  IF i = 0 THEN <<>> ELSE IF i \in places THEN Append(those[i - 1], q[i]) ELSE those[i - 1]]
  <2>. HIDE DEF N
  <2>. QED  BY <1>3
<1>. HIDE DEF those, N
<1>5. 0 \in good
  BY <1>2, <1>4
<1>6. ASSUME NEW i \in 1..N, i - 1 \in good PROVE i \in good
  <2>1. i \in 0..N /\ i # 0 /\ those[i - 1] \in Seq(S) /\ (i \in places => q[i] \in S)
    BY <1>2, <1>6
  <2>2. those[i] = IF i \in places THEN Append(those[i - 1], q[i]) ELSE those[i - 1]
    BY <1>4, <2>1
  <2>3. those[i] \in Seq(S)
    BY <2>1, <2>2
  <2>. QED  BY <2>1, <2>3
<1>7. \A i \in 0..N : i \in good
  <2>. HIDE DEF good
  <2>. QED  BY <1>2, <1>5, <1>6, Stepwise
<1>8. N \in good
  BY <1>2, <1>7
<1>. QED  BY <1>1, <1>8

LEMMA OfQueue ==
    ASSUME NEW S, NEW q \in Seq(S), NEW places
    PROVE  Those(q, places) \in Seq(S)
<1>1. Those(q, places) \in Seq(At(q, places))
  BY OfPlaces
<1>2. At(q, places) \in SUBSET S
  BY DEF At
<1>. QED  BY <1>1, <1>2

-----------------------------------------------------------------------------
(* The queue of unicasts.                                                  *)

\* A drain sends what is before all that it keeps for the same peer.
LEMMA DrainedInOrder ==
    ASSUME NEW q \in SUBSET Frame, NEW refused, NEW moment
    PROVE  LET d == DrainTx(q, refused, moment)
           IN  /\ d.keep \subseteq q /\ d.sent \subseteq q
               /\ \A f \in d.keep, e \in d.sent : e.dst = f.dst => e.id < f.id
<1>. DEFINE keep == {f \in q : \E e \in q : /\ e.dst = f.dst /\ e.id <= f.id
                                            /\ Outcome(e, refused, moment) = "hold"}
            out  == {f \in q \ keep : Outcome(f, refused, moment) = "send"}
<1>1. DrainTx(q, refused, moment) = [keep |-> keep, sent |-> out]
  BY DEF DrainTx
<1>2. keep \subseteq q /\ out \subseteq q
  OBVIOUS
<1>3. ASSUME NEW f \in keep, NEW e \in out, e.dst = f.dst PROVE e.id < f.id
  <2>1. PICK h \in q : h.dst = f.dst /\ h.id <= f.id /\ Outcome(h, refused, moment) = "hold"
    OBVIOUS
  <2>2. ~(h.id <= e.id)
    BY <1>3, <2>1
  <2>3. e.id \in Nat /\ h.id \in Nat /\ f.id \in Nat
    BY <1>2, <1>3, <2>1 DEF Frame
  <2>. QED  BY <2>1, <2>2, <2>3
<1>. HIDE DEF keep, out
<1>. QED  BY <1>1, <1>2, <1>3

\* The steps that leave the queue alone.
LEMMA QueueKept ==
    ASSUME InOrder, UNCHANGED <<frames, txq, sent>> PROVE InOrder'
  BY DEF InOrder, Numbered, TxInOrder

LEMMA SendOrder == ASSUME InOrder, Send PROVE InOrder'
<1>1. PICK refused \in SUBSET {f.id : f \in txq}, moment \in Moments :
         LET d == DrainTx(Unexpired(txq), refused, moment)
         IN  /\ txq' = d.keep
             /\ sent' = sent \cup {[id |-> f.id, dst |-> f.dst] : f \in d.sent}
  BY DEF Send
<1>. DEFINE d == DrainTx(Unexpired(txq), refused, moment)
<1>2. Unexpired(txq) \in SUBSET Frame /\ Unexpired(txq) \subseteq txq
  BY DEF Unexpired, InOrder, Numbered
<1>3. /\ d.keep \subseteq txq /\ d.sent \subseteq txq
      /\ \A f \in d.keep, e \in d.sent : e.dst = f.dst => e.id < f.id
  BY <1>2, DrainedInOrder
<1>4. /\ txq' = d.keep /\ UNCHANGED frames
      /\ sent' = sent \cup {[id |-> f.id, dst |-> f.dst] : f \in d.sent}
  BY <1>1 DEF Send
<1>. HIDE DEF d
<1>5. \A e \in sent' : \/ e \in sent
                       \/ \E f \in d.sent : e.id = f.id /\ e.dst = f.dst
  BY <1>4
<1>6. Numbered'
  BY <1>3, <1>4, <1>5 DEF InOrder, Numbered, Frame
<1>7. TxInOrder'
  BY <1>3, <1>4, <1>5 DEF InOrder, TxInOrder
<1>. QED  BY <1>6, <1>7 DEF InOrder

LEMMA UnicastOrder == ASSUME InOrder, NEW p \in Peers, TapUnicast(p) PROVE InOrder'
<1>. DEFINE new == [id |-> frames + 1, dst |-> p, age |-> 0]
<1>1. /\ frames \in Nat /\ frames' = frames + 1 /\ UNCHANGED sent
      /\ \A f \in txq' : f \in txq \/ f = new
  BY DEF TapUnicast, Queued, Unexpired, InOrder, Numbered
<1>2. new \in Frame /\ new.id = frames + 1
  BY <1>1 DEF Frame
<1>. HIDE DEF new
<1>3. Numbered'
  BY <1>1, <1>2 DEF InOrder, Numbered, Frame
<1>4. TxInOrder'
  BY <1>1, <1>2 DEF InOrder, Numbered, TxInOrder
<1>. QED  BY <1>3, <1>4 DEF InOrder

LEMMA PassOrder == ASSUME InOrder, Pass PROVE InOrder'
<1>1. txq' = {Aged(f, TxAge) : f \in txq} /\ UNCHANGED <<frames, sent>>
  BY DEF Pass, hist
<1>2. ASSUME NEW f \in Frame
      PROVE  Aged(f, TxAge) \in Frame /\ Aged(f, TxAge).id = f.id /\ Aged(f, TxAge).dst = f.dst
  BY DEF Aged, Frame
<1>3. \A g \in txq' : g \in Frame /\ \E f \in txq : g.id = f.id /\ g.dst = f.dst
  BY <1>1, <1>2 DEF InOrder, Numbered
<1>4. Numbered'
  BY <1>1, <1>3 DEF InOrder, Numbered
<1>5. TxInOrder'
  BY <1>1, <1>3 DEF InOrder, TxInOrder
<1>. QED  BY <1>4, <1>5 DEF InOrder

LEMMA OrderStep == InOrder /\ [Next]_vars => InOrder'
<1>. SUFFICES ASSUME InOrder, [Next]_vars PROVE InOrder'
  OBVIOUS
<1>1. CASE Timers(TRUE) \/ Timers(FALSE) \/ Driver \/ PollNothing \/ TapNothing
  BY <1>1, QueueKept DEF Timers, Driver, PollNothing, TapNothing, hist, queue
<1>2. CASE Send
  BY <1>2, SendOrder
<1>3. ASSUME NEW p \in Peers, NEW kind, NEW seq, NEW lead, Action(p, kind, seq, lead)
      PROVE  InOrder'
  BY <1>3, QueueKept DEF Action, hist
<1>4. ASSUME NEW p \in Peers, Data(p) PROVE InOrder'
  BY <1>4, QueueKept DEF Data, hist
<1>5. CASE TapMulticast
  <2>1. /\ frames' = frames + 1 /\ UNCHANGED <<txq, sent>>
    BY <1>5 DEF TapMulticast
  <2>. QED  BY <2>1 DEF InOrder, Numbered, TxInOrder, Frame
<1>6. ASSUME NEW p \in Peers, TapUnicast(p) PROVE InOrder'
  BY <1>6, UnicastOrder
<1>7. CASE Pass
  BY <1>7, PassOrder
<1>8. CASE UNCHANGED vars
  BY <1>8, QueueKept DEF vars, hist, queue
<1>. QED  BY <1>1, <1>2, <1>3, <1>4, <1>5, <1>6, <1>7, <1>8 DEF Next, Poll, Tap

\* Unicasts to a peer leave in the order of the host, none twice: see TxInOrder.  A frame
\* that is held holds all that follow it to the same peer (pending_tx.rs, PendingTx::drain).
THEOREM UnicastsInOrder == Spec => []TxInOrder
<1>1. Init => InOrder
  BY DEF Init, InOrder, Numbered, TxInOrder
<1>2. InOrder => TxInOrder
  BY DEF InOrder
<1>. QED  BY <1>1, <1>2, OrderStep, PTL DEF Spec
-----------------------------------------------------------------------------
(* The schedule that is followed.                                          *)

\* What a pass of sync_channel_sequence for the elected master does.
Follow ==
    /\ winner' = winner => won' = won
    /\ winner' # winner => won' = 0
    /\ \/ UNCHANGED <<committed, pending, pendAge>>
       \/ /\ winner' = committed' /\ pending' = winner' /\ pendAge' = 0
          /\ Settled(winner')
       \/ /\ UNCHANGED committed
          /\ pending' = winner' /\ pendAge' = IF winner' = pending THEN pendAge ELSE 0
    /\ ~Fixed /\ ~Pinned(pin) => pending' = winner'
    /\ Fixed => UNCHANGED committed

LEMMA SyncFollows ==
    ASSUME NEW t, NEW u, NEW channel, Elect(t), Sync(winner', u, channel)
    PROVE  Follow
<1>1. (winner' = winner => won' = won) /\ (winner' # winner => won' = 0)
  BY DEF Elect
<1>2. CASE Fixed
  BY <1>1, <1>2 DEF Sync, Follow
<1>3. CASE ~Fixed /\ Pinned(pin)
  BY <1>1, <1>3 DEF Sync, Follow, hop
<1>4. CASE ~Fixed /\ ~Pinned(pin)
  <2>1. CASE Settled(winner')
    BY <1>1, <1>4, <2>1 DEF Sync, Take, Follow
  <2>2. CASE ~Settled(winner')
    BY <1>1, <1>4, <2>2 DEF Sync, Hold, Follow
  <2>. QED  BY <2>1, <2>2
<1>. QED  BY <1>2, <1>3, <1>4

\* A step that does not hear data, and its change of masters.
Lasts ==
    ("data" \notin world.inputs
        /\ committed' # committed /\ {committed, committed'} \subseteq Peers)
            => winner' = winner /\ won >= Debounce

LEMMA FollowLasts ==
    ASSUME Debounced, Follow, UNCHANGED <<world, rxq, pin>>
    PROVE  Debounced' /\ Lasts
<1>1. Unpinned'
  BY DEF Debounced, Unpinned, NoPin
<1>2. ASSUME "data" \notin world.inputs, ~Fixed
      PROVE  /\ pending = winner /\ pendAge \in Nat /\ won \in Nat
             /\ pendAge <= won /\ pendAge <= Debounce /\ Debounce \in Nat
             /\ pending' = winner'
  <2>1. ~Pinned(pin)
    BY <1>2 DEF Debounced, Unpinned, Pinned, NoPin
  <2>. QED  BY <1>2, <2>1, NodeBounds DEF Debounced, Patient, Follow
<1>3. Patient'
  <2>. SUFFICES ASSUME "data" \notin world.inputs, ~Fixed
                PROVE  /\ pending' = winner' /\ pendAge' \in Nat /\ won' \in Nat
                       /\ pendAge' <= won' /\ pendAge' <= Debounce
    BY DEF Patient, Fixed, Mode
  <2>1. CASE winner' = winner
    BY <1>2, <2>1 DEF Follow
  <2>2. CASE winner' # winner
    BY <1>2, <2>2 DEF Follow
  <2>. QED  BY <2>1, <2>2
<1>4. Lasts
  <2>. SUFFICES ASSUME "data" \notin world.inputs, committed' # committed,
                       committed \in Peers, committed' \in Peers
                PROVE  winner' = winner /\ won >= Debounce
    BY DEF Lasts
  <2>1. ~Fixed /\ Settled(winner') /\ winner' = committed'
    BY DEF Follow
  <2>2. winner' = pending /\ pendAge >= Debounce
    BY <2>1, NodeAssumption DEF Settled
  <2>. QED  BY <1>2, <2>1, <2>2
<1>. QED  BY <1>1, <1>3, <1>4 DEF Debounced

LEMMA ElectionStays ==
    ASSUME Debounced, UNCHANGED <<world, winner, won, committed, pending, pendAge, rxq, pin>>
    PROVE  Debounced' /\ Lasts
  BY DEF Debounced, Unpinned, Patient, Lasts, NoPin, Fixed, Mode

\* Time passes for the election and the debounce alike.
LEMMA PassLasts == ASSUME Debounced, Pass PROVE Debounced' /\ Lasts
<1>1. /\ UNCHANGED <<world, winner, committed, pending>>
      /\ pendAge' = IF pendAge < Debounce THEN pendAge + 1 ELSE pendAge
      /\ won' = IF won < Debounce THEN won + 1 ELSE won
      /\ pin' = IF pin.age < PinTime THEN [pin EXCEPT !.age = @ + 1] ELSE NoPin
      /\ rxq' = Older(rxq, RxAge)
  BY DEF Pass
<1>2. Unpinned'
  <2>1. Older(<<>>, RxAge) = <<>>
    BY DEF Older
  <2>2. PinTime \in Nat
    BY NodeBounds
  <2>. QED  BY <1>1, <2>1, <2>2 DEF Debounced, Unpinned, NoPin
<1>3. Patient'
  BY <1>1, NodeBounds DEF Debounced, Patient, Fixed, Mode
<1>. QED  BY <1>1, <1>2, <1>3 DEF Debounced, Lasts

LEMMA DebounceStep == Debounced /\ [Next]_vars => Debounced' /\ Lasts
<1>. SUFFICES ASSUME Debounced, [Next]_vars PROVE Debounced' /\ Lasts
  OBVIOUS
<1>1. ASSUME NEW clean \in BOOLEAN, Timers(clean) PROVE Debounced' /\ Lasts
  <2>1. UNCHANGED <<world, rxq, pin>>
    BY <1>1 DEF Timers
  <2>2. UNCHANGED <<parent, hop>> \/ \E gone, channel : Lose(gone, channel)
    BY <1>1 DEF Timers
  <2>3. CASE UNCHANGED <<parent, hop>>
    BY <2>1, <2>3, ElectionStays DEF parent, hop
  <2>4. ASSUME NEW gone, NEW channel, Lose(gone, channel) PROVE Debounced' /\ Lasts
    BY <2>1, <2>4, SyncFollows, FollowLasts DEF Lose
  <2>. QED  BY <2>2, <2>3, <2>4
<1>2. CASE Send
  <2>1. UNCHANGED <<world, winner, won, committed, pending, pendAge>> /\ Release
    BY <1>2 DEF Send, parent, hop
  <2>2. Unpinned'
    <3>. SUFFICES ASSUME "data" \notin world.inputs PROVE rxq' = <<>> /\ pin' = NoPin
      BY <2>1 DEF Unpinned
    <3>1. rxq = <<>> /\ pin = NoPin
      BY DEF Debounced, Unpinned
    <3>2. \A places : Those(rxq, places) \in Seq({})
      <4>1. rxq \in Seq({})
        BY <3>1
      <4>. QED  BY <4>1, OfQueue
    <3>3. \A places : Those(rxq, places) = <<>>
      BY <3>2
    <3>4. DOMAIN rxq = {}
      BY <3>1
    <3>. QED  BY <2>1, <3>1, <3>3, <3>4 DEF Release
  <2>. QED  BY <2>1, <2>2 DEF Debounced, Patient, Lasts, Fixed, Mode
<1>3. CASE PollNothing \/ TapNothing \/ Driver
  BY <1>3, ElectionStays DEF PollNothing, TapNothing, Driver, parent, hop, queue
<1>4. ASSUME NEW p \in Peers, NEW kind, NEW seq, NEW lead, Action(p, kind, seq, lead)
      PROVE  Debounced' /\ Lasts
  <2>1. /\ UNCHANGED <<world, rxq, pin>>
        /\ Elect(Told(p, kind, seq, lead)) /\ Sync(winner', Told(p, kind, seq, lead), current)
    BY <1>4 DEF Action
  <2>. QED  BY <2>1, SyncFollows, FollowLasts
<1>5. ASSUME NEW p \in Peers, Data(p) PROVE Debounced' /\ Lasts
  <2>1. /\ "data" \in world.inputs
        /\ UNCHANGED <<world, winner, won, committed, pending, pendAge>>
    BY <1>5 DEF Data, parent, hop
  <2>. QED  BY <2>1 DEF Debounced, Unpinned, Patient, Lasts
<1>6. CASE TapMulticast
  BY <1>6, ElectionStays DEF TapMulticast, parent, hop
<1>7. ASSUME NEW p \in Peers, TapUnicast(p) PROVE Debounced' /\ Lasts
  BY <1>7, ElectionStays DEF TapUnicast, parent, hop
<1>8. CASE Pass
  BY <1>8, PassLasts
<1>9. CASE UNCHANGED vars
  BY <1>9, ElectionStays DEF vars, parent, hop, queue
<1>. QED  BY <1>1, <1>2, <1>3, <1>4, <1>5, <1>6, <1>7, <1>8, <1>9 DEF Next, Poll, Tap

\* The schedule goes from one master to another only when that one has won every election
\* for the whole debounce time: see ChallengersLast (lib.rs, master_adoption_decision and
\* sync_channel_sequence).
THEOREM ChallengersWait == Spec => ChallengersLast
<1>1. Init => Debounced
  BY NodeBounds DEF Init, Debounced, Unpinned, Patient
<1>2. Lasts => ((/\ "data" \notin world.inputs
                 /\ committed' # committed /\ {committed, committed'} \subseteq Peers)
                     => winner' = winner /\ won >= Debounce)
  BY DEF Lasts
<1>. QED  BY <1>1, <1>2, DebounceStep, PTL DEF Spec, ChallengersLast
-----------------------------------------------------------------------------
(* The reservation.                                                        *)

\* What the driver reports of the dwell of request id.
EventsOf(id) == [cookie : Cookies, ready : BOOLEAN, id : {id}]
Event == [cookie : Cookies, ready : BOOLEAN, id : Nat]

\* A dwell the driver was asked for.
Asked(d) ==
    d \in [id : Nat, cookie : Cookies, on : {d.on}, left : {d.left}]

\* A reservation has a cookie; if it has begun its own grant began it.
Granted(v) ==
    /\ v \in [id : Nat, accepted : {v.accepted}, cookie : {v.cookie}, early : {v.early},
              duration : {v.duration}, ready : {v.ready}, waited : {v.waited},
              ended : {v.ended}, grant : {v.grant}]
    /\ v.cookie # R!NoCookie
    /\ v.ready # R!NotReady => v.grant = v.id

Calls(m) ==
    /\ m = [resv |-> m.resv, events |-> m.events, driver |-> m.driver]
    /\ m.events \in Seq(Event)
    /\ m.driver = R!NoDwell \/ Asked(m.driver)

\* While there is a reservation the driver dwells for it alone, and no event is of another.
OwnDwell(m) ==
    m.resv # R!NoResv =>
        /\ Granted(m.resv)
        /\ m.events \in Seq(EventsOf(m.resv.id))
        /\ m.driver # R!NoDwell => m.driver.id = m.resv.id

Reserved == Calls(resv) /\ OwnDwell(resv) /\ requests \in Nat

\* h is the history of what the first n events leave heard.
Historic(h, v, events, n) ==
    h = [i \in 0..n |-> IF i = 0 THEN v ELSE R!Hear(h[i - 1], events[i])]

\* Up to each event there is a history of what was heard.
LEMMA History ==
    ASSUME NEW v, NEW events, Len(events) \in Nat
    PROVE  \E h : Historic(h, v, events, Len(events))
<1>. DEFINE To(h, n) == Historic(h, v, events, n)
            Bad == {n \in Nat : ~(\E h : To(h, n))}
<1>1. SUFFICES ASSUME Bad # {} PROVE FALSE
  OBVIOUS
<1>2. PICK n \in Bad : \A m \in Bad : n <= m
  BY <1>1, LeastNumber
<1>3. n # 0
  <2>1. To([i \in 0..0 |-> v], 0)
    BY DEF Historic
  <2>. QED  BY <2>1
<1>4. n - 1 \in Nat /\ n - 1 \notin Bad
  <2>1. n - 1 \in Nat /\ ~(n <= n - 1)
    BY <1>3
  <2>. HIDE DEF Bad
  <2>. QED  BY <1>2, <2>1
<1>5. PICK h : To(h, n - 1)
  BY <1>4
<1>. DEFINE g == [i \in 0..n |-> IF i = n THEN R!Hear(h[n - 1], events[n]) ELSE h[i]]
<1>6. \A i \in 0..n : g[i] = IF i = 0 THEN v ELSE R!Hear(g[i - 1], events[i])
  <2>1. SUFFICES ASSUME NEW i \in 0..n PROVE g[i] = IF i = 0 THEN v ELSE R!Hear(g[i - 1], events[i])
    OBVIOUS
  <2>2. CASE i = n
    <3>1. i - 1 \in 0..n /\ i - 1 # n /\ i # 0 /\ n \in 0..n
      BY <1>3, <2>2
    <3>. QED  BY <2>2, <3>1
  <2>3. CASE i # n
    <3>1. i \in 0..n-1 /\ (i # 0 => i - 1 \in 0..n /\ i - 1 # n)
      BY <2>3
    <3>2. h[i] = IF i = 0 THEN v ELSE R!Hear(h[i - 1], events[i])
      BY <1>5, <3>1 DEF Historic
    <3>. QED  BY <2>3, <3>1, <3>2
  <2>. QED  BY <2>2, <2>3
<1>7. To(g, n)
  BY <1>6 DEF Historic
<1>. QED  BY <1>2, <1>7

\* What no event leads out of, no events lead out of.
LEMMA HeardIn ==
    ASSUME NEW G, NEW E, NEW v \in G, NEW events \in Seq(E),
           \A u \in G, e \in E : R!Hear(u, e) \in G
    PROVE  R!HearAll(v, events) \in G
<1>. DEFINE heard == CHOOSE h : h = [i \in 0..Len(events) |-> IF i = 0 THEN v ELSE R!Hear(h[i - 1], events[i])]
            Bad == {i \in 0..Len(events) : heard[i] \notin G}
<1>1. heard = [i \in 0..Len(events) |-> IF i = 0 THEN v ELSE R!Hear(heard[i - 1], events[i])]
  <2>1. Len(events) \in Nat
    OBVIOUS
  <2>2. \E h : Historic(h, v, events, Len(events))
    BY <2>1, History, Zenon
  <2>. QED  BY <2>2 DEF Historic
<1>2. R!HearAll(v, events) = heard[Len(events)]
  BY DEF R!HearAll
<1>. HIDE DEF heard
<1>3. SUFFICES ASSUME Bad # {} PROVE FALSE
  BY <1>2
<1>4. Bad \in SUBSET Nat
  OBVIOUS
<1>5. PICK i \in Bad : \A j \in Bad : i <= j
  BY <1>3, <1>4, LeastNumber
<1>6. i # 0
  BY <1>1
<1>7. i - 1 \in 0..Len(events) /\ ~(i <= i - 1) /\ events[i] \in E
  BY <1>6
<1>8. i - 1 \notin Bad
  <2>. HIDE DEF Bad
  <2>. QED  BY <1>5, <1>7
<1>9. heard[i] = R!Hear(heard[i - 1], events[i])
  BY <1>1, <1>6
<1>. QED  BY <1>7, <1>8, <1>9

LEMMA GrantedIsOne == ASSUME NEW v, Granted(v) PROVE v # R!NoResv
<1>1. DOMAIN v # DOMAIN R!NoResv
  BY DEF Granted, R!NoResv
<1>. QED  BY <1>1

\* Events of its own keep a reservation as it should be.
LEMMA HearOwn ==
    ASSUME NEW v, Granted(v), NEW events \in Seq(EventsOf(v.id))
    PROVE  Granted(R!HearAll(v, events)) /\ R!HearAll(v, events).id = v.id
<1>. DEFINE All == [id : {v.id}, accepted : {v.accepted}, cookie : {v.cookie}, early : {v.early},
                    duration : {v.duration}, ready : {v.ready, v.duration, R!NotReady},
                    waited : {v.waited}, ended : {v.ended, TRUE}, grant : {v.grant, v.id}]
            G == {u \in All : u # R!NoResv /\ (u.ready # R!NotReady => u.grant = u.id)}
<1>1. v \in G
  BY GrantedIsOne DEF Granted
<1>2. ASSUME NEW u \in G, NEW e \in EventsOf(v.id) PROVE R!Hear(u, e) \in G
  <2>1. u \in All /\ u # R!NoResv /\ u.cookie # R!NoCookie /\ e.id = u.id
    BY DEF EventsOf, Granted
  <2>2. R!Hear(u, e) \in {u, R!Apply(u, e)}
    BY <2>1 DEF R!Hear
  <2>3. R!Apply(u, e) \in G
    <3>1. [u EXCEPT !.ended = TRUE, !.ready = R!NotReady] \in G
      BY <2>1 DEF R!NotReady, R!NoResv
    <3>2. [u EXCEPT !.ready = u.duration, !.grant = e.id] \in G
      BY <2>1 DEF R!NoResv
    <3>. QED  BY <3>1, <3>2 DEF R!Apply
  <2>. QED  BY <2>2, <2>3
<1>3. R!HearAll(v, events) \in G
  <2>. HIDE DEF G
  <2>. QED  BY <1>1, <1>2, HeardIn
<1>. QED  BY <1>3 DEF Granted

\* An empty reservation hears nothing.
LEMMA HearNothing ==
    ASSUME NEW events \in Seq(Event)
    PROVE  R!HearAll(R!NoResv, events) = R!NoResv
<1>1. \A u \in {R!NoResv}, e \in Event : R!Hear(u, e) \in {R!NoResv}
  BY DEF R!Hear
<1>. QED  BY <1>1, HeardIn

LEMMA DrainKeeps ==
    ASSUME NEW m, Calls(m), OwnDwell(m)
    PROVE  /\ Calls(R!Drain(m)) /\ OwnDwell(R!Drain(m))
           /\ R!Drain(m).driver = m.driver /\ R!Drain(m).events = <<>>
<1>. DEFINE w == R!HearAll(m.resv, m.events)
<1>1. R!Drain(m) = [resv |-> w, events |-> <<>>, driver |-> m.driver]
  <2>1. m = [resv |-> m.resv, events |-> m.events, driver |-> m.driver]
    BY DEF Calls
  <2>2. R!Drain(m) = [m EXCEPT !.resv = w, !.events = <<>>]
    BY DEF R!Drain
  <2>. HIDE DEF w
  <2>. QED  BY <2>1, <2>2
<1>2. \A E : <<>> \in Seq(E)
  OBVIOUS
<1>3. CASE m.resv = R!NoResv
  <2>1. w = R!NoResv
    BY <1>3, HearNothing DEF Calls
  <2>. HIDE DEF w
  <2>. QED  BY <1>1, <1>2, <2>1 DEF Calls, OwnDwell
<1>4. CASE m.resv # R!NoResv
  <2>1. w # R!NoResv /\ Granted(w) /\ w.id = m.resv.id
    BY <1>4, HearOwn, GrantedIsOne DEF OwnDwell
  <2>. HIDE DEF w
  <2>. QED  BY <1>1, <1>2, <1>4, <2>1 DEF Calls, OwnDwell
<1>. QED  BY <1>3, <1>4

\* Giving a reservation up leaves none.
LEMMA CancelKeeps ==
    ASSUME NEW m, Calls(m), NEW reported
    PROVE  /\ Calls(R!Cancel(m, reported)) /\ R!Cancel(m, reported).resv = R!NoResv
           /\ OwnDwell(R!Cancel(m, reported))
<1>. DEFINE x == R!Cancel(m, reported)
<1>1. /\ x.resv = R!NoResv
      /\ x = [resv |-> x.resv, events |-> x.events, driver |-> x.driver]
      /\ x.driver \in {m.driver, R!NoDwell}
      /\ x.events \in {m.events, <<>>, <<R!Ended(m.driver)>>}
      /\ x.events = <<R!Ended(m.driver)>> => x.events = m.events \/ m.driver # R!NoDwell
  BY DEF R!Cancel, Calls
<1>2. m.driver # R!NoDwell => R!Ended(m.driver) \in Event
  BY DEF Calls, Asked, R!Ended, Event
<1>3. x.events \in Seq(Event)
  <2>1. \A e \in Event : <<e>> \in Seq(Event)
    OBVIOUS
  <2>2. <<>> \in Seq(Event) /\ m.events \in Seq(Event)
    BY DEF Calls
  <2>. HIDE DEF x
  <2>. QED  BY <1>1, <1>2, <2>1, <2>2
<1>. HIDE DEF x
<1>4. Calls(x) /\ x.resv = R!NoResv
  BY <1>1, <1>3 DEF Calls
<1>. QED  BY <1>4 DEF OwnDwell, x

\* A new reservation finds no event of another: what was unread is heard before, and a
\* driver that still dwells refuses it.
LEMMA StartKeeps ==
    ASSUME NEW m, Calls(m), OwnDwell(m), NEW id \in Nat, NEW duration,
           NEW answer \in R!Answers, NEW c \in Cookies
    PROVE  LET s == R!StartRoc(m, id, duration, answer, c) IN Calls(s) /\ OwnDwell(s)
<1>. DEFINE s == R!StartRoc(m, id, duration, answer, c)
            clean == R!Drain(m)
            d == R!Dwell(id, c, answer, duration)
            v == R!Requested(id, duration)
            asked == [resv |-> v, events |-> <<>>, driver |-> clean.driver]
            gone == R!Cancel(asked, FALSE)
<1>1. Calls(clean) /\ clean = [resv |-> clean.resv, events |-> <<>>, driver |-> clean.driver]
  BY DrainKeeps DEF Calls
<1>2. [clean EXCEPT !.resv = v] = asked
  BY <1>1
<1>3. Calls(asked)
  BY <1>1 DEF Calls
<1>4. Asked(d) /\ d.id = id /\ d.cookie = c
  BY DEF Asked, R!Dwell
<1>5. c # R!NoCookie
  BY CookiesAssumption DEF R!NoCookie
<1>6. CASE clean.driver # R!NoDwell \/ answer = "refused"
  <2>1. s = gone
    BY <1>2, <1>6 DEF R!StartRoc, R!Clear
  <2>. QED  BY <1>3, <2>1, CancelKeeps
<1>7. CASE clean.driver = R!NoDwell /\ answer = "silent"
  <2>1. s = [gone EXCEPT !.driver = d]
    BY <1>2, <1>7 DEF R!StartRoc, R!Clear
  <2>2. Calls(gone) /\ gone.resv = R!NoResv
    BY <1>3, CancelKeeps
  <2>. HIDE DEF gone, d
  <2>. QED  BY <1>4, <2>1, <2>2 DEF Calls, OwnDwell
<1>. DEFINE Taken(h) == [R!LearnCookie(h, c) EXCEPT !.accepted = TRUE]
            Ready(h) == [resv |-> Taken(h), events |-> <<>>, driver |-> d]
            Fresh == [id : {id}, accepted : {FALSE}, cookie : {R!NoCookie},
                      early : {<<>>, <<R!Began(d)>>}, duration : {duration}, ready : {R!NotReady},
                      waited : {0}, ended : {FALSE}, grant : {0}]
<1>8. ASSUME NEW h \in Fresh PROVE Calls(Ready(h)) /\ OwnDwell(Ready(h))
  <2>. DEFINE u == [h EXCEPT !.cookie = c, !.early = <<>>]
              l == R!LearnCookie(h, c)
  <2>1. Granted(u) /\ u.id = id
    BY <1>5 DEF Granted
  <2>2. R!Began(d) \in EventsOf(id)
    BY <1>4 DEF R!Began, EventsOf
  <2>3. \A e \in EventsOf(id) : <<e>> \in Seq(EventsOf(id))
    OBVIOUS
  <2>4. h.early \in Seq(EventsOf(id))
    <3>1. h.early = <<>> \/ h.early = <<R!Began(d)>>
      OBVIOUS
    <3>2. <<>> \in Seq(EventsOf(id))
      OBVIOUS
    <3>. QED  BY <2>2, <2>3, <3>1, <3>2
  <2>5. l = R!HearAll(u, h.early)
    BY DEF R!LearnCookie
  <2>. HIDE DEF u, l
  <2>6. Granted(l) /\ l.id = id
    BY <2>1, <2>4, <2>5, HearOwn
  <2>7. Granted([l EXCEPT !.accepted = TRUE]) /\ [l EXCEPT !.accepted = TRUE].id = id
    BY <2>6 DEF Granted
  <2>8. Granted(Taken(h)) /\ Taken(h).id = id
    BY <2>7 DEF l
  <2>9. <<>> \in Seq(Event) /\ <<>> \in Seq(EventsOf(id))
    OBVIOUS
  <2>. HIDE DEF Taken, d
  <2>. QED  BY <1>4, <2>8, <2>9 DEF Calls, OwnDwell
<1>9. v \in Fresh
  BY DEF R!Requested
<1>10. CASE clean.driver = R!NoDwell /\ answer = "granted"
  <2>1. s = Ready(v)
    BY <1>2, <1>10 DEF R!StartRoc, R!Clear
  <2>. HIDE DEF v, Ready, Fresh
  <2>. QED  BY <1>8, <1>9, <2>1
<1>11. CASE clean.driver = R!NoDwell /\ answer = "early"
  <2>. DEFINE h == R!Hear(v, R!Began(d))
  <2>1. s = Ready(h)
    BY <1>2, <1>11 DEF R!StartRoc, R!Clear
  <2>2. h \in Fresh
    <3>1. R!Began(d).cookie # R!NoCookie
      BY <1>4, <1>5 DEF R!Began
    <3>2. v.cookie = R!NoCookie /\ v.early = <<>>
      BY DEF R!Requested
    <3>. HIDE DEF v
    <3>3. h \in {v, [v EXCEPT !.early = <<R!Began(d)>>]}
      BY <3>1, <3>2 DEF R!Hear
    <3>4. [v EXCEPT !.early = <<R!Began(d)>>] \in Fresh
      BY <1>9
    <3>. HIDE DEF h, Fresh
    <3>. QED  BY <1>9, <3>3, <3>4
  <2>. HIDE DEF h, v, Ready, Fresh
  <2>. QED  BY <1>8, <2>1, <2>2
<1>. HIDE DEF s, clean
<1>. QED  BY <1>6, <1>7, <1>10, <1>11 DEF R!Answers

LEMMA LaterKeeps ==
    ASSUME NEW m, Calls(m), OwnDwell(m)
    PROVE  Calls(R!Later(m)) /\ OwnDwell(R!Later(m))
<1>. DEFINE x == R!Later(m)
            v == R!Older(m.resv)
            d == R!Spent(m.driver)
<1>1. /\ x = [resv |-> x.resv, events |-> x.events, driver |-> x.driver] /\ x.events = m.events
      /\ x.resv = IF m.resv = R!NoResv THEN m.resv ELSE v
      /\ x.driver \in {m.driver, d} /\ (m.driver = R!NoDwell => x.driver = m.driver)
  <2>1. m = [resv |-> m.resv, events |-> m.events, driver |-> m.driver]
    BY DEF Calls
  <2>. DEFINE w == IF m.resv = R!NoResv THEN m.resv ELSE v
              runs == m.driver # R!NoDwell /\ m.driver.on /\ m.driver.left > 0
              y == IF runs THEN d ELSE m.driver
  <2>2. x = [m EXCEPT !.resv = w, !.driver = y]
    BY DEF R!Later
  <2>3. runs => m.driver # R!NoDwell
    OBVIOUS
  <2>. HIDE DEF x, v, d, runs
  <2>4. y \in {m.driver, d} /\ (m.driver = R!NoDwell => y = m.driver)
    BY <2>3
  <2>5. w = IF m.resv = R!NoResv THEN m.resv ELSE v
    OBVIOUS
  <2>. HIDE DEF w, y
  <2>. QED  BY <2>1, <2>2, <2>4, <2>5
<1>2. Granted(m.resv) => Granted(v) /\ v.id = m.resv.id
  <2>. DEFINE r == IF m.resv.ready > 0 THEN m.resv.ready - 1 ELSE m.resv.ready
              w == IF m.resv.waited < ReadyLimit THEN m.resv.waited + 1 ELSE m.resv.waited
  <2>1. v = [m.resv EXCEPT !.ready = r, !.waited = w]
    BY DEF R!Older
  <2>2. r # R!NotReady => m.resv.ready # R!NotReady
    BY DEF R!NotReady
  <2>. HIDE DEF v, r, w
  <2>. QED  BY <2>1, <2>2 DEF Granted
<1>3. Asked(m.driver) => Asked(d) /\ d.id = m.driver.id
  BY DEF Asked, R!Spent
<1>. HIDE DEF x, v, d
<1>4. Calls(x)
  BY <1>1, <1>3 DEF Calls
<1>5. OwnDwell(x)
  BY <1>1, <1>2, <1>3 DEF OwnDwell, Calls
<1>. QED  BY <1>4, <1>5 DEF x

LEMMA ReadyKeeps ==
    ASSUME NEW m, Calls(m), OwnDwell(m), m.driver # R!NoDwell
    PROVE  Calls(R!DriverReady(m)) /\ OwnDwell(R!DriverReady(m))
<1>. DEFINE x == R!DriverReady(m)
            d == [m.driver EXCEPT !.on = TRUE]
            e == R!Began(m.driver)
<1>1. x = [resv |-> m.resv, events |-> Append(m.events, e), driver |-> d]
  <2>1. m = [resv |-> m.resv, events |-> m.events, driver |-> m.driver]
    BY DEF Calls
  <2>2. x = [m EXCEPT !.driver = d, !.events = Append(m.events, e)]
    BY DEF R!DriverReady
  <2>. HIDE DEF x, d, e
  <2>. QED  BY <2>1, <2>2
<1>2. Asked(d) /\ d.id = m.driver.id
  BY DEF Calls, Asked
<1>3. e \in Event /\ e \in EventsOf(m.driver.id)
  BY DEF Calls, Asked, R!Began, Event, EventsOf
<1>. HIDE DEF x, d, e
<1>4. Calls(x)
  BY <1>1, <1>2, <1>3 DEF Calls
<1>5. OwnDwell(x)
  BY <1>1, <1>2, <1>3 DEF OwnDwell
<1>. QED  BY <1>4, <1>5 DEF x

LEMMA EndsKeeps ==
    ASSUME NEW m, Calls(m), OwnDwell(m), m.driver # R!NoDwell, NEW reported
    PROVE  Calls(R!DriverEnds(m, reported)) /\ OwnDwell(R!DriverEnds(m, reported))
<1>. DEFINE x == R!DriverEnds(m, reported)
            e == R!Ended(m.driver)
<1>1. /\ x = [resv |-> m.resv, events |-> x.events, driver |-> R!NoDwell]
      /\ x.events \in {m.events, Append(m.events, e)}
  <2>1. m = [resv |-> m.resv, events |-> m.events, driver |-> m.driver]
    BY DEF Calls
  <2>2. \E ev \in {m.events, Append(m.events, e)} :
            x = [m EXCEPT !.driver = R!NoDwell, !.events = ev]
    BY DEF R!DriverEnds
  <2>. HIDE DEF x, e
  <2>. QED  BY <2>1, <2>2
<1>2. e \in Event /\ e \in EventsOf(m.driver.id)
  BY DEF Calls, Asked, R!Ended, Event, EventsOf
<1>. HIDE DEF x, e
<1>3. Calls(x)
  BY <1>1, <1>2 DEF Calls
<1>4. OwnDwell(x)
  <2>1. x.resv = m.resv /\ x.driver = R!NoDwell
    BY <1>1
  <2>2. m.resv # R!NoResv => Granted(m.resv) /\ x.events \in Seq(EventsOf(m.resv.id))
    <3>1. SUFFICES ASSUME m.resv # R!NoResv
                   PROVE  Granted(m.resv) /\ x.events \in Seq(EventsOf(m.resv.id))
      OBVIOUS
    <3>2. /\ Granted(m.resv) /\ m.driver.id = m.resv.id
          /\ m.events \in Seq(EventsOf(m.resv.id))
      BY <3>1 DEF OwnDwell
    <3>3. e \in EventsOf(m.resv.id)
      BY <1>2, <3>2
    <3>4. Append(m.events, e) \in Seq(EventsOf(m.resv.id))
      BY <3>2, <3>3
    <3>5. x.events = m.events \/ x.events = Append(m.events, e)
      BY <1>1
    <3>. QED  BY <3>2, <3>4, <3>5, Zenon
  <2>. QED  BY <2>1, <2>2 DEF OwnDwell
<1>. QED  BY <1>3, <1>4 DEF x

\* RocCapture::tick gives the dwell up, asks for one, or hears what is unread.
LEMMA TickKeeps == ASSUME Reserved, Tick PROVE Reserved'
<1>. DEFINE Good(m) == Calls(m) /\ OwnDwell(m)
<1>1. PICK reported \in BOOLEAN : \/ TickHome(Rest(reported)) \/ TickNull(Rest(reported))
                                 \/ TickRequest(Rest(reported)) \/ TickDwell(Rest(reported))
  BY DEF Tick
<1>. DEFINE rest == Rest(reported)
<1>2. Good(rest.m)
  <2>1. rest.m \in {resv, R!Cancel(resv, reported)}
    BY DEF Rest
  <2>2. Good(resv) /\ Good(R!Cancel(resv, reported))
    BY CancelKeeps DEF Reserved
  <2>. HIDE DEF Good, rest
  <2>. QED  BY <2>1, <2>2
<1>. HIDE DEF rest
<1>3. CASE TickHome(rest) \/ TickNull(rest)
  BY <1>2, <1>3 DEF TickHome, TickNull, Reserved
<1>4. CASE TickRequest(rest)
  <2>1. PICK answer \in R!Answers, c \in Cookies :
            resv' = R!StartRoc(rest.m, requests + 1, Min({Remaining, 6}), answer, c)
    BY <1>4 DEF TickRequest
  <2>2. requests' = requests + 1 /\ requests + 1 \in Nat
    BY <1>4 DEF TickRequest, Reserved
  <2>. QED  BY <1>2, <2>1, <2>2, StartKeeps DEF Reserved
<1>5. CASE TickDwell(rest)
  <2>1. resv' \in {rest.m, R!Drain(rest.m)} /\ requests' = requests
    BY <1>5 DEF TickDwell
  <2>2. Good(R!Drain(rest.m))
    BY <1>2, DrainKeeps
  <2>3. Good(resv')
    <3>. HIDE DEF Good
    <3>. QED  BY <1>2, <2>1, <2>2
  <2>. QED  BY <2>1, <2>3 DEF Reserved
<1>. QED  BY <1>1, <1>3, <1>4, <1>5 DEF rest

\* A multicast goes out, or not; either way events are at most heard.
LEMMA SpreadKeeps ==
    ASSUME Reserved, NEW q, Spreads(q), UNCHANGED requests
    PROVE  Reserved'
<1>1. resv' \in {resv, R!Drain(resv)}
  BY DEF Spreads, Heard
<1>2. Calls(R!Drain(resv)) /\ OwnDwell(R!Drain(resv))
  BY DrainKeeps DEF Reserved
<1>. QED  BY <1>1, <1>2 DEF Reserved

LEMMA ReservedStep == Reserved /\ [Next]_vars => Reserved'
<1>. SUFFICES ASSUME Reserved, [Next]_vars PROVE Reserved'
  OBVIOUS
<1>1. CASE UNCHANGED <<resv, requests>>
  BY <1>1 DEF Reserved
<1>2. ASSUME NEW clean, Timers(clean) PROVE Reserved'
  BY <1>1, <1>2, TickKeeps DEF Timers
<1>3. CASE Send
  BY <1>3, SpreadKeeps DEF Send
<1>4. CASE Poll
  BY <1>1, <1>4 DEF Poll, PollNothing, Action, Data
<1>5. CASE Tap
  <2>1. CASE TapMulticast
    BY <2>1, SpreadKeeps DEF TapMulticast
  <2>. QED  BY <1>1, <1>5, <2>1 DEF Tap, TapNothing, TapUnicast
<1>6. CASE Pass
  BY <1>6, LaterKeeps DEF Pass, Reserved
<1>7. CASE Driver
  <2>1. CASE resv.driver # R!NoDwell /\ resv' = R!DriverReady(resv)
    BY <1>7, <2>1, ReadyKeeps DEF Driver, Reserved
  <2>2. CASE resv.driver # R!NoDwell /\ \E reported \in BOOLEAN : resv' = R!DriverEnds(resv, reported)
    BY <1>7, <2>2, EndsKeeps DEF Driver, Reserved
  <2>. QED  BY <1>7, <2>1, <2>2 DEF Driver
<1>8. CASE UNCHANGED vars
  BY <1>1, <1>8 DEF vars
<1>. QED  BY <1>2, <1>3, <1>4, <1>5, <1>6, <1>7, <1>8 DEF Next

\* The gate of a reservation is opened by the driver's grant of that very reservation,
\* though the driver may give the same cookie again: see OpenedByOwnGrant (roc.rs,
\* Reservation::event; lib.rs, MgmtTx::start_roc).
THEOREM GrantsOpenTheirOwn == Spec => []OpenedByOwnGrant
<1>1. Init => Reserved
  <2>1. <<>> \in Seq(Event)
    OBVIOUS
  <2>. QED  BY <2>1 DEF Init, R!Idle, Reserved, Calls, OwnDwell
<1>2. Reserved => OpenedByOwnGrant
  <2>1. R!Open(resv.resv) => resv.resv # R!NoResv /\ resv.resv.ready > 0
    BY DEF R!Open
  <2>2. resv.resv.ready > 0 => resv.resv.ready # R!NotReady
    BY DEF R!NotReady
  <2>. QED  BY <2>1, <2>2 DEF Reserved, OwnDwell, OpenedByOwnGrant, R!OpenedByOwnGrant, Granted
<1>. QED  BY <1>1, <1>2, ReservedStep, PTL DEF Spec
-----------------------------------------------------------------------------
(* Channels. *)

Usable == Channels \ NoIr

LEMMA SlotsFinite ==
    IsFiniteSet(Slots) /\ Cardinality(Slots) = SeqLen
BY SeqLenAssumption, FS_Interval DEF Slots

LEMMA OccurrencesCount ==
    ASSUME NEW seq, NEW c
    PROVE  Occurrences(seq, c) \in 0..SeqLen
<1>1. {i \in Slots : seq[i] = c} \subseteq Slots
  OBVIOUS
<1>. QED  BY <1>1, SlotsFinite, FS_Subset, FS_CardinalityType, SeqLenAssumption DEF Occurrences

\* The social channels can be used.
LEMMA SocialAre == ToSet(Social) \subseteq Usable \ {0}
<1>1. \A i \in DOMAIN Social : Social[i] \in 1..255
  <2>. DEFINE Byte == 1..255
  <2>1. Social \in Seq(Byte)
    BY SocialAssumption
  <2>2. \A i \in DOMAIN Social : Social[i] \in Byte
    <3>. HIDE DEF Byte
    <3>. QED  BY <2>1
  <2>. QED  BY <2>2
<1>2. \A c \in ToSet(Social) : c \in 1..255
  BY <1>1 DEF ToSet
<1>3. \A c \in ToSet(Social) : c \notin NoIr
  BY SocialAssumption
<1>. QED  BY <1>2, <1>3 DEF Usable, Channels

\* So can those, one after the other, and what null slots are filled with can be used.
LEMMA SocialUsable ==
    ASSUME NEW n \in Nat
    PROVE  /\ Cyclic(Social, n) \in Usable \ {0}
           /\ Cyclic(Social, n) \in ToSet(Social)
           /\ Cyclic(FillOrder, n) \in Usable \ {0}
<1>1. ToSet(Social) \subseteq Usable \ {0}
  BY SocialAre
<1>2. (n % Len(Social)) + 1 \in DOMAIN Social
  <2>1. Len(Social) \in Nat \ {0} /\ DOMAIN Social = 1..Len(Social)
    BY SocialAssumption
  <2>2. n % Len(Social) \in 0..(Len(Social) - 1)
    BY <2>1
  <2>. QED  BY <2>1, <2>2
<1>3. (n % Len(FillOrder)) + 1 \in DOMAIN FillOrder
  <2>1. Len(FillOrder) \in Nat \ {0} /\ DOMAIN FillOrder = 1..Len(FillOrder)
    BY SocialAssumption
  <2>2. n % Len(FillOrder) \in 0..(Len(FillOrder) - 1)
    BY <2>1
  <2>. QED  BY <2>1, <2>2
<1>4. Cyclic(Social, n) \in ToSet(Social)
  BY <1>2 DEF Cyclic, ToSet
<1>5. Cyclic(FillOrder, n) \in ToSet(Social)
  BY <1>3, SocialAssumption DEF Cyclic
<1>. QED  BY <1>1, <1>4, <1>5

LEMMA MasterAnchorUsable ==
    ASSUME NEW seq \in [Slots -> Usable \cup {0}]
    PROVE  MasterAnchor(seq) \in Usable \cup {0}
<1>. DEFINE some == {seq[i] : i \in Slots} \ {0}
            Most == {c \in some : \A d \in some : Occurrences(seq, d) <= Occurrences(seq, c)}
<1>1. 0 \in Slots
  BY SeqLenAssumption DEF Slots
<1>2. CASE some # {}
  <2>. DEFINE count == [c \in some |-> Occurrences(seq, c)]
  <2>1. count \in [some -> 0..SeqLen]
    BY OccurrencesCount
  <2>2. \E c \in some : \A d \in some : count[d] <= count[c]
    <3>. HIDE DEF some, count
    <3>. QED  BY <1>2, <2>1, SeqLenAssumption, MostOften
  <2>3. Most # {}
    BY <2>2
  <2>4. Most \in SUBSET Nat /\ Most \subseteq Usable
    BY DEF Usable, Channels
  <2>5. Min(Most) \in Most
    <3>. HIDE DEF Most
    <3>. QED  BY <2>3, <2>4, Least
  <2>6. MasterAnchor(seq) \in {seq[0], Min(Most)}
    <3>. HIDE DEF some
    <3>. QED  BY <1>2 DEF MasterAnchor, some
  <2>. HIDE DEF Most
  <2>. QED  BY <1>1, <2>4, <2>5, <2>6
<1>3. CASE some = {}
  BY <1>1, <1>3 DEF MasterAnchor
<1>. QED  BY <1>2, <1>3

-----------------------------------------------------------------------------
(* The social channels in a schedule.                                      *)

\* The channels of a schedule.
Held(s) == {s[i] : i \in Slots} \ {0}

\* Schedules with and without null slots.
Hops == [Slots -> Usable \cup {0}]
Full == [Slots -> Usable \ {0}]

LEMMA HeldFinite ==
    ASSUME NEW s \in [Slots -> Channels]
    PROVE  IsFiniteSet(Held(s)) /\ IsFiniteSet(ToSet(Social))
<1>1. IsFiniteSet(Channels)
  <2>1. \A m, n \in Int : IsFiniteSet(m..n)
    BY FS_Interval
  <2>2. 0 \in Int /\ 255 \in Int
    OBVIOUS
  <2>3. IsFiniteSet(0..255)
    BY <2>1, <2>2, Zenon
  <2>. QED  BY <2>3 DEF Channels
<1>2. Held(s) \subseteq Channels
  BY DEF Held
<1>3. ToSet(Social) \subseteq Channels
  BY SocialAre DEF Usable
<1>. QED  BY <1>1, <1>2, <1>3, FS_Subset

\* When no slot is free, and no channel has two, each slot has a channel of its own.
LEMMA OneEach ==
    ASSUME NEW s \in Hops, Injectable(s) = {}
    PROVE  Cardinality(Held(s)) = SeqLen
<1>1. \A i \in Slots : s[i] # 0
  BY DEF Injectable
<1>2. ASSUME NEW i \in Slots, NEW j \in Slots, s[i] = s[j], i # j PROVE FALSE
  <2>. DEFINE same == {k \in Slots : s[k] = s[i]}
  <2>1. IsFiniteSet(same)
    BY SlotsFinite, FS_Subset
  <2>2. {i} \cup {j} \in SUBSET same
    BY <1>2
  <2>3. Cardinality({i} \cup {j}) = 2
    <3>1. IsFiniteSet({i}) /\ Cardinality({i}) = 1
      BY FS_Singleton
    <3>2. j \notin {i}
      BY <1>2
    <3>. DEFINE one == {i}
    <3>3. IsFiniteSet(one) /\ Cardinality(one) = 1 /\ j \notin one
      BY <3>1, <3>2
    <3>. HIDE DEF one
    <3>4. Cardinality(one \cup {j}) = IF j \in one THEN Cardinality(one) ELSE Cardinality(one) + 1
      BY <3>3, FS_AddElement, Zenon
    <3>5. Cardinality(one \cup {j}) = 2
      BY <3>3, <3>4
    <3>. QED  BY <3>5 DEF one
  <2>4. Cardinality(same) > 1
    <3>1. Cardinality({i} \cup {j}) <= Cardinality(same) /\ Cardinality(same) \in Nat
      <4>. HIDE DEF same
      <4>. QED  BY <2>1, <2>2, FS_Subset, FS_CardinalityType
    <3>. HIDE DEF same
    <3>. QED  BY <2>3, <3>1
  <2>5. Occurrences(s, s[i]) > 1
    BY <2>4 DEF Occurrences
  <2>. QED  BY <1>1, <2>5 DEF Injectable
<1>3. s \in Injection(Slots, Held(s)) /\ s \in Surjection(Slots, Held(s))
  BY <1>1, <1>2 DEF Hops, Held, Injection, Surjection, IsInjective
<1>4. IsFiniteSet(Held(s))
  BY HeldFinite DEF Hops, Usable, Channels
<1>5. Cardinality(Slots) = Cardinality(Held(s))
  BY <1>3, <1>4, FS_Injection
<1>. QED  BY <1>5, SlotsFinite

\* A slot that is free may be given away, and so may one whose channel has another.
LEMMA Injected ==
    ASSUME NEW s \in Hops, NEW c \in Usable \ {0}
    PROVE  /\ Inject(s, c) \in Hops
           /\ Held(s) \subseteq Held(Inject(s, c)) /\ Held(Inject(s, c)) \subseteq Held(s) \cup {c}
           /\ Cardinality(Held(s) \cup {c}) <= SeqLen => c \in Held(Inject(s, c))
<1>1. CASE \E i \in Slots : s[i] = c
  BY <1>1 DEF Inject, Held
<1>2. CASE ~(\E i \in Slots : s[i] = c) /\ Injectable(s) = {}
  <2>1. Inject(s, c) = s
    BY <1>2 DEF Inject
  <2>2. IsFiniteSet(Held(s))
    BY HeldFinite DEF Hops, Usable, Channels
  <2>3. c \notin Held(s)
    BY <1>2 DEF Held
  <2>4. Cardinality(Held(s) \cup {c}) = SeqLen + 1
    <3>1. Cardinality(Held(s)) = SeqLen
      BY <1>2, OneEach
    <3>2. Cardinality(Held(s) \cup {c})
             = IF c \in Held(s) THEN Cardinality(Held(s)) ELSE Cardinality(Held(s)) + 1
      BY <2>2, FS_AddElement, Zenon
    <3>. QED  BY <2>3, <3>1, <3>2
  <2>. QED  BY <2>1, <2>4, SeqLenAssumption
<1>3. CASE ~(\E i \in Slots : s[i] = c) /\ Injectable(s) # {}
  <2>. DEFINE m == Min(Injectable(s))
  <2>1. Inject(s, c) = [s EXCEPT ![m] = c]
    BY <1>3 DEF Inject
  <2>2. m \in Injectable(s)
    <3>1. Injectable(s) \in SUBSET Nat
      BY DEF Injectable, Slots
    <3>. QED  BY <1>3, <3>1, Least
  <2>3. m \in Slots
    BY <2>2 DEF Injectable
  <2>4. s[m] # 0 => \E j \in Slots : j # m /\ s[j] = s[m]
    <3>. SUFFICES ASSUME s[m] # 0, ~(\E j \in Slots : j # m /\ s[j] = s[m]) PROVE FALSE
      OBVIOUS
    <3>1. Occurrences(s, s[m]) > 1
      BY <2>2 DEF Injectable
    <3>2. {i \in Slots : s[i] = s[m]} = {m}
      BY <2>3
    <3>3. Cardinality({m}) = 1
      BY FS_Singleton
    <3>4. Occurrences(s, s[m]) = 1
      BY <3>2, <3>3, Zenon DEF Occurrences
    <3>. QED  BY <3>1, <3>4
  <2>. HIDE DEF m
  <2>. DEFINE t == [s EXCEPT ![m] = c]
  <2>5. t \in Hops /\ t[m] = c /\ \A i \in Slots : i # m => t[i] = s[i]
    BY <2>3 DEF Hops
  <2>. HIDE DEF t
  <2>6. Held(s) \subseteq Held(t)
    <3>. SUFFICES ASSUME NEW i \in Slots, s[i] # 0 PROVE s[i] \in Held(t)
      BY DEF Held
    <3>1. PICK j \in Slots : j # m /\ s[j] = s[i]
      BY <2>4
    <3>. QED  BY <2>5, <3>1 DEF Held
  <2>7. Held(t) \subseteq Held(s) \cup {c} /\ c \in Held(t)
    BY <2>3, <2>5 DEF Held
  <2>8. Inject(s, c) = t
    BY <2>1 DEF t
  <2>. QED  BY <2>5, <2>6, <2>7, <2>8
<1>. QED  BY <1>1, <1>2, <1>3

\* How many slots come before one that are of some kind.
LEMMA CountBefore ==
    ASSUME NEW S \in SUBSET Slots
    PROVE  Cardinality(S) \in Nat
BY SlotsFinite, FS_Subset, FS_CardinalityType

LEMMA Replaced ==
    ASSUME NEW seq \in [Slots -> Channels]
    PROVE  /\ ReplaceNoIr(seq) \in Hops
           /\ Held(ReplaceNoIr(seq)) \subseteq (Held(seq) \ NoIr) \cup ToSet(Social)
<1>. DEFINE turn(i) == Cyclic(Social, Cardinality({j \in Slots : j < i /\ seq[j] \in NoIr}))
<1>1. ReplaceNoIr(seq) = [i \in Slots |-> IF seq[i] \in NoIr THEN turn(i) ELSE seq[i]]
  BY DEF ReplaceNoIr, Before
<1>2. ASSUME NEW i \in Slots PROVE turn(i) \in ToSet(Social) /\ turn(i) \in Usable \ {0}
  <2>1. Cardinality({j \in Slots : j < i /\ seq[j] \in NoIr}) \in Nat
    BY CountBefore
  <2>2. \A n \in Nat : Cyclic(Social, n) \in ToSet(Social)
    BY SocialUsable
  <2>3. \A n \in Nat : Cyclic(Social, n) \in Usable \ {0}
    BY SocialUsable
  <2>. QED  BY <2>1, <2>2, <2>3
<1>. HIDE DEF turn
<1>3. ReplaceNoIr(seq) \in Hops
  BY <1>1, <1>2 DEF Hops, Usable
<1>4. Held(ReplaceNoIr(seq)) \subseteq (Held(seq) \ NoIr) \cup ToSet(Social)
  BY <1>1, <1>2 DEF Held
<1>. QED  BY <1>3, <1>4

LEMMA Filled ==
    ASSUME NEW s \in Hops, NEW home \in Usable \cup {0}
    PROVE  FillNulls(s, home) \in Full /\ Held(s) \subseteq Held(FillNulls(s, home))
<1>. DEFINE n(i) == Cardinality({j \in Slots : j < i /\ s[j] = 0})
            new(i) == IF home = 0 THEN Cyclic(FillOrder, n(i))
                      ELSE IF n(i) % 2 = 0 THEN home
                      ELSE Cyclic(FillOrder, n(i) \div 2)
<1>1. FillNulls(s, home) = [i \in Slots |-> IF s[i] # 0 THEN s[i] ELSE new(i)]
  BY DEF FillNulls, Before
<1>2. ASSUME NEW i \in Slots PROVE new(i) \in Usable \ {0}
  <2>1. n(i) \in Nat
    BY CountBefore
  <2>. HIDE DEF n
  <2>2. n(i) \div 2 \in Nat
    BY <2>1
  <2>3. \A k \in Nat : Cyclic(FillOrder, k) \in Usable \ {0}
    BY SocialUsable
  <2>. QED  BY <2>1, <2>2, <2>3
<1>. HIDE DEF new
<1>3. FillNulls(s, home) \in Full
  BY <1>1, <1>2 DEF Hops, Full
<1>4. Held(s) \subseteq Held(FillNulls(s, home))
  BY <1>1 DEF Held
<1>. QED  BY <1>3, <1>4

\* The social channels are all there when they were put in one after the other, if there
\* is room.
LEMMA Ensured ==
    ASSUME NEW s \in Hops, NEW home \in Usable \cup {0}
    PROVE  /\ EnsureSocial(s, home) \in Full
           /\ Cardinality(Held(s) \cup ToSet(Social)) <= SeqLen
                 => ToSet(Social) \subseteq Held(EnsureSocial(s, home))
<1>. DEFINE N == Len(Social)
            step == [p \in Hops \X (1..N) |-> Inject(p[1], Social[p[2]])]
            injected == CHOOSE h : h = [i \in 0..N |-> IF i = 0 THEN s ELSE Inject(h[i - 1], Social[i])]
            Room == Cardinality(Held(s) \cup ToSet(Social)) <= SeqLen
            Upto(i) == {Social[j] : j \in 1..i}
            good == {i \in 0..N : /\ injected[i] \in Hops
                                  /\ Held(injected[i]) \subseteq Held(s) \cup ToSet(Social)
                                  /\ Room => Upto(i) \subseteq Held(injected[i])}
<1>1. EnsureSocial(s, home) = FillNulls(injected[N], home)
  BY DEF EnsureSocial
<1>2. N \in Nat /\ DOMAIN Social = 1..N
  BY SocialAssumption
<1>3. \A i \in 1..N : Social[i] \in ToSet(Social) /\ Social[i] \in Usable \ {0}
  BY <1>2, SocialAre DEF ToSet
<1>4. ToSet(Social) = Upto(N)
  BY <1>2 DEF ToSet
<1>5. \E h : h = [i \in 0..N |-> IF i = 0 THEN s ELSE Inject(h[i - 1], Social[i])]
  <2>1. step \in [Hops \X (1..N) -> Hops]
    BY <1>3, Injected
  <2>2. PICK h : Chain(h, Hops, s, N, step)
    <3>. HIDE DEF N, step
    <3>. QED  BY <1>2, <2>1, Iterate
  <2>3. ASSUME NEW i \in 0..N, i # 0 PROVE step[<<h[i - 1], i>>] = Inject(h[i - 1], Social[i])
    <3>1. i \in 1..N /\ i - 1 \in 0..N
      BY <1>2, <2>3
    <3>. HIDE DEF N
    <3>. QED  BY <2>2, <3>1 DEF Chain
  <2>. HIDE DEF step, N
  <2>4. h = [i \in 0..N |-> IF i = 0 THEN s ELSE Inject(h[i - 1], Social[i])]
    BY <2>2, <2>3 DEF Chain
  <2>. QED  BY <2>4
<1>6. injected = [i \in 0..N |-> IF i = 0 THEN s ELSE Inject(injected[i - 1], Social[i])]
  <2>. HIDE DEF N
  <2>. QED  BY <1>5
<1>. HIDE DEF injected, N, Room
<1>7. injected[0] = s /\ \A i \in 1..N : injected[i] = Inject(injected[i - 1], Social[i])
  BY <1>2, <1>6
<1>8. 0 \in good
  BY <1>2, <1>7
<1>9. ASSUME NEW i \in 1..N, i - 1 \in good PROVE i \in good
  <2>. DEFINE t == injected[i - 1]
              c == Social[i]
  <2>1. /\ t \in Hops
        /\ Held(t) \subseteq Held(s) \cup ToSet(Social)
        /\ Room => Upto(i - 1) \subseteq Held(t)
    BY <1>9
  <2>2. injected[i] = Inject(t, c) /\ c \in Usable \ {0} /\ c \in ToSet(Social)
    BY <1>3, <1>7
  <2>3. Upto(i) = Upto(i - 1) \cup {c}
    <3>1. \A j \in 1..i : j = i \/ j \in 1..(i - 1)
      OBVIOUS
    <3>. QED  BY <3>1
  <2>. HIDE DEF t, c, Upto
  <2>4. Room => Cardinality(Held(t) \cup {c}) <= SeqLen
    <3>1. Held(t) \cup {c} \in SUBSET (Held(s) \cup ToSet(Social))
      BY <2>1, <2>2
    <3>2. IsFiniteSet(Held(s) \cup ToSet(Social))
      <4>1. s \in [Slots -> Channels]
        BY DEF Hops, Usable, Channels
      <4>. QED  BY <4>1, HeldFinite, FS_Union
    <3>3. /\ Cardinality(Held(t) \cup {c}) <= Cardinality(Held(s) \cup ToSet(Social))
          /\ Cardinality(Held(s) \cup ToSet(Social)) \in Nat
          /\ Cardinality(Held(t) \cup {c}) \in Nat
      BY <3>1, <3>2, FS_Subset, FS_CardinalityType
    <3>. QED  BY <3>3, SeqLenAssumption DEF Room
  <2>5. /\ Inject(t, c) \in Hops
        /\ Held(t) \subseteq Held(Inject(t, c)) /\ Held(Inject(t, c)) \subseteq Held(t) \cup {c}
        /\ Cardinality(Held(t) \cup {c}) <= SeqLen => c \in Held(Inject(t, c))
    BY <2>1, <2>2, Injected
  <2>6. i \in 0..N
    BY <1>2
  <2>. QED  BY <2>1, <2>2, <2>3, <2>4, <2>5, <2>6
<1>10. N \in good
  <2>1. \A i \in 0..N : i \in good
    <3>. HIDE DEF good
    <3>. QED  BY <1>2, <1>8, <1>9, Stepwise
  <2>. QED  BY <1>2, <2>1
<1>11. injected[N] \in Hops /\ (Room => ToSet(Social) \subseteq Held(injected[N]))
  BY <1>4, <1>10
<1>. HIDE DEF good
<1>. QED  BY <1>1, <1>11, Filled DEF Room

\* What is hopped on when a master's schedule is followed.
LEMMA AdoptedUsable ==
    ASSUME NEW seq \in [Slots -> Channels]
    PROVE  /\ Adopted(seq) \in Full
           /\ RoomFor(seq) => ToSet(Social) \subseteq Held(Adopted(seq))
<1>. DEFINE usable == ReplaceNoIr(seq)
            room == (Held(seq) \ NoIr) \cup ToSet(Social)
<1>1. usable \in Hops /\ Held(usable) \subseteq room
  BY Replaced
<1>2. MasterAnchor(usable) \in Usable \cup {0}
  BY <1>1, MasterAnchorUsable DEF Hops
<1>3. RoomFor(seq) => Cardinality(room) <= SeqLen
  <2>1. room = ({seq[i] : i \in Slots} \ ({0} \cup NoIr)) \cup ToSet(Social)
    BY DEF Held
  <2>. QED  BY <2>1 DEF RoomFor
<1>4. RoomFor(seq) => Cardinality(Held(usable) \cup ToSet(Social)) <= SeqLen
  <2>. HIDE DEF usable
  <2>1. Held(usable) \cup ToSet(Social) \in SUBSET room
    BY <1>1
  <2>2. IsFiniteSet(room)
    <3>1. IsFiniteSet(Held(seq) \ NoIr)
      BY HeldFinite, FS_Difference
    <3>. QED  BY <3>1, HeldFinite, FS_Union
  <2>. HIDE DEF room
  <2>3. /\ Cardinality(Held(usable) \cup ToSet(Social)) <= Cardinality(room)
        /\ Cardinality(room) \in Nat /\ Cardinality(Held(usable) \cup ToSet(Social)) \in Nat
    BY <2>1, <2>2, FS_Subset, FS_CardinalityType
  <2>. QED  BY <1>3, <2>3, SeqLenAssumption
<1>5. Adopted(seq) = EnsureSocial(usable, MasterAnchor(usable))
  BY DEF Adopted
<1>. HIDE DEF usable
<1>. QED  BY <1>1, <1>2, <1>4, <1>5, Ensured

\* Where an own radio is led.
Tunable == Usable \cup {Anchor}
Rounds == [Slots -> Tunable \ {0}]


\* Where the radio is parked.
LEMMA ParkUsable ==
    ASSUME NEW under \in SUBSET Peers, NEW starts \in [under -> Channels],
           NEW top \in Channels
    PROVE  ParkChannel(starts, top, Anchor) \in Tunable
<1>. DEFINE usable == {p \in under : starts[p] \notin NoIr \cup {0}}
            Count(c) == Cardinality({p \in usable : starts[p] = c})
            some == {starts[p] : p \in usable}
            most == {c \in some : \A d \in some : Count(d) <= Count(c)}
<1>1. ParkChannel(starts, top, Anchor) =
          IF some # {} THEN Max(most) ELSE IF top \notin NoIr \cup {0} THEN top ELSE Anchor
  BY DEF ParkChannel
<1>2. some \in SUBSET Usable
  BY DEF Usable
<1>3. ASSUME some # {} PROVE Max(most) \in most
  <2>. DEFINE count == [c \in some |-> Count(c)]
  <2>1. Cardinality(Peers) \in Nat
    BY ChannelsAssumption, FS_CardinalityType
  <2>2. count \in [some -> 0..Cardinality(Peers)]
    <3>. SUFFICES ASSUME NEW c \in some PROVE Count(c) \in 0..Cardinality(Peers)
      OBVIOUS
    <3>1. {p \in usable : starts[p] = c} \in SUBSET Peers
      OBVIOUS
    <3>2. /\ Count(c) <= Cardinality(Peers) /\ Count(c) \in Nat
      BY <3>1, ChannelsAssumption, FS_Subset, FS_CardinalityType
    <3>. QED  BY <2>1, <3>2
  <2>3. \E c \in some : \A d \in some : count[d] <= count[c]
    <3>. HIDE DEF some, count
    <3>. QED  BY <1>3, <2>1, <2>2, MostOften
  <2>4. most # {}
    BY <2>3
  <2>5. most \in SUBSET (0..255)
    BY <1>2 DEF Usable, Channels
  <2>6. \A S \in SUBSET (0..255) : S # {} => Max(S) \in S
    <3>1. 255 \in Nat
      OBVIOUS
    <3>. QED  BY <3>1, Greatest, Zenon
  <2>. HIDE DEF most
  <2>. QED  BY <2>4, <2>5, <2>6, Zenon
<1>4. Anchor \in Tunable
  BY DEF Tunable
<1>5. some # {} => Max(most) \in Usable
  BY <1>2, <1>3
<1>. HIDE DEF some, most
<1>. QED  BY <1>1, <1>4, <1>5 DEF Usable, Tunable

-----------------------------------------------------------------------------
(* Where an own radio is.                                                  *)

Pin == [chan : Tunable, age : Nat]
Waiter == [from : Peers, chan : Tunable, age : Nat]

\* Who is listed has announced a schedule, and the parent is listed.
Announced ==
    /\ world \in Worlds
    /\ at \in 0..(2 * SeqLen - 1)
    /\ \A p \in Listed(table) : table[p] \in Peer
    /\ winner \in Listed(table) \cup {Self}

\* Without reservations, the node is led to channels it may transmit on or the configured
\* one, by all that leads it and that waits to lead it.
Led ==
    Mode # "roc" => /\ sequence \in Rounds
              /\ pin \in Pin /\ current \in Tunable /\ tuned \in Tunable
              /\ rxq \in Seq(Waiter)

OnAir == Announced /\ Led

\* What is heard in a world is what peers announce.
LEMMA HeardAnnounced == ASSUME Announced PROVE world.heard \subseteq Advertised
BY WorldAssumption DEF Announced

\* The slot that the clock is in.
LEMMA InSlot == ASSUME Announced PROVE Slot \in Slots
<1>1. at \in Int /\ 0 <= at /\ at < 2 * SeqLen /\ SeqLen \in Nat
  BY SeqLenAssumption DEF Announced
<1>. QED  BY <1>1 DEF Slot, Slots

LEMMA HomeUsable == Anchor \in Tunable /\ 0 \in Tunable /\ Constant(Anchor) \in Rounds
<1>1. Anchor \in Tunable \ {0}
  BY ChannelsAssumption DEF Tunable
<1>2. 0 \in Tunable
  BY SocialAssumption DEF Tunable, Usable, Channels
<1>. QED  BY <1>1, <1>2 DEF Constant, Rounds

LEMMA ElectAnnounces ==
    ASSUME NEW t, Elect(t)
    PROVE  winner' \in Listed(t) \cup {Self}
BY DEF Elect, Valid

\* sync_channel_sequence leads the node only to what can be used.
LEMMA SyncUsable ==
    ASSUME Led, Mode # "roc", NEW t, NEW w, w \in Listed(t) \cup {Self},
           \A p \in Listed(t) : t[p].seq \in Advertised,
           NEW channel \in Tunable, Sync(w, t, channel)
    PROVE  sequence' \in Rounds /\ current' \in Tunable
<1>1. current' \in {channel, Anchor}
  BY DEF Sync, FixedChannel
<1>2. sequence' \in {sequence, Constant(Anchor)} \/ (w \in Listed(t) /\ sequence' = Adopted(t[w].seq))
  BY DEF Sync, Take, Hold, hop, FixedSequence
<1>3. ASSUME w \in Listed(t) PROVE Adopted(t[w].seq) \in Rounds
  <2>1. t[w].seq \in [Slots -> Channels]
    BY <1>3, ChannelsAssumption
  <2>. QED  BY <2>1, AdoptedUsable DEF Full, Rounds, Tunable
<1>. QED  BY <1>1, <1>2, <1>3, HomeUsable DEF Led

LEMMA TimersOnAir == ASSUME OnAir, NEW clean \in BOOLEAN, Timers(clean) PROVE OnAir'
<1>1. UNCHANGED <<world, at, pin, rxq>>
  BY DEF Timers
<1>2. Announced' /\ (Mode # "roc" => sequence' \in Rounds /\ current' \in Tunable /\ tuned' \in Tunable)
  <2>1. PICK under \in SUBSET Listed(table), retuned \in BOOLEAN :
           LET park == ParkChannel([p \in under |-> table[p].seq[0]],
                                   IF winner = Self THEN 0 ELSE table[winner].seq[0], Anchor)
               channel == IF Mode = "roc" THEN roc'.gate ELSE Switched(park)
           IN  /\ tuned' = IF Fixed \/ channel = 0 \/ channel = current \/ ~retuned THEN tuned ELSE channel
               /\ IF clean THEN \E gone \in SUBSET Listed(table) : Lose(gone, channel)
                  ELSE current' = channel /\ UNCHANGED <<table, parent, hop>>
    BY DEF Timers
  <2>. DEFINE starts == [p \in under |-> table[p].seq[0]]
              top == IF winner = Self THEN 0 ELSE table[winner].seq[0]
              park == ParkChannel(starts, top, Anchor)
              channel == IF Mode = "roc" THEN roc'.gate ELSE Switched(park)
  <2>2. \A p \in Listed(table) : table[p].seq[0] \in Channels
    <3>1. 0 \in Slots
      BY SeqLenAssumption DEF Slots
    <3>2. \A p \in Listed(table) : table[p].seq \in [Slots -> Channels]
      BY ChannelsAssumption DEF OnAir, Announced, Peer
    <3>. QED  BY <3>1, <3>2
  <2>3. Mode # "roc" => park \in Tunable
    <3>1. starts \in [under -> Channels] /\ under \in SUBSET Peers
      BY <2>2 DEF Listed
    <3>2. top \in Channels
      <4>1. winner \in Listed(table) \cup {Self} /\ 0 \in Channels
        BY DEF OnAir, Announced, Channels
      <4>. QED  BY <2>2, <4>1
    <3>. HIDE DEF starts, top
    <3>. QED  BY <3>1, <3>2, ParkUsable
  <2>. HIDE DEF park
  <2>4. Mode # "roc" => channel \in Tunable
    <3>1. Mode # "roc" => Switched(park) \in Tunable
      <4>1. Mode # "roc" => sequence[Slot] \in Tunable
        BY InSlot, HomeUsable DEF OnAir, Led, Rounds
      <4>2. Switched(park) \in {current, Desired(park)}
        BY DEF Switched
      <4>3. Mode # "roc" => Desired(park) \in {park, pin.chan, sequence[Slot], Anchor}
        BY DEF Desired, FixedChannel
      <4>. QED  BY <2>3, <4>1, <4>2, <4>3, HomeUsable DEF OnAir, Led, Pin
    <3>. QED  BY <3>1
  <2>5. /\ tuned' \in {tuned, channel} /\ (Fixed \/ tuned' = tuned \/ tuned' = channel)
        /\ IF clean THEN \E gone \in SUBSET Listed(table) : Lose(gone, channel)
           ELSE current' = channel /\ UNCHANGED <<table, parent, hop>>
    BY <2>1 DEF park
  <2>. HIDE DEF channel
  <2>6. Mode # "roc" => tuned' \in Tunable
    BY <2>4, <2>5 DEF OnAir, Led
  <2>7. CASE clean
    <3>1. PICK gone \in SUBSET Listed(table) : Lose(gone, channel)
      BY <2>5, <2>7
    <3>2. \A p \in Listed(table') : p \in Listed(table) /\ table'[p] = table[p]
      BY <3>1 DEF Lose, Listed
    <3>3. \A p \in Listed(table') : table'[p] \in Peer /\ table'[p].seq \in Advertised
      BY <3>2 DEF OnAir, Announced, Peer
    <3>4. winner' \in Listed(table') \cup {Self}
      BY <3>1, ElectAnnounces DEF Lose
    <3>5. Mode # "roc" => sequence' \in Rounds /\ current' \in Tunable
      <4>1. Sync(winner', table', channel)
        BY <3>1 DEF Lose
      <4>. QED  BY <2>4, <3>3, <3>4, <4>1, SyncUsable DEF OnAir
    <3>6. Announced'
      BY <1>1, <3>3, <3>4 DEF OnAir, Announced, Listed
    <3>. QED  BY <2>6, <3>5, <3>6
  <2>8. CASE ~clean
    <3>1. current' = channel /\ UNCHANGED <<table, winner, sequence>>
      BY <2>5, <2>8 DEF parent, hop
    <3>2. Announced'
      BY <1>1, <3>1 DEF OnAir, Announced, Listed
    <3>. QED  BY <2>4, <2>6, <3>1, <3>2 DEF OnAir, Led
  <2>. QED  BY <2>7, <2>8
<1>. QED  BY <1>1, <1>2 DEF OnAir, Led, Fixed, Mode

LEMMA SendOnAir == ASSUME OnAir, Send PROVE OnAir'
<1>1. UNCHANGED <<world, at, table, winner, sequence, current, tuned>> /\ Release
  BY DEF Send, time, parent, hop
<1>2. Announced'
  BY <1>1 DEF OnAir, Announced, Listed
<1>3. Mode # "roc" => rxq' \in Seq(Waiter) /\ pin' \in Pin
  <2>. SUFFICES ASSUME Mode # "roc" PROVE rxq' \in Seq(Waiter) /\ pin' \in Pin
    OBVIOUS
  <2>. DEFINE young == {i \in DOMAIN rxq : rxq[i].age < RxAge}
              ready == {i \in young : rxq[i].from \in Valid(table)}
  <2>1. /\ rxq' = Those(rxq, young \ ready)
        /\ pin' = IF ready = {} THEN pin ELSE PinTo(rxq[Max(ready)].chan)
    BY <1>1 DEF Release
  <2>2. rxq \in Seq(Waiter)
    BY DEF OnAir, Led
  <2>3. rxq' \in Seq(Waiter)
    <3>. DEFINE Q == Waiter
    <3>1. \A places : Those(rxq, places) \in Seq(Q)
      <4>1. rxq \in Seq(Q)
        BY <2>2
      <4>. HIDE DEF Q
      <4>. QED  BY <4>1, OfQueue
    <3>. QED  BY <2>1, <3>1
  <2>4. ready # {} => Max(ready) \in ready
    <3>1. Len(rxq) \in Nat /\ ready \in SUBSET (0..Len(rxq))
      BY <2>2
    <3>. HIDE DEF ready
    <3>. QED  BY <3>1, Greatest
  <2>5. ready # {} => rxq[Max(ready)].chan \in Tunable
    <3>1. \A i \in ready : rxq[i] \in Waiter
      BY <2>2
    <3>2. \A i \in ready : rxq[i].chan \in Tunable
      BY <3>1 DEF Waiter
    <3>. HIDE DEF ready
    <3>. QED  BY <2>4, <3>2
  <2>6. pin' \in Pin
    <3>. HIDE DEF ready
    <3>. QED  BY <2>1, <2>5 DEF PinTo, Pin, OnAir, Led
  <2>. QED  BY <2>3, <2>6
<1>. QED  BY <1>1, <1>2, <1>3 DEF OnAir, Led, Fixed, Mode

\* A frame that is heard adds its announcement, and a clock that is set takes none away.
LEMMA TableHeard ==
    ASSUME Announced, NEW p \in Peers, NEW kind, NEW seq \in world.heard,
           NEW lead \in Leads \cup {NoLead}, NEW n \in Nat
    PROVE  LET t == Told(p, kind, seq, lead)
           IN  /\ \A q \in Listed(t) : t[q] \in Peer
               /\ \A q \in Listed(t) : q \in Listed(Shifted(t, n))
               /\ \A q \in Listed(Shifted(t, n)) : Shifted(t, n)[q] \in Peer
<1>. DEFINE t == Told(p, kind, seq, lead)
            v == kind = "Mif" \/ (table[p] # NoPeer /\ table[p].valid)
            l == IF lead = NoLead /\ table[p] # NoPeer THEN table[p].lead ELSE lead
            new == [seq |-> seq, valid |-> v, lead |-> l]
            less(q) == [t[q] EXCEPT !.lead = (@ - n) % (2 * SeqLen)]
<1>1. t = [table EXCEPT ![p] = new]
  BY DEF Told
<1>2. new \in Peer
  <2>1. table[p] # NoPeer => table[p] \in Peer
    BY DEF Announced, Listed
  <2>2. l \in Nat \cup {NoLead}
    BY <2>1, NodeBounds DEF Peer
  <2>3. v \in BOOLEAN
    BY <2>1, Zenon DEF Peer
  <2>4. seq \in Advertised
    BY HeardAnnounced
  <2>. HIDE DEF l, v
  <2>. QED  BY <2>2, <2>3, <2>4 DEF Peer
<1>. HIDE DEF new
<1>3. \A q \in Listed(t) : t[q] \in Peer
  BY <1>1, <1>2 DEF Announced, Listed
<1>4. ASSUME NEW q \in Peers
      PROVE  Shifted(t, n)[q] = IF q \notin Listed(t) \/ t[q].lead = NoLead THEN t[q] ELSE less(q)
  BY DEF Shifted
<1>5. ASSUME NEW q \in Listed(t), t[q].lead # NoLead PROVE less(q) \in Peer
  <2>. DEFINE m == 2 * SeqLen
              x == t[q].lead - n
  <2>1. t[q] \in Peer /\ t[q].lead \in Nat /\ m \in Nat \ {0}
    BY <1>3, <1>5, SeqLenAssumption DEF Peer
  <2>2. x \in Int /\ m \in Nat \ {0}
    BY <2>1
  <2>3. x % m \in Nat
    <3>. HIDE DEF x, m
    <3>. QED  BY <2>2
  <2>. HIDE DEF t
  <2>. QED  BY <2>1, <2>3 DEF Peer
<1>. HIDE DEF t, less
<1>6. \A q \in Listed(t) : Shifted(t, n)[q] \in Peer
  BY <1>3, <1>4, <1>5 DEF Listed
<1>7. \A q \in Peers \ Listed(t) : Shifted(t, n)[q] = NoPeer
  BY <1>4 DEF Listed
<1>8. Listed(t) \subseteq Peers /\ Listed(Shifted(t, n)) \subseteq Peers
  BY DEF Listed
<1>9. \A q \in Listed(t) : q \in Listed(Shifted(t, n))
  BY <1>6, <1>8, NodeAssumption DEF Listed
<1>10. \A q \in Listed(Shifted(t, n)) : Shifted(t, n)[q] \in Peer
  BY <1>6, <1>7, <1>8 DEF Listed
<1>. QED  BY <1>3, <1>9, <1>10 DEF t

LEMMA ActionOnAir ==
    ASSUME OnAir, NEW p \in Peers, NEW kind, NEW seq \in world.heard,
           NEW lead \in Leads \cup {NoLead}, Action(p, kind, seq, lead)
    PROVE  OnAir'
<1>. DEFINE t == Told(p, kind, seq, lead)
            n == IF winner' = p /\ lead # NoLead THEN lead ELSE 0
<1>1. /\ UNCHANGED <<world, pin, tuned, rxq>> /\ Elect(t) /\ Sync(winner', t, current)
      /\ at' = (at + n) % (2 * SeqLen) /\ table' = Shifted(t, n)
  BY DEF Action
<1>2. /\ \A q \in Listed(t) : t[q] \in Peer /\ q \in Listed(table')
      /\ \A q \in Listed(table') : table'[q] \in Peer
  <2>1. n \in Nat
    BY NodeBounds
  <2>. HIDE DEF n
  <2>. QED  BY <1>1, <2>1, TableHeard DEF OnAir
<1>3. winner' \in Listed(t) \cup {Self}
  BY <1>1, ElectAnnounces
<1>. HIDE DEF t
<1>4. Mode # "roc" => sequence' \in Rounds /\ current' \in Tunable
  <2>1. Mode # "roc" => current \in Tunable
    BY DEF OnAir, Led
  <2>2. \A q \in Listed(t) : t[q].seq \in Advertised
    BY <1>2 DEF Peer
  <2>. QED  BY <1>1, <1>3, <2>1, <2>2, SyncUsable DEF OnAir
<1>5. at' \in 0..(2 * SeqLen - 1)
  <2>1. n \in Nat
    BY NodeBounds
  <2>. DEFINE x == at + n
              m == 2 * SeqLen
  <2>2. x \in Nat /\ m \in Nat \ {0}
    BY <2>1, SeqLenAssumption DEF OnAir, Announced
  <2>3. x % m \in 0..(m - 1)
    <3>. HIDE DEF x, m
    <3>. QED  BY <2>2
  <2>. QED  BY <1>1, <2>3
<1>6. Announced'
  <2>1. winner' \in Listed(table') \cup {Self}
    BY <1>2, <1>3
  <2>. QED  BY <1>1, <1>2, <1>5, <2>1 DEF OnAir, Announced, Listed
<1>. QED  BY <1>1, <1>4, <1>6 DEF OnAir, Led, Fixed, Mode

LEMMA DataOnAir == ASSUME OnAir, NEW p \in Peers, Data(p) PROVE OnAir'
<1>1. UNCHANGED <<world, at, table, winner, sequence, current, tuned>>
  BY DEF Data, time, parent, hop
<1>2. pin' \in {pin, PinTo(current)} /\ rxq' \in {rxq, Waiting(p)}
  BY DEF Data
<1>3. Mode # "roc" => Waiting(p) \in Seq(Waiter)
  <2>. SUFFICES ASSUME Mode # "roc" PROVE Waiting(p) \in Seq(Waiter)
    OBVIOUS
  <2>. DEFINE new == [from |-> p, chan |-> current, age |-> 0]
              room == IF Len(rxq) >= RxCap THEN Tail(rxq) ELSE rxq
              Q == Waiter
  <2>1. new \in Q
    BY DEF OnAir, Led, Waiter
  <2>2. rxq \in Seq(Q)
    BY DEF OnAir, Led
  <2>3. Len(rxq) >= RxCap => Tail(rxq) \in Seq(Q)
    <3>1. Len(rxq) >= RxCap => rxq # <<>>
      BY NodeBounds
    <3>. HIDE DEF Q
    <3>. QED  BY <2>2, <3>1
  <2>4. room \in Seq(Q)
    BY <2>2, <2>3
  <2>5. Waiting(p) = Append(room, new)
    BY DEF Waiting
  <2>. HIDE DEF room, new, Q
  <2>6. Append(room, new) \in Seq(Q)
    BY <2>1, <2>4
  <2>. QED  BY <2>5, <2>6 DEF Q
<1>4. Mode # "roc" => PinTo(current) \in Pin
  BY DEF PinTo, Pin, OnAir, Led
<1>5. Announced'
  BY <1>1 DEF OnAir, Announced, Listed
<1>. QED  BY <1>1, <1>2, <1>3, <1>4, <1>5 DEF OnAir, Led, Fixed, Mode

LEMMA PassOnAir == ASSUME OnAir, Pass PROVE OnAir'
<1>1. UNCHANGED <<world, table, winner, sequence, current, tuned>>
  BY DEF Pass
<1>2. at' \in 0..(2 * SeqLen - 1)
  <2>1. at' = (at + 1) % (2 * SeqLen)
    BY DEF Pass
  <2>. DEFINE x == at + 1
              m == 2 * SeqLen
  <2>2. x \in Nat /\ m \in Nat \ {0}
    BY SeqLenAssumption DEF OnAir, Announced
  <2>3. x % m \in 0..(m - 1)
    <3>. HIDE DEF x, m
    <3>. QED  BY <2>2
  <2>. QED  BY <2>1, <2>3
<1>3. Announced'
  BY <1>1, <1>2 DEF OnAir, Announced, Listed
<1>4. Mode # "roc" => pin' \in Pin
  <2>1. pin' = IF pin.age < PinTime THEN [pin EXCEPT !.age = @ + 1] ELSE NoPin
    BY DEF Pass
  <2>2. NoPin \in Pin
    BY HomeUsable, NodeBounds DEF NoPin, Pin
  <2>3. \A q \in Pin : [q EXCEPT !.age = @ + 1] \in Pin
    BY DEF Pin
  <2>. QED  BY <2>1, <2>2, <2>3 DEF OnAir, Led
<1>5. Mode # "roc" => rxq' \in Seq(Waiter)
  <2>. SUFFICES ASSUME Mode # "roc" PROVE rxq' \in Seq(Waiter)
    OBVIOUS
  <2>1. rxq' = [i \in DOMAIN rxq |-> Aged(rxq[i], RxAge)]
    BY DEF Pass, Older
  <2>2. rxq \in Seq(Waiter)
    BY DEF OnAir, Led
  <2>3. ASSUME NEW e \in Waiter PROVE Aged(e, RxAge) \in Waiter
    BY DEF Aged, Waiter
  <2>. DEFINE Q == Waiter
              new(e) == Aged(e, RxAge)
  <2>4. rxq \in Seq(Q) /\ \A e \in Q : new(e) \in Q
    BY <2>2, <2>3
  <2>. HIDE DEF Q, new
  <2>5. [i \in 1..Len(rxq) |-> new(rxq[i])] \in Seq(Q)
    <3>1. Len(rxq) \in Nat /\ \A i \in 1..Len(rxq) : new(rxq[i]) \in Q
      BY <2>4
    <3>. QED  BY <3>1
  <2>6. DOMAIN rxq = 1..Len(rxq)
    BY <2>4
  <2>. QED  BY <2>1, <2>5, <2>6 DEF Q, new
<1>. QED  BY <1>1, <1>3, <1>4, <1>5 DEF OnAir, Led, Fixed, Mode

LEMMA OnAirStep == OnAir /\ [Next]_vars => OnAir'
<1>. SUFFICES ASSUME OnAir, [Next]_vars PROVE OnAir'
  OBVIOUS
<1>0. ASSUME UNCHANGED <<world, at, table, winner, sequence, pin, current, tuned, rxq>> PROVE OnAir'
  BY <1>0 DEF OnAir, Announced, Led, Listed, Fixed, Mode
<1>1. CASE Timers(TRUE) \/ Timers(FALSE)
  BY <1>1, TimersOnAir
<1>2. CASE Send
  BY <1>2, SendOnAir
<1>3. ASSUME NEW p \in Peers, NEW kind, NEW seq \in world.heard, NEW lead \in Leads \cup {NoLead},
             Action(p, kind, seq, lead)
      PROVE  OnAir'
  BY <1>3, ActionOnAir
<1>4. ASSUME NEW p \in Peers, Data(p) PROVE OnAir'
  BY <1>4, DataOnAir
<1>5. CASE PollNothing \/ TapNothing \/ TapMulticast \/ Driver
  BY <1>0, <1>5 DEF PollNothing, TapNothing, TapMulticast, Driver, time, parent, hop, queue
<1>6. ASSUME NEW p \in Peers, TapUnicast(p) PROVE OnAir'
  BY <1>0, <1>6 DEF TapUnicast, parent, hop
<1>7. CASE Pass
  BY <1>7, PassOnAir
<1>8. CASE UNCHANGED vars
  BY <1>0, <1>8 DEF vars, time, parent, hop, queue
<1>. QED  BY <1>1, <1>2, <1>3, <1>4, <1>5, <1>6, <1>7, <1>8 DEF Next, Poll, Tap

LEMMA OnAirInit == Init => OnAir
<1>. SUFFICES ASSUME Init PROVE OnAir
  OBVIOUS
<1>1. Announced
  BY SeqLenAssumption DEF Init, Announced, Listed
<1>2. NoPin \in Pin
  BY HomeUsable, NodeBounds DEF NoPin, Pin
<1>3. <<>> \in Seq(Waiter)
  OBVIOUS
<1>4. Led
  BY <1>2, <1>3, HomeUsable DEF Init, Led, FixedChannel, FixedSequence
<1>. QED  BY <1>1, <1>4 DEF OnAir

\* An own radio is never led to a channel it may not transmit on (replace_no_ir_slots,
\* park_channel, the pins of transfers and of released frames).
THEOREM RadioStaysUsable == Spec => []OnlyUsableChannels
<1>1. OnAir => OnlyUsableChannels
  <2>. SUFFICES ASSUME OnAir, ~Fixed, Anchor \notin NoIr
                PROVE  ({sequence[i] : i \in Slots} \cup {pin.chan, current, tuned}) \cap NoIr = {}
    BY DEF OnlyUsableChannels
  <2>1. Tunable \cap NoIr = {}
    BY DEF Tunable, Usable
  <2>2. /\ pin.chan \in Tunable /\ current \in Tunable /\ tuned \in Tunable
        /\ \A i \in Slots : sequence[i] \in Tunable
    BY DEF OnAir, Led, Pin, Rounds, Fixed
  <2>. QED  BY <2>1, <2>2
<1>. QED  BY <1>1, OnAirInit, OnAirStep, PTL DEF Spec

\* An own radio's schedule: that of a node alone until a master announced another, and then
\* what that was adopted as, with what was announced since in its stead.
Seen == ~Fixed => \/ sequence = Constant(Anchor) /\ ~led
                  \/ \E seq \in Advertised : sequence = Adopted(seq)

\* What sync_channel_sequence makes of it.
LEMMA SyncSeen ==
    ASSUME Seen, NEW t, NEW w, NEW channel, Sync(w, t, channel),
           \A p \in Listed(t) : t[p].seq \in Advertised
    PROVE  ~Fixed => \/ sequence' = Constant(Anchor) /\ ~led'
                     \/ \E seq \in Advertised : sequence' = Adopted(seq)
<1>. SUFFICES ASSUME ~Fixed
              PROVE  \/ sequence' = Constant(Anchor) /\ ~led'
                     \/ \E seq \in Advertised : sequence' = Adopted(seq)
  OBVIOUS
<1>1. CASE UNCHANGED <<sequence, led>>
  BY <1>1 DEF Seen
<1>2. CASE Take(w, t)
  <2>1. CASE w = Self
    BY <1>2, <2>1 DEF Take
  <2>2. CASE w # Self /\ w \in Listed(t) /\ t[w].seq # Constant(0) /\ t[w].seq # sequence
    BY <1>2, <2>2 DEF Take
  <2>3. CASE w # Self /\ ~(w \in Listed(t) /\ t[w].seq # Constant(0) /\ t[w].seq # sequence)
    <3>1. sequence' = sequence /\ led' = (led \/ Leading(w, t))
      BY <1>2, <2>3 DEF Take
    <3>2. Leading(w, t) => sequence # Constant(Anchor)
      BY <2>3 DEF Leading
    <3>. QED  BY <3>1, <3>2 DEF Seen
  <2>. QED  BY <2>1, <2>2, <2>3
<1>. QED  BY <1>1, <1>2 DEF Sync, Hold, hop

LEMMA SeenStep == OnAir /\ Seen /\ [Next]_vars => Seen'
<1>. SUFFICES ASSUME OnAir, Seen, [Next]_vars PROVE Seen'
  OBVIOUS
<1>0. ASSUME UNCHANGED <<world, sequence, led>> PROVE Seen'
  BY <1>0 DEF Seen, Fixed, Mode
<1>1. ASSUME UNCHANGED world, NEW t, NEW w, NEW channel, Sync(w, t, channel),
             \A p \in Listed(t) : t[p].seq \in Advertised
      PROVE  Seen'
  BY <1>1, SyncSeen DEF Seen, Fixed, Mode
<1>2. ASSUME NEW clean \in BOOLEAN, Timers(clean) PROVE Seen'
  <2>1. UNCHANGED world /\ (UNCHANGED hop \/ \E gone, channel : Lose(gone, channel))
    BY <1>2 DEF Timers
  <2>2. CASE UNCHANGED hop
    BY <1>0, <2>1, <2>2 DEF hop
  <2>3. ASSUME NEW gone, NEW channel, Lose(gone, channel) PROVE Seen'
    <3>1. Sync(winner', table', channel)
      BY <2>3 DEF Lose
    <3>2. \A p \in Listed(table') : table'[p].seq \in Advertised
      BY <2>3 DEF Lose, Listed, OnAir, Announced, Peer
    <3>. QED  BY <1>1, <2>1, <3>1, <3>2
  <2>. QED  BY <2>1, <2>2, <2>3
<1>3. ASSUME NEW p \in Peers, NEW kind, NEW seq \in world.heard, NEW lead \in Leads \cup {NoLead},
             Action(p, kind, seq, lead)
      PROVE  Seen'
  <2>1. UNCHANGED world /\ Sync(winner', Told(p, kind, seq, lead), current)
    BY <1>3 DEF Action
  <2>2. \A q \in Listed(Told(p, kind, seq, lead)) : Told(p, kind, seq, lead)[q].seq \in Advertised
    <3>1. 0 \in Nat
      OBVIOUS
    <3>. QED  BY <3>1, TableHeard DEF OnAir, Peer
  <2>. QED  BY <1>1, <2>1, <2>2
<1>4. CASE Send \/ PollNothing \/ TapNothing \/ TapMulticast \/ Driver \/ Pass \/ UNCHANGED vars
  BY <1>0, <1>4 DEF Send, PollNothing, TapNothing, TapMulticast, Driver, Pass, vars, hop
<1>5. ASSUME NEW p \in Peers, Data(p) \/ TapUnicast(p) PROVE Seen'
  BY <1>0, <1>5 DEF Data, TapUnicast, hop
<1>. QED  BY <1>2, <1>3, <1>4, <1>5 DEF Next, Poll, Tap

\* Where every schedule that is announced leaves room, the one that is followed visits all
\* social channels, once a master has announced any but that of a node alone
\* (ensure_social_coverage, find_injectable_slot, sync_channel_sequence).
THEOREM SocialVisited ==
    (\A seq \in Advertised : RoomFor(seq)) => (Spec => []VisitsSocial)
<1>. SUFFICES ASSUME \A seq \in Advertised : RoomFor(seq) PROVE Spec => []VisitsSocial
  OBVIOUS
<1>1. Init => Seen
  BY DEF Init, Seen
<1>2. Seen => VisitsSocial
  <2>. SUFFICES ASSUME ~Fixed, led, NEW seq \in Advertised, sequence = Adopted(seq)
                PROVE  CoversSocial
    BY DEF Seen, VisitsSocial
  <2>1. ToSet(Social) \subseteq Held(Adopted(seq))
    BY ChannelsAssumption, AdoptedUsable
  <2>. QED  BY <2>1 DEF CoversSocial, Held
<1>. QED  BY <1>1, <1>2, OnAirInit, OnAirStep, SeenStep, PTL DEF Spec

\* Both: what a node makes of the schedules that are announced (sync_channel_sequence).
THEOREM ScheduleIsUsable ==
    (\A seq \in Advertised : RoomFor(seq)) => (Spec => []FollowsUsableSchedule)
<1>1. OnlyUsableChannels /\ VisitsSocial => FollowsUsableSchedule
  BY DEF FollowsUsableSchedule
<1>. QED  BY <1>1, RadioStaysUsable, SocialVisited, PTL
-----------------------------------------------------------------------------
(* Multicasts.                                                             *)

Reaching == Mode \in {"hop", "station"}
Entry == [todo : SUBSET Channels, owed : SUBSET Channels, age : Nat]

\* Half slots until the core of slot i.
Wait(i) == IF at <= 2 * i + 1 THEN 2 * i + 1 - at ELSE 2 * i + 1 - at + 2 * SeqLen

\* The loop has sent in this half slot.
Served == pc \in {"poll", "tap"} \/ (pc = "timers" /\ idle)

\* What is owed to a multicast is still to be tried.
Covers(e) == e.owed \subseteq e.todo

\* One that nothing disturbed is owed channels of the schedule, and the switch timer goes
\* with the windows;
Steady(e) == /\ e.owed \subseteq {sequence[i] : i \in Slots} /\ ~Pinned(pin)
             /\ due > 0 => Aligned

\* it gets to each of them while it is younger than a hop cycle,
Due(e) == \A i \in Slots : sequence[i] \in e.owed => e.age + Wait(i) < 2 * SeqLen

\* and to that of this slot by the time the loop has gone round in its core.
Here(e) == Core => sequence[Slot] \notin e.owed

\* The switch timer has run in this slot.
Past == pc # "timers" \/ idle \/ due > 0

OnTime(e) == /\ Steady(e) /\ Due(e)
             /\ Past => current = sequence[Slot]
             /\ Served => Here(e)

Clear(e) == Covers(e) /\ (e.owed # {} => OnTime(e))

Parked == Mode = "station" => current = Anchor /\ sequence = Constant(Anchor)

Queue(q) == q \in Seq(Entry) /\ \A e \in ToSet(q) : Clear(e)

Spreading == Reaching => due \in 0..2 /\ Parked /\ Queue(spread) /\ ~short

\* The half slots until a core, and their going by.
LEMMA WaitInCycle ==
    ASSUME Announced, NEW i \in Slots
    PROVE  /\ Wait(i) \in 0..(2 * SeqLen - 1)
           /\ Wait(i) = 0 => Core /\ Slot = i
<1>1. /\ at \in Int /\ 0 <= at /\ at < 2 * SeqLen /\ SeqLen \in Nat
      /\ i \in Int /\ 0 <= i /\ i < SeqLen
  BY SeqLenAssumption DEF Announced, Slots
<1>2. Wait(i) \in 0..(2 * SeqLen - 1)
  BY <1>1 DEF Wait
<1>3. Wait(i) = 0 => at = 2 * i + 1
  BY <1>1 DEF Wait
<1>4. at = 2 * i + 1 => Core /\ Slot = i
  BY <1>1 DEF Core, Slot
<1>. QED  BY <1>2, <1>3, <1>4

LEMMA WaitGoesBy ==
    ASSUME Announced, at' = (at + 1) % (2 * SeqLen)
    PROVE  /\ \A i \in Slots : Wait(i) # 0 => Wait(i)' = Wait(i) - 1
           /\ ~Core => Slot' = Slot
           /\ at' % 2 = (at + 1) % 2
<1>1. at \in Int /\ 0 <= at /\ at < 2 * SeqLen /\ SeqLen \in Nat
  BY SeqLenAssumption DEF Announced
<1>2. at' = IF at + 1 = 2 * SeqLen THEN 0 ELSE at + 1
  <2>. DEFINE x == at + 1
              m == 2 * SeqLen
  <2>1. x \in Nat /\ m \in Nat \ {0} /\ x <= m
    BY <1>1
  <2>2. x % m = IF x = m THEN 0 ELSE x
    <3>. HIDE DEF x, m
    <3>. QED  BY <2>1
  <2>. QED  BY <2>2
<1>3. ASSUME NEW i \in Slots, Wait(i) # 0 PROVE Wait(i)' = Wait(i) - 1
  <2>1. i \in Int /\ 0 <= i /\ i < SeqLen
    BY <1>1 DEF Slots
  <2>. QED  BY <1>1, <1>2, <1>3, <2>1 DEF Wait
<1>4. ~Core => Slot' = Slot
  <2>1. ASSUME ~Core PROVE at + 1 # 2 * SeqLen /\ (at + 1) \div 2 = at \div 2
    BY <1>1, <2>1 DEF Core
  <2>. QED  BY <1>2, <2>1 DEF Slot
<1>5. at' % 2 = (at + 1) % 2
  BY <1>1, <1>2
<1>. QED  BY <1>3, <1>4, <1>5

\* What is disturbed is owed nothing.
LEMMA DisturbedQueue ==
    ASSUME NEW q \in Seq(Entry)
    PROVE  /\ Disturbed(q) \in Seq(Entry)
           /\ \A e \in ToSet(Disturbed(q)) : e.owed = {}
<1>. DEFINE S == Entry
            free(e) == [e EXCEPT !.owed = {}]
<1>1. \A e \in S : free(e) \in S /\ free(e).owed = {}
  BY DEF Entry
<1>2. Disturbed(q) = [i \in DOMAIN q |-> free(q[i])]
  BY DEF Disturbed
<1>3. q \in Seq(S)
  OBVIOUS
<1>. HIDE DEF S, free
<1>4. Len(q) \in Nat /\ DOMAIN q = 1..Len(q) /\ \A i \in 1..Len(q) : q[i] \in S
  BY <1>3
<1>5. Disturbed(q) \in Seq(S)
  BY <1>1, <1>2, <1>4
<1>6. \A e \in ToSet(Disturbed(q)) : e.owed = {}
  BY <1>1, <1>2, <1>4 DEF ToSet
<1>. QED  BY <1>5, <1>6 DEF S

LEMMA FreeIsClear == ASSUME NEW e, e.owed = {} PROVE Clear(e) /\ Clear(e)'
BY DEF Clear, Covers

LEMMA DisturbedClear == ASSUME NEW q \in Seq(Entry), spread' = Disturbed(q) PROVE Queue(spread)'
<1>1. spread' \in Seq(Entry) /\ \A e \in ToSet(spread') : e.owed = {}
  BY DisturbedQueue
<1>. QED  BY <1>1, FreeIsClear DEF Queue

\* Steps that leave the queue, the schedule and the clock alone.
LEMMA CalmClear ==
    ASSUME NEW e, Clear(e), UNCHANGED <<at, due, sequence, pin, current>>, Past' => Past, Served' => Served
    PROVE  Clear(e)'
<1>1. Slot' = Slot /\ Core' = Core /\ Pinned(pin)' = Pinned(pin) /\ \A i : Wait(i)' = Wait(i)
  BY DEF Slot, Core, Pinned, Wait
<1>2. Steady(e) => Steady(e)'
  BY <1>1 DEF Steady, Aligned
<1>3. Due(e) => Due(e)'
  BY <1>1 DEF Due
<1>4. Here(e) => Here(e)'
  BY <1>1 DEF Here
<1>5. current = sequence[Slot] => current' = sequence'[Slot']
  BY <1>1
<1>6. OnTime(e) => OnTime(e)'
  BY <1>2, <1>3, <1>4, <1>5 DEF OnTime
<1>7. Covers(e)'
  BY DEF Clear, Covers
<1>. QED  BY <1>6, <1>7 DEF Clear

LEMMA Calm ==
    ASSUME Spreading, UNCHANGED <<world, at, due, sequence, pin, current, short, spread>>,
           Past' => Past, Served' => Served
    PROVE  Spreading'
<1>. SUFFICES ASSUME Reaching PROVE due' \in 0..2 /\ Parked' /\ Queue(spread)' /\ ~short'
  BY DEF Spreading, Reaching, Mode
<1>1. due' \in 0..2 /\ Parked' /\ ~short'
  BY DEF Spreading, Parked, Mode
<1>2. \A e \in ToSet(spread) : Clear(e)'
  BY CalmClear DEF Spreading, Queue
<1>. QED  BY <1>1, <1>2 DEF Spreading, Queue

\* Steps that disturb the queue.
LEMMA Disturbing ==
    ASSUME Spreading, UNCHANGED <<world, due, short>>, spread' = Disturbed(spread), Reaching => Parked'
    PROVE  Spreading'
<1>. SUFFICES ASSUME Reaching PROVE due' \in 0..2 /\ Parked' /\ Queue(spread)' /\ ~short'
  BY DEF Spreading, Reaching, Mode
<1>. QED  BY DisturbedClear DEF Spreading, Queue

\* A node that does not hop stays where it is.
LEMMA SyncParked ==
    ASSUME Reaching, Parked, UNCHANGED world, NEW w, NEW t, NEW channel,
           Sync(w, t, channel)
    PROVE  Parked'
BY DEF Parked, Sync, Fixed, Mode, FixedSequence, FixedChannel

\* The channel of the slot is one.
LEMMA OnSomeChannel ==
    ASSUME OnAir, Reaching
    PROVE  sequence[Slot] # 0 /\ current \in Channels /\ Slot \in Slots
<1>1. Mode # "roc"
  BY DEF Reaching
<1>2. Slot \in Slots
  BY InSlot DEF OnAir
<1>3. sequence \in Rounds /\ current \in Tunable
  BY <1>1 DEF OnAir, Led
<1>. QED  BY <1>2, <1>3, ChannelsAssumption DEF Rounds, Tunable, Usable

\* The timers bring the node to the channel of the slot.
LEMMA TimersSpread ==
    ASSUME OnAir, Spreading, NEW clean \in BOOLEAN, Timers(clean)
    PROVE  Spreading'
<1>. SUFFICES ASSUME Reaching PROVE due' \in 0..2 /\ Parked' /\ Queue(spread)' /\ ~short'
  BY DEF Spreading, Reaching, Mode, Timers
<1>0. due' \in 0..2 /\ ((due > 0 => Aligned) => Aligned')
  <2>1. at \in Int /\ due \in 0..2 /\ at' = at /\ due' = Rearmed
    BY SeqLenAssumption DEF OnAir, Announced, Spreading, Timers
  <2>2. CASE due > 0
    BY <2>1, <2>2 DEF Rearmed, Aligned
  <2>3. CASE due = 0
    BY <2>1, <2>3 DEF Rearmed, Aligned, Core
  <2>. QED  BY <2>1, <2>2, <2>3
<1>1. /\ UNCHANGED <<world, at, pin, short>> /\ pc' = "send"
      /\ spread' = IF sequence' # sequence THEN Disturbed(spread) ELSE spread
  BY DEF Timers, hist
<1>2. PICK park, channel :
          /\ channel = Switched(park)
          /\ IF clean THEN \E gone \in SUBSET Listed(table) : Lose(gone, channel)
             ELSE current' = channel /\ UNCHANGED <<table, parent, hop>>
  BY DEF Timers, Reaching
<1>3. /\ ~Fixed => current' = channel
      /\ Fixed /\ clean => current' = FixedChannel /\ sequence' = FixedSequence
      /\ ~clean => current' = channel /\ sequence' = sequence
  BY <1>2 DEF Lose, Sync, hop
<1>4. Parked'
  <2>. SUFFICES ASSUME Mode = "station" PROVE current' = Anchor /\ sequence' = Constant(Anchor)
    BY <1>1 DEF Parked, Mode
  <2>1. current = Anchor /\ sequence = Constant(Anchor)
    BY DEF Spreading, Parked
  <2>. QED  BY <1>2, <1>3, <2>1 DEF Switched, Desired, Fixed, FixedChannel, FixedSequence
<1>5. ASSUME sequence' = sequence, NEW e, Clear(e) PROVE Clear(e)'
  <2>1. Slot' = Slot /\ Core' = Core /\ Pinned(pin)' = Pinned(pin) /\ \A i : Wait(i)' = Wait(i)
    BY <1>1 DEF Slot, Core, Pinned, Wait
  <2>2. (Steady(e) => Steady(e)') /\ (Due(e) => Due(e)') /\ Covers(e)'
    BY <1>0, <1>1, <1>5, <2>1 DEF Steady, Due, Clear, Covers
  <2>3. ASSUME OnTime(e) PROVE current' = sequence[Slot]
    <3>1. due > 0 => current = sequence[Slot]
      BY <2>3 DEF OnTime, Past
    <3>2. CASE Mode = "station"
      <4>1. current' = Anchor /\ sequence = Constant(Anchor) /\ Slot \in Slots
        BY <1>1, <1>4, <3>2, OnSomeChannel DEF Parked, Mode, Spreading
      <4>. QED  BY <4>1 DEF Constant
    <3>3. CASE Mode = "hop"
      <4>1. current' = Switched(park)
        BY <1>2, <1>3, <3>3 DEF Fixed
      <4>2. Desired(park) = sequence[Slot]
        BY <2>3, <3>3 DEF OnTime, Steady, Desired, Fixed
      <4>. QED  BY <3>1, <4>1, <4>2 DEF Switched
    <3>. QED  BY <3>2, <3>3 DEF Reaching
  <2>4. ~Served'
    BY <1>1 DEF Served
  <2>5. OnTime(e) => OnTime(e)'
    <3>1. OnTime(e) => current' = sequence'[Slot']
      BY <1>5, <2>1, <2>3
    <3>. QED  BY <2>2, <2>4, <3>1 DEF OnTime
  <2>. QED  BY <2>2, <2>5, <1>5 DEF Clear
<1>6. Queue(spread)'
  <2>1. CASE sequence' = sequence
    BY <1>1, <1>5, <2>1 DEF Spreading, Queue
  <2>2. CASE sequence' # sequence
    BY <1>1, <2>2, DisturbedClear DEF Spreading, Queue
  <2>. QED  BY <2>1, <2>2
<1>. QED  BY <1>0, <1>1, <1>4, <1>6 DEF Spreading

\* A multicast that is about to be sent on the channel of the slot,
Ready(e) == Covers(e) /\ (e.owed # {} => Steady(e) /\ Due(e) /\ current = sequence[Slot])

\* and that is tried there, is owed that channel no more.
LEMMA SentThere ==
    ASSUME OnAir, Reaching, Core, NEW x \in Entry, Ready(x), NEW took, NEW y,
           y = IF x.age <= SpreadTtl /\ current \in x.todo THEN Tried(x, took) ELSE x
    PROVE  /\ y \in Entry
           /\ x.age > SpreadTtl \/ x.todo \ {current} = {} => y.owed = {}
           /\ x.age <= SpreadTtl =>
                /\ Covers(y)
                /\ y.owed # {} => Steady(y) /\ Due(y) /\ Here(y) /\ current = sequence[Slot]
<1>1. x.age \in Nat /\ SpreadTtl \in Nat /\ SpreadTtl >= 2 * SeqLen /\ SeqLen \in Nat
  BY NodeBounds, SeqLenAssumption DEF Entry
<1>2. current \in Settles(took)
  BY DEF Settles
<1>3. /\ y \in Entry /\ y.owed \subseteq x.owed /\ y.age = x.age
      /\ x.age <= SpreadTtl /\ current \in x.todo
            => y.todo = x.todo \ {current} /\ current \notin y.owed
      /\ ~(x.age <= SpreadTtl /\ current \in x.todo) => y = x
  <2>. DEFINE t == x.todo \ {current}
              o == x.owed \ Settles(took)
  <2>1. t \in SUBSET Channels /\ o \in SUBSET Channels
    BY DEF Entry
  <2>2. Tried(x, took) = [x EXCEPT !.todo = t, !.owed = o]
    BY DEF Tried
  <2>3. o \subseteq x.owed /\ current \notin o
    BY <1>2
  <2>. HIDE DEF t, o
  <2>4. /\ Tried(x, took) \in Entry /\ Tried(x, took).todo = t /\ Tried(x, took).owed = o
        /\ Tried(x, took).age = x.age
    BY <2>1, <2>2 DEF Entry
  <2>. QED  BY <2>3, <2>4 DEF t
<1>4. x.age > SpreadTtl => x.owed = {}
  <2>. SUFFICES ASSUME x.age > SpreadTtl, NEW c \in x.owed PROVE FALSE
    OBVIOUS
  <2>1. PICK i \in Slots : c = sequence[i]
    BY DEF Ready, Steady
  <2>2. Wait(i) \in Nat
    BY WaitInCycle DEF OnAir
  <2>3. x.age + Wait(i) < 2 * SeqLen
    BY <2>1 DEF Ready, Due
  <2>. QED  BY <1>1, <2>2, <2>3
<1>5. x.age <= SpreadTtl => y.owed \subseteq y.todo /\ y.owed \subseteq x.todo \ {current}
  BY <1>3 DEF Ready, Covers
<1>6. ASSUME x.age <= SpreadTtl, y.owed # {}
      PROVE  Steady(y) /\ Due(y) /\ Here(y) /\ current = sequence[Slot]
  <2>1. Steady(x) /\ Due(x) /\ current = sequence[Slot]
    BY <1>3, <1>6 DEF Ready
  <2>2. Steady(y) /\ Due(y)
    BY <1>3, <2>1 DEF Steady, Due
  <2>. QED  BY <1>5, <1>6, <2>1, <2>2 DEF Here
<1>7. x.age > SpreadTtl \/ x.age <= SpreadTtl
  BY <1>1
<1>. QED  BY <1>3, <1>4, <1>5, <1>6, <1>7 DEF Covers

\* drain_mcast_spread leaves nothing behind that was not sent everywhere.
LEMMA Drained ==
    ASSUME OnAir, Reaching, Parked, ~short, NEW q \in Seq(Entry), \A e \in ToSet(q) : Ready(e),
           UNCHANGED <<at, due, sequence, current>>, Spreads(q)
    PROVE  Queue(spread)' /\ ~short'
<1>0. current \in Channels /\ Slot \in Slots /\ sequence[Slot] # 0
  BY OnSomeChannel
<1>1. Slot' = Slot /\ Core' = Core /\ \A i : Wait(i)' = Wait(i)
  BY DEF Slot, Core, Wait
<1>2. ASSUME pin' = pin, NEW e, Covers(e),
             e.owed # {} => Steady(e) /\ Due(e) /\ Here(e) /\ current = sequence[Slot]
      PROVE  Clear(e)'
  <2>1. Pinned(pin)' = Pinned(pin)
    BY <1>2 DEF Pinned
  <2>2. Covers(e)'
    BY <1>2 DEF Covers
  <2>3. e.owed # {} => Steady(e)' /\ Due(e)' /\ Here(e)' /\ current' = sequence'[Slot']
    BY <1>1, <1>2, <2>1 DEF Steady, Due, Here, Aligned
  <2>. QED  BY <2>2, <2>3 DEF Clear, OnTime
<1>3. ASSUME NEW r \in Seq(Entry), spread' = Unpinning(r),
             \A e \in ToSet(r) :
                 /\ Covers(e)
                 /\ e.owed # {} => Steady(e) /\ Due(e) /\ Here(e) /\ current = sequence[Slot]
      PROVE  Queue(spread)'
  <2>1. CASE pin' = pin
    <3>1. \A e \in ToSet(r) : Clear(e)'
      BY <1>2, <1>3, <2>1
    <3>. QED  BY <1>3, <2>1, <3>1 DEF Unpinning, Queue
  <2>2. CASE pin' # pin
    BY <1>3, <2>2, DisturbedClear DEF Unpinning
  <2>. QED  BY <2>1, <2>2
<1>4. CASE current = 0 \/ ~Core
  <2>1. spread' = Unpinning(q) /\ short' = short
    BY <1>4 DEF Spreads
  <2>2. \A e \in ToSet(q) :
            /\ Covers(e)
            /\ e.owed # {} => Steady(e) /\ Due(e) /\ Here(e) /\ current = sequence[Slot]
    BY <1>0, <1>4 DEF Ready, Here
  <2>. QED  BY <1>3, <2>1, <2>2
<1>5. CASE current # 0 /\ Core
  <2>. DEFINE d == DrainFor(q, current)
              keep == {i \in DOMAIN q : q[i].age <= SpreadTtl /\ q[i].todo \ {current} # {}}
              out == {i \in DOMAIN q : q[i].age <= SpreadTtl /\ current \in q[i].todo}
  <2>1. d.keep = keep /\ d.sent = out
    BY DEF DrainFor
  <2>2. PICK failed :
            LET said == [i \in DOMAIN q |->
                            IF i \in d.sent THEN Tried(q[i], Accepts /\ i \notin failed) ELSE q[i]]
            IN  /\ spread' = Unpinning(Those(said, d.keep))
                /\ short' = (short \/ \E i \in DOMAIN q \ d.keep : said[i].owed # {})
    BY <1>5, Zenon DEF Spreads
  <2>. DEFINE took(i) == Accepts /\ i \notin failed
              y(i) == IF i \in d.sent THEN Tried(q[i], took(i)) ELSE q[i]
              done == [i \in DOMAIN q |-> y(i)]
              S == Entry
  <2>3. /\ Len(q) \in Nat /\ DOMAIN q = 1..Len(q) /\ \A i \in DOMAIN q : q[i] \in Entry /\ Ready(q[i])
        /\ spread' = Unpinning(Those(done, keep))
        /\ short' = (short \/ \E i \in DOMAIN q \ keep : done[i].owed # {})
    <3>1. Len(q) \in Nat /\ DOMAIN q = 1..Len(q) /\ \A i \in DOMAIN q : q[i] \in Entry /\ Ready(q[i])
      BY DEF ToSet
    <3>2. /\ spread' = Unpinning(Those(done, d.keep))
          /\ short' = (short \/ \E i \in DOMAIN q \ d.keep : done[i].owed # {})
      BY <2>2, Zenon
    <3>. HIDE DEF done, keep, d
    <3>. QED  BY <2>1, <3>1, <3>2
  <2>4. ASSUME NEW i \in DOMAIN q
        PROVE  /\ y(i) \in Entry
               /\ q[i].age > SpreadTtl \/ q[i].todo \ {current} = {} => y(i).owed = {}
               /\ q[i].age <= SpreadTtl =>
                    /\ Covers(y(i))
                    /\ y(i).owed # {} => Steady(y(i)) /\ Due(y(i)) /\ Here(y(i)) /\ current = sequence[Slot]
    <3>1. PICK x : x = q[i]
      OBVIOUS
    <3>2. PICK t : t = took(i)
      OBVIOUS
    <3>3. PICK z : z = y(i)
      OBVIOUS
    <3>4. x \in Entry /\ Ready(x)
      BY <2>3, <3>1
    <3>5. i \in d.sent <=> x.age <= SpreadTtl /\ current \in x.todo
      <4>. HIDE DEF d
      <4>. QED  BY <2>1, <3>1
    <3>6. z = IF i \in d.sent THEN Tried(x, t) ELSE x
      BY <3>1, <3>2, <3>3, Zenon
    <3>. HIDE DEF d, took, y
    <3>7. z = IF x.age <= SpreadTtl /\ current \in x.todo THEN Tried(x, t) ELSE x
      BY <3>5, <3>6
    <3>. QED  BY <1>5, <3>1, <3>3, <3>4, <3>7, SentThere
  <2>. HIDE DEF y
  <2>5. done \in Seq(S) /\ Len(done) = Len(q)
    <3>. HIDE DEF S
    <3>1. \A i \in 1..Len(q) : y(i) \in S
      BY <2>3, <2>4 DEF S
    <3>. QED  BY <2>3, <3>1
  <2>6. ~short'
    <3>. SUFFICES ASSUME NEW i \in DOMAIN q \ keep PROVE done[i].owed = {}
      BY <2>3
    <3>1. q[i].age > SpreadTtl \/ q[i].todo \ {current} = {}
      <4>1. q[i].age \in Nat /\ SpreadTtl \in Nat
        BY <2>3, NodeBounds DEF Entry
      <4>. QED  BY <4>1
    <3>. QED  BY <2>4, <3>1
  <2>7. Those(done, keep) \in Seq(Entry)
    <3>. HIDE DEF S, done, keep
    <3>1. Those(done, keep) \in Seq(S)
      BY <2>5, OfQueue
    <3>. QED  BY <3>1 DEF S
  <2>8. \A e \in ToSet(Those(done, keep)) : \E i \in keep : e = done[i]
    <3>. HIDE DEF S, done
    <3>1. Those(done, keep) \in Seq(At(done, keep))
      BY <2>5, OfPlaces
    <3>2. \A e \in At(done, keep) : \E i \in keep : e = done[i]
      BY DEF At
    <3>. DEFINE A == At(done, keep)
    <3>3. \A e \in ToSet(Those(done, keep)) : e \in A
      <4>. HIDE DEF A, keep
      <4>. QED  BY <3>1 DEF ToSet, A
    <3>. QED  BY <3>2, <3>3
  <2>9. \A e \in ToSet(Those(done, keep)) :
            /\ Covers(e)
            /\ e.owed # {} => Steady(e) /\ Due(e) /\ Here(e) /\ current = sequence[Slot]
    <3>1. \A i \in keep : i \in DOMAIN q /\ q[i].age <= SpreadTtl /\ done[i] = y(i)
      OBVIOUS
    <3>. HIDE DEF keep, done
    <3>. QED  BY <2>4, <2>8, <3>1
  <2>. HIDE DEF keep, done
  <2>. QED  BY <1>3, <2>3, <2>6, <2>7, <2>9
<1>. QED  BY <1>4, <1>5

LEMMA SendSpread == ASSUME OnAir, Spreading, Send PROVE Spreading'
<1>. SUFFICES ASSUME Reaching PROVE due' \in 0..2 /\ Parked' /\ Queue(spread)' /\ ~short'
  BY DEF Spreading, Reaching, Mode, Send
<1>1. UNCHANGED <<world, at, due, sequence, current>> /\ Spreads(spread) /\ pc = "send"
  BY DEF Send, time, hop
<1>2. due \in 0..2 /\ Parked /\ ~short /\ spread \in Seq(Entry)
  BY DEF Spreading, Queue
<1>3. Parked'
  BY <1>1, <1>2 DEF Parked, Mode
<1>4. ASSUME NEW e \in ToSet(spread) PROVE Ready(e)
  BY <1>1 DEF Spreading, Queue, Clear, OnTime, Past, Ready
<1>5. Queue(spread)' /\ ~short'
  BY <1>1, <1>2, <1>4, Drained
<1>. QED  BY <1>1, <1>2, <1>3, <1>5

\* A multicast is owed the whole schedule if the node is where the schedule says.
LEMMA EnqueuedReady ==
    ASSUME OnAir, Spreading, Reaching, pc = "tap"
    PROVE  Enqueued \in Seq(Entry) /\ \A e \in ToSet(Enqueued) : Ready(e)
<1>. DEFINE todo == DistinctChannels(sequence, Anchor)
            room == IF Len(spread) >= SpreadCap THEN Tail(spread) ELSE spread
            owed == IF ~Pinned(pin) /\ current = sequence[Slot] /\ Aligned THEN todo ELSE {}
            new == [todo |-> todo, age |-> 0, owed |-> owed]
            S == Entry
<1>1. sequence \in Rounds /\ Slot \in Slots
  BY OnSomeChannel DEF OnAir, Led, Reaching
<1>2. todo = {sequence[i] : i \in Slots}
  <2>1. \A i \in Slots : sequence[i] # 0
    BY <1>1 DEF Rounds
  <2>. QED  BY <1>1, <2>1 DEF DistinctChannels
<1>3. todo \in SUBSET Channels /\ todo # {}
  BY <1>1, <1>2, ChannelsAssumption DEF Rounds, Tunable, Usable
<1>4. spread \in Seq(S) /\ \A e \in ToSet(spread) : Clear(e)
  BY DEF Spreading, Queue
<1>5. room \in Seq(S) /\ \A e \in ToSet(room) : Ready(e)
  <2>1. \A e \in ToSet(spread) : Ready(e)
    BY <1>4 DEF Clear, OnTime, Past, Ready
  <2>2. Len(spread) >= SpreadCap => spread # <<>>
    <3>1. SpreadCap \in Nat \ {0}
      BY NodeBounds
    <3>. HIDE DEF S
    <3>. QED  BY <1>4, <3>1
  <2>3. ASSUME spread # <<>> PROVE Tail(spread) \in Seq(S) /\ ToSet(Tail(spread)) \subseteq ToSet(spread)
    <3>. HIDE DEF S
    <3>. QED  BY <1>4, <2>3 DEF ToSet
  <2>. HIDE DEF S
  <2>. QED  BY <1>4, <2>1, <2>2, <2>3
<1>6. new \in S /\ Ready(new)
  <2>. HIDE DEF todo
  <2>1. owed \in SUBSET todo
    OBVIOUS
  <2>2. owed # {} => owed = todo /\ ~Pinned(pin) /\ current = sequence[Slot] /\ Aligned
    OBVIOUS
  <2>. HIDE DEF owed
  <2>3. new \in S /\ new.owed = owed /\ new.age = 0 /\ new.todo = todo
    BY <1>3, <2>1 DEF Entry
  <2>. HIDE DEF new
  <2>4. Covers(new)
    BY <2>1, <2>3 DEF Covers
  <2>5. Due(new)
    <3>. SUFFICES ASSUME NEW i \in Slots PROVE new.age + Wait(i) < 2 * SeqLen
      BY DEF Due
    <3>1. Wait(i) \in 0..(2 * SeqLen - 1) /\ SeqLen \in Nat
      BY WaitInCycle, SeqLenAssumption DEF OnAir
    <3>. QED  BY <2>3, <3>1
  <2>6. new.owed # {} => Steady(new) /\ current = sequence[Slot]
    BY <1>2, <2>2, <2>3 DEF Steady
  <2>. QED  BY <2>3, <2>4, <2>5, <2>6 DEF Ready
<1>7. Enqueued = Append(room, new)
  BY <1>3 DEF Enqueued
<1>. HIDE DEF room, new, S
<1>8. Append(room, new) \in Seq(S) /\ ToSet(Append(room, new)) \subseteq ToSet(room) \cup {new}
  BY <1>5, <1>6 DEF ToSet
<1>9. \A e \in ToSet(Append(room, new)) : Ready(e)
  BY <1>5, <1>6, <1>8
<1>. QED  BY <1>7, <1>8, <1>9 DEF S

LEMMA TapSpread == ASSUME OnAir, Spreading, TapMulticast PROVE Spreading'
<1>. SUFFICES ASSUME Reaching PROVE due' \in 0..2 /\ Parked' /\ Queue(spread)' /\ ~short'
  BY DEF Spreading, Reaching, Mode, TapMulticast
<1>1. UNCHANGED <<world, at, due, sequence, current>> /\ Spreads(Enqueued) /\ pc = "tap"
  BY DEF TapMulticast, hop
<1>2. due \in 0..2 /\ Parked /\ ~short
  BY DEF Spreading
<1>3. Parked'
  BY <1>1, <1>2 DEF Parked, Mode
<1>4. Queue(spread)' /\ ~short'
  BY <1>1, <1>2, EnqueuedReady, Drained
<1>. QED  BY <1>1, <1>2, <1>3, <1>4

\* A half slot after the loop has gone round brings the next core nearer.
LEMMA PassSpread == ASSUME OnAir, Spreading, Pass PROVE Spreading'
<1>. SUFFICES ASSUME Reaching PROVE due' \in 0..2 /\ Parked' /\ Queue(spread)' /\ ~short'
  BY DEF Spreading, Reaching, Mode, Pass
<1>. DEFINE S == Entry
            old(e) == Aged(e, SpreadTtl)
            q == Older(spread, SpreadTtl)
<1>1. /\ UNCHANGED <<world, pc, sequence, current, short>> /\ ~idle'
      /\ at' = (at + 1) % (2 * SeqLen) /\ due' = IF due > 0 THEN due - 1 ELSE 0
      /\ pin' = IF pin.age < PinTime THEN [pin EXCEPT !.age = @ + 1] ELSE NoPin
      /\ spread' = IF idle /\ pc = "timers" THEN q ELSE Disturbed(q)
  BY DEF Pass, hist
<1>2. due \in 0..2 /\ due' \in 0..2 /\ Parked' /\ ~short'
  BY <1>1 DEF Spreading, Parked, Mode
<1>3. spread \in Seq(S) /\ \A e \in ToSet(spread) : e \in S /\ Clear(e)
  BY DEF Spreading, Queue, ToSet
<1>4. ASSUME NEW e \in S
      PROVE  /\ old(e) \in S /\ old(e).age \in {e.age, e.age + 1} /\ old(e).age <= e.age + 1
             /\ old(e).todo = e.todo /\ old(e).owed = e.owed
  BY DEF Aged, Entry
<1>5. q \in Seq(S) /\ \A y \in ToSet(q) : \E e \in ToSet(spread) : y = old(e)
  <2>1. q = [i \in DOMAIN spread |-> old(spread[i])]
    BY DEF Older
  <2>. HIDE DEF S, old, q
  <2>2. Len(spread) \in Nat /\ DOMAIN spread = 1..Len(spread) /\ \A i \in 1..Len(spread) : spread[i] \in S
    BY <1>3
  <2>3. q \in Seq(S)
    BY <1>4, <2>1, <2>2
  <2>4. \A y \in ToSet(q) : \E e \in ToSet(spread) : y = old(e)
    BY <2>1, <2>2 DEF ToSet
  <2>. QED  BY <2>3, <2>4
<1>6. ~Pinned(pin) => ~Pinned(pin)'
  <2>1. pin \in Pin /\ PinTime \in Nat
    BY NodeBounds DEF OnAir, Led, Reaching
  <2>2. pin' \in Pin /\ (pin'.chan = pin.chan \/ pin'.chan = 0)
    BY <1>1, <2>1, HomeUsable DEF Pin, NoPin
  <2>3. ASSUME ~Pinned(pin), pin.age < PinTime PROVE pin'.chan = 0
    BY <1>1, <2>1, <2>3 DEF Pinned, Pin
  <2>4. ASSUME ~(pin.age < PinTime) PROVE pin'.chan = 0
    BY <1>1, <2>4 DEF NoPin
  <2>. QED  BY <2>3, <2>4 DEF Pinned
<1>. HIDE DEF q
<1>7. ASSUME idle, pc = "timers", NEW y \in ToSet(q) PROVE Clear(y)'
  <2>1. PICK e \in ToSet(spread) : y = old(e)
    BY <1>5
  <2>2. /\ e \in S /\ Clear(e) /\ y.age \in Int /\ y.age <= e.age + 1 /\ e.age \in Nat
        /\ y.todo = e.todo /\ y.owed = e.owed
    BY <1>3, <1>4, <2>1 DEF Entry
  <2>. HIDE DEF old, S
  <2>3. Covers(y)'
    BY <2>2 DEF Clear, Covers
  <2>4. ASSUME y.owed # {} PROVE OnTime(y)'
    <3>1. Steady(e) /\ Due(e) /\ current = sequence[Slot] /\ Here(e)
      BY <1>7, <2>2, <2>4 DEF Clear, OnTime, Past, Served
    <3>0. at \in Int /\ at' % 2 = (at + 1) % 2 /\ at' \in Int
      <4>1. at \in Int /\ at' \in Int
        BY <1>1, SeqLenAssumption DEF OnAir, Announced
      <4>. QED  BY <1>1, <4>1, WaitGoesBy DEF OnAir
    <3>2. Steady(y)'
      <4>1. due' > 0 => Aligned'
        BY <1>1, <1>2, <3>0, <3>1 DEF Steady, Aligned
      <4>. QED  BY <1>1, <1>6, <2>2, <3>1, <4>1 DEF Steady
    <3>3. Due(y)'
      <4>. SUFFICES ASSUME NEW i \in Slots, sequence[i] \in y.owed PROVE y.age + Wait(i)' < 2 * SeqLen
        BY <1>1 DEF Due
      <4>1. Announced /\ Wait(i) \in Nat /\ SeqLen \in Nat /\ (Wait(i) = 0 => Core /\ Slot = i)
        BY WaitInCycle, SeqLenAssumption DEF OnAir
      <4>2. CASE Wait(i) = 0
        BY <2>2, <3>1, <4>1, <4>2 DEF Here
      <4>3. CASE Wait(i) # 0
        <5>1. Wait(i)' = Wait(i) - 1
          BY <1>1, <4>1, <4>3, WaitGoesBy
        <5>2. e.age + Wait(i) < 2 * SeqLen
          BY <2>2, <3>1 DEF Due
        <5>. QED  BY <2>2, <4>1, <5>1, <5>2
      <4>. QED  BY <4>2, <4>3
    <3>4. Past' => current' = sequence'[Slot']
      <4>1. Past' => ~Core
        BY <1>1, <1>2, <1>7, <3>0, <3>1 DEF Past, Steady, Aligned, Core
      <4>2. ~Core => Slot' = Slot
        BY <1>1, WaitGoesBy DEF OnAir
      <4>. QED  BY <1>1, <3>1, <4>1, <4>2
    <3>5. ~Served'
      BY <1>1, <1>7 DEF Served
    <3>. QED  BY <3>2, <3>3, <3>4, <3>5 DEF OnTime
  <2>. QED  BY <2>2, <2>3, <2>4 DEF Clear
<1>8. Queue(spread)'
  <2>1. CASE idle /\ pc = "timers"
    BY <1>1, <1>5, <1>7, <2>1 DEF Queue
  <2>2. CASE ~(idle /\ pc = "timers")
    BY <1>1, <1>5, <2>2, DisturbedClear
  <2>. QED  BY <2>1, <2>2
<1>. QED  BY <1>2, <1>8

\* A frame of a peer disturbs the queue, or leaves schedule and clock as they are.
LEMMA ActionSpread ==
    ASSUME OnAir, Spreading, NEW p \in Peers, NEW kind, NEW seq, NEW lead, Action(p, kind, seq, lead)
    PROVE  Spreading'
<1>1. /\ UNCHANGED <<world, due, idle, pin, short>> /\ pc = "poll" /\ pc' = "tap"
      /\ Sync(winner', Told(p, kind, seq, lead), current)
      /\ spread' = IF at' # at \/ sequence' # sequence THEN Disturbed(spread) ELSE spread
  BY DEF Action, hist
<1>2. Reaching => Parked'
  BY <1>1, SyncParked DEF Spreading
<1>3. CASE at' # at \/ sequence' # sequence
  BY <1>1, <1>2, <1>3, Disturbing
<1>4. CASE at' = at /\ sequence' = sequence
  <2>1. Reaching => current' = current
    <3>1. Mode = "station" => current = Anchor /\ current' = Anchor
      BY <1>1, <1>2 DEF Spreading, Parked, Reaching, Mode
    <3>2. Mode = "hop" => current' = current
      BY <1>1 DEF Sync, Fixed
    <3>. QED  BY <3>1, <3>2 DEF Reaching
  <2>2. CASE Reaching
    BY <1>1, <1>4, <2>1, <2>2, Calm DEF Past, Served
  <2>3. CASE ~Reaching
    BY <1>1, <2>3 DEF Spreading, Reaching, Mode
  <2>. QED  BY <2>2, <2>3
<1>. QED  BY <1>3, <1>4

LEMMA DataSpread == ASSUME Spreading, NEW p \in Peers, Data(p) PROVE Spreading'
<1>1. /\ UNCHANGED <<world, at, due, idle, sequence, current, short>> /\ pc = "poll" /\ pc' = "tap"
      /\ spread' = Unpinning(spread)
  BY DEF Data, time, hop, hist
<1>2. Reaching => Parked'
  BY <1>1 DEF Spreading, Parked, Mode
<1>3. CASE pin' = pin
  BY <1>1, <1>3, Calm DEF Unpinning, Past, Served
<1>4. CASE pin' # pin
  BY <1>1, <1>2, <1>4, Disturbing DEF Unpinning
<1>. QED  BY <1>3, <1>4

LEMMA SpreadingStep == OnAir /\ Spreading /\ [Next]_vars => Spreading'
<1>. SUFFICES ASSUME OnAir, Spreading, [Next]_vars PROVE Spreading'
  OBVIOUS
<1>. USE DEF time, hop, queue, hist
<1>1. CASE Timers(TRUE) \/ Timers(FALSE)
  BY <1>1, TimersSpread
<1>2. CASE Send
  BY <1>2, SendSpread
<1>3. ASSUME NEW p \in Peers, NEW kind, NEW seq, NEW lead, Action(p, kind, seq, lead)
      PROVE  Spreading'
  BY <1>3, ActionSpread
<1>4. ASSUME NEW p \in Peers, Data(p) PROVE Spreading'
  BY <1>4, DataSpread
<1>5. CASE PollNothing \/ TapNothing \/ Driver
  BY <1>5, Calm DEF PollNothing, TapNothing, Driver, Past, Served
<1>6. CASE TapMulticast
  BY <1>6, TapSpread
<1>7. ASSUME NEW p \in Peers, TapUnicast(p) PROVE Spreading'
  BY <1>7, Calm DEF TapUnicast, Past, Served
<1>8. CASE Pass
  BY <1>8, PassSpread
<1>9. CASE UNCHANGED vars
  BY <1>9, Calm DEF vars, Past, Served
<1>. QED  BY <1>1, <1>2, <1>3, <1>4, <1>5, <1>6, <1>7, <1>8, <1>9 DEF Next, Poll, Tap

LEMMA SpreadingInit == Init => Spreading
<1>. SUFFICES ASSUME Init PROVE Spreading
  OBVIOUS
<1>1. due \in 0..2 /\ Parked /\ ~short
  BY DEF Init, Parked, Fixed, Mode, FixedChannel, FixedSequence
<1>2. Queue(spread)
  BY DEF Init, Queue, ToSet
<1>. QED  BY <1>1, <1>2 DEF Spreading

\* A multicast that nothing disturbed leaves the queue only when it was tried on every
\* channel of the schedule, and sent wherever the radio took it and was on that channel
\* (drain_mcast_spread, against MulticastSpread's age limit).
THEOREM MulticastsReachAll == Spec => []SpreadReaches
<1>. DEFINE Inv == OnAir /\ Spreading
<1>1. Init => Inv
  BY OnAirInit, SpreadingInit
<1>2. Inv /\ [Next]_vars => Inv'
  BY OnAirStep, SpreadingStep
<1>3. Inv => SpreadReaches
  BY DEF Spreading, Reaching, SpreadReaches
<1>. HIDE DEF Inv
<1>. QED  BY <1>1, <1>2, <1>3, PTL DEF Spec

=============================================================================
