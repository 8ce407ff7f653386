-------------------------------- MODULE Node --------------------------------
(***************************************************************************)
(* The loop of the AWDL daemon                                             *)
(* (native/airdrop/crates/filin-rs/src/lib.rs, modules state, schedule and *)
(* runtime; pending_tx.rs, pending_rx.rs; main.rs).  One thread goes round *)
(*                                                                         *)
(*   timers    channel switch, channel reservation, lost peers             *)
(*   send      spread multicasts, delayed deliveries, queued unicasts      *)
(*   poll      one frame of the radio                                      *)
(*   tap       one frame of the host's awdl0                               *)
(*                                                                         *)
(* while time, the driver and the peers go on between any two of these     *)
(* steps.  A world fixes the mode (an own radio that hops or is parked, or *)
(* a radio of the Wi-Fi station, with reservations or without) and what    *)
(* comes in.  The elected parent is given by module Election: here it is   *)
(* any valid peer or the node itself.                                      *)
(*                                                                         *)
(* Time is counted in half slots: on the even ones the window changes and  *)
(* no frame may be sent (the guard intervals), on the odd ones the node is *)
(* in the core of the availability window.  A peer has a clock of its own, *)
(* whose windows may begin when those of the node are half over.           *)
(***************************************************************************)
EXTENDS Schedule

CONSTANTS Peers, Self, NoPeer,
          Worlds,        \* [mode, inputs, peers, heard, slow, frames]
          Advertised,    \* what a peer may announce: sequence -> Slots to channels
          Anchor,        \* the configured channel; with a station, its channel
          RocChannel,    \* FILIN_ROC_CHANNEL
          Debounce,      \* MASTER_DEBOUNCE_US in half slots
          PinTime,       \* TRANSFER_IDLE_TIMEOUT_US
          SpreadCap, SpreadTtl,        \* MULTICAST_SPREAD_CAP, HOP_CYCLE_US
          TxCap, TxPerPeer, TxAge,     \* MAX_PACKETS, MAX_PER_PEER, MAX_AGE_US of pending_tx
          RxCap, RxAge,                \* MAX_PACKETS, MAX_AGE_US of pending_rx
          Leads,         \* half slots by which a peer's clock may be ahead
          NoLead,        \* nothing is known of the peer's clock
          Retry,         \* half slots until a failed reservation is tried again
          Cookies, MaxEarly, ReadyLimit,
          MaxRequests    \* bound: reservations asked for

R == INSTANCE Reservation

\* What is known of a peer: its schedule, whether a MIF of it was heard, and its clock.
Peer == [seq : Advertised, valid : BOOLEAN, lead : Nat \cup {NoLead}]

ASSUME NodeAssumption == Self \notin Peers /\ NoPeer \notin Peers \cup {Self} \cup Peer
ASSUME WorldAssumption ==
    Worlds \subseteq [mode: {"hop", "park", "station", "roc"}, peers: SUBSET Peers,
                      inputs: SUBSET {"action", "clock", "data", "mcast", "unicast", "fail"},
                      heard: SUBSET Advertised, slow: BOOLEAN,
                      frames: Nat]   \* bound: frames of the host, numbered
ASSUME NodeBounds ==
    /\ {Debounce, PinTime, SpreadCap, SpreadTtl, TxCap, TxPerPeer, TxAge, RxCap, RxAge,
        Retry, MaxEarly, ReadyLimit, MaxRequests} \subseteq Nat
    /\ Leads \subseteq Nat /\ NoLead \notin Nat /\ RxCap # 0 /\ SpreadCap # 0
    /\ SpreadTtl >= 2 * SeqLen           \* a hop cycle
ASSUME ChannelsAssumption ==
    /\ Advertised \subseteq [Slots -> Channels] /\ Anchor \in Channels \ {0}
    /\ IsFiniteSet(Peers)
ASSUME CookiesAssumption == Cookies \subseteq Nat \ {0}

VARIABLES world,
          at, due, idle,       \* half slot; half slots until next_switch_us; was the loop run since
          pc,
          table,               \* PeerTable: NoPeer or what it announced, and its clock
          winner,              \* election.sync_addr
          committed, pending, pendAge, sequence, anchor,   \* adoption of a master's schedule
          pin,                 \* TransferPin
          current, tuned,      \* current_channel; where an own radio is
          resv,                \* reservation, socket and driver (module Reservation)
          roc,                 \* RocCapture and home_freq
          spread, txq, rxq,    \* MulticastSpread, PendingTx (in the order of ids), PendingRx
          frames, requests,    \* bounds
          sent,                \* history: unicasts that left, as txq has them
          short,               \* history: a multicast left before it was tried everywhere
          led,                 \* history: a followed master announced what the node did not do alone
          won                  \* history: half slots the parent has been elected without a break

time  == <<at, due, idle>>
hop   == <<committed, pending, pendAge, sequence, anchor, led>>
queue == <<spread, txq, rxq>>
hist  == <<frames, sent, short>>
parent == <<winner, won>>
vars  == <<world, time, pc, table, parent, hop, pin, current, tuned, resv, roc, requests, queue, hist>>

Mode == world.mode
Fixed == Mode \in {"station", "roc"}
Slot == at \div 2
Core == at % 2 = 1
NoPin == [chan |-> 0, age |-> PinTime]

FixedChannel == IF Mode = "roc" THEN RocChannel ELSE Anchor
FixedSequence == IF Mode = "roc" THEN RocSequence(RocChannel, Anchor) ELSE Constant(Anchor)

Listed(t) == {p \in Peers : t[p] # NoPeer}
Valid(t)  == {p \in Listed(t) : t[p].valid}

\* AwdlState::new and the first lines of run.
Init ==
    /\ world \in Worlds
    /\ at = 0 /\ due = 0 /\ idle = FALSE
    /\ pc = "timers"
    /\ table = [p \in Peers |-> NoPeer]
    /\ winner = Self /\ won = 0
    /\ committed = Self /\ pending = Self /\ pendAge = 0
    /\ sequence = IF Fixed THEN FixedSequence ELSE Constant(Anchor)
    /\ anchor = 0 /\ led = FALSE
    /\ pin = NoPin
    /\ current = IF Fixed THEN FixedChannel ELSE Anchor
    /\ tuned = Anchor
    /\ resv = R!Idle
    /\ roc = [home |-> FALSE, held |-> FALSE, wait |-> 0, gate |-> 0]
    /\ spread = <<>> /\ txq = {} /\ rxq = <<>>
    /\ frames = 0 /\ requests = 0
    /\ sent = {} /\ short = FALSE
-----------------------------------------------------------------------------
(* The schedule that is followed.                                          *)

\* transfer_active
Pinned(p) == p.chan # 0 /\ p.age < PinTime

\* desired_channel; park is where the node would park.
Desired(park) ==
    IF Fixed THEN FixedChannel
    ELSE IF Mode = "park" THEN park
    ELSE IF Pinned(pin) THEN pin.chan
    ELSE sequence[Slot]

\* Mutant: a challenger is followed at once.
SettledNow(w) == TRUE

\* master_adoption_decision: only a change between two masters has to last.
Settled(w) ==
    \/ committed = Self \/ w = Self \/ w = committed
    \/ w = pending /\ pendAge >= Debounce

\* History: w announces some channel, and not just the one of a node alone.
Leading(w, t) == w \in Listed(t) /\ t[w].seq \notin {Constant(0), Constant(Anchor)}

\* The sequence taken from master w of table t; one without channels leaves the old one.
Take(w, t) ==
    /\ committed' = w /\ pending' = w /\ pendAge' = 0
    /\ led' = (w # Self /\ (led \/ Leading(w, t)))
    /\ IF w = Self
       THEN /\ sequence' = Constant(Anchor)
            /\ anchor' = IF sequence = Constant(Anchor) THEN anchor ELSE 0
       ELSE IF w \in Listed(t) /\ t[w].seq # Constant(0) /\ t[w].seq # sequence
       THEN /\ sequence' = Adopted(t[w].seq)
            /\ anchor' = MasterAnchor(ReplaceNoIr(t[w].seq))
       ELSE UNCHANGED <<sequence, anchor>>

Hold(w) ==
    /\ pending' = w
    /\ pendAge' = IF w = pending THEN pendAge ELSE 0
    /\ UNCHANGED <<committed, sequence, anchor, led>>

\* sync_channel_sequence for the elected parent w and table t; channel is where the
\* node takes itself to be before the call.
Sync(w, t, channel) ==
    \/ /\ Fixed
       /\ sequence' = FixedSequence
       /\ current' = FixedChannel
       /\ anchor' = IF w \in Listed(t) THEN MasterAnchor(t[w].seq) ELSE 0
       /\ UNCHANGED <<committed, pending, pendAge, led>>
    \/ /\ ~Fixed /\ Pinned(pin)
       /\ current' = channel
       /\ UNCHANGED hop
    \/ /\ ~Fixed /\ ~Pinned(pin)
       /\ current' = channel
       /\ IF Settled(w) THEN Take(w, t) ELSE Hold(w)

\* run_election: a node may elect any valid peer or lead itself.
Elect(t) ==
    /\ winner' \in Valid(t) \cup {Self}
    /\ won' = IF winner' = winner THEN won ELSE 0
-----------------------------------------------------------------------------
(* Timers.                                                                 *)

\* The channel after the switch timer, which is set to the end of the window.
Switched(park) == IF due > 0 THEN current ELSE Desired(park)
Rearmed == IF due > 0 THEN due ELSE IF Core THEN 1 ELSE 2

\* The timer goes with the windows: a change of the clock by half a slot is over with it.
Aligned == (at + due) % 2 = 0

\* History: a multicast that is disturbed is owed no channel any more.
Disturbed(q) == [i \in DOMAIN q |-> [q[i] EXCEPT !.owed = {}]]
Unpinning(q) == IF pin' = pin THEN q ELSE Disturbed(q)

\* Half slots until the run of slots on the reserved channel ends.
Remaining == IF Run(sequence, Slot, RocChannel) = 0 THEN 0
             ELSE 2 * Run(sequence, Slot, RocChannel) - (IF Core THEN 1 ELSE 0)

\* RocCapture::tick on what is left of the last dwell: m is the reservation after a dwell
\* that is over, or whose slots are, has been given up.
Rest(reported) ==
    LET over == R!Finished(resv.resv) \/ (R!Pending(resv.resv) /\ FixedSequence[Slot] # RocChannel)
    IN  IF over THEN [m |-> R!Cancel(resv, reported), held |-> FALSE, wait |-> 1]
        ELSE [m |-> resv, held |-> roc.held, wait |-> roc.wait]

TickHome(rest) ==
    /\ FixedSequence[Slot] = Anchor
    /\ resv' = rest.m
    /\ roc' = [home |-> TRUE, held |-> TRUE, wait |-> rest.wait, gate |-> Anchor]
    /\ UNCHANGED requests

TickNull(rest) ==
    /\ FixedSequence[Slot] = 0
    /\ resv' = rest.m
    /\ roc' = [home |-> FALSE, held |-> rest.held, wait |-> rest.wait, gate |-> 0]
    /\ UNCHANGED requests

\* A new dwell is asked for until the end of the run of slots, 200 ms at most.
TickRequest(rest) ==
    /\ FixedSequence[Slot] = RocChannel /\ RocChannel # Anchor
    /\ ~R!Pending(rest.m.resv) /\ rest.wait = 0 /\ Remaining > 1
    /\ requests < MaxRequests
    /\ requests' = requests + 1
    /\ \E answer \in R!Answers, c \in Cookies :
           LET m == R!StartRoc(rest.m, requests + 1, Min({Remaining, 6}), answer, c)
           IN  /\ resv' = m
               /\ roc' = [home |-> FALSE, held |-> FALSE, gate |-> 0,
                          wait |-> IF R!Pending(m.resv) THEN 0 ELSE Retry]

TickDwell(rest) ==
    /\ FixedSequence[Slot] = RocChannel /\ RocChannel # Anchor
    /\ R!Pending(rest.m.resv) \/ rest.wait > 0 \/ Remaining <= 1 \/ requests = MaxRequests
    /\ LET m == IF R!Pending(rest.m.resv) THEN R!Drain(rest.m) ELSE rest.m
       IN  /\ resv' = m
           /\ roc' = [home |-> FALSE, held |-> R!Open(m.resv), wait |-> rest.wait,
                      gate |-> IF R!Open(m.resv) THEN RocChannel ELSE 0]
    /\ UNCHANGED requests

Tick == \E reported \in BOOLEAN :
    LET rest == Rest(reported)
    IN  TickHome(rest) \/ TickNull(rest) \/ TickRequest(rest) \/ TickDwell(rest)

\* clean_peers: those not heard during their lease are dropped, the rest elects again.
Lose(gone, channel) ==
    /\ table' = [p \in Peers |-> IF p \in gone THEN NoPeer ELSE table[p]]
    /\ Elect(table')
    /\ Sync(winner', table', channel)

\* One pass over the timers; clean is true when the timer of a second is due.  A change of
\* channel that fails leaves an own radio where it is.
Timers(clean) ==
    /\ pc = "timers"
    /\ pc' = "send"
    /\ due' = Rearmed
    /\ IF Mode = "roc" THEN Tick ELSE UNCHANGED <<resv, roc, requests>>
    /\ \E under \in SUBSET Listed(table), retuned \in BOOLEAN :
           LET park == ParkChannel([p \in under |-> table[p].seq[0]],
                                   IF winner = Self THEN 0 ELSE table[winner].seq[0], Anchor)
               channel == IF Mode = "roc" THEN roc'.gate ELSE Switched(park)
           IN  /\ Mode = "park" \/ under = {}
               /\ "fail" \in world.inputs \/ retuned
               /\ tuned' = IF Fixed \/ channel = 0 \/ channel = current \/ ~retuned THEN tuned ELSE channel
               /\ IF clean THEN \E gone \in SUBSET Listed(table) : Lose(gone, channel)
                  ELSE current' = channel /\ UNCHANGED <<table, parent, hop>>
    /\ spread' = IF sequence' # sequence THEN Disturbed(spread) ELSE spread
    /\ UNCHANGED <<world, at, idle, pin, txq, rxq, hist>>
-----------------------------------------------------------------------------
(* Sending.                                                                *)

\* MgmtTx::send, Injector::send: can a frame be handed to the radio, and where does it go.
Accepts == Mode # "roc" \/ R!Open(resv.resv) \/ roc.home
AirChannel ==
    IF Mode = "roc" THEN (IF R!Open(resv.resv) THEN RocChannel ELSE Anchor)
    ELSE IF Mode = "station" THEN Anchor ELSE tuned

\* Sends that fail although the radio could take the frame.
Failing(ids) == {x \in SUBSET ids : "fail" \in world.inputs \/ x = {}}

\* A request to the driver hears the events that wait.
Heard(used) == IF Mode = "roc" /\ used THEN R!Drain(resv) ELSE resv

\* The elements of q at the places that are given, in their order.
Those(q, places) ==
    LET those[i \in 0..Len(q)] ==
            IF i = 0 THEN <<>>
            ELSE IF i \in places THEN Append(those[i - 1], q[i]) ELSE those[i - 1]
    IN  those[Len(q)]

\* Mutant: a multicast is done once it was sent anywhere.
OnceIsEnough(q, c) ==
    [sent |-> {i \in DOMAIN q : q[i].age <= SpreadTtl /\ c \in q[i].todo},
     keep |-> {i \in DOMAIN q : q[i].age <= SpreadTtl /\ c \notin q[i].todo}]

\* drain_for_channel: what is too old goes, what has channel c to do is sent there, and
\* what has nothing left to do goes.
DrainFor(q, c) ==
    [sent |-> {i \in DOMAIN q : q[i].age <= SpreadTtl /\ c \in q[i].todo},
     keep |-> {i \in DOMAIN q : q[i].age <= SpreadTtl /\ q[i].todo \ {c} # {}}]

\* History: a frame that was tried is owed no more the channel it went out on, nor this one
\* if the radio refused it or was elsewhere.
Settles(took) ==
    (IF took THEN {AirChannel} ELSE {}) \cup (IF took /\ AirChannel = current THEN {} ELSE {current})

\* A frame that was tried on this channel is not tried again here, whether it went out or not.
Tried(e, took) == [e EXCEPT !.todo = @ \ {current}, !.owed = @ \ Settles(took)]

\* drain_mcast_spread of queue q, of which the radio refuses some frames.
\* Frames that left although a channel was owed to them are remembered.
Spreads(q) ==
    IF current = 0 \/ ~Core THEN /\ spread' = Unpinning(q) /\ UNCHANGED <<resv, short>>
    ELSE LET d == DrainFor(q, current)
         IN  \E failed \in Failing(d.sent) :
                 LET done == [i \in DOMAIN q |->
                                 IF i \in d.sent THEN Tried(q[i], Accepts /\ i \notin failed) ELSE q[i]]
                 IN  /\ spread' = Unpinning(Those(done, d.keep))
                     /\ short' = (short \/ \E i \in DOMAIN q \ d.keep : done[i].owed # {})
                     /\ resv' = Heard(d.sent # {})

\* deliver_rx: unicast data from the air pins the radio to the channel it came on.
PinTo(c) == [chan |-> c, age |-> 0]

\* PendingRx::ready and deliver_rx: what waited too long goes, what is of a valid peer is
\* delivered and pins the radio to the channel it came on.
Release ==
    LET young == {i \in DOMAIN rxq : rxq[i].age < RxAge}
        ready == {i \in young : rxq[i].from \in Valid(table)}
    IN  /\ rxq' = Those(rxq, young \ ready)
        /\ pin' = IF ready = {} THEN pin ELSE PinTo(rxq[Max(ready)].chan)

\* The peer's half slot: of its own clock, or of the node's where it has announced none.
PeerAt(p) == IF table[p].lead = NoLead THEN at ELSE (at + table[p].lead) % (2 * SeqLen)

\* A peer's window that changes during a half slot of the node does so before, while or
\* after the node sends.
Moments == {"before", "during", "after"}
Changes(p) == PeerAt(p) % 2 = 0
PeerSlot(p, moment) ==
    (IF Changes(p) /\ moment = "before" THEN (PeerAt(p) - 1) % (2 * SeqLen) ELSE PeerAt(p)) \div 2

\* Both are on channel c, each by its own clock.
Meet(p, c, moment) == sequence[Slot] = c /\ table[p].seq[PeerSlot(p, moment)] = c

\* Neither is in a guard interval of its own clock.
BothCore(p, moment) == Core /\ ~(Changes(p) /\ moment = "during")

\* data_send_decision for a unicast.
Decision(f, moment) ==
    IF current = 0 THEN "hold"
    ELSE IF table[f.dst] = NoPeer THEN "drop"
    ELSE IF Meet(f.dst, current, moment) /\ BothCore(f.dst, moment) THEN "send"
    ELSE "hold"

\* try_send_data: the radio may refuse a frame, or the time for sending be over.
Outcome(f, refused, moment) ==
    IF Decision(f, moment) = "send" /\ (~Accepts \/ f.id \in refused) THEN "hold"
    ELSE Decision(f, moment)

\* Mutant: a frame that is held does not stop those behind it.
DrainAll(q, refused, moment) ==
    [keep |-> {f \in q : Outcome(f, refused, moment) = "hold"},
     sent |-> {f \in q : Outcome(f, refused, moment) = "send"}]

\* PendingTx::drain: a frame that is held stops those of its peer.
DrainTx(q, refused, moment) ==
    LET keep == {f \in q : \E e \in q : /\ e.dst = f.dst /\ e.id <= f.id
                                         /\ Outcome(e, refused, moment) = "hold"}
    IN  [keep |-> keep, sent |-> {f \in q \ keep : Outcome(f, refused, moment) = "send"}]

Unexpired(q) == {f \in q : f.age < TxAge}

Send ==
    /\ pc = "send"
    /\ pc' = "poll"
    /\ Release
    /\ Spreads(spread)
    /\ \E refused \in SUBSET {f.id : f \in txq}, moment \in Moments :
           LET d == DrainTx(Unexpired(txq), refused, moment)
           IN  /\ txq' = d.keep
               /\ sent' = sent \cup {[id |-> f.id, dst |-> f.dst] : f \in d.sent}
    /\ UNCHANGED <<world, time, table, parent, hop, current, tuned, roc, frames, requests>>
-----------------------------------------------------------------------------
(* Receiving.                                                              *)

\* Nothing worth a change came from the radio.
PollNothing ==
    /\ pc = "poll"
    /\ pc' = "tap"
    /\ UNCHANGED <<world, time, table, parent, hop, pin, current, tuned, resv, roc, requests, queue, hist>>

\* A frame of p is heard, which may tell the clock of p.
Told(p, kind, seq, lead) ==
    LET known == table[p] # NoPeer
    IN  [table EXCEPT ![p] = [seq |-> seq,
            valid |-> kind = "Mif" \/ (known /\ table[p].valid),
            lead |-> IF lead = NoLead /\ known THEN table[p].lead ELSE lead]]

\* The own clock goes n half slots ahead: those of the peers are that much less ahead of it.
Shifted(t, n) ==
    [p \in Peers |-> IF p \notin Listed(t) \/ t[p].lead = NoLead THEN t[p]
                     ELSE [t[p] EXCEPT !.lead = (@ - n) % (2 * SeqLen)]]

\* apply_action: the peer is listed with its clock, a MIF makes it valid, the election runs,
\* the clock of an elected parent is taken, and then the schedule.
Action(p, kind, seq, lead) ==
    /\ pc = "poll"
    /\ "action" \in world.inputs /\ p \in world.peers
    /\ lead = NoLead \/ "clock" \in world.inputs
    /\ pc' = "tap"
    /\ LET heard == Told(p, kind, seq, lead)
           jump  == IF winner' = p /\ lead # NoLead THEN lead ELSE 0
       IN  /\ Elect(heard)
           /\ at' = (at + jump) % (2 * SeqLen)
           /\ table' = Shifted(heard, jump)
           /\ Sync(winner', heard, current)
    /\ spread' = IF at' # at \/ sequence' # sequence THEN Disturbed(spread) ELSE spread
    /\ UNCHANGED <<world, due, idle, pin, tuned, resv, roc, requests, txq, rxq, hist>>

\* PendingRx::push: the oldest makes room.
Waiting(p) ==
    Append(IF Len(rxq) >= RxCap THEN Tail(rxq) ELSE rxq, [from |-> p, chan |-> current, age |-> 0])

\* A unicast of p: it waits if p was not heard before, else it goes to the host.
Data(p) ==
    /\ pc = "poll"
    /\ "data" \in world.inputs /\ p \in world.peers
    /\ pc' = "tap"
    /\ IF table[p] = NoPeer
       THEN rxq' = (IF current = 0 THEN rxq ELSE Waiting(p)) /\ UNCHANGED pin
       ELSE pin' = PinTo(current) /\ UNCHANGED rxq
    /\ spread' = Unpinning(spread)
    /\ UNCHANGED <<world, time, table, parent, hop, current, tuned, resv, roc, requests, txq, hist>>

\* The host sends nothing.
TapNothing ==
    /\ pc = "tap"
    /\ pc' = "timers" /\ idle' = TRUE
    /\ UNCHANGED <<world, at, due, table, parent, hop, pin, current, tuned, resv, roc, requests, queue, hist>>

\* MulticastSpread::enqueue: a frame is to go out on all channels of the sequence.  The
\* oldest makes room.
Enqueued ==
    LET todo == DistinctChannels(sequence, Anchor)
        room == IF Len(spread) >= SpreadCap THEN Tail(spread) ELSE spread
        owed == ~Pinned(pin) /\ current = sequence[Slot] /\ Aligned
    IN  IF todo = {} THEN spread
        ELSE Append(room, [todo |-> todo, age |-> 0,
                           owed |-> IF owed THEN todo ELSE {}])

\* A multicast of the host: it leaves at once on this channel.
TapMulticast ==
    /\ pc = "tap"
    /\ "mcast" \in world.inputs /\ frames < world.frames
    /\ pc' = "timers" /\ idle' = TRUE
    /\ frames' = frames + 1
    /\ UNCHANGED <<world, at, due, table, parent, hop, pin, current, tuned, roc, requests, txq, rxq, sent>>
    /\ Spreads(Enqueued)

\* PendingTx::push: what is too old goes, the newest is refused when the queue or the
\* peer's part of it is full.
Queued(id, d) ==
    LET young == Unexpired(txq)
    IN  IF Cardinality(young) >= TxCap \/ Cardinality({f \in young : f.dst = d}) >= TxPerPeer
        THEN young ELSE young \cup {[id |-> id, dst |-> d, age |-> 0]}

\* A unicast of the host.
TapUnicast(d) ==
    /\ pc = "tap"
    /\ "unicast" \in world.inputs /\ frames < world.frames
    /\ d \in world.peers
    /\ pc' = "timers" /\ idle' = TRUE
    /\ frames' = frames + 1
    /\ txq' = Queued(frames + 1, d)
    /\ UNCHANGED <<world, at, due, table, parent, hop, pin, current, tuned, resv, roc, requests,
                   spread, rxq, sent, short>>
-----------------------------------------------------------------------------
(* Time and the driver.                                                    *)

Aged(e, limit)  == [e EXCEPT !.age = IF @ > limit THEN @ ELSE @ + 1]
Older(q, limit) == [i \in DOMAIN q |-> Aged(q[i], limit)]

\* Half a slot passes: not before the loop has gone round, or at any point of it where the
\* world is slow (a request to the driver may take long).
Pass ==
    /\ world.slow \/ (pc = "timers" /\ idle)
    /\ idle' = FALSE
    /\ at' = (at + 1) % (2 * SeqLen)
    /\ due' = IF due > 0 THEN due - 1 ELSE 0
    /\ pendAge' = IF pendAge < Debounce THEN pendAge + 1 ELSE pendAge
    /\ won' = IF won < Debounce THEN won + 1 ELSE won
    /\ pin' = IF pin.age < PinTime THEN [pin EXCEPT !.age = @ + 1] ELSE NoPin
    /\ resv' = R!Later(resv)
    /\ roc' = [roc EXCEPT !.wait = IF @ > 0 THEN @ - 1 ELSE 0]
    /\ spread' = LET q == Older(spread, SpreadTtl) IN IF idle /\ pc = "timers" THEN q ELSE Disturbed(q)
    /\ txq' = {Aged(f, TxAge) : f \in txq} /\ rxq' = Older(rxq, RxAge)
    /\ UNCHANGED <<world, pc, table, winner, committed, pending, sequence, anchor, led, current,
                   tuned, requests, hist>>

Driver ==
    /\ \/ resv.driver # R!NoDwell /\ ~resv.driver.on /\ resv' = R!DriverReady(resv)
       \/ /\ resv.driver # R!NoDwell /\ resv.driver.on /\ resv.driver.left = 0
          /\ \E reported \in BOOLEAN : resv' = R!DriverEnds(resv, reported)
    /\ UNCHANGED <<world, time, pc, table, parent, hop, pin, current, tuned, roc, requests, queue, hist>>

Poll == \/ PollNothing
        \/ \E p \in Peers : \/ \E kind \in {"Mif", "Psf"}, seq \in world.heard,
                                 lead \in Leads \cup {NoLead} : Action(p, kind, seq, lead)
                            \/ Data(p)
Tap == TapNothing \/ TapMulticast \/ \E d \in Peers : TapUnicast(d)

Next == Timers(TRUE) \/ Timers(FALSE) \/ Send \/ Poll \/ Tap \/ Pass \/ Driver

Spec == Init /\ [][Next]_vars
-----------------------------------------------------------------------------
(* Properties.                                                             *)

CoversSocial == ToSet(Social) \subseteq {sequence[i] : i \in Slots}

\* "This guarantees filin physically visits 149 (where iPhones scan for AirDrop) even when
\* the adopted master's sequence omits it": whoever follows a master that announces any
\* channel has a schedule with every channel on which others look for it.
FollowersVisitSocial ==
    ~Fixed /\ committed \in Listed(table) /\ table[committed].seq # Constant(0) => CoversSocial

\* It has, once a master it has followed since it last led itself announced anything but
\* exactly the channel of a node alone, whatever masters, losses and transfers came since.
VisitsSocial == ~Fixed /\ led => CoversSocial

\* An own radio whose configured channel is one it may transmit on is never led to one where
\* it may not, whatever peers announce, and wherever a transfer, a parking place or a master
\* leads it.
OnlyUsableChannels ==
    ~Fixed /\ Anchor \notin NoIr
        => ({sequence[i] : i \in Slots} \cup {pin.chan, current, tuned}) \cap NoIr = {}

\* What announced schedules make of the own one: a schedule of channels the node may be on,
\* with those on which others look for it.
FollowsUsableSchedule == OnlyUsableChannels /\ VisitsSocial

\* The gate of a reservation is opened by the driver's grant of that very reservation.
OpenedByOwnGrant == R!OpenedByOwnGrant(resv)

\* Unicasts to a peer go out in the order of the host, whatever is held, refused or
\* expires in between: what waits for a peer is younger than all that was sent to it, so
\* nothing is overtaken and nothing goes out twice.
TxInOrder == \A f \in txq, e \in sent : e.dst = f.dst => e.id < f.id

\* A multicast that nothing disturbed (no other schedule, also not in the slot it came in,
\* no other clock, no transfer, no slow loop) has been sent on every channel of the sequence
\* by the time it is dropped, but for those where the radio refused it, or was elsewhere as
\* the change of channel had failed, if the queue had room for it.
SpreadReaches == Mode \in {"hop", "station"} => ~short

\* Without transfers, the schedule goes from one master to another only when that one has
\* won every election for the whole debounce time, whatever was announced, lost and elected
\* in between.
ChallengersLast ==
    [][(/\ "data" \notin world.inputs
        /\ committed' # committed /\ {committed, committed'} \subseteq Peers)
            => winner' = winner /\ won >= Debounce]_vars

\* "tick returns the channel the radio should be treated as being on for TX gating": where
\* frames are sent, that is the current channel.
GateIsTick == Mode = "roc" /\ pc \in {"send", "tap"} => current = roc.gate
=============================================================================
