------------------------------ MODULE TxStatus ------------------------------
(***************************************************************************)
(* What became of the unicast frames a node hands to cfg80211              *)
(* (native/airdrop/crates/filin-rs/src: tx_status and MgmtTx of lib).  The *)
(* kernel answers a request with the frame's cookie and an acknowledgement *)
(* of the request; whether the frame was acknowledged on the air it        *)
(* reports later, or earlier, to everyone who listens, for everyone's      *)
(* frames, and what does not fit into the socket it drops.                 *)
(***************************************************************************)
EXTENDS Integers, Sequences, FiniteSets, FiniteSetsExt

CONSTANTS Frames,        \* unicast frames, numbered as their requests are; also their cookies
          Foreign,       \* cookies of other processes' frames on the same interface
          Room,          \* messages the socket holds
          Cap,           \* CAP: statuses the tracker waits for, and early ones it keeps
          Timeout,       \* TIMEOUT_MS
          MaxTime        \* bound on time

ASSUME TrackerAssumption ==
    /\ Cardinality(Frames) \in Nat /\ Frames = 1..Cardinality(Frames) /\ Frames \cap Foreign = {}
    /\ {Room, Cap, Timeout} \subseteq Nat \ {0} /\ MaxTime \in Nat

VARIABLES now,
          call,       \* the frame whose request waits for its answer, 0 for none
          taken,      \* frames the kernel has taken
          reported,   \* cookies whose status the kernel has sent, own and foreign
          socket,     \* datagrams: cookie, ack, status
          overrun,    \* the socket has dropped a message and says so to the next read
          tracker,    \* Tracker
          accepted,   \* history: per frame, when its request was acknowledged; -1: not
          learnt,     \* history: per frame, the status the tracker read and when
          pushedOut   \* history: frames whose place a full queue gave to another

txVars == <<now, call, taken, reported, socket, overrun, tracker, accepted, learnt, pushedOut>>

\* What becomes of a frame on the air.
Outcomes == {"acked", "noAck"}

\* The request and its cookie, 0 for none; pending in the order of requests, which is that
\* of their cookies and of time.
NewTracker == [seq |-> 0, cookie |-> 0, pending |-> {}, early |-> <<>>,
               acked |-> 0, noAck |-> 0, statusMissing |-> 0, cookieMissing |-> 0]
Unlearnt == [outcome |-> "noAck", at |-> -1]

TxInit ==
    /\ now = 0 /\ call = 0 /\ taken = {} /\ reported = {}
    /\ socket = <<>> /\ overrun = FALSE
    /\ tracker = NewTracker
    /\ accepted = [f \in Frames |-> -1]
    /\ learnt = [f \in Frames |-> Unlearnt]
    /\ pushedOut = {}

-----------------------------------------------------------------------------
(* The tracker. *)

Record(t, outcome) == IF outcome = "acked" THEN [t EXCEPT !.acked = @ + 1]
                                           ELSE [t EXCEPT !.noAck = @ + 1]

\* Those that leave the queue of t are missed.
Missing(t, left) == [t EXCEPT !.pending = left,
                              !.statusMissing = @ + Cardinality(t.pending \ left)]

ExpirePending(t) == Missing(t, {w \in t.pending : now - w.at < Timeout})

Waits(t, cookie) == \E w \in t.pending : w.cookie = cookie

\* What a full queue keeps: all but the first.
Roomy(q) == IF Cardinality(q) = Cap THEN {w \in q : \E v \in q : v.cookie < w.cookie} ELSE q
Newest(q) == IF Len(q) = Cap THEN Tail(q) ELSE q

Begin(t, seq) == [t EXCEPT !.seq = seq, !.cookie = 0, !.early = <<>>]

\* A status: of a frame that waits for it, or perhaps of the one that is being sent.
Status(t, m) ==
    IF Waits(t, m.cookie)
    THEN Record([t EXCEPT !.pending = {w \in @ : w.cookie # m.cookie}], m.outcome)
    ELSE IF t.seq = 0 THEN t
    ELSE [t EXCEPT !.early = Append(Newest(@), [cookie |-> m.cookie, outcome |-> m.outcome])]

\* Tracker::event.
Event(old, m) ==
    LET t == ExpirePending(old)
    IN CASE m.k = "cookie" -> IF t.seq = m.seq THEN [t EXCEPT !.cookie = m.cookie] ELSE t
         [] m.k = "status" -> Status(t, m)
         [] m.k = "ack"    -> t

Closed(t) == [t EXCEPT !.seq = 0, !.cookie = 0, !.early = <<>>]

\* The frame of t's request waits for its status.
Queue(t) ==
    LET roomy == Missing(Closed(t), Roomy(t.pending))
    IN [roomy EXCEPT !.pending = @ \cup {[cookie |-> t.cookie, at |-> now]}]

NoCookie(t) == [Closed(t) EXCEPT !.cookieMissing = @ + 1]

\* Mutant: a status that was faster than the answer is not looked for.
FinishLate(t, ok) ==
    IF ~ok THEN Closed(t) ELSE IF t.cookie = 0 THEN NoCookie(t) ELSE Queue(t)

\* Tracker::finish.
Finish(t, ok) ==
    LET mine == {i \in DOMAIN t.early : t.early[i].cookie = t.cookie}
    IN IF ~ok THEN Closed(t)
       ELSE IF t.cookie = 0 THEN NoCookie(t)
       ELSE IF mine = {} THEN Queue(t)
       ELSE Record(Closed(t), t.early[Min(mine)].outcome)

-----------------------------------------------------------------------------
(* The kernel. *)

\* What a full socket cannot hold is dropped.
Put(messages) ==
    LET room == Room - Len(socket)
        put == IF Len(messages) < room THEN Len(messages) ELSE room
    IN /\ socket' = socket \o SubSeq(messages, 1, put)
       /\ overrun' = (overrun \/ Len(messages) > room)

StatusOf(c, outcome) == [k |-> "status", cookie |-> c, outcome |-> outcome]

\* The status of a frame, ours or another's, to everyone in the group.
Report(c) ==
    /\ c \in (taken \cup Foreign) \ reported
    /\ reported' = reported \cup {c}
    /\ \E outcome \in Outcomes : Put(<<StatusOf(c, outcome)>>)
    /\ UNCHANGED <<now, call, taken, tracker, accepted, learnt, pushedOut>>

-----------------------------------------------------------------------------
(* MgmtTx. *)

Cookie(f) == [k |-> "cookie", seq |-> f, cookie |-> f]
Ack(f, error) == [k |-> "ack", seq |-> f, error |-> error]

\* send up to the answer: the kernel handles the request before its send returns, and the
\* frame may be on the air, and answered there, before its cookie is in the socket.
Submit(f) ==
    /\ call = 0 /\ f \notin taken /\ \A g \in Frames : g < f => g \in taken
    /\ call' = f
    /\ taken' = taken \cup {f}
    /\ tracker' = Begin(tracker, f)
    /\ \/ /\ Put(<<Ack(f, 1)>>)
          /\ reported' = reported \cup {f}
       \/ Put(<<Cookie(f), Ack(f, 0)>>) /\ UNCHANGED reported
       \/ /\ \E outcome \in Outcomes : \/ Put(<<StatusOf(f, outcome), Cookie(f), Ack(f, 0)>>)
                                      \/ Put(<<Cookie(f), StatusOf(f, outcome), Ack(f, 0)>>)
          /\ reported' = reported \cup {f}
    /\ UNCHANGED <<now, accepted, learnt, pushedOut>>

\* What is noted of a message that is read.
Noted(m) ==
    learnt' = IF m.k = "status" /\ m.cookie \in Frames
              THEN [learnt EXCEPT ![m.cookie] = [outcome |-> m.outcome, at |-> now]] ELSE learnt

EarlyOf(t) == {t.early[i].cookie : i \in DOMAIN t.early}
PendingOf(t) == {w.cookie : w \in t.pending}

\* finish and what send returns.
Return(t, ok) ==
    /\ tracker' = Finish(t, ok)
    /\ call' = 0
    /\ accepted' = [accepted EXCEPT ![call] = IF ok THEN now ELSE -1]
    /\ pushedOut' = pushedOut \cup (PendingOf(t) \ PendingOf(tracker'))

\* The tracker goes on as t.
GoOn(t) == tracker' = t /\ pushedOut' = pushedOut \cup (EarlyOf(tracker) \ EarlyOf(t))

\* The next datagram of a socket that has no error to tell.
Read(m, t) ==
    /\ ~overrun /\ socket # <<>>
    /\ m = Head(socket) /\ t = Event(tracker, m)
    /\ Noted(m)
    /\ socket' = Tail(socket)
    /\ UNCHANGED overrun

\* request_frame, a datagram; the error of a socket that has overrun comes first, and
\* when there is nothing left to read nothing comes for three seconds.
Await ==
    /\ call # 0
    /\ \/ /\ overrun \/ socket = <<>>
          /\ overrun' = FALSE
          /\ Return(tracker, FALSE)
          /\ UNCHANGED <<socket, learnt>>
       \/ LET m == Head(socket)
              t == Event(tracker, m)
          IN /\ Read(m, t)
             /\ IF m.k = "ack" /\ m.seq = call
                THEN Return(t, m.error = 0)
                ELSE GoOn(t) /\ UNCHANGED <<call, accepted>>
    /\ UNCHANGED <<now, taken, reported>>

\* tx_stats, a datagram, or the snapshot when there is none or the socket has overrun; one
\* that reads its last, the 32nd, has nothing left to do for its snapshot.
Drain ==
    /\ call = 0
    /\ \/ /\ overrun \/ socket = <<>>
          /\ overrun' = FALSE
          /\ GoOn(ExpirePending(tracker))
          /\ UNCHANGED <<socket, learnt>>
       \/ LET m == Head(socket)
              t == Event(tracker, m)
          IN Read(m, t) /\ GoOn(t)
    /\ UNCHANGED <<now, call, taken, reported, accepted>>

Elapse ==
    /\ now < MaxTime
    /\ now' = now + 1
    /\ UNCHANGED <<call, taken, reported, socket, overrun, tracker, accepted, learnt, pushedOut>>

TxNext == \/ Await \/ Drain \/ Elapse
          \/ \E f \in Frames : Submit(f)
          \/ \E c \in Frames \cup Foreign : Report(c)

-----------------------------------------------------------------------------

\* The statistics are of our frames and of each once: every request that was
\* acknowledged is counted in one way or still waits; a frame counts as acknowledged
\* on the air, or not, exactly if its own status was read in time, before or after the
\* answer to its request, whatever is reported of other processes' frames meanwhile;
\* only a full queue costs one (Tracker).
StatusesAreOurs ==
    LET ours == {f \in Frames : accepted[f] >= 0}
        inTime(f) == learnt[f].at >= 0 /\ learnt[f].at - accepted[f] < Timeout
        said(outcome) == {f \in ours \ pushedOut : inTime(f) /\ learnt[f].outcome = outcome}
    IN /\ Cardinality(ours) = tracker.acked + tracker.noAck + tracker.statusMissing
                                  + tracker.cookieMissing + Cardinality(tracker.pending)
       /\ tracker.acked = Cardinality(said("acked")) /\ tracker.noAck = Cardinality(said("noAck"))
=============================================================================
