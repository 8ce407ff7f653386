----------------------------- MODULE Introspect -----------------------------
(***************************************************************************)
(* What the two programs tell of themselves                                *)
(* (native/airdrop/crates/luftlift-rs/src/introspect.rs and introspect of  *)
(* filin-rs/src/lib.rs): threads that log, announce and serve write a ring *)
(* of events and loose fields; one thread answers local HTTP requests from *)
(* them, one at a time.                                                    *)
(***************************************************************************)
EXTENDS Integers, Sequences, FiniteSets

CONSTANTS Loggers,     \* threads that log
          RingCap,     \* TRACE_RING_CAP
          DefaultN,    \* TRACE_DEFAULT_N
          Port,        \* the receiver's port
          MaxEvents    \* bound on events

ASSUME RingAssumption ==
    /\ {RingCap, DefaultN, Port, MaxEvents} \subseteq Nat \ {0} /\ IsFiniteSet(Loggers)

VARIABLES program,     \* which of the two
          gate,        \* the level events are kept up to, 0 for none
          ring,        \* the events kept
          kept,        \* history: every event that was kept, in order
          logging,     \* per thread: the event that has passed the gate, or none
          events,      \* history: how many events there were
          sinceOff,    \* history: how many events were kept since the gate is closed
          fields,      \* luftlift: what record_announce sets; filin: the snapshot
          announcing,  \* the step of record_announce, or of a refresh
          request,     \* the request that is served, and what was read for it
          answer       \* the last answer

introVars == <<program, gate, ring, kept, logging, events, sinceOff, fields, announcing,
               request, answer>>

Off == 0
Debug == 4
Trace == 5
Levels == 1..5
NoEvent == 0
Idle == [k |-> "idle"]
Unset == [name |-> FALSE, port |-> 0, at |-> 0, announced |-> FALSE]

IntroInit ==
    /\ program \in {"filin", "luftlift"}
    /\ gate = Off /\ ring = <<>> /\ kept = <<>> /\ events = 0 /\ sinceOff = 0
    /\ logging = [t \in Loggers |-> NoEvent]
    /\ fields = Unset /\ announcing = 1
    /\ request = Idle /\ answer = Idle

-----------------------------------------------------------------------------
(* Events. *)

\* TraceGate::allows; luftlift keeps every level once it keeps one.
Allows(level) == gate # Off /\ (program = "filin" => gate >= level)

\* on_event up to the ring.
Log(t) ==
    /\ events < MaxEvents /\ logging[t] = NoEvent
    /\ \E level \in {1, Debug, Trace} :
          /\ Allows(level)
          /\ logging' = [logging EXCEPT ![t] = level]
    /\ events' = events + 1
    /\ UNCHANGED <<program, gate, ring, kept, sinceOff, fields, announcing, request, answer>>

Pushed(r, e) == Append(IF Len(r) >= RingCap THEN SubSeq(r, Len(r) - RingCap + 2, Len(r)) ELSE r, e)

\* TraceRing::push, push_trace: luftlift asks the gate again, which may close after that too.
Push(t) ==
    /\ logging[t] # NoEvent
    /\ \/ program = "luftlift" /\ gate = Off /\ UNCHANGED <<ring, kept, sinceOff>>
       \/ LET e == [n |-> Len(kept) + 1, level |-> logging[t]]
          IN /\ ring' = Pushed(ring, e)
             /\ kept' = Append(kept, e)
             /\ sinceOff' = IF gate = Off THEN sinceOff + 1 ELSE 0
    /\ logging' = [logging EXCEPT ![t] = NoEvent]
    /\ UNCHANGED <<program, gate, events, fields, announcing, request, answer>>

-----------------------------------------------------------------------------
(* Status. *)

\* record_announce sets field by field.
AnnounceOrder == <<"name", "port", "at", "announced">>

Told == [name |-> TRUE, port |-> Port, at |-> 1, announced |-> TRUE]

\* A step of record_announce; a refresh of filin's snapshot is one, under its lock.
RecordAnnounce ==
    /\ announcing <= Len(AnnounceOrder)
    /\ IF program = "luftlift"
       THEN LET field == AnnounceOrder[announcing]
            IN fields' = [fields EXCEPT ![field] = Told[field]] /\ announcing' = announcing + 1
       ELSE fields' = Told /\ announcing' = Len(AnnounceOrder) + 1
    /\ UNCHANGED <<program, gate, ring, kept, logging, events, sinceOff, request, answer>>

\* Mutant: the port is read before the mark.
SnapshotPortFirst == <<"port", "at", "name", "announced">>

\* The order in which snapshot reads.
SnapshotOrder == <<"at", "name", "announced", "port">>

-----------------------------------------------------------------------------
(* HTTP. *)

Absent == -1
Unreadable == -2

Asks ==
    {[k |-> "status"]} \cup [k: {"trace"}, n: {Absent, Unreadable, 0, 1, 9}]
        \cup [k: {"post"}, level: {"off", "debug", "trace", "verbose", "absent"}]
        \cup {[k |-> "other"]}

\* serve_loop: one connection after the other.
Accept ==
    /\ request = Idle
    /\ \E ask \in Asks : request' = [k |-> ask.k, ask |-> ask, step |-> 1, read |-> Unset]
    /\ answer' = Idle
    /\ UNCHANGED <<program, gate, ring, kept, logging, events, sinceOff, fields, announcing>>

Reply(a) == answer' = a /\ request' = Idle

\* parse_trace_n and last_n: what cannot be read is luftlift's 0 and filin's default, and
\* 0 is all of it to luftlift.
Wanted(n) ==
    IF n = Absent \/ (n = Unreadable /\ program = "filin") THEN DefaultN
    ELSE IF program = "luftlift" /\ n \in {Unreadable, 0} THEN RingCap ELSE n

LastN(n) == SubSeq(ring, (IF n < Len(ring) THEN Len(ring) - n ELSE 0) + 1, Len(ring))

GetStatus ==
    /\ request.k = "status"
    /\ IF program = "filin"
       THEN Reply([k |-> "status", code |-> 200, read |-> fields])
       ELSE LET field == SnapshotOrder[request.step]
                read == [request.read EXCEPT ![field] = fields[field]]
            IN IF request.step = Len(SnapshotOrder)
               THEN Reply([k |-> "status", code |-> 200, read |-> read])
               ELSE /\ request' = [request EXCEPT !.step = @ + 1, !.read = read]
                    /\ UNCHANGED answer
    /\ UNCHANGED <<gate, sinceOff>>

GetTrace ==
    /\ request.k = "trace"
    /\ Reply([k |-> "trace", code |-> 200, n |-> Wanted(request.ask.n), of |-> Len(kept),
              events |-> LastN(Wanted(request.ask.n))])
    /\ UNCHANGED <<gate, sinceOff>>

LevelOf(name) == CASE name = "debug" -> Debug [] name = "trace" -> Trace [] OTHER -> Off

\* A level that is none closes luftlift's gate and is an error to filin.
PostTrace ==
    LET name == request.ask.level
        known == name \in {"off", "debug", "trace"}
        refused == name = "absent" \/ (~known /\ program = "filin")
    IN /\ request.k = "post"
       /\ gate' = IF refused THEN gate ELSE LevelOf(name)
       /\ sinceOff' = IF refused THEN sinceOff ELSE 0
       /\ Reply([k |-> "post", code |-> IF refused THEN 400 ELSE 200])

NotFound == request.k = "other" /\ Reply([k |-> "other", code |-> 404]) /\ UNCHANGED <<gate, sinceOff>>

Serve ==
    /\ GetStatus \/ GetTrace \/ PostTrace \/ NotFound
    /\ UNCHANGED <<program, ring, kept, logging, events, fields, announcing>>

IntroNext == RecordAnnounce \/ Accept \/ Serve \/ \E t \in Loggers : Log(t) \/ Push(t)

-----------------------------------------------------------------------------

\* A status that says the receiver is announced has its port: record_announce marks the
\* announcement last, and snapshot reads the port after the mark. The name, which it
\* reads before, may be missing.
StatusIsWhole == answer.k = "status" /\ answer.read.announced => answer.read.port = Port

\* A trace is the latest events that were kept, without a gap and in order, as many as
\* were asked for or the ring has; and once the gate is closed each thread adds at most
\* the event that had passed it (TraceRing, TraceGate).
TraceIsRecent ==
    /\ answer.k = "trace" =>
          LET n == Len(answer.events) IN
          /\ \A i \in 1..n : answer.events[i] = kept[answer.of - n + i]
          /\ n = answer.n \/ n = answer.of \/ n = RingCap
    /\ gate = Off => sinceOff <= Cardinality(Loggers)

=============================================================================
