---------------------------- MODULE Reservation ----------------------------
(***************************************************************************)
(* The one channel reservation of a phone whose radio belongs to its Wi-Fi *)
(* station (native/airdrop/crates/filin-rs/src: roc.rs, the nl80211 MgmtTx *)
(* of lib.rs).  The daemon asks the driver to dwell on a channel, is told  *)
(* a cookie, and may transmit there from the READY event of that cookie    *)
(* until its end.  All runs over one netlink socket: answers come in turn, *)
(* events at any time, and a request reads the events before its answer.   *)
(*                                                                         *)
(* The operators map a record to a record,                                 *)
(*    resv    the reservation (Reservation)                                *)
(*    events  what the socket holds unread                                 *)
(*    driver  the dwell of the driver                                      *)
(* because one iteration of the daemon's loop makes several of these calls *)
(* one after the other.  Time is counted in half slots.                    *)
(***************************************************************************)
EXTENDS Integers, Sequences

CONSTANTS Cookies,      \* cookies of the driver; it may use one again
          MaxEarly,     \* events kept before the cookie is known
          ReadyLimit    \* half slots a READY is waited for

NoResv == [id |-> 0]
NoDwell == [id |-> 0]
NoCookie == 0
NotReady == -1

Idle == [resv |-> NoResv, events |-> <<>>, driver |-> NoDwell]
-----------------------------------------------------------------------------
(* The reservation.                                                        *)

\* Reservation::start.  grant is history: the request whose READY opened it.
Requested(id, duration) ==
    [id |-> id, accepted |-> FALSE, cookie |-> NoCookie, early |-> <<>>, duration |-> duration,
     ready |-> NotReady, waited |-> 0, ended |-> FALSE, grant |-> 0]

\* Request::apply: the first READY starts the time, an end is final.
Apply(v, e) ==
    IF ~e.ready THEN [v EXCEPT !.ended = TRUE, !.ready = NotReady]
    ELSE IF v.ended \/ v.ready # NotReady THEN v
    ELSE [v EXCEPT !.ready = v.duration, !.grant = e.id]

\* Reservation::event.
Hear(v, e) ==
    IF v = NoResv THEN v
    ELSE IF v.cookie = e.cookie THEN Apply(v, e)
    ELSE IF v.cookie = NoCookie /\ Len(v.early) < MaxEarly THEN [v EXCEPT !.early = Append(@, e)]
    ELSE v

\* Events are heard in the order of the socket.
HearAll(v, events) ==
    LET heard[i \in 0..Len(events)] == IF i = 0 THEN v ELSE Hear(heard[i - 1], events[i])
    IN  heard[Len(events)]

\* The answer to the request names the cookie: what came early for it counts now.
LearnCookie(v, c) == HearAll([v EXCEPT !.cookie = c, !.early = <<>>], v.early)

\* active_frequency, to half a slot.
Open(v) == v # NoResv /\ v.accepted /\ ~v.ended /\ v.ready > 0

Finished(v) ==
    v # NoResv /\ (v.ended \/ v.ready = 0 \/ (v.ready = NotReady /\ v.waited >= ReadyLimit))

Pending(v) == v # NoResv
-----------------------------------------------------------------------------
(* The calls of MgmtTx.                                                    *)

\* tx_stats, or the reading that comes with any request: all that is unread is heard.
Drain(m) == [m EXCEPT !.resv = HearAll(m.resv, m.events), !.events = <<>>]

\* Mutant: what is unread is left for the new request.
Leave(m) == m

\* What start_roc does first: "drivers may reuse the same cookie".
Clear(m) == Drain(m)

Ended(d) == [cookie |-> d.cookie, ready |-> FALSE, id |-> d.id]
Began(d) == [cookie |-> d.cookie, ready |-> TRUE, id |-> d.id]

\* cancel_roc: the gate is closed first.  Only a known cookie can be cancelled; the driver
\* may report the end after it has answered.
Cancel(m, reported) ==
    LET closed == [m EXCEPT !.resv = NoResv]
        d == m.driver
        hit == d # NoDwell /\ d.cookie = m.resv.cookie
    IN  IF m.resv = NoResv \/ m.resv.cookie = NoCookie THEN closed
        ELSE [closed EXCEPT !.events = IF hit /\ reported THEN <<Ended(d)>> ELSE <<>>,
                            !.driver = IF hit THEN NoDwell ELSE d]

\* start_roc, and how the driver takes it: a dwell that is ready before or after the
\* answer, a refusal (also of a second dwell), or no answer although the dwell is granted.
Answers == {"early", "granted", "refused", "silent"}

Dwell(id, c, answer, duration) ==
    [id |-> id, cookie |-> c, on |-> answer = "early", left |-> duration]

StartRoc(m, id, duration, answer, c) ==
    LET clean == Clear(m)
        d     == Dwell(id, c, answer, duration)
        asked == [clean EXCEPT !.resv = Requested(id, duration)]
    IN  CASE clean.driver # NoDwell \/ answer = "refused" -> Cancel(asked, FALSE)
          [] clean.driver = NoDwell /\ answer = "silent" ->
                 [Cancel(asked, FALSE) EXCEPT !.driver = d]
          [] clean.driver = NoDwell /\ answer = "granted" ->
                 [asked EXCEPT !.driver = d, !.resv = [LearnCookie(@, c) EXCEPT !.accepted = TRUE]]
          [] OTHER ->
                 [asked EXCEPT !.driver = d,
                               !.resv = [LearnCookie(Hear(@, Began(d)), c) EXCEPT !.accepted = TRUE]]
-----------------------------------------------------------------------------
(* The driver, and time.                                                   *)

DriverReady(m) ==
    [m EXCEPT !.driver.on = TRUE, !.events = Append(@, Began(m.driver))]

\* A dwell is over; its end may not be reported.
DriverEnds(m, reported) ==
    [m EXCEPT !.driver = NoDwell,
              !.events = IF reported THEN Append(@, Ended(m.driver)) ELSE @]

\* Half a slot passes.
Older(v) == [v EXCEPT !.ready = IF @ > 0 THEN @ - 1 ELSE @,
                      !.waited = IF @ < ReadyLimit THEN @ + 1 ELSE @]
Spent(d) == [d EXCEPT !.left = @ - 1]

Later(m) ==
    [m EXCEPT !.resv = IF @ = NoResv THEN @ ELSE Older(@),
              !.driver = IF @ # NoDwell /\ @.on /\ @.left > 0 THEN Spent(@) ELSE @]

\* Whenever the gate is open, it is this very request that the driver granted: no READY
\* of an earlier one, whose cookie may be the same, opens it.
OpenedByOwnGrant(m) == Open(m.resv) => m.resv.grant = m.resv.id
=============================================================================
