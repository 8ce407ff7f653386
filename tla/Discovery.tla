----------------------------- MODULE Discovery -----------------------------
(***************************************************************************)
(* Being found and finding others (native/airdrop/crates/luftlift-rs/src:  *)
(* main, mdns, netutil) and the list of nearby devices the app shows       *)
(* (AirDropBackend, AirDropState).  A supervisor thread follows the        *)
(* address of awdl0, which filin destroys and recreates.  For every        *)
(* address it opens a session: an mDNS daemon that announces the receiver, *)
(* a thread that announces again every ten seconds, and a thread that      *)
(* browses for other devices and writes the events the app applies in      *)
(* order.  A signal handler says goodbye and exits at any moment.          *)
(***************************************************************************)
EXTENDS Integers, FiniteSets

CONSTANTS Addrs,         \* addresses awdl0 gets
          Others, Self,  \* instance names: other devices, this phone
          Elsewhere,        \* addresses other devices resolve to
          Label,         \* the address of a transfer as the name of a row
          None,
          MaxSessions,   \* bound: sessions opened
          MaxChanges,    \* bound: changes of the address of awdl0
          MaxFaults      \* bound: daemons that die or do not start

Sessions == 1..MaxSessions
Instances == Others \cup {Self}
Rows == Instances \cup {Label}

ASSUME NamesAssumption == Self \notin Others /\ Label \notin Instances
ASSUME NoneAssumption == None \notin Addrs \cup Elsewhere
ASSUME BoundsAssumption == MaxSessions \in Nat \ {0} /\ MaxChanges \in Nat /\ MaxFaults \in Nat

VARIABLES ifaddr,     \* the link-local address of awdl0
          sup,        \* the supervisor: where it is, the address it read, its last_addr
          session,    \* number of the last session opened
          teardown,   \* the session the supervisor can tear down, or 0
          active,     \* the session whose browse thread it watches, or 0
          goodbye,    \* the session the signal handler says goodbye for, or 0
          daemon,     \* per session: "none", "up", "silent" (unregistered), "down"
          address,    \* per session: the address it announces
          repeat,     \* per session: its re-announcer: "none", "sleep", "due", "ended"
          quit,       \* sessions whose re-announcer is asked to stop
          browse,     \* per session: its browse thread: "none", "start", "loop", "ended"
          leave,      \* sessions whose browse thread is asked to stop
          known,      \* per session and name: the address reported
          rows,       \* the list of the app
          air,        \* the address the network has for our instance
          running,    \* "yes", "leaving" (the handler has said goodbye), "exited"
          changes, faults

supVars == <<sup, teardown, active, goodbye>>
sessionVars == <<session, daemon, address, repeat, quit>>
browseVars == <<browse, leave, known, rows>>
worldVars == <<ifaddr, running, changes, faults>>
discoveryVars == <<supVars, sessionVars, browseVars, air, worldVars>>

NothingKnown == [n \in Instances |-> None]

DiscoveryInit ==
    /\ ifaddr \in Addrs \cup {None}
    /\ sup = [at |-> "poll", read |-> None, last |-> None]
    /\ session = 0 /\ teardown = 0 /\ active = 0 /\ goodbye = 0
    /\ daemon = [k \in Sessions |-> "none"]
    /\ address = [k \in Sessions |-> None]
    /\ repeat = [k \in Sessions |-> "none"]
    /\ quit = {}
    /\ browse = [k \in Sessions |-> "none"]
    /\ leave = {}
    /\ known = [k \in Sessions |-> NothingKnown]
    /\ rows = [r \in Rows |-> None]
    /\ air = None
    /\ running = "yes"
    /\ changes = 0 /\ faults = 0

Alive == running # "exited"
At(place) == Alive /\ sup.at = place
Go(place) == sup' = [sup EXCEPT !.at = place]

-----------------------------------------------------------------------------
(* The supervisor.                                                         *)

\* The browse thread of the watched session ended by itself or was joined: its session is
\* torn down and its address forgotten, so that the address is announced again.
BrowseGone == active # 0 /\ browse[active] = "ended"

\* Mutant: the address is kept, and looks as if it were announced.
KeepAddress == sup' = [sup EXCEPT !.at = IF teardown = 0 THEN "poll" ELSE "quit"]

\* What is left to do once nothing is announced any more: the address last announced is
\* forgotten, so that it is announced again.
Forget == sup' = [sup EXCEPT !.at = IF teardown = 0 THEN "poll" ELSE "quit", !.last = None]

PollBrowse ==
    /\ At("poll") /\ BrowseGone
    /\ Forget
    /\ active' = 0
    /\ UNCHANGED <<teardown, goodbye, sessionVars, browseVars, air, worldVars>>

\* get_ipv6_for_interface: a new address leads to a new session, none to no session.
PollAddress ==
    /\ At("poll") /\ ~BrowseGone
    /\ ifaddr # sup.last
    /\ IF ifaddr = None
       THEN Forget /\ active' = 0
       ELSE /\ sup' = [sup EXCEPT !.read = ifaddr,
                                 !.at = IF teardown # 0 THEN "quit" ELSE "announce"]
            /\ UNCHANGED active
    /\ UNCHANGED <<teardown, goodbye, sessionVars, browseVars, air, worldVars>>

\* teardown: the re-announcer is asked to stop and is not waited for ...
Quit ==
    /\ At("quit")
    /\ quit' = quit \cup {teardown}
    /\ leave' = leave \cup {teardown}
    /\ Go("join")
    /\ UNCHANGED <<teardown, active, goodbye, session, daemon, address, repeat, browse, known, rows, air,
                   worldVars>>

\* Mutant: the browse thread is asked to stop and not waited for.
NotJoined(k) == TRUE

\* ... the browse thread is waited for ...
Joined(k) == browse[k] \in {"none", "ended"}

Join ==
    /\ At("join") /\ Joined(teardown)
    /\ Go("unregister")
    /\ UNCHANGED <<teardown, active, goodbye, sessionVars, browseVars, air, worldVars>>

\* What a daemon sends reaches the network while its interface is there.
Says(k, addr) == air' = IF ifaddr = address[k] THEN addr ELSE air

\* goodbye: a record with a lifetime of zero, then the daemon ends.
Unregister(k) ==
    /\ daemon[k] \in {"up", "silent"}
    /\ daemon' = [daemon EXCEPT ![k] = "silent"]
    /\ Says(k, None)

\* Mutant: the daemon that said goodbye goes on.
NoShutDown(k) == UNCHANGED daemon

ShutDown(k) == daemon' = [daemon EXCEPT ![k] = "down"]

SayGoodbye ==
    /\ At("unregister")
    /\ IF daemon[teardown] \in {"up", "silent"} THEN Unregister(teardown)
       ELSE UNCHANGED <<daemon, air>>
    /\ Go("shutdown")
    /\ UNCHANGED <<teardown, active, goodbye, session, address, repeat, quit, browseVars, worldVars>>

EndSession ==
    /\ At("shutdown")
    /\ ShutDown(teardown)
    /\ teardown' = 0
    /\ Go(IF sup.last = None THEN "poll" ELSE "announce")
    /\ UNCHANGED <<active, goodbye, session, address, repeat, quit, browseVars, air, worldVars>>

\* announce: a daemon scoped to the interface registers the address that was read.
Announce ==
    /\ At("announce") /\ session < MaxSessions
    /\ LET k == session + 1
       IN  /\ session' = k
           /\ daemon' = [daemon EXCEPT ![k] = "up"]
           /\ address' = [address EXCEPT ![k] = sup.read]
           /\ air' = IF ifaddr = sup.read THEN sup.read ELSE air
    /\ Go("repeat")
    /\ UNCHANGED <<teardown, active, goodbye, repeat, quit, browseVars, worldVars>>

\* No daemon or no registration: what was announced last stays remembered.
AnnounceFails ==
    /\ At("announce") /\ faults < MaxFaults
    /\ faults' = faults + 1
    /\ Go("poll")
    /\ UNCHANGED <<teardown, active, goodbye, sessionVars, browseVars, air, ifaddr, running, changes>>

\* The re-announcer and the browse thread are started; the receiver works without a list.
Start ==
    /\ At("repeat")
    /\ repeat' = [repeat EXCEPT ![session] = "sleep"]
    /\ \/ browse' = [browse EXCEPT ![session] = "start"] /\ UNCHANGED faults
       \/ faults < MaxFaults /\ faults' = faults + 1 /\ UNCHANGED browse
    /\ Go("publish")
    /\ UNCHANGED <<teardown, active, goodbye, session, daemon, address, quit, leave, known, rows, air, ifaddr,
                   running, changes>>

\* The signal handler gets the goodbye of this session (it holds the lock while it runs),
\* the supervisor its teardown.
Publish ==
    /\ At("publish") /\ running = "yes"
    /\ goodbye' = session /\ teardown' = session
    /\ active' = IF browse[session] = "none" THEN 0 ELSE session
    /\ sup' = [sup EXCEPT !.at = "poll", !.last = sup.read]
    /\ UNCHANGED <<sessionVars, browseVars, air, worldVars>>
-----------------------------------------------------------------------------
(* The re-announcer: it looks at its flag, and later registers again; a    *)
(* daemon that said goodbye announces again if it has not ended.           *)

Wake(k) ==
    /\ Alive /\ repeat[k] = "sleep"
    /\ repeat' = [repeat EXCEPT ![k] = IF k \in quit THEN "ended" ELSE "due"]
    /\ UNCHANGED <<supVars, session, daemon, address, quit, browseVars, air, worldVars>>

Reannounce(k) ==
    /\ Alive /\ repeat[k] = "due"
    /\ repeat' = [repeat EXCEPT ![k] = "sleep"]
    /\ IF daemon[k] \in {"up", "silent"}
       THEN daemon' = [daemon EXCEPT ![k] = "up"] /\ Says(k, address[k])
       ELSE UNCHANGED <<daemon, air>>
    /\ UNCHANGED <<supVars, session, address, quit, browseVars, worldVars>>
-----------------------------------------------------------------------------
(* The browse thread.  Its events are applied by the app in the order they *)
(* are written.                                                            *)

\* The thread begins: "browsing" empties the list before the first peer.
Begin(k) ==
    /\ Alive /\ browse[k] = "start"
    /\ browse' = [browse EXCEPT ![k] = "loop"]
    /\ rows' = [r \in Rows |-> None]
    /\ UNCHANGED <<supVars, sessionVars, leave, known, air, worldVars>>

\* The filter of the event stream: names that carry the process number, which no
\* instance name does since instances are named by the device alone.
Filtered(name) == FALSE

\* peer_is_new_or_changed
Changed(k, name, place) == known[k][name] # place

Resolved(k, name, place) ==
    /\ Alive /\ browse[k] = "loop" /\ k \notin leave /\ daemon[k] \in {"up", "silent"}
    /\ name = Self => place = address[k]
    /\ IF Changed(k, name, place)
       THEN /\ known' = [known EXCEPT ![k][name] = place]
            /\ rows' = IF Filtered(name) THEN rows ELSE [rows EXCEPT ![name] = place]
       ELSE UNCHANGED <<known, rows>>
    /\ UNCHANGED <<supVars, sessionVars, browse, leave, air, worldVars>>

Removed(k, name) ==
    /\ Alive /\ browse[k] = "loop" /\ k \notin leave /\ daemon[k] \in {"up", "silent"}
    /\ known[k][name] # None
    /\ known' = [known EXCEPT ![k][name] = None]
    /\ rows' = IF Filtered(name) THEN rows ELSE [rows EXCEPT ![name] = None]
    /\ UNCHANGED <<supVars, sessionVars, browse, leave, air, worldVars>>

\* The flag is seen or the daemon is gone: what was reported is reported lost.
Leave(k) ==
    /\ Alive /\ browse[k] = "loop"
    /\ k \in leave \/ daemon[k] = "down"
    /\ browse' = [browse EXCEPT ![k] = "ended"]
    /\ known' = [known EXCEPT ![k] = NothingKnown]
    /\ rows' = [r \in Rows |-> IF r \in Instances /\ known[k][r] # None THEN None ELSE rows[r]]
    /\ UNCHANGED <<supVars, sessionVars, leave, air, worldVars>>
-----------------------------------------------------------------------------
(* The world.                                                              *)

\* filin takes awdl0 away or brings it up with some address; what the network has of us
\* is kept until a goodbye or another address.
AddressChanges ==
    /\ changes < MaxChanges
    /\ ifaddr' \in (Addrs \cup {None}) \ {ifaddr}
    /\ changes' = changes + 1
    /\ UNCHANGED <<supVars, sessionVars, browseVars, air, running, faults>>

DaemonDies(k) ==
    /\ Alive /\ daemon[k] = "up" /\ faults < MaxFaults
    /\ daemon' = [daemon EXCEPT ![k] = "down"]
    /\ faults' = faults + 1
    /\ UNCHANGED <<supVars, session, address, repeat, quit, browseVars, air, ifaddr, running, changes>>

\* The user sends to a row: the sender is a process of its own that gets the address of
\* the row, and its "peer" event is named by that address.
SendTo(name) ==
    /\ Alive /\ rows[name] # None
    /\ rows' = [rows EXCEPT ![Label] = Label]
    /\ UNCHANGED <<supVars, sessionVars, browse, leave, known, air, worldVars>>

\* SIGINT or SIGTERM: the goodbye of the session that is published, then exit.  The end
\* of the app closes the pipe instead: exit without a goodbye.
Signal ==
    /\ running = "yes"
    /\ running' = "leaving"
    /\ IF goodbye # 0 /\ daemon[goodbye] \in {"up", "silent"} THEN Unregister(goodbye)
       ELSE UNCHANGED <<daemon, air>>
    /\ UNCHANGED <<supVars, session, address, repeat, quit, browseVars, ifaddr, changes, faults>>

Exit ==
    /\ Alive
    /\ running' = "exited"
    /\ sup' = [at |-> "poll", read |-> None, last |-> None]
    /\ session' = 0 /\ teardown' = 0 /\ active' = 0 /\ goodbye' = 0
    /\ daemon' = [k \in Sessions |-> "none"]
    /\ address' = [k \in Sessions |-> None]
    /\ repeat' = [k \in Sessions |-> "none"]
    /\ browse' = [k \in Sessions |-> "none"]
    /\ known' = [k \in Sessions |-> NothingKnown]
    /\ quit' = {} /\ leave' = {}
    /\ UNCHANGED <<rows, air, ifaddr, changes, faults>>
-----------------------------------------------------------------------------
Supervise ==
    \/ PollBrowse \/ PollAddress \/ Quit \/ Join \/ SayGoodbye \/ EndSession
    \/ Announce \/ AnnounceFails \/ Start \/ Publish

Repeat(k) == Wake(k) \/ Reannounce(k)

HearPeer(k) == \E name \in Instances :
    Removed(k, name) \/ \E place \in Elsewhere \cup Addrs : Resolved(k, name, place)

DiscoveryNext ==
    \/ Supervise
    \/ \E k \in Sessions : Repeat(k) \/ Begin(k) \/ Leave(k) \/ HearPeer(k) \/ DaemonDies(k)
    \/ AddressChanges \/ Signal \/ Exit
    \/ \E name \in Instances : SendTo(name)

\* The threads of the process run as long as it does; nothing in the world has to happen.
DiscoveryFairness ==
    /\ WF_discoveryVars(Supervise)
    /\ \A k \in Sessions : /\ WF_discoveryVars(Repeat(k))
                           /\ WF_discoveryVars(Begin(k) \/ Leave(k))

DiscoverySpec == DiscoveryInit /\ [][DiscoveryNext]_discoveryVars /\ DiscoveryFairness
-----------------------------------------------------------------------------
(* Properties.                                                             *)

Reported(name) ==
    IF \E k \in Sessions : browse[k] = "loop"
    THEN known[CHOOSE k \in Sessions : browse[k] = "loop"][name]
    ELSE None

\* The app lists a device exactly while the one browse thread vouches for it, and with
\* the address it has now: no row outlives its session, none is cleared by the end of an
\* older one, none keeps an address that is dead.
RowsAreVouchedFor ==
    Alive => /\ Cardinality({k \in Sessions : browse[k] = "loop"}) <= 1
             /\ \A name \in Instances : ~Filtered(name) => rows[name] = Reported(name)

\* Once the supervisor has followed awdl0 to an address, the network does not get an
\* older one any more, whatever re-announcers are left over.
NoOldAddress ==
    [][At("poll") /\ sup.last # None /\ air' # air => air' \in {None, sup.last}]_discoveryVars

\* Whenever awdl0 keeps an address, the receiver is announced at it in the end: after a
\* change, a loss, a daemon that died or did not start.
Reappears ==
    \A a \in Addrs : <>[](running = "yes" /\ ifaddr = a) => <>[](air = a)

\* "The AirDrop picker must not list the phone itself": what the list should show, and does
\* not, as no name is Filtered.
ListsOnlyOthers == \A r \in Rows : rows[r] # None => r \in Others
=============================================================================
