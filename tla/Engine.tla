------------------------------- MODULE Engine -------------------------------
(***************************************************************************)
(* The AirDrop engine of the app (airdrop/AirDropService.kt), the switch   *)
(* that keeps it alive (AirDropResidentService.kt) and the root script     *)
(* that owns the radio while it runs (assets/airdrop/radio.sh, here a      *)
(* guardian).  The app and the guardians only share two files: "stop",     *)
(* which tells every guardian to leave, and "active".                      *)
(*                                                                         *)
(* A service that is stopped is destroyed at once, its worker ends later,  *)
(* and the next service may have a worker of its own by then.  What the    *)
(* guardian's daemon does is module Daemon.                                *)
(***************************************************************************)
EXTENDS Naturals, FiniteSets

CONSTANTS Services,       \* bound: workers at a time; each belongs to one service
          Guardians,      \* bound: guardians at a time
          None,           \* no service, no guardian
          MaxRounds,      \* 20, the rounds after which a failure ends the session
          Budgets         \* bound: [commands, faults], how often the user does something or the
                          \* app is killed, and how often something fails or the link changes

ASSUME EngineAssumption ==
    /\ None \notin Services \cup Guardians
    /\ MaxRounds \in Nat
    /\ Budgets \subseteq [commands: Nat, faults: Nat]

VARIABLES enabled,      \* the switch, in the preferences
          keeper,       \* AirDropResidentService runs, with its watchdog
          sticky,       \* the system will recreate a service of a killed app
          current,      \* the service that is created; alive is current # None
          dying,        \* its onDestroy is on its way
          session,      \* of each service, the fields and the place of its worker
          lingering,    \* a receiver that was told to stop, or has lost its app, still runs
          guardian,     \* of each guardian, its variables and its place
          stopFile, active,
          mon,          \* the monitor interface exists
          awdl,          \* the guardian whose daemon holds awdl0
          route,        \* the guardian whose route is set up
          link,         \* the station is associated
          budget          \* what is left

app    == <<enabled, keeper, sticky, current, dying>>
files  == <<stopFile, active>>
radio  == <<mon, awdl, route>>
around == <<link, budget>>
engineVars == <<app, session, lingering, guardian, files, radio, around>>

Resting == [at |-> "none", stop |-> FALSE, interrupted |-> FALSE, resident |-> FALSE, round |-> 0,
            radio |-> None, receiver |-> FALSE, timed |-> FALSE]

NoGuardian == [at |-> "none", orphan |-> FALSE, opened |-> FALSE, child |-> FALSE]

EngineInit ==
    /\ enabled \in BOOLEAN      \* it may be on since before the phone was booted
    /\ keeper = FALSE /\ sticky = FALSE
    /\ current = None /\ dying = FALSE
    /\ session = [s \in Services |-> Resting]
    /\ lingering = FALSE
    /\ guardian = [g \in Guardians |-> NoGuardian]
    /\ stopFile = FALSE /\ active = FALSE
    /\ mon = FALSE /\ awdl = None /\ route = None
    /\ link = TRUE
    /\ budget \in Budgets

\* One of those that are free: which one makes no difference.
Free(Is(_), all) ==
    LET free == {x \in all : Is(x)} IN IF free = {} THEN {} ELSE {CHOOSE x \in free : TRUE}

Spend(kind) == budget[kind] > 0 /\ budget' = [budget EXCEPT ![kind] = @ - 1]
Trouble == Spend("faults")

Exists(g) == g # None /\ guardian[g].at # "none"

\* radioReady: some daemon that has its links answers.
Ready == awdl # None

\* A guardian in its loop looks for the file every 200 ms: after a wait of seconds none that
\* should have left is still there.
Seen == stopFile => \A g \in Guardians : guardian[g].at # "run"
-----------------------------------------------------------------------------
(* The worker (runSession).                                                *)

\* A guardian of session s, if there is room for one; the order to stop is taken back.
StartRadio(s, sessions) ==
    /\ stopFile' = FALSE
    /\ \E g \in Free(LAMBDA h : ~Exists(h), Guardians) :
          /\ guardian' = [guardian EXCEPT ![g] = [NoGuardian EXCEPT !.at = "start"]]
          /\ session' = [sessions EXCEPT ![s].at = "await", ![s].radio = g]

\* Mutant: the radio is left to its guardian.
LeaveRunning(s) ==
    /\ session' = [session EXCEPT ![s].at = "ending", ![s].receiver = FALSE, ![s].timed = FALSE]
    /\ lingering' = (lingering \/ session[s].receiver)
    /\ UNCHANGED stopFile

\* The finally block: the receiver is stopped and the guardians are told to leave.
Finally(s) ==
    /\ session' = [session EXCEPT ![s].at = "ending", ![s].receiver = FALSE, ![s].timed = FALSE]
    /\ lingering' = (lingering \/ session[s].receiver)
    /\ stopFile' = TRUE

\* The attempts of the loop, up to the last one that makes a difference.
Counted(s) == [session EXCEPT ![s].round = IF @ < MaxRounds THEN @ + 1 ELSE @]

\* The receiver is started over a radio that is ready, with a deadline if it is for a window
\* now; it cannot listen while another one does, and exits.
Listen(s, sessions) ==
    session' = [sessions EXCEPT
        ![s].at = "watch",
        ![s].timed = ~session[s].resident,
        ![s].receiver = ~lingering /\ \A t \in Services : ~session[t].receiver]

\* The next round of the loop, with the guardian that is left to the session.
Round(s, left) ==
    \/ session[s].stop /\ Finally(s)
    \/ /\ ~session[s].stop
       /\ Exists(left) /\ Ready
       /\ Listen(s, Counted(s))
       /\ UNCHANGED <<lingering, stopFile>>
    \/ /\ ~session[s].stop
       /\ ~(Exists(left) /\ Ready)
       /\ session' = [Counted(s) EXCEPT ![s].at = "reap", ![s].radio = left]
       /\ UNCHANGED <<lingering, stopFile>>

\* ensureDriver does nothing, or loads the driver, which may fail or be interrupted.
Begin(s) ==
    /\ session[s].at = "begin"
    /\ \/ Round(s, None) /\ UNCHANGED budget
       \/ session[s].interrupted /\ Finally(s) /\ UNCHANGED budget
       \/ Finally(s) /\ Trouble
    /\ UNCHANGED <<app, guardian, active, radio, link>>

\* reapStaleReceiver kills every receiver, and forgets an interrupt.  What another session
\* has left active is told to stop.
Reap(s) ==
    /\ session[s].at = "reap"
    /\ lingering' = FALSE
    /\ LET reaped == [t \in Services |->
               [session[t] EXCEPT !.receiver = FALSE,
                                  !.interrupted = (@ /\ t # s),
                                  !.at = IF t = s THEN "releasing" ELSE @]]
       IN  IF active THEN session' = reaped /\ stopFile' = TRUE /\ UNCHANGED guardian
           ELSE StartRadio(s, reaped)
    /\ UNCHANGED <<app, active, radio, around>>

\* stopRadio waits 20 seconds for its own guardian, but not at all when it is interrupted.
Waited(s) ==
    \/ session[s].interrupted
    \/ Seen /\ ~(Exists(session[s].radio) /\ guardian[session[s].radio].at = "leaving")

StartAgain(s) ==
    /\ session[s].at = "releasing"
    /\ Waited(s)
    /\ StartRadio(s, session)
    /\ UNCHANGED <<app, lingering, active, radio, around>>

\* Waiting for the radio: it is ready, or its guardian has gone, or 25 seconds are over
\* (they are enough unless the station is not connected).
Await(s) ==
    /\ session[s].at = "await"
    /\ \/ /\ Ready
          /\ Listen(s, session)
          /\ UNCHANGED <<lingering, stopFile, budget>>
       \/ /\ ~Ready
          /\ \/ (session[s].stop \/ ~Exists(session[s].radio) \/ ~link) /\ UNCHANGED budget
             \/ Trouble
          /\ IF ~session[s].resident \/ session[s].round >= MaxRounds THEN Finally(s)
             ELSE /\ session' = [session EXCEPT ![s].at = "retry"]
                  /\ UNCHANGED <<lingering, stopFile>>
    /\ UNCHANGED <<app, guardian, active, radio, link>>

\* Twenty seconds later: its guardian has ended its wait for the link by then.
Retry(s) ==
    /\ session[s].at = "retry"
    /\ \/ session[s].interrupted
       \/ Seen /\ ~(Exists(session[s].radio) /\ guardian[session[s].radio].at \in {"start", "link"})
    /\ Round(s, session[s].radio)
    /\ UNCHANGED <<app, guardian, active, radio, around>>

\* The loop of runReceiver ends, also when the time of a window is over.
Watch(s) ==
    /\ session[s].at = "watch"
    /\ \/ session[s].stop \/ session[s].timed
       \/ ~session[s].receiver \/ ~Exists(session[s].radio)
    /\ IF session[s].stop \/ ~session[s].resident THEN Finally(s)
       ELSE /\ session' = [session EXCEPT ![s].at = "restart", ![s].receiver = FALSE,
                                     ![s].timed = FALSE]
            /\ lingering' = (lingering \/ session[s].receiver)
            /\ UNCHANGED stopFile
    /\ UNCHANGED <<app, guardian, active, radio, around>>

\* Twenty seconds later: everything anew, the radio included.
Restart(s) ==
    /\ session[s].at = "restart"
    /\ session[s].interrupted \/ Seen
    /\ stopFile' = TRUE
    /\ session' = [session EXCEPT ![s].at = "restarting"]
    /\ UNCHANGED <<app, lingering, guardian, active, radio, around>>

Restarted(s) ==
    /\ session[s].at = "restarting"
    /\ Waited(s)
    /\ Round(s, None)
    /\ UNCHANGED <<app, guardian, active, radio, around>>

\* stopSelf: the service is destroyed, if it has not been.
End(s) ==
    /\ session[s].at = "ending"
    /\ Waited(s)
    /\ session' = [session EXCEPT ![s] = Resting]
    /\ dying' = (dying \/ current = s)
    /\ UNCHANGED <<enabled, keeper, sticky, current, lingering, guardian, files, radio, around>>

Work(s) ==
    \/ Begin(s) \/ Reap(s) \/ StartAgain(s) \/ Await(s) \/ Retry(s)
    \/ Watch(s) \/ Restart(s) \/ Restarted(s) \/ End(s)
-----------------------------------------------------------------------------
(* The main thread.                                                        *)

\* onStartCommand: a worker that still runs is not replaced.
Started(s, resident) ==
    IF session[s].at = "none" THEN [Resting EXCEPT !.at = "begin", !.resident = resident]
    ELSE [session[s] EXCEPT !.resident = resident]

\* An intent to start, in a service that is created if there is none: the system no longer
\* owes it one.
StartEngine(resident) ==
    \E s \in IF current = None THEN Free(LAMBDA t : session[t].at = "none", Services) ELSE {current} :
        /\ current' = s /\ sticky' = FALSE
        /\ session' = [session EXCEPT ![s] = Started(s, resident)]

\* requestStop
Stopped(s) ==
    IF session[s].at = "none" THEN Resting
    ELSE [session[s] EXCEPT !.stop = TRUE, !.interrupted = TRUE, !.receiver = FALSE]

RequestStop ==
    /\ stopFile' = TRUE
    /\ IF current = None THEN UNCHANGED <<session, lingering>>
       ELSE /\ session' = [session EXCEPT ![current] = Stopped(current)]
            /\ lingering' = (lingering \/ session[current].receiver)

\* An intent to stop; without a service it is one that is created for it.
StopEngine == RequestStop /\ dying' = (current # None) /\ sticky' = FALSE

OnDestroy ==
    /\ dying
    /\ RequestStop
    /\ current' = None /\ dying' = FALSE
    /\ UNCHANGED <<enabled, keeper, sticky, guardian, active, radio, around>>

\* Mutant: the watchdog trusts the file of the radio.
TrustsFile == ~active

\* AirDropService.isAlive
EngineMissing == current = None

\* ensureEngine, by the watchdog every 20 seconds.
Watchdog ==
    /\ keeper /\ enabled /\ Seen
    /\ EngineMissing
    /\ StartEngine(TRUE)
    /\ UNCHANGED <<enabled, keeper, dying, lingering, guardian, files, radio, around>>

\* A killed app: the system recreates both services; the engine without its intent, so that
\* it is not resident.
Recreate ==
    /\ sticky
    /\ current = None /\ StartEngine(FALSE)
    /\ UNCHANGED <<enabled, keeper, dying, lingering, guardian, files, radio, around>>

Recover ==
    /\ enabled /\ ~keeper /\ keeper' = TRUE
    /\ IF EngineMissing THEN StartEngine(TRUE) ELSE UNCHANGED <<current, sticky, session>>
    /\ UNCHANGED <<enabled, dying, lingering, guardian, files, radio, around>>
-----------------------------------------------------------------------------
(* The user and the system.                                                *)

StartWindow ==
    /\ Spend("commands") /\ UNCHANGED link
    /\ StartEngine(FALSE)
    /\ UNCHANGED <<enabled, keeper, dying, lingering, guardian, files, radio>>

StopByUser ==
    /\ Spend("commands") /\ UNCHANGED link
    /\ StopEngine
    /\ UNCHANGED <<enabled, keeper, current, guardian, active, radio>>

Enable ==
    /\ Spend("commands") /\ UNCHANGED link
    /\ enabled' = TRUE /\ keeper' = TRUE
    /\ IF EngineMissing THEN StartEngine(TRUE) ELSE UNCHANGED <<current, sticky, session>>
    /\ UNCHANGED <<dying, lingering, guardian, files, radio>>

Disable ==
    /\ Spend("commands") /\ UNCHANGED link
    /\ StopEngine
    /\ enabled' = FALSE /\ keeper' = FALSE
    /\ UNCHANGED <<current, guardian, active, radio>>

\* The app is killed: its guardians and receivers find out by themselves.
Kill ==
    /\ Spend("commands") /\ UNCHANGED link
    /\ keeper' = FALSE /\ current' = None /\ dying' = FALSE
    /\ sticky' = (current # None /\ session[current].resident /\ ~dying)
    /\ lingering' = (lingering \/ \E s \in Services : session[s].receiver)
    /\ session' = [s \in Services |-> Resting]
    /\ guardian' = [g \in Guardians |->
            IF Exists(g) THEN [guardian[g] EXCEPT !.orphan = TRUE] ELSE guardian[g]]
    /\ UNCHANGED <<enabled, files, radio>>

\* The receiver notices the end of its pipe.
ReceiverExits ==
    /\ lingering /\ lingering' = FALSE
    /\ UNCHANGED <<app, session, guardian, files, radio, around>>

ReceiverDies ==
    /\ Trouble
    /\ \E s \in Services :
          /\ session[s].receiver
          /\ session' = [session EXCEPT ![s].receiver = FALSE]
    /\ UNCHANGED <<app, lingering, guardian, files, radio, link>>

LinkChanges ==
    /\ Trouble
    /\ link' = ~link
    /\ UNCHANGED <<app, session, lingering, guardian, files, radio>>
-----------------------------------------------------------------------------
(* The guardian (radio.sh).                                                *)

\* The guardian alone moves.
Alone == UNCHANGED <<app, session, lingering, stopFile, link>>

Place(g, place) == guardian' = [guardian EXCEPT ![g].at = place]

\* A script that fails before its trap is set.
Fails(g) == guardian' = [guardian EXCEPT ![g] = NoGuardian]

\* Interfaces of others: it refuses if a daemon lives, and takes them away otherwise.
Clear(g) ==
    /\ guardian[g].at = "start"
    /\ IF \E h \in Guardians : guardian[h].child /\ (mon \/ awdl # None)
       THEN Fails(g) /\ UNCHANGED mon
       ELSE mon' = FALSE /\ Place(g, "link")
    /\ Alone /\ UNCHANGED <<active, awdl, route, budget>>

\* Half a minute for an association; then the trap is set and the interface is opened, or
\* the one that is there is used.
AwaitLink(g) ==
    /\ guardian[g].at = "link"
    /\ IF link THEN mon' = TRUE /\ guardian' = [guardian EXCEPT ![g].at = "hold", ![g].opened = TRUE]
       ELSE Fails(g) /\ UNCHANGED mon
    /\ Alone /\ UNCHANGED <<active, awdl, route, budget>>

\* Frames came, and the daemon is started; or none came.  awdl0 is the daemon's if no other
\* has it.
Primed(g) ==
    /\ guardian[g].at = "hold"
    /\ \/ /\ guardian' = [guardian EXCEPT ![g].at = "child", ![g].child = TRUE]
          /\ awdl' = IF awdl = None THEN g ELSE awdl
          /\ active' = TRUE
          /\ UNCHANGED budget
       \/ Place(g, "leaving") /\ Trouble /\ UNCHANGED <<active, awdl>>
    /\ Alone /\ UNCHANGED <<mon, route>>

\* Its daemon tries each second to get awdl0.
TakeTap(g) ==
    /\ guardian[g].child /\ awdl = None
    /\ awdl' = g
    /\ Alone /\ UNCHANGED <<guardian, active, mon, route, budget>>

\* The log that all daemons write says that one transmits: the route is set up, unless there
\* is one.  Without such a line the loop begins after twenty seconds.
Report(g) ==
    /\ guardian[g].at = "child"
    /\ \/ /\ Ready /\ route = None
          /\ route' = g /\ Place(g, "run")
       \/ Ready /\ route # None /\ Place(g, "leaving") /\ UNCHANGED route
       \/ awdl # g /\ Place(g, "run") /\ UNCHANGED route
    /\ Alone /\ UNCHANGED <<active, mon, awdl, budget>>

\* nap_ms: the order to stop, the app or the daemon gone.
Stop(g) ==
    /\ guardian[g].at = "run"
    /\ stopFile \/ guardian[g].orphan \/ ~guardian[g].child
    /\ Place(g, "leaving")
    /\ Alone /\ UNCHANGED <<active, radio, budget>>

\* The link is gone: mon_close, by whoever has opened the interface.
LoseLink(g) ==
    /\ guardian[g].at = "run" /\ ~link /\ guardian[g].opened
    /\ mon' = FALSE
    /\ guardian' = [guardian EXCEPT ![g].opened = FALSE]
    /\ Alone /\ UNCHANGED <<active, awdl, route, budget>>

Reopen(g) ==
    /\ guardian[g].at = "run" /\ link /\ ~guardian[g].opened
    /\ mon' = TRUE
    /\ guardian' = [guardian EXCEPT ![g].opened = TRUE]
    /\ Alone /\ UNCHANGED <<active, awdl, route, budget>>

\* The station changes its channel, or the daemon dies.
Break(g) ==
    /\ guardian[g].at = "run" /\ Trouble
    /\ \/ Place(g, "leaving") /\ UNCHANGED awdl
       \/ /\ guardian[g].child
          /\ guardian' = [guardian EXCEPT ![g].child = FALSE]
          /\ awdl' = IF awdl = g THEN None ELSE awdl
    /\ Alone /\ UNCHANGED <<active, mon, route>>

\* cleanup: awdl0 of a daemon that lives cannot be deleted.
Cleanup(g) ==
    /\ guardian[g].at = "leaving"
    /\ Fails(g)
    /\ route' = IF route = g THEN None ELSE route
    /\ awdl' = IF awdl = g THEN None ELSE awdl
    /\ mon' = (mon /\ ~guardian[g].opened)
    /\ active' = FALSE
    /\ Alone /\ UNCHANGED budget

Guard(g) ==
    \/ Clear(g) \/ AwaitLink(g) \/ Primed(g) \/ Report(g) \/ Stop(g)
    \/ LoseLink(g) \/ Reopen(g) \/ Cleanup(g)
-----------------------------------------------------------------------------
EngineNext ==
    \/ \E s \in Services : Work(s)
    \/ OnDestroy \/ Watchdog \/ Recreate \/ Recover
    \/ StartWindow \/ StopByUser \/ Enable \/ Disable \/ Kill
    \/ ReceiverExits \/ ReceiverDies \/ LinkChanges
    \/ \E g \in Guardians : Guard(g) \/ TakeTap(g) \/ Break(g)

\* Threads, scripts and the system go on.  The stop file may be taken back before a guardian
\* saw it, but not for ever: it is there for as long as su takes to run pkill.
EngineFairness ==
    /\ \A s \in Services : WF_engineVars(Work(s))
    /\ \A g \in Guardians : WF_engineVars(Guard(g)) /\ WF_engineVars(TakeTap(g))
                            /\ SF_engineVars(Stop(g))
    /\ WF_engineVars(OnDestroy) /\ WF_engineVars(Watchdog) /\ WF_engineVars(Recreate)
    /\ WF_engineVars(Recover) /\ WF_engineVars(ReceiverExits)

EngineSpec == EngineInit /\ [][EngineNext]_engineVars /\ EngineFairness
-----------------------------------------------------------------------------
(* Properties.                                                             *)

\* When no service is left, the radio is given back: no guardian, daemon, interface or
\* receiver stays behind, whoever took the order to stop back before.
GivenBack ==
    /\ \A g \in Guardians : ~Exists(g)
    /\ ~active /\ ~mon /\ awdl = None /\ route = None
    /\ ~lingering
RadioIsGivenBack == <>[](current = None) => <>[]GivenBack

\* While the switch is on and the phone is connected, the receiver comes up and stays up,
\* after sessions that were stopped, killed, or started over each other.
Receiving == current # None /\ session[current].at = "watch" /\ session[current].receiver /\ Ready
ResidentReceives == <>[](enabled /\ link) => <>[]Receiving

\* stopRadio waits "for the guardian's EXIT trap ..., or the next startRadio runs into what is
\* left": no guardian is past its checks while another one is.
OneGuardian ==
    Cardinality({g \in Guardians : guardian[g].at \notin {"none", "start", "link"}}) <= 1

\* A session that receives can hear.
Hears == <>[](enabled /\ link) => []<>mon
=============================================================================
