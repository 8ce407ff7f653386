----------------------------- MODULE StateNumber -----------------------------
(***************************************************************************)
(* The global state number (GSN) of HomeKitRuntime, by which a controller  *)
(* that is not connected learns that something has changed: the poller     *)
(* moves it when it observes a change, at most once in a connection, and   *)
(* the advertisement, which Android cannot change in place, is stopped and *)
(* started again with the new number while nobody is connected.            *)
(*                                                                         *)
(* The poller, the binder thread of the connection callbacks and the main  *)
(* thread share the fields; only the poller holds the lock, so it excludes *)
(* nobody.  A step is as much as no other thread can see the middle of.    *)
(***************************************************************************)
EXTENDS Naturals

CONSTANTS
    Devices,     \* addresses of controllers
    NoDevice,    \* no connection callback runs
    MaxGsn,      \* the number's last value (0xFFFF), after which comes 1
    MaxRestarts  \* bound: restarts of the probe that are not its health check's

ASSUME DevicesAssumption == NoDevice \notin Devices
ASSUME MaxAssumption == MaxGsn \in Nat \ {0} /\ MaxRestarts \in Nat

VARIABLES
    gsn,         \* homekit_gsn
    marked,      \* stateNumberIncrementedForConnection
    numberConnected,   \* connectedDevices
    radio,       \* the main thread's starting and advertising
    payload,     \* the number in the advertisement, 0 for none
    poller,      \* where the poller is, and its local `connected`
    numberBinder,      \* where the connection callback is, and its device
    refreshes,   \* a refreshAdvertisementWithCurrentState is posted
    readvertise, \* its second half is due in 150 ms
    links,       \* the devices that are connected, as the stack knows it
    restarts,    \* how often the probe has been restarted
    bumps,       \* history: increments during the device's connection, to 2
    missed       \* history: a start dropped a refresh, or a disconnection
                 \* went by without one though the number had moved

numberVars == <<gsn, marked, bumps>>
numberAdvert == <<radio, payload, readvertise>>
gsnVars == <<numberVars, numberConnected, numberAdvert, poller, numberBinder, refreshes, links,
             restarts, missed>>

Polling(at, c) == [at |-> at, connected |-> c]
PollerIdle     == Polling("idle", FALSE)
Running(at, d) == [at |-> at, dev |-> d]
BinderIdle     == Running("idle", NoDevice)

NumberInit ==
    /\ gsn = 1
    /\ marked = FALSE
    /\ bumps = [d \in Devices |-> 0]
    /\ numberConnected = {}
    /\ radio = "down"
    /\ payload = 0
    /\ readvertise = FALSE
    /\ poller = PollerIdle
    /\ numberBinder = BinderIdle
    /\ refreshes = FALSE
    /\ links = {}
    /\ restarts = 0
    /\ missed = FALSE

-----------------------------------------------------------------------------
(* The state poller: incrementStateNumberForConnection. *)

PollerRest == <<numberConnected, numberAdvert, numberBinder, links, restarts, missed>>

\* refreshObservedControlState has found another value than the last one.
Observe ==
    /\ poller = PollerIdle
    /\ poller' = Polling("connected?", FALSE)
    /\ UNCHANGED <<numberVars, refreshes, PollerRest>>

LookConnected ==
    /\ poller.at = "connected?"
    /\ poller' = Polling("marked?", numberConnected # {})
    /\ UNCHANGED <<numberVars, refreshes, PollerRest>>

\* One increment is enough for a connection.
LookMarked ==
    /\ poller.at = "marked?"
    /\ poller' = IF poller.connected /\ marked THEN PollerIdle
                 ELSE Polling("count", poller.connected)
    /\ UNCHANGED <<numberVars, refreshes, PollerRest>>

Count ==
    /\ poller.at = "count"
    /\ gsn' = IF gsn >= MaxGsn THEN 1 ELSE gsn + 1
    /\ bumps' = [d \in Devices |->
                    IF poller.connected /\ d \in numberConnected /\ bumps[d] < 2
                    THEN bumps[d] + 1 ELSE bumps[d]]
    /\ poller' = Polling("mark", poller.connected)
    /\ UNCHANGED <<marked, refreshes, PollerRest>>

Mark ==
    /\ poller.at = "mark"
    /\ marked' = poller.connected
    /\ poller' = Polling("refresh", poller.connected)
    /\ UNCHANGED <<gsn, bumps, refreshes, PollerRest>>

PostRefresh ==
    /\ poller.at = "refresh"
    /\ refreshes' = TRUE
    /\ poller' = PollerIdle
    /\ UNCHANGED <<numberVars, PollerRest>>

-----------------------------------------------------------------------------
(* onConnectionStateChange, one call at a time. *)

BinderRest == <<gsn, numberAdvert, poller, restarts>>

\* A controller connects to the advertised accessory.
LinkUp(d) ==
    /\ numberBinder = BinderIdle
    /\ d \notin links
    /\ payload # 0
    /\ links' = links \cup {d}
    /\ numberBinder' = Running("add", d)
    /\ UNCHANGED <<marked, bumps, numberConnected, refreshes, missed, BinderRest>>

ConnectAdds ==
    /\ numberBinder.at = "add"
    /\ numberConnected' = numberConnected \cup {numberBinder.dev}
    /\ bumps' = [bumps EXCEPT ![numberBinder.dev] = 0]
    /\ numberBinder' = Running("unmark", numberBinder.dev)
    /\ UNCHANGED <<marked, refreshes, links, missed, BinderRest>>

ConnectUnmarks ==
    /\ numberBinder.at = "unmark"
    /\ marked' = FALSE
    /\ numberBinder' = BinderIdle
    /\ UNCHANGED <<bumps, numberConnected, refreshes, links, missed, BinderRest>>

LinkDown(d) ==
    /\ numberBinder = BinderIdle
    /\ d \in links
    /\ links' = links \ {d}
    /\ numberBinder' = Running("look", d)
    /\ UNCHANGED <<marked, bumps, numberConnected, refreshes, missed, BinderRest>>

\* The local gsnChanged is in the name of the next step.
DisconnectLooks ==
    /\ numberBinder.at = "look"
    /\ numberBinder' = Running(IF marked THEN "removeThenRefresh" ELSE "remove",
                               numberBinder.dev)
    /\ UNCHANGED <<marked, bumps, numberConnected, refreshes, links, missed, BinderRest>>

DisconnectRemoves ==
    /\ numberBinder.at \in {"remove", "removeThenRefresh"}
    /\ numberConnected' = numberConnected \ {numberBinder.dev}
    /\ missed' = (missed \/ (numberBinder.at = "remove" /\ payload # gsn))
    /\ numberBinder' = [numberBinder EXCEPT !.at =
                           IF @ = "remove" THEN "end" ELSE "endThenRefresh"]
    /\ UNCHANGED <<marked, bumps, refreshes, links, BinderRest>>

\* Mutant: a disconnection never refreshes the advertisement.
DisconnectEndsQuietly ==
    /\ numberBinder.at \in {"end", "endThenRefresh"}
    /\ marked' = FALSE
    /\ numberBinder' = BinderIdle
    /\ UNCHANGED <<bumps, numberConnected, refreshes, links, missed, BinderRest>>

DisconnectEnds ==
    /\ numberBinder.at \in {"end", "endThenRefresh"}
    /\ marked' = FALSE
    /\ refreshes' = (refreshes \/ numberBinder.at = "endThenRefresh")
    /\ numberBinder' = BinderIdle
    /\ UNCHANGED <<bumps, numberConnected, links, missed, BinderRest>>

-----------------------------------------------------------------------------
(* The main thread. *)

MainRest == <<numberVars, numberConnected, poller, numberBinder, links>>

\* startAdvertisingAfterGattPublished reads the number into the payload.
Publish ==
    /\ radio = "down"
    /\ radio' = "starting"
    /\ payload' = gsn
    /\ UNCHANGED <<readvertise, refreshes, restarts, missed, MainRest>>

NumberOnAir ==
    /\ radio = "starting"
    /\ radio' = "advertising"
    /\ UNCHANGED <<payload, readvertise, refreshes, restarts, missed, MainRest>>

\* refreshAdvertisementWithCurrentState: only while advertising to nobody.
NumberRefresh ==
    /\ refreshes
    /\ refreshes' = FALSE
    /\ IF radio = "advertising" /\ numberConnected = {}
       THEN radio' = "window" /\ payload' = 0 /\ readvertise' = TRUE
       ELSE UNCHANGED numberAdvert
    /\ missed' = (missed \/ (radio = "starting" /\ payload # gsn))
    /\ UNCHANGED <<restarts, MainRest>>

NumberReadvertise ==
    /\ readvertise
    /\ readvertise' = FALSE
    /\ IF radio = "window" /\ numberConnected = {}
       THEN radio' = "starting" /\ payload' = gsn
       ELSE UNCHANGED <<radio, payload>>
    /\ UNCHANGED <<refreshes, restarts, missed, MainRest>>

\* stopProbe and startProbe.  (Their races with the callbacks are in Probe.)
NumberRestart ==
    /\ numberBinder = BinderIdle
    /\ marked' = FALSE
    /\ numberConnected' = {}
    /\ radio' = "down"
    /\ payload' = 0
    /\ links' = {}
    /\ UNCHANGED <<gsn, bumps, readvertise, poller, numberBinder, refreshes, missed>>

\* Mutant: the health check waits for the second half of a refresh for good.
HealthWaits ==
    radio = "window" /\ readvertise /\ numberConnected = {} /\ NumberRestart /\ UNCHANGED restarts

\* The health check restarts a probe that advertises to nobody.
HealthRestart == radio = "window" /\ numberConnected = {} /\ NumberRestart /\ UNCHANGED restarts
OtherRestart  == restarts < MaxRestarts /\ restarts' = restarts + 1 /\ NumberRestart

-----------------------------------------------------------------------------
Poll == LookConnected \/ LookMarked \/ Count \/ Mark \/ PostRefresh

NumberCallback == \/ ConnectAdds \/ ConnectUnmarks
                  \/ DisconnectLooks \/ DisconnectRemoves \/ DisconnectEnds

NumberNext ==
    \/ Observe \/ Poll \/ NumberCallback
    \/ \E d \in Devices : LinkUp(d) \/ LinkDown(d)
    \/ Publish \/ NumberOnAir \/ NumberRefresh \/ NumberReadvertise
    \/ HealthRestart \/ OtherRestart

\* Threads, posts and timers go on.  Nothing makes controls change or
\* controllers come and go.
NumberFairness ==
    /\ WF_gsnVars(Poll) /\ WF_gsnVars(NumberCallback)
    /\ WF_gsnVars(Publish) /\ WF_gsnVars(NumberOnAir)
    /\ WF_gsnVars(NumberRefresh) /\ WF_gsnVars(NumberReadvertise) /\ WF_gsnVars(HealthRestart)

NumberSpec == NumberInit /\ [][NumberNext]_gsnVars /\ NumberFairness

-----------------------------------------------------------------------------
\* The type invariant.
NumberTypeOK ==
    /\ gsn \in 1..MaxGsn
    /\ marked \in BOOLEAN
    /\ bumps \in [Devices -> 0..2]
    /\ numberConnected \subseteq Devices
    /\ radio \in {"down", "starting", "advertising", "window"}
    /\ payload \in 0..MaxGsn
    /\ readvertise \in BOOLEAN
    /\ poller \in [at : {"idle", "connected?", "marked?", "count", "mark", "refresh"},
                   connected : BOOLEAN]
    /\ numberBinder \in [at : {"idle", "add", "unmark", "look", "remove", "removeThenRefresh",
                         "end", "endThenRefresh"},
                   dev : Devices \cup {NoDevice}]
    /\ refreshes \in BOOLEAN
    /\ links \subseteq Devices
    /\ restarts \in 0..MaxRestarts
    /\ missed \in BOOLEAN

\* Nothing is going on that may still refresh the advertisement.
Quiet == poller = PollerIdle /\ numberBinder = BinderIdle /\ ~refreshes /\ ~readvertise

Stale == radio = "advertising" /\ numberConnected = {} /\ payload # gsn

\* The advertisement falls behind the number in two ways only: the refresh was
\* dropped while advertising was starting, or a disconnection had not found
\* the mark of the increment.  No other refresh is lost, neither in the 150 ms
\* without advertisement nor between the poller and the callbacks.
StaleOnlyIfMissed == Quiet /\ Stale => missed

\* The 150 ms without advertisement end: with the advertisement, or with the
\* controller that was just connecting.  If that one leaves without a further
\* increment it is the health check that brings the advertisement back.
AdvertisingResumes == radio = "window" ~> radio = "advertising" \/ links # {}

\* "When the GSN changes and nobody is connected, advertising is stopped and
\* started again": with nothing left to do, the advertised number is current.
AdvertisesCurrentState == Quiet => ~Stale

\* "During a connection the GSN is incremented at most once."
OncePerConnection == \A d \in numberConnected : bumps[d] <= 1
=============================================================================
