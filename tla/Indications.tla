----------------------------- MODULE Indications -----------------------------
(***************************************************************************)
(* How a connected controller learns that a control has changed            *)
(* (HomeKitRuntime): the poller queues an event for every controller that  *)
(* has subscribed, the main thread sends it as an empty indication, one at *)
(* a time for a connection, and the stack confirms it.                     *)
(*                                                                         *)
(* The poller, the binder thread of the connection callbacks, the protocol *)
(* worker and the main thread share the concurrent collections and hold no *)
(* common lock.  A callback's removals are one step, as no property tells  *)
(* their order apart; so are eventInFlight and indicationStartedAt.        *)
(***************************************************************************)
EXTENDS Naturals

CONSTANTS
    Devices,     \* addresses of controllers
    Iids,        \* the event characteristics
    None,        \* no device, no characteristic
    MaxDisturbances  \* bound: indications that fail or are never confirmed,
                 \* and sessions that are replaced

ASSUME NoneAssumption == None \notin Devices \cup Iids
ASSUME MaxAssumption  == MaxDisturbances \in Nat

VARIABLES
    connected,    \* connectedDevices, connectedDeviceRefs
    session,      \* pairVerifySessions: "none", "verified", or "active"
    subscribed,   \* eventSubscriptions
    pending,      \* pendingEventNotifications
    inFlight,     \* eventInFlight, and indicationStartedAt with it
    poller,       \* queueEventForIid, between its steps
    binder,       \* the connection callback that runs
    worker,       \* the protocol worker's task
    main,         \* drainPendingEventNotifications, between its steps
    drains,       \* the devices a drain is posted for
    links,        \* the stack: devices that are connected
    closing,      \* the stack: those whose connection is being cancelled
    unconfirmed,  \* the stack: devices with an indication on its way
    disturbances, \* how many of those there were
    owed          \* history: changes a subscribed device was not told of yet

eventVars == <<session, subscribed, pending, inFlight>>
stackVars == <<links, closing, unconfirmed, disturbances>>
vars == <<connected, eventVars, poller, binder, worker, main, drains, stackVars, owed>>

Keys == Devices \X Iids
KeysOf(d) == {d} \X Iids

Doing(at, d, i) == [at |-> at, dev |-> d, iid |-> i]
Idle == Doing("idle", None, None)

Finding(i)     == [at |-> "find", iid |-> i, found |-> {}]
Queueing(i, f) == [at |-> "queue", iid |-> i, found |-> f]
PollerIdle     == [at |-> "idle", iid |-> None, found |-> {}]

Init ==
    /\ connected = {}
    /\ session = [d \in Devices |-> "none"]
    /\ subscribed = {}
    /\ pending = {}
    /\ inFlight = [d \in Devices |-> None]
    /\ poller = PollerIdle
    /\ binder = Idle
    /\ worker = Idle
    /\ main = Idle
    /\ drains = {}
    /\ links = {}
    /\ closing = {}
    /\ unconfirmed = {}
    /\ disturbances = 0
    /\ owed = {}

-----------------------------------------------------------------------------
(* The poller: queueEventForIid. *)

PollerRest == <<connected, session, subscribed, inFlight, binder, worker, main, stackVars>>

Observe(i) ==
    /\ poller = PollerIdle
    /\ poller' = Finding(i)
    /\ UNCHANGED <<pending, drains, owed, PollerRest>>

\* The connected devices that have subscribed ...
Find ==
    /\ poller.at = "find"
    /\ poller' = Queueing(poller.iid, {d \in connected : <<d, poller.iid>> \in subscribed})
    /\ UNCHANGED <<pending, drains, owed, PollerRest>>

\* ... get the event, and a drain is posted for each.
Queue ==
    /\ poller.at = "queue"
    /\ LET keys == poller.found \X {poller.iid}
       IN /\ pending' = pending \cup keys
          /\ owed' = owed \cup {k \in keys \cap subscribed : k[1] \in connected}
    /\ drains' = drains \cup poller.found
    /\ poller' = PollerIdle
    /\ UNCHANGED PollerRest

-----------------------------------------------------------------------------
(* The connection callbacks, one at a time. *)

BinderRest == <<poller, worker, main, drains, disturbances>>

\* What both branches of onConnectionStateChange forget of a device.
Forget(d) ==
    /\ session' = [session EXCEPT ![d] = "none"]
    /\ subscribed' = subscribed \ KeysOf(d)
    /\ pending' = pending \ KeysOf(d)
    /\ inFlight' = [inFlight EXCEPT ![d] = None]
    /\ owed' = owed \ KeysOf(d)

LinkUp(d) ==
    /\ binder = Idle
    /\ d \notin links
    /\ links' = links \cup {d}
    /\ binder' = Doing("forget", d, None)
    /\ UNCHANGED <<connected, eventVars, closing, unconfirmed, owed, BinderRest>>

ConnectForgets ==
    /\ binder.at = "forget"
    /\ Forget(binder.dev)
    /\ binder' = Doing("add", binder.dev, None)
    /\ UNCHANGED <<connected, links, closing, unconfirmed, BinderRest>>

ConnectAdds ==
    /\ binder.at = "add"
    /\ connected' = connected \cup {binder.dev}
    /\ binder' = Idle
    /\ UNCHANGED <<eventVars, links, closing, unconfirmed, owed, BinderRest>>

\* The connection ends, for whatever reason.
LinkDown(d) ==
    /\ binder = Idle
    /\ d \in links
    /\ links' = links \ {d}
    /\ closing' = closing \ {d}
    /\ unconfirmed' = unconfirmed \ {d}
    /\ binder' = Doing("remove", d, None)
    /\ UNCHANGED <<connected, eventVars, owed, BinderRest>>

DisconnectRemoves ==
    /\ binder.at = "remove"
    /\ connected' = connected \ {binder.dev}
    /\ binder' = Doing("clean", binder.dev, None)
    /\ UNCHANGED <<eventVars, links, closing, unconfirmed, owed, BinderRest>>

DisconnectCleans ==
    /\ binder.at = "clean"
    /\ Forget(binder.dev)
    /\ binder' = Idle
    /\ UNCHANGED <<connected, links, closing, unconfirmed, BinderRest>>

ConfirmRest == <<connected, session, subscribed, poller, binder, worker, main, links, closing>>

\* Mutant: a failed indication is dropped.
ConfirmAnyway(d) ==
    /\ binder = Idle
    /\ d \in unconfirmed
    /\ unconfirmed' = unconfirmed \ {d}
    /\ inFlight' = [inFlight EXCEPT ![d] = None]
    /\ drains' = drains \cup {d}
    /\ \/ owed' = owed \ ({<<d, inFlight[d]>>} \ pending) /\ UNCHANGED disturbances
       \/ disturbances < MaxDisturbances /\ disturbances' = disturbances + 1 /\ UNCHANGED owed
    /\ UNCHANGED <<pending, ConfirmRest>>

\* onNotificationSent: a failed indication is pending again.
Confirm(d) ==
    /\ binder = Idle
    /\ d \in unconfirmed
    /\ unconfirmed' = unconfirmed \ {d}
    /\ inFlight' = [inFlight EXCEPT ![d] = None]
    /\ drains' = drains \cup {d}
    /\ \/ /\ owed' = owed \ ({<<d, inFlight[d]>>} \ pending)
          /\ UNCHANGED <<pending, disturbances>>
       \/ /\ disturbances < MaxDisturbances
          /\ disturbances' = disturbances + 1
          /\ pending' = pending \cup {k \in Keys : k = <<d, inFlight[d]>>}
          /\ UNCHANGED owed
    /\ UNCHANGED ConfirmRest

LoseConfirmation(d) ==
    /\ d \in unconfirmed
    /\ disturbances < MaxDisturbances
    /\ disturbances' = disturbances + 1
    /\ unconfirmed' = unconfirmed \ {d}
    /\ UNCHANGED <<pending, inFlight, drains, owed, ConfirmRest>>

-----------------------------------------------------------------------------
(* The protocol worker: writes of the CCCD, and Pair Verify.  The task is    *)
(* checked against its connection when it begins; its work may come after    *)
(* the connection has ended.                                                 *)

WorkerRest == <<connected, inFlight, poller, binder, main, links, closing, unconfirmed>>

BeginTask(kind, d, i) ==
    /\ worker = Idle
    /\ d \in connected
    /\ d \in links
    /\ kind = "activate" => session[d] = "verified"
    /\ worker' = Doing(kind, d, i)
    /\ IF kind = "verify" /\ session[d] # "none"
       THEN disturbances < MaxDisturbances /\ disturbances' = disturbances + 1
       ELSE UNCHANGED disturbances
    /\ UNCHANGED <<session, subscribed, pending, drains, owed, WorkerRest>>

Subscribe ==
    /\ worker.at = "subscribe"
    /\ subscribed' = subscribed \cup {<<worker.dev, worker.iid>>}
    /\ drains' = drains \cup {worker.dev}
    /\ worker' = Idle
    /\ UNCHANGED <<session, pending, owed, disturbances, WorkerRest>>

Unsubscribe ==
    /\ worker.at = "unsubscribe"
    /\ subscribed' = subscribed \ {<<worker.dev, worker.iid>>}
    /\ pending' = pending \ {<<worker.dev, worker.iid>>}
    /\ drains' = drains \cup {worker.dev}
    /\ owed' = owed \ {<<worker.dev, worker.iid>>}
    /\ worker' = Idle
    /\ UNCHANGED <<session, disturbances, WorkerRest>>

\* Pair Verify, which M4 ends; a session that there was is replaced.
Verify ==
    /\ worker.at = "verify"
    /\ session' = [session EXCEPT ![worker.dev] = "verified"]
    /\ worker' = Idle
    /\ UNCHANGED <<subscribed, pending, drains, owed, disturbances, WorkerRest>>

\* Mutant: nothing is drained when the session becomes active.
ActivateQuietly ==
    /\ worker.at = "activate"
    /\ session' = [session EXCEPT ![worker.dev] = IF @ = "verified" THEN "active" ELSE @]
    /\ worker' = Idle
    /\ UNCHANGED <<subscribed, pending, drains, owed, disturbances, WorkerRest>>

\* The final fragment of Pair Verify M4 has been read.
Activate ==
    /\ worker.at = "activate"
    /\ session' = [session EXCEPT ![worker.dev] = IF @ = "verified" THEN "active" ELSE @]
    /\ drains' = IF session[worker.dev] = "verified" THEN drains \cup {worker.dev} ELSE drains
    /\ worker' = Idle
    /\ UNCHANGED <<subscribed, pending, owed, disturbances, WorkerRest>>

-----------------------------------------------------------------------------
(* The main thread. *)

MainRest == <<connected, session, subscribed, poller, binder, worker, links, closing, owed>>

\* The checks of drainPendingEventNotifications, and the choice of an event.
Drain(d) ==
    /\ main = Idle
    /\ d \in drains
    /\ drains' = drains \ {d}
    /\ LET ready == pending \cap subscribed \cap KeysOf(d)
       IN IF d \in connected /\ inFlight[d] = None /\ session[d] = "active" /\ ready # {}
          THEN \E k \in ready : main' = Doing("mark", d, k[2])
          ELSE UNCHANGED main
    /\ UNCHANGED <<pending, inFlight, unconfirmed, disturbances, MainRest>>

MarkInFlight ==
    /\ main.at = "mark"
    /\ pending' = pending \ {<<main.dev, main.iid>>}
    /\ inFlight' = [inFlight EXCEPT ![main.dev] = main.iid]
    /\ main' = Doing("notify", main.dev, main.iid)
    /\ UNCHANGED <<drains, unconfirmed, disturbances, MainRest>>

Refused ==
    /\ inFlight' = [inFlight EXCEPT ![main.dev] = None]
    /\ pending' = pending \cup {<<main.dev, main.iid>>}
    /\ drains' = drains \cup {main.dev}
    /\ UNCHANGED unconfirmed

\* notifyCharacteristicChanged is accepted; or refused, as it is for a device
\* that has gone, and the event is tried again 100 ms later.
Notify ==
    /\ main.at = "notify"
    /\ main' = Idle
    /\ \/ /\ main.dev \in links
          /\ unconfirmed' = unconfirmed \cup {main.dev}
          /\ UNCHANGED <<pending, inFlight, drains, disturbances>>
       \/ /\ main.dev \in links
          /\ disturbances < MaxDisturbances
          /\ disturbances' = disturbances + 1
          /\ Refused
       \/ /\ main.dev \notin links
          /\ Refused
          /\ UNCHANGED disturbances
    /\ UNCHANGED MainRest

\* healthCheck and disconnectPeer: a handshake or an indication takes too long.
DropPeer(d) ==
    /\ main = Idle
    /\ d \in connected \cap links
    /\ d \notin closing
    /\ session[d] # "active" \/ inFlight[d] # None
    /\ session' = [session EXCEPT ![d] = "none"]
    /\ closing' = closing \cup {d}
    /\ UNCHANGED <<connected, subscribed, pending, inFlight, poller, binder, worker, main,
                   drains, links, unconfirmed, disturbances, owed>>

\* stopProbe and startProbe.  (Their races with the callbacks are in Probe.)
Restart ==
    /\ main = Idle
    /\ binder = Idle
    /\ connected' = {}
    /\ session' = [d \in Devices |-> "none"]
    /\ subscribed' = {}
    /\ pending' = {}
    /\ inFlight' = [d \in Devices |-> None]
    /\ owed' = {}
    /\ links' = {}
    /\ closing' = {}
    /\ unconfirmed' = {}
    /\ UNCHANGED <<poller, binder, worker, main, drains, disturbances>>

-----------------------------------------------------------------------------
Poll == Find \/ Queue
Callback == ConnectForgets \/ ConnectAdds \/ DisconnectRemoves \/ DisconnectCleans
Work == Subscribe \/ Unsubscribe \/ Verify \/ Activate
Send == MarkInFlight \/ Notify

Next ==
    \/ \E i \in Iids : Observe(i)
    \/ Poll \/ Callback \/ Work \/ Send \/ Restart
    \/ \E d \in Devices : \/ LinkUp(d) \/ LinkDown(d)
                          \/ Confirm(d) \/ LoseConfirmation(d)
                          \/ Drain(d) \/ DropPeer(d)
    \/ \E d \in Devices, i \in Iids, kind \in {"subscribe", "unsubscribe"} : BeginTask(kind, d, i)
    \/ \E d \in Devices, kind \in {"verify", "activate"} : BeginTask(kind, d, None)

\* Threads, posts and timers go on; the stack confirms what it does not lose,
\* and closes a connection it is told to.
Fairness ==
    /\ WF_vars(Poll) /\ WF_vars(Callback) /\ WF_vars(Work) /\ WF_vars(Send)
    /\ \A d \in Devices : /\ WF_vars(Drain(d))
                          /\ WF_vars(DropPeer(d))
                          /\ WF_vars(Confirm(d))
                          /\ WF_vars(d \in closing /\ LinkDown(d))

Spec == Init /\ [][Next]_vars /\ Fairness

-----------------------------------------------------------------------------
\* The type invariant.
TypeOK ==
    /\ connected \subseteq Devices
    /\ session \in [Devices -> {"none", "verified", "active"}]
    /\ subscribed \subseteq Keys
    /\ pending \subseteq Keys
    /\ inFlight \in [Devices -> Iids \cup {None}]
    /\ poller \in [at : {"idle", "find", "queue"}, iid : Iids \cup {None},
                   found : SUBSET Devices]
    /\ binder \in [at : {"idle", "forget", "add", "remove", "clean"},
                   dev : Devices \cup {None}, iid : {None}]
    /\ worker \in [at : {"idle", "subscribe", "unsubscribe", "verify", "activate"},
                   dev : Devices \cup {None}, iid : Iids \cup {None}]
    /\ main \in [at : {"idle", "mark", "notify"},
                 dev : Devices \cup {None}, iid : Iids \cup {None}]
    /\ drains \subseteq Devices
    /\ links \subseteq Devices
    /\ closing \subseteq links
    /\ unconfirmed \subseteq links
    /\ disturbances \in 0..MaxDisturbances
    /\ owed \subseteq Keys

\* A change that a subscribed controller has not been told of is not forgotten
\* while it stays connected: it is pending or on its way, whatever indications
\* failed and whatever changed again in the meantime.
NoEventIsForgotten == \A k \in owed : k \in pending \/ inFlight[k[1]] = k[2]

\* Once the controls have come to rest every such change is indicated, unless
\* the controller goes away or unsubscribes: no wake-up is lost between the four
\* threads, neither when an indication is confirmed nor when the session becomes
\* active late.
EventsAreDelivered ==
    <>[](poller = PollerIdle) => \A k \in Keys : k \in owed ~> k \notin owed
=============================================================================
