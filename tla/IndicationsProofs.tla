-------------------------- MODULE IndicationsProofs --------------------------
(***************************************************************************)
(* For any number of controllers and characteristics: the type invariant   *)
(* of Indications, and that no change a subscribed controller was not told *)
(* of is forgotten.                                                        *)
(***************************************************************************)
EXTENDS Indications, TLAPS

\* Whoever is at work works for a device; only events have a characteristic.
AtWork ==
    /\ binder.at # "idle" => binder.dev \in Devices
    /\ worker.at # "idle" => worker.dev \in Devices
    /\ worker.at \in {"subscribe", "unsubscribe"} => worker.iid \in Iids
    /\ main.at # "idle" => main.dev \in Devices /\ main.iid \in Iids
    /\ poller.at # "idle" => poller.iid \in Iids

TypeInv == TypeOK /\ AtWork

\* From the choice of an event to its indication the main thread alone puts
\* events in flight; callbacks only take them back.
OneIsChosen ==
    /\ main.at = "mark"   => inFlight[main.dev] = None
    /\ main.at = "notify" => inFlight[main.dev] \in {None, main.iid}

-----------------------------------------------------------------------------
LEMMA InitOK == Init => TypeInv /\ OneIsChosen /\ NoEventIsForgotten
  BY MaxAssumption
  DEF Init, TypeInv, TypeOK, AtWork, OneIsChosen, NoEventIsForgotten, Idle, PollerIdle, Doing

\* Each step keeps the types.
LEMMA TypeStep == TypeInv /\ [Next]_vars => TypeInv'
<1>. SUFFICES ASSUME TypeInv, [Next]_vars PROVE TypeInv'
  OBVIOUS
<1>. USE DEF TypeInv, TypeOK, AtWork, Keys, KeysOf
<1>1. ASSUME NEW i \in Iids, Observe(i) PROVE TypeInv'
  BY <1>1 DEF Observe, Finding, PollerRest, stackVars
<1>2. CASE Find
  BY <1>2 DEF Find, Queueing, PollerRest, stackVars
<1>3. CASE Queue
  BY <1>3 DEF Queue, PollerIdle, PollerRest, stackVars
<1>4. ASSUME NEW d \in Devices, LinkUp(d) PROVE TypeInv'
  BY <1>4 DEF LinkUp, Doing, Idle, BinderRest, eventVars
<1>5. CASE ConnectForgets
  BY <1>5 DEF ConnectForgets, Forget, Doing, BinderRest
<1>6. CASE ConnectAdds
  BY <1>6 DEF ConnectAdds, Idle, Doing, BinderRest, eventVars
<1>7. ASSUME NEW d \in Devices, LinkDown(d) PROVE TypeInv'
  BY <1>7 DEF LinkDown, Doing, Idle, BinderRest, eventVars
<1>8. CASE DisconnectRemoves
  BY <1>8 DEF DisconnectRemoves, Doing, BinderRest, eventVars
<1>9. CASE DisconnectCleans
  BY <1>9 DEF DisconnectCleans, Forget, Doing, Idle, BinderRest
<1>10. ASSUME NEW d \in Devices, Confirm(d) PROVE TypeInv'
  BY <1>10, MaxAssumption DEF Confirm, ConfirmRest
<1>11. ASSUME NEW d \in Devices, LoseConfirmation(d) PROVE TypeInv'
  BY <1>11, MaxAssumption DEF LoseConfirmation, ConfirmRest
<1>12. ASSUME NEW d \in Devices, NEW i \in Iids \cup {None},
              NEW kind \in {"subscribe", "unsubscribe", "verify", "activate"},
              kind \in {"subscribe", "unsubscribe"} => i \in Iids, BeginTask(kind, d, i)
       PROVE  TypeInv'
  BY <1>12, MaxAssumption DEF BeginTask, Doing, WorkerRest
<1>13. CASE Subscribe
  BY <1>13 DEF Subscribe, Idle, Doing, WorkerRest
<1>14. CASE Unsubscribe
  BY <1>14 DEF Unsubscribe, Idle, Doing, WorkerRest
<1>15. CASE Verify
  BY <1>15 DEF Verify, Idle, Doing, WorkerRest
<1>16. CASE Activate
  BY <1>16 DEF Activate, Idle, Doing, WorkerRest
<1>17. ASSUME NEW d \in Devices, Drain(d) PROVE TypeInv'
  BY <1>17 DEF Drain, Doing, MainRest
<1>18. CASE MarkInFlight
  BY <1>18 DEF MarkInFlight, Doing, MainRest
<1>19. CASE Notify
  BY <1>19, MaxAssumption DEF Notify, Refused, Idle, Doing, MainRest
<1>20. ASSUME NEW d \in Devices, DropPeer(d) PROVE TypeInv'
  BY <1>20 DEF DropPeer
<1>21. CASE Restart
  BY <1>21 DEF Restart
<1>22. CASE UNCHANGED vars
  BY <1>22 DEF vars, eventVars, stackVars
<1>. HIDE DEF TypeInv
<1>. QED
  BY <1>1, <1>2, <1>3, <1>4, <1>5, <1>6, <1>7, <1>8, <1>9, <1>10, <1>11, <1>12, <1>13, <1>14,
     <1>15, <1>16, <1>17, <1>18, <1>19, <1>20, <1>21, <1>22
  DEF Next, Poll, Callback, Work, Send

-----------------------------------------------------------------------------
\* A step that puts nothing in flight, and leaves the main thread's choice
\* or ends it.
LEMMA ChoiceStays ==
    ASSUME OneIsChosen, main' \in {main, Idle},
           main.at # "idle" => inFlight'[main.dev] \in {None, inFlight[main.dev]}
    PROVE  OneIsChosen'
  BY DEF OneIsChosen, Idle, Doing

LEMMA ChoiceStep == TypeInv /\ OneIsChosen /\ [Next]_vars => OneIsChosen'
<1>. SUFFICES ASSUME TypeInv, OneIsChosen, [Next]_vars PROVE OneIsChosen'
  OBVIOUS
<1>. USE DEF TypeInv, TypeOK, AtWork
<1>1. CASE UNCHANGED <<inFlight, main>>
  BY <1>1, ChoiceStays
<1>2. ASSUME NEW i \in Iids, Observe(i) PROVE UNCHANGED <<inFlight, main>>
  BY <1>2 DEF Observe, PollerRest
<1>3. CASE Poll
  BY <1>1, <1>3 DEF Poll, Find, Queue, PollerRest
<1>4. CASE ConnectForgets \/ DisconnectCleans
  BY <1>4, ChoiceStays DEF ConnectForgets, DisconnectCleans, Forget, BinderRest
<1>5. CASE ConnectAdds \/ DisconnectRemoves
  BY <1>1, <1>5 DEF ConnectAdds, DisconnectRemoves, eventVars, BinderRest
<1>6. CASE Work
  BY <1>1, <1>6 DEF Work, Subscribe, Unsubscribe, Verify, Activate, WorkerRest
<1>7. CASE MarkInFlight
  BY <1>7 DEF MarkInFlight, OneIsChosen, Doing
<1>8. CASE Notify
  BY <1>8 DEF Notify, OneIsChosen, Idle, Doing
<1>9. CASE Restart
  BY <1>9 DEF Restart, OneIsChosen, Idle, Doing
<1>10. ASSUME NEW d \in Devices, LinkUp(d) \/ LinkDown(d) PROVE UNCHANGED <<inFlight, main>>
  BY <1>10 DEF LinkUp, LinkDown, eventVars, BinderRest
<1>11. ASSUME NEW d \in Devices, Confirm(d) PROVE OneIsChosen'
  BY <1>11, ChoiceStays DEF Confirm, ConfirmRest
<1>12. ASSUME NEW d \in Devices, LoseConfirmation(d) \/ DropPeer(d)
       PROVE  UNCHANGED <<inFlight, main>>
  BY <1>12 DEF LoseConfirmation, DropPeer, ConfirmRest
<1>13. ASSUME NEW d \in Devices, Drain(d) PROVE OneIsChosen'
  BY <1>13 DEF Drain, OneIsChosen, Idle, Doing
<1>14. ASSUME NEW d, NEW i, NEW kind, BeginTask(kind, d, i) PROVE UNCHANGED <<inFlight, main>>
  BY <1>14 DEF BeginTask, WorkerRest
<1>15. CASE UNCHANGED vars
  BY <1>1, <1>15 DEF vars, eventVars
<1>. QED
  BY <1>1, <1>2, <1>3, <1>4, <1>5, <1>6, <1>7, <1>8, <1>9, <1>10, <1>11, <1>12, <1>13, <1>14,
     <1>15
  DEF Next, Callback, Send

-----------------------------------------------------------------------------
\* A step that owes nothing new and takes back no event.
LEMMA NothingTaken ==
    ASSUME NoEventIsForgotten, owed' \subseteq owed, pending \subseteq pending',
           UNCHANGED inFlight
    PROVE  NoEventIsForgotten'
  BY DEF NoEventIsForgotten

\* Forgetting a device takes its events back together with what it is owed.
LEMMA ForgetStep ==
    ASSUME TypeInv, NoEventIsForgotten, NEW d \in Devices, Forget(d)
    PROVE  NoEventIsForgotten'
  BY DEF TypeInv, TypeOK, NoEventIsForgotten, Forget, Keys, KeysOf

LEMMA EventStep ==
    TypeInv /\ OneIsChosen /\ NoEventIsForgotten /\ [Next]_vars => NoEventIsForgotten'
<1>. SUFFICES ASSUME TypeInv, OneIsChosen, NoEventIsForgotten, [Next]_vars
              PROVE  NoEventIsForgotten'
  OBVIOUS
<1>1. ASSUME NEW i \in Iids, Observe(i) PROVE NoEventIsForgotten'
  BY <1>1, NothingTaken DEF Observe, PollerRest
<1>2. CASE Find
  BY <1>2, NothingTaken DEF Find, PollerRest
<1>3. CASE Queue
  BY <1>3 DEF Queue, PollerRest, NoEventIsForgotten
<1>4. CASE ConnectForgets \/ DisconnectCleans
  BY <1>4, ForgetStep DEF ConnectForgets, DisconnectCleans, TypeInv, AtWork
<1>5. CASE ConnectAdds \/ DisconnectRemoves
  BY <1>5, NothingTaken DEF ConnectAdds, DisconnectRemoves, eventVars
<1>6. CASE Subscribe \/ Verify \/ Activate
  BY <1>6, NothingTaken DEF Subscribe, Verify, Activate, WorkerRest
<1>7. CASE Unsubscribe
  BY <1>7 DEF Unsubscribe, WorkerRest, NoEventIsForgotten
<1>8. CASE MarkInFlight
  <2>1. main.dev \in Devices /\ main.iid \in Iids /\ inFlight[main.dev] = None
    BY <1>8 DEF MarkInFlight, TypeInv, AtWork, OneIsChosen
  <2>2. inFlight' = [inFlight EXCEPT ![main.dev] = main.iid]
        /\ pending' = pending \ {<<main.dev, main.iid>>} /\ owed' = owed
    BY <1>8 DEF MarkInFlight, MainRest
  <2>3. ASSUME NEW k \in owed PROVE k \in pending' \/ inFlight'[k[1]] = k[2]
    <3>1. k[1] \in Devices /\ k[2] \in Iids /\ k = <<k[1], k[2]>>
      BY DEF TypeInv, TypeOK, Keys
    <3>2. k \in pending \/ inFlight[k[1]] = k[2]
      BY DEF NoEventIsForgotten
    <3>. QED  BY <2>1, <2>2, <3>1, <3>2, NoneAssumption DEF TypeInv, TypeOK
  <2>. QED  BY <2>2, <2>3 DEF NoEventIsForgotten
<1>9. CASE Notify
  <2>1. CASE UNCHANGED <<pending, inFlight>>
    BY <1>9, <2>1, NothingTaken DEF Notify, MainRest
  <2>2. CASE Refused
    <3>1. main.dev \in Devices /\ inFlight[main.dev] \in {None, main.iid}
      BY <1>9 DEF Notify, TypeInv, AtWork, OneIsChosen
    <3>2. owed' = owed /\ pending' = pending \cup {<<main.dev, main.iid>>}
          /\ inFlight' = [inFlight EXCEPT ![main.dev] = None]
      BY <1>9, <2>2 DEF Notify, MainRest, Refused
    <3>3. ASSUME NEW k \in owed PROVE k \in pending' \/ inFlight'[k[1]] = k[2]
      <4>1. k[1] \in Devices /\ k[2] \in Iids /\ k = <<k[1], k[2]>>
        BY DEF TypeInv, TypeOK, Keys
      <4>2. k \in pending \/ inFlight[k[1]] = k[2]
        BY DEF NoEventIsForgotten
      <4>. QED  BY <3>1, <3>2, <4>1, <4>2, NoneAssumption DEF TypeInv, TypeOK
    <3>. QED  BY <3>2, <3>3 DEF NoEventIsForgotten
  <2>. QED  BY <1>9, <2>1, <2>2 DEF Notify
<1>10. CASE Restart
  BY <1>10 DEF Restart, NoEventIsForgotten
<1>11. ASSUME NEW d \in Devices, LinkUp(d) \/ LinkDown(d) PROVE NoEventIsForgotten'
  BY <1>11, NothingTaken DEF LinkUp, LinkDown, eventVars
<1>12. ASSUME NEW d \in Devices, Confirm(d) PROVE NoEventIsForgotten'
  <2>1. inFlight' = [inFlight EXCEPT ![d] = None]
    BY <1>12 DEF Confirm
  <2>2. \/ owed' = owed \ ({<<d, inFlight[d]>>} \ pending) /\ pending' = pending
        \/ owed' = owed /\ pending' = pending \cup {k \in Keys : k = <<d, inFlight[d]>>}
    BY <1>12 DEF Confirm
  <2>3. ASSUME NEW k \in owed' PROVE k \in pending' \/ inFlight'[k[1]] = k[2]
    <3>1. k \in owed /\ k \in Keys /\ k[1] \in Devices /\ k = <<k[1], k[2]>>
      BY <2>2 DEF TypeInv, TypeOK, Keys
    <3>2. k \in pending \/ inFlight[k[1]] = k[2]
      BY <3>1 DEF NoEventIsForgotten
    <3>. QED  BY <2>1, <2>2, <3>1, <3>2 DEF TypeInv, TypeOK
  <2>. QED  BY <2>3 DEF NoEventIsForgotten
<1>13. ASSUME NEW d \in Devices, LoseConfirmation(d) \/ DropPeer(d) PROVE NoEventIsForgotten'
  BY <1>13, NothingTaken DEF LoseConfirmation, DropPeer
<1>14. ASSUME NEW d \in Devices, Drain(d) PROVE NoEventIsForgotten'
  BY <1>14, NothingTaken DEF Drain, MainRest
<1>15. ASSUME NEW d, NEW i, NEW kind, BeginTask(kind, d, i) PROVE NoEventIsForgotten'
  BY <1>15, NothingTaken DEF BeginTask, WorkerRest
<1>16. CASE UNCHANGED vars
  BY <1>16, NothingTaken DEF vars, eventVars
<1>. QED
  BY <1>1, <1>2, <1>3, <1>4, <1>5, <1>6, <1>7, <1>8, <1>9, <1>10, <1>11, <1>12, <1>13, <1>14,
     <1>15, <1>16
  DEF Next, Poll, Callback, Work, Send

-----------------------------------------------------------------------------
\* Every reachable state is well typed, and every thread at work works for a
\* device.
THEOREM TypeCorrect == Spec => []TypeOK
<1>1. TypeInv => TypeOK
  BY DEF TypeInv
<1>. QED  BY <1>1, InitOK, TypeStep, PTL DEF Spec

\* No change that a subscribed, connected controller was not told of is ever
\* neither pending nor in flight (drainPendingEventNotifications,
\* onNotificationSent and the callbacks of HomeKitRuntime).
THEOREM EventsAreKept == Spec => []NoEventIsForgotten
<1>. QED  BY InitOK, TypeStep, ChoiceStep, EventStep, PTL DEF Spec
=============================================================================
