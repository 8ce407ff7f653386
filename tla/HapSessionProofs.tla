-------------------------- MODULE HapSessionProofs --------------------------
(***************************************************************************)
(* For any identifiers, values, number of connections and of writes: a     *)
(* command is decided on only for the connection its frame came by, both   *)
(* ends of a session count the same frames, an answer opens unless the     *)
(* peer is being dropped, and the writes keep CommandContract.             *)
(***************************************************************************)
EXTENDS HapSession, TLAPS

\* What is known of a request in the queue or with the worker: while its epoch
\* is the current one, its connection is up, or has ended unnoticed.
TaskOK(t) ==
    /\ t.kind # "none" /\ t.link \in 1..links /\ t.epoch \in 1..sequence
    /\ t.epoch = epoch => \/ link = t.link /\ binder = "idle"
                          \/ link = 0 /\ binder = "disconnect"
    /\ t.kind = "write" => t.nonce < MaxFrames /\ t.tid \in Tids /\ t.body \in Bodies

\* The controller speaks in a connection whose callback is done.
Talks ==
    /\ controller.phase # "new" => link # 0 /\ binder = "idle"
    /\ binder \in {"connect", "clear"} => link # 0
    /\ binder \in {"disconnect", "clean"} => link = 0
    /\ link # 0 /\ binder # "connect" => epoch # 0
    /\ txn = "open" => request # NoRequest

\* The kinds of request that each step of the worker is a step of.
Kinds ==
    /\ worker.at \in {"authorize", "decide", "run", "execute"} => worker.task.kind = "write"
    /\ worker.at \in {"check", "store"} => worker.task.kind \in {"m1", "m3", "write"}
    /\ worker.at = "complete" => worker.task.kind \in {"readVerify", "readControl"}

Steps ==
    /\ \A i \in DOMAIN queue : TaskOK(queue[i])
    /\ worker.at = "rest" => worker = Resting
    /\ worker.at # "rest" => TaskOK(worker.task)
    /\ Kinds

Typed == TypeOK /\ Talks /\ Steps


\* The values that the definitions build have their types.
LEMMA Values ==
    /\ NoSession \in Sessions /\ NoResponse \in Responses /\ NoEntry \in Entries
    /\ NoTask \in Tasks /\ Resting \in Workers /\ Stranger \in Controllers
<1>1. NoSession \in Sessions
  BY BoundsAssumption DEF NoSession, Session, Sessions
<1>2. NoResponse \in Responses
  BY BoundsAssumption DEF NoResponse, Response, Responses
<1>3. NoEntry \in Entries
  BY <1>2 DEF NoEntry, Entries
<1>4. NoTask \in Tasks
  BY BoundsAssumption DEF NoTask, Tasks
<1>5. Resting \in Workers
  BY BoundsAssumption, <1>2, <1>4 DEF Resting, Working, Workers
<1>6. Stranger \in Controllers
  BY BoundsAssumption DEF Stranger, Controller, Controllers
<1>. QED  BY <1>1, <1>2, <1>3, <1>4, <1>5, <1>6

\* The worker's next step with its task.
LEMMA Going ==
    ASSUME TypeOK, NEW step, step \in {"authorize", "decide", "run", "execute", "store", "reply", "complete"},
           Goes(step)
    PROVE  /\ worker' \in Workers /\ worker'.at = step /\ worker'.task = worker.task
           /\ worker'.answer = worker.answer /\ worker'.key = worker.key /\ worker'.nonce = worker.nonce
  BY DEF TypeOK, Goes, Workers

\* The worker has a response.
LEMMA Answering ==
    ASSUME TypeOK, NEW what, what \in {"m2", "m4", "error", "ran", "refused"},
           NEW tid \in Tids \cup {0}, NEW key \in 0..MaxConnections,
           Answers(what, tid, key)
    PROVE  /\ worker' \in Workers /\ worker'.at = "check" /\ worker'.task = worker.task
           /\ worker'.answer = Response(what, tid, key)
           /\ worker'.answer \in Responses
  BY DEF TypeOK, Answers, Workers, Response, Responses


LEMMA PlainTask ==
    ASSUME TypeOK, NEW kind, kind \in {"m1", "m3", "readVerify", "readControl"}
    PROVE  /\ Plainly(kind) \in Tasks /\ Plainly(kind).kind = kind /\ Plainly(kind).link = link
           /\ Plainly(kind).epoch = epoch /\ Plainly(kind).key = controller.key
<1>1. epoch \in Nat
  BY DEF TypeOK
<1>2. link \in 0..MaxConnections
  BY BoundsAssumption DEF TypeOK
<1>3. controller.key \in 0..MaxConnections
  BY DEF TypeOK, Controllers
<1>. QED  BY <1>1, <1>2, <1>3, BoundsAssumption DEF Plainly, Task, Tasks

\* A request goes out.
LEMMA Dispatching ==
    ASSUME TypeOK, NEW t \in Tasks, Dispatch(t)
    PROVE  /\ binder = "idle" /\ link # 0 /\ ~outstanding /\ outstanding' = TRUE
           /\ queue' \in {Append(queue, t), queue}
           /\ queue' \in Queues
           /\ drops' \subseteq 0..sequence
           /\ UNCHANGED <<epoch, sequence, connected, session, response, cache, worker,
                          binder, main, unreadable, link, links, closing>>
<1>1. queue' \in {Append(queue, t), queue} /\ drops' \in {drops, drops \cup {epoch}}
  BY DEF Dispatch
<1>2. queue' \in Queues
  BY <1>1 DEF TypeOK, Queues
<1>3. drops' \subseteq 0..sequence
  BY <1>1 DEF TypeOK
<1>. QED  BY <1>1, <1>2, <1>3 DEF Dispatch, accessoryVars, linkVars

\* Types are kept, if an answer that the controller opens is that of a write.
LEMMA TypeStep ==
    ASSUME Typed, [Next]_vars, Reply => txn' \in {"none", "open", "ran", "refused"}
    PROVE  TypeOK'

<1>1. CASE LinkUp
  BY <1>1, BoundsAssumption DEF Typed, TypeOK, vars, accessoryVars, controllerVars, linkVars, LinkUp, CallbackRest
<1>2. CASE LinkDown
  BY <1>2, Values DEF Typed, TypeOK, vars, accessoryVars, controllerVars, linkVars, LinkDown, CallbackRest, ControllerLoses
<1>3. CASE ConnectBumps
  BY <1>3, Values DEF Typed, TypeOK, vars, accessoryVars, controllerVars, linkVars, ConnectBumps, CallbackRest, BumpEpoch
<1>4. CASE ConnectClears
  BY <1>4, Values DEF Typed, TypeOK, vars, accessoryVars, controllerVars, linkVars, ConnectClears, CallbackRest
<1>5. CASE DisconnectBumps
 <2>1. connected' \in BOOLEAN
  BY <1>5 DEF DisconnectBumps
 <2>2. sequence' \in Nat /\ epoch' \in 0..sequence' /\ drops' \subseteq 0..sequence'
  BY <1>5 DEF Typed, TypeOK, DisconnectBumps, BumpEpoch, CallbackRest
 <2>. QED BY <1>5, <2>1, <2>2, Values DEF Typed, TypeOK, vars, accessoryVars, controllerVars, linkVars, DisconnectBumps, CallbackRest, BumpEpoch
<1>6. CASE DisconnectCleans
  BY <1>6, Values DEF Typed, TypeOK, vars, accessoryVars, controllerVars, linkVars, DisconnectCleans, CallbackRest
<1>7. CASE HealthDrops
  BY <1>7 DEF Typed, TypeOK, vars, accessoryVars, controllerVars, linkVars, HealthDrops, MainRest
<1>8. CASE DropBumps
  BY <1>8 DEF Typed, TypeOK, vars, accessoryVars, controllerVars, linkVars, DropBumps, MainRest, BumpEpoch
<1>9. CASE DropForgets
  BY <1>9, Values DEF Typed, TypeOK, vars, accessoryVars, controllerVars, linkVars, DropForgets, MainRest
<1>10. CASE Cancel
  BY <1>10 DEF Typed, TypeOK, vars, accessoryVars, controllerVars, linkVars, Cancel, MainRest
<1>11. CASE Age
  BY <1>11, Values DEF Typed, TypeOK, vars, accessoryVars, controllerVars, linkVars, Age, MainRest
<1>12. CASE Restart
 <2>1. connected' \in BOOLEAN /\ closing' \in BOOLEAN /\ outstanding' \in BOOLEAN /\ ~closing'
  BY <1>12 DEF Restart, ControllerLoses
 <2>2. queue' \in Queues /\ epoch' \in 0..sequence'
  BY <1>12 DEF Typed, TypeOK, Restart, Queues
 <2>3. worker' \in Workers
  BY <1>12, Values DEF Typed, TypeOK, Restart
 <2>. QED BY <1>12, <2>1, <2>2, <2>3, Values DEF Typed, TypeOK, vars, accessoryVars, controllerVars, linkVars, Restart, ControllerLoses
<1>13. CASE SendM1
  <2>1. Plainly("m1") \in Tasks
    BY PlainTask DEF Typed
  <2>2. controller' \in Controllers
    BY <1>13, BoundsAssumption DEF Typed, TypeOK, SendM1, Controllers, Controller
  <2>3. Dispatch(Plainly("m1")) /\ UNCHANGED <<txn, request, runs>>
    BY <1>13 DEF SendM1
  <2>. QED  BY <2>1, <2>2, <2>3, Dispatching DEF Typed, TypeOK
<1>14. CASE SendM3
  <2>1. Plainly("m3") \in Tasks
    BY PlainTask DEF Typed
  <2>2. controller' \in Controllers
    BY <1>14, BoundsAssumption DEF Typed, TypeOK, SendM3, Controllers, Controller
  <2>3. Dispatch(Plainly("m3")) /\ UNCHANGED <<txn, request, runs>>
    BY <1>14 DEF SendM3
  <2>. QED  BY <2>1, <2>2, <2>3, Dispatching DEF Typed, TypeOK
<1>15. CASE ReadVerify
  <2>1. Plainly("readVerify") \in Tasks
    BY PlainTask DEF Typed
  <2>2. controller' \in Controllers
    BY <1>15, BoundsAssumption DEF Typed, TypeOK, ReadVerify, Controllers, Controller
  <2>3. Dispatch(Plainly("readVerify")) /\ UNCHANGED <<txn, request, runs>>
    BY <1>15 DEF ReadVerify
  <2>. QED  BY <2>1, <2>2, <2>3, Dispatching DEF Typed, TypeOK
<1>16. CASE ReadControl
  <2>1. Plainly("readControl") \in Tasks
    BY PlainTask DEF Typed
  <2>2. controller' \in Controllers
    BY <1>16, BoundsAssumption DEF Typed, TypeOK, ReadControl, Controllers, Controller
  <2>3. Dispatch(Plainly("readControl")) /\ UNCHANGED <<txn, request, runs>>
    BY <1>16 DEF ReadControl
  <2>. QED  BY <2>1, <2>2, <2>3, Dispatching DEF Typed, TypeOK
<1>17. ASSUME NEW r \in Writes, SendFrame(r),
               \/ txn' = "open" /\ request' = r /\ runs' = 0
               \/ UNCHANGED <<txn, request, runs>>
        PROVE  TypeOK'
  <2>. DEFINE t == Task("write", r[1], r[2], controller.key, controller.sent)
  <2>1. t \in Tasks /\ controller' \in Controllers
    BY <1>17, BoundsAssumption DEF Typed, TypeOK, SendFrame, Controllers, Task, Tasks, Writes
  <2>2. Dispatch(t)
    BY <1>17 DEF SendFrame
  <2>3. request' \in Writes \cup {NoRequest} /\ txn' \in {"none", "open", "ran", "refused"} /\ runs' \in Nat
    BY <1>17 DEF Typed, TypeOK
  <2>. HIDE DEF t
  <2>. QED  BY <2>1, <2>2, <2>3, Dispatching DEF Typed, TypeOK
<1>18. ASSUME NEW r \in Writes, Write(r) PROVE TypeOK'
  BY <1>17, <1>18 DEF Write
<1>19. CASE Rewrite
  <2>1. request \in Writes
    BY <1>19 DEF Typed, TypeOK, Talks, Rewrite
  <2>. QED  BY <1>17, <1>19, <2>1 DEF Rewrite
<1>20. CASE Take
  <2>1. Head(queue) \in Tasks /\ queue' \in Queues
    BY <1>20 DEF Typed, TypeOK, Take, Queues
  <2>2. worker' \in Workers
    BY <1>20, <2>1, Values, BoundsAssumption DEF Take, Working, Workers
  <2>. QED  BY <1>20, <2>1, <2>2 DEF Typed, TypeOK, Take, controllerVars, WorkerRest, linkVars
<1>21. CASE TakeLate
  <2>1. queue # << >> /\ DOMAIN queue = 1..Len(queue) /\ Head(queue) = queue[1]
    BY <1>21 DEF Typed, TypeOK, TakeLate, Queues
  <2>2. queue' \in Queues /\ Head(queue).epoch \in 0..sequence
    BY <1>21, <2>1 DEF Typed, TypeOK, TakeLate, Queues, Steps, TaskOK
  <2>3. drops' \subseteq 0..sequence
    BY <1>21, <2>2 DEF Typed, TypeOK, TakeLate
  <2>. QED  BY <1>21, <2>2, <2>3 DEF Typed, TypeOK, TakeLate, controllerVars, WorkerRest, linkVars
<1>22. CASE VerifyM2
  <2>1. worker.task.link \in 0..MaxConnections
    BY DEF Typed, TypeOK, Workers, Tasks
  <2>2. worker' \in Workers
    BY <1>22, <2>1, Answering DEF VerifyM2, Typed
  <2>3. session' \in Sessions
    BY <1>22, <2>1, BoundsAssumption DEF VerifyM2, Session, Sessions
  <2>. QED  BY <1>22, <2>2, <2>3, Values DEF Typed, TypeOK, VerifyM2, controllerVars, WorkerRest, linkVars
<1>23. CASE VerifyM4
  <2>1. Answers("m4", 0, 0) \/ Answers("error", 0, 0)
    BY <1>23 DEF VerifyM4
  <2>2. worker' \in Workers
    BY <2>1, Answering, BoundsAssumption DEF Typed
  <2>3. session' \in Sessions
    BY <1>23 DEF Typed, TypeOK, VerifyM4, Sessions
  <2>. QED  BY <1>23, <2>2, <2>3 DEF Typed, TypeOK, VerifyM4, controllerVars, WorkerRest, linkVars
<1>24. CASE Open
  <2>1. Goes("authorize") \/ Goes("reply")
    BY <1>24 DEF Open
  <2>2. worker' \in Workers
    BY <2>1, Going DEF Typed
  <2>3. worker.task \in Tasks /\ worker.task.epoch \in 0..sequence /\ worker.task.nonce < MaxFrames
    BY <1>24 DEF Open, At, Typed, TypeOK, Workers, Steps, TaskOK
  <2>4. session' \in Sessions
    BY <1>24, <2>3, BoundsAssumption DEF Typed, TypeOK, Open, Sessions, Tasks
  <2>5. drops' \subseteq 0..sequence
    BY <1>24, <2>3 DEF Typed, TypeOK, Open
  <2>. QED  BY <1>24, <2>2, <2>4, <2>5 DEF Typed, TypeOK, Open, controllerVars, WorkerRest, linkVars
<1>25. CASE Authorize
  <2>1. Goes("decide") \/ Goes("reply")
    BY <1>25 DEF Authorize
  <2>2. worker' \in Workers
    BY <2>1, Going DEF Typed
  <2>3. Response("refused", worker.task.tid, 0) \in Responses /\ cache.response \in Responses
    BY BoundsAssumption DEF Typed, TypeOK, Workers, Tasks, Response, Responses, Entries
  <2>4. response' \in [verify : Responses, control : Responses]
    BY <1>25, <2>3 DEF Typed, TypeOK, Authorize
  <2>. QED  BY <1>25, <2>2, <2>4 DEF Typed, TypeOK, Authorize, controllerVars, WorkerRest, linkVars
<1>26. CASE Refuse
  <2>1. worker' \in Workers
    BY <1>26, Answering, BoundsAssumption DEF Refuse, Typed, TypeOK, Workers, Tasks
  <2>. QED  BY <1>26, <2>1 DEF Typed, TypeOK, Refuse, controllerVars, WorkerRest, linkVars
<1>27. CASE Execute
  <2>1. worker' \in Workers
    BY <1>27, Going DEF Execute, Typed
  <2>. QED  BY <1>27, <2>1 DEF Typed, TypeOK, Execute, controllerVars, WorkerRest, linkVars
<1>37. CASE Decide
  <2>1. worker' \in Workers
    BY <1>37, Going, Values DEF Decide, Typed
  <2>. QED  BY <1>37, <2>1 DEF Typed, TypeOK, Decide, controllerVars, WorkerRest, linkVars
<1>28. CASE Executed
  <2>1. worker' \in Workers
    BY <1>28, Answering, BoundsAssumption DEF Executed, Typed, TypeOK, Workers, Tasks
  <2>. QED  BY <1>28, <2>1 DEF Typed, TypeOK, Executed, controllerVars, WorkerRest, linkVars
<1>29. CASE Check
  <2>1. worker' \in Workers
    BY <1>29, Going, Values DEF Check, Typed
  <2>. QED  BY <1>29, <2>1 DEF Typed, TypeOK, Check, controllerVars, WorkerRest, linkVars
<1>30. CASE Store
  <2>1. worker' \in Workers /\ worker.answer \in Responses /\ worker.task.body \in Bodies \cup {"none"}
    BY <1>30, Going DEF Store, Typed, TypeOK, Workers, Tasks
  <2>2. response' \in [verify : Responses, control : Responses] /\ cache' \in Entries
    BY <1>30, <2>1 DEF Typed, TypeOK, Store, Entries
  <2>. QED  BY <1>30, <2>1, <2>2 DEF Typed, TypeOK, Store, controllerVars, WorkerRest, linkVars
<1>31. CASE Seal
  <2>1. worker.task \in Tasks /\ response.verify \in Responses /\ response.control \in Responses
        /\ session.key \in 0..MaxConnections /\ session.read \in Nat
    BY DEF Typed, TypeOK, Workers, Sessions
  <2>2. worker' \in Workers
    BY <1>31, <2>1, BoundsAssumption DEF Seal, Working, Workers
  <2>3. session' \in Sessions
    BY <1>31 DEF Typed, TypeOK, Seal, Sessions
  <2>. QED  BY <1>31, <2>2, <2>3 DEF Typed, TypeOK, Seal, controllerVars, WorkerRest, linkVars
<1>32. CASE Reply
  <2>1. worker' \in {Resting, [worker EXCEPT !.at = "complete"]}
    BY <1>32 DEF Reply
  <2>2. worker' \in Workers
    BY <2>1, Values DEF Typed, TypeOK, Workers
  <2>3. worker.task.epoch \in 0..sequence /\ worker.answer \in Responses
    BY <1>32 DEF Reply, Typed, Steps, TaskOK, TypeOK, Workers
  <2>4. drops' \in {drops, drops \cup {worker.task.epoch}}
    BY <1>32 DEF Reply
  <2>5. drops' \subseteq 0..sequence /\ outstanding' \in BOOLEAN
    BY <1>32, <2>3, <2>4 DEF Typed, TypeOK, Reply
  <2>6. UNCHANGED <<controller, txn, request, runs, unreadable>> \/ Hears
    BY <1>32 DEF Reply
  <2>7. ASSUME Hears
        PROVE  /\ controller' \in Controllers /\ request' \in Writes \cup {NoRequest}
               /\ runs' \in Nat /\ unreadable' \in BOOLEAN
    <3>1. \/ controller' = [controller EXCEPT !.got = @ + 1]
          \/ controller' = Controller("m2", worker.answer.key, 0, 0)
          \/ controller' = Controller("active", controller.key, 0, 0)
          \/ controller' = Controller("failed", 0, 0, 0)
      BY <2>7 DEF Hears
    <3>2. controller' \in Controllers
      BY <2>3, <3>1, BoundsAssumption DEF Typed, TypeOK, Controllers, Controller, Responses
    <3>3. (request' = NoRequest /\ runs' = 0) \/ UNCHANGED <<request, runs>>
      BY <2>7 DEF Hears
    <3>4. unreadable' \in BOOLEAN
      BY <2>7 DEF Hears
    <3>. QED  BY <3>2, <3>3, <3>4 DEF Typed, TypeOK
  <2>8. /\ controller' \in Controllers /\ request' \in Writes \cup {NoRequest}
        /\ runs' \in Nat /\ unreadable' \in BOOLEAN
    BY <2>6, <2>7 DEF Typed, TypeOK
  <2>9. UNCHANGED <<epoch, sequence, connected, session, response, cache, queue, binder, main, link, links, closing>>
    BY <1>32 DEF Reply, WorkerRest, linkVars
  <2>10. txn' \in {"none", "open", "ran", "refused"}
    BY <1>32
  <2>. QED  BY <2>2, <2>5, <2>8, <2>9, <2>10 DEF Typed, TypeOK
<1>33. CASE CompleteVerify
  <2>1. session' \in Sessions
    BY <1>33 DEF Typed, TypeOK, CompleteVerify, Sessions
  <2>2. response' \in [verify : Responses, control : Responses]
    BY <1>33, Values DEF Typed, TypeOK, CompleteVerify
  <2>. QED  BY <1>33, <2>1, <2>2, Values DEF Typed, TypeOK, CompleteVerify, controllerVars, WorkerRest, linkVars
<1>34. CASE CompleteControl
  <2>1. response' \in [verify : Responses, control : Responses]
    BY <1>34, Values DEF Typed, TypeOK, CompleteControl
  <2>. QED  BY <1>34, <2>1, Values DEF Typed, TypeOK, CompleteControl, controllerVars, WorkerRest, linkVars
<1>35. ASSUME NEW e \in drops, Drop(e) PROVE TypeOK'
  BY <1>35 DEF Typed, TypeOK, Drop, MainRest, controllerVars
<1>36. CASE UNCHANGED vars
  BY <1>36 DEF Typed, TypeOK, vars, accessoryVars, controllerVars, linkVars
<1>. QED
  BY <1>1, <1>2, <1>3, <1>4, <1>5, <1>6, <1>7, <1>8, <1>9, <1>10, <1>11, <1>12, <1>13, <1>14,
     <1>15, <1>16, <1>18, <1>19, <1>20, <1>21, <1>22, <1>23, <1>24, <1>25, <1>26, <1>27, <1>28,
     <1>29, <1>30, <1>31, <1>32, <1>33, <1>34, <1>35, <1>36, <1>37
  DEF Next, Callback, Send, Work, DropPosted, Dropping

-----------------------------------------------------------------------------
\* How a step may change the connection, and which requests are current.
Turn ==
    /\ links' \in {links, links + 1}
    /\ \/ UNCHANGED <<epoch, sequence, link, binder>>
       \/ BumpEpoch
       \/ epoch' = 0 /\ UNCHANGED sequence
       \/ UNCHANGED <<epoch, sequence>> /\ binder = "idle" /\ link = 0
       \/ UNCHANGED <<epoch, sequence>> /\ binder = "idle" /\ link' = 0 /\ binder' = "disconnect"
       \/ UNCHANGED <<epoch, sequence>> /\ binder \in {"clear", "clean"}

\* A task stays what it is: an epoch is new, or what is current stays so.
LEMMA TaskKept == ASSUME TypeOK, NEW t, TaskOK(t), Turn PROVE TaskOK(t)'
  BY DEF TypeOK, TaskOK, BumpEpoch, Turn

LEMMA TasksKept ==
    ASSUME Typed, Turn
    PROVE  /\ queue' = queue => (\A i \in DOMAIN queue : TaskOK(queue[i]))'
           /\ worker.at # "rest" /\ worker'.task = worker.task => TaskOK(worker.task)'
<1>1. ASSUME queue' = queue PROVE (\A i \in DOMAIN queue : TaskOK(queue[i]))'
  <2>1. ASSUME NEW i \in DOMAIN queue PROVE TaskOK(queue[i])'
    <3>1. PICK t : t = queue[i]
      OBVIOUS
    <3>2. TaskOK(t)
      BY <3>1 DEF Typed, Steps
    <3>3. TaskOK(t)'
      BY <3>2, TaskKept DEF Typed
    <3>4. t = queue'[i]
      BY <1>1, <3>1
    <3>. QED  BY <3>3, <3>4 DEF TaskOK
  <2>. QED  BY <1>1, <2>1
<1>2. ASSUME worker.at # "rest", worker'.task = worker.task PROVE TaskOK(worker.task)'
  <2>1. PICK t : t = worker.task
    OBVIOUS
  <2>2. TaskOK(t)
    BY <1>2, <2>1 DEF Typed, Steps
  <2>3. TaskOK(t)'
    BY <2>2, TaskKept DEF Typed
  <2>. QED  BY <1>2, <2>1, <2>3 DEF TaskOK
<1>. QED  BY <1>1, <1>2

LEMMA TailKept ==
    ASSUME Typed, Turn, queue # << >>, queue' = Tail(queue)
    PROVE  (\A i \in DOMAIN queue : TaskOK(queue[i]))'
<1>1. queue \in Seq(Tasks)
  BY DEF Typed, TypeOK, Queues
<1>2. ASSUME NEW i \in DOMAIN queue' PROVE TaskOK(queue[i])'
  <2>1. i + 1 \in DOMAIN queue /\ queue'[i] = queue[i + 1]
    BY <1>1
  <2>2. PICK t : t = queue[i + 1]
    OBVIOUS
  <2>3. TaskOK(t)
    BY <2>1, <2>2 DEF Typed, Steps
  <2>4. TaskOK(t)'
    BY <2>3, TaskKept DEF Typed
  <2>. QED  BY <2>1, <2>2, <2>4 DEF TaskOK
<1>. QED  BY <1>2

\* A step that takes or makes no request.
LEMMA QuietSteps == Typed /\ Turn /\ UNCHANGED <<queue, worker>> => Steps'
  BY TasksKept DEF Typed, Steps, Kinds

\* A step of the worker with its task.
LEMMA WorkSteps ==
    ASSUME Typed, Turn, UNCHANGED queue,
           worker' = Resting \/ (worker.at # "rest" /\ worker'.task = worker.task /\ worker'.at # "rest"),
           Kinds'
    PROVE  Steps'
<1>1. (\A i \in DOMAIN queue : TaskOK(queue[i]))'
  BY TasksKept
<1>2. CASE worker' = Resting
  BY <1>1, <1>2 DEF Steps, Kinds, Resting, Working
<1>3. CASE worker.at # "rest" /\ worker'.task = worker.task /\ worker'.at # "rest"
  <2>1. TaskOK(worker.task)'
    BY <1>3, TasksKept
  <2>. QED  BY <1>1, <1>3, <2>1 DEF Steps, Kinds
<1>. QED  BY <1>2, <1>3

LEMMA StepsStep == ASSUME Typed, [Next]_vars PROVE Steps'
<1>1. CASE LinkUp
  BY <1>1, QuietSteps DEF LinkUp, Turn, CallbackRest, accessoryVars
<1>2. CASE LinkDown
  BY <1>2, QuietSteps DEF LinkDown, Turn, CallbackRest, accessoryVars, ControllerLoses
<1>3. CASE ConnectBumps
  BY <1>3, QuietSteps DEF ConnectBumps, Turn, CallbackRest, linkVars
<1>4. CASE ConnectClears
  BY <1>4, QuietSteps DEF ConnectClears, Turn, CallbackRest, linkVars
<1>5. CASE DisconnectBumps
  BY <1>5, QuietSteps DEF DisconnectBumps, Turn, CallbackRest, linkVars
<1>6. CASE DisconnectCleans
  BY <1>6, QuietSteps DEF DisconnectCleans, Turn, CallbackRest, linkVars
<1>7. CASE HealthDrops
  BY <1>7, QuietSteps DEF HealthDrops, Turn, MainRest
<1>8. CASE DropBumps
  BY <1>8, QuietSteps DEF DropBumps, Turn, MainRest
<1>9. CASE DropForgets
  BY <1>9, QuietSteps DEF DropForgets, Turn, MainRest
<1>10. CASE Cancel
  BY <1>10, QuietSteps DEF Cancel, Turn, MainRest
<1>11. CASE Age
  BY <1>11, QuietSteps DEF Age, Turn, MainRest
<1>12. CASE Restart
  <2>1. Turn
    BY <1>12 DEF Restart, Turn, ControllerLoses
  <2>2. queue' = << >> /\ (worker' = Resting \/ worker' = worker)
    BY <1>12 DEF Restart
  <2>3. worker.at # "rest" /\ worker' = worker => TaskOK(worker.task)'
    BY <2>1, TasksKept
  <2>. QED  BY <2>2, <2>3 DEF Typed, Steps, Kinds, Resting, Working
<1>13. ASSUME NEW t \in Tasks, Dispatch(t), t.epoch = epoch, t.link = link, t.kind # "none",
              t.kind = "write" => t.nonce < MaxFrames /\ t.tid \in Tids /\ t.body \in Bodies
        PROVE  Steps'
  <2>1. /\ queue' \in {Append(queue, t), queue} /\ worker' = worker
        /\ UNCHANGED <<epoch, sequence, link, links, binder>>
        /\ binder = "idle" /\ link # 0
    BY <1>13, Dispatching DEF Typed
  <2>2. TaskOK(t)'
    BY <1>13, <2>1 DEF Typed, TypeOK, Talks, TaskOK
  <2>3. Turn
    BY <2>1 DEF Turn
  <2>4. queue \in Seq(Tasks) /\ DOMAIN queue = 1..Len(queue)
    BY DEF Typed, TypeOK, Queues
  <2>5. (\A i \in DOMAIN queue : TaskOK(queue[i]))'
    <3>1. ASSUME NEW i \in DOMAIN queue' PROVE TaskOK(queue[i])'
      <4>1. CASE i \in DOMAIN queue /\ queue'[i] = queue[i]
        <5>1. PICK q : q = queue[i]
          OBVIOUS
        <5>2. TaskOK(q)
          BY <4>1, <5>1 DEF Typed, Steps
        <5>3. TaskOK(q)'
          BY <2>3, <5>2, TaskKept DEF Typed
        <5>. QED  BY <4>1, <5>1, <5>3 DEF TaskOK
      <4>2. CASE queue'[i] = t
        BY <2>2, <4>2 DEF TaskOK
      <4>. QED  BY <2>1, <2>4, <4>1, <4>2
    <3>. QED  BY <3>1
  <2>6. worker.at # "rest" => TaskOK(worker.task)'
    BY <2>1, <2>3, TasksKept
  <2>. QED  BY <2>1, <2>5, <2>6 DEF Typed, Steps, Kinds
<1>14. CASE VerifyM2
  <2>1. Turn /\ UNCHANGED queue
    BY <1>14 DEF VerifyM2, WorkerRest, linkVars, Turn
  <2>2. worker' = Resting \/ (worker.at # "rest" /\ worker'.task = worker.task /\ worker'.at # "rest")
    BY <1>14 DEF VerifyM2, Typed, TypeOK, Workers, Answers, At
  <2>3. Kinds'
    BY <1>14 DEF VerifyM2, Typed, TypeOK, Workers, Steps, Kinds, Resting, Working, Acknowledges, Answers, At
  <2>. QED  BY <2>1, <2>2, <2>3, WorkSteps
<1>15. CASE VerifyM4
  <2>1. Turn /\ UNCHANGED queue
    BY <1>15 DEF VerifyM4, WorkerRest, linkVars, Turn
  <2>2. worker' = Resting \/ (worker.at # "rest" /\ worker'.task = worker.task /\ worker'.at # "rest")
    BY <1>15 DEF VerifyM4, Typed, TypeOK, Workers, Answers, At
  <2>3. Kinds'
    BY <1>15 DEF VerifyM4, Typed, TypeOK, Workers, Steps, Kinds, Resting, Working, Acknowledges, Answers, At
  <2>. QED  BY <2>1, <2>2, <2>3, WorkSteps
<1>16. CASE Open
  <2>1. Turn /\ UNCHANGED queue
    BY <1>16 DEF Open, WorkerRest, linkVars, Turn
  <2>2. worker' = Resting \/ (worker.at # "rest" /\ worker'.task = worker.task /\ worker'.at # "rest")
    BY <1>16 DEF Open, Typed, TypeOK, Workers, At, Goes
  <2>3. Kinds'
    BY <1>16 DEF Open, Typed, TypeOK, Workers, Steps, Kinds, Resting, Working, Acknowledges, At, Goes
  <2>. QED  BY <2>1, <2>2, <2>3, WorkSteps
<1>17. CASE Authorize
  <2>1. Turn /\ UNCHANGED queue
    BY <1>17 DEF Authorize, WorkerRest, linkVars, Turn
  <2>2. worker' = Resting \/ (worker.at # "rest" /\ worker'.task = worker.task /\ worker'.at # "rest")
    BY <1>17 DEF Authorize, Typed, TypeOK, Workers, At, Goes
  <2>3. Kinds'
    BY <1>17 DEF Authorize, Typed, TypeOK, Workers, Steps, Kinds, Resting, Working, Acknowledges, At, Goes
  <2>. QED  BY <2>1, <2>2, <2>3, WorkSteps
<1>18. CASE Refuse
  <2>1. Turn /\ UNCHANGED queue
    BY <1>18 DEF Refuse, WorkerRest, linkVars, Turn
  <2>2. worker' = Resting \/ (worker.at # "rest" /\ worker'.task = worker.task /\ worker'.at # "rest")
    BY <1>18 DEF Refuse, Typed, TypeOK, Workers, At, Answers
  <2>3. Kinds'
    BY <1>18 DEF Refuse, Typed, TypeOK, Workers, Steps, Kinds, Resting, Working, Acknowledges, At, Answers
  <2>. QED  BY <2>1, <2>2, <2>3, WorkSteps
<1>19. CASE Decide \/ Execute
  <2>1. Turn /\ UNCHANGED queue
    BY <1>19 DEF Decide, Execute, WorkerRest, linkVars, Turn
  <2>2. worker' = Resting \/ (worker.at # "rest" /\ worker'.task = worker.task /\ worker'.at # "rest")
    BY <1>19 DEF Decide, Execute, Typed, TypeOK, Workers, At, Goes
  <2>3. Kinds'
    BY <1>19 DEF Decide, Execute, Typed, TypeOK, Workers, Steps, Kinds, Resting, Working, Acknowledges, At, Goes
  <2>. QED  BY <2>1, <2>2, <2>3, WorkSteps
<1>20. CASE Executed
  <2>1. Turn /\ UNCHANGED queue
    BY <1>20 DEF Executed, WorkerRest, linkVars, Turn
  <2>2. worker' = Resting \/ (worker.at # "rest" /\ worker'.task = worker.task /\ worker'.at # "rest")
    BY <1>20 DEF Executed, Typed, TypeOK, Workers, At, Answers
  <2>3. Kinds'
    BY <1>20 DEF Executed, Typed, TypeOK, Workers, Steps, Kinds, Resting, Working, Acknowledges, At, Answers
  <2>. QED  BY <2>1, <2>2, <2>3, WorkSteps
<1>21. CASE Check
  <2>1. Turn /\ UNCHANGED queue
    BY <1>21 DEF Check, WorkerRest, linkVars, Turn
  <2>2. worker' = Resting \/ (worker.at # "rest" /\ worker'.task = worker.task /\ worker'.at # "rest")
    BY <1>21 DEF Check, Typed, TypeOK, Workers, Goes
  <2>3. Kinds'
    BY <1>21 DEF Check, Typed, TypeOK, Workers, Steps, Kinds, Resting, Working, Acknowledges, Goes
  <2>. QED  BY <2>1, <2>2, <2>3, WorkSteps
<1>22. CASE Store
  <2>1. Turn /\ UNCHANGED queue
    BY <1>22 DEF Store, WorkerRest, linkVars, Turn
  <2>2. worker' = Resting \/ (worker.at # "rest" /\ worker'.task = worker.task /\ worker'.at # "rest")
    BY <1>22 DEF Store, Typed, TypeOK, Workers, Goes
  <2>3. Kinds'
    BY <1>22 DEF Store, Typed, TypeOK, Workers, Steps, Kinds, Resting, Working, Acknowledges, Goes
  <2>. QED  BY <2>1, <2>2, <2>3, WorkSteps
<1>23. CASE Seal
  <2>1. Turn /\ UNCHANGED queue
    BY <1>23 DEF Seal, WorkerRest, linkVars, Turn
  <2>2. worker' = Resting \/ (worker.at # "rest" /\ worker'.task = worker.task /\ worker'.at # "rest")
    BY <1>23 DEF Seal, Typed, TypeOK, Workers, At, Working
  <2>3. Kinds'
    BY <1>23 DEF Seal, Typed, TypeOK, Workers, Steps, Kinds, Resting, Working, Acknowledges, At, Working
  <2>. QED  BY <2>1, <2>2, <2>3, WorkSteps
<1>24. CASE Reply
  <2>1. Turn /\ UNCHANGED queue
    BY <1>24 DEF Reply, WorkerRest, linkVars, Turn
  <2>2. worker' = Resting \/ (worker.at # "rest" /\ worker'.task = worker.task /\ worker'.at # "rest")
    BY <1>24 DEF Reply, Typed, TypeOK, Workers
  <2>3. Kinds'
    BY <1>24 DEF Reply, Typed, TypeOK, Workers, Tasks, Steps, TaskOK, Kinds, Resting, Working, Acknowledges
  <2>. QED  BY <2>1, <2>2, <2>3, WorkSteps
<1>25. CASE CompleteVerify
  <2>1. Turn /\ UNCHANGED queue
    BY <1>25 DEF CompleteVerify, WorkerRest, linkVars, Turn
  <2>2. worker' = Resting \/ (worker.at # "rest" /\ worker'.task = worker.task /\ worker'.at # "rest")
    BY <1>25 DEF CompleteVerify, Typed, TypeOK, Workers, At
  <2>3. Kinds'
    BY <1>25 DEF CompleteVerify, Typed, TypeOK, Workers, Steps, Kinds, Resting, Working, Acknowledges, At
  <2>. QED  BY <2>1, <2>2, <2>3, WorkSteps
<1>26. CASE CompleteControl
  <2>1. Turn /\ UNCHANGED queue
    BY <1>26 DEF CompleteControl, WorkerRest, linkVars, Turn
  <2>2. worker' = Resting \/ (worker.at # "rest" /\ worker'.task = worker.task /\ worker'.at # "rest")
    BY <1>26 DEF CompleteControl, Typed, TypeOK, Workers, At
  <2>3. Kinds'
    BY <1>26 DEF CompleteControl, Typed, TypeOK, Workers, Steps, Kinds, Resting, Working, Acknowledges, At
  <2>. QED  BY <2>1, <2>2, <2>3, WorkSteps
<1>27. ASSUME NEW e \in drops, Drop(e) PROVE Steps'
  BY <1>27, QuietSteps DEF Drop, Turn, MainRest
<1>28. CASE UNCHANGED vars
  BY <1>28, QuietSteps DEF vars, Turn, accessoryVars, linkVars
<1>30. CASE SendM1
  BY <1>13, <1>30, PlainTask DEF SendM1, Typed
<1>31. CASE SendM3
  BY <1>13, <1>31, PlainTask DEF SendM3, Typed
<1>32. CASE ReadVerify
  BY <1>13, <1>32, PlainTask DEF ReadVerify, Typed
<1>33. CASE ReadControl
  BY <1>13, <1>33, PlainTask DEF ReadControl, Typed
<1>34. ASSUME NEW r \in Writes, SendFrame(r) PROVE Steps'
  <2>. DEFINE t == Task("write", r[1], r[2], controller.key, controller.sent)
  <2>1. /\ t \in Tasks /\ t.epoch = epoch /\ t.link = link /\ t.kind = "write"
        /\ t.nonce < MaxFrames /\ t.tid \in Tids /\ t.body \in Bodies
    BY <1>34, BoundsAssumption DEF Typed, TypeOK, SendFrame, Controllers, Task, Tasks, Writes
  <2>2. Dispatch(t)
    BY <1>34 DEF SendFrame
  <2>. HIDE DEF t
  <2>. QED  BY <1>13, <2>1, <2>2
<1>35. ASSUME NEW r \in Writes, Write(r) PROVE Steps'
  BY <1>34, <1>35 DEF Write
<1>36. CASE Rewrite
  BY <1>34, <1>36 DEF Rewrite, Typed, TypeOK, Talks
<1>37. CASE Take
  <2>1. /\ queue # << >> /\ queue \in Seq(Tasks) /\ queue' = Tail(queue) /\ Turn /\ worker = Resting
        /\ worker' = IF Head(queue).epoch = epoch
                     THEN Working("begin", Head(queue), NoResponse, 0, 0) ELSE Resting
    BY <1>37 DEF Take, Typed, TypeOK, Queues, WorkerRest, linkVars, Turn
  <2>2. (\A i \in DOMAIN queue : TaskOK(queue[i]))'
    BY <2>1, TailKept
  <2>3. CASE worker' = Resting
    BY <2>2, <2>3 DEF Steps, Kinds, Resting, Working
  <2>4. CASE worker' = Working("begin", Head(queue), NoResponse, 0, 0)
    <3>1. PICK t : t = Head(queue)
      OBVIOUS
    <3>2. TaskOK(t)
      BY <2>1, <3>1 DEF Typed, Steps
    <3>3. TaskOK(t)'
      BY <2>1, <3>2, TaskKept DEF Typed
    <3>4. worker'.at = "begin" /\ worker'.task = t
      BY <2>4, <3>1 DEF Working
    <3>5. TaskOK(worker.task)'
      BY <3>3, <3>4 DEF TaskOK
    <3>. QED  BY <2>2, <3>4, <3>5 DEF Steps, Kinds
  <2>. QED  BY <2>1, <2>3, <2>4
<1>38. CASE TakeLate
  <2>1. /\ queue # << >> /\ queue \in Seq(Tasks) /\ queue' = Tail(queue) /\ Turn /\ UNCHANGED worker
    BY <1>38 DEF TakeLate, Typed, TypeOK, Queues, WorkerRest, linkVars, Turn
  <2>2. (\A i \in DOMAIN queue : TaskOK(queue[i]))'
    BY <2>1, TailKept
  <2>. QED  BY <1>38, <2>1, <2>2, TasksKept DEF Typed, Steps, Kinds, TakeLate, Resting, Working
<1>. QED
  BY <1>1, <1>2, <1>3, <1>4, <1>5, <1>6, <1>7, <1>8, <1>9, <1>10, <1>11, <1>12, <1>14,
     <1>15, <1>16, <1>17, <1>18, <1>19, <1>20, <1>21, <1>22, <1>23, <1>24, <1>25, <1>26, <1>27, <1>28,
     <1>30, <1>31, <1>32, <1>33, <1>35, <1>36, <1>37, <1>38
  DEF Next, Callback, Send, Work, DropPosted, Dropping

LEMMA TalksStep ==
    ASSUME Typed, [Next]_vars, Reply => txn' \in {"none", "open", "ran", "refused"}
    PROVE  Talks'
<1>1. CASE Reply
  <2>1. UNCHANGED <<controller, txn, request>> \/ (Hears /\ Current /\ link = worker.task.link)
    BY <1>1 DEF Reply
  <2>2. (link # 0 /\ binder = "idle") \/ UNCHANGED <<controller, txn, request>>
    BY <1>1, <2>1 DEF Typed, Steps, TaskOK, Reply, Current
  <2>3. (Hears /\ txn' # "open") \/ UNCHANGED <<txn, request>>
    <3>1. ASSUME Hears PROVE txn' # "open" \/ UNCHANGED <<txn, request>>
      BY <3>1 DEF Hears, Typed, TypeOK, Workers, Responses
    <3>. QED  BY <2>1, <3>1
  <2>4. UNCHANGED <<link, binder, epoch>>
    BY <1>1 DEF Reply, WorkerRest, linkVars
  <2>. QED  BY <2>2, <2>3, <2>4 DEF Typed, Talks
<1>2. ASSUME NEW t \in Tasks, Dispatch(t), (txn' = "open" => request' # NoRequest) PROVE Talks'
  <2>1. binder = "idle" /\ link # 0 /\ UNCHANGED <<link, binder, epoch>>
    BY <1>2, Dispatching DEF Typed
  <2>. QED  BY <1>2, <2>1 DEF Typed, Talks
<1>3. CASE SendM1
  <2>1. Dispatch(Plainly("m1")) /\ UNCHANGED <<txn, request>>
    BY <1>3 DEF SendM1
  <2>. QED  BY <1>2, <2>1, PlainTask DEF Typed, Talks
<1>4. CASE SendM3
  <2>1. Dispatch(Plainly("m3")) /\ UNCHANGED <<txn, request>>
    BY <1>4 DEF SendM3
  <2>. QED  BY <1>2, <2>1, PlainTask DEF Typed, Talks
<1>5. CASE ReadVerify
  <2>1. Dispatch(Plainly("readVerify")) /\ UNCHANGED <<txn, request>>
    BY <1>5 DEF ReadVerify
  <2>. QED  BY <1>2, <2>1, PlainTask DEF Typed, Talks
<1>6. CASE ReadControl
  <2>1. Dispatch(Plainly("readControl")) /\ UNCHANGED <<txn, request>>
    BY <1>6 DEF ReadControl
  <2>. QED  BY <1>2, <2>1, PlainTask DEF Typed, Talks
<1>7. ASSUME NEW r \in Writes, SendFrame(r), request' = r PROVE Talks'
  <2>. DEFINE t == Task("write", r[1], r[2], controller.key, controller.sent)
  <2>1. t \in Tasks
    BY <1>7, BoundsAssumption DEF Typed, TypeOK, SendFrame, Controllers, Task, Tasks, Writes
  <2>2. Dispatch(t)
    BY <1>7 DEF SendFrame
  <2>3. request' # NoRequest
    BY <1>7, TidsAssumption DEF Writes, NoRequest
  <2>. HIDE DEF t
  <2>. QED  BY <1>2, <2>1, <2>2, <2>3
<1>8. ASSUME NEW r \in Writes, Write(r) PROVE Talks'
  BY <1>7, <1>8 DEF Write
<1>9. CASE Rewrite
  BY <1>7, <1>9 DEF Rewrite, Typed, TypeOK, Talks
<1>10. CASE LinkUp
  BY <1>10 DEF Typed, TypeOK, Talks, LinkUp, controllerVars, accessoryVars
<1>11. CASE LinkDown
  BY <1>11 DEF Typed, Talks, LinkDown, ControllerLoses, Stranger, Controller
<1>12. CASE ConnectBumps
  BY <1>12 DEF Typed, Talks, ConnectBumps, BumpEpoch, TypeOK, controllerVars, linkVars
<1>13. CASE ConnectClears
  BY <1>13 DEF Typed, Talks, ConnectClears, controllerVars, linkVars
<1>14. CASE DisconnectBumps
  BY <1>14 DEF Typed, Talks, DisconnectBumps, BumpEpoch, TypeOK, controllerVars, linkVars
<1>15. CASE DisconnectCleans
  BY <1>15 DEF Typed, Talks, DisconnectCleans, controllerVars, linkVars
<1>16. CASE HealthDrops
  BY <1>16 DEF Typed, Talks, HealthDrops, MainRest, controllerVars
<1>17. CASE DropBumps
  BY <1>17 DEF Typed, Talks, DropBumps, MainRest, BumpEpoch, TypeOK, controllerVars
<1>18. CASE DropForgets
  BY <1>18 DEF Typed, Talks, DropForgets, MainRest, controllerVars
<1>19. CASE Cancel
  BY <1>19 DEF Typed, Talks, Cancel, MainRest, controllerVars
<1>20. CASE Age
  BY <1>20 DEF Typed, Talks, Age, MainRest, controllerVars
<1>21. CASE Restart
  BY <1>21 DEF Typed, Talks, Restart, ControllerLoses, Stranger, Controller
<1>22. CASE Take
  BY <1>22 DEF Typed, Talks, Take, WorkerRest, controllerVars, linkVars
<1>23. CASE TakeLate
  BY <1>23 DEF Typed, Talks, TakeLate, WorkerRest, controllerVars, linkVars
<1>24. CASE VerifyM2
  BY <1>24 DEF Typed, Talks, VerifyM2, WorkerRest, controllerVars, linkVars
<1>25. CASE VerifyM4
  BY <1>25 DEF Typed, Talks, VerifyM4, WorkerRest, controllerVars, linkVars
<1>26. CASE Open
  BY <1>26 DEF Typed, Talks, Open, WorkerRest, controllerVars, linkVars
<1>27. CASE Authorize
  BY <1>27 DEF Typed, Talks, Authorize, WorkerRest, controllerVars, linkVars
<1>28. CASE Refuse
  BY <1>28 DEF Typed, Talks, Refuse, WorkerRest, controllerVars, linkVars
<1>29. CASE Decide \/ Execute
  BY <1>29 DEF Typed, Talks, Decide, Execute, WorkerRest, controllerVars, linkVars
<1>30. CASE Executed
  BY <1>30 DEF Typed, Talks, Executed, WorkerRest, controllerVars, linkVars
<1>31. CASE Check
  BY <1>31 DEF Typed, Talks, Check, WorkerRest, controllerVars, linkVars
<1>32. CASE Store
  BY <1>32 DEF Typed, Talks, Store, WorkerRest, controllerVars, linkVars
<1>33. CASE Seal
  BY <1>33 DEF Typed, Talks, Seal, WorkerRest, controllerVars, linkVars
<1>34. CASE CompleteVerify
  BY <1>34 DEF Typed, Talks, CompleteVerify, WorkerRest, controllerVars, linkVars
<1>35. CASE CompleteControl
  BY <1>35 DEF Typed, Talks, CompleteControl, WorkerRest, controllerVars, linkVars
<1>36. ASSUME NEW e \in drops, Drop(e) PROVE Talks'
  BY <1>36 DEF Drop, MainRest, controllerVars, Typed, Talks
<1>37. CASE UNCHANGED vars
  BY <1>37 DEF vars, accessoryVars, linkVars, controllerVars, Typed, Talks
<1>. QED
  BY <1>1, <1>3, <1>4, <1>5, <1>6, <1>8, <1>9, <1>10, <1>11, <1>12, <1>13, <1>14, <1>15, <1>16, <1>17, <1>18, <1>19, <1>20, <1>21, <1>22, <1>23, <1>24, <1>25, <1>26, <1>27, <1>28, <1>29, <1>30, <1>31, <1>32, <1>33, <1>34, <1>35, <1>36, <1>37
  DEF Next, Callback, Send, Work, DropPosted, Dropping

LEMMA TypedInit == Init => Typed
<1>. SUFFICES ASSUME Init PROVE Typed
  OBVIOUS
<1>1. TypeOK
  <2>1. /\ sequence \in Nat /\ epoch \in 0..sequence /\ links \in 0..MaxConnections /\ link \in {0, links}
        /\ runs \in Nat /\ drops \subseteq 0..sequence
    BY BoundsAssumption DEF Init
  <2>2. /\ connected \in BOOLEAN /\ closing \in BOOLEAN /\ ~closing /\ outstanding \in BOOLEAN
        /\ unreadable \in BOOLEAN
    BY DEF Init
  <2>3. queue \in Queues
    BY DEF Init, Queues
  <2>4. /\ session \in Sessions /\ response \in [verify : Responses, control : Responses]
        /\ cache \in Entries /\ worker \in Workers /\ controller \in Controllers
        /\ request \in Writes \cup {NoRequest}
    BY Values DEF Init
  <2>5. /\ binder \in {"idle", "connect", "clear", "disconnect", "clean"}
        /\ main \in {"idle", "bump", "forget", "cancel"}
        /\ txn \in {"none", "open", "ran", "refused"}
    BY DEF Init
  <2>. QED  BY <2>1, <2>2, <2>3, <2>4, <2>5 DEF TypeOK
<1>2. Talks
  BY DEF Init, Talks, Stranger, Controller
<1>3. Steps
  BY DEF Init, Steps, Kinds, Resting, Working
<1>. QED  BY <1>1, <1>2, <1>3 DEF Typed

-----------------------------------------------------------------------------
(* Where the controller's outstanding request is. *)

\* The worker has it ...
Serving == worker.at \notin {"rest", "complete"} /\ worker.task.link = link

\* ... or it waits in the queue ...
Asked == {i \in DOMAIN queue : queue[i].link = link}

\* ... or it will not be done: its epoch is over, it expired, or was dropped.
Lost == outstanding /\ ~Serving /\ Asked = {}

\* It is not begun, or the worker is at one of the steps with it.
Waiting(kind) == \/ \E i \in Asked : queue[i].kind = kind
                 \/ Serving /\ worker.at = "begin" /\ worker.task.kind = kind
Doing(kind, steps) == Serving /\ worker.task.kind = kind /\ worker.at \in steps

\* There is one at most.
Alone ==
    /\ \A i, j \in Asked : i = j
    /\ Asked # {} \/ Serving => outstanding
    /\ Asked = {} \/ ~Serving
    /\ outstanding => controller.phase \in {"m1", "m3", "active", "failed"}

\* It is what the controller has sent.
Fits(t) ==
    /\ t.kind = "m1" => controller.phase = "m1"
    /\ t.kind = "m3" => controller.phase = "m3" /\ t.key = link
    /\ t.kind = "readVerify" => controller.phase \in {"m1", "m3"}
    /\ t.kind = "write" => /\ controller.phase = "active" /\ txn = "open" /\ t.key = link
                           /\ t.nonce + 1 = controller.sent
                           /\ request = <<t.tid, t.body>>
    /\ t.kind = "readControl" => controller.phase \in {"active", "failed"} /\ txn = "open"

Fit == /\ \A i \in Asked : Fits(queue[i])
       /\ Serving => Fits(worker.task)

\* What the controller has done before its session is active.
Early ==
    /\ controller.phase \in {"new", "m1", "m2", "m3"} =>
          txn = "none" /\ runs = 0 /\ controller.sent = 0 /\ controller.got = 0
    /\ controller.phase \in {"m2", "m3", "active"} => controller.key = link

\* A request of an earlier connection can only be with the worker until the
\* connection's own M1 is begun.
Old == worker.at # "rest" /\ link # 0 /\ worker.task.link # link
          => controller.phase = "new" \/ Waiting("m1") \/ Lost

\* The session need not be the connection's own.
Fresh == controller.phase \in {"new", "failed"} \/ Waiting("m1") \/ Lost

Forgotten == session = NoSession /\ (main = "cancel" \/ closing)

\* The session is the controller's, up to what is under way.
Verified ==
    /\ session.key = link /\ session.of = link
    /\ controller.phase \in {"m1", "m2"} \/ Waiting("m3") => session.stage = "m2"
    /\ controller.phase = "m3" /\ ~Waiting("m3") =>
          session.stage = "m4" /\ ~(worker.at = "complete" /\ worker.task.kind = "readVerify")
    /\ controller.phase = "active" =>
          \/ session.stage = "active"
          \/ session.stage = "m4" /\ worker.at = "complete" /\ worker.task.kind = "readVerify"
    /\ session.wrote + (IF Waiting("write") THEN 1 ELSE 0) = controller.sent
    /\ session.read = controller.got + (IF Doing("readControl", {"reply"}) THEN 1 ELSE 0)

SessionOK == ~Fresh => Forgotten \/ Verified

\* M2 carries the key of the connection.
OwnKey == controller.phase = "m1" /\ ~Fresh =>
    /\ Doing("m1", {"check", "store"}) => worker.answer.key = link
    /\ Doing("readVerify", {"reply"}) /\ worker.answer.what = "m2" => worker.answer.key = link
    /\ response.verify.what = "m2" => response.verify.key = link \/ Doing("m1", {"check", "store"})

\* The answer of the open transaction.
Fitting(a) == /\ a.tid = request[1]
              /\ \/ a.what = "ran" /\ runs = 1
                 \/ a.what = "refused" /\ runs = 0

\* A write that is under way has run or not.
Underway ==
    /\ Doing("write", {"decide", "run"}) => runs = 0
    /\ Doing("write", {"execute"}) => runs = 1
    /\ Doing("write", {"check", "store"}) => Fitting(worker.answer)

\* An answer that is sealed is that of the transaction, with the next nonce;
\* and it is sealed as long as there is a session.
Sealed == Doing("readControl", {"reply"}) /\ controller.phase = "active" =>
    /\ worker.key # 0 => /\ worker.key = link /\ worker.nonce = controller.got
                         /\ Fitting(worker.answer)
    /\ session # NoSession => worker.key # 0 /\ worker.answer = response.control

\* The replay cache has the outcome of the open transaction; or that is
\* written for the first time, and the cache has nothing that it could be
\* mistaken for, or is just about to be cleared; or it is being written.
Kept == cache = [body |-> request[2], response |-> response.control] /\ Fitting(response.control)

Clearing == /\ worker.at = "complete" /\ worker.task.kind = "readControl"
            /\ cache.response.tid = worker.answer.tid

First == runs = 0 /\ (cache.response.tid # request[1] \/ cache.body # request[2] \/ Clearing)

Outcomes == ~Fresh /\ session # NoSession =>
    /\ controller.phase # "active" => cache = NoEntry
    /\ txn # "open" => cache = NoEntry \/ Clearing
    /\ txn = "open" =>
         \/ Kept /\ ~(worker.at = "complete" /\ worker.task.kind = "readControl")
         \/ (Waiting("write") \/ Doing("write", {"authorize"})) /\ First
         \/ Doing("write", {"decide", "run", "execute", "check", "store"})

\* A frame that was opened was opened in the session that there is.
InSession == worker.at \in {"authorize", "decide", "run"} =>
    session = NoSession \/ (Active /\ session.key = worker.task.key)

Requests == Alone /\ Fit /\ Early /\ Old
Ends == SessionOK /\ OwnKey /\ Underway /\ Sealed /\ Outcomes
IInv == Typed /\ Requests /\ InSession /\ Ends

-----------------------------------------------------------------------------
(* How a step moves the request. *)

\* Nothing moves.
LEMMA SameView ==
    ASSUME UNCHANGED <<queue, worker, link, outstanding>>
    PROVE  /\ Serving' <=> Serving
           /\ Asked' = Asked
           /\ Lost' <=> Lost
           /\ \A k : Waiting(k)' <=> Waiting(k)
           /\ \A k, s : Doing(k, s)' <=> Doing(k, s)
<1>1. (Serving' <=> Serving) /\ Asked' = Asked
  BY DEF Serving, Asked
<1>. QED  BY <1>1 DEF Lost, Waiting, Doing

\* The worker has the request of the connection.
LEMMA Mine ==
    ASSUME Alone, worker.at \notin {"rest", "complete"}, worker.task.link = link
    PROVE  /\ Serving /\ outstanding /\ Asked = {} /\ ~Lost
           /\ \A k : Waiting(k) <=> worker.at = "begin" /\ worker.task.kind = k
<1>1. Serving
  BY DEF Serving
<1>2. outstanding /\ Asked = {}
  BY <1>1 DEF Alone
<1>. QED  BY <1>1, <1>2 DEF Lost, Waiting

\* It goes on with it.
LEMMA MineGoesOn ==
    ASSUME Alone, worker.at \notin {"rest", "complete"}, worker.task.link = link,
           UNCHANGED <<queue, link, outstanding>>, worker'.task = worker.task,
           worker'.at \notin {"rest", "complete", "begin"}
    PROVE  /\ Serving' /\ outstanding' /\ Asked' = {} /\ ~Lost'
           /\ \A k : ~Waiting(k)'
           /\ \A k, s : Doing(k, s)' <=> worker.task.kind = k /\ worker'.at \in s
<1>1. Serving'
  BY DEF Serving
<1>2. outstanding' /\ Asked' = {}
  BY Mine DEF Asked
<1>. QED  BY <1>1, <1>2 DEF Lost, Waiting, Doing

\* It stops, without an answer or with one.
LEMMA MineEnds ==
    ASSUME Alone, worker.at \notin {"rest", "complete"}, worker.task.link = link,
           UNCHANGED <<queue, link>>, worker'.at \in {"rest", "complete"}
    PROVE  /\ ~Serving' /\ Asked' = {} /\ (Lost' <=> outstanding')
           /\ \A k : ~Waiting(k)'
           /\ \A k, s : ~Doing(k, s)'
<1>1. ~Serving'
  BY DEF Serving
<1>2. Asked' = {}
  BY Mine DEF Asked
<1>. QED  BY <1>1, <1>2 DEF Lost, Waiting, Doing

\* The worker has no request of the connection, or is done with it.
LEMMA NotMine ==
    ASSUME ~Serving, UNCHANGED <<queue, link, outstanding>>, ~Serving'
    PROVE  /\ Asked' = Asked
           /\ Lost' <=> Lost
           /\ \A k : Waiting(k)' <=> Waiting(k)
           /\ \A k, s : ~Doing(k, s)'
<1>1. Asked' = Asked
  BY DEF Asked
<1>. QED  BY <1>1 DEF Lost, Waiting, Doing

\* The controller sends.
LEMMA Sent ==
    ASSUME Typed, Alone, NEW t \in Tasks, Dispatch(t), t.link = link
    PROVE  /\ ~Serving /\ Asked = {} /\ ~outstanding /\ ~Lost
           /\ ~Serving' /\ outstanding'
           /\ \/ Lost' /\ Asked' = {} /\ \A k : ~Waiting(k)'
              \/ /\ ~Lost' /\ \A k : Waiting(k)' <=> t.kind = k
                 /\ \E i \in DOMAIN queue' : Asked' = {i} /\ queue'[i] = t
           /\ \A k : ~Waiting(k)
           /\ \A k, s : ~Doing(k, s) /\ ~Doing(k, s)'
<1>1. /\ ~outstanding /\ outstanding' /\ queue' \in {Append(queue, t), queue}
      /\ worker' = worker /\ link' = link
  BY Dispatching DEF Typed
<1>2. ~Serving /\ Asked = {} /\ ~Serving' /\ ~Lost
  BY <1>1 DEF Alone, Serving, Lost
<1>3. /\ \A k : ~Waiting(k)
      /\ \A k, s : ~Doing(k, s) /\ ~Doing(k, s)'
  BY <1>2 DEF Waiting, Doing
<1>4. CASE queue' = queue
  <2>1. Asked' = {}
    BY <1>1, <1>2, <1>4 DEF Asked
  <2>. QED  BY <1>1, <1>2, <1>3, <2>1 DEF Lost, Waiting
<1>5. CASE queue' = Append(queue, t)
  <2>1. queue \in Seq(Tasks)
    BY DEF Typed, TypeOK, Queues
  <2>2. DOMAIN queue' = 1..(Len(queue) + 1) /\ queue'[Len(queue) + 1] = t
    BY <1>5, <2>1
  <2>3. \A i \in DOMAIN queue : queue'[i] = queue[i] /\ queue[i].link # link
    BY <1>2, <1>5, <2>1 DEF Asked
  <2>4. Asked' = {Len(queue) + 1}
    BY <1>1, <2>1, <2>2, <2>3 DEF Asked
  <2>5. Len(queue) + 1 \in DOMAIN queue'
    BY <2>1, <2>2
  <2>6. ~Lost'
    BY <2>4 DEF Lost
  <2>7. \A k : Waiting(k)' <=> t.kind = k
    BY <1>2, <2>2, <2>4 DEF Waiting
  <2>8. \E i \in DOMAIN queue' : Asked' = {i} /\ queue'[i] = t
    BY <2>2, <2>4, <2>5
  <2>. QED  BY <1>1, <1>2, <1>3, <2>6, <2>7, <2>8
<1>. QED  BY <1>1, <1>4, <1>5

\* The head of the queue goes, and it is not a request of the connection ...
LEMMA TailView ==
    ASSUME Typed, queue # << >>, queue' = Tail(queue), UNCHANGED link
    PROVE  /\ \A i \in Asked' : i + 1 \in Asked /\ queue'[i] = queue[i + 1]
           /\ \A i \in Asked : i = 1 \/ (i - 1 \in Asked' /\ queue'[i - 1] = queue[i])
           /\ 1 \in DOMAIN queue /\ Head(queue) = queue[1]
           /\ Asked \subseteq Nat
<1>1. queue \in Seq(Tasks)
  BY DEF Typed, TypeOK, Queues
<1>2. /\ DOMAIN queue = 1..Len(queue) /\ Len(queue) \in Nat /\ Len(queue) # 0
      /\ DOMAIN queue' = 1..(Len(queue) - 1)
      /\ \A i \in DOMAIN queue' : queue'[i] = queue[i + 1]
  BY <1>1
<1>3. \A i \in Asked' : i + 1 \in Asked /\ queue'[i] = queue[i + 1]
  BY <1>2 DEF Asked
<1>4. \A i \in Asked : i = 1 \/ (i - 1 \in Asked' /\ queue'[i - 1] = queue[i])
  BY <1>2 DEF Asked
<1>. QED  BY <1>1, <1>2, <1>3, <1>4 DEF Asked

LEMMA PassesOver ==
    ASSUME Typed, Alone, queue # << >>, queue' = Tail(queue), Head(queue).link # link,
           worker.at = "rest", ~Serving', UNCHANGED <<link, outstanding>>
    PROVE  /\ \A i \in Asked' : \E j \in Asked : queue'[i] = queue[j]
           /\ \A i, j \in Asked' : i = j
           /\ ~Serving /\ (Asked' = {} <=> Asked = {})
           /\ Lost' <=> Lost
           /\ \A k : Waiting(k)' <=> Waiting(k)
<1>1. 1 \notin Asked
  BY TailView DEF Asked
<1>2. /\ \A i \in Asked' : i + 1 \in Asked /\ queue'[i] = queue[i + 1]
      /\ \A i \in Asked : i - 1 \in Asked' /\ queue'[i - 1] = queue[i]
  BY <1>1, TailView
<1>3. \A i, j \in Asked' : i = j
  <2>1. Asked' \subseteq Nat
    <3>1. queue' \in Seq(Tasks)
      BY DEF Typed, TypeOK, Queues
    <3>. QED  BY <3>1 DEF Asked
  <2>. QED  BY <1>2, <2>1 DEF Alone
<1>4. ~Serving
  BY DEF Serving
<1>5. Asked' = {} <=> Asked = {}
  BY <1>2
<1>6. ASSUME NEW k PROVE Waiting(k)' <=> Waiting(k)
  <2>1. ASSUME NEW i \in Asked', queue'[i].kind = k
        PROVE  \E j \in Asked : queue[j].kind = k
    <3>1. i + 1 \in Asked /\ queue[i + 1].kind = k
      BY <1>2, <2>1
    <3>. QED  BY <3>1
  <2>2. ASSUME NEW i \in Asked, queue[i].kind = k
        PROVE  \E j \in Asked' : queue'[j].kind = k
    <3>1. i - 1 \in Asked' /\ queue'[i - 1].kind = k
      BY <1>2, <2>2
    <3>. QED  BY <3>1
  <2>. QED  BY <1>4, <2>1, <2>2 DEF Waiting
<1>. QED  BY <1>2, <1>3, <1>4, <1>5, <1>6 DEF Lost

\* ... or it is the one.
LEMMA TakesMine ==
    ASSUME Typed, Alone, queue # << >>, queue' = Tail(queue), Head(queue).link = link,
           UNCHANGED <<link, outstanding>>, worker.at = "rest"
    PROVE  /\ 1 \in Asked /\ Head(queue) = queue[1] /\ Asked' = {} /\ outstanding /\ ~Serving
           /\ worker'.at = "rest" => Lost' /\ ~Serving' /\ \A k : ~Waiting(k)'
           /\ worker'.at = "begin" /\ worker'.task = Head(queue) =>
                  Serving' /\ ~Lost' /\ \A k : Waiting(k)' <=> Waiting(k)
<1>1. 1 \in Asked /\ Head(queue) = queue[1]
  BY TailView DEF Asked
<1>2. Asked = {1} /\ outstanding /\ ~Serving
  BY <1>1 DEF Alone
<1>3. Asked' = {}
  <2>1. queue' \in Seq(Tasks)
    BY DEF Typed, TypeOK, Queues
  <2>2. \A i \in Asked' : i \in Nat /\ i # 0
    BY <2>1 DEF Asked
  <2>. QED  BY <1>2, <2>2, TailView
<1>4. ASSUME worker'.at = "rest" PROVE Lost' /\ ~Serving' /\ \A k : ~Waiting(k)'
  <2>1. ~Serving'
    BY <1>4 DEF Serving
  <2>. QED  BY <1>2, <1>3, <2>1 DEF Lost, Waiting
<1>5. ASSUME worker'.at = "begin", worker'.task = Head(queue)
      PROVE  Serving' /\ ~Lost' /\ \A k : Waiting(k)' <=> Waiting(k)
  <2>1. Serving'
    BY <1>5 DEF Serving
  <2>2. \A k : Waiting(k) <=> queue[1].kind = k
    BY <1>2 DEF Waiting
  <2>3. \A k : Waiting(k)' <=> worker'.task.kind = k
    BY <1>3, <1>5, <2>1 DEF Waiting
  <2>. QED  BY <1>1, <1>5, <2>1, <2>2, <2>3 DEF Lost
<1>. QED  BY <1>1, <1>2, <1>3, <1>4, <1>5

-----------------------------------------------------------------------------
(* The steps outside of the connection's requests. *)

LEMMA NoEnds ==
    ASSUME Fresh', Serving' => worker'.at = "begin"
    PROVE  Ends'
  BY DEF Ends, SessionOK, OwnKey, Underway, Sealed, Outcomes, Doing

\* The controller has sent nothing in the connection.
LEMMA Blank ==
    ASSUME controller'.phase = "new", ~outstanding', Asked' = {}, ~Serving', Early'
    PROVE  Requests' /\ Ends'
<1>1. Fresh'
  BY DEF Fresh
<1>2. Alone' /\ Fit' /\ Old'
  BY DEF Alone, Fit, Old
<1>. QED  BY <1>1, <1>2, NoEnds DEF Requests

\* The connection begins or ends, or its callback goes on.
LEMMA ConnectionStep ==
    ASSUME Typed, Requests,
           LinkUp \/ LinkDown \/ Callback \/ Restart
    PROVE  Requests' /\ Ends'
<1>1. CASE Callback
  <2>1. /\ binder # "idle"
        /\ UNCHANGED <<queue, worker, link, outstanding, controller, txn, runs>>
    BY <1>1 DEF Callback, ConnectBumps, ConnectClears, DisconnectBumps, DisconnectCleans,
                CallbackRest, controllerVars, linkVars
  <2>2. controller.phase = "new" /\ ~outstanding
    BY <2>1 DEF Typed, Talks, Requests, Alone
  <2>3. Asked' = {} /\ ~Serving'
    BY <2>1, <2>2, SameView DEF Requests, Alone
  <2>4. Early'
    BY <2>1 DEF Requests, Early
  <2>. QED  BY <2>1, <2>2, <2>3, <2>4, Blank
<1>2. CASE LinkDown \/ Restart
  <2>1. ControllerLoses /\ queue' \in {queue, << >>} /\ worker' \in {worker, Resting}
    BY <1>2 DEF LinkDown, Restart, CallbackRest
  <2>2. Asked' = {}
    BY <2>1 DEF ControllerLoses, Asked, Typed, Steps, TaskOK
  <2>4. ~Serving'
    BY <2>1 DEF ControllerLoses, Serving, Resting, Working, Typed, Steps, TaskOK
  <2>3. Early' /\ controller'.phase = "new" /\ ~outstanding'
    BY <2>1 DEF ControllerLoses, Early, Stranger, Controller
  <2>. QED  BY <2>2, <2>3, <2>4, Blank
<1>3. CASE LinkUp
  <2>1. /\ link = 0 /\ link' = links + 1
        /\ UNCHANGED <<queue, worker, outstanding, controller, txn, runs>>
    BY <1>3 DEF LinkUp, CallbackRest, controllerVars
  <2>2. controller.phase = "new" /\ ~outstanding
    BY <2>1 DEF Typed, Talks, Requests, Alone
  <2>3. Asked' = {} /\ ~Serving'
    BY <2>1 DEF Asked, Serving, Typed, TypeOK, Steps, TaskOK
  <2>4. Early'
    BY <2>1, <2>2 DEF Requests, Early
  <2>. QED  BY <2>1, <2>2, <2>3, <2>4, Blank
<1>. QED  BY <1>1, <1>2, <1>3

\* The main thread, or time.
Aside == \/ DropPosted \/ HealthDrops \/ Dropping \/ Age \/ UNCHANGED vars

LEMMA AsideRest ==
    ASSUME Aside
    PROVE  /\ UNCHANGED <<queue, worker, link, outstanding, controller, txn, request, runs,
                          response, unreadable>>
           /\ \/ UNCHANGED <<session, cache>> /\ (main' = main \/ main = "idle" \/ main = "bump") /\ closing' = closing
              \/ UNCHANGED <<session, cache>> /\ closing' = (link # 0)
              \/ session' = NoSession /\ cache' = NoEntry /\ main' = "cancel" /\ closing' = closing
              \/ UNCHANGED <<session, main, closing>> /\ cache' = NoEntry /\ txn # "open"
<1>1. ASSUME NEW e \in drops, Drop(e)
      PROVE  /\ UNCHANGED <<queue, worker, link, outstanding, controller, txn, request, runs,
                            response, unreadable, session, cache, closing>>
             /\ main = "idle"
  BY <1>1 DEF Drop, MainRest, controllerVars
<1>2. CASE HealthDrops \/ DropBumps
  BY <1>2 DEF HealthDrops, DropBumps, MainRest, controllerVars
<1>3. CASE DropForgets
  BY <1>3 DEF DropForgets, MainRest, controllerVars
<1>4. CASE Cancel
  BY <1>4 DEF Cancel, MainRest, controllerVars
<1>5. CASE Age
  BY <1>5 DEF Age, MainRest, controllerVars
<1>6. CASE UNCHANGED vars
  BY <1>6 DEF vars, accessoryVars, controllerVars, linkVars
<1>. QED  BY <1>1, <1>2, <1>3, <1>4, <1>5, <1>6 DEF Aside, DropPosted, Dropping

LEMMA AsideStep ==
    ASSUME Typed, Requests, Ends, Aside
    PROVE  Requests' /\ Ends'
<1>1. /\ UNCHANGED <<queue, worker, link, outstanding, controller, txn, request, runs, response>>
      /\ Serving' <=> Serving
      /\ Asked' = Asked
      /\ Lost' <=> Lost
      /\ \A k : Waiting(k)' <=> Waiting(k)
      /\ \A k, s : Doing(k, s)' <=> Doing(k, s)
  BY AsideRest, SameView
<1>2. Requests'
  BY <1>1 DEF Requests, Alone, Fit, Fits, Early, Old
<1>3. Fresh' <=> Fresh
  BY <1>1 DEF Fresh
<1>4. OwnKey' /\ Underway'
  BY <1>1, <1>3 DEF Ends, OwnKey, Underway, Fitting
<1>5. session' = session \/ session' = NoSession
  BY AsideRest
<1>6. Sealed'
  BY <1>1, <1>5 DEF Ends, Sealed, Fitting
<1>7. session' # NoSession => cache' = cache \/ (cache' = NoEntry /\ txn # "open")
  BY AsideRest
<1>8. Outcomes'
  <2>1. CASE session' = NoSession
    BY <2>1 DEF Outcomes
  <2>2. CASE session' # NoSession /\ cache' = cache
    BY <1>1, <1>3, <1>5, <2>2 DEF Ends, Outcomes, Kept, Fitting, First, Clearing
  <2>3. CASE session' # NoSession /\ cache' = NoEntry /\ txn # "open"
    BY <1>1, <2>3 DEF Outcomes
  <2>. QED  BY <1>7, <2>1, <2>2, <2>3
<1>9. SessionOK'
  <2>. SUFFICES ASSUME ~Fresh' PROVE Forgotten' \/ Verified'
    BY DEF SessionOK
  <2>1. Forgotten \/ Verified
    BY <1>3 DEF Ends, SessionOK
  <2>2. link # 0
    BY <1>3 DEF Fresh, Typed, Talks
  <2>3. CASE session' = session
    <3>1. Forgotten => Forgotten'
      BY <2>2, <2>3, AsideRest DEF Forgotten
    <3>2. Verified => Verified'
      BY <1>1, <2>3 DEF Verified
    <3>. QED  BY <2>1, <3>1, <3>2
  <2>4. CASE session' # session
    BY <2>4, AsideRest DEF Forgotten
  <2>. QED  BY <2>3, <2>4
<1>. QED  BY <1>2, <1>4, <1>6, <1>8, <1>9 DEF Ends

LEMMA InSessionStep == ASSUME Typed, InSession, [Next]_vars PROVE InSession'
<1>1. CASE LinkUp
  BY <1>1 DEF InSession, Active, LinkUp, accessoryVars, CallbackRest
<1>2. CASE LinkDown
  BY <1>2 DEF InSession, Active, LinkDown, accessoryVars, CallbackRest
<1>3. CASE ConnectBumps
  BY <1>3 DEF InSession, Active, ConnectBumps, CallbackRest, Typed, TypeOK, Workers
<1>4. CASE ConnectClears
  BY <1>4 DEF InSession, Active, ConnectClears, CallbackRest, Typed, TypeOK, Workers
<1>5. CASE DisconnectBumps
  BY <1>5 DEF InSession, Active, DisconnectBumps, CallbackRest, Typed, TypeOK, Workers
<1>6. CASE DisconnectCleans
  BY <1>6 DEF InSession, Active, DisconnectCleans, CallbackRest, Typed, TypeOK, Workers
<1>7. CASE Restart
  BY <1>7 DEF InSession, Active, Restart, Resting, Working, Typed, TypeOK, Workers
<1>8. CASE Take
  BY <1>8 DEF InSession, Active, Take, Working, Resting, Typed, TypeOK, Workers
<1>9. CASE TakeLate
  BY <1>9 DEF InSession, Active, TakeLate, Typed, TypeOK, Workers
<1>10. CASE VerifyM2
  BY <1>10 DEF InSession, Active, VerifyM2, At, Answers, Typed, TypeOK, Workers
<1>11. CASE VerifyM4
  BY <1>11 DEF InSession, Active, VerifyM4, At, Answers, Typed, TypeOK, Workers
<1>12. CASE Open
  BY <1>12 DEF InSession, Active, Open, At, Goes, Sessions, Typed, TypeOK, Workers
<1>13. CASE Authorize
  BY <1>13 DEF InSession, Active, Authorize, At, Goes, Typed, TypeOK, Workers
<1>14. CASE Refuse
  BY <1>14 DEF InSession, Active, Refuse, At, Answers, Typed, TypeOK, Workers
<1>15. CASE Decide \/ Execute
  BY <1>15 DEF InSession, Active, Decide, Execute, At, Goes, Resting, Working, Typed, TypeOK, Workers
<1>16. CASE Executed
  BY <1>16 DEF InSession, Active, Executed, At, Answers, Typed, TypeOK, Workers
<1>17. CASE Check
  BY <1>17 DEF InSession, Active, Check, Goes, Resting, Working, Typed, TypeOK, Workers
<1>18. CASE Store
  BY <1>18 DEF InSession, Active, Store, Goes, Typed, TypeOK, Workers
<1>19. CASE Seal
  BY <1>19 DEF InSession, Active, Seal, Working, Typed, TypeOK, Workers
<1>20. CASE Reply
  BY <1>20 DEF InSession, Active, Reply, Resting, Working, Typed, TypeOK, Workers
<1>21. CASE CompleteVerify
  BY <1>21 DEF InSession, Active, CompleteVerify, Resting, Working, Typed, TypeOK, Workers
<1>22. CASE CompleteControl
  BY <1>22 DEF InSession, Active, CompleteControl, Resting, Working, Typed, TypeOK, Workers
<1>23. CASE Aside
  <2>1. UNCHANGED worker /\ session' \in {session, NoSession}
    BY <1>23, AsideRest
  <2>. QED  BY <2>1 DEF InSession, Active
<1>24. ASSUME NEW t, Dispatch(t) PROVE InSession'
  BY <1>24 DEF Dispatch, InSession, Active, accessoryVars
<1>25. CASE Send
  BY <1>24, <1>25 DEF Send, SendM1, SendM3, ReadVerify, Rewrite, ReadControl, Write, SendFrame
<1>. QED
  BY <1>1, <1>2, <1>3, <1>4, <1>5, <1>6, <1>7, <1>8, <1>9, <1>10, <1>11, <1>12, <1>13, <1>14, <1>15, <1>16, <1>17, <1>18, <1>19, <1>20, <1>21, <1>22, <1>23, <1>25
  DEF Next, Callback, Work, Aside

-----------------------------------------------------------------------------
(* The controller's requests. *)

LEMMA SentRequests ==
    ASSUME Typed, Requests, NEW t \in Tasks, Dispatch(t), t.link = link, Fits(t)', Early',
           controller'.phase \in {"m1", "m3", "active", "failed"},
           controller.phase = "new" => t.kind = "m1"
    PROVE  Requests'
<1>. USE DEF Requests
<1>1. UNCHANGED <<link, worker>>
  BY Dispatching DEF Typed
<1>2. Alone'
  BY Sent DEF Alone
<1>3. Fit'
  BY Sent DEF Fit, Fits
<1>4. Old'
  BY <1>1, Sent DEF Old
<1>. QED  BY <1>2, <1>3, <1>4

\* What an agreed connection stays while the controller sends.
LEMMA SentEnds ==
    ASSUME Typed, Requests, Ends, NEW t \in Tasks, Dispatch(t), t.link = link, t.kind # "m1",
           controller.phase \notin {"new", "failed"}, controller'.phase \notin {"new", "failed"},
           OwnKey', ~Lost' /\ Verified => Verified', ~Lost' /\ session # NoSession => Outcomes'
    PROVE  Ends'
<1>1. CASE Lost'
  BY <1>1, Sent, NoEnds DEF Fresh, Requests
<1>2. CASE ~Lost'
  <2>1. ~Fresh /\ ~Serving'
    BY Sent DEF Fresh, Requests
  <2>2. Underway' /\ Sealed'
    BY <2>1 DEF Underway, Sealed, Doing
  <2>3. UNCHANGED <<session, main, closing>>
    BY Dispatching DEF Typed
  <2>4. SessionOK'
    <3>1. Forgotten \/ Verified
      BY <2>1 DEF Ends, SessionOK
    <3>2. Forgotten => Forgotten'
      BY <2>3 DEF Forgotten
    <3>. QED  BY <1>2, <3>1, <3>2 DEF SessionOK
  <2>5. Outcomes'
    BY <1>2, <2>3 DEF Outcomes
  <2>. QED  BY <2>2, <2>4, <2>5 DEF Ends
<1>. QED  BY <1>1, <1>2

LEMMA SendM1Step == ASSUME Typed, Requests, SendM1 PROVE Requests' /\ Ends'
<1>1. PICK t : t = Plainly("m1")
  OBVIOUS
<1>2. /\ t \in Tasks /\ t.kind = "m1" /\ t.link = link /\ Dispatch(t)
      /\ controller.phase = "new" /\ UNCHANGED <<txn, runs>>
  BY <1>1, PlainTask DEF SendM1, Typed
<1>3. controller'.phase = "m1" /\ controller'.sent = 0 /\ controller'.got = 0
  BY DEF SendM1, Controller
<1>4. Fits(t)' /\ Early'
  BY <1>2, <1>3 DEF Requests, Early, Fits
<1>5. Requests'
  BY <1>2, <1>3, <1>4, SentRequests
<1>6. Fresh' /\ ~Serving'
  BY <1>2, Sent DEF Fresh, Requests
<1>. QED  BY <1>5, <1>6, NoEnds

LEMMA SendM3Step == ASSUME Typed, Requests, Ends, SendM3 PROVE Requests' /\ Ends'
<1>1. PICK t : t = Plainly("m3")
  OBVIOUS
<1>2. /\ t \in Tasks /\ t.kind = "m3" /\ t.link = link /\ t.key = controller.key /\ Dispatch(t)
      /\ controller.phase = "m2" /\ UNCHANGED <<txn, runs>>
  BY <1>1, PlainTask DEF SendM3, Typed
<1>3. /\ controller'.phase = "m3" /\ controller'.sent = 0 /\ controller'.got = 0
      /\ controller'.key = controller.key
  BY DEF SendM3, Controller
<1>4. UNCHANGED <<session, cache, worker, link>>
  BY <1>2, Dispatching DEF Typed
<1>5. Fits(t)' /\ Early'
  BY <1>2, <1>3, <1>4 DEF Requests, Early, Fits
<1>6. Requests'
  BY <1>2, <1>3, <1>5, SentRequests
<1>7. OwnKey'
  BY <1>3 DEF OwnKey
<1>8. ASSUME ~Lost', Verified PROVE Verified'
  <2>1. /\ Waiting("m3")' /\ ~Waiting("write")' /\ ~Doing("readControl", {"reply"})'
        /\ ~Waiting("write") /\ ~Doing("readControl", {"reply"})
    BY <1>2, <1>8, Sent DEF Requests
  <2>2. controller.sent = 0 /\ controller.got = 0
    BY <1>2 DEF Requests, Early
  <2>. QED  BY <1>2, <1>3, <1>4, <1>8, <2>1, <2>2 DEF Verified
<1>9. ASSUME ~Lost', session # NoSession PROVE Outcomes'
  <2>1. ~Fresh
    BY <1>2, Sent DEF Fresh, Requests
  <2>. QED  BY <1>2, <1>3, <1>4, <1>9, <2>1 DEF Ends, Outcomes, Requests, Early
<1>. QED  BY <1>2, <1>3, <1>6, <1>7, <1>8, <1>9, SentEnds

LEMMA ReadVerifyStep == ASSUME Typed, Requests, Ends, ReadVerify PROVE Requests' /\ Ends'
<1>1. PICK t : t = Plainly("readVerify")
  OBVIOUS
<1>2. /\ t \in Tasks /\ t.kind = "readVerify" /\ t.link = link /\ Dispatch(t)
      /\ controller.phase \in {"m1", "m3"} /\ UNCHANGED <<controller, txn, request, runs>>
  BY <1>1, PlainTask DEF ReadVerify, Typed
<1>3. UNCHANGED <<session, response, cache, worker, link>>
  BY <1>2, Dispatching DEF Typed
<1>4. Fits(t)' /\ Early'
  BY <1>2, <1>3 DEF Requests, Early, Fits
<1>5. Requests'
  BY <1>2, <1>4, SentRequests
<1>6. ~Fresh
  BY <1>2, Sent DEF Fresh, Requests
<1>7. \A k, s : ~Doing(k, s) /\ ~Doing(k, s)'
  BY <1>2, Sent DEF Requests
<1>8. OwnKey'
  BY <1>2, <1>3, <1>6, <1>7 DEF Ends, OwnKey
<1>9. ASSUME ~Lost', Verified PROVE Verified'
  <2>1. ~Waiting("m3")' /\ ~Waiting("write")' /\ ~Waiting("m3") /\ ~Waiting("write")
    BY <1>2, <1>9, Sent DEF Requests
  <2>. QED  BY <1>2, <1>3, <1>7, <1>9, <2>1 DEF Verified
<1>10. ASSUME ~Lost', session # NoSession PROVE Outcomes'
  BY <1>2, <1>3, <1>6, <1>10 DEF Ends, Outcomes, Requests, Early
<1>. QED  BY <1>2, <1>5, <1>8, <1>9, <1>10, SentEnds

LEMMA ReadControlStep == ASSUME Typed, Requests, Ends, ReadControl PROVE Requests' /\ Ends'
<1>1. PICK t : t = Plainly("readControl")
  OBVIOUS
<1>2. /\ t \in Tasks /\ t.kind = "readControl" /\ t.link = link /\ Dispatch(t)
      /\ txn = "open" /\ UNCHANGED <<controller, txn, request, runs>>
  BY <1>1, PlainTask DEF ReadControl, Typed
<1>3. UNCHANGED <<session, response, cache, worker, link>>
  BY <1>2, Dispatching DEF Typed
<1>4. controller.phase \in {"active", "failed"}
  BY <1>2 DEF Typed, TypeOK, Controllers, Requests, Early
<1>5. Fits(t)' /\ Early'
  BY <1>2, <1>3, <1>4 DEF Requests, Early, Fits
<1>6. Requests'
  BY <1>2, <1>4, <1>5, SentRequests
<1>7. CASE controller.phase = "failed"
  <2>1. Fresh' /\ ~Serving'
    BY <1>2, <1>7, Sent DEF Fresh, Requests
  <2>. QED  BY <1>6, <2>1, NoEnds
<1>8. CASE controller.phase = "active"
  <2>1. ~Fresh
    BY <1>2, <1>8, Sent DEF Fresh, Requests
  <2>2. \A k, s : ~Doing(k, s) /\ ~Doing(k, s)'
    BY <1>2, Sent DEF Requests
  <2>3. OwnKey'
    BY <1>2, <1>8 DEF OwnKey
  <2>4. ~Waiting("m3")' /\ ~Waiting("write")' /\ ~Waiting("m3") /\ ~Waiting("write")
    BY <1>2, Sent DEF Requests
  <2>5. Verified => Verified'
    BY <1>2, <1>3, <1>8, <2>2, <2>4 DEF Verified
  <2>6. ASSUME session # NoSession PROVE Outcomes'
    <3>1. Kept /\ ~(worker.at = "complete" /\ worker.task.kind = "readControl")
      BY <1>2, <2>1, <2>2, <2>4, <2>6 DEF Ends, Outcomes
    <3>2. Kept'
      BY <1>2, <1>3, <3>1 DEF Kept, Fitting
    <3>. QED  BY <1>2, <1>3, <1>8, <3>1, <3>2 DEF Outcomes
  <2>. QED  BY <1>2, <1>6, <1>8, <2>3, <2>5, <2>6, SentEnds
<1>. QED  BY <1>4, <1>7, <1>8

LEMMA SendFrameStep ==
    ASSUME Typed, Requests, Ends, NEW r \in Writes, SendFrame(r),
           \/ r # request /\ txn' = "open" /\ request' = r /\ runs' = 0
           \/ r = request /\ txn = "open" /\ UNCHANGED <<txn, request, runs>>
    PROVE  Requests' /\ Ends'
<1>1. PICK t : t = Task("write", r[1], r[2], controller.key, controller.sent)
  OBVIOUS
<1>2. /\ t \in Tasks /\ t.kind = "write" /\ t.link = link /\ t.key = controller.key
      /\ t.nonce = controller.sent /\ r = <<t.tid, t.body>>
  BY <1>1, BoundsAssumption DEF Typed, TypeOK, SendFrame, Controllers, Task, Tasks, Writes
<1>3. /\ Dispatch(t) /\ controller.phase = "active"
      /\ controller' = [controller EXCEPT !.sent = @ + 1]
  BY <1>1 DEF SendFrame
<1>4. UNCHANGED <<session, response, cache, worker, link>>
  BY <1>2, <1>3, Dispatching DEF Typed
<1>5. /\ controller'.phase = "active" /\ controller'.sent = controller.sent + 1
      /\ controller'.got = controller.got /\ controller'.key = controller.key
      /\ controller.sent \in Nat
  BY <1>3, BoundsAssumption DEF Typed, TypeOK, Controllers
<1>6. txn' = "open" /\ request' = r
  OBVIOUS
<1>7. Fits(t)' /\ Early'
  BY <1>2, <1>3, <1>4, <1>5, <1>6 DEF Requests, Early, Fits
<1>8. Requests'
  BY <1>2, <1>3, <1>5, <1>7, SentRequests
<1>9. OwnKey'
  BY <1>5 DEF OwnKey
<1>10. ~Fresh /\ ~Waiting("write") /\ \A k, s : ~Doing(k, s) /\ ~Doing(k, s)'
  BY <1>2, <1>3, Sent DEF Fresh, Requests
<1>11. ASSUME ~Lost' PROVE Waiting("write")' /\ ~Waiting("m3")'
  BY <1>2, <1>3, <1>11, Sent DEF Requests
<1>12. ASSUME ~Lost', Verified PROVE Verified'
  <2>1. session.wrote = controller.sent /\ session.wrote + 1 = controller'.sent
    BY <1>5, <1>10, <1>12 DEF Verified, Typed, TypeOK, Sessions
  <2>. QED  BY <1>3, <1>4, <1>5, <1>10, <1>11, <1>12, <2>1 DEF Verified
<1>13. ASSUME ~Lost', session # NoSession PROVE Outcomes'
  <2>1. CASE r # request /\ txn' = "open" /\ request' = r /\ runs' = 0
    <3>1. r[1] \in Tids /\ r[1] # 0
      BY TidsAssumption DEF Writes
    <3>2. Kept \/ cache = NoEntry \/ Clearing
      BY <1>10, <1>13 DEF Ends, Outcomes
    <3>3. CASE Kept
      <4>1. cache.response.tid = request[1] /\ cache.body = request[2]
        BY <3>3 DEF Kept, Fitting
      <4>2. r[1] # request[1] \/ r[2] # request[2]
        BY <2>1 DEF Writes, NoRequest, Typed, TypeOK
      <4>. QED  BY <1>4, <1>5, <1>11, <1>13, <2>1, <4>1, <4>2 DEF Outcomes, First
    <3>4. CASE cache = NoEntry
      <4>1. cache.response.tid = 0
        BY <3>4 DEF NoEntry, NoResponse, Response
      <4>. QED  BY <1>4, <1>5, <1>11, <1>13, <2>1, <3>1, <4>1 DEF Outcomes, First
    <3>5. CASE Clearing
      BY <1>4, <1>5, <1>11, <1>13, <2>1, <3>5 DEF Outcomes, First, Clearing
    <3>. QED  BY <3>2, <3>3, <3>4, <3>5
  <2>2. CASE r = request /\ txn = "open" /\ UNCHANGED <<txn, request, runs>>
    <3>1. Kept /\ ~(worker.at = "complete" /\ worker.task.kind = "readControl")
      BY <1>10, <1>13, <2>2 DEF Ends, Outcomes
    <3>2. Kept'
      BY <1>4, <2>2, <3>1 DEF Kept, Fitting
    <3>. QED  BY <1>4, <1>5, <2>2, <3>1, <3>2 DEF Outcomes
  <2>. QED  BY <2>1, <2>2
<1>. QED  BY <1>2, <1>3, <1>5, <1>8, <1>9, <1>12, <1>13, SentEnds

LEMMA SendStep == ASSUME Typed, Requests, Ends, Send PROVE Requests' /\ Ends'
<1>1. ASSUME NEW r \in Writes, Write(r) PROVE Requests' /\ Ends'
  BY <1>1, SendFrameStep DEF Write
<1>2. CASE Rewrite
  <2>1. request \in Writes /\ SendFrame(request) /\ txn = "open" /\ UNCHANGED <<txn, request, runs>>
    BY <1>2 DEF Rewrite, Typed, TypeOK, Talks
  <2>2. PICK r : r = request
    OBVIOUS
  <2>. QED  BY <2>1, <2>2, SendFrameStep
<1>. QED  BY <1>1, <1>2, SendM1Step, SendM3Step, ReadVerifyStep, ReadControlStep DEF Send

-----------------------------------------------------------------------------
(* The worker's steps. *)

\* With a request of an earlier connection: nothing is agreed yet.
LEMMA OldWork ==
    ASSUME Typed, Requests, worker.at # "rest", worker.task.link # link,
           UNCHANGED <<queue, link, outstanding, controller, txn, request, runs>>,
           worker' = Resting \/ worker'.task = worker.task
    PROVE  Requests' /\ Ends'
<1>1. ~Serving /\ ~Serving'
  BY DEF Serving, Resting, Working
<1>2. /\ Asked' = Asked /\ (Lost' <=> Lost)
      /\ \A k : Waiting(k)' <=> Waiting(k)
  BY <1>1, NotMine
<1>3. Alone' /\ Fit' /\ Early'
  BY <1>1, <1>2 DEF Requests, Alone, Fit, Fits, Early
<1>4. Old'
  BY <1>2 DEF Requests, Old, Resting, Working
<1>5. Fresh'
  BY <1>2 DEF Requests, Old, Typed, Talks, Fresh
<1>. QED  BY <1>1, <1>3, <1>4, <1>5, NoEnds DEF Requests

\* With the connection's request.
LEMMA MineRequests ==
    ASSUME Typed, Requests, worker.at \notin {"rest", "complete"}, worker.task.link = link,
           UNCHANGED <<queue, link, outstanding, controller, txn, request>>, Early',
           \/ worker' = Resting
           \/ worker'.task = worker.task /\ worker'.at \notin {"rest", "begin", "complete"}
    PROVE  Requests'
<1>. USE DEF Requests
<1>1. CASE worker' = Resting
  <2>1. worker'.at = "rest"
    BY <1>1 DEF Resting, Working
  <2>2. Alone' /\ Fit' /\ Old'
    BY <2>1, Mine, MineEnds DEF Alone, Fit, Old
  <2>. QED  BY <2>2
<1>2. CASE worker'.task = worker.task /\ worker'.at \notin {"rest", "begin", "complete"}
  <2>1. Serving /\ Serving' /\ outstanding /\ outstanding' /\ Asked' = {}
    BY <1>2, Mine, MineGoesOn
  <2>2. Alone' /\ Fit' /\ Old'
    BY <1>2, <2>1 DEF Alone, Fit, Fits, Old
  <2>. QED  BY <2>2
<1>. QED  BY <1>1, <1>2

\* It is given up: nothing is known of the ends any more.
LEMMA MineLost ==
    ASSUME Typed, Requests, worker.at \notin {"rest", "complete"}, worker.task.link = link,
           UNCHANGED <<queue, link, outstanding>>, worker'.at \in {"rest", "complete"}
    PROVE  Ends'
<1>1. Lost' /\ ~Serving'
  BY Mine, MineEnds DEF Requests
<1>. QED  BY <1>1, NoEnds DEF Fresh

\* It goes on, and what there is to show of the ends.
LEMMA MineEndsOK ==
    ASSUME Typed, Requests, Ends, worker.at \notin {"rest", "complete"}, worker.task.link = link,
           UNCHANGED <<queue, link, outstanding, controller>>,
           worker'.task = worker.task, worker'.at \notin {"rest", "begin", "complete"},
           ~(worker.at = "begin" /\ worker.task.kind = "m1"), ~Fresh,
           UNCHANGED <<main, closing>>,
           Forgotten => session' = NoSession,
           Verified => Verified', OwnKey', Underway', Sealed', Outcomes'
    PROVE  Ends'
<1>1. Forgotten \/ Verified
  BY DEF Ends, SessionOK
<1>2. Forgotten => Forgotten'
  BY DEF Forgotten
<1>3. SessionOK'
  BY <1>1, <1>2 DEF SessionOK
<1>. QED  BY <1>3 DEF Ends

LEMMA NotFresh ==
    ASSUME Typed, Requests, worker.at \notin {"rest", "complete"}, worker.task.link = link,
           controller.phase \in {"m1", "m2", "m3", "active"},
           ~(worker.at = "begin" /\ worker.task.kind = "m1")
    PROVE  ~Fresh
  BY Mine DEF Requests, Fresh

LEMMA VerifyM2Step == ASSUME Typed, Requests, VerifyM2 PROVE Requests' /\ Ends'
<1>1. /\ worker.at = "begin" /\ worker.task.kind = "m1"
      /\ UNCHANGED <<queue, link, outstanding, controller, txn, request, runs>>
      /\ session' = Session(worker.task.link, "m2", 0, 0, worker.task.link) /\ cache' = NoEntry
  BY DEF VerifyM2, At, controllerVars, WorkerRest, linkVars
<1>2. worker.task.link \in 0..MaxConnections
  BY DEF Typed, TypeOK, Workers, Tasks
<1>3. /\ worker'.at = "check" /\ worker'.task = worker.task
      /\ worker'.answer = Response("m2", 0, worker.task.link)
  BY <1>2, Answering DEF VerifyM2, Typed
<1>4. CASE worker.task.link # link
  BY <1>1, <1>3, <1>4, OldWork
<1>5. CASE worker.task.link = link
  <2>1. Early'
    BY <1>1 DEF Requests, Early
  <2>2. Requests'
    BY <1>1, <1>3, <1>5, <2>1, MineRequests
  <2>3. /\ ~Waiting("m3")' /\ ~Waiting("write")'
        /\ \A k, s : Doing(k, s)' <=> worker.task.kind = k /\ worker'.at \in s
    BY <1>1, <1>3, <1>5, MineGoesOn DEF Requests
  <2>4. controller.phase = "m1" /\ txn = "none" /\ controller.sent = 0 /\ controller.got = 0
    BY <1>1, <1>5, Mine DEF Requests, Fit, Fits, Early
  <2>5. Verified'
    BY <1>1, <1>3, <1>5, <2>3, <2>4 DEF Verified, Session
  <2>6. OwnKey'
    BY <1>1, <1>3, <1>5, <2>3 DEF OwnKey, Response
  <2>7. Underway' /\ Sealed'
    BY <1>1, <2>3 DEF Underway, Sealed
  <2>8. Outcomes'
    BY <1>1, <2>4 DEF Outcomes
  <2>. QED  BY <2>2, <2>5, <2>6, <2>7, <2>8 DEF Ends, SessionOK
<1>. QED  BY <1>4, <1>5

LEMMA VerifyM4Step == ASSUME Typed, Requests, Ends, VerifyM4 PROVE Requests' /\ Ends'
<1>1. /\ worker.at = "begin" /\ worker.task.kind = "m3"
      /\ UNCHANGED <<queue, link, outstanding, controller, txn, request, runs, response, cache, main, closing>>
      /\ Answers("m4", 0, 0) \/ Answers("error", 0, 0)
  BY DEF VerifyM4, At, controllerVars, WorkerRest, linkVars
<1>2. worker'.at = "check" /\ worker'.task = worker.task
  BY <1>1, Answering, BoundsAssumption DEF Typed
<1>3. CASE worker.task.link # link
  BY <1>1, <1>2, <1>3, OldWork
<1>4. CASE worker.task.link = link
  <2>1. Early'
    BY <1>1 DEF Requests, Early
  <2>2. Requests'
    BY <1>1, <1>2, <1>4, <2>1, MineRequests
  <2>3. /\ ~Waiting("m3")' /\ ~Waiting("write")'
        /\ \A k, s : Doing(k, s)' <=> worker.task.kind = k /\ worker'.at \in s
    BY <1>1, <1>2, <1>4, MineGoesOn DEF Requests
  <2>4. Waiting("m3") /\ ~Waiting("write") /\ ~Doing("readControl", {"reply"})
    BY <1>1, <1>4, Mine DEF Requests, Doing
  <2>5. controller.phase = "m3" /\ worker.task.key = link /\ link # 0
    BY <1>1, <1>4, Mine DEF Requests, Fit, Fits, Typed, Talks
  <2>6. ~Fresh
    BY <1>1, <1>4, <2>5, NotFresh
  <2>7. Forgotten => session' = NoSession
    BY DEF Forgotten, VerifyM4
  <2>8. Verified => Verified'
    <3>1. ASSUME Verified PROVE Verified'
      <4>1. session # NoSession /\ session.key = worker.task.key
        BY <2>5, <3>1 DEF Verified, NoSession, Session
      <4>2. session' = [session EXCEPT !.stage = "m4"] /\ session \in Sessions
        BY <4>1 DEF VerifyM4, Typed, TypeOK
      <4>3. /\ session'.stage = "m4" /\ session'.key = session.key /\ session'.of = session.of
            /\ session'.wrote = session.wrote /\ session'.read = session.read
        BY <4>2 DEF Sessions
      <4>. QED  BY <1>1, <1>2, <2>3, <2>4, <2>5, <3>1, <4>3 DEF Verified
    <3>. QED  BY <3>1
  <2>9. OwnKey'
    BY <1>1, <2>5 DEF OwnKey
  <2>10. Underway' /\ Sealed'
    BY <1>1, <2>3 DEF Underway, Sealed
  <2>11. Outcomes'
    <3>1. session' # NoSession => session # NoSession
      BY DEF VerifyM4
    <3>. QED  BY <1>1, <2>1, <2>5, <2>6, <3>1 DEF Ends, Outcomes, Requests, Early
  <2>. QED  BY <1>1, <1>2, <1>4, <2>2, <2>6, <2>7, <2>8, <2>9, <2>10, <2>11, MineEndsOK
<1>. QED  BY <1>3, <1>4

LEMMA OpenStep == ASSUME Typed, Requests, Ends, Open PROVE Requests' /\ Ends'
<1>1. /\ worker.at = "begin" /\ worker.task.kind = "write"
      /\ UNCHANGED <<queue, link, outstanding, controller, txn, request, runs, response, cache, main, closing>>
      /\ Goes("authorize") \/ Goes("reply")
  BY DEF Open, At, controllerVars, WorkerRest, linkVars
<1>2. worker'.at \in {"authorize", "reply"} /\ worker'.task = worker.task
  BY <1>1, Going DEF Typed
<1>3. CASE worker.task.link # link
  BY <1>1, <1>2, <1>3, OldWork
<1>4. CASE worker.task.link = link
  <2>1. Early'
    BY <1>1 DEF Requests, Early
  <2>2. Requests'
    BY <1>1, <1>2, <1>4, <2>1, MineRequests
  <2>3. /\ ~Waiting("m3")' /\ ~Waiting("write")'
        /\ \A k, s : Doing(k, s)' <=> worker.task.kind = k /\ worker'.at \in s
    BY <1>1, <1>2, <1>4, MineGoesOn DEF Requests
  <2>4. Waiting("write") /\ ~Waiting("m3") /\ \A k, s : "begin" \notin s => ~Doing(k, s)
    BY <1>1, <1>4, Mine DEF Requests, Doing
  <2>5. /\ controller.phase = "active" /\ worker.task.key = link /\ link # 0 /\ txn = "open"
        /\ worker.task.nonce + 1 = controller.sent
    BY <1>1, <1>4, Mine DEF Requests, Fit, Fits, Typed, Talks
  <2>6. ~Fresh
    BY <1>1, <1>4, <2>5, NotFresh
  <2>7. Forgotten => session' = NoSession
    BY DEF Forgotten, Open, Active, NoSession, Session
  <2>8. ASSUME Verified
        PROVE  Verified' /\ worker'.at = "authorize"
    <3>1. session \in Sessions /\ worker.task.nonce \in Nat
      BY BoundsAssumption DEF Typed, TypeOK, Workers, Tasks
    <3>2. Active /\ worker.task.key = session.key /\ worker.task.nonce = session.wrote
      BY <1>1, <2>4, <2>5, <2>8, <3>1, BoundsAssumption DEF Verified, Active, Sessions
    <3>3. session' = [session EXCEPT !.wrote = @ + 1] /\ Goes("authorize")
      BY <3>2 DEF Open
    <3>4. /\ session'.stage = session.stage /\ session'.key = session.key /\ session'.of = session.of
          /\ session'.wrote = session.wrote + 1 /\ session'.read = session.read
      BY <3>1, <3>3 DEF Sessions
    <3>5. worker'.at = "authorize"
      BY <3>3, Going DEF Typed
    <3>6. controller.sent = session'.wrote + 0
      BY <2>5, <3>1, <3>2, <3>4, BoundsAssumption DEF Sessions
    <3>. QED  BY <1>1, <1>2, <2>3, <2>4, <2>5, <2>8, <3>2, <3>4, <3>5, <3>6 DEF Verified, Active
  <2>9. OwnKey'
    BY <1>1, <2>5 DEF OwnKey
  <2>10. Underway' /\ Sealed'
    BY <1>1, <1>2, <2>3 DEF Underway, Sealed
  <2>11. Outcomes'
    <3>1. CASE Forgotten
      BY <2>7, <3>1 DEF Outcomes
    <3>2. CASE Verified
      <4>1. session # NoSession /\ worker'.at = "authorize"
        BY <2>5, <2>8, <3>2 DEF Verified, NoSession, Session
      <4>2. Kept \/ First
        BY <2>4, <2>5, <2>6, <4>1 DEF Ends, Outcomes
      <4>3. ~Clearing
        BY <1>1 DEF Clearing
      <4>4. CASE Kept
        BY <1>1, <2>5, <4>1, <4>4 DEF Outcomes, Kept, Fitting
      <4>5. CASE First
        BY <1>1, <2>3, <2>5, <4>1, <4>3, <4>5 DEF Outcomes, First
      <4>. QED  BY <4>2, <4>4, <4>5
    <3>. QED  BY <2>6, <3>1, <3>2 DEF Ends, SessionOK
  <2>. QED  BY <1>1, <1>2, <1>4, <2>2, <2>6, <2>7, <2>8, <2>9, <2>10, <2>11, MineEndsOK
<1>. QED  BY <1>3, <1>4

\* What the worker does with a write that it has opened.
LEMMA MineWrite ==
    ASSUME Typed, Requests, worker.at \notin {"rest", "begin", "complete"},
           worker.task.kind = "write", worker.task.link = link
    PROVE  /\ controller.phase = "active" /\ txn = "open" /\ link # 0 /\ ~Fresh
           /\ request[1] = worker.task.tid /\ request[2] = worker.task.body
           /\ ~Waiting("write") /\ ~Waiting("m3") /\ ~Clearing
           /\ \A k, s : Doing(k, s) <=> worker.task.kind = k /\ worker.at \in s
<1>1. Fits(worker.task) /\ Serving
  BY Mine DEF Requests, Fit
<1>2. controller.phase = "active" /\ txn = "open" /\ request = <<worker.task.tid, worker.task.body>>
  BY <1>1 DEF Fits
<1>3. ~Fresh /\ ~Waiting("write") /\ ~Waiting("m3")
  BY <1>2, NotFresh, Mine DEF Requests
<1>4. link # 0
  BY <1>2 DEF Typed, Talks
<1>. QED  BY <1>1, <1>2, <1>3, <1>4 DEF Doing, Clearing

\* The session stays what it is, or the connection is given up with it.
LEMMA MineWriteOK ==
    ASSUME Typed, Requests, Ends, worker.at \notin {"rest", "begin", "complete"},
           worker.task.kind = "write", worker.task.link = link,
           UNCHANGED <<queue, link, outstanding, controller, session, main, closing>>,
           worker'.task = worker.task, worker'.at \notin {"rest", "begin", "complete"},
           Underway', Outcomes'
    PROVE  Ends'
<1>1. /\ ~Waiting("m3")' /\ ~Waiting("write")'
      /\ \A k, s : Doing(k, s)' <=> worker.task.kind = k /\ worker'.at \in s
  BY MineGoesOn DEF Requests
<1>2. OwnKey' /\ Sealed'
  BY <1>1, MineWrite DEF OwnKey, Sealed
<1>3. Verified => Verified'
  BY <1>1, MineWrite DEF Verified
<1>. QED  BY <1>2, <1>3, MineWrite, MineEndsOK DEF Forgotten

LEMMA AuthorizeStep == ASSUME Typed, Requests, Ends, Authorize PROVE Requests' /\ Ends'
<1>1. /\ worker.at = "authorize" /\ worker.task.kind = "write"
      /\ UNCHANGED <<queue, link, outstanding, controller, txn, request, runs, session, cache, main, closing>>
      /\ Goes("decide") \/ Goes("reply")
  BY DEF Authorize, At, controllerVars, WorkerRest, linkVars
<1>2. worker'.at \in {"decide", "reply"} /\ worker'.task = worker.task
  BY <1>1, Going DEF Typed
<1>3. CASE worker.task.link # link
  BY <1>1, <1>2, <1>3, OldWork
<1>4. CASE worker.task.link = link
  <2>1. Early'
    BY <1>1 DEF Requests, Early
  <2>2. Requests'
    BY <1>1, <1>2, <1>4, <2>1, MineRequests
  <2>3. /\ ~Waiting("m3")' /\ ~Waiting("write")'
        /\ \A k, s : Doing(k, s)' <=> worker.task.kind = k /\ worker'.at \in s
    BY <1>1, <1>2, <1>4, MineGoesOn DEF Requests
  <2>4. /\ controller.phase = "active" /\ txn = "open" /\ link # 0 /\ ~Fresh
        /\ request[1] = worker.task.tid /\ request[2] = worker.task.body
        /\ ~Clearing /\ \A k, s : Doing(k, s) <=> worker.task.kind = k /\ worker.at \in s
    BY <1>1, <1>4, MineWrite
  <2>5. Active => session # NoSession
    BY DEF Active, NoSession, Session
  <2>6. session # NoSession => Active
    BY <1>1, <2>4 DEF Ends, SessionOK, Forgotten, Verified, Active
  <2>7. session # NoSession => Kept \/ First
    BY <1>1, <2>4 DEF Ends, Outcomes
  <2>8. CASE ~Active
    <3>1. worker'.at = "reply" /\ session' = NoSession
      BY <1>1, <2>6, <2>8, Going DEF Authorize, Typed
    <3>2. Underway' /\ Outcomes'
      BY <1>1, <2>3, <3>1 DEF Underway, Outcomes
    <3>. QED  BY <1>1, <1>2, <1>4, <2>2, <3>2, MineWriteOK
  <2>9. CASE Active /\ Replayed
    <3>1. worker'.at = "reply" /\ response' = [response EXCEPT !.control = cache.response]
      BY <2>9, Going DEF Authorize, Typed
    <3>2. ~First
      BY <2>4, <2>9 DEF First, Replayed
    <3>3. Kept
      BY <2>5, <2>7, <2>9, <3>2
    <3>4. response'.control = response.control
      BY <3>1, <3>3 DEF Kept, Typed, TypeOK, Entries
    <3>5. Underway'
      BY <1>1, <2>3, <3>1 DEF Underway
    <3>6. Kept'
      BY <1>1, <3>3, <3>4 DEF Kept, Fitting
    <3>7. Outcomes'
      BY <1>1, <2>4, <3>1, <3>6 DEF Outcomes
    <3>. QED  BY <1>1, <1>2, <1>4, <2>2, <3>5, <3>7, MineWriteOK
  <2>10. CASE Active /\ ~Replayed
    <3>1. worker'.at = "decide"
      BY <2>10, Going DEF Authorize, Typed
    <3>2. ~Kept
      BY <2>4, <2>10 DEF Kept, Fitting, Replayed, Typed, TypeOK, Entries
    <3>3. runs = 0
      BY <2>5, <2>7, <2>10, <3>2 DEF First
    <3>4. Underway'
      BY <1>1, <2>3, <3>1, <3>3 DEF Underway
    <3>5. Outcomes'
      BY <1>1, <2>3, <2>4, <3>1 DEF Outcomes
    <3>. QED  BY <1>1, <1>2, <1>4, <2>2, <3>4, <3>5, MineWriteOK
  <2>. QED  BY <2>8, <2>9, <2>10
<1>. QED  BY <1>3, <1>4

\* A write that is decided on: it runs, or the controller is refused.
LEMMA DecideStep ==
    ASSUME Typed, Requests, Ends, Refuse \/ Decide \/ Execute \/ Executed
    PROVE  Requests' /\ Ends'
<1>1. /\ worker.at \in {"decide", "run", "execute"} /\ worker.task.kind = "write"
      /\ UNCHANGED <<queue, link, outstanding, controller, txn, request, session, response, cache, main, closing>>
      /\ worker.task.link # link => UNCHANGED runs
  BY DEF Refuse, Decide, Execute, Executed, At, controllerVars, WorkerRest, linkVars
<1>2. \/ worker' = Resting
      \/ worker'.at \in {"run", "execute", "check"} /\ worker'.task = worker.task
  <2>1. worker.task.tid \in Tids \cup {0}
    BY DEF Typed, TypeOK, Workers, Tasks
  <2>2. CASE Decide \/ Execute
    <3>1. Goes("run") \/ Goes("execute") \/ worker' = Resting
      BY <2>2 DEF Decide, Execute
    <3>. QED  BY <3>1, Going DEF Typed
  <2>3. CASE Refuse \/ Executed
    BY <2>1, <2>3, Answering, BoundsAssumption DEF Refuse, Executed, Typed
  <2>. QED  BY <2>2, <2>3
<1>3. CASE worker.task.link # link
  BY <1>1, <1>2, <1>3, OldWork
<1>4. CASE worker.task.link = link
  <2>1. controller.phase = "active" /\ txn = "open" /\ request[1] = worker.task.tid
        /\ \A k, s : Doing(k, s) <=> worker.task.kind = k /\ worker.at \in s
    BY <1>1, <1>4, MineWrite
  <2>2. Early'
    BY <1>1, <2>1 DEF Requests, Early
  <2>3. Requests'
    BY <1>1, <1>2, <1>4, <2>2, MineRequests
  <2>4. CASE worker' = Resting
    <3>1. worker'.at = "rest"
      BY <2>4 DEF Resting, Working
    <3>. QED  BY <1>1, <1>4, <2>3, <3>1, MineLost
  <2>5. CASE worker'.at \in {"run", "execute", "check"} /\ worker'.task = worker.task
    <3>1. \A k, s : Doing(k, s)' <=> worker.task.kind = k /\ worker'.at \in s
      BY <1>1, <1>4, <2>5, MineGoesOn DEF Requests
    <3>2. worker.at \in {"decide", "run"} => runs = 0
      BY <1>1, <2>1 DEF Ends, Underway
    <3>3. worker.at = "execute" => runs = 1
      BY <1>1, <2>1 DEF Ends, Underway
    <3>4. Outcomes'
      BY <1>1, <2>1, <2>5, <3>1 DEF Outcomes
    <3>5. worker.task.tid \in Tids \cup {0}
      BY DEF Typed, TypeOK, Workers, Tasks
    <3>6. CASE Refuse
      <4>1. /\ worker.at = "decide" /\ worker'.at = "check" /\ runs' = runs
            /\ worker'.answer = Response("refused", worker.task.tid, 0)
        BY <3>5, <3>6, Answering, BoundsAssumption DEF Refuse, At, Typed, controllerVars
      <4>2. Underway'
        BY <1>1, <2>1, <3>1, <3>2, <4>1 DEF Underway, Fitting, Response
      <4>. QED  BY <1>1, <1>4, <2>3, <2>5, <3>4, <4>2, MineWriteOK
    <3>7. CASE Execute
      <4>1. worker.at = "run" /\ worker'.at = "execute" /\ runs' = runs + 1
        BY <1>4, <2>5, <3>7, Going DEF Execute, At, Typed
      <4>2. Underway'
        BY <3>1, <3>2, <4>1 DEF Underway
      <4>. QED  BY <1>1, <1>4, <2>3, <2>5, <3>4, <4>2, MineWriteOK
    <3>8. CASE Executed
      <4>1. /\ worker.at = "execute" /\ worker'.at = "check" /\ runs' = runs
            /\ worker'.answer = Response("ran", worker.task.tid, 0)
        BY <3>5, <3>8, Answering, BoundsAssumption DEF Executed, At, Typed, controllerVars
      <4>2. Underway'
        BY <1>1, <2>1, <3>1, <3>3, <4>1 DEF Underway, Fitting, Response
      <4>. QED  BY <1>1, <1>4, <2>3, <2>5, <3>4, <4>2, MineWriteOK
    <3>9. CASE Decide
      <4>1. worker.at = "decide" /\ worker'.at = "run" /\ runs' = runs
        BY <2>5, <3>9, Going DEF Decide, At, Typed, Resting, Working, controllerVars
      <4>2. Underway'
        BY <3>1, <3>2, <4>1 DEF Underway
      <4>. QED  BY <1>1, <1>4, <2>3, <2>5, <3>4, <4>2, MineWriteOK
    <3>. QED  BY <3>6, <3>7, <3>8, <3>9
  <2>. QED  BY <1>2, <2>4, <2>5
<1>. QED  BY <1>3, <1>4

LEMMA CheckStep == ASSUME Typed, Requests, Ends, Check PROVE Requests' /\ Ends'
<1>1. /\ worker.at = "check" /\ worker.task.kind \in {"m1", "m3", "write"}
      /\ UNCHANGED <<queue, link, outstanding, controller, txn, request, runs, session, response, cache, main, closing>>
  BY DEF Check, controllerVars, WorkerRest, linkVars, Typed, Steps, Kinds
<1>2. \/ worker' = Resting
      \/ worker'.at = "store" /\ worker'.task = worker.task /\ worker'.answer = worker.answer
  <2>1. Goes("store") \/ worker' = Resting
    BY DEF Check
  <2>. QED  BY <2>1, Going DEF Typed
<1>3. CASE worker.task.link # link
  BY <1>1, <1>2, <1>3, OldWork
<1>4. CASE worker.task.link = link
  <2>1. Early'
    BY <1>1 DEF Requests, Early
  <2>2. Requests'
    BY <1>1, <1>2, <1>4, <2>1, MineRequests
  <2>3. CASE worker' = Resting
    <3>1. worker'.at = "rest"
      BY <2>3 DEF Resting, Working
    <3>. QED  BY <1>1, <1>4, <2>2, <3>1, MineLost
  <2>4. CASE worker'.at = "store" /\ worker'.task = worker.task /\ worker'.answer = worker.answer
    <3>1. /\ \A k : ~Waiting(k)'
          /\ \A k, s : Doing(k, s)' <=> worker.task.kind = k /\ worker'.at \in s
      BY <1>1, <1>4, <2>4, MineGoesOn DEF Requests
    <3>2. /\ \A k : ~Waiting(k)
          /\ \A k, s : Doing(k, s) <=> worker.task.kind = k /\ worker.at \in s
      BY <1>1, <1>4, Mine DEF Requests, Doing
    <3>3. controller.phase \in {"m1", "m3", "active"}
      BY <1>1, <1>4, Mine DEF Requests, Alone, Fit, Fits
    <3>4. ~Fresh
      BY <1>1, <1>4, <3>3, NotFresh
    <3>5. ~Clearing
      BY <1>1 DEF Clearing
    <3>6. Verified => Verified'
      BY <1>1, <2>4, <3>1, <3>2 DEF Verified
    <3>7. OwnKey'
      BY <1>1, <2>4, <3>1, <3>2, <3>4 DEF Ends, OwnKey
    <3>8. Underway' /\ Sealed'
      BY <1>1, <2>4, <3>1, <3>2 DEF Ends, Underway, Sealed, Fitting
    <3>9. Outcomes'
      <4>1. CASE session # NoSession
        BY <1>1, <2>4, <3>1, <3>2, <3>4, <3>5, <4>1 DEF Ends, Outcomes, Kept, Fitting, First
      <4>. QED  BY <1>1, <4>1 DEF Outcomes
    <3>. QED  BY <1>1, <1>4, <2>2, <2>4, <3>4, <3>6, <3>7, <3>8, <3>9, MineEndsOK DEF Forgotten
  <2>. QED  BY <1>2, <2>2, <2>3, <2>4
<1>. QED  BY <1>3, <1>4

LEMMA StoreStep == ASSUME Typed, Requests, Ends, Store PROVE Requests' /\ Ends'
<1>1. /\ worker.at = "store" /\ worker.task.kind \in {"m1", "m3", "write"}
      /\ UNCHANGED <<queue, link, outstanding, controller, txn, request, runs, session, main, closing>>
  BY DEF Store, controllerVars, WorkerRest, linkVars, Typed, Steps, Kinds
<1>2. worker'.at = "reply" /\ worker'.task = worker.task
  BY Going DEF Store, Typed
<1>3. CASE worker.task.link # link
  BY <1>1, <1>2, <1>3, OldWork
<1>4. CASE worker.task.link = link
  <2>1. Early'
    BY <1>1 DEF Requests, Early
  <2>2. Requests'
    BY <1>1, <1>2, <1>4, <2>1, MineRequests
  <2>3. /\ \A k : ~Waiting(k)'
        /\ \A k, s : Doing(k, s)' <=> worker.task.kind = k /\ worker'.at \in s
    BY <1>1, <1>2, <1>4, MineGoesOn DEF Requests
  <2>4. /\ \A k : ~Waiting(k)
        /\ \A k, s : Doing(k, s) <=> worker.task.kind = k /\ worker.at \in s
    BY <1>1, <1>4, Mine DEF Requests, Doing
  <2>5. CASE worker.task.kind = "write"
    <3>1. controller.phase = "active" /\ request[2] = worker.task.body
      BY <1>1, <1>4, <2>5, MineWrite
    <3>2. Fitting(worker.answer)
      BY <1>1, <2>4, <2>5 DEF Ends, Underway
    <3>3. response'.control = worker.answer /\ cache' = [body |-> request[2], response |-> worker.answer]
      BY <2>5, <3>1 DEF Store, Typed, TypeOK
    <3>4. Kept'
      BY <1>1, <3>2, <3>3 DEF Kept, Fitting
    <3>5. Outcomes'
      BY <1>1, <1>2, <1>4, <2>5, <3>1, <3>4, MineWrite DEF Outcomes
    <3>6. Underway'
      BY <1>2, <2>3 DEF Underway
    <3>. QED  BY <1>1, <1>2, <1>4, <2>2, <2>5, <3>5, <3>6, MineWriteOK
  <2>6. CASE worker.task.kind \in {"m1", "m3"}
    <3>1. /\ controller.phase = worker.task.kind
          /\ txn = "none"
      BY <1>1, <1>4, <2>6, Mine DEF Requests, Fit, Fits, Early
    <3>2. ~Fresh
      BY <1>1, <1>4, <2>6, <3>1, NotFresh
    <3>3. response'.verify = worker.answer /\ cache' = cache
      BY <2>6 DEF Store, Typed, TypeOK
    <3>4. Verified => Verified'
      BY <1>1, <1>2, <2>3, <2>4 DEF Verified
    <3>5. OwnKey'
      BY <1>1, <1>2, <2>3, <2>4, <3>1, <3>2, <3>3 DEF Ends, OwnKey
    <3>6. Underway' /\ Sealed'
      BY <2>3, <2>6 DEF Underway, Sealed
    <3>7. Outcomes'
      BY <1>1, <2>6, <3>1, <3>2, <3>3 DEF Ends, Outcomes
    <3>. QED  BY <1>1, <1>2, <1>4, <2>2, <3>2, <3>4, <3>5, <3>6, <3>7, MineEndsOK DEF Forgotten
  <2>. QED  BY <1>1, <2>5, <2>6
<1>. QED  BY <1>3, <1>4

\* A sealed answer of an active session; any other is plain.
LEMMA SealStep == ASSUME Typed, Requests, Ends, Seal PROVE Requests' /\ Ends'
<1>. DEFINE answer == IF worker.task.kind = "readVerify" THEN response.verify ELSE response.control
<1>1. /\ worker.at = "begin" /\ worker.task.kind \in {"readVerify", "readControl"}
      /\ UNCHANGED <<queue, link, outstanding, controller, txn, request, runs, response, cache, main, closing>>
  BY DEF Seal, At, controllerVars, WorkerRest, linkVars
<1>2. \/ /\ Active /\ answer # NoResponse
         /\ worker' = Working("reply", worker.task, answer, session.key, session.read)
         /\ session' = [session EXCEPT !.read = @ + 1]
      \/ /\ ~Active \/ answer = NoResponse
         /\ worker' = Working("reply", worker.task, answer, 0, 0)
         /\ UNCHANGED session
  BY DEF Seal
<1>3. worker'.at = "reply" /\ worker'.task = worker.task /\ worker'.answer = answer
  BY <1>2 DEF Working
<1>4. CASE worker.task.link # link
  BY <1>1, <1>3, <1>4, OldWork
<1>5. CASE worker.task.link = link
  <2>1. Early'
    BY <1>1 DEF Requests, Early
  <2>2. Requests'
    BY <1>1, <1>3, <1>5, <2>1, MineRequests
  <2>3. /\ \A k : ~Waiting(k)'
        /\ \A k, s : Doing(k, s)' <=> worker.task.kind = k /\ worker'.at \in s
    BY <1>1, <1>3, <1>5, MineGoesOn DEF Requests
  <2>4. /\ \A k : k \notin {"readVerify", "readControl"} => ~Waiting(k)
        /\ \A k, s : Doing(k, s) <=> worker.task.kind = k /\ worker.at \in s
    BY <1>1, <1>5, Mine DEF Requests, Doing
  <2>5. CASE controller.phase = "failed"
    <3>1. Fresh'
      BY <1>1, <2>5 DEF Fresh
    <3>. QED  BY <1>1, <2>2, <2>3, <2>5, <3>1
              DEF Ends, SessionOK, OwnKey, Underway, Sealed, Outcomes
  <2>6. CASE worker.task.kind = "readVerify" /\ controller.phase # "failed"
    <3>1. controller.phase \in {"m1", "m3"} /\ txn = "none" /\ link # 0
      BY <1>1, <1>5, <2>6, Mine DEF Requests, Fit, Fits, Early, Typed, Talks
    <3>2. ~Fresh
      BY <1>1, <1>5, <2>6, <3>1, NotFresh
    <3>3. ~Active
      BY <1>1, <2>4, <3>1, <3>2 DEF Ends, SessionOK, Forgotten, Verified, Active, NoSession, Session
    <3>4. session' = session
      BY <1>2, <3>3
    <3>5. Verified => Verified'
      BY <1>1, <1>3, <2>3, <2>4, <2>6, <3>1, <3>4 DEF Verified
    <3>6. OwnKey'
      BY <1>1, <1>3, <2>3, <2>4, <2>6, <3>2 DEF Ends, OwnKey
    <3>7. Underway' /\ Sealed'
      BY <2>3, <2>6 DEF Underway, Sealed
    <3>8. Outcomes'
      BY <1>1, <3>1, <3>2, <3>4 DEF Ends, Outcomes
    <3>. QED  BY <1>1, <1>3, <1>5, <2>2, <3>2, <3>4, <3>5, <3>6, <3>7, <3>8, MineEndsOK DEF Forgotten
  <2>7. CASE worker.task.kind = "readControl" /\ controller.phase # "failed"
    <3>1. controller.phase = "active" /\ txn = "open" /\ link # 0
      BY <1>1, <1>5, <2>7, Mine DEF Requests, Fit, Fits, Typed, Talks
    <3>2. ~Fresh
      BY <1>1, <1>5, <2>7, <3>1, NotFresh
    <3>3. Underway' /\ OwnKey'
      BY <1>1, <2>3, <2>7, <3>1 DEF Underway, OwnKey
    <3>4. CASE Forgotten
      <4>1. ~Active
        BY <3>4 DEF Forgotten, Active, NoSession, Session
      <4>2. session' = NoSession /\ worker'.key = 0
        BY <1>2, <3>4, <4>1 DEF Forgotten, Working
      <4>3. Sealed' /\ Outcomes'
        BY <4>2 DEF Sealed, Outcomes
      <4>4. SessionOK'
        BY <1>1, <3>4, <4>2 DEF SessionOK, Forgotten
      <4>. QED  BY <2>2, <3>3, <4>3, <4>4 DEF Ends
    <3>5. CASE Verified
      <4>1. session # NoSession /\ Active
        BY <1>1, <3>1, <3>5 DEF Verified, Active, NoSession, Session
      <4>2. Kept
        BY <1>1, <2>4, <2>7, <3>1, <3>2, <4>1 DEF Ends, Outcomes
      <4>3. answer = response.control /\ answer # NoResponse
        BY <2>7, <4>2 DEF Kept, Fitting, NoResponse, Response
      <4>4. /\ worker' = Working("reply", worker.task, answer, session.key, session.read)
            /\ session' = [session EXCEPT !.read = @ + 1] /\ session \in Sessions
        BY <1>2, <4>1, <4>3 DEF Typed, TypeOK
      <4>5. worker'.key = link /\ worker'.nonce = controller.got
        <5>1. session.key = link /\ session.read = controller.got
          BY <1>1, <2>4, <2>7, <3>5, <4>4 DEF Verified, Typed, TypeOK, Controllers
        <5>. QED  BY <4>4, <5>1 DEF Working
      <4>6. /\ session'.key = session.key /\ session'.of = session.of /\ session'.stage = session.stage
            /\ session'.wrote = session.wrote /\ session'.read = session.read + 1
        BY <4>4 DEF Sessions
      <4>7. Sealed'
        BY <1>1, <1>3, <3>1, <4>2, <4>3, <4>5 DEF Sealed, Kept, Fitting
      <4>8. session'.read = controller'.got + 1 /\ session'.wrote = controller'.sent
        BY <1>1, <2>4, <2>7, <3>5, <4>4, <4>6 DEF Verified, Typed, TypeOK, Controllers, Sessions
      <4>9. session'.wrote + 0 = session'.wrote
        BY <4>4, <4>6, BoundsAssumption DEF Sessions
      <4>10. Verified'
        BY <1>1, <1>3, <2>3, <2>4, <2>7, <3>1, <3>5, <4>1, <4>6, <4>8, <4>9 DEF Verified, Active
      <4>11. Outcomes'
        BY <1>1, <1>3, <3>1, <4>2 DEF Outcomes, Kept, Fitting
      <4>. QED  BY <2>2, <3>3, <4>7, <4>10, <4>11 DEF Ends, SessionOK
    <3>. QED  BY <3>2, <3>4, <3>5 DEF Ends, SessionOK
  <2>. QED  BY <1>1, <2>5, <2>6, <2>7
<1>. QED  BY <1>4, <1>5

\* What the controller makes of an answer to it.
LEMMA HearsCases ==
    ASSUME Typed, Requests, Ends, Hears, worker.at = "reply", worker.task.link = link,
           worker.task.kind \in {"readVerify", "readControl"}
    PROVE  \/ /\ worker.task.kind = "readVerify" /\ controller.phase = "m1"
              /\ controller' = Controller("m2", link, 0, 0)
              /\ UNCHANGED <<txn, request, runs, unreadable>>
           \/ /\ worker.task.kind = "readVerify" /\ controller.phase = "m3"
              /\ controller' = Controller("active", controller.key, 0, 0)
              /\ worker.answer.what = "m4"
              /\ UNCHANGED <<txn, request, runs, unreadable>>
           \/ /\ worker.task.kind = "readControl" /\ controller.phase = "active"
              /\ controller' = [controller EXCEPT !.got = @ + 1]
              /\ Fitting(worker.answer) /\ txn' = worker.answer.what /\ runs' = 0
              /\ unreadable' = unreadable
           \/ /\ controller' = Controller("failed", 0, 0, 0)
              /\ UNCHANGED <<txn, request, runs>>
              /\ unreadable' = unreadable \/ (session = NoSession /\ controller.phase = "active")
<1>1. Fits(worker.task) /\ \A k, s : Doing(k, s) <=> worker.task.kind = k /\ worker.at \in s
  BY Mine DEF Requests, Fit, Doing
<1>2. CASE controller.phase = "active"
  <2>1. worker.task.kind = "readControl" /\ controller.key = link /\ link # 0
    BY <1>1, <1>2 DEF Fits, Requests, Early, Typed, Talks
  <2>2. Doing("readControl", {"reply"})
    BY <1>1, <2>1
  <2>3. CASE worker.key # 0
    <3>1. worker.key = controller.key /\ worker.nonce = controller.got /\ Fitting(worker.answer)
      BY <1>2, <2>1, <2>2, <2>3 DEF Ends, Sealed
    <3>2. /\ controller' = [controller EXCEPT !.got = @ + 1]
          /\ txn' = worker.answer.what /\ runs' = 0 /\ unreadable' = unreadable
      BY <1>2, <3>1 DEF Hears, Typed, TypeOK
    <3>. QED  BY <1>2, <2>1, <3>1, <3>2
  <2>4. CASE worker.key = 0
    <3>1. session = NoSession
      BY <1>2, <2>2, <2>4 DEF Ends, Sealed
    <3>2. /\ controller' = Controller("failed", 0, 0, 0)
          /\ UNCHANGED <<txn, request, runs>>
      BY <1>2, <2>1, <2>4 DEF Hears
    <3>. QED  BY <1>2, <3>1, <3>2
  <2>. QED  BY <2>3, <2>4
<1>3. CASE controller.phase # "active"
  <2>1. UNCHANGED <<txn, request, runs, unreadable>>
    BY <1>3 DEF Hears, Typed, TypeOK
  <2>2. CASE worker.key = 0 /\ controller.phase = "m1" /\ worker.answer.what = "m2"
    <3>1. controller' = Controller("m2", worker.answer.key, 0, 0)
      BY <2>2 DEF Hears
    <3>2. worker.task.kind = "readVerify" /\ ~Fresh
      BY <1>1, <2>2, NotFresh DEF Fits
    <3>3. worker.answer.key = link
      BY <1>1, <2>2, <3>2 DEF Ends, OwnKey
    <3>. QED  BY <2>1, <2>2, <3>1, <3>2, <3>3
  <2>3. CASE worker.key = 0 /\ controller.phase = "m3" /\ worker.answer.what = "m4"
    <3>1. controller' = Controller("active", controller.key, 0, 0)
      BY <2>3 DEF Hears
    <3>2. worker.task.kind = "readVerify"
      BY <1>1, <2>3 DEF Fits
    <3>. QED  BY <2>1, <2>3, <3>1, <3>2
  <2>4. CASE /\ ~(worker.key = 0 /\ controller.phase = "m1" /\ worker.answer.what = "m2")
             /\ ~(worker.key = 0 /\ controller.phase = "m3" /\ worker.answer.what = "m4")
    <3>1. controller' = Controller("failed", 0, 0, 0)
      BY <1>3, <2>4 DEF Hears
    <3>. QED  BY <2>1, <3>1
  <2>. QED  BY <2>2, <2>3, <2>4
<1>. QED  BY <1>2, <1>3

\* No answer goes to another connection.
LEMMA ReplyCases ==
    ASSUME Typed, Requests, Ends, Reply
    PROVE  /\ worker.at = "reply" /\ UNCHANGED <<queue, link, session, response, cache, main, closing>>
           /\ worker' \in {Resting, [worker EXCEPT !.at = "complete"]}
           /\ \/ UNCHANGED <<outstanding, controller, txn, request, runs, unreadable>>
              \/ /\ worker.task.link = link /\ outstanding' = FALSE /\ Acknowledges
                 /\ worker' = Resting
                 /\ UNCHANGED <<controller, txn, request, runs, unreadable>>
              \/ /\ worker.task.link = link /\ outstanding' = FALSE /\ Hears
                 /\ worker.task.kind \in {"readVerify", "readControl"}
                 /\ worker.answer # NoResponse => worker' = [worker EXCEPT !.at = "complete"]
  BY DEF Reply, WorkerRest, linkVars, Acknowledges, Typed, Steps, TaskOK, TypeOK, Workers, Tasks

\* The answer of a transaction is that of a write.
LEMMA ReplyTxn ==
    ASSUME Typed, Requests, Ends, Reply
    PROVE  txn' \in {"none", "open", "ran", "refused"}
<1>1. CASE UNCHANGED txn
  BY <1>1 DEF Typed, TypeOK
<1>2. CASE /\ worker.task.link = link /\ Hears
           /\ worker.task.kind \in {"readVerify", "readControl"}
  BY <1>1, <1>2, ReplyCases, HearsCases DEF Fitting
<1>. QED  BY <1>1, <1>2, ReplyCases

LEMMA ReplyStep == ASSUME Typed, Requests, Ends, Reply PROVE Requests' /\ Ends'
<1>1. /\ worker.at = "reply" /\ UNCHANGED <<queue, link, session, response, cache, main, closing>>
      /\ worker' \in {Resting, [worker EXCEPT !.at = "complete"]}
  BY ReplyCases
<1>2. worker' = Resting \/ (/\ worker'.at = "complete" /\ worker'.task = worker.task
                            /\ worker'.answer = worker.answer)
  BY <1>1 DEF Typed, TypeOK, Workers
<1>3. worker'.at \in {"rest", "complete"}
  BY <1>2 DEF Resting, Working
<1>4. CASE worker.task.link # link
  BY <1>1, <1>2, <1>4, ReplyCases, OldWork
<1>5. ASSUME worker.task.link = link
      PROVE  /\ ~Serving' /\ Asked' = {} /\ (Lost' <=> outstanding')
             /\ \A k : ~Waiting(k)'
             /\ \A k, s : ~Doing(k, s)'
             /\ \A k : ~Waiting(k)
             /\ \A k, s : Doing(k, s) <=> worker.task.kind = k /\ worker.at \in s
  BY <1>1, <1>3, <1>5, Mine, MineEnds DEF Requests, Doing
<1>6. ASSUME worker.task.link = link, outstanding' => controller'.phase \in {"m1", "m3", "active", "failed"},
             Early'
      PROVE  Requests'
  <2>1. Alone' /\ Fit'
    BY <1>5, <1>6 DEF Alone, Fit
  <2>2. Old'
    BY <1>1, <1>2, <1>6 DEF Old, Resting, Working
  <2>. QED  BY <1>6, <2>1, <2>2 DEF Requests
<1>7. ASSUME worker.task.link = link PROVE Underway' /\ Sealed'
  BY <1>5, <1>7 DEF Underway, Sealed
<1>8. CASE worker.task.link = link /\ UNCHANGED <<outstanding, controller, txn, request, runs>>
  <2>1. Early' /\ (outstanding' => controller'.phase \in {"m1", "m3", "active", "failed"})
    BY <1>1, <1>8 DEF Requests, Early, Alone
  <2>2. Requests'
    BY <1>6, <1>8, <2>1
  <2>. QED  BY <1>1, <1>3, <1>8, <2>2, MineLost
<1>9. CASE /\ worker.task.link = link /\ outstanding' = FALSE /\ Acknowledges
           /\ worker' = Resting
           /\ UNCHANGED <<controller, txn, request, runs>>
  <2>0. Early'
    BY <1>1, <1>9 DEF Requests, Early
  <2>1. Requests'
    BY <1>6, <1>9, <2>0
  <2>2. /\ controller.phase \in {"m1", "m3", "active"}
        /\ worker.task.kind \in {"m1", "m3", "write"}
        /\ worker.task.kind # "write" => txn # "open"
        /\ worker.task.kind = "write" => controller.phase = "active" /\ txn = "open"
    BY <1>1, <1>9, Mine DEF Requests, Fit, Fits, Early, Acknowledges
  <2>3. ~Fresh
    BY <1>1, <1>9, <2>2, NotFresh
  <2>4. Verified => Verified'
    BY <1>1, <1>5, <1>9, <2>2 DEF Verified, Resting, Working
  <2>5. Forgotten => Forgotten'
    BY <1>1 DEF Forgotten
  <2>6. OwnKey'
    BY <1>1, <1>5, <1>9, <2>2, <2>3 DEF Ends, OwnKey
  <2>7. Outcomes'
    <3>1. CASE session = NoSession
      BY <1>1, <3>1 DEF Outcomes
    <3>2. CASE session # NoSession /\ txn # "open"
      BY <1>1, <1>9, <2>3, <3>2 DEF Ends, Outcomes, Clearing
    <3>3. CASE session # NoSession /\ txn = "open"
      <4>1. Kept
        BY <1>1, <1>5, <1>9, <2>3, <3>3 DEF Ends, Outcomes
      <4>2. Kept'
        BY <1>1, <1>9, <4>1 DEF Kept, Fitting
      <4>. QED  BY <1>3, <1>9, <2>2, <3>3, <4>2 DEF Outcomes, Resting, Working
    <3>. QED  BY <3>1, <3>2, <3>3
  <2>. QED  BY <1>7, <1>9, <2>1, <2>3, <2>4, <2>5, <2>6, <2>7 DEF Ends, SessionOK
<1>10. CASE /\ worker.task.link = link /\ outstanding' = FALSE /\ Hears
            /\ worker.task.kind \in {"readVerify", "readControl"}
            /\ worker.answer # NoResponse => worker' = [worker EXCEPT !.at = "complete"]
  <2>1. CASE /\ worker.task.kind = "readVerify" /\ controller.phase = "m1"
             /\ controller' = Controller("m2", link, 0, 0)
             /\ UNCHANGED <<txn, request, runs, unreadable>>
    <3>1. /\ controller'.phase = "m2" /\ controller'.key = link
          /\ controller'.sent = 0 /\ controller'.got = 0
      BY <2>1 DEF Controller
    <3>2. txn = "none" /\ controller.sent = 0 /\ controller.got = 0 /\ Early'
      BY <1>1, <2>1, <3>1 DEF Requests, Early
    <3>3. ~Fresh
      BY <1>1, <1>10, <2>1, NotFresh
    <3>4. Requests'
      BY <1>6, <1>10, <3>1, <3>2
    <3>5. Verified => Verified'
      BY <1>1, <1>5, <1>10, <2>1, <3>1, <3>2 DEF Verified
    <3>6. Forgotten => Forgotten'
      BY <1>1 DEF Forgotten
    <3>7. OwnKey'
      BY <3>1 DEF OwnKey
    <3>8. Outcomes'
      BY <1>1, <2>1, <3>2, <3>3 DEF Ends, Outcomes
    <3>. QED  BY <1>7, <1>10, <3>3, <3>4, <3>5, <3>6, <3>7, <3>8 DEF Ends, SessionOK
  <2>2. CASE /\ worker.task.kind = "readVerify" /\ controller.phase = "m3"
             /\ controller' = Controller("active", controller.key, 0, 0)
             /\ worker.answer.what = "m4"
             /\ UNCHANGED <<txn, request, runs, unreadable>>
    <3>1. /\ controller'.phase = "active" /\ controller'.key = controller.key
          /\ controller'.sent = 0 /\ controller'.got = 0
      BY <2>2 DEF Controller
    <3>2. txn = "none" /\ controller.sent = 0 /\ controller.got = 0 /\ Early'
      BY <1>1, <2>2, <3>1 DEF Requests, Early
    <3>3. ~Fresh
      BY <1>1, <1>10, <2>2, NotFresh
    <3>4. Requests'
      BY <1>6, <1>10, <3>1, <3>2
    <3>5. ASSUME Verified PROVE Verified'
      <4>1. session.stage = "m4" /\ session.wrote + 0 = 0 /\ session.read = 0 + 0
        BY <1>5, <1>10, <2>2, <3>2, <3>5 DEF Verified
      <4>2. worker.answer # NoResponse
        BY <2>2 DEF NoResponse, Response
      <4>3. worker'.at = "complete" /\ worker'.task = worker.task
        BY <1>10, <4>2 DEF Typed, TypeOK, Workers
      <4>. QED  BY <1>1, <1>5, <1>10, <2>2, <3>1, <3>5, <4>1, <4>3 DEF Verified
    <3>6. Forgotten => Forgotten'
      BY <1>1 DEF Forgotten
    <3>7. OwnKey'
      BY <3>1 DEF OwnKey
    <3>8. Outcomes'
      BY <1>1, <2>2, <3>2, <3>3 DEF Ends, Outcomes
    <3>. QED  BY <1>7, <1>10, <3>3, <3>4, <3>5, <3>6, <3>7, <3>8 DEF Ends, SessionOK
  <2>3. CASE /\ worker.task.kind = "readControl" /\ controller.phase = "active"
             /\ controller' = [controller EXCEPT !.got = @ + 1]
             /\ Fitting(worker.answer) /\ txn' = worker.answer.what /\ runs' = 0
             /\ unreadable' = unreadable
    <3>1. /\ controller'.phase = "active" /\ controller'.key = controller.key
          /\ controller'.sent = controller.sent /\ controller'.got = controller.got + 1
      BY <2>3 DEF Typed, TypeOK, Controllers
    <3>2. txn' \in {"ran", "refused"} /\ Early'
      BY <1>1, <2>3, <3>1 DEF Fitting, Requests, Early
    <3>3. ~Fresh
      BY <1>1, <1>10, <2>3, NotFresh
    <3>4. Requests'
      BY <1>6, <1>10, <3>1, <3>2
    <3>5. worker.answer # NoResponse
      BY <2>3 DEF Fitting, NoResponse, Response
    <3>6. worker'.at = "complete" /\ worker'.task = worker.task /\ worker'.answer = worker.answer
      BY <1>10, <3>5 DEF Typed, TypeOK, Workers
    <3>7. ASSUME Verified PROVE Verified'
      <4>1. session.read = controller.got + 1 /\ session.wrote + 0 = controller.sent
        BY <1>1, <1>5, <1>10, <2>3, <3>7 DEF Verified
      <4>2. session.read = controller'.got + 0
        BY <3>1, <4>1 DEF Typed, TypeOK, Controllers
      <4>. QED  BY <1>1, <1>5, <1>10, <2>3, <3>1, <3>6, <3>7, <4>1, <4>2 DEF Verified
    <3>8. Forgotten => Forgotten'
      BY <1>1 DEF Forgotten
    <3>9. OwnKey'
      BY <3>1 DEF OwnKey
    <3>10. Outcomes'
      <4>1. CASE session = NoSession
        BY <1>1, <4>1 DEF Outcomes
      <4>2. CASE session # NoSession
        <5>1. worker.answer = response.control
          BY <1>1, <1>5, <1>10, <2>3, <4>2 DEF Ends, Sealed
        <5>2. txn = "open"
          BY <1>1, <1>10, <2>3, Mine DEF Requests, Fit, Fits
        <5>3. Kept
          BY <1>1, <1>5, <1>10, <2>3, <3>3, <4>2, <5>2 DEF Ends, Outcomes
        <5>4. cache.response = worker.answer
          BY <5>1, <5>3 DEF Kept
        <5>5. Clearing'
          BY <1>1, <2>3, <3>6, <5>4 DEF Clearing
        <5>. QED  BY <3>1, <3>2, <5>5 DEF Outcomes
      <4>. QED  BY <4>1, <4>2
    <3>. QED  BY <1>7, <1>10, <3>3, <3>4, <3>7, <3>8, <3>9, <3>10 DEF Ends, SessionOK
  <2>4. CASE /\ controller' = Controller("failed", 0, 0, 0)
             /\ UNCHANGED <<txn, request, runs>>
    <3>1. controller'.phase = "failed" /\ Early'
      BY <2>4 DEF Controller, Early
    <3>2. Requests'
      BY <1>6, <1>10, <3>1
    <3>3. Fresh'
      BY <3>1 DEF Fresh
    <3>. QED  BY <1>5, <1>10, <3>2, <3>3, NoEnds
  <2>. QED  BY <1>1, <1>10, <2>1, <2>2, <2>3, <2>4, HearsCases
<1>. QED  BY <1>4, <1>8, <1>9, <1>10, ReplyCases

\* What the controller has read the answer of is cleared up.
LEMMA CompleteVerifyStep ==
    ASSUME Typed, Requests, Ends, CompleteVerify PROVE Requests' /\ Ends'
<1>1. /\ worker.at = "complete" /\ worker.task.kind = "readVerify" /\ worker' = Resting
      /\ UNCHANGED <<queue, link, outstanding, controller, txn, request, runs, cache, main, closing>>
      /\ response'.control = response.control /\ response'.verify \in {response.verify, NoResponse}
      /\ \/ session.stage = "m4" /\ session' = [session EXCEPT !.stage = "active"]
         \/ session.stage # "m4" /\ session' = session
  BY DEF CompleteVerify, At, controllerVars, WorkerRest, linkVars, Typed, TypeOK
<1>2. CASE worker.task.link # link
  BY <1>1, <1>2, OldWork
<1>3. CASE worker.task.link = link
  <2>1. worker'.at = "rest" /\ ~Serving /\ ~Serving'
    BY <1>1 DEF Resting, Working, Serving
  <2>2. /\ Asked' = Asked /\ (Lost' <=> Lost)
        /\ \A k : Waiting(k)' <=> Waiting(k)
        /\ \A k, s : ~Doing(k, s) /\ ~Doing(k, s)'
    BY <1>1, <2>1, NotMine DEF Doing
  <2>3. Alone' /\ Fit' /\ Early'
    BY <1>1, <2>1, <2>2 DEF Requests, Alone, Fit, Fits, Early
  <2>4. Old'
    BY <2>1 DEF Old
  <2>5. Fresh' <=> Fresh
    BY <1>1, <2>2 DEF Fresh
  <2>6. /\ session'.key = session.key /\ session'.of = session.of
        /\ session'.wrote = session.wrote /\ session'.read = session.read
        /\ session.stage = "m4" => session'.stage = "active"
        /\ session.stage # "m4" => session'.stage = session.stage
    BY <1>1 DEF Typed, TypeOK, Sessions
  <2>7. session = NoSession => session' = NoSession
    BY <1>1 DEF NoSession, Session
  <2>8. session' # NoSession => session # NoSession
    BY <2>7
  <2>9. SessionOK'
    <3>1. Forgotten => Forgotten'
      BY <1>1, <2>7 DEF Forgotten
    <3>2. Verified => Verified'
      BY <1>1, <2>1, <2>2, <2>6 DEF Verified
    <3>. QED  BY <2>5, <3>1, <3>2 DEF Ends, SessionOK
  <2>10. OwnKey'
    <3>1. response'.verify.what = "m2" => response'.verify = response.verify
      BY <1>1 DEF NoResponse, Response
    <3>. QED  BY <1>1, <2>2, <2>5, <3>1 DEF Ends, OwnKey
  <2>11. Underway' /\ Sealed'
    BY <2>2 DEF Underway, Sealed
  <2>12. Outcomes'
    <3>1. ~Clearing /\ ~Clearing'
      BY <1>1, <2>1 DEF Clearing
    <3>2. Kept => Kept'
      BY <1>1 DEF Kept, Fitting
    <3>3. First => First'
      BY <1>1, <3>1 DEF First
    <3>. QED  BY <1>1, <2>1, <2>2, <2>5, <2>8, <3>1, <3>2, <3>3 DEF Ends, Outcomes
  <2>. QED  BY <2>3, <2>4, <2>9, <2>10, <2>11, <2>12 DEF Requests, Ends
<1>. QED  BY <1>2, <1>3

LEMMA CompleteControlStep ==
    ASSUME Typed, Requests, Ends, CompleteControl PROVE Requests' /\ Ends'
<1>1. /\ worker.at = "complete" /\ worker.task.kind = "readControl" /\ worker' = Resting
      /\ UNCHANGED <<queue, link, outstanding, controller, txn, request, runs, session, main, closing>>
      /\ response'.verify = response.verify
      /\ cache' = IF cache.response.tid = worker.answer.tid THEN NoEntry ELSE cache
  BY DEF CompleteControl, At, controllerVars, WorkerRest, linkVars, Typed, TypeOK
<1>2. CASE worker.task.link # link
  BY <1>1, <1>2, OldWork
<1>3. CASE worker.task.link = link
  <2>1. worker'.at = "rest" /\ ~Serving /\ ~Serving'
    BY <1>1 DEF Resting, Working, Serving
  <2>2. /\ Asked' = Asked /\ (Lost' <=> Lost)
        /\ \A k : Waiting(k)' <=> Waiting(k)
        /\ \A k, s : ~Doing(k, s) /\ ~Doing(k, s)'
    BY <1>1, <2>1, NotMine DEF Doing
  <2>3. Alone' /\ Fit' /\ Early'
    BY <1>1, <2>1, <2>2 DEF Requests, Alone, Fit, Fits, Early
  <2>4. Old'
    BY <2>1 DEF Old
  <2>5. Fresh' <=> Fresh
    BY <1>1, <2>2 DEF Fresh
  <2>6. SessionOK'
    <3>1. Forgotten => Forgotten'
      BY <1>1 DEF Forgotten
    <3>2. Verified => Verified'
      BY <1>1, <2>1, <2>2 DEF Verified
    <3>. QED  BY <2>5, <3>1, <3>2 DEF Ends, SessionOK
  <2>7. OwnKey' /\ Underway' /\ Sealed'
    BY <1>1, <2>2, <2>5 DEF Ends, OwnKey, Underway, Sealed
  <2>8. Outcomes'
    <3>1. cache = NoEntry => cache' = NoEntry
      BY <1>1
    <3>2. Clearing => cache' = NoEntry
      BY <1>1 DEF Clearing
    <3>3. CASE txn # "open"
      BY <1>1, <2>5, <3>1, <3>2, <3>3 DEF Ends, Outcomes
    <3>4. CASE txn = "open"
      <4>1. request[1] # 0
        BY <3>4, TidsAssumption DEF Typed, TypeOK, Talks, Writes
      <4>2. First => First'
        <5>1. CASE cache' = NoEntry
          BY <1>1, <4>1, <5>1 DEF First, NoEntry, NoResponse, Response
        <5>2. CASE cache' = cache /\ cache.response.tid # worker.answer.tid
          BY <1>1, <5>2 DEF First, Clearing
        <5>. QED  BY <1>1, <5>1, <5>2
      <4>. QED  BY <1>1, <2>2, <2>5, <3>1, <3>4, <4>2 DEF Ends, Outcomes
    <3>. QED  BY <3>3, <3>4
  <2>. QED  BY <2>3, <2>4, <2>6, <2>7, <2>8 DEF Requests, Ends
<1>. QED  BY <1>2, <1>3

\* A request leaves the queue, and is begun or not.
LEMMA LeavesStep ==
    ASSUME Typed, Requests, Ends, worker = Resting, queue # << >>, queue' = Tail(queue),
           UNCHANGED <<link, outstanding, controller, txn, request, runs, session, response, cache,
                       main, closing>>,
           \/ worker' = Resting
           \/ /\ Head(queue).epoch = epoch
              /\ worker' = Working("begin", Head(queue), NoResponse, 0, 0)
    PROVE  Requests' /\ Ends'
<1>1. worker.at = "rest" /\ ~Serving /\ \A k, s : ~Doing(k, s)
  BY DEF Resting, Working, Serving, Doing
<1>2. \/ worker' = worker /\ worker'.at = "rest"
      \/ worker'.at = "begin" /\ worker'.task = Head(queue) /\ Head(queue).epoch = epoch
  BY <1>1 DEF Working
<1>3. Early'
  BY DEF Requests, Early
<1>4. Head(queue) = queue[1] /\ TaskOK(Head(queue))
  BY TailView DEF Typed, Steps
<1>5. CASE Head(queue).link # link /\ worker'.at = "begin"
  <2>1. link = 0
    BY <1>1, <1>2, <1>4, <1>5 DEF TaskOK
  <2>2. controller'.phase = "new" /\ ~outstanding' /\ Asked = {}
    BY <2>1 DEF Typed, Talks, Requests, Alone
  <2>3. ~Serving'
    BY <1>1, <1>2, <1>5 DEF Serving
  <2>4. Asked' = {}
    BY <1>1, <1>5, <2>2, <2>3, PassesOver DEF Requests
  <2>. QED  BY <1>3, <2>2, <2>3, <2>4, Blank
<1>6. CASE Head(queue).link # link /\ worker' = worker /\ worker'.at = "rest"
  <2>1. ~Serving' /\ \A k, s : ~Doing(k, s)'
    BY <1>6 DEF Serving, Doing
  <2>2. /\ \A i \in Asked' : \E j \in Asked : queue'[i] = queue[j]
        /\ \A i, j \in Asked' : i = j
        /\ Asked' = {} <=> Asked = {}
        /\ Lost' <=> Lost
        /\ \A k : Waiting(k)' <=> Waiting(k)
    BY <1>1, <1>6, <2>1, PassesOver DEF Requests
  <2>3. Alone' /\ Old'
    BY <1>6, <2>1, <2>2 DEF Requests, Alone, Old
  <2>3a. \A i \in Asked' : Fits(queue'[i])
    BY <2>2 DEF Requests, Fit
  <2>3b. Fit'
    BY <2>1, <2>3a DEF Fit, Fits
  <2>4. Fresh' <=> Fresh
    BY <2>2 DEF Fresh
  <2>5. SessionOK'
    <3>1. (Forgotten => Forgotten') /\ (Verified => Verified')
      BY <1>1, <1>6, <2>1, <2>2 DEF Forgotten, Verified
    <3>. QED  BY <2>4, <3>1 DEF Ends, SessionOK
  <2>6. OwnKey' /\ Underway' /\ Sealed'
    BY <1>1, <2>1, <2>4 DEF Ends, OwnKey, Underway, Sealed
  <2>7. Outcomes'
    BY <1>1, <1>6, <2>1, <2>2, <2>4 DEF Ends, Outcomes, Kept, Fitting, First, Clearing
  <2>. QED  BY <1>3, <2>3, <2>3b, <2>5, <2>6, <2>7 DEF Requests, Ends
<1>7. CASE Head(queue).link = link
  <2>1. /\ 1 \in Asked /\ Asked' = {} /\ outstanding
        /\ worker'.at = "rest" => Lost' /\ ~Serving' /\ \A k : ~Waiting(k)'
        /\ worker'.at = "begin" /\ worker'.task = Head(queue) =>
               Serving' /\ ~Lost' /\ \A k : Waiting(k)' <=> Waiting(k)
    BY <1>1, <1>7, TakesMine DEF Requests
  <2>2. CASE worker'.at = "rest"
    <3>1. Alone' /\ Fit' /\ Old'
      BY <2>1, <2>2 DEF Requests, Alone, Fit, Old
    <3>2. Fresh'
      BY <2>1, <2>2 DEF Fresh
    <3>. QED  BY <1>3, <2>1, <2>2, <3>1, <3>2, NoEnds DEF Requests
  <2>3. CASE worker'.at = "begin" /\ worker'.task = Head(queue)
    <3>1. Fits(Head(queue))
      BY <1>4, <2>1 DEF Requests, Fit
    <3>2. Alone' /\ Old'
      BY <1>7, <2>1, <2>3 DEF Requests, Alone, Old
    <3>3. Fit'
      <4>1. PICK t : t = Head(queue)
        OBVIOUS
      <4>2. Fits(t)'
        BY <3>1, <4>1 DEF Fits
      <4>. QED  BY <2>1, <2>3, <4>1, <4>2 DEF Fit
    <3>4. \A k, s : Doing(k, s)' => "begin" \in s
      BY <2>3 DEF Doing
    <3>5. Underway' /\ Sealed'
      BY <3>4 DEF Underway, Sealed
    <3>6. CASE Fresh
      <4>1. Fresh'
        BY <1>1, <2>1, <2>3, <3>6, Mine DEF Fresh, Lost
      <4>. QED  BY <1>3, <2>3, <3>2, <3>3, <4>1, NoEnds DEF Requests
    <3>7. CASE ~Fresh
      <4>1. SessionOK'
        <5>1. (Forgotten => Forgotten') /\ (Verified => Verified')
          BY <1>1, <2>1, <2>3, <3>4 DEF Forgotten, Verified
        <5>. QED  BY <3>7, <5>1 DEF Ends, SessionOK
      <4>2. OwnKey'
        BY <1>1, <3>4, <3>7 DEF Ends, OwnKey
      <4>3. Outcomes'
        BY <1>1, <2>1, <2>3, <3>7 DEF Ends, Outcomes, Kept, Fitting, First, Clearing
      <4>. QED  BY <1>3, <3>2, <3>3, <3>5, <4>1, <4>2, <4>3 DEF Requests, Ends
    <3>. QED  BY <3>6, <3>7
  <2>. QED  BY <1>2, <2>2, <2>3
<1>. QED  BY <1>2, <1>5, <1>6, <1>7

LEMMA TakeStep == ASSUME Typed, Requests, Ends, Take \/ TakeLate PROVE Requests' /\ Ends'
<1>1. /\ worker = Resting /\ queue # << >> /\ queue' = Tail(queue)
      /\ UNCHANGED <<link, outstanding, controller, txn, request, runs, session, response, cache,
                     main, closing>>
      /\ \/ worker' = Resting
         \/ /\ Head(queue).epoch = epoch
            /\ worker' = Working("begin", Head(queue), NoResponse, 0, 0)
  BY DEF Take, TakeLate, controllerVars, WorkerRest, linkVars
<1>. QED  BY <1>1, LeavesStep

-----------------------------------------------------------------------------
(* The theorems. *)

LEMMA InitIsOK == Init => IInv
<1>. SUFFICES ASSUME Init PROVE IInv
  OBVIOUS
<1>1. Asked = {} /\ ~Serving /\ ~outstanding /\ controller.phase = "new" /\ worker.at = "rest"
  BY DEF Init, Asked, Serving, Resting, Working, Stranger, Controller
<1>2. ~Waiting("m1") /\ Fresh /\ \A k, s : ~Doing(k, s)
  BY <1>1 DEF Waiting, Doing, Fresh
<1>3. Requests
  BY <1>1 DEF Requests, Alone, Fit, Early, Old, Init, Stranger, Controller
<1>4. Ends /\ InSession
  BY <1>1, <1>2 DEF Ends, SessionOK, OwnKey, Underway, Sealed, Outcomes, InSession
<1>. QED  BY <1>3, <1>4, TypedInit DEF IInv

LEMMA StepIsOK == IInv /\ [Next]_vars => IInv'
<1>. SUFFICES ASSUME IInv, [Next]_vars PROVE IInv'
  OBVIOUS
<1>. USE DEF IInv
<1>1. Typed'
  BY ReplyTxn, TypeStep, TalksStep, StepsStep DEF Typed
<1>2. InSession'
  BY InSessionStep
<1>3. CASE LinkUp \/ LinkDown \/ Callback \/ Restart
  BY <1>1, <1>2, <1>3, ConnectionStep
<1>4. CASE Send
  BY <1>1, <1>2, <1>4, SendStep
<1>5. CASE Take \/ TakeLate
  BY <1>1, <1>2, <1>5, TakeStep
<1>6. CASE VerifyM2 \/ VerifyM4
  BY <1>1, <1>2, <1>6, VerifyM2Step, VerifyM4Step
<1>7. CASE Open \/ Authorize \/ Refuse \/ Decide \/ Execute \/ Executed
  BY <1>1, <1>2, <1>7, OpenStep, AuthorizeStep, DecideStep
<1>8. CASE Check \/ Store \/ Seal \/ Reply
  BY <1>1, <1>2, <1>8, CheckStep, StoreStep, SealStep, ReplyStep
<1>9. CASE CompleteVerify \/ CompleteControl
  BY <1>1, <1>2, <1>9, CompleteVerifyStep, CompleteControlStep
<1>10. CASE Aside
  BY <1>1, <1>2, <1>10, AsideStep
<1>. QED  BY <1>3, <1>4, <1>5, <1>6, <1>7, <1>8, <1>9, <1>10 DEF Next, Work, Aside

\* What the other threads and the worker's other steps leave to the controller.
Speaks == LinkDown \/ Restart \/ Send \/ Execute \/ Reply

LEMMA OthersAreQuiet ==
    ASSUME [Next]_vars, ~Speaks PROVE UNCHANGED <<txn, runs, unreadable>>
<1>1. CASE LinkUp \/ Callback
  BY <1>1 DEF LinkUp, Callback, ConnectBumps, ConnectClears, DisconnectBumps, DisconnectCleans,
              controllerVars
<1>2. CASE Take \/ TakeLate \/ VerifyM2 \/ VerifyM4 \/ Open
  BY <1>2 DEF Take, TakeLate, VerifyM2, VerifyM4, Open, controllerVars
<1>3. CASE Authorize \/ Refuse \/ Decide \/ Executed \/ Check \/ Store
  BY <1>3 DEF Authorize, Refuse, Decide, Executed, Check, Store, controllerVars
<1>4. CASE Seal \/ CompleteVerify \/ CompleteControl
  BY <1>4 DEF Seal, CompleteVerify, CompleteControl, controllerVars
<1>5. CASE Aside
  BY <1>5, AsideRest
<1>. QED  BY <1>1, <1>2, <1>3, <1>4, <1>5 DEF Speaks, Next, Work, Aside

LEMMA SendingIsQuiet == ASSUME Send PROVE unreadable' = unreadable
<1>1. ASSUME NEW t, Dispatch(t) PROVE unreadable' = unreadable
  BY <1>1 DEF Dispatch
<1>. QED  BY <1>1 DEF Send, SendM1, SendM3, ReadVerify, Rewrite, ReadControl, Write, SendFrame

\* The steps by which a command is decided on and begins to run.
LEMMA BeginsToRun ==
    ASSUME Typed, [Next]_vars, worker'.at # worker.at, worker'.at \in {"run", "execute"}
    PROVE  /\ worker'.at = "run" => worker.at = "decide" /\ Current
           /\ worker'.at = "execute" => worker.at = "run"
<1>. USE DEF Typed, TypeOK, Workers
<1>1. CASE Decide \/ Execute
  BY <1>1 DEF Decide, Execute, At, Goes, Resting, Working
<1>2. CASE LinkUp \/ LinkDown \/ Callback \/ Restart
  BY <1>2 DEF LinkUp, LinkDown, Callback, ConnectBumps, ConnectClears, DisconnectBumps,
              DisconnectCleans, Restart, CallbackRest, Resting, Working
<1>3. CASE Aside
  BY <1>3, AsideRest
<1>4. ASSUME NEW t, Dispatch(t) PROVE FALSE
  BY <1>4 DEF Dispatch
<1>5. CASE Send
  BY <1>4, <1>5 DEF Send, SendM1, SendM3, ReadVerify, Rewrite, ReadControl, Write, SendFrame
<1>6. CASE Take \/ TakeLate
  BY <1>6 DEF Take, TakeLate, Resting, Working
<1>7. CASE VerifyM2 \/ VerifyM4 \/ Refuse \/ Executed
  BY <1>7 DEF VerifyM2, VerifyM4, Refuse, Executed, Answers
<1>8. CASE Open \/ Authorize \/ Check \/ Store
  BY <1>8 DEF Open, Authorize, Check, Store, Goes, Resting, Working
<1>9. CASE Seal \/ Reply \/ CompleteVerify \/ CompleteControl
  BY <1>9 DEF Seal, Reply, CompleteVerify, CompleteControl, Resting, Working
<1>. QED  BY <1>1, <1>2, <1>3, <1>5, <1>6, <1>7, <1>8, <1>9 DEF Next, Work, Aside

LEMMA Agreed == IInv => NoncesAgree
<1>. SUFFICES ASSUME IInv, controller.phase = "active", ~outstanding, Active, session.of = link
              PROVE  /\ session.key = controller.key
                     /\ session.wrote = controller.sent
                     /\ session.read = controller.got
  BY DEF NoncesAgree
<1>1. Asked = {} /\ ~Serving
  BY DEF IInv, Requests, Alone
<1>2. /\ \A k : ~Waiting(k)
      /\ \A k, s : ~Doing(k, s)
  BY <1>1 DEF Waiting, Doing
<1>3. ~Fresh /\ session # NoSession
  BY <1>2 DEF Fresh, Lost, Active, NoSession, Session
<1>4. Verified
  BY <1>3 DEF IInv, Ends, SessionOK, Forgotten
<1>5. session.key = controller.key
  BY <1>4 DEF Verified, IInv, Requests, Early
<1>6. session.wrote + 0 = controller.sent /\ session.read = controller.got + 0
  BY <1>2, <1>4 DEF Verified
<1>. QED  BY <1>5, <1>6, BoundsAssumption DEF IInv, Typed, TypeOK, Sessions, Controllers

LEMMA Opened == IInv /\ [Next]_vars /\ unreadable' # unreadable => BeingDropped
<1>. SUFFICES ASSUME IInv, [Next]_vars, unreadable' # unreadable PROVE BeingDropped
  OBVIOUS
<1>1. Reply
  BY OthersAreQuiet, SendingIsQuiet DEF Speaks, LinkDown, Restart, Execute, ControllerLoses
<1>2. /\ worker.at = "reply" /\ worker.task.link = link /\ Hears
      /\ worker.task.kind \in {"readVerify", "readControl"}
  BY <1>1, ReplyCases DEF IInv
<1>3. session = NoSession /\ controller.phase = "active"
  BY <1>2, HearsCases DEF IInv
<1>4. ~Fresh /\ link # 0
  BY <1>2, <1>3, NotFresh DEF IInv, Typed, Talks
<1>5. Forgotten
  BY <1>3, <1>4 DEF IInv, Ends, SessionOK, Verified, NoSession, Session
<1>. QED  BY <1>5 DEF Forgotten, BeingDropped

LEMMA InitKeepsContract == Init => Contract!Init
  BY DEF Init, Contract!Init

LEMMA StepKeepsContract == IInv /\ [Next]_vars => [Contract!Next]_<<txn, runs>>
<1>. SUFFICES ASSUME IInv, [Next]_vars PROVE [Contract!Next]_<<txn, runs>>
  OBVIOUS
<1>1. CASE ~Speaks
  BY <1>1, OthersAreQuiet
<1>2. CASE LinkDown \/ Restart
  <2>1. Contract!Lose
    BY <1>2 DEF LinkDown, Restart, ControllerLoses, Contract!Lose
  <2>. QED  BY <2>1 DEF Contract!Next
<1>3. CASE Send
  <2>1. ASSUME NEW r \in Writes, Write(r) PROVE Contract!Next
    BY <2>1 DEF Write, Contract!Next, Contract!Open
  <2>2. CASE SendM1 \/ SendM3 \/ ReadVerify \/ Rewrite \/ ReadControl
    BY <2>2 DEF SendM1, SendM3, ReadVerify, Rewrite, ReadControl
  <2>. QED  BY <1>3, <2>1, <2>2 DEF Send
<1>4. CASE Execute
  <2>1. txn' = txn /\ (runs' = runs \/ (worker.task.link = link /\ runs' = runs + 1))
    BY <1>4 DEF Execute
  <2>2. CASE worker.task.link = link /\ runs' = runs + 1
    <3>1. worker.at = "run" /\ worker.task.kind = "write"
      BY <1>4 DEF Execute, At
    <3>2. txn = "open" /\ Doing("write", {"decide", "run"})
      BY <2>2, <3>1, MineWrite DEF IInv
    <3>3. runs = 0
      BY <3>2 DEF IInv, Ends, Underway
    <3>4. Contract!Run
      BY <2>1, <2>2, <3>2, <3>3 DEF Contract!Run
    <3>. QED  BY <3>4 DEF Contract!Next
  <2>. QED  BY <2>1, <2>2
<1>5. CASE Reply
  <2>1. CASE UNCHANGED <<txn, runs>>
    BY <2>1
  <2>2. CASE /\ worker.at = "reply" /\ worker.task.link = link /\ Hears
             /\ worker.task.kind \in {"readVerify", "readControl"}
    <3>1. \/ UNCHANGED <<txn, runs>>
          \/ /\ worker.task.kind = "readControl" /\ Fitting(worker.answer)
             /\ txn' = worker.answer.what /\ runs' = 0
      BY <2>2, HearsCases DEF IInv
    <3>2. CASE /\ worker.task.kind = "readControl" /\ Fitting(worker.answer)
               /\ txn' = worker.answer.what /\ runs' = 0
      <4>1. txn = "open"
        BY <2>2, <3>2, Mine DEF IInv, Requests, Fit, Fits
      <4>2. Contract!AnswerRan \/ Contract!AnswerRefused
        BY <3>2, <4>1 DEF Fitting, Contract!AnswerRan, Contract!AnswerRefused
      <4>. QED  BY <4>2 DEF Contract!Next
    <3>. QED  BY <3>1, <3>2
  <2>. QED  BY <1>5, <2>1, <2>2, ReplyCases DEF IInv
<1>. QED  BY <1>1, <1>2, <1>3, <1>4, <1>5 DEF Speaks

\* The states of the model have their types, for any identifiers and values,
\* and any number of connections and writes (HomeKitRuntime.kt: the maps of a
\* connection, the queue and the worker).
THEOREM TypeCorrect == Spec => []TypeOK
<1>1. IInv => TypeOK
  BY DEF IInv, Typed
<1>. QED  BY <1>1, InitIsOK, StepIsOK, PTL DEF Spec

\* While the controller waits for nothing, both ends of the session have counted
\* the same frames in each direction (HomeKitRuntime.kt, handleHapPduWrite and
\* onCharacteristicReadRequest count; pairVerifyM2 begins anew).
THEOREM BothEndsAgree == Spec => []NoncesAgree
<1>. QED  BY InitIsOK, StepIsOK, Agreed, PTL DEF Spec

\* A command is decided on for the connection its frame came by, and begins in
\* its session or in none, however late (HomeKitRuntime.kt, processHapPdu: the
\* look at the epoch before it runs).
THEOREM CommandsRunForTheirConnection == Spec => CommandsAreOfConnection
<1>. DEFINE Decided == worker.at # "run" /\ worker'.at = "run"
                          => link = worker.task.link \/ (link = 0 /\ binder = "disconnect")
            Begun == worker.at # worker'.at /\ worker'.at \in {"run", "execute"}
                        => session = NoSession \/ (Active /\ session.key = worker.task.key)
<1>1. ASSUME IInv, [Next]_vars PROVE Decided /\ Begun
  <2>1. worker.at # "run" /\ worker'.at = "run" => worker.at = "decide" /\ worker.task.epoch = epoch
    BY <1>1, BeginsToRun DEF IInv, Current
  <2>2. worker.at # worker'.at /\ worker'.at \in {"run", "execute"} => worker.at \in {"decide", "run"}
    BY <1>1, BeginsToRun DEF IInv
  <2>. QED  BY <1>1, <2>1, <2>2 DEF IInv, Typed, Steps, TaskOK, InSession
<1>2. IInv /\ [Next]_vars => [Decided /\ Begun]_vars
  BY <1>1
<1>. QED  BY <1>2, InitIsOK, StepIsOK, PTL DEF Spec, CommandsAreOfConnection

\* The controller can open every answer in an active session, unless it came
\* while the peer was being dropped (HomeKitRuntime.kt, disconnectPeer forgets
\* the session before the stack closes the connection).
THEOREM AnswersOpenInSession == Spec => AnswersOpenUntilDropped
<1>1. IInv /\ [Next]_vars => [unreadable' # unreadable => BeingDropped]_vars
  BY Opened
<1>. QED  BY <1>1, InitIsOK, StepIsOK, PTL DEF Spec, AnswersOpenUntilDropped

\* Writes keep CommandContract: a write runs its command at most once however
\* often it is repeated, and an answer tells whether that command ran
\* (HomeKitRuntime.kt, HapReplayCache and processHapPdu).
THEOREM SpecKeepsContract == Spec => WritesKeepContract
<1>. QED
  BY InitIsOK, StepIsOK, InitKeepsContract, StepKeepsContract, PTL
  DEF Spec, WritesKeepContract, Contract!Spec
=============================================================================
