------------------------------ MODULE HapSession ------------------------------
(***************************************************************************)
(* A controller's connection to the accessory (HomeKitRuntime's GATT       *)
(* callback and its HAP handlers): Pair Verify, the encrypted session with *)
(* its two nonces, the writes of a control and the reads of their answers. *)
(*                                                                         *)
(* The binder thread queues every request with the epoch of its connection *)
(* for the one protocol worker, which does it some time later; meanwhile   *)
(* the connection may have ended, and another one begun.  The main thread  *)
(* drops peers and restarts the probe.  None of them holds a lock: a step  *)
(* is as much as no other thread can see the middle of.                    *)
(*                                                                         *)
(* There is one controller, as the accessory is paired with one.  It has   *)
(* one request outstanding, as ATT prescribes, verifies once in a          *)
(* connection, and may repeat a write that it has not read the answer of.  *)
(* Every answer fits into one fragment.                                    *)
(***************************************************************************)
EXTENDS Naturals, Sequences

CONSTANTS
    Tids,            \* HAP transaction identifiers
    Bodies,          \* what is written to the control
    MaxConnections,  \* bound: connections
    MaxFrames        \* bound: writes in a connection

ASSUME BoundsAssumption ==
    /\ MaxConnections \in Nat \ {0}
    /\ MaxFrames \in Nat

\* 0 stands for no transaction.
ASSUME TidsAssumption == 0 \notin Tids

VARIABLES
    epoch,       \* connectionEpochs[address], 0 for none
    sequence,    \* connectionSequence
    connected,   \* connectedDeviceRefs has the address
    session,     \* pairVerifySessions[address]
    response,    \* pduResponses of the two characteristics
    cache,       \* the HapReplayCache
    queue,       \* the SerialGattQueue
    worker,      \* its thread
    binder,      \* onConnectionStateChange, between its steps
    main,        \* disconnectPeer, between its steps
    drops,       \* the epochs a disconnectPeer is posted for
    link,        \* the stack's connection: its number, 0 for none
    links,       \* how many connections there have been
    closing,     \* it is told to close
    outstanding, \* the controller's request that waits for the ATT response
    controller,  \* where the controller is, and its end of the session
    txn,         \* its transaction: "none", "open", or answered: "ran", "refused"
    request,     \* what that writes, while it is open
    runs,        \* history: how often the command has run for it
    unreadable   \* history: the controller could not open an answer

accessoryVars  == <<epoch, sequence, connected, session, response, cache>>
controllerVars == <<outstanding, controller, txn, request, runs, unreadable>>
linkVars       == <<link, links, closing>>
vars == <<accessoryVars, controllerVars, linkVars, queue, worker, binder, main, drops>>

\* A session, by the key that both ends have agreed on.  The stage is "m2"
\* after the first half of Pair Verify, "m4" after the second, and "active"
\* when M4 has been read.  "of" is the connection its request came by.
Session(key, stage, wrote, read, of) ==
    [key |-> key, stage |-> stage, wrote |-> wrote, read |-> read, of |-> of]
NoSession == Session(0, "none", 0, 0, 0)
Active == session.stage = "active"

\* A response: "m2" with its key, "m4", "error"; "ran", "refused".
Response(what, tid, key) == [what |-> what, tid |-> tid, key |-> key]
NoResponse == Response("none", 0, 0)

NoEntry == [body |-> "none", response |-> NoResponse]

\* A request in the queue; a frame is sealed with a key and a nonce.
Task(kind, tid, body, key, nonce) ==
    [kind |-> kind, epoch |-> epoch, link |-> link, tid |-> tid, body |-> body,
     key |-> key, nonce |-> nonce]
NoTask == [kind |-> "none", epoch |-> 0, link |-> 0, tid |-> 0, body |-> "none",
           key |-> 0, nonce |-> 0]

\* The worker with its task, the response at hand, and the seal of an answer.
Working(at, task, answer, key, nonce) ==
    [at |-> at, task |-> task, answer |-> answer, key |-> key, nonce |-> nonce]
Resting == Working("rest", NoTask, NoResponse, 0, 0)

Controller(phase, key, sent, got) ==
    [phase |-> phase, key |-> key, sent |-> sent, got |-> got]
Stranger == Controller("new", 0, 0, 0)

\* What a write writes: a transaction identifier and a value.
Writes == Tids \X Bodies
NoRequest == <<0, "none">>

Init ==
    /\ epoch = 0
    /\ sequence = 0
    /\ connected = FALSE
    /\ session = NoSession
    /\ response = [verify |-> NoResponse, control |-> NoResponse]
    /\ cache = NoEntry
    /\ queue = << >>
    /\ worker = Resting
    /\ binder = "idle"
    /\ main = "idle"
    /\ drops = {}
    /\ link = 0
    /\ links = 0
    /\ closing = FALSE
    /\ outstanding = FALSE
    /\ controller = Stranger
    /\ txn = "none"
    /\ request = NoRequest
    /\ runs = 0
    /\ unreadable = FALSE

-----------------------------------------------------------------------------
(* The connection callbacks. *)

CallbackRest == <<queue, worker, main, drops>>

BumpEpoch == sequence' = sequence + 1 /\ epoch' = sequence + 1

LinkUp ==
    /\ binder = "idle"
    /\ link = 0
    /\ links < MaxConnections
    /\ links' = links + 1
    /\ link' = links + 1
    /\ binder' = "connect"
    /\ UNCHANGED <<accessoryVars, controllerVars, closing, CallbackRest>>

ConnectBumps ==
    /\ binder = "connect"
    /\ BumpEpoch
    /\ cache' = NoEntry
    /\ binder' = "clear"
    /\ UNCHANGED <<connected, session, response, controllerVars, linkVars, CallbackRest>>

ConnectClears ==
    /\ binder = "clear"
    /\ session' = NoSession
    /\ response' = [verify |-> NoResponse, control |-> NoResponse]
    /\ connected' = TRUE
    /\ binder' = "idle"
    /\ UNCHANGED <<epoch, sequence, cache, controllerVars, linkVars, CallbackRest>>

\* What the controller has left when its connection ends.
ControllerLoses ==
    /\ link' = 0
    /\ closing' = FALSE
    /\ outstanding' = FALSE
    /\ controller' = Stranger
    /\ txn' = "none"
    /\ request' = NoRequest
    /\ runs' = 0
    /\ UNCHANGED <<links, unreadable>>

\* The connection ends, for whatever reason.
LinkDown ==
    /\ binder = "idle"
    /\ link # 0
    /\ ControllerLoses
    /\ binder' = "disconnect"
    /\ UNCHANGED <<accessoryVars, CallbackRest>>

DisconnectBumps ==
    /\ binder = "disconnect"
    /\ BumpEpoch
    /\ cache' = NoEntry
    /\ connected' = FALSE
    /\ binder' = "clean"
    /\ UNCHANGED <<session, response, controllerVars, linkVars, CallbackRest>>

DisconnectCleans ==
    /\ binder = "clean"
    /\ session' = NoSession
    /\ response' = [verify |-> NoResponse, control |-> NoResponse]
    /\ binder' = "idle"
    /\ UNCHANGED <<epoch, sequence, connected, cache, controllerVars, linkVars, CallbackRest>>

-----------------------------------------------------------------------------
(* The controller's requests, and dispatchGatt. *)

\* A request is queued; or dropped with its peer, when requests of other peers
\* fill the queue.
Dispatch(task) ==
    /\ binder = "idle"
    /\ link # 0
    /\ ~outstanding
    /\ outstanding' = TRUE
    /\ \/ queue' = Append(queue, task) /\ UNCHANGED drops
       \/ drops' = drops \cup {epoch} /\ UNCHANGED queue
    /\ UNCHANGED <<accessoryVars, linkVars, worker, binder, main, unreadable>>

Plainly(kind) == Task(kind, 0, "none", controller.key, 0)

SendM1 ==
    /\ controller.phase = "new"
    /\ controller' = Controller("m1", 0, 0, 0)
    /\ Dispatch(Plainly("m1"))
    /\ UNCHANGED <<txn, request, runs>>

SendM3 ==
    /\ controller.phase = "m2"
    /\ controller' = Controller("m3", controller.key, 0, 0)
    /\ Dispatch(Plainly("m3"))
    /\ UNCHANGED <<txn, request, runs>>

\* The answers to M1 and M3.
ReadVerify ==
    /\ controller.phase \in {"m1", "m3"}
    /\ Dispatch(Plainly("readVerify"))
    /\ UNCHANGED <<controller, txn, request, runs>>

SendFrame(r) ==
    /\ controller.phase = "active"
    /\ controller.sent < MaxFrames
    /\ controller' = [controller EXCEPT !.sent = @ + 1]
    /\ Dispatch(Task("write", r[1], r[2], controller.key, controller.sent))

\* A new transaction, whose identifier may have been used before; or another
\* value before the last one was answered.
Write(r) ==
    /\ r # request
    /\ SendFrame(r)
    /\ txn' = "open"
    /\ request' = r
    /\ runs' = 0

Rewrite ==
    /\ txn = "open"
    /\ SendFrame(request)
    /\ UNCHANGED <<txn, request, runs>>

ReadControl ==
    /\ txn = "open"
    /\ Dispatch(Plainly("readControl"))
    /\ UNCHANGED <<controller, txn, request, runs>>

-----------------------------------------------------------------------------
(* The protocol worker. *)

WorkerRest == <<epoch, sequence, connected, linkVars, binder, main>>

Current == worker.task.epoch = epoch
At(step, kinds) == worker.at = step /\ worker.task.kind \in kinds
Goes(step) == worker' = [worker EXCEPT !.at = step]
Answers(what, tid, key) ==
    worker' = [worker EXCEPT !.at = "check", !.answer = Response(what, tid, key)]

\* A request whose connection has ended is not done.
Take ==
    /\ worker = Resting
    /\ queue # << >>
    /\ queue' = Tail(queue)
    /\ worker' = IF Head(queue).epoch = epoch
                 THEN Working("begin", Head(queue), NoResponse, 0, 0) ELSE Resting
    /\ UNCHANGED <<session, response, cache, drops, controllerVars, WorkerRest>>

\* A request that has waited for 5 s is not done, and its peer is dropped.
TakeLate ==
    /\ worker = Resting
    /\ queue # << >>
    /\ queue' = Tail(queue)
    /\ drops' = drops \cup {Head(queue).epoch}
    /\ UNCHANGED <<session, response, cache, worker, controllerVars, WorkerRest>>

\* Mutant: the outcomes of the last session stay in the replay cache.
VerifyM2KeepsOutcomes ==
    /\ At("begin", {"m1"})
    /\ session' = Session(worker.task.link, "m2", 0, 0, worker.task.link)
    /\ Answers("m2", 0, worker.task.link)
    /\ UNCHANGED <<response, cache, queue, drops, controllerVars, WorkerRest>>

\* pairVerifyM2, which does not look whether the request is still current.  A
\* key is as good as the connection it is made for, since the controller
\* verifies once.
VerifyM2 ==
    /\ At("begin", {"m1"})
    /\ cache' = NoEntry
    /\ session' = Session(worker.task.link, "m2", 0, 0, worker.task.link)
    /\ Answers("m2", 0, worker.task.link)
    /\ UNCHANGED <<response, queue, drops, controllerVars, WorkerRest>>

\* pairVerifyM4.
VerifyM4 ==
    /\ At("begin", {"m3"})
    /\ IF session # NoSession /\ session.key = worker.task.key
       THEN session' = [session EXCEPT !.stage = "m4"] /\ Answers("m4", 0, 0)
       ELSE Answers("error", 0, 0) /\ UNCHANGED session
    /\ UNCHANGED <<response, cache, queue, drops, controllerVars, WorkerRest>>

\* handleHapPduWrite: a frame opens with the session's key and next nonce.
\* Read without a session it makes no request.
Open ==
    /\ At("begin", {"write"})
    /\ IF Active /\ worker.task.key = session.key /\ worker.task.nonce = session.wrote
       THEN /\ session' = [session EXCEPT !.wrote = @ + 1]
            /\ Goes("authorize")
            /\ UNCHANGED drops
       ELSE /\ drops' = IF Active THEN drops \cup {worker.task.epoch} ELSE drops
            /\ Goes("reply")
            /\ UNCHANGED session
    /\ UNCHANGED <<response, cache, queue, controllerVars, WorkerRest>>

\* processHapPdu, up to the replay of an outstanding transaction.
Replayed == /\ response.control.tid = worker.task.tid
            /\ cache.response.tid = worker.task.tid
            /\ cache.body = worker.task.body

\* Mutant: a transaction that is outstanding is never found.
AuthorizeAgain ==
    /\ At("authorize", {"write"})
    /\ IF Active THEN Goes("decide") /\ UNCHANGED response
       ELSE /\ response' = [response EXCEPT !.control = Response("refused", worker.task.tid, 0)]
            /\ Goes("reply")
    /\ UNCHANGED <<session, cache, queue, drops, controllerVars, WorkerRest>>

Authorize ==
    /\ At("authorize", {"write"})
    /\ \/ /\ ~Active
          /\ response' = [response EXCEPT !.control = Response("refused", worker.task.tid, 0)]
          /\ Goes("reply")
       \/ /\ Active /\ Replayed
          /\ response' = [response EXCEPT !.control = cache.response]
          /\ Goes("reply")
       \/ /\ Active /\ ~Replayed
          /\ Goes("decide")
          /\ UNCHANGED response
    /\ UNCHANGED <<session, cache, queue, drops, controllerVars, WorkerRest>>

\* The command is disabled in the app, or the value is no value of it.
Refuse ==
    /\ At("decide", {"write"})
    /\ Answers("refused", worker.task.tid, 0)
    /\ UNCHANGED <<session, response, cache, queue, drops, controllerVars, WorkerRest>>

\* Mutant: the command runs although its connection has ended.
DecideAnyway ==
    /\ At("decide", {"write"})
    /\ Goes("run")
    /\ UNCHANGED <<session, response, cache, queue, drops, controllerVars, WorkerRest>>

\* The last look at the connection before the command runs.
Decide ==
    /\ At("decide", {"write"})
    /\ IF Current THEN Goes("run") ELSE worker' = Resting
    /\ UNCHANGED <<session, response, cache, queue, drops, controllerVars, WorkerRest>>

\* The command begins, whatever has become of the connection since that look.
Execute ==
    /\ At("run", {"write"})
    /\ Goes("execute")
    /\ runs' = IF worker.task.link = link THEN runs + 1 ELSE runs
    /\ UNCHANGED <<session, response, cache, queue, drops, outstanding, controller, txn,
                   request, unreadable, WorkerRest>>

Executed ==
    /\ At("execute", {"write"})
    /\ Answers("ran", worker.task.tid, 0)
    /\ UNCHANGED <<session, response, cache, queue, drops, controllerVars, WorkerRest>>

\* The end of processHapPdu: an outcome is not kept for a connection that has
\* ended; but it may end between the look and the two assignments.
Check ==
    /\ worker.at = "check"
    /\ IF Current THEN Goes("store") ELSE worker' = Resting
    /\ UNCHANGED <<session, response, cache, queue, drops, controllerVars, WorkerRest>>

Store ==
    /\ worker.at = "store"
    /\ IF worker.task.kind = "write"
       THEN /\ response' = [response EXCEPT !.control = worker.answer]
            /\ cache' = [body |-> worker.task.body, response |-> worker.answer]
       ELSE response' = [response EXCEPT !.verify = worker.answer] /\ UNCHANGED cache
    /\ Goes("reply")
    /\ UNCHANGED <<session, queue, drops, controllerVars, WorkerRest>>

\* Mutant: the nonce is not counted on.
SealAlike ==
    /\ At("begin", {"readVerify", "readControl"})
    /\ LET answer == IF worker.task.kind = "readVerify"
                     THEN response.verify ELSE response.control
       IN worker' = IF Active /\ answer # NoResponse
                    THEN Working("reply", worker.task, answer, session.key, session.read)
                    ELSE Working("reply", worker.task, answer, 0, 0)
    /\ UNCHANGED <<session, response, cache, queue, drops, controllerVars, WorkerRest>>

\* onCharacteristicReadRequest: an answer in an active session is sealed.
Seal ==
    /\ At("begin", {"readVerify", "readControl"})
    /\ LET answer == IF worker.task.kind = "readVerify"
                     THEN response.verify ELSE response.control
       IN IF Active /\ answer # NoResponse
          THEN /\ worker' = Working("reply", worker.task, answer, session.key, session.read)
               /\ session' = [session EXCEPT !.read = @ + 1]
          ELSE /\ worker' = Working("reply", worker.task, answer, 0, 0)
               /\ UNCHANGED session
    /\ UNCHANGED <<response, cache, queue, drops, controllerVars, WorkerRest>>

\* What the controller makes of an answer.
Hears ==
    LET what == worker.answer.what
        opens == worker.key = controller.key /\ worker.nonce = controller.got
        sealed == controller.phase = "active"
    IN /\ controller' =
             CASE sealed /\ opens -> [controller EXCEPT !.got = @ + 1]
               [] ~sealed /\ worker.key = 0 /\ controller.phase = "m1" /\ what = "m2" ->
                     Controller("m2", worker.answer.key, 0, 0)
               [] ~sealed /\ worker.key = 0 /\ controller.phase = "m3" /\ what = "m4" ->
                     Controller("active", controller.key, 0, 0)
               [] OTHER -> Controller("failed", 0, 0, 0)
       /\ IF sealed /\ opens THEN txn' = what /\ request' = NoRequest /\ runs' = 0
          ELSE UNCHANGED <<txn, request, runs>>
       /\ unreadable' = (unreadable \/ (sealed /\ ~opens))

Acknowledges == worker.task.kind \in {"m1", "m3", "write"}

\* replyGatt: nothing is sent for a connection that has ended, and a peer that
\* cannot be answered is dropped.
Reply ==
    /\ worker.at = "reply"
    /\ worker' = IF Acknowledges \/ worker.answer = NoResponse THEN Resting
                 ELSE [worker EXCEPT !.at = "complete"]
    /\ \/ /\ Current /\ link = worker.task.link
          /\ outstanding' = FALSE
          /\ IF Acknowledges THEN UNCHANGED <<controller, txn, request, runs, unreadable>> ELSE Hears
          /\ UNCHANGED drops
       \/ /\ Current /\ link # worker.task.link
          /\ drops' = drops \cup {worker.task.epoch}
          /\ UNCHANGED <<outstanding, controller, txn, request, runs, unreadable>>
       \/ /\ ~Current
          /\ UNCHANGED <<outstanding, controller, txn, request, runs, unreadable, drops>>
    /\ UNCHANGED <<session, response, cache, queue, WorkerRest>>

\* After the reply: M4 makes the session active; a transaction is complete.
CompleteVerify ==
    /\ At("complete", {"readVerify"})
    /\ session' = IF session.stage = "m4" THEN [session EXCEPT !.stage = "active"] ELSE session
    /\ response' = IF response.verify = worker.answer
                   THEN [response EXCEPT !.verify = NoResponse] ELSE response
    /\ worker' = Resting
    /\ UNCHANGED <<cache, queue, drops, controllerVars, WorkerRest>>

CompleteControl ==
    /\ At("complete", {"readControl"})
    /\ response' = IF response.control = worker.answer
                   THEN [response EXCEPT !.control = NoResponse] ELSE response
    /\ cache' = IF cache.response.tid = worker.answer.tid THEN NoEntry ELSE cache
    /\ worker' = Resting
    /\ UNCHANGED <<session, queue, drops, controllerVars, WorkerRest>>

-----------------------------------------------------------------------------
(* The main thread. *)

MainRest == <<connected, response, queue, worker, binder, controllerVars, link, links>>

\* A disconnectPeer that was posted: is its connection still there?
Drop(e) ==
    /\ main = "idle"
    /\ e \in drops
    /\ drops' = drops \ {e}
    /\ main' = IF e = epoch /\ connected THEN "bump" ELSE "idle"
    /\ UNCHANGED <<epoch, sequence, session, cache, closing, MainRest>>

\* healthCheck: the handshake or an indication takes too long.  It does not say
\* so again for a connection that is being closed.
HealthDrops ==
    /\ main = "idle"
    /\ connected
    /\ link # 0
    /\ ~closing
    /\ main' = "bump"
    /\ UNCHANGED <<epoch, sequence, session, cache, drops, closing, MainRest>>

\* disconnectPeer invalidates queued work first ...
DropBumps ==
    /\ main = "bump"
    /\ BumpEpoch
    /\ main' = "forget"
    /\ UNCHANGED <<session, cache, drops, closing, MainRest>>

\* ... then forgets the session ...
DropForgets ==
    /\ main = "forget"
    /\ session' = NoSession
    /\ cache' = NoEntry
    /\ main' = "cancel"
    /\ UNCHANGED <<epoch, sequence, drops, closing, MainRest>>

\* Mutant: the connection is left open.
CancelNothing ==
    /\ main = "cancel"
    /\ main' = "idle"
    /\ UNCHANGED <<epoch, sequence, session, cache, drops, closing, MainRest>>

\* ... and has the stack close the connection, whose callback must come.
Cancel ==
    /\ main = "cancel"
    /\ closing' = (link # 0)
    /\ main' = "idle"
    /\ UNCHANGED <<epoch, sequence, session, cache, drops, MainRest>>

\* The outcome of a transaction is kept for 10 s; the controller gives up on
\* its transaction before that.
Age ==
    /\ txn # "open"
    /\ cache # NoEntry
    /\ cache' = NoEntry
    /\ UNCHANGED <<epoch, sequence, session, main, drops, closing, MainRest>>

\* stopProbe and startProbe.  The new queue has a thread of its own: the old one
\* goes on with its task, but a command that runs holds nobody up.
Restart ==
    /\ main = "idle"
    /\ binder = "idle"
    /\ epoch # 0
    /\ epoch' = 0
    /\ connected' = FALSE
    /\ session' = NoSession
    /\ response' = [verify |-> NoResponse, control |-> NoResponse]
    /\ cache' = NoEntry
    /\ queue' = << >>
    /\ worker' = IF worker.at = "execute" THEN Resting ELSE worker
    /\ ControllerLoses
    /\ UNCHANGED <<sequence, binder, main, drops>>

-----------------------------------------------------------------------------
Callback == ConnectBumps \/ ConnectClears \/ DisconnectBumps \/ DisconnectCleans

Send == SendM1 \/ SendM3 \/ ReadVerify \/ Rewrite \/ ReadControl
        \/ \E r \in Writes : Write(r)

Work == \/ Take \/ TakeLate \/ VerifyM2 \/ VerifyM4
        \/ Open \/ Authorize \/ Refuse \/ Decide \/ Execute \/ Check \/ Store
        \/ Seal \/ Reply \/ CompleteVerify \/ CompleteControl

DropPosted == \E e \in drops : Drop(e)
Dropping == DropBumps \/ DropForgets \/ Cancel

Next == \/ LinkUp \/ LinkDown \/ Callback \/ Send
        \/ Work \/ Executed
        \/ DropPosted \/ HealthDrops \/ Dropping \/ Age \/ Restart

\* Threads and posts go on, except that a command may never end: then the
\* health check restarts the probe.  The stack closes a connection it is told
\* to (after 2 s without its callback the probe is restarted).
Fairness ==
    /\ WF_vars(Callback) /\ WF_vars(Work)
    /\ WF_vars(DropPosted) /\ WF_vars(Dropping)
    /\ WF_vars(closing /\ LinkDown)
    /\ WF_vars(worker.at = "execute" /\ Restart)

Spec == Init /\ [][Next]_vars /\ Fairness

-----------------------------------------------------------------------------
Sessions == [key : 0..MaxConnections, stage : {"none", "m2", "m4", "active"},
             wrote : 0..MaxFrames, read : Nat, of : 0..MaxConnections]
Responses == [what : {"none", "m2", "m4", "error", "ran", "refused"},
              tid : Tids \cup {0}, key : 0..MaxConnections]
Entries == [body : Bodies \cup {"none"}, response : Responses]
Tasks == [kind : {"none", "m1", "m3", "readVerify", "write", "readControl"},
          epoch : Nat, link : 0..MaxConnections, tid : Tids \cup {0},
          body : Bodies \cup {"none"}, key : 0..MaxConnections, nonce : 0..MaxFrames]
Queues == Seq(Tasks)
Workers == [at : {"rest", "begin", "authorize", "decide", "run", "execute", "check", "store",
                  "reply", "complete"},
            task : Tasks, answer : Responses, key : 0..MaxConnections, nonce : Nat]
Controllers == [phase : {"new", "m1", "m2", "m3", "active", "failed"},
                key : 0..MaxConnections, sent : 0..MaxFrames, got : Nat]

\* The type invariant.
TypeOK ==
    /\ sequence \in Nat
    /\ epoch \in 0..sequence
    /\ connected \in BOOLEAN
    /\ session \in Sessions
    /\ response \in [verify : Responses, control : Responses]
    /\ cache \in Entries
    /\ queue \in Queues
    /\ worker \in Workers
    /\ binder \in {"idle", "connect", "clear", "disconnect", "clean"}
    /\ main \in {"idle", "bump", "forget", "cancel"}
    /\ drops \subseteq 0..sequence
    /\ links \in 0..MaxConnections
    /\ link \in {0, links}
    /\ closing \in BOOLEAN
    /\ closing => link # 0
    /\ outstanding \in BOOLEAN
    /\ controller \in Controllers
    /\ txn \in {"none", "open", "ran", "refused"}
    /\ request \in Writes \cup {NoRequest}
    /\ runs \in Nat
    /\ unreadable \in BOOLEAN

\* While the controller waits for nothing, both ends of the session have
\* counted the same frames in each direction, although requests of an earlier
\* connection may still be done, expire or fail.
NoncesAgree ==
    controller.phase = "active" /\ ~outstanding /\ Active /\ session.of = link
        => /\ session.key = controller.key
           /\ session.wrote = controller.sent
           /\ session.read = controller.got

\* disconnectPeer has forgotten the session; the connection is still open.
BeingDropped == session = NoSession /\ (main = "cancel" \/ closing)

\* An answer that reaches a controller with an active session opens: it is
\* sealed for that session with the next nonce.  The exception is a request
\* that comes while its peer is being dropped.
AnswersOpenUntilDropped == [][unreadable' # unreadable => BeingDropped]_vars

\* "Pair Verify M4 itself is the final plaintext response.  Every later HAP
\* procedure uses the accessory-to-controller key."
AnswersOpen == ~unreadable

\* A command is decided on only while the connection that its frame came by is
\* up, or has gone without its callback having come; never for another
\* connection or after a restart.  It may begin later than that, when the end of
\* the connection is known, but before a later connection has a session: what
\* it finds is its own session or none.
CommandsAreOfConnection ==
    [][/\ worker.at # "run" /\ worker'.at = "run"
            => link = worker.task.link \/ (link = 0 /\ binder = "disconnect")
       /\ worker.at # worker'.at /\ worker'.at \in {"run", "execute"}
            => session = NoSession \/ (Active /\ session.key = worker.task.key)]_vars

\* Writes keep their contract: at most one run for a transaction however often
\* it is repeated, and an answer that is the answer of that transaction.
Contract == INSTANCE CommandContract WITH txn <- txn, runs <- runs
WritesKeepContract == Contract!Spec

\* Every request is answered, or its connection ends: none is forgotten by a
\* full queue, an expiry, a failure or a command that never ends.
RequestsAreAnswered == outstanding ~> ~outstanding
=============================================================================
