-------------------------------- MODULE Probe --------------------------------
(***************************************************************************)
(* The life of the BLE peripheral in HomeKitRuntime: the probe.  A probe   *)
(* opens a GATT server on a worker thread, adds the accessory's services   *)
(* one by one, then advertises; it is stopped and started again by         *)
(* failures, time limits, the health check, the state of Bluetooth and     *)
(* requests to the service.                                                *)
(*                                                                         *)
(* Everything here runs on the main thread except the opener threads and   *)
(* the connection callbacks, which run on binder threads and touch the     *)
(* same fields.  The main thread's queue is the set posts; posts that      *)
(* different threads made, or that were delayed, have no order.            *)
(*                                                                         *)
(* probeGeneration is only ever compared for equality, so a post or a      *)
(* thread carries, instead of the number, whether it is still current;     *)
(* each increment of the generation outdates all that exist.               *)
(***************************************************************************)
EXTENDS Naturals, FiniteSets, Sequences

CONSTANTS
    Servers,           \* handles of GATT servers
    NoServer,          \* `server` is null
    Services,          \* how many services the database has
    MaxAttempts,       \* GATT_OPEN_MAX_ATTEMPTS
    ProtocollessLimit, \* PROTOCOLLESS_DISCONNECT_RESTART_THRESHOLD
    MaxDisturbances    \* bound: faults and demands the environment may make

ASSUME ServersAssumption == NoServer \notin Servers
ASSUME LimitsAssumption ==
    /\ Services \in Nat \ {0}
    /\ MaxAttempts \in Nat \ {0}
    /\ ProtocollessLimit \in Nat \ {0}
    /\ MaxDisturbances \in Nat

VARIABLES
    adapter,         \* Bluetooth: "off", "turningOn" or "on"
    broadcasts,      \* ACTION_STATE_CHANGED broadcasts not delivered yet
    registered,      \* the servers open in the Bluetooth stack
    published,       \* how many services the stack has added to each server
    adding,          \* the addService request the stack works on
    advert,          \* what the stack does for advertiseCallback
    orphan,          \* the stack advertises for a callback nobody holds
    link,            \* the controller's connection, as the stack knows it
    up,              \* the service exists and has not been destroyed
    server,
    starting,
    advertising,
    modeDue,         \* activeAdvertiseMode differs from the desired mode
    startupTimeout,  \* the startup timeout is armed
    recoveryPending, \* recoveryRunnable is scheduled
    pendingServices, \* how many services are still to be added
    pendingService,  \* the service being added, 0 for none
    handshake,       \* connectionStartedAt and the session that stops it
    connected,       \* connectedDevices and connectedDeviceRefs
    streak,          \* protocollessDisconnectStreak
    openers,         \* the threads in openGattServerWithRetry
    posts,           \* what the main thread still has to run
    binder,          \* where the connection callback is
    overwritten,     \* history: servers that lost their handle while open
    disturbed        \* how many disturbances there have been

radioVars   == <<adapter, broadcasts>>
stackVars   == <<registered, published, adding, advert, orphan, link>>
publishVars == <<server, pendingServices, pendingService>>
startVars   == <<starting, startupTimeout, recoveryPending>>
advertVars  == <<advertising, modeDue>>
peerVars    == <<handshake, connected>>
probeVars == <<radioVars, stackVars, up, publishVars, startVars, advertVars, peerVars,
          streak, openers, posts, binder, overwritten, disturbed>>

Post(kind, s, n) == [kind |-> kind, current |-> TRUE, server |-> s, service |-> n]
Plain(kind) == Post(kind, NoServer, 0)

Kinds == {"opened", "openFailed", "serviceAdded", "advertStarted",
          "advertFailed", "start", "readvertise", "scheduleRecovery",
          "disconnectDeadline"}

Outdated(S) == {[x EXCEPT !.current = FALSE] : x \in S}
\* What the posts of these kinds were made for has changed.
OutdatedOf(kinds, S) ==
    {p \in S : p.kind \notin kinds} \cup Outdated({p \in S : p.kind \in kinds})

AdvertPosts     == {"advertStarted", "advertFailed"}
DeadlinePosts   == {"disconnectDeadline"}
\* The posts that are compared with the generation.
GenerationPosts == {"opened", "openFailed", "serviceAdded"} \cup AdvertPosts \cup DeadlinePosts

Calm    == UNCHANGED disturbed
Disturb == disturbed < MaxDisturbances /\ disturbed' = disturbed + 1

-----------------------------------------------------------------------------
(***************************************************************************)
(* What the handlers are made of.  `rest` is what remains in posts once    *)
(* the handler has taken its own post.                                     *)
(***************************************************************************)

\* A connection callback that has not checked its generation yet will do
\* nothing once that has changed; one that has passed the check goes on.
OutdateBinder ==
    binder' = IF binder \in {"connect", "disconnect"} THEN "none" ELSE binder

\* What stopProbe clears, the startup state apart; s is the server it closes.
Reset(rest, s) ==
    /\ posts' = OutdatedOf(GenerationPosts, rest)
    /\ OutdateBinder
    /\ advert' = "none"
    /\ registered' = registered \ {s}
    /\ adding' = Outdated({a \in adding : a.server # s})
    /\ link' = "none"
    /\ server' = NoServer
    /\ pendingServices' = 0
    /\ pendingService' = 0
    /\ handshake' = "none"
    /\ connected' = FALSE
    /\ advertising' = FALSE
    /\ modeDue' = FALSE
    /\ UNCHANGED <<published, orphan>>

StoppedStarting(recover) ==
    /\ starting' = FALSE
    /\ startupTimeout' = FALSE
    /\ recoveryPending' = recover
    /\ openers' = Outdated(openers)

\* stopProbe(), with or without the recovery failProbe schedules after it.
StopProbe(rest, recover) ==
    /\ Reset(rest, server)
    /\ StoppedStarting(recover)
    /\ UNCHANGED overwritten

FailProbe(rest) == StopProbe(rest, TRUE)

\* Mutant: a start without the time limit.
LaunchUntimed ==
    /\ starting' = TRUE
    /\ recoveryPending' = FALSE
    /\ openers' = Outdated(openers) \cup {[current |-> TRUE, at |-> "check", attempt |-> 1]}
    /\ UNCHANGED startupTimeout

\* The end of startProbe(): a new opener, and a time limit for the whole start.
Launch ==
    /\ starting' = TRUE
    /\ startupTimeout' = TRUE
    /\ recoveryPending' = FALSE
    /\ openers' = Outdated(openers) \cup {[current |-> TRUE, at |-> "check", attempt |-> 1]}

\* stopProbe() followed by startProbe(), which fails, finds Bluetooth disabled
\* or launches an opener.
Restart(rest) ==
    \/ adapter = "on" /\ Calm /\ Reset(rest, server) /\ Launch /\ UNCHANGED overwritten
    \/ adapter = "on" /\ Disturb /\ FailProbe(rest)
    \/ adapter # "on" /\ Calm /\ StopProbe(rest, adapter = "turningOn")

\* startProbe() alone.  It looks at advertising and starting, not at server.
StartProbe(rest) ==
    \/ /\ advertising \/ starting
       /\ Calm
       /\ posts' = rest
       /\ UNCHANGED <<stackVars, publishVars, startVars, advertVars, peerVars,
                      openers, binder, overwritten>>
    \/ /\ ~advertising /\ ~starting
       /\ adapter = "on"
       /\ Calm
       /\ posts' = OutdatedOf(GenerationPosts, rest)
       /\ adding' = Outdated(adding)
       /\ OutdateBinder
       /\ Launch
       /\ UNCHANGED <<registered, published, advert, orphan, link, publishVars,
                      advertVars, peerVars, overwritten>>
    \/ /\ ~advertising /\ ~starting
       /\ adapter = "on"
       /\ Disturb
       /\ FailProbe(rest)
    \/ /\ ~advertising /\ ~starting
       /\ adapter # "on"
       /\ Calm
       /\ StopProbe(rest, adapter = "turningOn")

\* startAdvertisingAfterGattPublished(), called with `server` not null; n is
\* pendingService.
StartAdvertising(rest, n) ==
    \/ /\ adapter = "on"
       /\ Calm
       /\ starting' = TRUE
       /\ startupTimeout' = TRUE
       /\ advert' = "asked"
       /\ orphan' = (orphan \/ advert # "none")
       /\ posts' = OutdatedOf(AdvertPosts, rest)
       /\ modeDue' = FALSE
       /\ pendingService' = n
       /\ UNCHANGED <<registered, published, adding, link, server, pendingServices,
                      recoveryPending, advertising, peerVars, openers, binder, overwritten>>
    \/ adapter = "on" /\ Disturb /\ FailProbe(rest)
    \/ adapter # "on" /\ Calm /\ FailProbe(rest)

\* addNextService() with a service left: service n goes to s, which is the
\* server from now on, or is refused.
AddService(rest, s, n) ==
    LET lost == ({server} \ {s, NoServer}) \cap registered
    IN /\ overwritten' = overwritten \cup lost
       /\ \/ /\ s \in registered
             /\ Calm
             /\ adding' = adding \cup {[current |-> TRUE, server |-> s, service |-> n]}
             /\ server' = s
             /\ pendingService' = n
             /\ pendingServices' = Services - n
             /\ posts' = rest
             /\ UNCHANGED <<registered, published, advert, orphan, link, startVars,
                            advertVars, peerVars, openers, binder>>
          \/ /\ IF s \in registered THEN Disturb ELSE Calm
             /\ Reset(rest, s)
             /\ StoppedStarting(TRUE)

\* disconnectPeer(), called with a device in connectedDeviceRefs.
DisconnectPeer ==
    /\ handshake' = "none"
    /\ link' = IF link = "up" THEN "closing" ELSE link
    /\ posts' = posts \cup {Plain("disconnectDeadline")}

-----------------------------------------------------------------------------
\* onCreate has returned.  Nothing has begun; the first Reconcile does what the
\* startProbe of the first onStartCommand does.
ProbeInit ==
    /\ adapter = "on"
    /\ broadcasts = <<>>
    /\ registered = {}
    /\ published = [s \in Servers |-> 0]
    /\ adding = {}
    /\ advert = "none"
    /\ orphan = FALSE
    /\ link = "none"
    /\ up = TRUE
    /\ server = NoServer
    /\ starting = FALSE
    /\ advertising = FALSE
    /\ modeDue = FALSE
    /\ startupTimeout = FALSE
    /\ recoveryPending = FALSE
    /\ pendingServices = 0
    /\ pendingService = 0
    /\ handshake = "none"
    /\ connected = FALSE
    /\ streak = 0
    /\ openers = {}
    /\ posts = {}
    /\ binder = "none"
    /\ overwritten = {}
    /\ disturbed = 0

(* The opener threads: openGattServerWithRetry. *)

\* The loop's check of the generation, which a stop may follow at once.
CheckOpener(o) ==
    /\ o.at = "check"
    /\ openers' = (openers \ {o}) \cup (IF o.current THEN {[o EXCEPT !.at = "open"]} ELSE {})
    /\ UNCHANGED <<radioVars, stackVars, up, publishVars, startVars, advertVars,
                   peerVars, streak, posts, binder, overwritten, disturbed>>

\* A handle nobody holds any more is as good as new.
Held == registered \cup {server} \cup {p.server : p \in posts}

\* openGattServer gives a server, whose result is posted for the main thread.
OpenServer(o) ==
    /\ o.at = "open"
    /\ adapter = "on"
    /\ Servers \ Held # {}
    /\ LET s == CHOOSE s \in Servers : s \notin Held
       IN /\ registered' = registered \cup {s}
          /\ published' = [published EXCEPT ![s] = 0]
          /\ overwritten' = overwritten \ {s}
          /\ posts' = posts \cup {[Post("opened", s, 0) EXCEPT !.current = o.current]}
    /\ openers' = openers \ {o}
    /\ UNCHANGED <<radioVars, adding, advert, orphan, link, up, publishVars, startVars,
                   advertVars, peerVars, streak, binder, disturbed>>

\* openGattServer gives null, as it always does when Bluetooth is not on, and
\* is tried again; after the last attempt, or an exception, the loop ends.
OpenFails(o) ==
    /\ o.at = "open"
    /\ IF adapter = "on" THEN Disturb ELSE Calm
    /\ openers' = openers \ {o}
    /\ posts' = posts \cup {[Plain("openFailed") EXCEPT !.current = o.current]}
    /\ UNCHANGED <<radioVars, stackVars, up, publishVars, startVars, advertVars,
                   peerVars, streak, binder, overwritten>>

OpenRetries(o) ==
    /\ o.at = "open"
    /\ o.attempt < MaxAttempts
    /\ IF adapter = "on" THEN Disturb ELSE Calm
    /\ openers' = (openers \ {o}) \cup {[o EXCEPT !.at = "check", !.attempt = @ + 1]}
    /\ UNCHANGED <<radioVars, stackVars, up, publishVars, startVars, advertVars,
                   peerVars, streak, posts, binder, overwritten>>

(* The main thread. *)

OwnVars == <<radioVars, up, streak>>

\* Mutant: a late result is dropped as it is.
OpenedNotClosed(p) ==
    /\ p.kind = "opened"
    /\ \/ /\ p.current
          /\ AddService(posts \ {p}, p.server, 1)
       \/ /\ ~p.current
          /\ posts' = posts \ {p}
          /\ UNCHANGED <<stackVars, publishVars, startVars, advertVars, peerVars, openers,
                         binder, overwritten, disturbed>>
    /\ UNCHANGED OwnVars

\* A late result is closed, a current one becomes the server and gets the
\* first service.
Opened(p) ==
    /\ p.kind = "opened"
    /\ \/ /\ p.current
          /\ AddService(posts \ {p}, p.server, 1)
       \/ /\ ~p.current
          /\ registered' = registered \ {p.server}
          /\ posts' = posts \ {p}
          /\ UNCHANGED <<published, adding, advert, orphan, link, publishVars, startVars,
                         advertVars, peerVars, openers, binder, overwritten, disturbed>>
    /\ UNCHANGED OwnVars

\* Mutant: any attempt's callback moves the publication on.
ServiceAddedByAny(p) ==
    /\ p.kind = "serviceAdded"
    /\ pendingService # 0
    /\ LET rest == posts \ {p}
       IN \/ pendingServices > 0 /\ AddService(rest, server, pendingService + 1)
          \/ /\ pendingServices = 0
             /\ StartAdvertising(rest, 0)
             /\ UNCHANGED overwritten
    /\ UNCHANGED OwnVars

\* onServiceAdded, on the main thread.
ServiceAdded(p) ==
    /\ p.kind = "serviceAdded"
    /\ p.current
    /\ p.service = pendingService
    /\ LET rest == posts \ {p}
       IN \/ pendingServices > 0 /\ AddService(rest, server, pendingService + 1)
          \/ /\ pendingServices = 0
             /\ StartAdvertising(rest, 0)
             /\ UNCHANGED overwritten
          \/ Disturb /\ FailProbe(rest)
    /\ UNCHANGED OwnVars

\* onStartSuccess, on the main thread.
AdvertStarted(p) ==
    /\ p.kind = "advertStarted"
    /\ p.current
    /\ posts' = posts \ {p}
    /\ advertising' = TRUE
    /\ starting' = FALSE
    /\ startupTimeout' = FALSE
    /\ recoveryPending' = FALSE
    /\ UNCHANGED <<stackVars, publishVars, modeDue, peerVars, openers, binder,
                   overwritten, disturbed>>
    /\ UNCHANGED OwnVars

\* The reports of failure, and the deadline of disconnectPeer.
Failed(p) ==
    /\ p.kind \in {"openFailed", "advertFailed", "disconnectDeadline"}
    /\ p.current
    /\ FailProbe(posts \ {p})
    /\ Calm
    /\ UNCHANGED OwnVars

\* A post that finds its generation, callback, service or device changed.
Ignored(p) ==
    /\ p.kind \in {"openFailed", "serviceAdded", "advertStarted", "advertFailed",
                   "disconnectDeadline"}
    /\ ~p.current \/ (p.kind = "serviceAdded" /\ p.service # pendingService)
    /\ posts' = posts \ {p}
    /\ UNCHANGED <<stackVars, publishVars, startVars, advertVars, peerVars, openers,
                   binder, overwritten, disturbed>>
    /\ UNCHANGED OwnVars

\* onStartCommand without an action, or the delayed start after STATE_ON.
Start(p) ==
    /\ p.kind = "start"
    /\ StartProbe(posts \ {p})
    /\ UNCHANGED OwnVars

\* reconcileBleState leaves a start alone, and a connection.  The health check
\* asks for it whenever it has something to do, and so do alarms; the post
\* carries nothing and looks at everything when it runs.
Reconcile ==
    /\ up
    /\ ~starting /\ ~connected
    /\ ~advertising \/ server = NoServer \/ modeDue
    /\ Restart(posts)
    /\ UNCHANGED OwnVars

\* refreshAdvertisementWithCurrentState, posted whenever the state number moves:
\* the advertisement stops now and starts again 150 ms later.
Refresh ==
    /\ up
    /\ advertising /\ ~connected
    /\ adapter = "on"
    /\ advert' = "none"
    /\ advertising' = FALSE
    /\ posts' = OutdatedOf(AdvertPosts, posts) \cup {Plain("readvertise")}
    /\ UNCHANGED <<registered, published, adding, orphan, link, publishVars, startVars,
                   modeDue, peerVars, openers, binder, overwritten, disturbed>>
    /\ UNCHANGED OwnVars

\* Mutant: 150 ms later nobody asks whether a start is under way.
ReadvertiseDuringStart(p) ==
    /\ p.kind = "readvertise"
    /\ ~advertising /\ ~connected /\ server # NoServer
    /\ StartAdvertising(posts \ {p}, pendingService)
    /\ UNCHANGED overwritten
    /\ UNCHANGED OwnVars

Readvertise(p) ==
    /\ p.kind = "readvertise"
    /\ IF ~advertising /\ ~starting /\ ~connected /\ server # NoServer
       THEN StartAdvertising(posts \ {p}, pendingService) /\ UNCHANGED overwritten
       ELSE /\ posts' = posts \ {p}
            /\ UNCHANGED <<stackVars, publishVars, startVars, advertVars, peerVars,
                           openers, binder, overwritten, disturbed>>
    /\ UNCHANGED OwnVars

ScheduleRecovery(p) ==
    /\ p.kind = "scheduleRecovery"
    /\ posts' = posts \ {p}
    /\ recoveryPending' = TRUE
    /\ UNCHANGED <<stackVars, publishVars, starting, startupTimeout, advertVars, peerVars,
                   openers, binder, overwritten, disturbed>>
    /\ UNCHANGED OwnVars

\* recoveryRunnable, five seconds after it was scheduled.
Recover ==
    /\ recoveryPending
    /\ IF connected
       THEN /\ recoveryPending' = FALSE
            /\ UNCHANGED <<stackVars, publishVars, starting, startupTimeout, advertVars,
                           peerVars, openers, posts, binder, overwritten, disturbed>>
       ELSE Restart(posts)
    /\ UNCHANGED OwnVars

\* A start that is still moving.
Moving ==
    \/ \E o \in openers : o.current
    \/ \E p \in posts : p.current /\ p.kind \in {"opened", "openFailed", "serviceAdded",
                                                 "advertStarted", "advertFailed"}
    \/ \E a \in adding : a.current /\ a.server \in registered
    \/ advert = "asked"

\* The startup timeout.  It is a disturbance if it strikes a start that is
\* only slow; a start that waits for a lost callback always meets it.
StartupExpires ==
    /\ startupTimeout
    /\ starting
    /\ IF Moving THEN Disturb ELSE Calm
    /\ FailProbe(posts)
    /\ UNCHANGED OwnVars

\* healthCheck, every five seconds: a stalled worker, a peer that has not become
\* an active session in time; its third case is Reconcile.
WorkerStalled ==
    /\ up
    /\ Disturb
    /\ FailProbe(posts)
    /\ UNCHANGED OwnVars

HandshakeExpires ==
    /\ handshake = "waiting"
    /\ connected
    /\ DisconnectPeer
    /\ UNCHANGED <<registered, published, adding, advert, orphan, publishVars, startVars,
                   advertVars, connected, openers, binder, overwritten, disturbed>>
    /\ UNCHANGED OwnVars

\* bluetoothStateReceiver.  STATE_ON starts the probe after a delay.
Deliver ==
    /\ broadcasts # <<>>
    /\ broadcasts' = Tail(broadcasts)
    /\ IF Head(broadcasts) = "on"
       THEN /\ posts' = posts \cup {Plain("start")}
            /\ UNCHANGED <<stackVars, publishVars, startVars, advertVars, peerVars,
                           openers, binder, overwritten>>
       ELSE StopProbe(posts, FALSE)
    /\ UNCHANGED <<adapter, up, streak, disturbed>>

\* onDestroy after the health check found the command backend stalled.  Of the
\* posts only the late servers still do something.
Destroy ==
    /\ up
    /\ Disturb
    /\ up' = FALSE
    /\ Reset({p \in posts : p.kind = "opened"}, server)
    /\ StoppedStarting(FALSE)
    /\ broadcasts' = <<>>
    /\ streak' = 0
    /\ UNCHANGED <<adapter, overwritten>>

\* ensureRunning starts the service again: onCreate; ACTION_WATCHDOG reconciles.
Create ==
    /\ ~up
    /\ up' = TRUE
    /\ binder' = "none"
    /\ UNCHANGED <<radioVars, stackVars, publishVars, startVars, advertVars, peerVars,
                   streak, openers, posts, overwritten, disturbed>>

\* disconnectPeer for another reason: an indication that is not confirmed, a
\* task that overran or a response that could not be sent.
SessionFails ==
    /\ connected
    /\ Disturb
    /\ DisconnectPeer
    /\ UNCHANGED <<registered, published, adding, advert, orphan, publishVars, startVars,
                   advertVars, connected, openers, binder, overwritten>>
    /\ UNCHANGED OwnVars

(* The connection callbacks, on binder threads. *)

\* onConnectionStateChange(STATE_CONNECTED): the generation is checked first
\* (ConnectChecked), the fields are set one after the other.
ConnectChecked ==
    /\ binder = "connect"
    /\ binder' = "checked"
    /\ UNCHANGED <<radioVars, stackVars, up, publishVars, startVars, advertVars, peerVars,
                   streak, openers, posts, overwritten, disturbed>>

ConnectTimed ==
    /\ binder = "checked"
    /\ up
    /\ binder' = "timed"
    /\ handshake' = "waiting"
    /\ UNCHANGED <<radioVars, stackVars, up, publishVars, startVars, advertVars, connected,
                   streak, openers, posts, overwritten, disturbed>>

ConnectListed ==
    /\ binder = "timed"
    /\ up
    /\ binder' = "none"
    /\ connected' = TRUE
    /\ posts' = OutdatedOf(DeadlinePosts, posts)
    /\ UNCHANGED <<radioVars, stackVars, up, publishVars, startVars, advertVars, handshake,
                   streak, openers, overwritten, disturbed>>

\* onConnectionStateChange(STATE_DISCONNECTED).  A connection that never spoke
\* counts towards a restart; the Refresh it may ask for is always possible.
Disconnected ==
    /\ binder = "disconnect"
    /\ binder' = "none"
    /\ handshake' = "none"
    /\ connected' = FALSE
    /\ \E spoke \in BOOLEAN :
          LET silent == IF spoke THEN 0 ELSE streak + 1
              tired  == silent = ProtocollessLimit
          IN /\ streak' = IF tired THEN 0 ELSE silent
             /\ posts' = OutdatedOf(DeadlinePosts, posts)
                            \cup (IF tired THEN {Plain("scheduleRecovery")} ELSE {})
    /\ UNCHANGED <<radioVars, stackVars, up, publishVars, startVars, advertVars, openers,
                   overwritten, disturbed>>

(* The environment: the Bluetooth stack, the controller, the user. *)

stackRest == <<radioVars, up, publishVars, startVars, advertVars, peerVars, streak,
               openers, overwritten>>

StackAdds(a) ==
    /\ a.server \in registered
    /\ published' = [published EXCEPT ![a.server] = @ + 1]
    /\ adding' = adding \ {a}
    /\ posts' = posts \cup {[Post("serviceAdded", a.server, a.service) EXCEPT !.current = a.current]}
    /\ UNCHANGED <<registered, advert, orphan, link, binder, disturbed>>
    /\ UNCHANGED stackRest

StackAdvertises ==
    /\ advert = "asked"
    /\ \/ Calm /\ advert' = "onAir" /\ posts' = posts \cup {Plain("advertStarted")}
       \/ Disturb /\ advert' = "none" /\ posts' = posts \cup {Plain("advertFailed")}
    /\ UNCHANGED <<registered, published, adding, orphan, link, binder>>
    /\ UNCHANGED stackRest

\* The stack never calls back.
LoseCallback(p) ==
    /\ p.kind \in {"serviceAdded", "advertStarted"}
    /\ Disturb
    /\ posts' = posts \ {p}
    /\ UNCHANGED <<stackVars, binder>>
    /\ UNCHANGED stackRest

PeerConnects ==
    /\ advert = "onAir"
    /\ link = "none"
    /\ binder = "none"
    /\ server \in registered
    /\ Disturb
    /\ link' = "up"
    /\ binder' = "connect"
    /\ UNCHANGED <<registered, published, adding, advert, orphan, posts>>
    /\ UNCHANGED stackRest

\* The link ends; the callback tells, unless it is lost, which is part of the
\* disturbance that the connection was.
LinkEnds ==
    /\ link # "none"
    /\ binder = "none"
    /\ link' = "none"
    /\ binder' \in {"disconnect", binder}
    /\ Calm
    /\ UNCHANGED <<registered, published, adding, advert, orphan, posts>>
    /\ UNCHANGED stackRest

PeerVerifies ==
    /\ link = "up"
    /\ connected
    /\ handshake = "waiting"
    /\ handshake' = "verified"
    /\ UNCHANGED <<radioVars, stackVars, up, publishVars, startVars, advertVars, connected,
                   streak, openers, posts, binder, overwritten, disturbed>>

\* The service is started again, or the hour changes the desired mode.
Demand ==
    /\ up
    /\ Disturb
    /\ \/ posts' = posts \cup {Plain("start")} /\ UNCHANGED modeDue
       \/ advertising /\ modeDue' = TRUE /\ UNCHANGED posts
    /\ UNCHANGED <<stackVars, publishVars, startVars, advertising, peerVars, openers,
                   binder, overwritten>>
    /\ UNCHANGED OwnVars

\* Bluetooth is switched off, which ends everything in the stack, or on.
Announce(state) == broadcasts' = IF up THEN Append(broadcasts, state) ELSE broadcasts

SwitchOff ==
    /\ adapter = "on"
    /\ Disturb
    /\ adapter' = "off"
    /\ Announce("off")
    /\ registered' = {}
    /\ adding' = {}
    /\ advert' = "none"
    /\ orphan' = FALSE
    /\ link' = "none"
    /\ overwritten' = {}
    /\ UNCHANGED <<published, up, publishVars, startVars, advertVars, peerVars, streak,
                   openers, posts, binder>>

SwitchOn ==
    /\ \/ adapter = "off" /\ adapter' = "turningOn" /\ UNCHANGED broadcasts
       \/ adapter = "turningOn" /\ adapter' = "on" /\ Announce("on")
    /\ UNCHANGED <<stackVars, up, publishVars, startVars, advertVars, peerVars, streak,
                   openers, posts, binder, overwritten, disturbed>>

-----------------------------------------------------------------------------
Open == \E o \in openers : CheckOpener(o) \/ OpenServer(o) \/ OpenFails(o) \/ OpenRetries(o)

Handle(p) ==
    \/ Opened(p) \/ ServiceAdded(p) \/ AdvertStarted(p) \/ Failed(p) \/ Ignored(p)
    \/ Start(p)  \/ Readvertise(p)  \/ ScheduleRecovery(p)

Callback == ConnectChecked \/ ConnectTimed \/ ConnectListed \/ Disconnected

ProbeNext ==
    \/ Open \/ Callback \/ Recover \/ StartupExpires \/ WorkerStalled
    \/ HandshakeExpires \/ SessionFails \/ Reconcile \/ Refresh \/ Deliver \/ Destroy \/ Create
    \/ \E p \in posts : Handle(p) \/ LoseCallback(p)
    \/ \E a \in adding : StackAdds(a)
    \/ StackAdvertises \/ PeerConnects \/ LinkEnds \/ PeerVerifies \/ Demand
    \/ SwitchOff \/ SwitchOn

\* Threads and timers go on, and the stack answers what it does not lose.
ProbeFairness ==
    /\ WF_probeVars(Open)
    /\ WF_probeVars(Callback)
    /\ WF_probeVars(Recover)
    /\ WF_probeVars(StartupExpires)
    /\ WF_probeVars(HandshakeExpires)
    /\ WF_probeVars(Reconcile)
    /\ WF_probeVars(Deliver)
    /\ WF_probeVars(Create)
    /\ \A k \in Kinds : WF_probeVars(\E p \in posts : p.kind = k /\ Handle(p))
    /\ WF_probeVars(\E a \in adding : StackAdds(a))
    /\ WF_probeVars(StackAdvertises)
    /\ WF_probeVars(link = "closing" /\ LinkEnds)

ProbeSpec == ProbeInit /\ [][ProbeNext]_probeVars /\ ProbeFairness

-----------------------------------------------------------------------------
\* The type invariant.
ProbeTypeOK ==
    /\ adapter \in {"off", "turningOn", "on"}
    /\ broadcasts \in Seq({"off", "on"})
    /\ registered \subseteq Servers
    /\ published \in [Servers -> Nat]
    /\ adding \subseteq [current : BOOLEAN, server : Servers, service : 1..Services]
    /\ advert \in {"none", "asked", "onAir"}
    /\ link \in {"none", "up", "closing"}
    /\ {orphan, up, starting, advertising, modeDue, startupTimeout, recoveryPending,
        connected} \subseteq BOOLEAN
    /\ server \in Servers \cup {NoServer}
    /\ pendingServices \in 0..Services
    /\ pendingService \in 0..Services
    /\ handshake \in {"none", "waiting", "verified"}
    /\ streak \in 0..(ProtocollessLimit - 1)
    /\ openers \subseteq [current : BOOLEAN, at : {"check", "open"}, attempt : 1..MaxAttempts]
    /\ posts \subseteq [kind : Kinds, current : BOOLEAN, server : Servers \cup {NoServer},
                        service : 0..Services]
    /\ binder \in {"none", "connect", "checked", "timed", "disconnect"}
    /\ overwritten \subseteq Servers
    /\ disturbed \in 0..MaxDisturbances

OffIsNews == \E i \in 1..Len(broadcasts) : broadcasts[i] = "off"

\* The accessory is never advertised before its database is complete: what is
\* on the air leads to a server to which the stack has added every service, so
\* no callback of an older attempt has moved the publication on.  (The server
\* may have died with Bluetooth, of which the service is yet to hear.)
AdvertisesWholeDatabase ==
    advert # "none" => /\ server # NoServer
                       /\ server \in registered \/ OffIsNews
                       /\ published[server] = Services

\* There is one advertisement at a time: none stays on the air after its
\* callback has been forgotten, when nothing could stop it any more.
OneAdvertisement == ~orphan

\* A server that an abandoned attempt opened late is closed: whatever is open
\* is the current server, a result that is still to be examined, or (see
\* NoServerIsOverwritten) a server that lost its handle.
LateServersAreClosed ==
    registered \subseteq {server} \cup overwritten
                         \cup {p.server : p \in {q \in posts : q.kind = "opened"}}

\* A stopped or replaced attempt never overwrites the current server, and no
\* server loses its only handle while it is open.
NoServerIsOverwritten == overwritten = {}

Advertised == advert = "onAir" /\ server \in registered /\ published[server] = Services

\* A connection the service believes in, that does not exist, and that no
\* timer watches: one that a stop overtook while it was being listed, or one
\* past its handshake whose end was never called back.
Phantom ==
    /\ connected
    /\ link = "none"
    /\ handshake # "waiting"
    /\ ~ \E p \in posts : p.kind = "disconnectDeadline" /\ p.current

\* Whatever fails, the accessory is reachable again: advertised, or connected,
\* unless Bluetooth is off (or the service believes in a phantom connection).
Recovers       == []<>(Advertised \/ link # "none" \/ adapter # "on" \/ Phantom)
AlwaysRecovers == []<>(Advertised \/ link # "none" \/ adapter # "on")
=============================================================================
