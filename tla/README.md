# Marionette: a formal model of the accessory

Marionette turns a rooted Android phone into a HomeKit accessory over Bluetooth
LE, and gives it an AirDrop backend.  This directory holds TLA+ modules of the
parts of the program whose correctness depends on the order of events, the
configurations that check them with TLC, and proofs that TLAPS checks.
`PROJECT.json` names, for every definition, the lines it was translated from.

All paths below are relative to the repository; `HomeKitRuntime` is
`app/src/main/java/dev/local/mihotspot/core/homekit/HomeKitRuntime.kt`, and `Lnnn`
is a line of it unless another file is named.

## 1. The system

```
 controller (Home app)                                    AirDrop peer
      | BLE                                                    | AWDL + HTTPS
 Bluetooth stack --callbacks (binder threads)--+        filin (Rust) + luftlift (Rust)
      ^                                        v               ^
      | openGattServer, advertise,      HomeKitRuntime         | processes, files
      | notify, cancelConnection        main thread            v
      +---------------------------------protocol worker   AirDropService (Kotlin)
                                        state poller
                                             |
             SnapshotCommandExecutor -> CommandGate -> AndroidCommandExecutor -> root shell
```

### Components

| Component | State | Operations | Who calls it |
| --- | --- | --- | --- |
| Probe (L490-L840, L929-L1020) | `server`, `starting`, `advertising`, `probeGeneration`, `pendingServices`, `pendingService`, startup timeout, `recoveryPending`, `connectedDevices`, `protocollessDisconnectStreak` | start, open on a thread with retries, add services, advertise, stop, fail, recover, reconcile, health check, Bluetooth off/on, create, destroy | service start, alarms, Bluetooth broadcasts, GATT callbacks, timers |
| State number (L1980-L2011, L734-L750) | `homekit_gsn`, `stateNumberIncrementedForConnection`, the running advertisement | observe and count, refresh the advertisement, mark and unmark a connection | state poller, connection callback, main thread |
| Events (L1862-L1925) | `eventSubscriptions`, `pendingEventNotifications`, `eventInFlight`, `indicationStartedAt` | subscribe, queue, drain, confirm, retry, time out | poller, worker, callbacks, main thread |
| HAP session (L205-L280, L1050-L1260, L1367-L1421, L1731-L1771; `protocol/SerialGattQueue`, `HapReplayCache`, `HapResponse`) | `connectionEpochs`, `pairVerifySessions` with two nonces, `pduRequests`, `pduResponses`, the replay cache, the queue | Pair Verify, open, authorise, replay, execute, store the answer, seal, drop a peer | binder threads enqueue, one worker executes |
| Pairing (L1490-L1620, L1773-L1858) | stored identity, Pair Setup sessions, pending removals | Pair Setup M1-M6, add, list, remove, restart after the answer | worker |
| Control state (`homekit/commands/SnapshotCommandExecutor`, `CommandGate`) | snapshots, revisions, the fair lock, `waitingWrites` | cached read, refresh, write | worker, poller |
| Android executor (`AndroidCommandExecutor`, `PersistentShell`, `BoundedShell`) | the shell session, its current request | query and change a control; run a command with a deadline | control state |
| Service control (`ServiceControl`, `BootReceiver`, tile, `kernelsu-module/*.sh`) | the enabled switch, alarms, lock directory, heartbeat | start, stop, ensure running, watchdog, kill a stalled process | user, boot hooks, alarms, shell loops |
| AirDrop engine (`airdrop/AirDropService`, `AirDropResidentService`, `AirDropBackend`, `AirDropStore`, `AirDropEvents`) | stop flag, worker thread, radio and receiver processes, lease files, the pending request | start, stop, session loop, decide | user, receiver events |
| luftlift (`native/airdrop/crates/luftlift-rs`) | connections, request and decision files, progress stream | Discover, Ask, Upload, send, advertise | AirDrop peers, the engine |
| filin (`native/airdrop/crates/filin-rs`) | election state, clock, schedule, peer table, frame queues | announce, elect, synchronise, hop, hold and drain frames | radio frames, timers |
| Catalogue, control models, settings, user interface | constant tables; preferences; views | lookups; one-step reads and writes; rendering | everyone |

### How they interact

* The Bluetooth stack calls back on **binder threads**.  Connection callbacks
  change shared collections there and then; requests are queued, with the epoch
  of their connection, for **one protocol worker**; results of opening, adding
  and advertising are posted to the **main thread** with their generation.
* The main thread runs posts, delayed posts (150 ms refresh, 2 s drop deadline, 5 s
  recovery, 30 s startup limit) and the health check, each 5 s (handshakes 15 s,
  confirmations 3 s).
* The **poller** reads every control each 2 s (the documents say 10), and once after each
  successful write; it moves the state number and queues events.
* The collections are concurrent; the fields are volatile; there is no common
  lock.  Two numbers take its place: `probeGeneration` outdates work of an old
  start, `connectionEpochs` work of an old connection.
* **luftlift** has a thread per connection (eight at most), one supervisor of the mDNS daemon, and per
  announced address a re-announcer and a browse thread; the approvals, the output directory, the
  directory of decisions and the event stream are shared.  A decision is a file the app
  renames into place.
* **filin** is one thread: timers, sending, one frame of the radio, one frame of the host, again.
  The driver answers over a netlink socket that also carries events; the card may vanish
  at any call; NetworkManager may take it back.

### What is hard

Check-then-act between threads; callbacks that come late, twice or never;
restarts in the middle of anything; a worker that hangs in a root command while
a new one starts; two nonces that must move together at both ends; repeats of
writes that may or may not have run; lost wake-ups; recoveries that wait for a
condition that never comes.  `PROJECT.json` lists them one by one under `hazards`.

### What makes each part correct

* Probe: the accessory never advertises a database that is not complete; it
  closes every server it opened; whatever fails, it is reachable again.
* State number: an advertisement carries the current number once nobody is connected;
  a connection moves it at most once.
* Events: a change that a controller subscribed to reaches it.
* Session: both ends agree on keys and nonces; every request is answered or its
  connection ends; a write that is repeated runs once; no command outlives
  its connection's turn.
* Control state: after a write no reader sees what was before it; reads do not
  delay writes.
* luftlift: what a device sends is stored only with the user's consent, once for each consent,
  and as a whole; the receiver is found at the address `awdl0` has, and the list of nearby
  devices is the one of the browse that lives.
* filin: nodes agree on a master and run on its clock; the radio is where the schedule says and
  never where it may not be; what waits is sent in order, in time and on every channel it should be;
  links and neighbours survive cards that come and go.
* AirDrop engine: when no session is left the radio is as it was found, whoever was killed on the way;
  while the switch is on and the phone is connected, the receiver runs.
* Pairing, service control, shell: see the plan.

## 2. The modules

| Module | Models | Composed with |
| --- | --- | --- |
| `ControlState` | the snapshot cache in front of the command gate | `ControlStateProofs` |
| `Probe` | the BLE lifecycle | `Runtime` |
| `StateNumber` | the state number and its advertisement | `Runtime`; restarts abstract `Probe` |
| `Runtime` | `Probe` and `StateNumber` beside each other | `RuntimeProofs` |
| `Indications` | events | restarts abstract `Probe`; Pair Verify abstracts `HapSession`; `IndicationsProofs` |
| `HapSession` | Pair Verify, writes of a control, answers, drops | implements `CommandContract`; `HapSessionProofs` |
| `CommandContract` | what a controller may rely on when it writes | abstract |
| `Receiver` | luftlift's server: Discover, Ask, Upload, saving; its sender; the user's decision | implements `ConsentContract`; `Luftlift`, `AirdropProofs` |
| `ConsentContract` | what the user may rely on when a device asks to send | abstract |
| `Discovery` | luftlift's mDNS sessions and the list of nearby devices | `Luftlift`, `AirdropProofs` |
| `Luftlift` | `Receiver` and `Discovery` beside each other | |
| `Election` | filin's election and clock over several nodes | `ElectionProofs` |
| `Daemon` | filin's links, health check, neighbours, errors | `AirdropProofs`, `Radio` |
| `Engine` | the app's AirDrop sessions, its switch and watchdog, the root script `radio.sh` | `Radio` |
| `Radio` | `Daemon` and `Engine` beside each other | |
| `Schedule` | pure: the channel sequences filin makes | `Node` extends it |
| `Reservation` | the channel reservation (`roc.rs`) and its driver | `Node` instantiates it |
| `Node` | filin's run loop: schedule, debounce, transfer pin, queues | `NodeProofs` |
| `Archive` | pure: cpio, dvzip, chunks | `Transfer` extends it |
| `Transfer` | uploads on their way, through every layer | `Codecs`, `CodecsProofs` |
| `Frames` | announcements and data frames from one node to another | `Codecs` |
| `TxStatus` | what became of frames handed to cfg80211 | `Codecs`, `CodecsProofs` |
| `Replay` | the repeated announcement of the host | `Codecs`, `CodecsProofs` |
| `Cadence` | the timers of the loop | `Codecs`, `CodecsProofs` |
| `Introspect` | what both programs tell of themselves | `Codecs`, `CodecsProofs` |
| `Codecs` | the six beside each other | |

`MC*.tla` say what an instance is for; the `.cfg` files give the constants.  A definition whose
comment says "Mutant" is not part of a specification: it is what a plausible bug would make of the
one after it.  `Runtime`, `Luftlift`, `Radio` and `Codecs` join parts that share no state: a behaviour is one of one
part while the others rest, so that one run checks them all without multiplying their states.

### Conventions

A step is as much of the code as no other thread can see the middle of; where
two statements can be interleaved with something that tells them apart they are
two steps, with the place of the thread in a variable (`binder`, `worker`, `main`,
`poller`, `th[t].at`, `conn[c].phase`, `sup.at`, `pc`).  A variable named "history" in its comment is read by
properties only.  Ghost counters and environment actions are bounded by constants
named Max...; each is declared with the word "bound".

### ControlState

A control's real state is a version that grows with each change by anybody; a
reading is the version it saw.  `settled[c]` is the version at the last return of
a write.  Threads go through `lookup`, `revision`, the gate (`admit`, `enqueue`,
`queued`, `inside`), `store`, `serve`; writers through `announce`, the gate,
`withdraw`, `finish`.  The fair lock is a sequence.  `GiveUp` is the deadline of the gate;
`Expire` the two-second age; `PhoneChanges` a change by the user or the system.
`MUTE` and `VOLUME` share a state and are invalidated together.

### Probe

`probeGeneration` is only compared for equality, so a post or opener thread
carries whether it is current, and each increment outdates the others.  `posts` is the main
thread's queue as a set: posts made by different threads, or delayed, have no
order.  The stack is modelled by what it owes: the servers registered with it, the
`addService` it works on, its advertisement, its link.  `LoseCallback`, `SwitchOff`,
`Demand`, `PeerConnects` and failures are disturbances, at most `MaxDisturbances`
of them in a behaviour, in any combination; a connection that ends may or may not be called back (`LinkEnds`).
`SessionFails` is `disconnectPeer` for what happens inside a session.  `StopProbe` is written as one step
because it runs on the main thread and no binder step can tell its statements apart;
the connection callback is three steps (`ConnectChecked`, `ConnectTimed`,
`ConnectListed`) because a stop can fall between them.

### StateNumber

The poller's `incrementStateNumberForConnection` is five steps (look at the
connections, look at the mark, count, mark, post); connection callbacks are two or three.
`synchronized(this)` excludes nobody, as only the poller takes it.  The number wraps
after `MaxGsn` (0xFFFF in the code) to 1.

### Indications

`pending`, `inFlight`, `subscribed` as in the code; a drain posted to the main
thread is a member of `drains` (several posts for one device do the same as one).  `owed`
is the history: changes observed while the controller was subscribed, and not
yet indicated.  Unsubscribing or disconnecting clears what is owed.

### HapSession and CommandContract

One controller, as only one pairing is kept; one outstanding ATT request; one
Pair Verify in a connection; answers that fit one fragment; a control written
with value and transaction identifier.  A key is the number of the connection
whose Pair Verify made it.  The queue holds requests with the epoch of their connection (L219);
`Take` drops those that are not current (L233), `TakeLate` answers those that
expired (`SerialGattQueue.kt:23`), a full queue drops the peer at once.  The epoch is looked at
again before the command (`Decide`, L1368), and after it (L1374 and L1417, one step: only the
log and the posting of a refresh lie between).  The command begins a step later (`Execute`, L1369): a
callback may have ended the connection in between, and the command then begins although nobody asks for it any more.
`CommandsAreOfConnection` says what the look achieves, and that such a late command still finds no other session than its own.
`Restart` may come at any step of the worker; the old thread then finishes its task, unless that is a command that
hangs, before the model's worker takes a request of the new queue (whose first request comes after a server has been opened, published,
advertised and connected to).  `Check` and `Store` are two
steps: a reconnection between them lets an ended connection's outcome into the
replay cache.  What protects the next session is that Pair Verify M2 clears it
(L1732) - without that line `WritesKeepContract` fails, which is its mutant.

`CommandContract` says what a controller may rely on: a transaction runs at most
once however often it is repeated before it is answered, an answer "ran" is of a
run of that transaction, "refused" means it did not run.  `HapSession` implements it
with `txn` and `runs` as they are.

### Receiver and ConsentContract

`conn[c]` is a connection with the place of its thread (`head`, `asking`, `prompt`, `body`,
`save`).  Apple devices send any request on any connection; a luftlift sender goes
through its three legs (`stage`), one connection each, and stops at the first answer that is
not 200.  `AskHead` takes what approval the peer had (server.rs:380), `AskBody` opens the prompt,
`Decide` is the poll of guard.rs with its deadline.  The user's choice is `tapped` until the app's
rename lands (`Land`), perhaps after the prompt has gone.  `approvals[p]` is the token of the ask
and whether it is younger than `APPROVAL_TTL` (`Expire`).  An answer may be lost (`Answer`).
`Save` and `SaveFails` act on one file at a time, so uploads of two connections interleave in
the directory; `PlaceFor` is the first free prefix.  `consumed` is the history of uploads each ask
let in.

`ConsentContract` has three steps: the user is asked, decides or does not, and a transfer is let in
by an accepted ask that none was let in by.  `Receiver` implements it with `prompt` as the answer and
`consumed` as the uses; every other step of the receiver maps to a stutter.

### Discovery

`sup.at` is the supervisor's place in `mdns_announce_supervisor`: polling, the four steps of a
teardown (`Quit`, `Join`, `SayGoodbye`, `EndSession`), announcing, starting the threads, publishing.
A session is a number with its daemon, address, re-announcer and browse thread; `air` is what the
network knows of the phone.  The re-announcer looks at its flag (`Wake`) and registers
later (`Reannounce`), which makes a daemon that said goodbye speak again.  `rows` is the list
in the app, changed by the events in the order they are written.  `Signal` says the published
goodbye and exits; `Exit` is the end of the pipe to the app.

### Election

`elect[n]` is `ElectionState`, `peers[n]` the table; the pair (counter, metric) is one number, the
rank.  A frame carries what its sender has elected when it is heard.  `Receive` is the whole of
`apply_action` as far as the election reads it: admission by signal, touch, election over the table,
adoption of the clock if the elected parent sent the frame.  `Clean` is the second's timer.  `Best` and
`Elected` are sets, of one element for every table (`ElectionIsDecided`, section 4).

### Daemon

`pc` is the call `open_links` is at, or `running`; each call may fail, because the card is gone or
by a fault, and then main waits and tries again.  `card` is the card with an index that is new when it
is plugged in; `socket` and `expected` are the indices the loop is bound to and looks for.
NetworkManager may take the card back, and `nmcli`, whose result nobody looks at, may fail to release it.
The card is pulled and comes back between any two steps; `swapped` is history: it came back while
`open_links` was past its release (`Configuring`).  `table` is `NeighborTable`, `kernel` what the kernel was told.

### Engine

`session[s]` is the thread of `runSession` with the fields of its `AirDropService` object: a service that
is destroyed leaves its thread behind, so a second service may have a thread beside the first
(`Services` bounds how many).  `current` is the created service, which is what `alive` tells the
watchdog.  `at` is the place in `runSession`; `interrupted` is the thread's flag, which cuts every wait
short and is forgotten only where `reapStaleReceiver` swallows the exception.  `guardian[g]` is one run of
`radio.sh`: its place, whether its app has died, whether it takes the monitor interface for its own
(`MON_RESIDENT`), its daemon (`CHILD`).  The app and the guardians see each other only through
`stopFile`, `active`, the status port (`Ready`) and whether a process lives.  A wait of seconds is
taken to be longer than the 200 ms after which a guardian in its loop looks for the file (`Seen`).
The daemon is only the holder of `awdl0`, or one that tries each second to become it.  Loading
the driver is one step that works or fails.

### Schedule, Reservation, Node

The sixteen slots are `SeqLen`; `Schedule` has the functions that make a sequence usable
(`ReplaceNoIr`, `EnsureSocial`, `FillNulls`), the reservation mode's sequence and the parking channel.
`Reservation` maps records to records, because one round of the loop makes several calls one after the
other.  In `Node` one round is `Timers`, `Send`, `Poll` or `PollNothing`, `Tap`, with the driver, time and
peers between any two.  Time is counted in half slots: the guard intervals and the core of a
window, so the guards are exact at that grain and no finer.  A peer has a clock of its own, ahead of the
node's by a number of half slots (`Leads`) or not known (`NoLead`: the code then takes the node's); a unicast goes out
when both clocks are outside their guards and in slots of the current channel (`Decision`).  Where the peer's windows change in the
middle of the node's, the node may send before that, in the peer's guard or after (`Moments`).
A clock that is taken from the elected parent moves the node's, and the other peers' leads with it (`Shifted`); the timer
for the next change of channel keeps its time (`due`) and finds the windows again when it runs (`Rearmed`).  The elected parent
is any valid peer or the node itself: which one is
module Election's.  The queue of unicasts and what was sent of it are sets of frames with the host's
numbers: a frame is queued behind all others, so the order of the queue is that of the numbers, and
`DrainTx` says of each frame what the loop over the queue does with it.  A multicast waits with the channels
it has still to go to (`todo`), from which a channel is taken before the frame is sent, whether the radio takes the frame or
refuses it (`Failing`), and whether it is on that channel (`current`) or, as a change of channel failed, on another
(`tuned`, `AirChannel`).  `owed` is history, the channels on which it has still to be tried if
nothing disturbs it: another schedule, clock or pin, a slow loop, or a change in the slot it came in clears it
(`Disturbed`, `Unpinning`), and a try settles the channel it was made for and the one it went out on (`Settles`).  `led` is
history too: a master that is followed has announced anything but exactly the schedule of a node alone.  The clean-up timer may
fire in any round.  The announcements and the replay
of the host's announcement go out from the same loop and are modules of their own (`Cadence`, `Replay`,
`Frames`).  A world fixes the mode (hopping, parked, on the station's channel, with reservations),
which inputs come and what peers announce, so that twelve small worlds are explored instead of their product.

### Codecs

A byte string is a sequence of parts that some code reads as one: a header, a unit of data, a chunk
size, a block.  Cutting and spoiling act on parts, at any place.  `Archive` builds and reads what
`cpio.rs`, `dvzip.rs` and `chunked.rs` build and read; `Transfer` sends it through the server's
threads; `Frames` builds announcements from a template whose own values are all `Captured` and asks what
the hearer has of them.

In `TxStatus` the tracker reads one datagram a step, waiting for the answer to a request (`Await`) or when asked for its
statistics (`Drain`).  Its queue of frames whose status is to come is a set: frames are queued in the order of their requests,
which is that of their numbers and of time, so expiry and overflow take what the order says.

## 3. The runs

Every property of a passing run has a mutant: a small change of the modelled code
that makes TLC find the property violated.

| Run | Instance | Shows |
| --- | --- | --- |
| `control_state` | 2 threads that do everything, 2 commands, 3 revisions, 1 change by the user; 954 thousand states | `ReadYourWrites`, `NoResurrection`, `BoundedOvertaking`, `WritesAreServed` |
| `runtime` | 4 server handles, 2 services, 2 attempts, 2 disturbances; beside it 2 controllers, numbers 1..3, 1 restart; 919 thousand states | `AdvertisesWholeDatabase`, `OneAdvertisement`, `LateServersAreClosed`, `AccessoryRecovers`; `StaleOnlyIfMissed`, `AdvertisingResumes` |
| `probe_phantom` | the first of these | counterexample to `AlwaysRecovers` |
| `indications` | 1 controller, 2 characteristics, 1 disturbance; 402 thousand states | `NoEventIsForgotten`, `EventsAreDelivered` |
| `session` | 2 connections, 3 writes in each, 1 identifier, 2 values; 393 thousand states | `NoncesAgree`, `AnswersOpenUntilDropped`, `CommandsAreOfConnection`, `WritesKeepContract`, `RequestsAreAnswered` |
| `luftlift` | a Mac and a luftlift sender, 2 connections at a time, 2 asks, 2 uploads of 1 or 2 files of one name, 1 suffix; beside them 2 addresses, 1 other device, 4 sessions, 2 changes, 1 fault; 584 thousand states | `KeepsConsent`, `AckedIsSaved`, `RequestsEnd`; `RowsAreVouchedFor`, `NoOldAddress`, `Reappears` |
| `election` | 3 nodes in a triangle with a forced master, in a line, and in a ring that has just lost its master; height 3, 1 disturbance; 42 thousand states | `ClockIsOfCluster`, `SettledIsForest`, `Agreement` |
| `radio` | the daemon in 7 worlds (owned, shared and handed-over radios, with and without NetworkManager, monitor mode and a driver that answers), 2 neighbours, 2 channels, 3 changes of the card, 3 faults; beside it the engine with 2 services, 2 guardians, 2 rounds, 1 command of the user or death of the app and 1 fault or change of the link; 538 thousand states | `NeighborsArePeers`, `DaemonRecovers`; `RadioIsGivenBack`, `ResidentReceives` |
| `daemon_swapped` | a card of NetworkManager's that is pulled once, on a radio that is owned and one that is shared | counterexample to `AlwaysListens` |
| `node` | 12 worlds, 4 slots, 2 peers whose clocks may be half a slot or a slot ahead, 4 announced sequences, up to 2 frames of the host; 2.8 million states | `FollowsUsableSchedule`, `OpenedByOwnGrant`, `TxInOrder`, `SpreadReaches`, `ChallengersLast` |
| `crowded_schedule` | 16 slots, 1 peer with a channel of its own in each of them, or the node's own channel in all of them | counterexample to `FollowersVisitSocial` |
| `codecs` | see `MCCodecs`; 731 thousand states | `UploadIsWhole`, `BarIsHonest`, `LinkIsFaithful`, `RepeatsAreTimely`, `TellsTheTruth` |

### Why the bounds are enough to be interesting

* `control_state`: three revisions allow two writes, one after the other or
  overlapping, around a read; one of mute and one of volume, which is the related pair.  Two
  threads are the most there are apart from the poller, whose steps they can take.
* `runtime`: one disturbance starts a recovery, the second falls into it; a handle
  is free again once its server is closed and nothing refers to it.  Two services let a callback of
  the first arrive while the second is added.  Two controllers are needed for the shared mark; a
  number that wraps after three is reached several times.
* `indications`: with two characteristics one event waits while the other is on its way.
* `session`: two connections let anything of the first come late in the second;
  with one identifier every new write reuses it; three writes are a press, its repetition and a
  new press, or a write whose answer stays unread.
* `luftlift`: two asks and two uploads are an ask that another of the same peer supersedes, two
  uploads after one approval, or two transfers that store files of one name at once; with one suffix the
  third file of that name finds no place.  Two changes are an address that goes and comes back, or comes while the old one is torn
  down; one fault makes a daemon die or fail to start.  With two faults `Reappears` is not true of
  the code: a daemon that dies in a session whose browse never started is not noticed, because the
  supervisor only watches the browse thread.
* `election`: three nodes are the smallest ring in which views of a lost master go round with growing
  heights; the line has nodes that do not hear each other; a `Psf` frame without an acceptable clock is
  what makes a node follow a master on whose clock it does not run.
* `radio`: after two changes the card is a new one, and the third falls into its opening.  The engine
  starts with the switch on or off, so one command is a stop, a death, a window or the switch in the
  middle of a session that the watchdog has started, and the fault makes two guardians meet.  Both
  properties of the engine also hold of `Engine` alone with two commands and no fault (1.1 million
  states), which is too long for a run.
* `node`: four slots hold a forbidden channel, an empty slot and two social channels at once; debounce
  and pin last a whole slot, so that a challenger can appear, vanish and come back within them.  A peer half a slot ahead
  changes its windows in the middle of the node's and moves those when it leads; one a slot ahead has another channel than the node in the same
  slot of one sequence.  The four sequences are one of usable channels, one of an empty, a repeated and a forbidden one, the
  one of a node alone, and none.  Every one leaves room for the
  social channels (`RoomAssumption`); `crowded_schedule` is about one that does not.
* `codecs`: files of none, one and two units; blocks and chunks of every size up to the whole;
  a status queue of one entry; a cache that expires within three visits; time enough for five windows; two frames and two of other processes, a socket of three messages.

### Fairness

Threads, posts and timers go on, because nothing in the code parks them for
ever: shell operations, the gate and the startup have deadlines; a read of luftlift times out, a prompt
has its deadline; filin's loop polls with a timeout.  Weak fairness only.  Nothing makes the
environment act: controllers need not come, controls need not change, callbacks
may be lost, a command may hang (then the health check, which is
assumed to run, restarts the probe), a stopped node need not start, a card need not be plugged in, the user
need not answer.  The stack is assumed to close a connection it
is told to close, or the 2 s deadline restarts the probe.  `RequestsAreAnswered`
assumes no more than that the worker goes on outside commands; `RequestsEnd` that a thread in the middle of
a request goes on; `Agreement` that complete frames keep being heard on links that exist; `Recovers` of
`Daemon` that opening and the health check go on.  In `Engine` the worker, the scripts, the watchdog
and the system's recreation of services go on, and a guardian that is told to stop again and again
does so once (strong fairness of `Stop`): each time the file is there for as long as `su` takes to run
`pkill` at least, and the guardian looks each 100 or 200 ms.  `Runtime`, `Luftlift` and `Radio` give each part its
fairness only while it is the one that goes on; `Node` and `Codecs` have safety properties and no fairness.

Deadlock is checked except where the system may rest: a destroyed service with no demand left
(`runtime`), connections, requests or sessions that are used up (`session`,
`luftlift`), nodes that have agreed (`election` checks it: their frames go on), a daemon that has given up
(`radio`), uploads that have arrived and bounded clocks (`codecs`).

### What the counterexamples show

Three runs document a disagreement between the code and a comment or document;
`PROJECT.json` quotes them.

1. `probe_phantom`: a stop between L957 and L974 of a connection callback leaves
   `connectedDevices` non-empty with no link.  Recovery (L139), health check (L200)
   and reconciliation (L656) all wait for it to become empty.  The state has a second origin, which
   the code reckons with elsewhere (L963): a session past its handshake ends and STATE_DISCONNECTED is never called back.
   If the advertisement was stopped for a refresh while that controller connected, nothing starts it again.  Until an event is
   to be indicated to the lost controller, whose time limit then drops it (L195), or another worker stalls, no timer watches
   it.  `AccessoryRecovers` in the passing run is the same property with such a phantom excepted, and the phantom is the only
   way to be lost within the bounds.
2. `crowded_schedule`: a node may follow a master and visit none of the social channels that master omits, against the
   comments at `lib.rs:2086` and `lib.rs:4887`, in two ways; restricted to one of the two schedules (`Crowded`, `Alone`) the
   run still finds it.  `ensure_social_coverage` (filin `lib.rs:2111`) puts a missing social channel into a slot that is null or
   whose channel occurs again, and a schedule of sixteen different channels has no such slot.  And a master's schedule is taken,
   and the social channels put into it, only if it differs from the own (filin `lib.rs:4867`): a node that was alone has its
   configured channel in all slots, and stays on it if the master it follows announces just that.  `VisitsSocial` in the passing
   run is the same property from the first other announcement of a followed master on (`led`), until the node leads itself, for
   schedules with room (`RoomFor`).  The first way came out of the proof of `SocialVisited`, whose hypothesis is that room.
3. `daemon_swapped`: the health check compares the card's index with `monitor_ifindex`, which is read when everything is
   open (`lib.rs:6702`), so a card recreated after the packet socket was bound to it is taken for the one of the socket: once
   NetworkManager has brought it up, the daemon hears nothing until the card changes again.  A card recreated between
   `set_monitor` and `set_up` is likewise taken for the one that was put into monitor mode.  The comment at `lib.rs:6691` has any
   re-enumerated card detected.  `DaemonRecovers` in the passing run is the same property with a card exchanged while
   it was being configured excepted, for as long as the check is content with it; a card exchanged in any other step is
   detected in all seven worlds.

Other statements of comments and documents that the code does not keep are definitions of the modules
that no run lists.  To see a counterexample, add the name as an INVARIANT or PROPERTY to the
configuration that is named:

* `Discovery!ListsOnlyOthers` (`MCLuftlift.cfg`): the browse events are filtered by a name that carries the process number
  (luftlift `main.rs:342`), and no instance is named so any more (`mdns.rs:84-94`), so no name is `Filtered` and the phone is a
  row of its own list, against the comment at `main.rs:338`.
* `Probe!NoServerIsOverwritten` (`MCProbe.cfg`): in the 150 ms between the halves of a refresh neither
  `advertising` nor `starting` holds while a server is open.  A plain start (L347, or
  the delayed one of L151) then launches a second opener without a stop, and L598 overwrites
  the open server.  A handle of the stack is lost.
* `StateNumber!AdvertisesCurrentState` (`MCRuntime.cfg`): a disconnection reads the mark (L983) before
  the poller sets it, and leaves `connectedDevices` (L984) after the poller's refresh looked (L736).
  `StaleOnlyIfMissed` says that nothing else loses a refresh than
  this and a refresh that finds advertising just starting.
* `StateNumber!OncePerConnection` (`MCRuntime.cfg`): the mark is one for all controllers.
* `HapSession!AnswersOpen` (`MCHapSession.cfg`): `disconnectPeer` forgets the session before the link
  closes; a request in between is current (its epoch is the new one) and is answered without encryption.
  `AnswersOpenUntilDropped` says that this is the only unreadable answer.
* `Daemon!GivesUpOnlyForGood` (`MCRadio.cfg`): a card that is missing while the links are opened is
  reported like one without monitor mode, and main exits, though its comment (filin `main.rs:57`) wants to
  retry forever.
* `Engine!OneGuardian` (`MCRadio.cfg`): the app waits 25 s for the radio (L267), but a guardian may wait
  30 s for the link and then as long for a first frame (`radio.sh` L298, L333).  A resident session that
  tries again finds neither the radio ready nor `active`, and starts a second guardian beside the first,
  whose process it forgets; both pass the check of `radio.sh` L279, as neither has a daemon yet.  The
  comments at `AirDropService.kt:304` and `AirDropResidentService.kt:23` want one at a time.
* `Engine!Hears` (`MCRadio.cfg`): of two such guardians the second takes the first one's monitor interface
  for its own, or deletes it; when the first leaves, it deletes what the second uses, which never
  looks again because `MON_RESIDENT` is set.  The session goes on, ready and deaf, until the link is lost.
* `Node!GateIsTick` (`MCNode.cfg`): the channel that `RocCapture::tick` returned is overwritten by
  the clean-up of peers and by the next frame, which call `sync_channel_sequence`, before the gate reads it.

## 4. The proofs

For every value of the constants that satisfies the named assumptions, and no bound is used but where
a number would leave its type.

* `ControlStateProofs`.  `TypeCorrect`: `TypeOK` is not inductive: `Withdraw`
  decrements `waitingWrites`, which stays natural only because it equals the number
  of threads between the halves of `CommandGate.write` (`WritesAreCounted`), which in turn needs
  each thread to be in a part of the gate its operation goes through (`OperationsMatch`).
  `ReadsSeeWrites`: every snapshot is at least as recent as the last settled write
  (`SnapshotsAreSettled`), and a refresh whose revision is still current holds a reading
  that is so too (`ThreadsAreGuarded`).  The argument is the one of the code's comment at
  `SnapshotCommandExecutor.kt:27`, and needs the second invalidation of L49: the first alone
  would let a query between the invalidation and the effect be stored as current.
  `NothingIsResurrected`: an overlapped refresh holds an older revision than the current one, so
  `Store` leaves the cache alone.  `FewPassAWrite`: the reads that have passed a waiting write and those
  that still can (`AwaitedBy`: past the refusal, not yet inside the gate) are together fewer than the
  threads (`InTurn`), as the write is none of them; while a write waits the count is not 0, so that set
  only shrinks.
* `RuntimeProofs`.  For `WholeDatabaseAdvertised`, `OneAdvertisementRuns` and `LateServersClose` the
  invariant (`Sound`) follows the current attempt: it is at one place, its opener, its result or the service the
  stack adds (`OneAttempt`); `starting`, `advertising` and `pendingService` say where (`Flags`); the services
  published to its server are those before the pending one, and all of them once none is pending
  (`Publication`); a server that is posted is in nobody else's hands (`Late`).  `Alive` says that the
  current server dies with Bluetooth only, and then the broadcast is on its way; `Down` that nothing begins while the service
  is destroyed.  Callbacks of older attempts may come at any time: what they leave alone is what
  the identity checks and generations of the code leave alone.  `NumberStaleOnlyIfMissed` rests on `Due`:
  a number that has moved without being advertised is one that was missed, or its refresh is posted, or
  the poller is about to post it, or a connection's end will.  `TypeCorrect` needs only that the number wraps to 1.
* `HapSessionProofs`.  One invariant (`IInv`) for five theorems.  Where the controller and the accessory are
  in one exchange: at most one request of a connection is with the queue or the worker (`Alone`), it fits what the
  controller waits for (`Fit`), and what is left over from an older connection is told by its
  epoch (`Old`).  A command runs in the session its frame was opened in (`InSession`).  What the ends know
  of each other: the session is the controller's own, up to what is under way, unless it is being forgotten, or not
  begun, or what the controller waits for is lost (`SessionOK`, `OwnKey`); an answer under way is sealed for the count the controller
  has (`Underway`, `Sealed`); the cached answer is that of the write the controller repeats, or it has not run
  (`Outcomes`).  `BothEndsAgree` and `AnswersOpenInSession` follow from the ends, `CommandsRunForTheirConnection`
  from `InSession`, and `SpecKeepsContract` from `Outcomes`: each step is one of `CommandContract` or changes
  nothing of it.  0 stands for no transaction in this model, hence `TidsAssumption`.
* `IndicationsProofs`.  `EventsAreKept`: an event that is owed is pending or on its way.  The invariant
  adds what each thread holds between its steps (`AtWork`) and that the event the drain has chosen is
  still pending or was taken by this drain (`OneIsChosen`); the only step that takes an event away
  while it is owed is a confirmation, and that was for the event in flight.
* `AirdropProofs`, about `Receiver`, `Discovery` and `Daemon`.  `ConsentIsKept`: `Receiver` implements `ConsentContract`.  The invariant (`Consent`)
  follows a token: a pending ask has a token no other has, that no approval carries and no upload
  used; an approval's token is accepted, unused and of one peer; tokens and uploads above their counters
  are untouched.  `Kept` is what a step does to the contract: a step of it, or nothing.
  `OneUploadPerConsent` is its consequence for states.
  `WhatIsAckedIsSaved` has an invariant of its own beside it (`Stored`): connections that upload at the same
  time hold different uploads (`UploadsAreDistinct`), what an upload has stored and what it has left are together
  one payload (`SavesAreCounted`), an answered one has nothing left (`AnsweredAreSaved`), and a
  luftlift sender is where its one connection is, with the upload it carries (`SendersAreFollowed`).  A name is created only if
  it is free, so no upload takes a place from another.
  `OldAddressIsSilent`: whoever can still speak is the session the supervisor can tear
  down, or the one it is opening (`OneSpeaks`); it opens one only after the last is torn down, with
  the address it read (`OpenedInTurn`); at rest the one that can be torn down has the last address
  (`LastIsAnnounced`).  No thread of a session is waited for in this argument.
  `RowsAreKept`: the only threads that are waited for are those that browse.  At most one browses, that of the
  session to be torn down or of the one just opened (`OneBrowses`), as a session ends only after its browse
  thread has (`JoinedFirst`); one that does not browse knows nothing (`OnlyBrowsersKnow`), so the rows, which
  are what the browsing one knows (`RowsAreKnown`), are cleared by its end and by nobody else's.
  `NeighborsAreKept`: while no call failed the table, the peers and the kernel agree when
  the daemon runs, and the kernel knows none when it does not, because awdl0 is gone with its
  last descriptor.
* `ElectionProofs`.  `ClockIsKept` and `ForestIsKept`: the invariant says that every node's result is one
  its election over its present table gives (`UpToDate`), that it never lists itself, that a stopped
  node knows nothing, and that `synced` is empty or names the master of the clock.  A forest follows: a
  parent's view is its present one when views are current, so heights grow by one along a path.
  `MastersAreAlive`: of the nodes whose master does not run, or does not lead itself, one would be nearest to
  the root (`LeastNumber`), and its parent nearer still.  `ElectionIsDecided`: `Beats` orders any two views of
  different nodes, and a finite set ordered so has one at the top: otherwise a smallest set without a top would, less one
  of its members, be a smaller one (`OneIsAbove`).
* `NodeProofs`.  `UnicastsInOrder`: a drain keeps, with a frame, all later ones to the same peer, so what it
  sends is older than all it keeps (`DrainedInOrder`); what the host hands over next has a higher number
  than both (`Numbered`), whatever the clocks, the schedules and the radio make of each frame.  `ChallengersWait`: the schedule that is waited for is always that of the elected
  master, and it is not waited for longer than that master has been elected (`Patient`); where no data comes in
  nothing pins the radio (`Unpinned`), and so every round looks at the schedule again.
  `GrantsOpenTheirOwn`: while there is a reservation the driver dwells for it alone and the socket holds no
  event of another (`OwnDwell`): a new one begins with an empty socket and a driver that is free, or is refused.
  Hearing the socket is a recursion over its events; that it keeps what every single event keeps (`HeardIn`) is
  an induction, made with the least event that would not (`LeastNumber`), and so is that the recursion
  has a result at all (`History`).
  For `RadioStaysUsable` the channels the node is led to are followed through all that leads it (`Led`): the
  schedule, the pin, the frames that wait with the channel of their sender, the parking place.  What `Schedule` makes of any
  announced sequence is of `Tunable` channels, those that may be used or the configured one: `ReplaceNoIr`, the injection of
  each social channel and the filling of null slots are recursions over slots, and each keeps what its steps keep (`Stepwise`).
  `SocialVisited` is a count: an injection takes a null slot or one of a channel that occurs again, so it loses no channel;
  if there were no such slot, the sixteen slots would hold sixteen different channels and the missing one would be a
  seventeenth of those `RoomFor` says there is room for (`Injected`, `Ensured`).  The own schedule is that of a node alone, with
  `led` false, or an announced one made usable (`Seen`): a followed master that announces another schedule than that of a node
  alone announces another than the own, or the own is one made usable already.  `ScheduleIsUsable` is both.
  `MulticastsReachAll`: a multicast nothing has disturbed is owed channels of the schedule; for each of
  them, the half slots until the core of that channel's slot and its age are together less than a hop cycle (`Due`,
  with the countdown `Wait`).  The timer for the change of channel goes with the windows (`Aligned`, in `Steady`), so in that core the
  node is on the channel of the slot (`OnTime`), and the loop has tried by the time the half slot
  ends (`Served`, `Here`).  As `SpreadTtl` is a hop cycle at least, nothing is owed when the time is over.
* `CodecsProofs`, for any frames, times, sizes and threads, about five of the parts of `Codecs`.
  `RepeatsAreTimelyAlways`: the frame that is kept is the one the host stands by, kept no longer than any of its
  records lives (`ReplayInv`); and the next master indication frame is due in the middle of a window or, after a jump of the
  clock, before that of the first steady window (`CadenceInv`), with the arithmetic of windows for every length.
  `TellsTheTruthAlways`: the port is set before the mark and read after it (`StatusInv`); the ring is the end of what was kept, and what
  may still be added after the gate is closed is what has passed it (`TraceInv`); and `StatusesAreOursAlways`.
  `BarIsHonestAlways`: what a bar shows is what was read, and the whole only when that is all there is (`BarInv`), whatever the other
  upload does to the throttle that both use.
  `StatusesAreOursAlways`: the counts of the tracker are those of a ledger (`Ledger`): each frame whose request was acknowledged
  is waited for without a known status, or has been counted by the status that was read in time, or is too late for one, or was pushed out
  of a full queue; a status that came early is that of the frame being sent or counts for none.  This holds because of what is in the socket (`Mail`): at
  most one status of a frame, of one that is not known yet, and an answer after its cookie (`Answers`).  That one frame more is
  one more in the count is an argument about finite sets in each step (`PutIs`, `TakeKeeps`, `EventStep`, `ReturnStep`).

Assumptions on constants that the proofs use: the configured channel is one of the channels and not 0; queues hold
one entry at least, and a multicast waits for a hop cycle at least, as `MULTICAST_SPREAD_CAP` and `HOP_CYCLE_US` say (`NodeBounds`);
frames are numbered as their requests are and other processes' cookies differ from theirs (`TrackerAssumption`); durations
and ring sizes are positive (`CadenceAssumption`, `ReplayAssumption`, `RingAssumption`).  `SocialVisited` and `ScheduleIsUsable` have the hypothesis that announced schedules leave
room, and the run `crowded_schedule` shows that they need it.

Limits.  Liveness is model-checked only (fairness and ENABLED are out of the prover's reach): `WritesAreServed`,
`AccessoryRecovers`, `AdvertisingResumes`, `EventsAreDelivered`, `RequestsAreAnswered`, `RequestsEnd`, `Reappears`,
`Agreement`, `DaemonRecovers`, `RadioIsGivenBack`, `ResidentReceives`; and so is the whole of `Engine`, whose properties are liveness.
Of the safety properties, `UploadIsWhole` and `LinkIsFaithful` are model-checked only: their definitions encode and decode
byte strings with folds over sequences, so that one undoes the other is an induction over data, which the provers cannot
make.  All other invariants and action properties of the passing runs are theorems.

## 5. Not modelled

* Cryptography: a message opens exactly if its key and nonce are those it was sealed
  with.  SRP, Ed25519, X25519, HKDF, TLS and certificates are assumed to do what they promise.
* The other HAP procedures (signatures, configuration, timed and execute write), fragments of
  requests and answers.
* Pair Setup and the removal of pairings, the Android executor's shell, service supervision and
  the shell watchdogs (section 6).
* In `Engine`: more guardians than `Guardians` (a start waits for a free one), the capability checks and the
  capture windows of `radio.sh`, `driver-load.sh`, sending, the overlay and the texts of the state; and
  a system that kills a root script together with the app.
* In `Receiver`: an older ask of a peer that is accepted after a newer one was opened grants the approval
  again (server.rs:380-384 takes only what is there); this is in the model, and allowed by
  `ConsentContract`, as the user did accept it.  The list of files shown in the prompt is
  never compared with what is uploaded: the contract does not promise it.
* In `Node`: frames that a peer repeats, and the order of a frame that waits for its sender's announcement
  (`pending_rx.rs`) against one that follows it: the first is released only once the announcement is
  complete (lib.rs:6845), the second is delivered as soon as the peer is listed (lib.rs:7016), so they
  may change places.
* In `Reservation`: a call that hears the socket stops after 32 datagrams (lib.rs:9158); the model
  hears all, so `GrantsOpenTheirOwn` says nothing of a socket with more than that unread.  Statuses
  of frames, which come by the same socket, are in `TxStatus`.
* Property lists, netlink and ioctl byte layouts, the diagnostic listing of adapters, command lines.
* Wording of logs, notifications and status broadcasts; vendored code, driver experiments, user
  interface, settings repositories; Android's permission and unlock state.

## 6. Plan

What is left, in this order; each item is a module with its instance.

1. **Pairing**: Pair Setup sessions, adding and removing a pairing, the restart after the
   response; crash between erasing the identity and the restart.
2. **PersistentShell**: marker framing, deadline, discard, close during a run; every result
   belongs to its command, nothing is replayed.
3. **Service supervision**: the switch, the alarm, two boot hooks and the shell
   watchdog with its lock directory and confirmed heartbeat; one watchdog, no kill of a healthy process.
4. Proofs: that uploads are whole in `Transfer`, and what one node's frames tell another in `Frames`, both with an induction over
   byte strings.
