---------------------------- MODULE ControlState ----------------------------
(***************************************************************************)
(* How a control's state is read and written: SnapshotCommandExecutor (the *)
(* shared two-second snapshot and its revisions) in front of               *)
(* AndroidCommandExecutor, whose every operation passes through the        *)
(* CommandGate.                                                            *)
(*                                                                         *)
(* The phone's real state of a control is abstracted to a version that     *)
(* grows with every change, whoever makes it; a reading is the version it  *)
(* saw.  Threads are the HAP protocol workers (a stalled one can outlive   *)
(* its probe, so there may be two) and the state poller.                   *)
(***************************************************************************)
EXTENDS Naturals, FiniteSets, SequencesExt

CONSTANTS
    Threads,      \* the threads that use the executor
    Writers,      \* those that execute commands: the protocol workers
    Commands,     \* HomeKitCommand
    Mute, Volume, \* the two commands that share the media volume
    NoThread,     \* the gate's owner when it is free
    NoSnapshot,   \* no entry in snapshots
    MaxRevision,  \* bound: no write starts on a command that has this revision
    MaxChange     \* bound: the phone does not change by itself beyond this

ASSUME ThreadsAssumption ==
    /\ Writers \subseteq Threads
    /\ NoThread \notin Threads
    /\ IsFiniteSet(Threads)
ASSUME CommandsAssumption == {Mute, Volume} \subseteq Commands
ASSUME BoundsAssumption   == MaxRevision \in Nat /\ MaxChange \in Nat

VARIABLES
    phone,         \* version of the real state of each command
    snapshots,     \* SnapshotCommandExecutor.snapshots
    revisions,     \* SnapshotCommandExecutor.revisions
    owner,         \* the thread that holds CommandGate.lock
    queue,         \* threads queued at the fair lock, in order
    waitingWrites, \* CommandGate.waitingWrites
    th,            \* each thread: where it is, its locals and its history
    settled        \* history: phone[c] when the last write to c returned

cacheVars == <<snapshots, revisions>>
gateVars  == <<owner, queue, waitingWrites>>
vars == <<phone, cacheVars, gateVars, th, settled>>

\* Changing a control changes what is read of these: there is one media volume.
Moved(c) == IF c \in {Mute, Volume} THEN {Mute, Volume} ELSE {c}

\* The commands invalidate() takes as related.  Mutant: each on its own.
RelatedAlone(c) == {c}
Related(c) == IF c \in {Mute, Volume} THEN {Mute, Volume} ELSE {c}

Snapshot == [seen : Nat, fresh : BOOLEAN]

Usable(snapshot) == snapshot # NoSnapshot /\ snapshot.fresh

Label == {"idle", "lookup", "revision", "admit", "announce", "enqueue",
          "queued", "inside", "store", "serve", "withdraw", "finish"}

Thread == [at         : Label,
           op         : {"none", "read", "refresh", "write"},
           cmd        : Commands,
           revision   : Nat,      \* local `revision` of refresh()
           reading    : Nat,      \* local `state` of refresh(): the version it saw
           need       : Nat,      \* history: settled[cmd] when the read began
           overlapped : BOOLEAN,  \* history: a write began or ended since `revision`
           overtaken  : Nat]      \* history: reads that took the gate past this write

Call(label, kind, c, n) ==
    [at |-> label, op |-> kind, cmd |-> c, revision |-> 0, reading |-> 0,
     need |-> n, overlapped |-> FALSE, overtaken |-> 0]
Idle == Call("idle", "none", Mute, 0)

Goto(t, label) == th' = [th EXCEPT ![t] = [@ EXCEPT !.at = label]]
Return(t)      == th' = [th EXCEPT ![t] = Idle]

-----------------------------------------------------------------------------
Init ==
    /\ phone = [c \in Commands |-> 0]
    /\ snapshots = [c \in Commands |-> NoSnapshot]
    /\ revisions = [c \in Commands |-> 0]
    /\ owner = NoThread
    /\ queue = <<>>
    /\ waitingWrites = 0
    /\ th = [t \in Threads |-> Idle]
    /\ settled = [c \in Commands |-> 0]

\* currentValue / currentValueInt of the cached executor.
StartRead(t, c) ==
    /\ th[t].at = "idle"
    /\ th' = [th EXCEPT ![t] = Call("lookup", "read", c, settled[c])]
    /\ UNCHANGED <<phone, cacheVars, gateVars, settled>>

\* refreshControl of the poller: refresh() without looking at the snapshot.
StartRefresh(t, c) ==
    /\ th[t].at = "idle"
    /\ th' = [th EXCEPT ![t] = Call("revision", "refresh", c, 0)]
    /\ UNCHANGED <<phone, cacheVars, gateVars, settled>>

\* invalidate(): every related command loses its snapshot and moves on.
Invalidate(c) ==
    /\ revisions' = [d \in Commands |->
                        IF d \in Related(c) THEN revisions[d] + 1 ELSE revisions[d]]
    /\ snapshots' = [d \in Commands |->
                        IF d \in Related(c) THEN NoSnapshot ELSE snapshots[d]]

\* The history of the refreshes that an invalidation of c finds under way.
Overlap(u, c) ==
    [th[u] EXCEPT !.overlapped =
        @ \/ (th[u].cmd \in Related(c) /\ th[u].at \in
                {"admit", "enqueue", "queued", "inside", "store"})]

\* execute / executeValue: the first thing they do is invalidate.
StartWrite(t, c) ==
    /\ revisions[c] < MaxRevision
    /\ th[t].at = "idle"
    /\ Invalidate(c)
    /\ th' = [u \in Threads |->
                 IF u = t THEN Call("announce", "write", c, 0) ELSE Overlap(u, c)]
    /\ UNCHANGED <<phone, gateVars, settled>>

\* snapshot(): a snapshot younger than MAX_AGE_MS is returned as it is.
LookUp(t) ==
    /\ th[t].at = "lookup"
    /\ IF Usable(snapshots[th[t].cmd]) THEN Return(t) ELSE Goto(t, "revision")
    /\ UNCHANGED <<phone, cacheVars, gateVars, settled>>

\* refresh() notes the revision before it asks the phone.
ReadRevision(t) ==
    /\ th[t].at = "revision"
    /\ th' = [th EXCEPT ![t] = [@ EXCEPT !.at = "admit",
                                         !.revision = revisions[th[t].cmd]]]
    /\ UNCHANGED <<phone, cacheVars, gateVars, settled>>

\* Mutant: the gate admits reads while a control waits.
AdmitAlways(t) ==
    /\ th[t].at = "admit"
    /\ Goto(t, "enqueue")
    /\ UNCHANGED <<phone, cacheVars, gateVars, settled>>

\* CommandGate.read refuses at once while a control is waiting; the check and
\* the lock attempt that follows it are separate steps.
Admit(t) ==
    /\ th[t].at = "admit"
    /\ IF waitingWrites > 0 THEN Return(t) ELSE Goto(t, "enqueue")
    /\ UNCHANGED <<phone, cacheVars, gateVars, settled>>

\* CommandGate.write counts the write before it asks for the lock.
Announce(t) ==
    /\ th[t].at = "announce"
    /\ Goto(t, "enqueue")
    /\ waitingWrites' = waitingWrites + 1
    /\ UNCHANGED <<phone, cacheVars, owner, queue, settled>>

Enqueue(t) ==
    /\ th[t].at = "enqueue"
    /\ Goto(t, "queued")
    /\ queue' = Append(queue, t)
    /\ UNCHANGED <<phone, cacheVars, owner, waitingWrites, settled>>

WaitingToWrite(t) == th[t].op = "write" /\ th[t].at \in {"enqueue", "queued"}

\* The fair lock goes to the thread that has waited longest.
Acquire(t) ==
    /\ th[t].at = "queued"
    /\ owner = NoThread
    /\ queue # <<>>
    /\ Head(queue) = t
    /\ owner' = t
    /\ queue' = Tail(queue)
    /\ th' = [u \in Threads |->
                 IF u = t THEN [th[t] EXCEPT !.at = "inside"]
                 ELSE IF th[t].op # "write" /\ WaitingToWrite(u)
                 THEN [th[u] EXCEPT !.overtaken = @ + 1]
                 ELSE th[u]]
    /\ UNCHANGED <<phone, cacheVars, waitingWrites, settled>>

\* tryLock timed out or was interrupted: ControlUnavailable.  A write still
\* runs both of its finally blocks.
GiveUp(t) ==
    /\ th[t].at = "queued"
    /\ IF th[t].op = "write" THEN Goto(t, "withdraw") ELSE Return(t)
    /\ \E i \in 1..Len(queue) : queue[i] = t /\ queue' = RemoveAt(queue, i)
    /\ UNCHANGED <<phone, cacheVars, owner, waitingWrites, settled>>

Release(t) ==
    /\ owner = t
    /\ owner' = NoThread

\* Mutant: a query that throws leaves the lock held.
QueryKeepsLock(t) ==
    /\ th[t].at = "inside"
    /\ th[t].op # "write"
    /\ \/ /\ th' = [th EXCEPT ![t] = [@ EXCEPT !.at = "store",
                                            !.reading = phone[th[t].cmd]]]
          /\ Release(t)
       \/ /\ Return(t)
          /\ UNCHANGED owner
    /\ UNCHANGED <<phone, cacheVars, queue, waitingWrites, settled>>

\* The phone is asked inside the gate and answers, or the query throws.
Query(t) ==
    /\ th[t].at = "inside"
    /\ th[t].op # "write"
    /\ Release(t)
    /\ \/ th' = [th EXCEPT ![t] = [@ EXCEPT !.at = "store",
                                            !.reading = phone[th[t].cmd]]]
       \/ Return(t)
    /\ UNCHANGED <<phone, cacheVars, queue, waitingWrites, settled>>

\* Mutant: refresh() stores whatever it read.
StoreAlways(t) ==
    /\ th[t].at = "store"
    /\ snapshots' = [snapshots EXCEPT
                        ![th[t].cmd] = [seen |-> th[t].reading, fresh |-> TRUE]]
    /\ IF th[t].op = "read" THEN Goto(t, "serve") ELSE Return(t)
    /\ UNCHANGED <<phone, revisions, gateVars, settled>>

\* The synchronized block of refresh(): the reading is kept only if no
\* invalidation came between.
Store(t) ==
    /\ th[t].at = "store"
    /\ LET c == th[t].cmd
       IN IF th[t].revision = revisions[c]
          THEN snapshots' = [snapshots EXCEPT
                                ![c] = [seen |-> th[t].reading, fresh |-> TRUE]]
          ELSE UNCHANGED snapshots
    /\ IF th[t].op = "read" THEN Goto(t, "serve") ELSE Return(t)
    /\ UNCHANGED <<phone, revisions, gateVars, settled>>

\* snapshot() returns what the map holds by now, whoever stored it, or throws.
Serve(t) ==
    /\ th[t].at = "serve"
    /\ Return(t)
    /\ UNCHANGED <<phone, cacheVars, gateVars, settled>>

\* The delegate executes inside the gate: the phone changes, or the command
\* fails and does not change it.  Mute and volume move the same volume.
Apply(t) ==
    /\ th[t].at = "inside"
    /\ th[t].op = "write"
    /\ Release(t)
    /\ Goto(t, "withdraw")
    /\ \/ phone' = [d \in Commands |->
                       IF d \in Moved(th[t].cmd) THEN phone[d] + 1 ELSE phone[d]]
       \/ UNCHANGED phone
    /\ UNCHANGED <<cacheVars, queue, waitingWrites, settled>>

\* The finally block of CommandGate.write.
Withdraw(t) ==
    /\ th[t].at = "withdraw"
    /\ Goto(t, "finish")
    /\ waitingWrites' = waitingWrites - 1
    /\ UNCHANGED <<phone, cacheVars, owner, queue, settled>>

\* The finally block of execute / executeValue: the second invalidation, after
\* which the write has returned.
Finish(t) ==
    /\ th[t].at = "finish"
    /\ Invalidate(th[t].cmd)
    /\ settled' = [d \in Commands |->
                      IF d \in Moved(th[t].cmd) THEN phone[d] ELSE settled[d]]
    /\ th' = [u \in Threads |-> IF u = t THEN Idle ELSE Overlap(u, th[t].cmd)]
    /\ UNCHANGED <<phone, gateVars>>

\* The user, or the app's own screen with its own executor, changes the phone.
PhoneChanges(c) ==
    /\ phone[c] < MaxChange
    /\ phone' = [d \in Commands |->
                    IF d \in Moved(c) THEN phone[d] + 1 ELSE phone[d]]
    /\ UNCHANGED <<cacheVars, gateVars, th, settled>>

\* A stored snapshot passes MAX_AGE_MS.
Expire(c) ==
    /\ Usable(snapshots[c])
    /\ snapshots' = [snapshots EXCEPT ![c].fresh = FALSE]
    /\ UNCHANGED <<phone, revisions, gateVars, th, settled>>

-----------------------------------------------------------------------------
\* What a thread that is not idle does next without waiting for a deadline.
Advance(t) ==
    \/ LookUp(t)   \/ ReadRevision(t) \/ Admit(t)    \/ Announce(t)
    \/ Enqueue(t)  \/ Acquire(t)      \/ Query(t)    \/ Store(t)
    \/ Serve(t)    \/ Apply(t)        \/ Withdraw(t) \/ Finish(t)

Next ==
    \/ \E t \in Threads, c \in Commands : StartRead(t, c) \/ StartRefresh(t, c)
    \/ \E t \in Writers, c \in Commands : StartWrite(t, c)
    \/ \E t \in Threads : Advance(t) \/ GiveUp(t)
    \/ \E c \in Commands : PhoneChanges(c) \/ Expire(c)

\* Every running thread goes on: each shell operation has a deadline of its
\* own.  Nothing makes a thread begin an operation or give up waiting.
Spec == Init /\ [][Next]_vars /\ \A t \in Threads : WF_vars(Advance(t))

-----------------------------------------------------------------------------
\* The type invariant.
TypeOK ==
    /\ phone \in [Commands -> Nat]
    /\ snapshots \in [Commands -> Snapshot \cup {NoSnapshot}]
    /\ revisions \in [Commands -> Nat]
    /\ owner \in Threads \cup {NoThread}
    /\ queue \in Seq(Threads)
    /\ waitingWrites \in Nat
    /\ th \in [Threads -> Thread]
    /\ settled \in [Commands -> Nat]

\* A HAP read that begins after a write has returned never reports a state the
\* phone had before the write returned: not through the snapshot, not through
\* a reading another thread took before the write and stored after it, and not
\* through the control that shares the volume.  (A read returns the snapshot
\* it finds at "lookup" if that is fresh, or at "serve".)
ReadYourWrites ==
    \A t \in Threads :
        LET s == snapshots[th[t].cmd]
        IN th[t].at \in {"lookup", "serve"} /\ s # NoSnapshot => s.seen >= th[t].need

\* "A read started before a write cannot resurrect its obsolete snapshot": a
\* refresh during which a write to the same or a related control began or
\* ended never stores its reading.
NoResurrection ==
    [][\A t \in Threads :
          Store(t) /\ th[t].overlapped => UNCHANGED snapshots]_vars

\* "Fair writes; background reads yield whenever a control is waiting": from
\* the moment a write is announced each other thread gets the gate for at most
\* one more read, the one it had been admitted for.
BoundedOvertaking == \A w \in Threads : th[w].overtaken < Cardinality(Threads)

\* However often the poller reads, an announced write leaves the gate, even
\* if nobody ever gives up waiting.
WritesAreServed ==
    \A w \in Writers : th[w].at = "announce" ~> th[w].at = "finish"
=============================================================================
