------------------------- MODULE ControlStateProofs -------------------------
(***************************************************************************)
(* For any number of threads, workers and commands: the type invariant of  *)
(* ControlState, that reads see completed writes, that a refresh           *)
(* overlapped by a write stores nothing, and that fewer reads than there   *)
(* are threads pass a write that waits.                                    *)
(***************************************************************************)
EXTENDS ControlState, FiniteSetTheorems, TLAPS

\* A thread is in the part of the gate that its operation goes through.
MatchesAt(label, kind) ==
    /\ label \in {"announce", "withdraw", "finish"} => kind = "write"
    /\ label \in {"idle", "lookup", "revision", "admit", "store", "serve"}
          => kind # "write"
Matches(r) == MatchesAt(r.at, r.op)

OperationsMatch == \A t \in Threads : Matches(th[t])

\* The threads between the two halves of CommandGate.write.
CountsAt(label, kind) ==
    kind = "write" /\ label \in {"enqueue", "queued", "inside", "withdraw"}
Counts(r) == CountsAt(r.at, r.op)
Counted   == {t \in Threads : Counts(th[t])}

\* The counter never drifts from the writes it counts: without this the
\* decrement in Withdraw could leave the naturals.
WritesAreCounted == waitingWrites = Cardinality(Counted)

TypeInv == TypeOK /\ OperationsMatch /\ WritesAreCounted

-----------------------------------------------------------------------------
\* The records a step can leave a thread with.
LEMMA IdleThread == /\ Idle \in Thread
                    /\ Matches(Idle)
                    /\ ~Counts(Idle)
                    /\ Idle.at = "idle"
  BY CommandsAssumption DEF Idle, Call, Thread, Label, Matches, Counts, MatchesAt, CountsAt

LEMMA CallThread ==
    ASSUME NEW l \in Label, NEW k \in {"read", "refresh", "write"},
           NEW c \in Commands, NEW n \in Nat
    PROVE  LET r == Call(l, k, c, n)
           IN r \in Thread /\ r.at = l /\ r.op = k /\ r.cmd = c /\ r.need = n
  BY DEF Call, Thread, Label

LEMMA MovedThread ==
    ASSUME NEW r \in Thread, NEW l \in Label
    PROVE  LET q == [r EXCEPT !.at = l]
           IN /\ q \in Thread /\ q.at = l /\ q.op = r.op /\ q.cmd = r.cmd
              /\ q.revision = r.revision /\ q.reading = r.reading
              /\ q.need = r.need /\ q.overlapped = r.overlapped
  BY DEF Thread, Label

LEMMA OvertakenThread ==
    ASSUME NEW r \in Thread
    PROVE  LET q == [r EXCEPT !.overtaken = @ + 1]
           IN q \in Thread /\ q.at = r.at /\ q.op = r.op /\ q.cmd = r.cmd
              /\ q.revision = r.revision /\ q.reading = r.reading
              /\ q.need = r.need /\ q.overlapped = r.overlapped
  BY DEF Thread

\* One thread's step, as seen by the invariant.
LEMMA OneThread ==
    ASSUME TypeOK, OperationsMatch, NEW t \in Threads,
           NEW r \in Thread, Matches(r), th' = [th EXCEPT ![t] = r]
    PROVE  /\ th' \in [Threads -> Thread]
           /\ OperationsMatch'
           /\ Counts(r) => Counted' = Counted \cup {t}
           /\ ~Counts(r) => Counted' = Counted \ {t}
           /\ (Counts(r) <=> Counts(th[t])) => Counted' = Counted
<1>1. \A u \in Threads : th'[u] = IF u = t THEN r ELSE th[u]
  BY DEF TypeOK
<1>2. th' \in [Threads -> Thread] /\ OperationsMatch'
  BY <1>1 DEF OperationsMatch, TypeOK
<1>. QED  BY <1>1, <1>2 DEF Counted

LEMMA GotoStep ==
    ASSUME TypeOK, OperationsMatch, NEW t \in Threads, NEW l \in Label,
           MatchesAt(l, th[t].op), Goto(t, l)
    PROVE  /\ th' \in [Threads -> Thread]
           /\ OperationsMatch'
           /\ CountsAt(l, th[t].op) => Counted' = Counted \cup {t}
           /\ ~CountsAt(l, th[t].op) => Counted' = Counted \ {t}
           /\ (CountsAt(l, th[t].op) <=> Counts(th[t])) => Counted' = Counted
<1>. DEFINE r == [th[t] EXCEPT !.at = l]
<1>1. r \in Thread /\ r.at = l /\ r.op = th[t].op
  BY MovedThread DEF TypeOK
<1>2. th' = [th EXCEPT ![t] = r]
  BY DEF Goto, TypeOK
<1>. HIDE DEF r
<1>. QED  BY <1>1, <1>2, OneThread DEF Matches, Counts

LEMMA ReturnStep ==
    ASSUME TypeOK, OperationsMatch, NEW t \in Threads, ~Counts(th[t]), Return(t)
    PROVE  th' \in [Threads -> Thread] /\ OperationsMatch' /\ Counted' = Counted
  BY IdleThread, OneThread DEF Return

\* The steps that touch every thread.
LEMMA AllThreads ==
    ASSUME DOMAIN th' = Threads, th' = [u \in Threads |-> th'[u]],
           \A u \in Threads : /\ th'[u] \in Thread
                              /\ Matches(th'[u])
                              /\ Counts(th'[u]) <=> Counts(th[u])
    PROVE  th' \in [Threads -> Thread] /\ OperationsMatch' /\ Counted' = Counted
  BY DEF OperationsMatch, Counted

LEMMA OverlapThread ==
    ASSUME TypeOK, OperationsMatch, NEW u \in Threads, NEW c \in Commands
    PROVE  LET r == Overlap(u, c)
           IN r \in Thread /\ Matches(r) /\ (Counts(r) <=> Counts(th[u]))
<1>1. LET r == Overlap(u, c)
      IN r \in Thread /\ r.at = th[u].at /\ r.op = th[u].op
  BY DEF Overlap, TypeOK, Thread
<1>. QED  BY <1>1 DEF OperationsMatch, Matches, Counts

\* Counting one write more, one write less, or the same writes.
LEMMA CountOneMore ==
    ASSUME NEW t \in Threads, Counted' = Counted \cup {t}, t \notin Counted,
           WritesAreCounted, waitingWrites' = waitingWrites + 1
    PROVE  WritesAreCounted'
<1>1. IsFiniteSet(Counted)
  BY ThreadsAssumption, FS_Subset, Counted \subseteq Threads DEF Counted
<1>. QED  BY <1>1, FS_AddElement DEF WritesAreCounted

LEMMA CountOneLess ==
    ASSUME NEW t \in Threads, Counted' = Counted \ {t}, t \in Counted,
           WritesAreCounted, waitingWrites' = waitingWrites - 1
    PROVE  WritesAreCounted' /\ waitingWrites' \in Nat
<1>1. IsFiniteSet(Counted) /\ IsFiniteSet(Counted')
  BY ThreadsAssumption, FS_Subset, Counted \subseteq Threads, Counted' \subseteq Threads
  DEF Counted
<1>. QED  BY <1>1, FS_RemoveElement, FS_CardinalityType DEF WritesAreCounted

LEMMA CountTheSame ==
    ASSUME Counted' = Counted, WritesAreCounted, UNCHANGED waitingWrites
    PROVE  WritesAreCounted'
  BY DEF WritesAreCounted

-----------------------------------------------------------------------------
\* Each step keeps the type invariant and the count.
LEMMA TypeStep == TypeInv /\ [Next]_vars => TypeInv'
<1>. SUFFICES ASSUME TypeInv, [Next]_vars PROVE TypeInv'
  OBVIOUS
<1>. USE DEF TypeInv
<1>1. ASSUME NEW t \in Threads, NEW c \in Commands, StartRead(t, c)
      PROVE  TypeInv'
  <2>. DEFINE r == Call("lookup", "read", c, settled[c])
  <2>1. r \in Thread /\ Matches(r) /\ ~Counts(r) /\ ~Counts(th[t])
    <3>1. settled[c] \in Nat /\ "lookup" \in Label
      BY DEF TypeOK, Label
    <3>2. r \in Thread /\ r.at = "lookup" /\ r.op = "read"
      BY <3>1, CallThread
    <3>3. th[t].at = "idle"
      BY <1>1 DEF StartRead
    <3>. HIDE DEF r
    <3>. QED  BY <3>2, <3>3 DEF Matches, Counts, MatchesAt, CountsAt
  <2>2. th' = [th EXCEPT ![t] = r]
    BY <1>1 DEF StartRead
  <2>3. th' \in [Threads -> Thread] /\ OperationsMatch' /\ Counted' = Counted
    <3>. HIDE DEF r
    <3>. QED  BY <2>1, <2>2, OneThread
  <2>. QED  BY <1>1, <2>3, CountTheSame DEF StartRead, cacheVars, gateVars, TypeOK
<1>2. ASSUME NEW t \in Threads, NEW c \in Commands, StartRefresh(t, c)
      PROVE  TypeInv'
  <2>. DEFINE r == Call("revision", "refresh", c, 0)
  <2>1. r \in Thread /\ Matches(r) /\ ~Counts(r) /\ ~Counts(th[t])
    BY <1>2, CallThread DEF StartRefresh, Label, Matches, Counts, MatchesAt, CountsAt
  <2>2. th' = [th EXCEPT ![t] = r]
    BY <1>2 DEF StartRefresh
  <2>3. th' \in [Threads -> Thread] /\ OperationsMatch' /\ Counted' = Counted
    <3>. HIDE DEF r
    <3>. QED  BY <2>1, <2>2, OneThread
  <2>. QED  BY <1>2, <2>3, CountTheSame DEF StartRefresh, cacheVars, gateVars, TypeOK
<1>3. ASSUME NEW t \in Threads, LookUp(t)
      PROVE  TypeInv'
  <2>1. th' \in [Threads -> Thread] /\ OperationsMatch' /\ Counted' = Counted
    <3>1. th[t].at = "lookup" /\ th[t].op # "write" /\ ~Counts(th[t])
      BY <1>3 DEF LookUp, OperationsMatch, Matches, Counts, MatchesAt, CountsAt
    <3>2. CASE Return(t)
      BY <3>1, <3>2, ReturnStep
    <3>3. CASE Goto(t, "revision")
      <4>1. /\ "revision" \in Label /\ MatchesAt("revision", th[t].op)
            /\ ~CountsAt("revision", th[t].op)
        BY <3>1 DEF Label, MatchesAt, CountsAt
      <4>. QED  BY <3>1, <3>3, <4>1, GotoStep
    <3>. QED  BY <1>3, <3>2, <3>3 DEF LookUp
  <2>. QED  BY <1>3, <2>1, CountTheSame DEF LookUp, cacheVars, gateVars, TypeOK
<1>4. ASSUME NEW t \in Threads, ReadRevision(t)
      PROVE  TypeInv'
  <2>. DEFINE r == [th[t] EXCEPT !.at = "admit", !.revision = revisions[th[t].cmd]]
  <2>1. r \in Thread /\ r.at = "admit" /\ r.op = th[t].op
    BY DEF TypeOK, Thread, Label
  <2>2. th' = [th EXCEPT ![t] = r] /\ th[t].at = "revision" /\ Matches(th[t])
    BY <1>4 DEF ReadRevision, TypeOK, OperationsMatch
  <2>3. th' \in [Threads -> Thread] /\ OperationsMatch' /\ Counted' = Counted
    <3>. HIDE DEF r
    <3>. QED  BY <2>1, <2>2, OneThread DEF Matches, Counts, MatchesAt, CountsAt
  <2>. QED  BY <1>4, <2>3, CountTheSame DEF ReadRevision, cacheVars, gateVars, TypeOK
<1>5. ASSUME NEW t \in Threads, Admit(t)
      PROVE  TypeInv'
  <2>1. th' \in [Threads -> Thread] /\ OperationsMatch' /\ Counted' = Counted
    <3>1. th[t].op # "write" /\ ~Counts(th[t])
      BY <1>5 DEF Admit, OperationsMatch, Matches, Counts, MatchesAt, CountsAt
    <3>2. CASE Return(t)
      BY <3>1, <3>2, ReturnStep
    <3>3. CASE Goto(t, "enqueue")
      <4>1. /\ "enqueue" \in Label /\ MatchesAt("enqueue", th[t].op)
            /\ ~CountsAt("enqueue", th[t].op)
        BY <3>1 DEF Label, MatchesAt, CountsAt
      <4>. QED  BY <3>1, <3>3, <4>1, GotoStep
    <3>. QED  BY <1>5, <3>2, <3>3 DEF Admit
  <2>. QED  BY <1>5, <2>1, CountTheSame DEF Admit, cacheVars, gateVars, TypeOK
<1>6. ASSUME NEW t \in Threads, Announce(t)
      PROVE  TypeInv'
  <2>1. th[t].at = "announce" /\ th[t].op = "write" /\ Goto(t, "enqueue")
    BY <1>6 DEF Announce, OperationsMatch, Matches, MatchesAt
  <2>2. th' \in [Threads -> Thread] /\ OperationsMatch'
        /\ Counted' = Counted \cup {t} /\ t \notin Counted
    <3>1. /\ "enqueue" \in Label /\ MatchesAt("enqueue", th[t].op)
          /\ CountsAt("enqueue", th[t].op)
      BY <2>1 DEF Label, MatchesAt, CountsAt
    <3>2. t \notin Counted
      BY <2>1 DEF Counted, Counts, CountsAt
    <3>. QED  BY <2>1, <3>1, <3>2, GotoStep
  <2>. QED  BY <1>6, <2>2, CountOneMore DEF Announce, cacheVars, TypeOK
<1>7. ASSUME NEW t \in Threads, Enqueue(t)
      PROVE  TypeInv'
  <2>1. th' \in [Threads -> Thread] /\ OperationsMatch' /\ Counted' = Counted
    <3>1. /\ Goto(t, "queued") /\ "queued" \in Label /\ MatchesAt("queued", th[t].op)
          /\ CountsAt("queued", th[t].op) <=> Counts(th[t])
      BY <1>7 DEF Enqueue, Label, Counts, MatchesAt, CountsAt
    <3>. QED  BY <3>1, GotoStep
  <2>. QED  BY <1>7, <2>1, CountTheSame DEF Enqueue, cacheVars, TypeOK
<1>8. ASSUME NEW t \in Threads, GiveUp(t)
      PROVE  TypeInv'
  <2>1. th' \in [Threads -> Thread] /\ OperationsMatch' /\ Counted' = Counted
    <3>1. CASE th[t].op = "write" /\ Goto(t, "withdraw")
      <4>1. /\ "withdraw" \in Label /\ MatchesAt("withdraw", th[t].op)
            /\ CountsAt("withdraw", th[t].op) <=> Counts(th[t])
        BY <1>8, <3>1 DEF GiveUp, Label, Counts, MatchesAt, CountsAt
      <4>. QED  BY <3>1, <4>1, GotoStep
    <3>2. CASE th[t].op # "write" /\ Return(t)
      BY <3>2, ReturnStep DEF Counts, CountsAt
    <3>. QED  BY <1>8, <3>1, <3>2 DEF GiveUp
  <2>2. queue' \in Seq(Threads)
    BY <1>8 DEF GiveUp, RemoveAt, TypeOK
  <2>. QED  BY <1>8, <2>1, <2>2, CountTheSame DEF GiveUp, cacheVars, TypeOK
<1>9. ASSUME NEW t \in Threads, Query(t)
      PROVE  TypeInv'
  <2>1. th' \in [Threads -> Thread] /\ OperationsMatch' /\ Counted' = Counted
    <3>1. CASE Return(t)
      BY <1>9, <3>1, ReturnStep DEF Query, Counts, CountsAt
    <3>2. CASE th' = [th EXCEPT ![t] = [@ EXCEPT !.at = "store",
                                        !.reading = phone[th[t].cmd]]]
      <4>. DEFINE r == [th[t] EXCEPT !.at = "store", !.reading = phone[th[t].cmd]]
      <4>1. r \in Thread /\ r.at = "store" /\ r.op = th[t].op
        BY DEF TypeOK, Thread, Label
      <4>2. th' = [th EXCEPT ![t] = r] /\ th[t].op # "write"
        BY <1>9, <3>2 DEF Query, TypeOK
      <4>. HIDE DEF r
      <4>3. Matches(r) /\ ~Counts(r) /\ ~Counts(th[t])
        BY <4>1, <4>2 DEF Matches, Counts, MatchesAt, CountsAt
      <4>. QED  BY <4>1, <4>2, <4>3, OneThread
    <3>. QED  BY <1>9, <3>1, <3>2 DEF Query
  <2>. QED  BY <1>9, <2>1, CountTheSame DEF Query, Release, cacheVars, TypeOK
<1>10. ASSUME NEW t \in Threads, Store(t)
      PROVE  TypeInv'
  <2>1. th' \in [Threads -> Thread] /\ OperationsMatch' /\ Counted' = Counted
    <3>1. th[t].op # "write" /\ ~Counts(th[t])
      BY <1>10 DEF Store, OperationsMatch, Matches, Counts, MatchesAt, CountsAt
    <3>2. CASE Return(t)
      BY <3>1, <3>2, ReturnStep
    <3>3. CASE Goto(t, "serve")
      <4>1. /\ "serve" \in Label /\ MatchesAt("serve", th[t].op)
            /\ ~CountsAt("serve", th[t].op)
        BY <3>1 DEF Label, MatchesAt, CountsAt
      <4>. QED  BY <3>1, <3>3, <4>1, GotoStep
    <3>. QED  BY <1>10, <3>2, <3>3 DEF Store
  <2>2. snapshots' \in [Commands -> Snapshot \cup {NoSnapshot}]
    <3>1. th[t].cmd \in Commands /\ [seen |-> th[t].reading, fresh |-> TRUE] \in Snapshot
      BY DEF TypeOK, Thread, Snapshot
    <3>. QED  BY <1>10, <3>1 DEF Store, TypeOK
  <2>. QED  BY <1>10, <2>1, <2>2, CountTheSame DEF Store, gateVars, TypeOK
<1>11. ASSUME NEW t \in Threads, Serve(t)
      PROVE  TypeInv'
  <2>1. th' \in [Threads -> Thread] /\ OperationsMatch' /\ Counted' = Counted
    <3>1. Return(t) /\ ~Counts(th[t])
      BY <1>11 DEF Serve, Counts, CountsAt
    <3>. QED  BY <3>1, ReturnStep
  <2>. QED  BY <1>11, <2>1, CountTheSame DEF Serve, cacheVars, gateVars, TypeOK
<1>12. ASSUME NEW t \in Threads, Apply(t)
      PROVE  TypeInv'
  <2>1. th' \in [Threads -> Thread] /\ OperationsMatch' /\ Counted' = Counted
    <3>1. /\ Goto(t, "withdraw") /\ "withdraw" \in Label /\ MatchesAt("withdraw", th[t].op)
          /\ CountsAt("withdraw", th[t].op) <=> Counts(th[t])
      BY <1>12 DEF Apply, Label, Counts, MatchesAt, CountsAt
    <3>. QED  BY <3>1, GotoStep
  <2>2. phone' \in [Commands -> Nat]
    <3>1. phone \in [Commands -> Nat]
      BY DEF TypeOK
    <3>2. CASE UNCHANGED phone
      BY <3>1, <3>2
    <3>3. CASE phone' = [d \in Commands |-> IF d \in Moved(th[t].cmd) THEN phone[d] + 1 ELSE phone[d]]
      <4>1. \A d \in Commands : phone[d] \in Nat /\ phone[d] + 1 \in Nat
        BY <3>1
      <4>. QED  BY <3>3, <4>1
    <3>. QED  BY <1>12, <3>2, <3>3 DEF Apply
  <2>3. owner' = NoThread /\ UNCHANGED <<snapshots, revisions, queue, waitingWrites, settled>>
    BY <1>12 DEF Apply, Release, cacheVars
  <2>. QED  BY <2>1, <2>2, <2>3, CountTheSame DEF TypeOK
<1>13. ASSUME NEW t \in Threads, Withdraw(t)
      PROVE  TypeInv'
  <2>1. th[t].at = "withdraw" /\ th[t].op = "write" /\ Goto(t, "finish")
    BY <1>13 DEF Withdraw, OperationsMatch, Matches, MatchesAt
  <2>2. th' \in [Threads -> Thread] /\ OperationsMatch'
        /\ Counted' = Counted \ {t} /\ t \in Counted
    <3>1. /\ "finish" \in Label /\ MatchesAt("finish", th[t].op)
          /\ ~CountsAt("finish", th[t].op)
      BY <2>1 DEF Label, MatchesAt, CountsAt
    <3>2. t \in Counted
      BY <2>1 DEF Counted, Counts, CountsAt
    <3>. QED  BY <2>1, <3>1, <3>2, GotoStep
  <2>. QED  BY <1>13, <2>2, CountOneLess DEF Withdraw, cacheVars, TypeOK
<1>14. ASSUME NEW c \in Commands, PhoneChanges(c)
      PROVE  TypeInv'
  <2>. QED  BY <1>14, CountTheSame
       DEF PhoneChanges, cacheVars, gateVars, TypeOK, OperationsMatch, Counted
<1>15. ASSUME NEW c \in Commands, Expire(c)
      PROVE  TypeInv'
  <2>1. snapshots' \in [Commands -> Snapshot \cup {NoSnapshot}]
    BY <1>15 DEF Expire, Usable, TypeOK, Snapshot
  <2>. QED  BY <1>15, <2>1, CountTheSame
       DEF Expire, cacheVars, gateVars, TypeOK, OperationsMatch, Counted
<1>16. ASSUME NEW t \in Threads, NEW c \in Commands, StartWrite(t, c)
      PROVE  TypeInv'
  <2>1. th' \in [Threads -> Thread] /\ OperationsMatch' /\ Counted' = Counted
    <3>1. \A u \in Threads : th'[u] = IF u = t THEN Call("announce", "write", c, 0)
                                              ELSE Overlap(u, c)
      BY <1>16 DEF StartWrite
    <3>2. LET r == Call("announce", "write", c, 0)
          IN r \in Thread /\ Matches(r) /\ ~Counts(r) /\ ~Counts(th[t])
      BY <1>16, CallThread
      DEF StartWrite, Label, Matches, Counts, MatchesAt, CountsAt
    <3>. QED  BY <1>16, <3>1, <3>2, OverlapThread, AllThreads DEF StartWrite
  <2>2. snapshots' \in [Commands -> Snapshot \cup {NoSnapshot}]
        /\ revisions' \in [Commands -> Nat]
    BY <1>16 DEF StartWrite, Invalidate, TypeOK
  <2>. QED  BY <1>16, <2>1, <2>2, CountTheSame DEF StartWrite, gateVars, TypeOK
<1>17. ASSUME NEW t \in Threads, Finish(t)
      PROVE  TypeInv'
  <2>1. th' \in [Threads -> Thread] /\ OperationsMatch' /\ Counted' = Counted
    <3>1. \A u \in Threads : th'[u] = IF u = t THEN Idle ELSE Overlap(u, th[t].cmd)
      BY <1>17 DEF Finish
    <3>2. ~Counts(th[t])
      BY <1>17 DEF Finish, Counts, CountsAt
    <3>3. th[t].cmd \in Commands
      BY DEF TypeOK, Thread
    <3>. QED  BY <1>17, <3>1, <3>2, <3>3, IdleThread, OverlapThread, AllThreads DEF Finish
  <2>2. /\ snapshots' \in [Commands -> Snapshot \cup {NoSnapshot}]
        /\ revisions' \in [Commands -> Nat]
        /\ settled' \in [Commands -> Nat]
    BY <1>17 DEF Finish, Invalidate, TypeOK
  <2>. QED  BY <1>17, <2>1, <2>2, CountTheSame DEF Finish, gateVars, TypeOK
<1>18. ASSUME NEW t \in Threads, Acquire(t)
      PROVE  TypeInv'
  <2>1. th' \in [Threads -> Thread] /\ OperationsMatch' /\ Counted' = Counted
    <3>1. \A u \in Threads :
             th'[u] = IF u = t THEN [th[t] EXCEPT !.at = "inside"]
                      ELSE IF th[t].op # "write" /\ WaitingToWrite(u)
                      THEN [th[u] EXCEPT !.overtaken = @ + 1] ELSE th[u]
      BY <1>18 DEF Acquire
    <3>2. \A u \in Threads :
             LET r == [th[u] EXCEPT !.overtaken = @ + 1]
             IN r \in Thread /\ r.at = th[u].at /\ r.op = th[u].op
      BY OvertakenThread DEF TypeOK
    <3>3. LET r == [th[t] EXCEPT !.at = "inside"]
          IN r \in Thread /\ Matches(r) /\ (Counts(r) <=> Counts(th[t]))
      <4>. DEFINE q == [th[t] EXCEPT !.at = "inside"]
      <4>1. q \in Thread /\ q.at = "inside" /\ q.op = th[t].op
        <5>1. th[t] \in Thread /\ "inside" \in Label
          BY DEF TypeOK, Label
        <5>. QED  BY <5>1, MovedThread
      <4>2. th[t].at = "queued"
        BY <1>18 DEF Acquire
      <4>3. q \in Thread /\ Matches(q) /\ (Counts(q) <=> Counts(th[t]))
        <5>. HIDE DEF q
        <5>. QED  BY <4>1, <4>2 DEF Matches, Counts, MatchesAt, CountsAt
      <4>. QED  BY <4>3
    <3>4. \A u \in Threads : th'[u] \in Thread /\ Matches(th'[u])
                              /\ (Counts(th'[u]) <=> Counts(th[u]))
      BY <3>1, <3>2, <3>3 DEF TypeOK, OperationsMatch, Matches, Counts
    <3>. QED  BY <1>18, <3>4, AllThreads DEF Acquire
  <2>2. queue' \in Seq(Threads)
    BY <1>18 DEF Acquire, TypeOK
  <2>. QED  BY <1>18, <2>1, <2>2, CountTheSame DEF Acquire, cacheVars, TypeOK
<1>19. CASE UNCHANGED vars
  BY <1>19, CountTheSame
  DEF vars, cacheVars, gateVars, TypeOK, OperationsMatch, Counted
<1>. QED
  BY <1>1, <1>2, <1>3, <1>4, <1>5, <1>6, <1>7, <1>8, <1>9, <1>10, <1>11, <1>12, <1>13, <1>14, <1>15, <1>16, <1>17, <1>18, <1>19, ThreadsAssumption DEF Next, Advance

LEMMA TypeInit == Init => TypeInv
<1>. SUFFICES ASSUME Init PROVE TypeInv
  OBVIOUS
<1>1. TypeOK /\ OperationsMatch
  BY IdleThread DEF Init, TypeOK, OperationsMatch
<1>2. Counted = {}
  BY IdleThread DEF Init, Counted
<1>. QED  BY <1>1, <1>2, FS_EmptySet DEF Init, TypeInv, WritesAreCounted

\* The type invariant holds in every state: see TypeOK.
THEOREM TypeCorrect == Spec => []TypeOK
<1>1. TypeInv => TypeOK
  BY DEF TypeInv
<1>. QED  BY <1>1, TypeInit, TypeStep, PTL DEF Spec

-----------------------------------------------------------------------------
\* Where a refresh that has taken its revision can be.
Refreshing == {"admit", "enqueue", "queued", "inside", "store"}

\* A read asks for no more than has been settled.  A refresh holds a revision
\* that was current once, an older one if a write overlapped it; if it is
\* current still, its reading is as recent as what has been settled.
Guarded(r, rev, set) ==
    /\ r.need =< set[r.cmd]
    /\ r.at \in {"lookup", "revision"} => ~r.overlapped
    /\ r.at \in Refreshing /\ r.op # "write" =>
          /\ r.revision =< rev[r.cmd]
          /\ r.overlapped => r.revision < rev[r.cmd]
          /\ r.at = "store" /\ r.revision = rev[r.cmd] => r.reading >= set[r.cmd]

ThreadsAreGuarded == \A t \in Threads : Guarded(th[t], revisions, settled)

\* What is in the map is at least as recent as the last write that returned.
SnapshotsAreSettled ==
    \A c \in Commands :
        /\ settled[c] =< phone[c]
        /\ snapshots[c] # NoSnapshot => snapshots[c].seen >= settled[c]

Safe == ThreadsAreGuarded /\ SnapshotsAreSettled

\* The mute/volume relation is what a change of the media volume moves.
LEMMA RelatedIsMoved ==
    ASSUME NEW c \in Commands
    PROVE  Related(c) = Moved(c) /\ c \in Related(c)
  BY DEF Related, Moved

LEMMA GuardedCall ==
    ASSUME NEW l \in {"idle", "lookup", "revision", "announce"}, NEW k, NEW c \in Commands,
           NEW rev, NEW set \in [Commands -> Nat], NEW n \in Nat, n =< set[c]
    PROVE  Guarded(Call(l, k, c, n), rev, set)
  BY DEF Guarded, Call, Refreshing

LEMMA GuardedIdle ==
    ASSUME NEW rev, NEW set \in [Commands -> Nat]
    PROVE  Guarded(Idle, rev, set)
  BY GuardedCall, CommandsAssumption DEF Idle

\* A move that is not the end of a query keeps a thread guarded.
LEMMA GuardedMove ==
    ASSUME NEW r \in Thread, NEW l \in Label, NEW rev, NEW set, Guarded(r, rev, set),
           l # "store", l # "lookup", l = "revision" => r.at = "lookup",
           l \in Refreshing => r.at \in Refreshing \/ r.op = "write"
    PROVE  Guarded([r EXCEPT !.at = l], rev, set)
<1>. DEFINE q == [r EXCEPT !.at = l]
<1>1. /\ q.at = l /\ q.op = r.op /\ q.cmd = r.cmd /\ q.revision = r.revision
      /\ q.need = r.need /\ q.overlapped = r.overlapped
  BY MovedThread
<1>. HIDE DEF q
<1>2. Guarded(q, rev, set)
  BY <1>1 DEF Guarded
<1>. QED  BY <1>2 DEF q

\* A step that moves one thread and leaves the cache alone.
LEMMA QuietStep ==
    ASSUME TypeOK, Safe, UNCHANGED <<snapshots, revisions, settled>>,
           \A c \in Commands : phone'[c] >= phone[c], phone' \in [Commands -> Nat],
           \A u \in Threads : th'[u] = th[u] \/ Guarded(th'[u], revisions, settled)
    PROVE  Safe'
<1>1. ThreadsAreGuarded'
  BY DEF Safe, ThreadsAreGuarded
<1>2. SnapshotsAreSettled'
  BY DEF Safe, SnapshotsAreSettled, TypeOK
<1>. QED  BY <1>1, <1>2 DEF Safe

LEMMA QuietGoto ==
    ASSUME TypeOK, Safe, UNCHANGED <<snapshots, revisions, settled>>,
           \A c \in Commands : phone'[c] >= phone[c], phone' \in [Commands -> Nat],
           NEW t \in Threads, NEW l \in Label, Goto(t, l),
           l # "store", l # "lookup", l = "revision" => th[t].at = "lookup",
           l \in Refreshing => th[t].at \in Refreshing \/ th[t].op = "write"
    PROVE  Safe'
<1>1. Guarded([th[t] EXCEPT !.at = l], revisions, settled)
  BY GuardedMove DEF TypeOK, Safe, ThreadsAreGuarded
<1>2. \A u \in Threads : th'[u] = IF u = t THEN [th[t] EXCEPT !.at = l] ELSE th[u]
  BY DEF Goto, TypeOK
<1>. QED  BY <1>1, <1>2, QuietStep

LEMMA QuietReturn ==
    ASSUME TypeOK, Safe, UNCHANGED <<snapshots, revisions, settled>>,
           \A c \in Commands : phone'[c] >= phone[c], phone' \in [Commands -> Nat],
           NEW t \in Threads, Return(t)
    PROVE  Safe'
<1>1. \A u \in Threads : th'[u] = IF u = t THEN Idle ELSE th[u]
  BY DEF Return, TypeOK
<1>. QED  BY <1>1, GuardedIdle, QuietStep DEF TypeOK

\* An invalidation puts every refresh of the related commands behind.
LEMMA GuardedOverlap ==
    ASSUME TypeOK, Safe, NEW u \in Threads, NEW c \in Commands, Invalidate(c),
           settled' \in [Commands -> Nat],
           \A d \in Commands : settled[d] =< settled'[d],
           \A d \in Commands : d \notin Related(c) => settled'[d] = settled[d]
    PROVE  Guarded(Overlap(u, c), revisions', settled')
<1>. DEFINE r == Overlap(u, c)
<1>1. th[u] \in Thread /\ th[u].cmd \in Commands /\ th[u].revision \in Nat
      /\ th[u].need \in Nat
  BY DEF TypeOK, Thread
<1>2. /\ r.at = th[u].at /\ r.op = th[u].op /\ r.cmd = th[u].cmd
      /\ r.revision = th[u].revision /\ r.reading = th[u].reading
      /\ r.need = th[u].need
      /\ r.overlapped = (th[u].overlapped \/
                         (th[u].cmd \in Related(c) /\ th[u].at \in Refreshing))
  BY <1>1 DEF Overlap, Thread, Refreshing
<1>3. /\ revisions[th[u].cmd] \in Nat /\ settled[th[u].cmd] \in Nat
      /\ settled'[th[u].cmd] \in Nat
      /\ revisions'[th[u].cmd] = IF th[u].cmd \in Related(c)
                                 THEN revisions[th[u].cmd] + 1 ELSE revisions[th[u].cmd]
  BY <1>1 DEF TypeOK, Invalidate
<1>4. Guarded(th[u], revisions, settled)
  BY DEF Safe, ThreadsAreGuarded
<1>. HIDE DEF r
<1>5. r.need =< settled'[r.cmd]
  BY <1>1, <1>2, <1>3, <1>4 DEF Guarded
<1>6. r.at \in {"lookup", "revision"} => ~r.overlapped
  BY <1>2, <1>4 DEF Guarded, Refreshing
<1>7. r.at \in Refreshing /\ r.op # "write" =>
          /\ r.revision =< revisions'[r.cmd]
          /\ r.overlapped => r.revision < revisions'[r.cmd]
          /\ r.at = "store" /\ r.revision = revisions'[r.cmd]
                => r.reading >= settled'[r.cmd]
  <2>1. CASE th[u].cmd \in Related(c)
    BY <1>1, <1>2, <1>3, <1>4, <2>1 DEF Guarded
  <2>2. CASE th[u].cmd \notin Related(c)
    BY <1>1, <1>2, <1>3, <1>4, <2>2 DEF Guarded
  <2>. QED  BY <2>1, <2>2
<1>8. Guarded(r, revisions', settled')
  BY <1>5, <1>6, <1>7 DEF Guarded
<1>. QED  BY <1>8 DEF r

\* Each step keeps the refreshes guarded and the snapshots settled.
LEMMA SafeStep == TypeInv /\ Safe /\ [Next]_vars => Safe'
<1>. SUFFICES ASSUME TypeInv, Safe, [Next]_vars PROVE Safe'
  OBVIOUS
<1>0. TypeOK /\ OperationsMatch
  BY DEF TypeInv
<1>. USE <1>0
<1>1. ASSUME NEW t \in Threads, NEW c \in Commands, StartRead(t, c) PROVE Safe'
  <2>1. Guarded(Call("lookup", "read", c, settled[c]), revisions, settled)
    <3>1. settled[c] \in Nat /\ settled[c] =< settled[c] /\ settled \in [Commands -> Nat]
      BY DEF TypeOK
    <3>. QED  BY <3>1, GuardedCall
  <2>. QED  BY <1>1, <2>1, QuietStep DEF StartRead, cacheVars, TypeOK
<1>2. ASSUME NEW t \in Threads, NEW c \in Commands, StartRefresh(t, c) PROVE Safe'
  <2>1. Guarded(Call("revision", "refresh", c, 0), revisions, settled)
    BY GuardedCall DEF TypeOK
  <2>. QED  BY <1>2, <2>1, QuietStep DEF StartRefresh, cacheVars, TypeOK
<1>3. ASSUME NEW t \in Threads, NEW c \in Commands, StartWrite(t, c) PROVE Safe'
  <2>1. Invalidate(c) /\ UNCHANGED <<settled, phone>>
    BY <1>3 DEF StartWrite
  <2>2. Guarded(Call("announce", "write", c, 0), revisions', settled')
    BY <2>1, GuardedCall DEF TypeOK
  <2>3. \A u \in Threads : Guarded(Overlap(u, c), revisions', settled')
    <3>1. /\ settled' \in [Commands -> Nat]
          /\ \A d \in Commands : settled[d] =< settled'[d]
      BY <2>1 DEF TypeOK
    <3>. QED  BY <2>1, <3>1, GuardedOverlap
  <2>4. ThreadsAreGuarded'
    BY <1>3, <2>2, <2>3 DEF StartWrite, ThreadsAreGuarded
  <2>5. SnapshotsAreSettled'
    BY <2>1 DEF Invalidate, Safe, SnapshotsAreSettled
  <2>. QED  BY <2>4, <2>5 DEF Safe
<1>4. ASSUME NEW t \in Threads, LookUp(t) PROVE Safe'
  BY <1>4, QuietGoto, QuietReturn DEF LookUp, cacheVars, TypeOK, Label, Refreshing
<1>5. ASSUME NEW t \in Threads, ReadRevision(t) PROVE Safe'
  <2>. DEFINE r == [th[t] EXCEPT !.at = "admit", !.revision = revisions[th[t].cmd]]
  <2>1. th[t] \in Thread /\ revisions[th[t].cmd] \in Nat /\ th[t].at = "revision"
        /\ Guarded(th[t], revisions, settled)
    BY <1>5 DEF ReadRevision, TypeOK, Thread, Safe, ThreadsAreGuarded
  <2>2. /\ r.at = "admit" /\ r.op = th[t].op /\ r.cmd = th[t].cmd /\ r.need = th[t].need
        /\ r.overlapped = th[t].overlapped /\ r.revision = revisions[th[t].cmd]
    BY <2>1 DEF Thread
  <2>3. \A u \in Threads : th'[u] = IF u = t THEN r ELSE th[u]
    BY <1>5 DEF ReadRevision, TypeOK
  <2>. HIDE DEF r
  <2>4. Guarded(r, revisions, settled)
    BY <2>1, <2>2 DEF Guarded
  <2>. QED  BY <1>5, <2>3, <2>4, QuietStep DEF ReadRevision, cacheVars, TypeOK
<1>6. ASSUME NEW t \in Threads, Admit(t) PROVE Safe'
  BY <1>6, QuietGoto, QuietReturn DEF Admit, cacheVars, TypeOK, Label, Refreshing
<1>7. ASSUME NEW t \in Threads, Announce(t) PROVE Safe'
  BY <1>7, QuietGoto
  DEF Announce, cacheVars, TypeOK, Label, Refreshing, OperationsMatch, Matches, MatchesAt
<1>8. ASSUME NEW t \in Threads, Enqueue(t) PROVE Safe'
  BY <1>8, QuietGoto DEF Enqueue, cacheVars, TypeOK, Label, Refreshing
<1>9. ASSUME NEW t \in Threads, Acquire(t) PROVE Safe'
  <2>1. th[t] \in Thread /\ th[t].at = "queued" /\ Guarded(th[t], revisions, settled)
    BY <1>9 DEF Acquire, TypeOK, Safe, ThreadsAreGuarded
  <2>2. Guarded([th[t] EXCEPT !.at = "inside"], revisions, settled)
    BY <2>1, GuardedMove DEF Label, Refreshing
  <2>3. ASSUME NEW u \in Threads
        PROVE  Guarded([th[u] EXCEPT !.overtaken = @ + 1], revisions, settled)
    <3>. DEFINE q == [th[u] EXCEPT !.overtaken = @ + 1]
    <3>1. Guarded(th[u], revisions, settled)
      BY DEF Safe, ThreadsAreGuarded
    <3>2. /\ q.at = th[u].at /\ q.op = th[u].op /\ q.cmd = th[u].cmd
          /\ q.revision = th[u].revision /\ q.reading = th[u].reading
          /\ q.need = th[u].need /\ q.overlapped = th[u].overlapped
      BY OvertakenThread DEF TypeOK
    <3>. HIDE DEF q
    <3>3. Guarded(q, revisions, settled)
      BY <3>1, <3>2 DEF Guarded
    <3>. QED  BY <3>3 DEF q
  <2>4. \A u \in Threads :
           \/ th'[u] = th[u]
           \/ th'[u] = [th[u] EXCEPT !.overtaken = @ + 1]
           \/ u = t /\ th'[u] = [th[t] EXCEPT !.at = "inside"]
    BY <1>9 DEF Acquire
  <2>5. \A u \in Threads : th'[u] = th[u] \/ Guarded(th'[u], revisions, settled)
    BY <2>2, <2>3, <2>4
  <2>6. /\ UNCHANGED <<snapshots, revisions, settled>>
        /\ phone' \in [Commands -> Nat]
        /\ \A c \in Commands : phone'[c] >= phone[c]
    BY <1>9 DEF Acquire, cacheVars, TypeOK
  <2>. QED  BY <2>5, <2>6, QuietStep
<1>10. ASSUME NEW t \in Threads, GiveUp(t) PROVE Safe'
  BY <1>10, QuietGoto, QuietReturn DEF GiveUp, cacheVars, TypeOK, Label, Refreshing
<1>11. ASSUME NEW t \in Threads, Query(t) PROVE Safe'
  <2>1. CASE Return(t)
    BY <1>11, <2>1, QuietReturn DEF Query, cacheVars, TypeOK
  <2>2. CASE th' = [th EXCEPT ![t] = [@ EXCEPT !.at = "store",
                                      !.reading = phone[th[t].cmd]]]
    <3>. DEFINE r == [th[t] EXCEPT !.at = "store", !.reading = phone[th[t].cmd]]
    <3>1. /\ th[t] \in Thread /\ th[t].at = "inside" /\ th[t].cmd \in Commands
          /\ Guarded(th[t], revisions, settled)
          /\ settled[th[t].cmd] =< phone[th[t].cmd]
          /\ settled[th[t].cmd] \in Nat /\ phone[th[t].cmd] \in Nat
      BY <1>11 DEF Query, TypeOK, Thread, Safe, ThreadsAreGuarded, SnapshotsAreSettled
    <3>2. /\ r.at = "store" /\ r.op = th[t].op /\ r.cmd = th[t].cmd
          /\ r.need = th[t].need /\ r.revision = th[t].revision
          /\ r.overlapped = th[t].overlapped /\ r.reading = phone[th[t].cmd]
      BY <3>1 DEF Thread
    <3>3. \A u \in Threads : th'[u] = IF u = t THEN r ELSE th[u]
      BY <2>2 DEF TypeOK
    <3>. HIDE DEF r
    <3>4. Guarded(r, revisions, settled)
      BY <3>1, <3>2 DEF Guarded, Refreshing
    <3>. QED  BY <1>11, <3>3, <3>4, QuietStep DEF Query, cacheVars, TypeOK
  <2>. QED  BY <1>11, <2>1, <2>2 DEF Query
<1>12. ASSUME NEW t \in Threads, Store(t) PROVE Safe'
  <2>1. /\ th[t] \in Thread /\ th[t].at = "store" /\ th[t].cmd \in Commands
        /\ th[t].op # "write" /\ Guarded(th[t], revisions, settled)
    BY <1>12 DEF Store, TypeOK, Thread, Safe, ThreadsAreGuarded,
                 OperationsMatch, Matches, MatchesAt
  <2>2. SnapshotsAreSettled'
    <3>1. UNCHANGED <<phone, settled>>
      BY <1>12 DEF Store
    <3>2. th[t].revision = revisions[th[t].cmd] => th[t].reading >= settled[th[t].cmd]
      BY <2>1 DEF Guarded, Refreshing
    <3>3. \A c \in Commands : \/ snapshots'[c] = snapshots[c]
                              \/ /\ c = th[t].cmd /\ th[t].revision = revisions[c]
                                 /\ snapshots'[c].seen = th[t].reading
      BY <1>12 DEF Store, TypeOK
    <3>. QED  BY <3>1, <3>2, <3>3 DEF Safe, SnapshotsAreSettled
  <2>3. Guarded([th[t] EXCEPT !.at = "serve"], revisions, settled)
    BY <2>1, GuardedMove DEF Label, Refreshing
  <2>4. Guarded(Idle, revisions, settled)
    BY GuardedIdle DEF TypeOK
  <2>5. \A u \in Threads : \/ th'[u] = th[u]
                           \/ th'[u] = Idle
                           \/ u = t /\ th'[u] = [th[t] EXCEPT !.at = "serve"]
    BY <1>12 DEF Store, Goto, Return, TypeOK
  <2>6. ThreadsAreGuarded'
    BY <1>12, <2>3, <2>4, <2>5 DEF Store, Safe, ThreadsAreGuarded
  <2>. QED  BY <2>2, <2>6 DEF Safe
<1>13. ASSUME NEW t \in Threads, Serve(t) PROVE Safe'
  BY <1>13, QuietReturn DEF Serve, cacheVars, TypeOK
<1>14. ASSUME NEW t \in Threads, Apply(t) PROVE Safe'
  <2>1. phone' \in [Commands -> Nat] /\ \A c \in Commands : phone'[c] >= phone[c]
    <3>1. CASE UNCHANGED phone
      BY <3>1 DEF TypeOK
    <3>2. CASE phone' = [d \in Commands |->
                  IF d \in Moved(th[t].cmd) THEN phone[d] + 1 ELSE phone[d]]
      BY <3>2 DEF TypeOK
    <3>. QED  BY <1>14, <3>1, <3>2 DEF Apply
  <2>2. /\ UNCHANGED <<snapshots, revisions, settled>>
        /\ Goto(t, "withdraw") /\ "withdraw" \in Label /\ "withdraw" \notin Refreshing
    BY <1>14 DEF Apply, cacheVars, Label, Refreshing
  <2>. QED  BY <2>1, <2>2, QuietGoto
<1>15. ASSUME NEW t \in Threads, Withdraw(t) PROVE Safe'
  BY <1>15, QuietGoto DEF Withdraw, cacheVars, TypeOK, Label, Refreshing
<1>16. ASSUME NEW t \in Threads, Finish(t) PROVE Safe'
  <2>. DEFINE c == th[t].cmd
  <2>1. c \in Commands
    BY DEF TypeOK, Thread
  <2>2. /\ Invalidate(c) /\ UNCHANGED phone
        /\ settled' = [d \in Commands |-> IF d \in Related(c) THEN phone[d] ELSE settled[d]]
        /\ \A u \in Threads : th'[u] = IF u = t THEN Idle ELSE Overlap(u, c)
    BY <1>16, <2>1, RelatedIsMoved DEF Finish
  <2>. HIDE DEF c
  <2>3. /\ settled' \in [Commands -> Nat]
        /\ \A d \in Commands : settled[d] =< settled'[d]
        /\ \A d \in Commands : d \notin Related(c) => settled'[d] = settled[d]
    BY <2>2 DEF TypeOK, Safe, SnapshotsAreSettled
  <2>4. \A u \in Threads : Guarded(Overlap(u, c), revisions', settled')
    BY <2>1, <2>2, <2>3, GuardedOverlap
  <2>5. ThreadsAreGuarded'
    BY <2>2, <2>3, <2>4, GuardedIdle DEF ThreadsAreGuarded
  <2>6. SnapshotsAreSettled'
    BY <2>2, <2>3 DEF Invalidate, Safe, SnapshotsAreSettled, TypeOK
  <2>. QED  BY <2>5, <2>6 DEF Safe
<1>17. ASSUME NEW c \in Commands, PhoneChanges(c) PROVE Safe'
  <2>1. phone' \in [Commands -> Nat] /\ \A d \in Commands : phone'[d] >= phone[d]
    BY <1>17 DEF PhoneChanges, TypeOK
  <2>. QED  BY <1>17, <2>1, QuietStep DEF PhoneChanges, cacheVars
<1>18. ASSUME NEW c \in Commands, Expire(c) PROVE Safe'
  <2>1. \A d \in Commands : snapshots'[d] # NoSnapshot =>
           snapshots[d] # NoSnapshot /\ snapshots'[d].seen = snapshots[d].seen
    BY <1>18 DEF Expire, Usable, TypeOK, Snapshot
  <2>2. SnapshotsAreSettled'
    BY <1>18, <2>1 DEF Expire, Safe, SnapshotsAreSettled
  <2>3. ThreadsAreGuarded'
    BY <1>18 DEF Expire, Safe, ThreadsAreGuarded
  <2>. QED  BY <2>2, <2>3 DEF Safe
<1>19. CASE UNCHANGED vars
  BY <1>19 DEF vars, cacheVars, Safe, ThreadsAreGuarded, SnapshotsAreSettled
<1>. QED
  BY <1>1, <1>2, <1>3, <1>4, <1>5, <1>6, <1>7, <1>8, <1>9, <1>10, <1>11, <1>12, <1>13,
     <1>14, <1>15, <1>16, <1>17, <1>18, <1>19, ThreadsAssumption DEF Next, Advance

LEMMA Invariance == Spec => [](TypeInv /\ Safe)
<1>1. Init => TypeInv /\ Safe
  <2>. SUFFICES ASSUME Init PROVE Safe
    BY TypeInit
  <2>1. TypeOK
    BY TypeInit DEF TypeInv
  <2>2. ThreadsAreGuarded
    BY <2>1, GuardedIdle DEF Init, ThreadsAreGuarded, TypeOK
  <2>3. SnapshotsAreSettled
    BY DEF Init, SnapshotsAreSettled
  <2>. QED  BY <2>2, <2>3 DEF Safe
<1>. QED  BY <1>1, TypeStep, SafeStep, PTL DEF Spec

\* Reads see completed writes: see ReadYourWrites.  What a read asks for was
\* settled by a write, and nothing older survives in the map.
THEOREM ReadsSeeWrites == Spec => []ReadYourWrites
<1>1. TypeInv /\ Safe => ReadYourWrites
  <2>. SUFFICES ASSUME TypeInv, Safe, NEW t \in Threads,
                       snapshots[th[t].cmd] # NoSnapshot
                PROVE  snapshots[th[t].cmd].seen >= th[t].need
    BY DEF ReadYourWrites
  <2>1. /\ th[t].cmd \in Commands /\ th[t].need \in Nat
        /\ settled[th[t].cmd] \in Nat /\ th[t].need =< settled[th[t].cmd]
    BY DEF TypeInv, TypeOK, Thread, Safe, ThreadsAreGuarded, Guarded
  <2>2. snapshots[th[t].cmd].seen \in Nat
    BY <2>1 DEF TypeInv, TypeOK, Snapshot
  <2>. QED  BY <2>1, <2>2 DEF Safe, SnapshotsAreSettled
<1>. QED  BY <1>1, Invariance, PTL

\* An overlapped refresh holds an old revision, so it stores nothing: see
\* NoResurrection.
THEOREM NothingIsResurrected == Spec => NoResurrection
<1>1. TypeInv /\ Safe /\ [Next]_vars =>
        [\A t \in Threads : Store(t) /\ th[t].overlapped => UNCHANGED snapshots]_vars
  <2>. SUFFICES ASSUME TypeInv, Safe, NEW t \in Threads, Store(t), th[t].overlapped
                PROVE  UNCHANGED snapshots
    OBVIOUS
  <2>1. th[t].op # "write" /\ th[t].at = "store" /\ Guarded(th[t], revisions, settled)
    BY DEF TypeInv, OperationsMatch, Matches, MatchesAt, Safe, ThreadsAreGuarded, Store
  <2>2. th[t].revision # revisions[th[t].cmd]
    BY <2>1 DEF Guarded, Refreshing, TypeInv, TypeOK, Thread
  <2>. QED  BY <2>2 DEF Store
<1>. QED  BY <1>1, Invariance, PTL DEF Spec, NoResurrection
-----------------------------------------------------------------------------
(* How many reads pass a write that waits.                                 *)

\* A read that is past the refusal and not yet inside the gate.
Awaits(r)   == r.op # "write" /\ r.at \in {"enqueue", "queued"}
AwaitedBy   == {t \in Threads : Awaits(th[t])}

\* The reads that passed a waiting write, and those that still can, are together
\* fewer than the threads: the write itself is none of them.
InTurn ==
    \A w \in Threads :
        /\ th[w].overtaken < Cardinality(Threads)
        /\ th[w].at = "announce" => th[w].overtaken = 0
        /\ WaitingToWrite(w)
              => th[w].overtaken + Cardinality(AwaitedBy) < Cardinality(Threads)

\* A thread's step that leaves it neither a new waiting write nor a new waiting read.
Goes(u) ==
    \/ /\ th'[u].op = th[u].op /\ th'[u].overtaken = th[u].overtaken
       /\ \/ th'[u].at = th[u].at
          \/ th[u].at = "enqueue" /\ th'[u].at = "queued"
    \/ th'[u].at = "announce" /\ th'[u].overtaken = 0
    \/ /\ th'[u].at \notin {"announce", "enqueue", "queued"}
       /\ th'[u].overtaken \in {0, th[u].overtaken}

\* The reads that wait are finitely many, as the threads are.
LEMMA AwaitedAreFinite ==
    ASSUME NEW S \in SUBSET Threads
    PROVE  /\ IsFiniteSet(S) /\ Cardinality(S) \in Nat
           /\ Cardinality(S) =< Cardinality(Threads) /\ Cardinality(Threads) \in Nat
           /\ \A t \in Threads : Cardinality(S \ {t}) =< Cardinality(S)
           /\ \A t \in Threads : t \notin S => Cardinality(S) < Cardinality(Threads)
           /\ \A t \in S : Cardinality(S \ {t}) = Cardinality(S) - 1
<1>1. /\ IsFiniteSet(S) /\ Cardinality(S) \in Nat /\ Cardinality(Threads) \in Nat
      /\ Cardinality(S) =< Cardinality(Threads)
      /\ Cardinality(S) = Cardinality(Threads) => S = Threads
  BY ThreadsAssumption, FS_Subset, FS_CardinalityType
<1>2. \A t \in Threads :
         Cardinality(S \ {t}) = IF t \in S THEN Cardinality(S) - 1 ELSE Cardinality(S)
  BY <1>1, FS_RemoveElement
<1>. QED  BY <1>1, <1>2

\* While a write waits, the gate refuses whoever is not past the refusal yet.
LEMMA WritesAreSeen ==
    ASSUME TypeInv, NEW w \in Threads, WaitingToWrite(w) PROVE waitingWrites > 0
<1>1. Counted \subseteq Threads /\ w \in Counted
  BY DEF Counted, Counts, CountsAt, WaitingToWrite
<1>2. IsFiniteSet(Counted)
  BY <1>1, AwaitedAreFinite
<1>3. Cardinality(Counted) # 0
  BY <1>1, <1>2, FS_EmptySet
<1>. QED  BY <1>3 DEF TypeInv, TypeOK, WritesAreCounted

\* The steps of one thread that no waiting write can notice.
LEMMA TurnKept ==
    ASSUME TypeOK, InTurn, th' \in [Threads -> Thread], \A u \in Threads : Goes(u)
    PROVE  InTurn'
<1>1. AwaitedBy' \subseteq AwaitedBy
  BY DEF AwaitedBy, Awaits, Goes
<1>2. /\ Cardinality(AwaitedBy') \in Nat /\ Cardinality(AwaitedBy) \in Nat
      /\ Cardinality(AwaitedBy') =< Cardinality(AwaitedBy)
  <2>1. IsFiniteSet(AwaitedBy) /\ Cardinality(AwaitedBy) \in Nat
    BY AwaitedAreFinite DEF AwaitedBy
  <2>2. Cardinality(AwaitedBy') \in Nat
    BY AwaitedAreFinite DEF AwaitedBy
  <2>. QED  BY <1>1, <2>1, <2>2, FS_Subset
<1>3. Cardinality(Threads) \in Nat /\ \A u \in Threads : 0 < Cardinality(Threads)
  BY ThreadsAssumption, FS_CardinalityType, FS_EmptySet
<1>4. ASSUME NEW w \in Threads
      PROVE  /\ th'[w].overtaken < Cardinality(Threads)
             /\ th'[w].at = "announce" => th'[w].overtaken = 0
             /\ WaitingToWrite(w)' => WaitingToWrite(w) /\ th'[w].overtaken = th[w].overtaken
  BY <1>3 DEF InTurn, Goes, WaitingToWrite
<1>5. \A w \in Threads : th[w].overtaken \in Nat
  BY DEF TypeOK, Thread
<1>. QED  BY <1>2, <1>3, <1>4, <1>5 DEF InTurn

\* A thread that moves on, or returns.
LEMMA GotoGoes ==
    ASSUME TypeOK, NEW t \in Threads, NEW l \in Label, Goto(t, l),
           l \notin {"announce", "enqueue"}, l = "queued" => th[t].at = "enqueue"
    PROVE  \A u \in Threads : Goes(u)
<1>1. /\ th'[t].at = l /\ th'[t].op = th[t].op /\ th'[t].overtaken = th[t].overtaken
      /\ \A u \in Threads : u # t => th'[u] = th[u]
  BY DEF Goto, TypeOK, Thread
<1>. QED  BY <1>1 DEF Goes

LEMMA ReturnGoes ==
    ASSUME TypeOK, NEW t \in Threads, Return(t) PROVE \A u \in Threads : Goes(u)
<1>1. /\ th'[t].at = "idle" /\ th'[t].overtaken = 0
      /\ \A u \in Threads : u # t => th'[u] = th[u]
  BY DEF Return, Idle, Call, TypeOK
<1>. QED  BY <1>1 DEF Goes

\* The reads that are refused, or pass: a write that waits lets none pass.
LEMMA AdmitTurn ==
    ASSUME TypeInv, InTurn, NEW t \in Threads, Admit(t), th' \in [Threads -> Thread]
    PROVE  InTurn'
<1>1. TypeOK
  BY DEF TypeInv
<1>2. CASE waitingWrites > 0
  BY <1>1, <1>2, ReturnGoes, TurnKept DEF Admit
<1>3. CASE ~(waitingWrites > 0)
  <2>1. Goto(t, "enqueue") /\ th[t].at = "admit" /\ th[t].op # "write"
    BY <1>3 DEF Admit, TypeInv, OperationsMatch, Matches, MatchesAt
  <2>2. /\ th'[t].at = "enqueue" /\ th'[t].op # "write" /\ th'[t].overtaken = th[t].overtaken
        /\ \A u \in Threads : u # t => th'[u] = th[u]
    BY <1>1, <2>1 DEF Goto, TypeOK, Thread
  <2>3. \A w \in Threads : ~WaitingToWrite(w)
    BY <1>3, WritesAreSeen
  <2>4. \A w \in Threads : ~WaitingToWrite(w)'
    BY <2>2, <2>3 DEF WaitingToWrite
  <2>. QED  BY <2>2, <2>4 DEF InTurn
<1>. QED  BY <1>2, <1>3

\* A write that begins to wait has been passed by none, and is not a read itself.
LEMMA AnnounceTurn ==
    ASSUME TypeInv, InTurn, NEW t \in Threads, Announce(t), th' \in [Threads -> Thread]
    PROVE  InTurn'
<1>1. TypeOK /\ th[t].at = "announce" /\ th[t].op = "write" /\ Goto(t, "enqueue")
  BY DEF Announce, TypeInv, OperationsMatch, Matches, MatchesAt
<1>2. /\ th'[t].at = "enqueue" /\ th'[t].op = "write" /\ th'[t].overtaken = th[t].overtaken
      /\ \A u \in Threads : u # t => th'[u] = th[u]
  BY <1>1 DEF Goto, TypeOK, Thread
<1>3. AwaitedBy' = AwaitedBy /\ t \notin AwaitedBy /\ AwaitedBy \in SUBSET Threads
  BY <1>1, <1>2 DEF AwaitedBy, Awaits
<1>4. Cardinality(AwaitedBy) \in Nat /\ Cardinality(AwaitedBy) < Cardinality(Threads)
  BY <1>3, AwaitedAreFinite
<1>5. th[t].overtaken = 0
  BY <1>1 DEF InTurn
<1>6. /\ th'[t].overtaken < Cardinality(Threads)
      /\ th'[t].overtaken + Cardinality(AwaitedBy') < Cardinality(Threads)
  BY <1>2, <1>3, <1>4, <1>5 DEF InTurn
<1>. QED  BY <1>2, <1>3, <1>6 DEF InTurn, WaitingToWrite

\* A read that gets the gate passes every write that waits, and waits no longer.
LEMMA AcquireTurn ==
    ASSUME TypeInv, InTurn, NEW t \in Threads, Acquire(t), th' \in [Threads -> Thread]
    PROVE  InTurn'
<1>1. TypeOK /\ th[t].at = "queued"
  BY DEF TypeInv, Acquire
<1>2. /\ th'[t].at = "inside" /\ th'[t].op = th[t].op /\ th'[t].overtaken = th[t].overtaken
  BY <1>1 DEF Acquire, TypeOK, Thread
<1>3. CASE th[t].op = "write"
  <2>1. \A u \in Threads : u # t => th'[u] = th[u]
    BY <1>3 DEF Acquire
  <2>. QED  BY <1>1, <1>2, <2>1, TurnKept DEF Goes
<1>4. CASE th[t].op # "write"
  <2>1. ASSUME NEW u \in Threads, u # t
        PROVE  /\ th'[u].at = th[u].at /\ th'[u].op = th[u].op
               /\ WaitingToWrite(u) => th'[u].overtaken = th[u].overtaken + 1
               /\ ~WaitingToWrite(u) => th'[u].overtaken = th[u].overtaken
    <3>1. CASE WaitingToWrite(u)
      <4>1. th'[u] = [th[u] EXCEPT !.overtaken = @ + 1]
        BY <1>4, <2>1, <3>1 DEF Acquire
      <4>. QED  BY <1>1, <3>1, <4>1 DEF TypeOK, Thread
    <3>2. CASE ~WaitingToWrite(u)
      BY <1>4, <2>1, <3>2 DEF Acquire
    <3>. QED  BY <3>1, <3>2
  <2>2. AwaitedBy' = AwaitedBy \ {t} /\ t \in AwaitedBy /\ AwaitedBy \in SUBSET Threads
    BY <1>1, <1>2, <1>4, <2>1 DEF AwaitedBy, Awaits
  <2>3. Cardinality(AwaitedBy) \in Nat /\ Cardinality(AwaitedBy') = Cardinality(AwaitedBy) - 1
        /\ Cardinality(AwaitedBy') \in Nat /\ Cardinality(Threads) \in Nat
    <3>1. AwaitedBy' \in SUBSET Threads
      BY <2>2
    <3>. QED  BY <2>2, <3>1, AwaitedAreFinite
  <2>4. \A w \in Threads : th[w].overtaken \in Nat
    BY <1>1 DEF TypeOK, Thread
  <2>5. ASSUME NEW w \in Threads
        PROVE  /\ th'[w].overtaken < Cardinality(Threads)
               /\ th'[w].at = "announce" => th'[w].overtaken = 0
               /\ WaitingToWrite(w)' =>
                     th'[w].overtaken + Cardinality(AwaitedBy') < Cardinality(Threads)
    <3>1. CASE w = t
      BY <1>2, <3>1 DEF InTurn, WaitingToWrite
    <3>2. CASE w # t
      <4>1. WaitingToWrite(w)' <=> WaitingToWrite(w)
        BY <2>1, <3>2 DEF WaitingToWrite
      <4>2. CASE WaitingToWrite(w)
        <5>1. th[w].overtaken + Cardinality(AwaitedBy) < Cardinality(Threads)
              /\ th'[w].overtaken = th[w].overtaken + 1 /\ th'[w].at # "announce"
          BY <2>1, <3>2, <4>2 DEF InTurn, WaitingToWrite
        <5>. QED  BY <2>3, <2>4, <5>1
      <4>3. CASE ~WaitingToWrite(w)
        BY <2>1, <3>2, <4>1, <4>3 DEF InTurn
      <4>. QED  BY <4>2, <4>3
    <3>. QED  BY <3>1, <3>2
  <2>. QED  BY <2>5 DEF InTurn
<1>. QED  BY <1>3, <1>4

\* A refresh that an invalidation finds under way stays where it is.
LEMMA OverlapGoes ==
    ASSUME TypeOK, NEW u \in Threads, NEW c, th'[u] = Overlap(u, c) PROVE Goes(u)
<1>1. th'[u].at = th[u].at /\ th'[u].op = th[u].op /\ th'[u].overtaken = th[u].overtaken
  BY DEF Overlap, TypeOK, Thread
<1>. QED  BY <1>1 DEF Goes

\* A thread that gets a record of its own.
LEMMA RecordGoes ==
    ASSUME TypeOK, NEW t \in Threads, NEW r, th' = [th EXCEPT ![t] = r],
           r.at \notin {"announce", "enqueue", "queued"},
           r.overtaken \in {0, th[t].overtaken}
    PROVE  \A u \in Threads : Goes(u)
<1>1. th'[t] = r /\ \A u \in Threads : u # t => th'[u] = th[u]
  BY DEF TypeOK
<1>. QED  BY <1>1 DEF Goes

\* No step lets one read more pass a waiting write than there were to pass it.
LEMMA TurnStep == TypeInv /\ InTurn /\ [Next]_vars => InTurn'
<1>. SUFFICES ASSUME TypeInv, InTurn, [Next]_vars PROVE InTurn'
  OBVIOUS
<1>0. TypeOK /\ th' \in [Threads -> Thread]
  BY TypeStep DEF TypeInv, TypeOK
<1>1. ASSUME NEW t \in Threads, NEW c \in Commands, StartRead(t, c) PROVE InTurn'
  <2>. DEFINE r == Call("lookup", "read", c, settled[c])
  <2>1. th' = [th EXCEPT ![t] = r] /\ r.at = "lookup" /\ r.overtaken = 0
    BY <1>1 DEF StartRead, Call
  <2>. HIDE DEF r
  <2>. QED  BY <1>0, <2>1, RecordGoes, TurnKept
<1>2. ASSUME NEW t \in Threads, NEW c \in Commands, StartRefresh(t, c) PROVE InTurn'
  <2>. DEFINE r == Call("revision", "refresh", c, 0)
  <2>1. th' = [th EXCEPT ![t] = r] /\ r.at = "revision" /\ r.overtaken = 0
    BY <1>2 DEF StartRefresh, Call
  <2>. HIDE DEF r
  <2>. QED  BY <1>0, <2>1, RecordGoes, TurnKept
<1>3. ASSUME NEW t \in Threads, NEW c \in Commands, StartWrite(t, c) PROVE InTurn'
  <2>1. /\ th'[t].at = "announce" /\ th'[t].overtaken = 0
        /\ \A u \in Threads : u # t => th'[u] = Overlap(u, c)
    BY <1>3 DEF StartWrite, Call
  <2>2. Goes(t)
    BY <2>1 DEF Goes
  <2>. QED  BY <1>0, <2>1, <2>2, OverlapGoes, TurnKept
<1>4. ASSUME NEW t \in Threads, LookUp(t) PROVE InTurn'
  BY <1>0, <1>4, GotoGoes, ReturnGoes, TurnKept DEF LookUp, Label
<1>5. ASSUME NEW t \in Threads, ReadRevision(t) PROVE InTurn'
  <2>. DEFINE r == [th[t] EXCEPT !.at = "admit", !.revision = revisions[th[t].cmd]]
  <2>1. th' = [th EXCEPT ![t] = r] /\ r.at = "admit" /\ r.overtaken = th[t].overtaken
    BY <1>0, <1>5 DEF ReadRevision, TypeOK, Thread
  <2>. HIDE DEF r
  <2>. QED  BY <1>0, <2>1, RecordGoes, TurnKept
<1>6. ASSUME NEW t \in Threads, Admit(t) PROVE InTurn'
  BY <1>0, <1>6, AdmitTurn
<1>7. ASSUME NEW t \in Threads, Announce(t) PROVE InTurn'
  BY <1>0, <1>7, AnnounceTurn
<1>8. ASSUME NEW t \in Threads, Enqueue(t) PROVE InTurn'
  BY <1>0, <1>8, GotoGoes, TurnKept DEF Enqueue, Label
<1>9. ASSUME NEW t \in Threads, Acquire(t) PROVE InTurn'
  BY <1>0, <1>9, AcquireTurn
<1>10. ASSUME NEW t \in Threads, GiveUp(t) PROVE InTurn'
  BY <1>0, <1>10, GotoGoes, ReturnGoes, TurnKept DEF GiveUp, Label
<1>11. ASSUME NEW t \in Threads, Query(t) PROVE InTurn'
  <2>1. CASE Return(t)
    BY <1>0, <2>1, ReturnGoes, TurnKept
  <2>2. CASE th' = [th EXCEPT ![t] = [@ EXCEPT !.at = "store", !.reading = phone[th[t].cmd]]]
    <3>. DEFINE r == [th[t] EXCEPT !.at = "store", !.reading = phone[th[t].cmd]]
    <3>1. th' = [th EXCEPT ![t] = r] /\ r.at = "store" /\ r.overtaken = th[t].overtaken
      BY <1>0, <2>2 DEF TypeOK, Thread
    <3>. HIDE DEF r
    <3>. QED  BY <1>0, <3>1, RecordGoes, TurnKept
  <2>. QED  BY <1>11, <2>1, <2>2 DEF Query
<1>12. ASSUME NEW t \in Threads, Store(t) PROVE InTurn'
  BY <1>0, <1>12, GotoGoes, ReturnGoes, TurnKept DEF Store, Label
<1>13. ASSUME NEW t \in Threads, Serve(t) PROVE InTurn'
  BY <1>0, <1>13, ReturnGoes, TurnKept DEF Serve
<1>14. ASSUME NEW t \in Threads, Apply(t) \/ Withdraw(t) PROVE InTurn'
  BY <1>0, <1>14, GotoGoes, TurnKept DEF Apply, Withdraw, Label
<1>15. ASSUME NEW t \in Threads, Finish(t) PROVE InTurn'
  <2>1. /\ th'[t].at = "idle" /\ th'[t].overtaken = 0
        /\ \A u \in Threads : u # t => th'[u] = Overlap(u, th[t].cmd)
    BY <1>15 DEF Finish, Idle, Call
  <2>2. Goes(t)
    BY <2>1 DEF Goes
  <2>. QED  BY <1>0, <2>1, <2>2, OverlapGoes, TurnKept
<1>16. CASE UNCHANGED th
  BY <1>16 DEF InTurn, AwaitedBy, WaitingToWrite
<1>17. ASSUME NEW c \in Commands, PhoneChanges(c) \/ Expire(c) PROVE InTurn'
  BY <1>16, <1>17 DEF PhoneChanges, Expire
<1>18. CASE UNCHANGED vars
  BY <1>16, <1>18 DEF vars
<1>. QED
  BY <1>1, <1>2, <1>3, <1>4, <1>5, <1>6, <1>7, <1>8, <1>9, <1>10, <1>11, <1>12, <1>13,
     <1>14, <1>15, <1>17, <1>18, ThreadsAssumption DEF Next, Advance

\* From its announcement to its end a write is passed by fewer reads than there are
\* threads: see BoundedOvertaking.  What bounds them is that the gate refuses every
\* read but those that had passed its check before.
THEOREM FewPassAWrite == Spec => []BoundedOvertaking
<1>1. Init => InTurn
  <2>. SUFFICES ASSUME Init PROVE InTurn
    OBVIOUS
  <2>1. \A w \in Threads : th[w].at = "idle" /\ th[w].overtaken = 0
    BY DEF Init, Idle, Call
  <2>2. Cardinality(Threads) \in Nat /\ \A w \in Threads : 0 < Cardinality(Threads)
    BY ThreadsAssumption, FS_CardinalityType, FS_EmptySet
  <2>. QED  BY <2>1, <2>2 DEF InTurn, WaitingToWrite
<1>2. InTurn => BoundedOvertaking
  BY DEF InTurn, BoundedOvertaking
<1>. QED  BY <1>1, <1>2, TypeInit, TypeStep, TurnStep, PTL DEF Spec
=============================================================================
