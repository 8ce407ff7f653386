---------------------------- MODULE CodecsProofs ----------------------------
(***************************************************************************)
(* Proofs about the parts of Codecs, for any frames, channels, times,      *)
(* sizes and threads.                                                      *)
(***************************************************************************)
EXTENDS Codecs, FiniteSetTheorems, WellFoundedInduction, TLAPS

-----------------------------------------------------------------------------
(* Replay. *)

FrameOrNone == HostFrames \cup {NoFrame}

\* The frame that is kept is the one the host stands by, since it came, and is kept no
\* longer than any of its records lives; what was repeated on a channel was repeated when
\* the cache says, or before.
ReplayInv ==
    /\ clock \in Nat
    /\ cache \in [frame : FrameOrNone, cachedAt : Int, frameTtl : Int, lastSent : [Channels -> Int]]
    /\ spoken \in [Channels -> Int]
    /\ \A c \in Channels : spoken[c] <= cache.lastSent[c] /\ spoken[c] <= clock
    /\ cache.frame # NoFrame =>
          /\ standing.frame = cache.frame /\ standing.at = cache.cachedAt
          /\ \A ttl \in cache.frame.ttls \cup {TtlCap, CacheTtl} : ttl \in Int /\ cache.frameTtl <= ttl
    /\ ReplaysAreLive

\* A set of numbers that is not empty has a least.
LEMMA LeastNumber ==
    ASSUME NEW S \in SUBSET Nat, S # {}
    PROVE  \E x \in S : \A y \in S : x <= y
<1>. DEFINE Less == {s \in Nat \X Nat : s[1] < s[2]}
<1>1. IsWellFoundedOn(Less, Nat)
  <2>1. OpToRel(<, Nat) = Less
    BY DEF OpToRel
  <2>. QED  BY <2>1, NatLessThanWellFounded
<1>2. \A x, y \in Nat : <<y, x>> \notin Less => x <= y
  OBVIOUS
<1>. HIDE DEF Less
<1>3. PICK x \in S : \A y \in S : <<y, x>> \notin Less
  BY <1>1, WFMin
<1>4. \A y \in S : x <= y
  BY <1>2, <1>3
<1>. QED  BY <1>3, <1>4

\* What is kept of a response lives no longer than the least of its records.
LEMMA KeptNoLonger ==
    ASSUME NEW f \in HostFrames, Classify(f) = Replace
    PROVE  /\ Lesser(CacheTtl, MaxAge(f)) \in Int
           /\ \A ttl \in f.ttls \cup {TtlCap, CacheTtl} :
                 ttl \in Int /\ Lesser(CacheTtl, MaxAge(f)) <= ttl
<1>1. f.ttls \in SUBSET Nat /\ f.ttls # {}
  BY ReplayAssumption DEF Classify, Replace, Keep, Clear
<1>2. MinOf(f.ttls) \in f.ttls /\ \A y \in f.ttls : MinOf(f.ttls) <= y
  BY <1>1, LeastNumber DEF MinOf
<1>. QED  BY <1>1, <1>2, ReplayAssumption DEF MaxAge, Lesser

LEMMA HostStep ==
    ASSUME ReplayInv, FromHost
    PROVE  ReplayInv'
<1>1. PICK f \in HostFrames :
        /\ cache' = IF IsSelfMdns(f) THEN Observe(cache, f) ELSE cache
        /\ standing' = Stands(f)
        /\ spoken' = IF IsSelfMdns(f) /\ Classify(f) = Clear THEN [c \in Channels |-> Never] ELSE spoken
        /\ replay' = NoReplay
        /\ UNCHANGED clock
  BY DEF FromHost
<1>2. ReplaysAreLive'
  BY <1>1 DEF ReplaysAreLive, NoReplay
<1>3. cache = [frame |-> cache.frame, cachedAt |-> cache.cachedAt, frameTtl |-> cache.frameTtl,
               lastSent |-> cache.lastSent]
  BY DEF ReplayInv
<1>4. CASE ~IsSelfMdns(f) \/ Classify(f) = Keep
  BY <1>1, <1>2, <1>4 DEF ReplayInv, Observe, Stands, Keep, Clear
<1>5. CASE IsSelfMdns(f) /\ Classify(f) = Clear
  <2>1. cache' = [frame |-> NoFrame, cachedAt |-> cache.cachedAt, frameTtl |-> cache.frameTtl,
                  lastSent |-> [c \in Channels |-> Never]]
    BY <1>1, <1>3, <1>5 DEF Observe, Forgotten, Keep, Clear
  <2>2. spoken' = [c \in Channels |-> Never]
    BY <1>1, <1>5
  <2>. QED  BY <1>1, <1>2, <2>1, <2>2, ReplayAssumption DEF ReplayInv, Never, FrameOrNone
<1>6. CASE IsSelfMdns(f) /\ Classify(f) = Replace
  <2>1. cache' = [frame |-> f, cachedAt |-> clock, frameTtl |-> Lesser(CacheTtl, MaxAge(f)),
                  lastSent |-> cache.lastSent]
    BY <1>1, <1>3, <1>6 DEF Observe, Refresh, Keep, Clear, Replace
  <2>2. standing' = [frame |-> f, at |-> clock] /\ spoken' = spoken
    BY <1>1, <1>6 DEF Stands, Keep, Clear, Replace
  <2>. QED  BY <1>1, <1>2, <1>6, <2>1, <2>2, KeptNoLonger DEF ReplayInv, FrameOrNone
<1>7. Classify(f) \in {Keep, Clear, Replace}
  BY ReplayAssumption DEF Classify
<1>. QED  BY <1>4, <1>5, <1>6, <1>7

LEMMA RebroadcastStep ==
    ASSUME ReplayInv, Rebroadcast
    PROVE  ReplayInv'
<1>. DEFINE allowed(v) == v.channel \in Social \cup ({v.anchor} \ {0})
            due(v) == /\ v.channel # 0 /\ v.open /\ allowed(v) /\ IsLive(cache)
                      /\ clock - cache.lastSent[v.channel] >= MinGap
<1>1. PICK v \in Visits, accepts \in BOOLEAN :
        /\ cache' = [cache EXCEPT
                       !.frame = IF v.channel # 0 /\ v.open /\ ~IsLive(cache) THEN NoFrame ELSE @,
                       !.lastSent = IF due(v) THEN [@ EXCEPT ![v.channel] = clock] ELSE @]
        /\ replay' = IF due(v) /\ accepts THEN [frame |-> cache.frame, channel |-> v.channel,
                                                anchor |-> v.anchor, gap |-> clock - spoken[v.channel]]
                                          ELSE NoReplay
        /\ spoken' = IF due(v) /\ accepts THEN [spoken EXCEPT ![v.channel] = clock] ELSE spoken
        /\ UNCHANGED <<clock, standing>>
  BY DEF Rebroadcast
<1>2. cache = [frame |-> cache.frame, cachedAt |-> cache.cachedAt, frameTtl |-> cache.frameTtl,
               lastSent |-> cache.lastSent]
  BY DEF ReplayInv
<1>3. v.channel \in Channels
  BY DEF Channels
<1>a. UNCHANGED <<clock, standing>>
  BY <1>1
<1>4. CASE due(v)
  <2>1. cache' = [frame |-> cache.frame, cachedAt |-> cache.cachedAt, frameTtl |-> cache.frameTtl,
                  lastSent |-> [cache.lastSent EXCEPT ![v.channel] = clock]]
    BY <1>1, <1>2, <1>4
  <2>2. cache.frame # NoFrame /\ clock - cache.cachedAt < cache.frameTtl
    BY <1>4 DEF IsLive
  <2>3. CASE accepts
    <3>1. /\ replay'.frame = cache.frame /\ replay'.channel = v.channel
          /\ replay'.anchor = v.anchor /\ replay'.gap = clock - spoken[v.channel]
      BY <1>1, <1>4, <2>3
    <3>2. spoken' = [spoken EXCEPT ![v.channel] = clock]
      BY <1>1, <1>4, <2>3
    <3>3. replay'.gap >= MinGap
      BY <1>3, <1>4, <3>1, ReplayAssumption DEF ReplayInv
    <3>4. replay'.channel \in Social \cup {replay'.anchor}
      BY <1>4, <3>1
    <3>5. \A ttl \in standing.frame.ttls \cup {TtlCap, CacheTtl} : clock - standing.at < ttl
      BY <2>2 DEF ReplayInv
    <3>6. ReplaysAreLive'
      BY <1>1, <2>2, <3>1, <3>3, <3>4, <3>5 DEF ReplaysAreLive, ReplayInv
    <3>. QED  BY <1>a, <1>3, <2>1, <3>2, <3>6 DEF ReplayInv
  <2>4. CASE ~accepts
    <3>1. replay' = NoReplay /\ spoken' = spoken
      BY <1>1, <2>4
    <3>2. ReplaysAreLive'
      BY <3>1 DEF ReplaysAreLive, NoReplay
    <3>. QED  BY <1>a, <1>3, <2>1, <3>1, <3>2 DEF ReplayInv
  <2>. QED  BY <2>3, <2>4
<1>5. CASE ~due(v)
  <2>1. replay' = NoReplay /\ spoken' = spoken
    BY <1>1, <1>5
  <2>2. ReplaysAreLive'
    BY <2>1 DEF ReplaysAreLive, NoReplay
  <2>3. \/ cache' = cache
        \/ cache' = [frame |-> NoFrame, cachedAt |-> cache.cachedAt, frameTtl |-> cache.frameTtl,
                     lastSent |-> cache.lastSent]
    BY <1>1, <1>2, <1>5
  <2>. QED  BY <1>1, <2>1, <2>2, <2>3 DEF ReplayInv, FrameOrNone
<1>. QED  BY <1>4, <1>5

LEMMA ReplayStep == ReplayInv /\ [ReplayNext]_replayVars => ReplayInv'
<1>. SUFFICES ASSUME ReplayInv, [ReplayNext]_replayVars PROVE ReplayInv'
  OBVIOUS
<1>1. CASE Later
  BY <1>1 DEF Later, ReplayInv, ReplaysAreLive, NoReplay
<1>2. CASE UNCHANGED replayVars
  BY <1>2 DEF replayVars, ReplayInv, ReplaysAreLive
<1>. QED  BY <1>1, <1>2, HostStep, RebroadcastStep DEF ReplayNext

LEMMA ReplayBegins == ReplayInit => ReplayInv
BY ReplayAssumption DEF ReplayInit, ReplayInv, ReplaysAreLive, NoReplay, Never, FrameOrNone

-----------------------------------------------------------------------------
(* Cadence. *)

Half == Eaw \div 2
Middle(w) == origin + Eaw * w + Half

\* The first window that begins once the loop and the clock were steady for one.
SteadyWindow == (steady - origin) \div Eaw + 2

\* The next frame is due in the middle of a window, or, after the clock jumped, before that
\* of the first steady window; no window before has two, none that is steady lacks its own;
\* and the steady loop is never late.
CadenceInv ==
    /\ {ticks, origin, steady} \subseteq Nat /\ origin <= steady /\ steady <= ticks
    /\ "mif" \in DOMAIN next /\ next.mif \in Int
    /\ mifs \subseteq [window : Nat, at : Nat]
    /\ \A m \in mifs : Middle(m.window + 1) <= next.mif /\ Slots[SlotOf(m.window)]
    /\ \A m, n \in mifs : m.window = n.window => m = n
    /\ next.mif <= ticks + Eaw + Half
    /\ steady < ticks => ticks <= next.mif
    /\ next.mif < Middle(SteadyWindow) \/ \E k \in Nat : next.mif = Middle(k)
    /\ \A w \in Nat :
          w >= SteadyWindow /\ Middle(w) < next.mif /\ Slots[SlotOf(w)] =>
              \E m \in mifs : /\ m.window = w /\ m.at <= Middle(w)
                              /\ w > SteadyWindow => m.at = Middle(w)

LEMMA Division ==
    ASSUME NEW n \in Nat, NEW d \in Nat \ {0}
    PROVE  /\ n \div d \in Nat /\ n % d \in Nat /\ n % d < d
           /\ n - d * (n \div d) = n % d
<1>1. n \div d \in Nat
  OBVIOUS
<1>2. n % d \in Nat /\ n % d < d
  OBVIOUS
<1>3. n - d * (n \div d) = n % d
  OBVIOUS
<1>. QED  BY <1>1, <1>2, <1>3

LEMMA InOrder ==
    ASSUME NEW d \in Nat \ {0}, NEW a \in Int, NEW b \in Int
    PROVE  /\ d * a \in Int /\ d * (a + 1) = d * a + d
           /\ a < b <=> d * a + d <= d * b
<1>1. d * a \in Int /\ d * (a + 1) = d * a + d
  OBVIOUS
<1>2. a < b => d * a + d <= d * b
  OBVIOUS
<1>3. d * a + d <= d * b => a < b
  OBVIOUS
<1>. QED  BY <1>1, <1>2, <1>3

LEMMA Quotients ==
    ASSUME NEW d \in Nat \ {0}, NEW a \in Nat, NEW b \in Nat, a <= b
    PROVE  a \div d <= b \div d
OBVIOUS

LEMMA NotBefore ==
    ASSUME NEW d \in Nat \ {0}, NEW a \in Nat, NEW b \in Nat, a <= b
    PROVE  d * b \in Int /\ d * a <= d * b
<1>1. CASE a = b
  BY <1>1, InOrder
<1>2. CASE a < b
  BY <1>2, InOrder
<1>. QED  BY <1>1, <1>2

LEMMA TwoWindowsOn ==
    ASSUME NEW d \in Nat \ {0}, NEW n \in Nat, NEW o \in Nat, o <= n
    PROVE  LET from == (n - o) \div d + 2
           IN  from \in Nat /\ d * from \in Int /\ n - o + d < d * from
<1>. DEFINE t == n - o
            q == t \div d
            p == q + 1
<1>1. t \in Nat
  OBVIOUS
<1>2. q \in Nat /\ t % d \in Nat /\ t % d < d /\ t - d * q = t % d
  <2>. HIDE DEF t
  <2>. QED  BY <1>1, Division
<1>. HIDE DEF q
<1>3. p \in Nat /\ d * q \in Int /\ d * p = d * q + d /\ q + 2 = p + 1
  BY <1>2, InOrder
<1>. HIDE DEF p
<1>4. d * p \in Int /\ d * (p + 1) = d * p + d
  BY <1>3, InOrder
<1>. DEFINE x == d * q
            r == t % d
<1>5. x \in Int /\ r \in Nat /\ r < d /\ t - x = r /\ d * (q + 2) = x + d + d
  BY <1>2, <1>3, <1>4
<1>6. t + d < x + d + d
  <2>. HIDE DEF x, r, t
  <2>. QED  BY <1>1, <1>5
<1>7. q + 2 \in Nat /\ d * (q + 2) \in Int /\ t + d < d * (q + 2)
  BY <1>2, <1>5, <1>6
<1>. QED  BY <1>7 DEF q

LEMMA Halves == Half \in Nat /\ Eaw \in Nat \ {0}
BY CadenceAssumption DEF Half

\* Middles are as far apart as windows.
LEMMA Middles ==
    ASSUME CadenceInv, NEW a \in Int, NEW b \in Int
    PROVE  /\ Middle(a) \in Int /\ Middle(a + 1) = Middle(a) + Eaw
           /\ a < b <=> Middle(a) < Middle(b)
<1>. Half \in Nat /\ Eaw \in Nat \ {0} /\ origin \in Nat
  BY Halves DEF CadenceInv
<1>. DEFINE x == Eaw * a
            y == Eaw * b
<1>1. x \in Int /\ y \in Int /\ Eaw * (a + 1) = x + Eaw
  BY InOrder
<1>2. a < b <=> x + Eaw <= y
  BY InOrder
<1>3. b < a <=> y + Eaw <= x
  BY InOrder
<1>4. Middle(a) = origin + x + Half /\ Middle(b) = origin + y + Half
  BY DEF Middle
<1>5. Middle(a + 1) = origin + (x + Eaw) + Half
  BY <1>1 DEF Middle
<1>. HIDE DEF x, y
<1>. QED  BY <1>1, <1>2, <1>3, <1>4, <1>5

\* The window of now, and when a frame is due that is planned now.
LEMMA WindowOfNow ==
    ASSUME CadenceInv
    PROVE  /\ Window \in Nat /\ SteadyWindow \in Nat
           /\ Middle(Window) - Half <= ticks /\ ticks < Middle(Window) - Half + Eaw
           /\ NextMif = Middle(Window + 1)
           /\ SteadyWindow <= Window + 2
<1>. Half \in Nat /\ Eaw \in Nat \ {0} /\ {origin, ticks, steady} \subseteq Nat /\ origin <= ticks
  BY Halves DEF CadenceInv
<1>. DEFINE t == ticks - origin
<1>1. t \in Nat /\ Window = t \div Eaw /\ SinceOrigin = t
  BY DEF Window, SinceOrigin
<1>2. /\ Window \in Nat /\ t % Eaw \in Nat /\ t % Eaw < Eaw
      /\ t - Eaw * Window = t % Eaw
  BY <1>1, Division
<1>3. SteadyWindow \in Nat /\ SteadyWindow <= Window + 2
  <2>1. steady - origin \in Nat /\ steady - origin <= t
    BY DEF CadenceInv
  <2>2. (steady - origin) \div Eaw \in Nat /\ (steady - origin) \div Eaw <= t \div Eaw
    BY <1>1, <2>1, Division, Quotients
  <2>. QED  BY <1>1, <1>2, <2>2 DEF SteadyWindow
<1>. DEFINE y == Eaw * Window
<1>4. y \in Int /\ Middle(Window) = origin + y + Half /\ Middle(Window + 1) = Middle(Window) + Eaw
  BY <1>2, InOrder, Middles DEF Middle
<1>5. NextMif = ticks + (Eaw - (t % Eaw)) + Half
  BY <1>1 DEF NextMif, NextAw, Half
<1>. DEFINE r == t % Eaw
<1>6. r \in Nat /\ r < Eaw /\ ticks - origin - y = r
  BY <1>2
<1>7. NextMif = ticks + (Eaw - r) + Half
  BY <1>5
<1>. HIDE DEF y, r
<1>. QED  BY <1>2, <1>3, <1>4, <1>6, <1>7

\* A frame that is due is the first of its window, and in its middle if that is steady.
LEMMA IterateStep ==
    ASSUME CadenceInv, Iterate
    PROVE  CadenceInv'
<1>. DEFINE mifDue == ticks >= next.mif
            hasChannel == Slots[SlotOf(Window)]
            m == [window |-> Window, at |-> ticks]
<1>1. /\ UNCHANGED <<ticks, origin, steady>>
      /\ next' = [psf    |-> CaughtUp(next.psf, PsfInterval),
                  mif    |-> IF mifDue THEN NextMif ELSE next.mif,
                  clean  |-> CaughtUp(next.clean, CleanInterval),
                  switch |-> IF ticks >= next.switch THEN ticks + NextAw ELSE next.switch]
      /\ mifs' = IF mifDue /\ hasChannel THEN mifs \cup {m} ELSE mifs
  BY DEF Iterate
<1>2. Half \in Nat /\ Eaw \in Nat \ {0} /\ {ticks, origin, steady} \subseteq Nat
  BY Halves DEF CadenceInv
<1>3. "mif" \in DOMAIN next' /\ next.mif \in Int
  BY <1>1 DEF CadenceInv
<1>4. \A w : Middle(w)' = Middle(w)
  BY <1>1 DEF Middle
<1>5. SteadyWindow' = SteadyWindow /\ \A w : Slots[SlotOf(w)]' = Slots[SlotOf(w)]
  BY <1>1 DEF SteadyWindow
<1>6. CASE ~mifDue
  <2>1. next'.mif = next.mif /\ mifs' = mifs
    BY <1>1, <1>6
  <2>. QED  BY <1>1, <1>3, <1>4, <1>5, <2>1 DEF CadenceInv
<1>7. CASE mifDue
  <2>. DEFINE new == Middle(Window + 1)
  <2>1. next'.mif = new
    BY <1>1, <1>7, WindowOfNow
  <2>2. /\ Window \in Nat /\ SteadyWindow \in Nat
        /\ Middle(Window) - Half <= ticks /\ ticks < Middle(Window) - Half + Eaw
    BY WindowOfNow
  <2>3. new \in Int /\ new = Middle(Window) + Eaw /\ Middle(Window) \in Int
    BY <2>2, Middles
  <2>4. new <= ticks + Eaw + Half /\ ticks < new /\ next.mif <= ticks
    BY <1>2, <1>3, <1>7, <2>2, <2>3
  <2>5. \A n \in mifs : n.window \in Nat /\ n.window < Window
    <3>. SUFFICES ASSUME NEW n \in mifs PROVE n.window \in Nat /\ n.window < Window
      OBVIOUS
    <3>1. n.window \in Nat /\ Middle(n.window + 1) <= next.mif
      BY DEF CadenceInv
    <3>2. n.window + 1 \in Int /\ Window + 1 \in Int
      BY <2>2, <3>1
    <3>3. Middle(n.window + 1) \in Int
      BY <3>2, Middles
    <3>4. Middle(n.window + 1) < new
      BY <1>2, <1>3, <2>3, <2>4, <3>1, <3>3
    <3>5. n.window + 1 < Window + 1
      BY <3>2, <3>4, Middles
    <3>. QED  BY <2>2, <3>1, <3>5
  <2>6. m \in [window : Nat, at : Nat]
    BY <1>2, <2>2
  <2>7. mifs' \subseteq [window : Nat, at : Nat]
    BY <1>1, <2>6 DEF CadenceInv
  <2>8. \A n \in mifs' : Middle(n.window + 1) <= new /\ Slots[SlotOf(n.window)]
    <3>. SUFFICES ASSUME NEW n \in mifs'
                  PROVE  Middle(n.window + 1) <= new /\ Slots[SlotOf(n.window)]
      OBVIOUS
    <3>1. CASE n \in mifs
      <4>1. n.window \in Nat /\ Middle(n.window + 1) <= next.mif /\ Slots[SlotOf(n.window)]
        BY <3>1 DEF CadenceInv
      <4>2. n.window + 1 \in Int
        BY <4>1
      <4>3. Middle(n.window + 1) \in Int
        BY <4>2, Middles
      <4>. QED  BY <1>2, <1>3, <2>3, <2>4, <4>1, <4>3
    <3>2. CASE n = m /\ hasChannel
      BY <3>2, <2>3
    <3>. QED  BY <1>1, <3>1, <3>2
  <2>9. \A n, o \in mifs' : n.window = o.window => n = o
    <3>1. m.window = Window /\ \A n \in mifs : n.window # Window
      BY <2>2, <2>5
    <3>2. \A n, o \in mifs : n.window = o.window => n = o
      BY DEF CadenceInv
    <3>3. mifs' \subseteq mifs \cup {m}
      BY <1>1
    <3>. HIDE DEF m
    <3>. QED  BY <3>1, <3>2, <3>3
  <2>10. \A w \in Nat :
            w >= SteadyWindow /\ Middle(w) < new /\ Slots[SlotOf(w)] =>
                \E n \in mifs' : /\ n.window = w /\ n.at <= Middle(w)
                                 /\ w > SteadyWindow => n.at = Middle(w)
    <3>. SUFFICES ASSUME NEW w \in Nat, w >= SteadyWindow, Middle(w) < new, Slots[SlotOf(w)]
                  PROVE  \E n \in mifs' : /\ n.window = w /\ n.at <= Middle(w)
                                          /\ w > SteadyWindow => n.at = Middle(w)
      OBVIOUS
    <3>1. w <= Window
      BY <2>2, Middles
    <3>2. steady < ticks
      <4>. SUFFICES ASSUME steady = ticks PROVE FALSE
        BY <1>2 DEF CadenceInv
      <4>1. SteadyWindow = Window + 2
        BY DEF SteadyWindow, Window
      <4>. QED  BY <2>2, <3>1, <4>1
    <3>3. ticks = next.mif
      BY <1>2, <1>3, <2>4, <3>2 DEF CadenceInv
    <3>4. ASSUME Middle(w) < next.mif
          PROVE  \E n \in mifs' : /\ n.window = w /\ n.at <= Middle(w)
                                  /\ w > SteadyWindow => n.at = Middle(w)
      <4>1. \E n \in mifs : /\ n.window = w /\ n.at <= Middle(w)
                            /\ w > SteadyWindow => n.at = Middle(w)
        BY <3>4 DEF CadenceInv
      <4>2. mifs \subseteq mifs'
        BY <1>1
      <4>. QED  BY <4>1, <4>2
    <3>5. CASE next.mif < Middle(SteadyWindow)
      <4>1. Middle(SteadyWindow) \in Int /\ Middle(SteadyWindow + 1) = Middle(SteadyWindow) + Eaw
        <5>1. SteadyWindow \in Int
          BY <2>2
        <5>. QED  BY <5>1, Middles, Zenon
      <4>2. w = Window /\ w = SteadyWindow
        <5>1. ~(SteadyWindow < Window)
          <6>1. SUFFICES ASSUME SteadyWindow < Window PROVE FALSE
            OBVIOUS
          <6>2. SteadyWindow + 1 \in Int /\ (SteadyWindow + 1 < Window \/ SteadyWindow + 1 = Window)
            BY <2>2, <6>1
          <6>3. Middle(SteadyWindow + 1) <= Middle(Window)
            BY <2>2, <2>3, <4>1, <6>2, <1>2, Middles
          <6>4. Half < Eaw
            BY <1>2 DEF Half
          <6>. QED  BY <1>2, <1>3, <2>2, <2>3, <3>3, <3>5, <4>1, <6>3, <6>4
        <5>. QED  BY <2>2, <3>1, <5>1
      <4>3. m \in mifs'
        BY <1>1, <1>7, <4>2
      <4>4. m.window = w /\ m.at <= Middle(w)
        BY <3>3, <3>5, <4>2, <2>3, <1>2, <1>3
      <4>. QED  BY <4>2, <4>3, <4>4
    <3>6. CASE \E k \in Nat : next.mif = Middle(k)
      <4>1. PICK k \in Nat : ticks = Middle(k)
        BY <3>3, <3>6
      <4>2. k = Window
        <5>1. Middle(k) \in Int /\ Middle(k + 1) = Middle(k) + Eaw
          <6>1. k \in Int
            OBVIOUS
          <6>. QED  BY <6>1, Middles, Zenon
        <5>2. ~(k < Window)
          <6>1. k + 1 \in Int /\ (k < Window => k + 1 < Window \/ k + 1 = Window)
            BY <2>2
          <6>2. k < Window => Middle(k) + Eaw <= Middle(Window)
            BY <2>2, <2>3, <5>1, <6>1, <1>2, Middles
          <6>3. Half < Eaw
            BY <1>2 DEF Half
          <6>. QED  BY <1>2, <2>2, <2>3, <4>1, <5>1, <6>2, <6>3
        <5>3. ~(Window < k)
          <6>1. Window + 1 \in Int /\ (Window < k => Window + 1 < k \/ Window + 1 = k)
            BY <2>2
          <6>2. Window < k => new <= Middle(k)
            BY <2>2, <2>3, <5>1, <6>1, <1>2, Middles
          <6>. QED  BY <1>2, <2>3, <2>4, <4>1, <5>1, <6>2
        <5>. QED  BY <2>2, <5>2, <5>3
      <4>3. CASE w = Window
        <5>1. m \in mifs' /\ m.window = w /\ m.at = Middle(w)
          BY <1>1, <1>7, <4>1, <4>2, <4>3
        <5>. QED  BY <5>1, <2>3, <4>3
      <4>4. CASE w < Window
        <5>1. Middle(w) < Middle(k)
          BY <2>2, <4>2, <4>4, Middles
        <5>. QED  BY <3>3, <3>4, <4>1, <5>1
      <4>. QED  BY <2>2, <3>1, <4>3, <4>4
    <3>. QED  BY <3>5, <3>6 DEF CadenceInv
  <2>11. Window + 1 \in Nat
    BY <2>2
  <2>. HIDE DEF new
  <2>12. /\ {ticks', origin', steady'} \subseteq Nat /\ origin' <= steady' /\ steady' <= ticks'
    BY <1>1 DEF CadenceInv
  <2>13. next'.mif \in Int /\ next'.mif <= ticks + Eaw + Half /\ ticks <= next'.mif
    BY <1>2, <2>1, <2>3, <2>4
  <2>14. \E k \in Nat : new = Middle(k)
    BY <2>11 DEF new
  <2>. QED  BY <1>1, <1>3, <1>4, <1>5, <2>1, <2>7, <2>8, <2>9, <2>10, <2>12, <2>13, <2>14 DEF CadenceInv
<1>. QED  BY <1>6, <1>7

\* The loop does not sleep past a frame that is due.
LEMMA SleepStep ==
    ASSUME CadenceInv, Sleep
    PROVE  CadenceInv'
<1>1. /\ ticks' = ticks + 1 /\ ticks < next.mif
      /\ UNCHANGED <<origin, next, mifs, steady>>
  BY DEF Sleep, Due, CadenceInv
<1>2. \A w : Middle(w)' = Middle(w) /\ Slots[SlotOf(w)]' = Slots[SlotOf(w)]
  BY <1>1 DEF Middle
<1>3. SteadyWindow' = SteadyWindow
  BY <1>1 DEF SteadyWindow
<1>4. Half \in Nat /\ Eaw \in Nat
  BY Halves
<1>5. /\ {ticks', origin', steady'} \subseteq Nat /\ origin' <= steady' /\ steady' <= ticks'
      /\ next'.mif <= ticks' + Eaw + Half /\ ticks' <= next'.mif
  BY <1>1, <1>4 DEF CadenceInv
<1>. QED  BY <1>1, <1>2, <1>3, <1>5 DEF CadenceInv

\* What is steady later is steady.
LEMMA HeldUpStep ==
    ASSUME CadenceInv, HeldUp
    PROVE  CadenceInv'
<1>1. PICK n \in 1..MaxHeldUp : ticks' = ticks + n
  BY DEF HeldUp
<1>2. steady' = ticks' /\ UNCHANGED <<origin, next, mifs>>
  BY DEF HeldUp
<1>3. \A w : Middle(w)' = Middle(w) /\ Slots[SlotOf(w)]' = Slots[SlotOf(w)]
  BY <1>2 DEF Middle
<1>4. Half \in Nat /\ Eaw \in Nat \ {0} /\ MaxHeldUp \in Nat
  BY Halves, CadenceAssumption
<1>5. {ticks, origin, steady} \subseteq Nat /\ origin <= steady /\ steady <= ticks
  BY DEF CadenceInv
<1>6. /\ {ticks', origin', steady'} \subseteq Nat /\ origin' <= steady' /\ steady' = ticks'
      /\ steady <= steady' /\ next'.mif <= ticks' + Eaw + Half
  BY <1>1, <1>2, <1>4, <1>5 DEF CadenceInv
<1>7. SteadyWindow' \in Nat /\ SteadyWindow \in Nat /\ SteadyWindow <= SteadyWindow'
  <2>1. steady - origin \in Nat /\ steady' - origin \in Nat /\ steady - origin <= steady' - origin
    BY <1>2, <1>5, <1>6
  <2>2. /\ (steady - origin) \div Eaw \in Nat /\ (steady' - origin) \div Eaw \in Nat
        /\ (steady - origin) \div Eaw <= (steady' - origin) \div Eaw
    BY <1>4, <2>1, Division, Quotients
  <2>. QED  BY <1>2, <2>2 DEF SteadyWindow
<1>8. Middle(SteadyWindow) <= Middle(SteadyWindow')
  <2>1. CASE SteadyWindow = SteadyWindow'
    BY <1>7, <2>1, Middles
  <2>2. CASE SteadyWindow < SteadyWindow'
    BY <1>7, <2>2, Middles
  <2>. QED  BY <1>7, <2>1, <2>2
<1>9. Middle(SteadyWindow)' = Middle(SteadyWindow')
  BY <1>2 DEF Middle
<1>10. next'.mif < Middle(SteadyWindow)' \/ \E k \in Nat : next'.mif = Middle(k)'
  <2>1. CASE next.mif < Middle(SteadyWindow)
    <3>1. Middle(SteadyWindow) \in Int /\ Middle(SteadyWindow') \in Int /\ next.mif \in Int
      BY <1>7, Middles DEF CadenceInv
    <3>. QED  BY <1>2, <1>8, <1>9, <2>1, <3>1
  <2>2. CASE \E k \in Nat : next.mif = Middle(k)
    BY <1>2, <1>3, <2>2
  <2>. QED  BY <2>1, <2>2 DEF CadenceInv
<1>11. \A w \in Nat :
          w >= SteadyWindow' /\ Middle(w) < next.mif /\ Slots[SlotOf(w)] =>
              \E m \in mifs : /\ m.window = w /\ m.at <= Middle(w)
                              /\ w > SteadyWindow' => m.at = Middle(w)
  <2>. SUFFICES ASSUME NEW w \in Nat, w >= SteadyWindow', Middle(w) < next.mif, Slots[SlotOf(w)]
                PROVE  \E m \in mifs : /\ m.window = w /\ m.at <= Middle(w)
                                       /\ w > SteadyWindow' => m.at = Middle(w)
    OBVIOUS
  <2>1. w >= SteadyWindow /\ (w > SteadyWindow' => w > SteadyWindow)
    BY <1>7
  <2>2. \E m \in mifs : /\ m.window = w /\ m.at <= Middle(w)
                        /\ w > SteadyWindow => m.at = Middle(w)
    BY <2>1 DEF CadenceInv
  <2>. QED  BY <2>1, <2>2
<1>. QED  BY <1>2, <1>3, <1>6, <1>10, <1>11 DEF CadenceInv

\* After the clock jumped the next frame is due before the middle of a steady window.
LEMMA JumpStep ==
    ASSUME CadenceInv, Jump
    PROVE  CadenceInv'
<1>1. PICK ago \in 0..IF ticks < Eaw THEN ticks ELSE Eaw : origin' = ticks - ago
  BY DEF Jump
<1>2. steady' = ticks /\ mifs' = {} /\ ticks' = ticks /\ next' = next
  BY DEF Jump
<1>3. Half \in Nat /\ Eaw \in Nat \ {0} /\ ticks \in Nat /\ next.mif \in Int
  BY Halves DEF CadenceInv
<1>4. origin' \in Nat /\ origin' <= ticks
  BY <1>1, <1>3
<1>5. PICK o \in Nat : o = origin'
  BY <1>4
<1>. DEFINE from == (ticks - o) \div Eaw + 2
<1>6. SteadyWindow' = from /\ \A w : Middle(w)' = o + Eaw * w + Half
  BY <1>2, <1>5 DEF SteadyWindow, Middle, Half
<1>7. from \in Nat /\ Eaw * from \in Int /\ ticks - o + Eaw < Eaw * from
  <2>. o <= ticks
    BY <1>4, <1>5
  <2>. QED  BY <1>3, TwoWindowsOn
<1>. HIDE DEF from
<1>8. next.mif <= ticks + Eaw + Half
  BY DEF CadenceInv
<1>9. next.mif < o + Eaw * from + Half
  BY <1>3, <1>7, <1>8
<1>10. \A w \in Nat : ~(w >= SteadyWindow' /\ Middle(w)' < next'.mif)
  <2>. SUFFICES ASSUME NEW w \in Nat, w >= from PROVE ~(o + Eaw * w + Half < next.mif)
    BY <1>2, <1>6
  <2>1. Eaw * w \in Int /\ Eaw * from <= Eaw * w
    BY <1>3, <1>7, NotBefore
  <2>. DEFINE x == Eaw * w
              y == Eaw * from
  <2>2. x \in Int /\ y \in Int /\ y <= x /\ next.mif < o + y + Half
    BY <1>7, <1>9, <2>1
  <2>3. ~(o + x + Half < next.mif)
    <3>. HIDE DEF x, y
    <3>. QED  BY <1>3, <2>2
  <2>. QED  BY <2>3
<1>11. next'.mif < Middle(SteadyWindow)'
  BY <1>2, <1>6, <1>9
<1>12. next'.mif <= ticks' + Eaw + Half
  BY <1>2, <1>8
<1>. QED  BY <1>2, <1>3, <1>4, <1>10, <1>11, <1>12 DEF CadenceInv

LEMMA CadenceStep == CadenceInv /\ [CadenceNext]_cadenceVars => CadenceInv'
<1>. SUFFICES ASSUME CadenceInv, [CadenceNext]_cadenceVars PROVE CadenceInv'
  OBVIOUS
<1>1. CASE UNCHANGED cadenceVars
  <2>1. UNCHANGED <<ticks, origin, next, mifs, steady>>
    BY <1>1 DEF cadenceVars
  <2>2. \A w : Middle(w)' = Middle(w) /\ Slots[SlotOf(w)]' = Slots[SlotOf(w)]
    BY <2>1 DEF Middle
  <2>3. SteadyWindow' = SteadyWindow
    BY <2>1 DEF SteadyWindow
  <2>. QED  BY <2>1, <2>2, <2>3 DEF CadenceInv
<1>. QED  BY <1>1, IterateStep, SleepStep, HeldUpStep, JumpStep DEF CadenceNext

LEMMA CadenceBegins == CadenceInit => CadenceInv
<1>. SUFFICES ASSUME CadenceInit PROVE CadenceInv
  OBVIOUS
<1>1. /\ ticks = 0 /\ origin = 0 /\ steady = 0 /\ mifs = {}
      /\ "mif" \in DOMAIN next /\ next.mif = 0
  BY DEF CadenceInit
<1>2. Half \in Nat /\ Eaw \in Nat \ {0}
  BY Halves
<1>3. SteadyWindow \in Nat /\ 0 < Eaw * SteadyWindow /\ Eaw * SteadyWindow \in Int
  <2>1. 0 - 0 = 0
    OBVIOUS
  <2>2. /\ (0 - 0) \div Eaw + 2 \in Nat /\ Eaw * ((0 - 0) \div Eaw + 2) \in Int
        /\ 0 - 0 + Eaw < Eaw * ((0 - 0) \div Eaw + 2)
    BY <1>2, TwoWindowsOn
  <2>3. SteadyWindow = (0 - 0) \div Eaw + 2
    BY <1>1 DEF SteadyWindow
  <2>. DEFINE x == Eaw * SteadyWindow
  <2>4. SteadyWindow \in Nat /\ x \in Int /\ Eaw < x
    BY <1>2, <2>2, <2>3
  <2>. QED  BY <1>2, <2>4
<1>4. next.mif < Middle(SteadyWindow)
  BY <1>1, <1>2, <1>3 DEF Middle
<1>5. \A w \in Nat : ~(Middle(w) < next.mif)
  <2>. SUFFICES ASSUME NEW w \in Nat PROVE ~(Middle(w) < next.mif)
    OBVIOUS
  <2>1. Eaw * w \in Int /\ Eaw * 0 <= Eaw * w /\ Eaw * 0 = 0
    BY <1>2, NotBefore
  <2>. QED  BY <1>1, <1>2, <2>1 DEF Middle
<1>. QED  BY <1>1, <1>2, <1>4, <1>5 DEF CadenceInv

LEMMA CadenceHolds == CadenceInv => MifPerWindow
<1>. SUFFICES ASSUME CadenceInv PROVE MifPerWindow
  OBVIOUS
<1>. DEFINE ofWindow(w) == {m \in mifs : m.window = w}
<1>1. ASSUME NEW m \in mifs PROVE Cardinality(ofWindow(m.window)) = 1 /\ Slots[SlotOf(m.window)]
  <2>1. ofWindow(m.window) = {m}
    BY DEF CadenceInv
  <2>2. Cardinality({m}) = 1
    BY FS_Singleton
  <2>3. Slots[SlotOf(m.window)]
    BY DEF CadenceInv
  <2>. QED  BY <2>1, <2>2, <2>3
<1>2. ASSUME NEW w \in SteadyWindow..Window - 1, Slots[SlotOf(w)]
      PROVE  \E m \in ofWindow(w) : m.at <= Middle(w) /\ (w > SteadyWindow => m.at = Middle(w))
  <2>1. /\ Window \in Nat /\ SteadyWindow \in Nat /\ Middle(Window) - Half <= ticks
        /\ {ticks, steady, origin} \subseteq Nat /\ steady <= ticks /\ next.mif \in Int
    BY WindowOfNow DEF CadenceInv
  <2>2. w \in Nat /\ w < Window /\ w >= SteadyWindow
    BY <2>1
  <2>3. steady < ticks
    <3>. SUFFICES ASSUME steady = ticks PROVE FALSE
      BY <2>1
    <3>1. SteadyWindow = Window + 2
      BY DEF SteadyWindow, Window
    <3>. QED  BY <2>1, <2>2, <3>1
  <2>4. ticks <= next.mif
    BY <2>3 DEF CadenceInv
  <2>5. Middle(w) + Eaw <= Middle(Window) /\ Middle(w) \in Int /\ Middle(Window) \in Int
    <3>1. Middle(w) \in Int /\ Middle(Window) \in Int /\ Middle(w + 1) = Middle(w) + Eaw
      <4>1. w \in Int /\ Window \in Int
        BY <2>1, <2>2
      <4>. QED  BY <4>1, Middles, Zenon
    <3>2. w + 1 \in Int /\ (w + 1 < Window \/ w + 1 = Window)
      BY <2>1, <2>2
    <3>3. Middle(w + 1) <= Middle(Window)
      BY <2>1, <3>1, <3>2, Halves, Middles
    <3>. QED  BY <3>1, <3>3
  <2>6. Half < Eaw /\ Half \in Nat /\ Eaw \in Nat
    BY Halves DEF Half
  <2>7. Middle(w) < next.mif
    BY <2>1, <2>4, <2>5, <2>6
  <2>8. PICK m \in mifs : /\ m.window = w /\ m.at <= Middle(w)
                          /\ w > SteadyWindow => m.at = Middle(w)
    BY <1>2, <2>2, <2>7 DEF CadenceInv
  <2>. QED  BY <2>8
<1>. QED  BY <1>1, <1>2 DEF MifPerWindow, Middle, SteadyWindow, Half

-----------------------------------------------------------------------------
(* Introspect. *)

Fields == [name : BOOLEAN, port : {0, Port}, at : {0, 1}, announced : BOOLEAN]
KeptEvents == [n : Nat, level : {1, Debug, Trace}]

\* Threads that have passed the gate.
Passed == {t \in Loggers : logging[t] # NoEvent}

\* The mark comes after the port, in the fields as in what is read of them.
StatusInv ==
    /\ announcing \in 1..5 /\ fields \in Fields
    /\ announcing > 2 => fields.port = Port
    /\ fields.announced => fields.port = Port
    /\ request.k = "status" =>
          /\ request = [k |-> "status", ask |-> request.ask, step |-> request.step,
                        read |-> request.read]
          /\ request.step \in 1..4 /\ request.read \in Fields
          /\ request.read.announced => fields.port = Port
    /\ StatusIsWhole

\* The ring is the end of what was kept; and what a thread may add after the gate is closed
\* is the event that has passed it.
TraceInv ==
    /\ kept \in Seq(KeptEvents) /\ ring \in Seq(KeptEvents)
    /\ Len(ring) <= Len(kept) /\ Len(ring) <= RingCap
    /\ Len(ring) = Len(kept) \/ Len(ring) = RingCap
    /\ \A i \in 1..Len(ring) : ring[i] = kept[Len(kept) - Len(ring) + i]
    /\ logging \in [Loggers -> {NoEvent, 1, Debug, Trace}]
    /\ sinceOff \in Nat
    /\ gate = Off => sinceOff + Cardinality(Passed) <= Cardinality(Loggers)
    /\ request.k = "trace" => request.ask.n \in {Absent, Unreadable} \cup Nat
    /\ answer.k = "trace" =>
          /\ answer.of \in 0..Len(kept) /\ answer.events \in Seq(KeptEvents)
          /\ Len(answer.events) <= answer.of
          /\ LET n == Len(answer.events) IN
                /\ \A i \in 1..n : answer.events[i] = kept[answer.of - n + i]
                /\ n = answer.n \/ n = answer.of \/ n = RingCap

OfProgram == program \in {"filin", "luftlift"}

LEMMA ProgramStays == [IntroNext]_introVars => program' = program
BY DEF IntroNext, introVars, RecordAnnounce, Accept, Serve, Log, Push

LEMMA StatusStep == StatusInv /\ [IntroNext]_introVars => StatusInv'
<1>. SUFFICES ASSUME StatusInv, [IntroNext]_introVars PROVE StatusInv'
  OBVIOUS
<1>1. CASE RecordAnnounce
  <2>1. UNCHANGED <<request, answer>> /\ announcing \in 1..4
    BY <1>1 DEF RecordAnnounce, StatusInv, AnnounceOrder
  <2>2. StatusIsWhole'
    BY <2>1 DEF StatusInv, StatusIsWhole
  <2>3. /\ announcing' \in 1..5 /\ fields' \in Fields
        /\ announcing' > 2 => fields'.port = Port
        /\ fields'.announced => fields'.port = Port
        /\ fields.port = Port => fields'.port = Port
    <3>0. /\ Told \in Fields /\ Told["name"] \in BOOLEAN /\ Told["port"] = Port
          /\ Told["at"] \in {0, 1} /\ Told["announced"] \in BOOLEAN
      BY DEF Told, Fields
    <3>1. CASE program # "luftlift"
      <4>1. fields' = Told /\ announcing' = 5
        BY <1>1, <3>1 DEF RecordAnnounce, AnnounceOrder
      <4>. QED  BY <3>0, <4>1
    <3>2. CASE program = "luftlift"
      <4>. DEFINE field == AnnounceOrder[announcing]
      <4>1. fields' = [fields EXCEPT ![field] = Told[field]] /\ announcing' = announcing + 1
        BY <1>1, <3>2 DEF RecordAnnounce
      <4>2. CASE announcing = 1
        BY <3>0, <4>1, <4>2 DEF AnnounceOrder, Fields, StatusInv
      <4>3. CASE announcing = 2
        BY <3>0, <4>1, <4>3 DEF AnnounceOrder, Fields, StatusInv
      <4>4. CASE announcing = 3
        BY <3>0, <4>1, <4>4 DEF AnnounceOrder, Fields, StatusInv
      <4>5. CASE announcing = 4
        BY <3>0, <4>1, <4>5 DEF AnnounceOrder, Fields, StatusInv
      <4>. QED  BY <2>1, <4>2, <4>3, <4>4, <4>5
    <3>. QED  BY <3>1, <3>2
  <2>. QED  BY <2>1, <2>2, <2>3 DEF StatusInv
<1>2. CASE Accept
  <2>1. PICK ask \in Asks : request' = [k |-> ask.k, ask |-> ask, step |-> 1, read |-> Unset]
    BY <1>2 DEF Accept
  <2>2. answer' = Idle /\ UNCHANGED <<fields, announcing>>
    BY <1>2 DEF Accept
  <2>3. Unset \in Fields /\ ~Unset.announced
    BY DEF Unset, Fields
  <2>. QED  BY <2>1, <2>2, <2>3 DEF StatusInv, StatusIsWhole, Idle
<1>3. CASE Serve
  <2>1. UNCHANGED <<fields, announcing>>
    BY <1>3 DEF Serve
  <2>2. CASE GetTrace \/ PostTrace \/ NotFound
    <3>1. request' = Idle /\ answer'.k # "status"
      BY <2>2 DEF GetTrace, PostTrace, NotFound, Reply
    <3>. QED  BY <2>1, <3>1 DEF StatusInv, StatusIsWhole, Idle
  <2>3. CASE GetStatus
    <3>1. CASE program = "filin"
      <4>1. request' = Idle /\ answer' = [k |-> "status", code |-> 200, read |-> fields]
        BY <2>3, <3>1 DEF GetStatus, Reply
      <4>. QED  BY <2>1, <4>1 DEF StatusInv, StatusIsWhole, Idle
    <3>2. CASE program # "filin"
      <4>. DEFINE field == SnapshotOrder[request.step]
                  read == [request.read EXCEPT ![field] = fields[field]]
      <4>1. /\ request.k = "status" /\ request.step \in 1..4 /\ request.read \in Fields
            /\ request.read.announced => fields.port = Port
            /\ request = [k |-> "status", ask |-> request.ask, step |-> request.step,
                          read |-> request.read]
        BY <2>3 DEF GetStatus, StatusInv
      <4>2. read \in Fields /\ (read.announced => fields.port = Port)
            /\ (request.step = 4 => read.port = fields.port)
        <5>1. CASE request.step = 1
          BY <4>1, <5>1 DEF SnapshotOrder, Fields, StatusInv
        <5>2. CASE request.step = 2
          BY <4>1, <5>2 DEF SnapshotOrder, Fields, StatusInv
        <5>3. CASE request.step = 3
          BY <4>1, <5>3 DEF SnapshotOrder, Fields, StatusInv
        <5>4. CASE request.step = 4
          BY <4>1, <5>4 DEF SnapshotOrder, Fields, StatusInv
        <5>. QED  BY <4>1, <5>1, <5>2, <5>3, <5>4
      <4>3. CASE request.step = 4
        <5>1. request' = Idle /\ answer' = [k |-> "status", code |-> 200, read |-> read]
          BY <2>3, <3>2, <4>3 DEF GetStatus, Reply, SnapshotOrder
        <5>. QED  BY <2>1, <4>2, <4>3, <5>1 DEF StatusInv, StatusIsWhole, Idle
      <4>4. CASE request.step # 4
        <5>1. answer' = answer /\ request' = [request EXCEPT !.step = @ + 1, !.read = read]
          BY <2>3, <3>2, <4>4 DEF GetStatus, SnapshotOrder
        <5>. HIDE DEF read
        <5>2. request' = [k |-> "status", ask |-> request.ask, step |-> request.step + 1,
                          read |-> read]
          BY <4>1, <5>1
        <5>3. /\ request'.k = "status" /\ request'.ask = request.ask
              /\ request'.step = request.step + 1 /\ request'.read = read
          BY <5>2
        <5>4. request' = [k |-> "status", ask |-> request'.ask, step |-> request'.step,
                          read |-> request'.read]
          BY <5>2, <5>3
        <5>5. request'.step \in 1..4
          BY <4>1, <4>4, <5>3
        <5>6. request'.read \in Fields /\ (request'.read.announced => fields.port = Port)
          BY <4>2, <5>3
        <5>7. StatusIsWhole'
          BY <5>1 DEF StatusInv, StatusIsWhole
        <5>. QED  BY <2>1, <5>4, <5>5, <5>6, <5>7 DEF StatusInv
      <4>. QED  BY <4>3, <4>4
    <3>. QED  BY <3>1, <3>2
  <2>. QED  BY <1>3, <2>2, <2>3 DEF Serve
<1>4. ASSUME NEW t \in Loggers, Log(t) \/ Push(t) PROVE StatusInv'
  BY <1>4 DEF Log, Push, StatusInv, StatusIsWhole
<1>5. CASE UNCHANGED introVars
  BY <1>5 DEF introVars, StatusInv, StatusIsWhole
<1>. QED  BY <1>1, <1>2, <1>3, <1>4, <1>5 DEF IntroNext

LEMMA StatusBegins == IntroInit => StatusInv
BY DEF IntroInit, StatusInv, StatusIsWhole, Unset, Idle, Fields

\* The ring after an event is still the end of what was kept.
LEMMA PushedEnds ==
    ASSUME NEW r \in Seq(KeptEvents), NEW h \in Seq(KeptEvents), NEW e \in KeptEvents,
           Len(r) <= Len(h), Len(r) <= RingCap, Len(r) = Len(h) \/ Len(r) = RingCap,
           \A i \in 1..Len(r) : r[i] = h[Len(h) - Len(r) + i]
    PROVE  LET p == Pushed(r, e)
               q == Append(h, e)
           IN  /\ p \in Seq(KeptEvents) /\ q \in Seq(KeptEvents)
               /\ Len(p) <= Len(q) /\ Len(p) <= RingCap
               /\ Len(p) = Len(q) \/ Len(p) = RingCap
               /\ \A i \in 1..Len(p) : p[i] = q[Len(q) - Len(p) + i]
<1>. DEFINE q == Append(h, e)
            p == Pushed(r, e)
<1>. SUFFICES /\ p \in Seq(KeptEvents) /\ q \in Seq(KeptEvents)
              /\ Len(p) <= Len(q) /\ Len(p) <= RingCap
              /\ Len(p) = Len(q) \/ Len(p) = RingCap
              /\ \A i \in 1..Len(p) : p[i] = q[Len(q) - Len(p) + i]
  OBVIOUS
<1>1. /\ q \in Seq(KeptEvents) /\ Len(q) = Len(h) + 1 /\ q[Len(h) + 1] = e
      /\ \A i \in 1..Len(h) : q[i] = h[i]
  OBVIOUS
<1>2. RingCap \in Nat \ {0} /\ Len(r) \in Nat /\ Len(h) \in Nat
  BY RingAssumption
<1>3. CASE Len(r) < RingCap
  <2>1. p = Append(r, e) /\ Len(r) = Len(h)
    BY <1>2, <1>3 DEF Pushed
  <2>2. /\ p \in Seq(KeptEvents) /\ Len(p) = Len(r) + 1 /\ p[Len(r) + 1] = e
        /\ \A i \in 1..Len(r) : p[i] = r[i]
    BY <2>1
  <2>3. \A i \in 1..Len(p) : p[i] = q[Len(q) - Len(p) + i]
    <3>. HIDE DEF p, q
    <3>. QED  BY <1>1, <1>2, <2>1, <2>2
  <2>4. /\ p \in Seq(KeptEvents) /\ q \in Seq(KeptEvents)
        /\ Len(p) <= Len(q) /\ Len(p) <= RingCap /\ Len(p) = Len(q)
    <3>. HIDE DEF p, q
    <3>. QED  BY <1>1, <1>2, <1>3, <2>1, <2>2
  <2>. QED  BY <2>3, <2>4
<1>4. CASE Len(r) = RingCap
  <2>. DEFINE tail == SubSeq(r, Len(r) - RingCap + 2, Len(r))
  <2>1. p = Append(tail, e)
    BY <1>2, <1>4 DEF Pushed
  <2>2. Len(r) - RingCap + 2 = 2
    BY <1>2, <1>4
  <2>3. /\ tail \in Seq(KeptEvents) /\ Len(tail) = Len(r) - 1
        /\ \A i \in 1..Len(r) - 1 : tail[i] = r[i + 1]
    BY <1>2, <1>4, <2>2
  <2>4. /\ p \in Seq(KeptEvents) /\ Len(p) = Len(r) /\ p[Len(r)] = e
        /\ \A i \in 1..Len(r) - 1 : p[i] = r[i + 1]
    <3>. HIDE DEF tail, p
    <3>. QED  BY <1>2, <1>4, <2>1, <2>3
  <2>. HIDE DEF tail
  <2>5. \A i \in 1..Len(p) : p[i] = q[Len(q) - Len(p) + i]
    <3>. HIDE DEF p, q
    <3>. SUFFICES ASSUME NEW i \in 1..Len(p) PROVE p[i] = q[Len(q) - Len(p) + i]
      OBVIOUS
    <3>1. Len(q) - Len(p) + i = Len(h) - Len(r) + (i + 1)
      BY <1>1, <1>2, <2>4
    <3>2. CASE i = Len(r)
      BY <1>1, <1>2, <2>4, <3>1, <3>2
    <3>3. CASE i < Len(r)
      <4>1. p[i] = r[i + 1] /\ i + 1 \in 1..Len(r)
        BY <1>2, <2>4, <3>3
      <4>2. r[i + 1] = h[Len(h) - Len(r) + (i + 1)] /\ Len(h) - Len(r) + (i + 1) \in 1..Len(h)
        BY <1>2, <4>1
      <4>. QED  BY <1>1, <3>1, <4>1, <4>2
    <3>. QED  BY <1>2, <2>4, <3>2, <3>3
  <2>6. /\ p \in Seq(KeptEvents) /\ q \in Seq(KeptEvents)
        /\ Len(p) <= Len(q) /\ Len(p) <= RingCap /\ Len(p) = RingCap
    <3>. HIDE DEF p, q
    <3>. QED  BY <1>1, <1>2, <1>4, <2>4
  <2>. QED  BY <2>5, <2>6
<1>5. Len(r) < RingCap \/ Len(r) = RingCap
  BY <1>2
<1>. HIDE DEF p, q
<1>. QED  BY <1>3, <1>4, <1>5

\* What n asks for of the ring is its end, and as long as n or as the ring.
LEMMA LastEnds ==
    ASSUME TraceInv, NEW n \in Nat
    PROVE  /\ LastN(n) \in Seq(KeptEvents)
           /\ Len(LastN(n)) = n \/ Len(LastN(n)) = Len(ring)
           /\ Len(LastN(n)) <= Len(ring)
           /\ \A i \in 1..Len(LastN(n)) : LastN(n)[i] = ring[Len(ring) - Len(LastN(n)) + i]
<1>. DEFINE m == IF n < Len(ring) THEN n ELSE Len(ring)
<1>1. ring \in Seq(KeptEvents) /\ Len(ring) \in Nat
  BY DEF TraceInv
<1>2. m \in Nat /\ m <= Len(ring) /\ (m = n \/ m = Len(ring))
  BY <1>1
<1>3. LastN(n) = SubSeq(ring, Len(ring) - m + 1, Len(ring))
  <2>1. Len(ring) - m = IF n < Len(ring) THEN Len(ring) - n ELSE 0
    BY <1>1
  <2>. QED  BY <2>1 DEF LastN
<1>. HIDE DEF m
<1>4. /\ LastN(n) \in Seq(KeptEvents) /\ Len(LastN(n)) = m
      /\ \A i \in 1..m : LastN(n)[i] = ring[Len(ring) - m + i]
  BY <1>1, <1>2, <1>3
<1>. QED  BY <1>2, <1>4

LEMMA TraceStep == OfProgram /\ StatusInv /\ TraceInv /\ [IntroNext]_introVars => TraceInv'
<1>. SUFFICES ASSUME OfProgram, StatusInv, TraceInv, [IntroNext]_introVars PROVE TraceInv'
  OBVIOUS
<1>0. IsFiniteSet(Passed) /\ Cardinality(Passed) \in Nat /\ Cardinality(Loggers) \in Nat
      /\ Cardinality(Passed) <= Cardinality(Loggers)
  BY RingAssumption, FS_Subset, FS_CardinalityType DEF Passed
<1>1. CASE RecordAnnounce
  <2>1. UNCHANGED <<program, gate, ring, kept, logging, events, sinceOff, request, answer>>
    BY <1>1 DEF RecordAnnounce
  <2>. QED  BY <2>1 DEF TraceInv, Passed
<1>2. CASE Accept
  <2>1. PICK ask \in Asks : request' = [k |-> ask.k, ask |-> ask, step |-> 1, read |-> Unset]
    BY <1>2 DEF Accept
  <2>2. answer' = Idle /\ UNCHANGED <<gate, ring, kept, logging, sinceOff>>
    BY <1>2 DEF Accept
  <2>3. request'.k = "trace" => request'.ask.n \in {Absent, Unreadable} \cup Nat
    BY <2>1 DEF Asks
  <2>4. answer'.k # "trace"
    BY <2>2 DEF Idle
  <2>. QED  BY <2>2, <2>3, <2>4 DEF TraceInv, Passed
<1>3. CASE Serve
  <2>1. UNCHANGED <<ring, kept, logging>>
    BY <1>3 DEF Serve
  <2>2. CASE GetStatus
    <3>1. UNCHANGED <<gate, sinceOff>>
      BY <2>2 DEF GetStatus
    <3>2. answer'.k # "trace" \/ answer' = answer
      BY <2>2 DEF GetStatus, Reply
    <3>3. request'.k # "trace"
      <4>1. CASE answer' # answer \/ request' = Idle
        BY <2>2, <4>1 DEF GetStatus, Reply, Idle
      <4>. DEFINE read == [request.read EXCEPT ![SnapshotOrder[request.step]] =
                                                 fields[SnapshotOrder[request.step]]]
      <4>2. CASE request' = [request EXCEPT !.step = @ + 1, !.read = read]
        <5>1. request = [k |-> "status", ask |-> request.ask, step |-> request.step,
                         read |-> request.read]
          BY <2>2 DEF GetStatus, StatusInv
        <5>. HIDE DEF read
        <5>. QED  BY <4>2, <5>1
      <4>. QED  BY <2>2, <4>1, <4>2 DEF GetStatus, Reply
    <3>. QED  BY <2>1, <3>1, <3>2, <3>3 DEF TraceInv, Passed
  <2>3. CASE GetTrace
    <3>. DEFINE n == Wanted(request.ask.n)
    <3>1. request' = Idle /\ UNCHANGED <<gate, sinceOff>>
      BY <2>3 DEF GetTrace, Reply
    <3>2. answer' = [k |-> "trace", code |-> 200, n |-> n, of |-> Len(kept), events |-> LastN(n)]
      BY <2>3 DEF GetTrace, Reply
    <3>3. n \in Nat
      <4>1. request.ask.n \in {Absent, Unreadable} \cup Nat
        BY <2>3 DEF GetTrace, TraceInv
      <4>2. DefaultN \in Nat /\ RingCap \in Nat
        BY RingAssumption
      <4>3. CASE program = "filin"
        BY <4>1, <4>2, <4>3 DEF Wanted, Absent, Unreadable
      <4>4. CASE program = "luftlift"
        BY <4>1, <4>2, <4>4 DEF Wanted, Absent, Unreadable
      <4>. QED  BY <4>3, <4>4 DEF OfProgram
    <3>4. answer'.n = n /\ answer'.of = Len(kept) /\ answer'.events = LastN(n)
      BY <3>2
    <3>. HIDE DEF n
    <3>5. /\ kept \in Seq(KeptEvents) /\ ring \in Seq(KeptEvents) /\ Len(ring) <= Len(kept)
          /\ Len(ring) = Len(kept) \/ Len(ring) = RingCap
          /\ \A i \in 1..Len(ring) : ring[i] = kept[Len(kept) - Len(ring) + i]
      BY DEF TraceInv
    <3>. DEFINE s == LastN(n)
    <3>6. /\ s \in Seq(KeptEvents)
          /\ Len(s) = n \/ Len(s) = Len(ring)
          /\ Len(s) <= Len(ring) /\ Len(s) \in Nat
          /\ \A i \in 1..Len(s) : s[i] = ring[Len(ring) - Len(s) + i]
      <4>1. /\ s \in Seq(KeptEvents)
            /\ Len(s) = n \/ Len(s) = Len(ring)
            /\ Len(s) <= Len(ring)
            /\ \A i \in 1..Len(s) : s[i] = ring[Len(ring) - Len(s) + i]
        BY <3>3, LastEnds, Zenon
      <4>. HIDE DEF s
      <4>2. Len(s) \in Nat
        <5>1. s \in Seq(KeptEvents)
          BY <4>1, Zenon
        <5>. QED  BY <5>1
      <4>. QED  BY <4>1, <4>2, Zenon
    <3>9. answer'.events = s
      BY <3>4
    <3>. HIDE DEF s
    <3>7. \A i \in 1..Len(s) : s[i] = kept[Len(kept) - Len(s) + i]
      <4>. SUFFICES ASSUME NEW i \in 1..Len(s) PROVE s[i] = kept[Len(kept) - Len(s) + i]
        OBVIOUS
      <4>1. /\ Len(ring) - Len(s) + i \in 1..Len(ring)
            /\ Len(kept) - Len(ring) + (Len(ring) - Len(s) + i) = Len(kept) - Len(s) + i
        BY <3>5, <3>6
      <4>. QED  BY <3>5, <3>6, <4>1
    <3>8. /\ answer'.of \in 0..Len(kept) /\ answer'.events \in Seq(KeptEvents)
          /\ Len(answer'.events) <= answer'.of
          /\ LET l == Len(answer'.events) IN
                /\ \A i \in 1..l : answer'.events[i] = kept[answer'.of - l + i]
                /\ l = answer'.n \/ l = answer'.of \/ l = RingCap
      BY <3>4, <3>5, <3>6, <3>7, <3>9
    <3>. QED  BY <2>1, <3>1, <3>8 DEF TraceInv, Passed, Idle
  <2>4. CASE PostTrace
    <3>1. (gate' = gate /\ sinceOff' = sinceOff) \/ sinceOff' = 0
      BY <2>4 DEF PostTrace
    <3>2. request' = Idle /\ answer'.k = "post"
      BY <2>4 DEF PostTrace, Reply
    <3>3. sinceOff' \in Nat /\ (gate' = Off => sinceOff' + Cardinality(Passed) <= Cardinality(Loggers))
      BY <1>0, <3>1 DEF TraceInv
    <3>. QED  BY <2>1, <3>2, <3>3 DEF TraceInv, Passed, Idle
  <2>5. CASE NotFound
    <3>1. request' = Idle /\ answer'.k = "other" /\ UNCHANGED <<gate, sinceOff>>
      BY <2>5 DEF NotFound, Reply
    <3>. QED  BY <2>1, <3>1 DEF TraceInv, Passed, Idle
  <2>. QED  BY <1>3, <2>2, <2>3, <2>4, <2>5 DEF Serve
<1>4. ASSUME NEW t \in Loggers, Log(t) PROVE TraceInv'
  <2>1. gate # Off /\ UNCHANGED <<gate, ring, kept, sinceOff, request, answer>>
    BY <1>4 DEF Log, Allows
  <2>2. logging' \in [Loggers -> {NoEvent, 1, Debug, Trace}]
    BY <1>4 DEF Log, TraceInv
  <2>. QED  BY <2>1, <2>2 DEF TraceInv
<1>5. ASSUME NEW t \in Loggers, Push(t) PROVE TraceInv'
  <2>1. /\ logging[t] # NoEvent /\ logging' = [logging EXCEPT ![t] = NoEvent]
        /\ UNCHANGED <<program, gate, events, fields, announcing, request, answer>>
    BY <1>5 DEF Push
  <2>2. logging' \in [Loggers -> {NoEvent, 1, Debug, Trace}]
    BY <2>1 DEF TraceInv
  <2>3. Cardinality(Passed') = Cardinality(Passed) - 1 /\ Cardinality(Passed') \in Nat
    <3>1. Passed' = Passed \ {t} /\ t \in Passed
      BY <2>1 DEF Passed, TraceInv
    <3>2. Cardinality(Passed \ {t}) = Cardinality(Passed) - 1 /\ IsFiniteSet(Passed \ {t})
      BY <1>0, <3>1, FS_RemoveElement
    <3>3. Cardinality(Passed \ {t}) \in Nat
      BY <3>2, FS_CardinalityType
    <3>. QED  BY <3>1, <3>2, <3>3
  <2>4. CASE UNCHANGED <<ring, kept, sinceOff>>
    <3>1. gate' = Off => sinceOff' + Cardinality(Passed') <= Cardinality(Loggers)
      BY <1>0, <2>1, <2>3, <2>4 DEF TraceInv
    <3>. QED  BY <2>1, <2>2, <2>4, <3>1 DEF TraceInv
  <2>5. ASSUME NEW e, e = [n |-> Len(kept) + 1, level |-> logging[t]],
               ring' = Pushed(ring, e), kept' = Append(kept, e),
               sinceOff' = IF gate = Off THEN sinceOff + 1 ELSE 0
        PROVE  TraceInv'
    <3>1. e \in KeptEvents
      BY <2>1, <2>5 DEF KeptEvents, TraceInv
    <3>2. /\ kept' \in Seq(KeptEvents) /\ ring' \in Seq(KeptEvents)
          /\ Len(ring') <= Len(kept') /\ Len(ring') <= RingCap
          /\ Len(ring') = Len(kept') \/ Len(ring') = RingCap
          /\ \A i \in 1..Len(ring') : ring'[i] = kept'[Len(kept') - Len(ring') + i]
      <4>1. /\ kept \in Seq(KeptEvents) /\ ring \in Seq(KeptEvents)
            /\ Len(ring) <= Len(kept) /\ Len(ring) <= RingCap
            /\ Len(ring) = Len(kept) \/ Len(ring) = RingCap
            /\ \A i \in 1..Len(ring) : ring[i] = kept[Len(kept) - Len(ring) + i]
        BY DEF TraceInv
      <4>. DEFINE p == Pushed(ring, e)
                  q == Append(kept, e)
      <4>2. /\ q \in Seq(KeptEvents) /\ p \in Seq(KeptEvents)
            /\ Len(p) <= Len(q) /\ Len(p) <= RingCap
            /\ Len(p) = Len(q) \/ Len(p) = RingCap
            /\ \A i \in 1..Len(p) : p[i] = q[Len(q) - Len(p) + i]
        BY <3>1, <4>1, PushedEnds, Zenon
      <4>3. ring' = p /\ kept' = q
        BY <2>5, Zenon
      <4>. HIDE DEF p, q
      <4>. QED  BY <4>2, <4>3, Zenon
    <3>3. sinceOff' \in Nat /\ (gate' = Off => sinceOff' + Cardinality(Passed') <= Cardinality(Loggers))
      BY <1>0, <2>1, <2>3, <2>5 DEF TraceInv
    <3>4. Len(kept') = Len(kept) + 1 /\ \A i \in 1..Len(kept) : kept'[i] = kept[i]
      BY <2>5, <3>1 DEF TraceInv
    <3>5. answer.k = "trace" =>
            /\ answer.of \in 0..Len(kept') /\ answer.events \in Seq(KeptEvents)
            /\ Len(answer.events) <= answer.of
            /\ LET n == Len(answer.events) IN
                  /\ \A i \in 1..n : answer.events[i] = kept'[answer.of - n + i]
                  /\ n = answer.n \/ n = answer.of \/ n = RingCap
      <4>. SUFFICES ASSUME answer.k = "trace"
                    PROVE  /\ answer.of \in 0..Len(kept') /\ answer.events \in Seq(KeptEvents)
                           /\ Len(answer.events) <= answer.of
                           /\ LET n == Len(answer.events) IN
                                 /\ \A i \in 1..n : answer.events[i] = kept'[answer.of - n + i]
                                 /\ n = answer.n \/ n = answer.of \/ n = RingCap
        OBVIOUS
      <4>. DEFINE n == Len(answer.events)
      <4>1. /\ answer.of \in 0..Len(kept) /\ answer.events \in Seq(KeptEvents)
            /\ n \in Nat /\ n <= answer.of
            /\ \A i \in 1..n : answer.events[i] = kept[answer.of - n + i]
            /\ n = answer.n \/ n = answer.of \/ n = RingCap
        BY DEF TraceInv
      <4>2. Len(kept) \in Nat
        BY DEF TraceInv
      <4>3. \A i \in 1..n : answer.events[i] = kept'[answer.of - n + i]
        <5>. HIDE DEF n
        <5>. SUFFICES ASSUME NEW i \in 1..n PROVE answer.events[i] = kept'[answer.of - n + i]
          OBVIOUS
        <5>1. answer.of - n + i \in 1..Len(kept)
          BY <4>1, <4>2
        <5>. QED  BY <3>4, <4>1, <5>1
      <4>4. answer.of \in 0..Len(kept')
        BY <3>4, <4>1, <4>2
      <4>. QED  BY <4>1, <4>3, <4>4
    <3>. QED  BY <2>1, <2>2, <3>2, <3>3, <3>5 DEF TraceInv
  <2>. QED  BY <1>5, <2>4, <2>5 DEF Push
<1>6. CASE UNCHANGED introVars
  BY <1>6 DEF introVars, TraceInv, Passed
<1>. QED  BY <1>1, <1>2, <1>3, <1>4, <1>5, <1>6 DEF IntroNext

LEMMA TraceBegins == IntroInit => TraceInv
<1>. SUFFICES ASSUME IntroInit PROVE TraceInv
  OBVIOUS
<1>1. Passed = {} /\ Cardinality({}) = 0 /\ Cardinality(Loggers) \in Nat
  BY RingAssumption, FS_EmptySet, FS_CardinalityType DEF IntroInit, Passed
<1>2. kept = <<>> /\ ring = <<>> /\ request = Idle /\ answer = Idle /\ sinceOff = 0
      /\ logging \in [Loggers -> {NoEvent, 1, Debug, Trace}]
  BY DEF IntroInit
<1>. QED  BY <1>1, <1>2, RingAssumption DEF TraceInv, Idle

LEMMA TraceHolds == TraceInv => TraceIsRecent
<1>. SUFFICES ASSUME TraceInv PROVE TraceIsRecent
  OBVIOUS
<1>1. gate = Off => sinceOff <= Cardinality(Loggers)
  <2>1. Cardinality(Passed) \in Nat /\ Cardinality(Loggers) \in Nat
    BY RingAssumption, FS_Subset, FS_CardinalityType DEF Passed
  <2>. QED  BY <2>1 DEF TraceInv
<1>. QED  BY <1>1 DEF TraceInv, TraceIsRecent

-----------------------------------------------------------------------------
(* Transfer. *)

\* A sequence, of whatever.
IsSeq(s) == \E n \in Nat : s = [i \in 1..n |-> s[i]]

LEMMA OfItsOwn == ASSUME NEW s, IsSeq(s) PROVE s \in Seq({s[i] : i \in DOMAIN s}) /\ Len(s) \in Nat
<1>1. PICK n \in Nat : s = [i \in 1..n |-> s[i]]
  BY DEF IsSeq
<1>2. DOMAIN s = 1..n
  BY <1>1
<1>. DEFINE S == {s[i] : i \in DOMAIN s}
<1>3. s \in [1..n -> S]
  BY <1>1, <1>2
<1>4. s \in Seq(S)
  <2>. HIDE DEF S
  <2>. QED  BY <1>3
<1>. QED  BY <1>4

LEMMA OfAny == ASSUME NEW S, NEW s \in Seq(S) PROVE IsSeq(s)
BY DEF IsSeq

LEMMA Joined ==
    ASSUME NEW s, NEW t, IsSeq(s), IsSeq(t)
    PROVE  IsSeq(s \o t) /\ Len(s \o t) = Len(s) + Len(t)
<1>. DEFINE S == {s[i] : i \in DOMAIN s} \cup {t[i] : i \in DOMAIN t}
<1>1. s \in Seq(S) /\ t \in Seq(S)
  <2>1. s \in Seq({s[i] : i \in DOMAIN s}) /\ t \in Seq({t[i] : i \in DOMAIN t})
    BY OfItsOwn
  <2>. QED  BY <2>1
<1>. HIDE DEF S
<1>2. s \o t \in Seq(S) /\ Len(s \o t) = Len(s) + Len(t)
  BY <1>1
<1>. QED  BY <1>2, OfAny

LEMMA Cut ==
    ASSUME NEW s, IsSeq(s), NEW m \in 1..Len(s) + 1, NEW n \in m - 1..Len(s)
    PROVE  IsSeq(SubSeq(s, m, n)) /\ Len(SubSeq(s, m, n)) = n - m + 1
<1>. DEFINE S == {s[i] : i \in DOMAIN s}
<1>1. s \in Seq(S) /\ Len(s) \in Nat
  BY OfItsOwn
<1>. HIDE DEF S
<1>2. SubSeq(s, m, n) \in Seq(S) /\ Len(SubSeq(s, m, n)) = n - m + 1
  BY <1>1
<1>. QED  BY <1>2, OfAny

\* The two pieces of one.
LEMMA CutAt ==
    ASSUME NEW s, IsSeq(s), NEW n \in 0..Len(s)
    PROVE  /\ IsSeq(SubSeq(s, 1, n)) /\ Len(SubSeq(s, 1, n)) = n
           /\ IsSeq(SubSeq(s, n + 1, Len(s)))
<1>1. Len(s) \in Nat
  BY OfItsOwn
<1>2. 1 \in 1..Len(s) + 1 /\ n \in 1 - 1..Len(s) /\ n - 1 + 1 = n
  BY <1>1
<1>3. n + 1 \in 1..Len(s) + 1 /\ Len(s) \in (n + 1) - 1..Len(s)
  BY <1>1
<1>. QED  BY <1>2, <1>3, Cut

LEMMA Flat ==
    ASSUME NEW seqs, IsSeq(seqs), \A i \in 1..Len(seqs) : IsSeq(seqs[i])
    PROVE  IsSeq(FlattenSeq(seqs))
<1>1. Len(seqs) \in Nat
  BY OfItsOwn
<1>. DEFINE N == Len(seqs)
            Step(h, i) == IF i = 1 THEN seqs[i] ELSE h[i - 1] \o seqs[i]
            To(h, n) == \A i \in 1..n : h[i] = Step(h, i)
            Reached == {n \in Nat : n > N \/ \E h : To(h, n)}
            flatten == CHOOSE h : h = [i \in 1..N |-> Step(h, i)]
<1>2. \A n \in Nat : \E h : To(h, n)
  <2>. DEFINE Bad == {n \in Nat : ~\E h : To(h, n)}
  <2>1. SUFFICES ASSUME Bad # {} PROVE FALSE
    OBVIOUS
  <2>2. PICK n \in Bad : \A m \in Bad : n <= m
    <3>1. Bad \in SUBSET Nat
      OBVIOUS
    <3>. HIDE DEF Bad
    <3>. QED  BY <2>1, <3>1, LeastNumber
  <2>3. n # 0
    <3>1. To(<<>>, 0)
      OBVIOUS
    <3>. QED  BY <3>1
  <2>4. n - 1 \in Nat /\ n - 1 \notin Bad
    <3>1. n \in Nat
      OBVIOUS
    <3>2. n - 1 \in Nat /\ ~(n <= n - 1)
      BY <2>3, <3>1
    <3>. HIDE DEF Bad
    <3>. QED  BY <2>2, <3>2
  <2>5. PICK h : To(h, n - 1)
    BY <2>4
  <2>. DEFINE g == [i \in 1..n |-> IF i = n THEN Step(h, n) ELSE h[i]]
  <2>6. To(g, n)
    <3>. SUFFICES ASSUME NEW i \in 1..n PROVE g[i] = Step(g, i)
      OBVIOUS
    <3>1. CASE i = n
      <4>1. i # 1 => i - 1 \in 1..n /\ i - 1 # n
        OBVIOUS
      <4>. QED  BY <3>1, <4>1
    <3>2. CASE i # n
      <4>1. i \in 1..n - 1 /\ (i # 1 => i - 1 \in 1..n /\ i - 1 # n)
        BY <3>2
      <4>2. h[i] = Step(h, i)
        BY <2>5, <4>1
      <4>. QED  BY <3>2, <4>1, <4>2
    <3>. QED  BY <3>1, <3>2
  <2>. QED  BY <2>6
<1>3. PICK h : To(h, N)
  BY <1>1, <1>2
<1>4. flatten = [i \in 1..N |-> Step(flatten, i)]
  <2>. DEFINE g == [i \in 1..N |-> h[i]]
  <2>1. g = [i \in 1..N |-> Step(g, i)]
    <3>1. ASSUME NEW i \in 1..N PROVE g[i] = Step(g, i)
      <4>1. i # 1 => i - 1 \in 1..N
        BY <1>1
      <4>. QED  BY <1>3, <4>1
    <3>. QED  BY <3>1
  <2>. HIDE DEF g
  <2>. QED  BY <2>1
<1>5. CASE N = 0
  BY <1>5 DEF FlattenSeq
<1>6. CASE N # 0
  <2>1. FlattenSeq(seqs) = flatten[N]
    BY <1>6 DEF FlattenSeq
  <2>. HIDE DEF flatten
  <2>. DEFINE Bad == {i \in 1..N : ~IsSeq(flatten[i])}
  <2>2. SUFFICES ASSUME Bad # {} PROVE FALSE
    BY <1>1, <1>6, <2>1
  <2>3. PICK i \in Bad : \A j \in Bad : i <= j
    <3>1. Bad \in SUBSET Nat
      BY <1>1
    <3>. HIDE DEF Bad
    <3>. QED  BY <2>2, <3>1, LeastNumber
  <2>4. i \in 1..N /\ IsSeq(seqs[i])
    OBVIOUS
  <2>5. i # 1
    BY <1>4, <2>4
  <2>6. i - 1 \in 1..N /\ ~(i <= i - 1)
    BY <1>1, <2>4, <2>5
  <2>7. IsSeq(flatten[i - 1])
    <3>1. i - 1 \notin Bad
      <4>. HIDE DEF Bad
      <4>. QED  BY <2>3, <2>6
    <3>. QED  BY <2>6, <3>1
  <2>8. flatten[i] = flatten[i - 1] \o seqs[i]
    BY <1>4, <2>4, <2>5
  <2>. QED  BY <2>4, <2>7, <2>8, Joined
<1>. QED  BY <1>5, <1>6

LEMMA OfOne == ASSUME NEW x PROVE IsSeq(<<x>>)
<1>. <<x>> \in Seq({x})
  OBVIOUS
<1>. QED  BY OfAny

LEMMA OfTwo == ASSUME NEW x, NEW y PROVE IsSeq(<<x, y>>)
<1>. <<x, y>> \in Seq({x, y})
  OBVIOUS
<1>. QED  BY OfAny

LEMMA EntryIsSeq ==
    ASSUME NEW name, NEW size \in Nat, NEW dir, NEW ino
    PROVE  IsSeq(Entry(name, size, dir, ino))
<1>1. IsSeq(<<Header(size, dir), [k |-> "name", name |-> name]>>)
  BY OfTwo
<1>2. IsSeq([i \in 1..size |-> [k |-> "data", of |-> ino, unit |-> i]])
  BY DEF IsSeq
<1>. QED  BY <1>1, <1>2, Joined DEF Entry

LEMMA OdcIsSeq ==
    ASSUME NEW files \in Seq([name : STRING, size : Nat]), NEW dir
    PROVE  IsSeq(BuildOdc(files, dir))
<1>. DEFINE entries == [i \in DOMAIN files |-> Entry(files[i].name, files[i].size, FALSE, i)]
            lead == IF dir THEN Entry(DotDir, 0, TRUE, 0) ELSE <<>>
<1>1. IsSeq(entries) /\ Len(entries) = Len(files)
  <2>1. DOMAIN files = 1..Len(files) /\ Len(files) \in Nat
    OBVIOUS
  <2>2. IsSeq(entries)
    BY <2>1 DEF IsSeq
  <2>3. DOMAIN entries = 1..Len(entries)
    <3>. HIDE DEF entries
    <3>. QED  BY <2>2, OfItsOwn
  <2>. QED  BY <2>1, <2>2, <2>3, OfItsOwn
<1>2. \A i \in 1..Len(entries) : IsSeq(entries[i])
  <2>. SUFFICES ASSUME NEW i \in 1..Len(files) PROVE IsSeq(entries[i])
    BY <1>1
  <2>. DEFINE Files == [name : STRING, size : Nat]
  <2>1. i \in DOMAIN files /\ files[i] \in Files
    <3>. files \in Seq(Files)
      OBVIOUS
    <3>. HIDE DEF Files
    <3>. QED  OBVIOUS
  <2>. QED  BY <2>1, EntryIsSeq
<1>3. IsSeq(FlattenSeq(entries))
  <2>. HIDE DEF entries
  <2>. QED  BY <1>1, <1>2, Flat
<1>4. IsSeq(lead)
  <2>1. IsSeq(<<>>)
    <3>. <<>> \in Seq({})
      OBVIOUS
    <3>. QED  BY OfAny
  <2>. QED  BY <2>1, EntryIsSeq
<1>5. IsSeq(Entry(Trailer, 0, FALSE, 0))
  BY EntryIsSeq
<1>6. BuildOdc(files, dir) = lead \o FlattenSeq(entries) \o Entry(Trailer, 0, FALSE, 0)
  BY DEF BuildOdc
<1>. HIDE DEF entries, lead
<1>. QED  BY <1>3, <1>4, <1>5, <1>6, Joined

LEMMA BodyIsSeq == ASSUME NEW u \in Uploads \cup {Beside} PROVE IsSeq(Body(u))
<1>1. IsSeq(Archived(u))
  BY UploadsAssumption, OdcIsSeq DEF Archived
<1>2. IsSeq(CpioToDvzip(Archived(u), u.blocks, u.spoiled))
  <2>. DEFINE block(n) == <<[k |-> "length"], [k |-> "stream", good |-> n # u.spoiled,
                                               of |-> Slice(Archived(u), n, u.blocks)]>>
              blocks == [n \in 1..u.blocks |-> block(n)]
  <2>1. u.blocks \in Nat
    BY UploadsAssumption
  <2>2. \A n \in 1..u.blocks : IsSeq(block(n))
    BY OfTwo
  <2>. HIDE DEF block
  <2>3. IsSeq(blocks) /\ DOMAIN blocks = 1..u.blocks
    BY <2>1 DEF IsSeq
  <2>4. \A n \in 1..u.blocks : IsSeq(blocks[n])
    BY <2>2
  <2>5. CpioToDvzip(Archived(u), u.blocks, u.spoiled) = FlattenSeq(blocks)
    BY DEF CpioToDvzip, block
  <2>. HIDE DEF blocks
  <2>6. DOMAIN blocks = 1..Len(blocks)
    BY <2>3, OfItsOwn
  <2>. QED  BY <2>3, <2>4, <2>5, <2>6, Flat
<1>. QED  BY <1>1, <1>2 DEF Body

\* How far the body of an upload is and what its bar shows: nothing of one without a length,
\* and else never more than was read, and all of it when that is all there is.
Honest(u, k, bar) ==
    LET size == Len(Wire(u))
        partial == bar = NoBar \/ (bar.total = size /\ bar.received \in 0..size - 1)
    IN  /\ u.framing = "chunked" =>
              k.phase \in {"head", "size", "payload", "whole", "broken", "done"} /\ bar.total = 0
        /\ u.framing = "none" => k.phase \in {"head", "whole", "broken", "done"} /\ bar = NoBar
        /\ u.framing = "length" =>
              \/ /\ k.phase \in {"head", "body"} /\ IsSeq(k.left) /\ IsSeq(k.raw) /\ partial
                 /\ k.phase = "head" => k.raw = <<>>
                 /\ k.phase = "body" => k.want \in Nat /\ Len(k.raw) + k.want = size
              \/ k.phase = "broken" /\ partial
              \/ k.phase \in {"whole", "done"} /\ bar = [received |-> size, total |-> size]

ShapeOf(k) == k \in [phase : {k.phase}, left : {k.left}, want : {k.want}, raw : {k.raw},
                     payload : {k.payload}]

BarInv ==
    /\ \A c \in Conns : upload[c] \in Uploads \cup {Beside}
    /\ conn = [c \in Conns |-> conn[c]] /\ shown = [c \in Conns |-> shown[c]]
    /\ \A c \in Conns : ShapeOf(conn[c]) /\ Honest(upload[c], conn[c], shown[c])

LEMMA OneMoves ==
    ASSUME BarInv, NEW c \in Conns, NEW k, NEW bar, upload' = upload,
           conn' = [conn EXCEPT ![c] = k], shown' = [shown EXCEPT ![c] = bar],
           ShapeOf(k), Honest(upload[c], k, bar)
    PROVE  BarInv'
BY DEF BarInv

\* An update of the sink shows what it is told or nothing new.
LEMMA ProgressShows ==
    ASSUME BarInv, NEW c \in Conns, NEW got, NEW total, Progress(c, got, total)
    PROVE  \E bar \in {shown[c], [received |-> got, total |-> total]} :
              /\ shown' = [shown EXCEPT ![c] = bar]
              /\ total > 0 /\ got >= total => bar = [received |-> got, total |-> total]
<1>1. CASE UNCHANGED shown /\ ~(total > 0 /\ got >= total)
  <2>1. shown' = [shown EXCEPT ![c] = shown[c]]
    BY <1>1 DEF BarInv
  <2>. QED  BY <1>1, <2>1
<1>2. CASE shown' = [shown EXCEPT ![c] = [received |-> got, total |-> total]]
  BY <1>2
<1>. QED  BY <1>1, <1>2 DEF Progress

\* One that is told no total shows none, or what it showed.
LEMMA NoTotalShown ==
    ASSUME BarInv, NEW c \in Conns, NEW got, Progress(c, got, 0), shown[c].total = 0
    PROVE  \E bar : bar.total = 0 /\ shown' = [shown EXCEPT ![c] = bar]
<1>1. CASE UNCHANGED shown
  <2>1. shown' = [shown EXCEPT ![c] = shown[c]]
    BY <1>1 DEF BarInv
  <2>. QED  BY <2>1
<1>2. CASE shown' = [shown EXCEPT ![c] = [received |-> got, total |-> 0]]
  BY <1>2
<1>. QED  BY <1>1, <1>2 DEF Progress

LEMMA HeadStep == ASSUME BarInv, NEW c \in Conns, ReadHead(c) PROVE BarInv'
<1>. DEFINE u == upload[c]
            k == conn[c]
            bar == shown[c]
            length == Len(Wire(u))
<1>1. u \in Uploads \cup {Beside} /\ ShapeOf(k) /\ Honest(u, k, bar) /\ k.phase = "head"
  BY DEF BarInv, ReadHead
<1>2. /\ upload' = upload /\ shown' = [shown EXCEPT ![c] = bar]
      /\ conn = [d \in Conns |-> conn[d]]
  BY DEF BarInv, ReadHead, Fail
<1>3. u.framing = "length" => length \in Nat
  BY <1>1, BodyIsSeq, OfItsOwn DEF Wire
<1>4. ASSUME NEW r, conn' = [conn EXCEPT ![c] = r], ShapeOf(r), r.left = k.left, r.raw = k.raw,
             \/ r.phase = "broken" /\ u.framing = "length"
             \/ r.phase = "body" /\ r.want = length /\ u.framing = "length"
             \/ r.phase = "size" /\ u.framing = "chunked"
             \/ r.phase = "whole" /\ u.framing = "none"
      PROVE  BarInv'
  <2>1. Len(<<>>) = 0
    OBVIOUS
  <2>2. Honest(u, r, bar)
    BY <1>1, <1>3, <1>4, <2>1 DEF Honest
  <2>. HIDE DEF u, bar
  <2>3. u = upload[c] /\ bar = shown[c]
    BY DEF u, bar
  <2>. QED  BY <1>2, <1>4, <2>2, <2>3, OneMoves
<1>5. CASE u.framing = "length" /\ conn' = [conn EXCEPT ![c].phase = "broken"]
  <2>. DEFINE r == [k EXCEPT !.phase = "broken"]
  <2>1. ShapeOf(r) /\ r.left = k.left /\ r.raw = k.raw /\ r.phase = "broken"
    BY <1>1 DEF ShapeOf
  <2>2. conn' = [conn EXCEPT ![c] = r]
    BY <1>2, <1>5
  <2>. HIDE DEF r
  <2>. QED  BY <1>4, <1>5, <2>1, <2>2
<1>6. CASE u.framing = "length" /\ conn' = [conn EXCEPT ![c].phase = "body", ![c].want = length]
  <2>. DEFINE r == [k EXCEPT !.phase = "body", !.want = length]
  <2>1. ShapeOf(r) /\ r.left = k.left /\ r.raw = k.raw /\ r.phase = "body" /\ r.want = length
    BY <1>1 DEF ShapeOf
  <2>2. conn' = [conn EXCEPT ![c] = r]
    BY <1>2, <1>6
  <2>. HIDE DEF r
  <2>. QED  BY <1>4, <1>6, <2>1, <2>2
<1>7. CASE u.framing = "chunked" /\ conn' = [conn EXCEPT ![c].phase = "size", ![c].want = 0]
  <2>. DEFINE r == [k EXCEPT !.phase = "size", !.want = 0]
  <2>1. ShapeOf(r) /\ r.left = k.left /\ r.raw = k.raw /\ r.phase = "size"
    BY <1>1 DEF ShapeOf
  <2>2. conn' = [conn EXCEPT ![c] = r]
    BY <1>2, <1>7
  <2>. HIDE DEF r
  <2>. QED  BY <1>4, <1>7, <2>1, <2>2
<1>8. CASE u.framing = "none" /\ conn' = [conn EXCEPT ![c].phase = "whole"]
  <2>. DEFINE r == [k EXCEPT !.phase = "whole"]
  <2>1. ShapeOf(r) /\ r.left = k.left /\ r.raw = k.raw /\ r.phase = "whole"
    BY <1>1 DEF ShapeOf
  <2>2. conn' = [conn EXCEPT ![c] = r]
    BY <1>2, <1>8
  <2>. HIDE DEF r
  <2>. QED  BY <1>4, <1>8, <2>1, <2>2
<1>. QED  BY <1>5, <1>6, <1>7, <1>8 DEF ReadHead, Fail

LEMMA BodyStep == ASSUME BarInv, NEW c \in Conns, ReadBody(c) PROVE BarInv'
<1>. DEFINE u == upload[c]
            k == conn[c]
            bar == shown[c]
            size == Len(Wire(u))
            n == IF k.want < Piece THEN k.want ELSE Piece
            partial(b) == b = NoBar \/ (b.total = size /\ b.received \in 0..size - 1)
<1>1. /\ u \in Uploads \cup {Beside} /\ ShapeOf(k) /\ Honest(u, k, bar) /\ k.phase = "body"
      /\ upload' = upload /\ conn = [d \in Conns |-> conn[d]]
  BY DEF BarInv, ReadBody
<1>2. /\ u.framing = "length" /\ IsSeq(k.left) /\ IsSeq(k.raw) /\ partial(bar)
      /\ k.want \in Nat /\ Len(k.raw) + k.want = size
  BY <1>1, UploadsAssumption DEF Honest
<1>3. Len(k.left) \in Nat /\ Len(k.raw) \in Nat /\ size \in Nat
  BY <1>2, OfItsOwn
<1>4. n \in Nat /\ n <= k.want /\ (n = k.want \/ n = Piece) /\ Piece \in Nat \ {0}
  BY <1>2, UploadsAssumption
<1>5. CASE conn' = [conn EXCEPT ![c].phase = "broken"] /\ UNCHANGED shown
  <2>. DEFINE r == [k EXCEPT !.phase = "broken"]
  <2>1. ShapeOf(r) /\ r.phase = "broken"
    BY <1>1 DEF ShapeOf
  <2>2. conn' = [conn EXCEPT ![c] = r] /\ shown' = [shown EXCEPT ![c] = bar]
    BY <1>1, <1>5 DEF BarInv
  <2>. HIDE DEF r
  <2>3. Honest(u, r, bar)
    BY <1>2, <2>1 DEF Honest
  <2>. HIDE DEF u, bar
  <2>4. u = upload[c] /\ bar = shown[c]
    BY DEF u, bar
  <2>. QED  BY <1>1, <2>1, <2>2, <2>3, <2>4, OneMoves
<1>6. CASE /\ Len(k.left) >= n
           /\ conn' = [conn EXCEPT ![c].phase = IF k.want = n THEN "whole" ELSE "body",
                                   ![c].want = @ - n,
                                   ![c].left = SubSeq(@, n + 1, Len(@)),
                                   ![c].raw = @ \o SubSeq(k.left, 1, n)]
           /\ Progress(c, Len(k.raw) + n, size)
  <2>. DEFINE phase == IF k.want = n THEN "whole" ELSE "body"
              rest == SubSeq(k.left, n + 1, Len(k.left))
              done == k.raw \o SubSeq(k.left, 1, n)
              r == [k EXCEPT !.phase = phase, !.want = @ - n,
                             !.left = SubSeq(@, n + 1, Len(@)),
                             !.raw = @ \o SubSeq(k.left, 1, n)]
  <2>1. conn' = [conn EXCEPT ![c] = r]
    <3>. HIDE DEF n, phase
    <3>. QED  BY <1>1, <1>6 DEF phase
  <2>2. ShapeOf(r) /\ r.phase = phase /\ r.want = k.want - n /\ r.left = rest /\ r.raw = done
    <3>. HIDE DEF n, phase, k
    <3>. QED  BY <1>1 DEF ShapeOf
  <2>3. IsSeq(rest)
    <3>1. n \in 0..Len(k.left)
      BY <1>3, <1>4, <1>6
    <3>. HIDE DEF n, k
    <3>. QED  BY <1>2, <3>1, CutAt
  <2>4. IsSeq(done) /\ Len(done) = Len(k.raw) + n
    <3>. DEFINE piece == SubSeq(k.left, 1, n)
    <3>1. IsSeq(piece) /\ Len(piece) = n
      <4>1. n \in 0..Len(k.left)
        BY <1>3, <1>4, <1>6
      <4>. HIDE DEF n, k
      <4>. QED  BY <1>2, <4>1, CutAt
    <3>2. done = k.raw \o piece
      OBVIOUS
    <3>. HIDE DEF piece, done, n, k
    <3>. QED  BY <1>2, <3>1, <3>2, Joined
  <2>. DEFINE got == Len(k.raw) + n
              told == [received |-> got, total |-> size]
  <2>5. PICK b \in {bar, told} : shown' = [shown EXCEPT ![c] = b]
                                 /\ (size > 0 /\ got >= size => b = told)
    BY <1>6, ProgressShows
  <2>6. told.received = got /\ told.total = size
    OBVIOUS
  <2>7. Honest(u, r, b)
    <3>1. CASE k.want = n
      <4>1. got = size /\ r.phase = "whole"
        BY <1>2, <1>3, <1>4, <2>2, <3>1
      <4>2. b = [received |-> size, total |-> size]
        <5>1. CASE size = 0
          BY <1>2, <2>5, <4>1, <5>1 DEF NoBar
        <5>. QED  BY <1>3, <2>5, <4>1, <5>1
      <4>. QED  BY <1>2, <4>1, <4>2 DEF Honest
    <3>2. CASE k.want # n
      <4>1. got \in 0..size - 1 /\ r.phase = "body"
        <5>1. r.phase = "body"
          BY <2>2, <3>2, Zenon
        <5>2. got \in 0..size - 1
          <6>1. Len(k.raw) + k.want = size /\ k.want \in Nat
            BY <1>2
          <6>. HIDE DEF k, n, size
          <6>. QED  BY <1>3, <1>4, <3>2, <6>1
        <5>. QED  BY <5>1, <5>2
      <4>2. partial(b)
        BY <1>2, <2>5, <2>6, <4>1
      <4>3. r.want \in Nat /\ Len(r.raw) + r.want = size /\ IsSeq(r.raw) /\ IsSeq(r.left)
        <5>. HIDE DEF n, done, rest, k, size, r
        <5>. QED  BY <1>2, <1>3, <1>4, <2>2, <2>3, <2>4
      <4>. HIDE DEF r
      <4>. QED  BY <1>2, <4>1, <4>2, <4>3 DEF Honest
    <3>. QED  BY <3>1, <3>2
  <2>. HIDE DEF r, u
  <2>8. u = upload[c]
    BY DEF u
  <2>. QED  BY <1>1, <2>1, <2>2, <2>5, <2>7, <2>8, OneMoves
<1>. QED  BY <1>5, <1>6 DEF ReadBody, Fail

\* A connection without a length whose phase changes.
LEMMA ChunkMoves ==
    ASSUME BarInv, NEW c \in Conns, upload' = upload, NEW r, ShapeOf(r),
           conn[c].phase \in {"size", "payload"},
           r.phase \in {"size", "payload", "whole", "broken", "done"},
           conn' = [conn EXCEPT ![c] = r], NEW bar, bar.total = 0,
           shown' = [shown EXCEPT ![c] = bar]
    PROVE  BarInv'
<1>1. upload[c].framing = "chunked"
  BY UploadsAssumption DEF BarInv, Honest
<1>2. Honest(upload[c], r, bar)
  BY <1>1 DEF Honest
<1>. QED  BY <1>2, OneMoves

LEMMA SizeStep == ASSUME BarInv, NEW c \in Conns, ReadSize(c) PROVE BarInv'
<1>. DEFINE k == conn[c]
            bar == shown[c]
<1>1. /\ ShapeOf(k) /\ k.phase = "size" /\ bar.total = 0
      /\ upload' = upload /\ conn = [d \in Conns |-> conn[d]]
  BY UploadsAssumption DEF BarInv, ReadSize, Honest
<1>2. shown' = [shown EXCEPT ![c] = bar]
  BY DEF BarInv, ReadSize, Fail
<1>3. ASSUME NEW r, ShapeOf(r), r.phase \in {"broken", "payload", "whole"},
             conn' = [conn EXCEPT ![c] = r]
      PROVE  BarInv'
  <2>. HIDE DEF k, bar
  <2>. QED  BY <1>1, <1>2, <1>3, ChunkMoves DEF k, bar
<1>4. CASE Fail(c)
  <2>. DEFINE r == [k EXCEPT !.phase = "broken"]
  <2>1. ShapeOf(r) /\ r.phase = "broken"
    BY <1>1 DEF ShapeOf
  <2>2. conn' = [conn EXCEPT ![c] = r]
    BY <1>1, <1>4 DEF Fail
  <2>. HIDE DEF r
  <2>. QED  BY <1>3, <2>1, <2>2
<1>5. ASSUME NEW n, Reads(c, n, "whole") PROVE BarInv'
  <2>. DEFINE r == [k EXCEPT !.phase = "whole", !.left = SubSeq(@, n + 1, Len(@)),
                             !.raw = @ \o SubSeq(k.left, 1, n)]
  <2>1. ShapeOf(r) /\ r.phase = "whole"
    BY <1>1 DEF ShapeOf
  <2>2. conn' = [conn EXCEPT ![c] = r]
    BY <1>1, <1>5 DEF Reads
  <2>. HIDE DEF r
  <2>. QED  BY <1>3, <2>1, <2>2
<1>6. ASSUME NEW n, conn' = [conn EXCEPT ![c].phase = "payload", ![c].want = n,
                                        ![c].left = Tail(@), ![c].raw = Append(@, k.left[1])]
      PROVE  BarInv'
  <2>. DEFINE r == [k EXCEPT !.phase = "payload", !.want = n, !.left = Tail(@),
                             !.raw = Append(@, k.left[1])]
  <2>1. ShapeOf(r) /\ r.phase = "payload"
    BY <1>1 DEF ShapeOf
  <2>2. conn' = [conn EXCEPT ![c] = r]
    BY <1>1, <1>6
  <2>. HIDE DEF r
  <2>. QED  BY <1>3, <2>1, <2>2
<1>. QED  BY <1>4, <1>5, <1>6 DEF ReadSize

LEMMA PayloadStep == ASSUME BarInv, NEW c \in Conns, ReadPayload(c) PROVE BarInv'
<1>. DEFINE k == conn[c]
            bar == shown[c]
            n == IF k.want < Piece THEN k.want ELSE Piece
            got == k.payload + n
<1>1. /\ ShapeOf(k) /\ k.phase = "payload" /\ bar.total = 0
      /\ upload' = upload /\ conn = [d \in Conns |-> conn[d]] /\ shown = [d \in Conns |-> shown[d]]
  BY UploadsAssumption DEF BarInv, ReadPayload, Honest
<1>2. Fail(c) \/ Progress(c, got, 0)
  BY DEF ReadPayload
<1>3. PICK b : b.total = 0 /\ shown' = [shown EXCEPT ![c] = b]
  <2>1. CASE Fail(c)
    BY <1>1, <2>1 DEF Fail
  <2>2. CASE Progress(c, got, 0)
    <3>1. shown[c].total = 0
      BY <1>1
    <3>. HIDE DEF got
    <3>. QED  BY <2>2, <3>1, NoTotalShown
  <2>. QED  BY <1>2, <2>1, <2>2
<1>4. ASSUME NEW r, ShapeOf(r), r.phase \in {"broken", "payload", "size"},
             conn' = [conn EXCEPT ![c] = r]
      PROVE  BarInv'
  BY <1>1, <1>3, <1>4, ChunkMoves
<1>5. CASE conn' = [conn EXCEPT ![c].phase = "broken"]
  <2>. DEFINE r == [k EXCEPT !.phase = "broken"]
  <2>1. ShapeOf(r) /\ r.phase = "broken"
    BY <1>1 DEF ShapeOf
  <2>2. conn' = [conn EXCEPT ![c] = r]
    BY <1>1, <1>5
  <2>. HIDE DEF r
  <2>. QED  BY <1>4, <2>1, <2>2
<1>6. ASSUME NEW phase \in {"size", "payload"}, NEW take,
             conn' = [conn EXCEPT ![c].phase = phase, ![c].want = @ - n, ![c].payload = @ + n,
                                  ![c].left = SubSeq(@, take + 1, Len(@)),
                                  ![c].raw = @ \o SubSeq(k.left, 1, take)]
      PROVE  BarInv'
  <2>. DEFINE r == [k EXCEPT !.phase = phase, !.want = @ - n, !.payload = @ + n,
                             !.left = SubSeq(@, take + 1, Len(@)),
                             !.raw = @ \o SubSeq(k.left, 1, take)]
  <2>. HIDE DEF n
  <2>1. ShapeOf(r) /\ r.phase = phase
    BY <1>1 DEF ShapeOf
  <2>2. conn' = [conn EXCEPT ![c] = r]
    BY <1>1, <1>6
  <2>. HIDE DEF r
  <2>. QED  BY <1>4, <2>1, <2>2
<1>. QED  BY <1>5, <1>6 DEF ReadPayload, Fail

LEMMA HandleStep == ASSUME BarInv, NEW c \in Conns, Handle(c) PROVE BarInv'
<1>. DEFINE k == conn[c]
            bar == shown[c]
            u == upload[c]
<1>1. /\ u \in Uploads \cup {Beside} /\ ShapeOf(k) /\ Honest(u, k, bar) /\ k.phase = "whole"
      /\ upload' = upload /\ conn = [d \in Conns |-> conn[d]]
      /\ shown' = [shown EXCEPT ![c] = bar]
  BY DEF BarInv, Handle
<1>2. PICK phase \in {"done", "broken"} :
         /\ conn' = [conn EXCEPT ![c].phase = phase]
         /\ phase = "broken" => ~Parsed(c).ok
  BY DEF Handle
<1>3. u.framing \in {"length", "none"} => Parsed(c).ok
  BY DEF Parsed
<1>4. Honest(u, [k EXCEPT !.phase = phase], bar) /\ ShapeOf([k EXCEPT !.phase = phase])
  <2>. DEFINE r == [k EXCEPT !.phase = phase]
  <2>1. ShapeOf(r) /\ r.phase = phase
    BY <1>1 DEF ShapeOf
  <2>. HIDE DEF r
  <2>2. u.framing \in {"length", "none", "chunked"} /\ (u.framing # "chunked" => phase = "done")
    BY <1>1, <1>2, <1>3, UploadsAssumption
  <2>3. Honest(u, r, bar)
    BY <1>1, <2>1, <2>2 DEF Honest
  <2>. QED  BY <2>1, <2>3 DEF r
<1>5. conn' = [conn EXCEPT ![c] = [k EXCEPT !.phase = phase]]
  BY <1>1, <1>2
<1>. QED  BY <1>1, <1>4, <1>5, OneMoves

LEMMA TransferStep == BarInv /\ [TransferNext]_transferVars => BarInv'
<1>. SUFFICES ASSUME BarInv, [TransferNext]_transferVars PROVE BarInv'
  OBVIOUS
<1>1. CASE Tick
  BY <1>1 DEF Tick, BarInv
<1>2. CASE UNCHANGED transferVars
  BY <1>2 DEF transferVars, BarInv
<1>. QED  BY <1>1, <1>2, HeadStep, BodyStep, SizeStep, PayloadStep, HandleStep DEF TransferNext

LEMMA TransferBegins == TransferInit => BarInv
<1>. SUFFICES ASSUME TransferInit PROVE BarInv
  OBVIOUS
<1>1. PICK u \in Uploads : upload = <<u, Beside>>
  BY DEF TransferInit
<1>2. ASSUME NEW c \in Conns PROVE upload[c] \in Uploads \cup {Beside}
  BY <1>1, <1>2 DEF Conns
<1>3. ASSUME NEW c \in Conns PROVE ShapeOf(conn[c]) /\ Honest(upload[c], conn[c], shown[c])
  <2>. DEFINE left == Delivered(upload[c])
  <2>1. conn[c] = [Unread EXCEPT !.left = left] /\ shown[c] = NoBar
    BY DEF TransferInit
  <2>2. /\ ShapeOf(conn[c]) /\ conn[c].phase = "head" /\ conn[c].left = left
        /\ conn[c].raw = <<>>
    <3>. HIDE DEF left
    <3>. QED  BY <2>1 DEF ShapeOf, Unread
  <2>3. upload[c].framing = "length" => IsSeq(left)
    <3>. SUFFICES ASSUME upload[c].framing = "length" PROVE IsSeq(left)
      OBVIOUS
    <3>. DEFINE w == Wire(upload[c])
                n == IF upload[c].cut < Len(w) THEN upload[c].cut ELSE Len(w)
    <3>1. IsSeq(w)
      BY <1>2, BodyIsSeq DEF Wire
    <3>2. Len(w) \in Nat
      BY <3>1, OfItsOwn
    <3>3. n \in 0..Len(w)
      BY <1>2, <3>2, UploadsAssumption
    <3>4. left = SubSeq(w, 1, n)
      BY DEF Delivered
    <3>. HIDE DEF w, n, left
    <3>. QED  BY <3>1, <3>3, <3>4, CutAt
  <2>4. IsSeq(<<>>)
    <3>. <<>> \in Seq({})
      OBVIOUS
    <3>. QED  BY OfAny
  <2>. HIDE DEF left
  <2>. QED  BY <2>1, <2>2, <2>3, <2>4 DEF Honest, NoBar
<1>. QED  BY <1>2, <1>3 DEF BarInv, TransferInit

LEMMA BarHolds == BarInv => BarIsHonest
<1>. SUFFICES ASSUME BarInv, NEW c \in Conns
              PROVE  LET arrived == conn[c].phase \in {"whole", "done"} IN
                     /\ shown[c].total > 0 /\ shown[c].received >= shown[c].total => arrived
                     /\ arrived /\ upload[c].framing = "length" =>
                            shown[c] = [received |-> Len(Wire(upload[c])), total |-> Len(Wire(upload[c]))]
  BY DEF BarIsHonest
<1>. DEFINE u == upload[c]
            k == conn[c]
            bar == shown[c]
<1>1. u \in Uploads \cup {Beside} /\ Honest(u, k, bar)
  BY DEF BarInv
<1>2. u.framing \in {"length", "chunked", "none"}
  BY <1>1, UploadsAssumption
<1>3. u.framing = "length" => Len(Wire(u)) \in Nat
  BY <1>1, BodyIsSeq, OfItsOwn DEF Wire
<1>. HIDE DEF u, k, bar
<1>4. /\ bar.total > 0 /\ bar.received >= bar.total => k.phase \in {"whole", "done"}
      /\ k.phase \in {"whole", "done"} /\ u.framing = "length" =>
             bar = [received |-> Len(Wire(u)), total |-> Len(Wire(u))]
  BY <1>1, <1>2, <1>3 DEF Honest, NoBar
<1>. QED  BY <1>4 DEF u, k, bar

-----------------------------------------------------------------------------
(* The statuses of sent frames. *)

Message == [k : {"cookie"}, seq : Frames, cookie : Frames]
             \cup [k : {"ack"}, seq : Frames, error : Nat]
             \cup [k : {"status"}, cookie : Frames \cup Foreign, outcome : Outcomes]
Pending == [cookie : Frames, at : Nat]
EarlyStatus == [cookie : Frames \cup Foreign, outcome : Outcomes]
Tracker == [seq : Frames \cup {0}, cookie : Frames \cup {0}, pending : SUBSET Pending,
            early : Seq(EarlyStatus),
            acked : Nat, noAck : Nat, statusMissing : Nat, cookieMissing : Nat]

Ours == {f \in Frames : accepted[f] >= 0}
HasStatus(f) == learnt[f].at >= 0
Timely(f) == learnt[f].at - accepted[f] < Timeout
Counted(outcome) == {f \in Ours \ pushedOut : (HasStatus(f) /\ Timely(f)) /\ learnt[f].outcome = outcome}

TxTypes ==
    /\ now \in Nat /\ call \in Frames \cup {0} /\ taken \in SUBSET Frames
    /\ accepted \in [Frames -> Int] /\ learnt \in [Frames -> [outcome : Outcomes, at : Int]]
    /\ \A f \in Frames : accepted[f] <= now /\ learnt[f].at <= now
    /\ \A f \in Frames : (HasStatus(f) => f \in reported)
                         /\ (f \in reported \cup pushedOut \cup Ours => f \in taken)

\* The frame that is being sent has no status, or one that came early and is kept.
Sending(t) ==
    /\ call = 0 => t.seq = 0
    /\ call # 0 => /\ call \in taken \ Ours /\ t.seq = call /\ t.cookie \in {0, call}
                   /\ HasStatus(call) <=> call \in EarlyOf(t) \cup pushedOut
                   /\ ~(call \in EarlyOf(t) /\ call \in pushedOut)

\* What waits for a status has none, or lost it to a queue that was full.
Waiting(t) ==
    \A w \in t.pending : /\ w.cookie \in Ours /\ w.at = accepted[w.cookie]
                         /\ HasStatus(w.cookie) <=> w.cookie \in pushedOut

\* A status that came early is of the frame that is being sent, or counts for none.
CameEarly(t) ==
    \A i \in DOMAIN t.early :
        t.early[i].cookie \in Frames =>
            /\ HasStatus(t.early[i].cookie)
            /\ learnt[t.early[i].cookie].outcome = t.early[i].outcome
            /\ \/ t.early[i].cookie = call \/ t.early[i].cookie \notin Ours
               \/ t.early[i].cookie \in pushedOut \/ ~Timely(t.early[i].cookie)

\* What has no status and waits for none is too late for one.
Late(t) ==
    \A f \in Ours : f \notin PendingOf(t) /\ f \notin pushedOut /\ ~HasStatus(f)
                        => now - accepted[f] >= Timeout

Sums(t) ==
    /\ t.acked = Cardinality(Counted("acked")) /\ t.noAck = Cardinality(Counted("noAck"))
    /\ Cardinality(Ours) = t.acked + t.noAck + t.statusMissing + t.cookieMissing + Cardinality(t.pending)

Ledger(t) == t \in Tracker /\ Sending(t) /\ Waiting(t) /\ CameEarly(t) /\ Late(t) /\ Sums(t)

\* In the socket is at most one status of a frame, which is not known yet, and the answer to
\* a request comes after its cookie.
Mail ==
    /\ socket \in Seq(Message)
    /\ Len(socket) <= Room
    /\ \A i \in DOMAIN socket :
          /\ socket[i].k = "cookie" => socket[i].cookie = socket[i].seq
          /\ socket[i].k \in {"cookie", "ack"} => socket[i].seq \in taken
          /\ socket[i].k = "status" /\ socket[i].cookie \in Frames
                => socket[i].cookie \in reported /\ ~HasStatus(socket[i].cookie)
    /\ \A i, j \in DOMAIN socket :
          i < j /\ socket[i].k = "status" /\ socket[j].k = "status" /\ socket[i].cookie \in Frames
             => socket[i].cookie # socket[j].cookie

Answers ==
    \A i \in DOMAIN socket :
        socket[i].k = "ack" /\ socket[i].error = 0 /\ socket[i].seq = call =>
            \/ tracker.cookie = call
            \/ \E j \in DOMAIN socket : j < i /\ socket[j].k = "cookie" /\ socket[j].seq = call

TxInv == TxTypes /\ Ledger(tracker) /\ Mail /\ Answers

LEMMA FramesAre == IsFiniteSet(Frames) /\ Frames \subseteq Nat \ {0}
<1>. DEFINE n == Cardinality(Frames)
<1>1. n \in Nat /\ Frames = 1..n
  BY TrackerAssumption
<1>. HIDE DEF n
<1>2. IsFiniteSet(1..n)
  BY <1>1, FS_Interval
<1>. QED  BY <1>1, <1>2

LEMMA OfFrames ==
    ASSUME NEW S \in SUBSET Frames
    PROVE  /\ IsFiniteSet(S) /\ Cardinality(S) \in Nat
           /\ \A f \in Frames \ S : Cardinality(S \cup {f}) = Cardinality(S) + 1
<1>1. IsFiniteSet(S)
  BY FramesAre, FS_Subset
<1>2. Cardinality(S) \in Nat
  BY <1>1, FS_CardinalityType
<1>3. ASSUME NEW f \in Frames \ S PROVE Cardinality(S \cup {f}) = Cardinality(S) + 1
  <2>1. Cardinality(S \cup {f}) = IF f \in S THEN Cardinality(S) ELSE Cardinality(S) + 1
    BY <1>1, FS_AddElement, Zenon
  <2>. QED  BY <1>3, <2>1
<1>. QED  BY <1>1, <1>2, <1>3

\* The queue has each frame once.
LEMMA PendingFinite ==
    ASSUME NEW t, t.pending \in SUBSET Pending, Waiting(t)
    PROVE  /\ IsFiniteSet(t.pending)
           /\ \A v, w \in t.pending : v.cookie = w.cookie => v = w
<1>. DEFINE cookie == [w \in t.pending |-> w.cookie]
<1>1. \A w \in t.pending : w.cookie \in Frames /\ w = [cookie |-> w.cookie, at |-> accepted[w.cookie]]
  BY DEF Waiting, Pending
<1>2. \A v, w \in t.pending : v.cookie = w.cookie => v = w
  BY <1>1, Zenon
<1>3. cookie \in [t.pending -> Frames] /\ \A w \in t.pending : cookie[w] = w.cookie
  BY <1>1
<1>. HIDE DEF cookie
<1>4. cookie \in Injection(t.pending, Frames)
  BY <1>2, <1>3 DEF Injection, IsInjective
<1>5. IsFiniteSet(t.pending)
  BY <1>4, FramesAre, FS_Injection, Zenon
<1>. QED  BY <1>2, <1>5

LEMMA Split ==
    ASSUME NEW S, IsFiniteSet(S), NEW T \in SUBSET S
    PROVE  /\ Cardinality(S) \in Nat /\ Cardinality(T) \in Nat /\ Cardinality(S \ T) \in Nat
           /\ Cardinality(S) = Cardinality(T) + Cardinality(S \ T)
<1>1. IsFiniteSet(T) /\ IsFiniteSet(S \ T)
  BY FS_Subset
<1>2. Cardinality(S) \in Nat /\ Cardinality(T) \in Nat /\ Cardinality(S \ T) \in Nat
  BY <1>1, FS_CardinalityType
<1>3. Cardinality(S \ T) = Cardinality(S) - Cardinality(S \cap T)
  BY FS_Difference
<1>4. S \cap T = T
  OBVIOUS
<1>. QED  BY <1>2, <1>3, <1>4

\* What leaves the queue is missed.
LEMMA MissingIs ==
    ASSUME NEW t \in Tracker, IsFiniteSet(t.pending), NEW left \in SUBSET t.pending,
           NEW u, u = Missing(t, left)
    PROVE  /\ u \in Tracker /\ u.pending = left /\ u.early = t.early
           /\ u.seq = t.seq /\ u.cookie = t.cookie
           /\ u.acked = t.acked /\ u.noAck = t.noAck /\ u.cookieMissing = t.cookieMissing
           /\ u.statusMissing + Cardinality(left) = t.statusMissing + Cardinality(t.pending)
<1>. DEFINE n == Cardinality(t.pending \ left)
            early == Seq(EarlyStatus)
            v == [t EXCEPT !.pending = left]
            all == [seq : Frames \cup {0}, cookie : Frames \cup {0}, pending : SUBSET Pending,
                    early : early, acked : Nat, noAck : Nat, statusMissing : Nat, cookieMissing : Nat]
<1>1. /\ Cardinality(left) \in Nat /\ n \in Nat
      /\ Cardinality(t.pending) = Cardinality(left) + n
  BY Split
<1>2. t \in all /\ left \in SUBSET Pending
  BY DEF Tracker
<1>3. u = [v EXCEPT !.statusMissing = t.statusMissing + n]
  BY DEF Missing
<1>. HIDE DEF n, early
<1>4. /\ v \in all /\ v.pending = left /\ v.early = t.early
      /\ v.seq = t.seq /\ v.cookie = t.cookie /\ v.acked = t.acked /\ v.noAck = t.noAck
      /\ v.cookieMissing = t.cookieMissing /\ v.statusMissing = t.statusMissing
  BY <1>2
<1>. HIDE DEF v
<1>5. t.statusMissing + n \in Nat
  BY <1>1, <1>2
<1>6. /\ u \in all /\ u.pending = v.pending /\ u.early = v.early
      /\ u.seq = v.seq /\ u.cookie = v.cookie /\ u.acked = v.acked /\ u.noAck = v.noAck
      /\ u.cookieMissing = v.cookieMissing /\ u.statusMissing = t.statusMissing + n
  BY <1>3, <1>4, <1>5
<1>7. u.statusMissing + Cardinality(left) = t.statusMissing + Cardinality(t.pending)
  BY <1>1, <1>2, <1>6
<1>8. u \in Tracker
  BY <1>6 DEF Tracker, early
<1>. QED  BY <1>4, <1>6, <1>7, <1>8

\* The time of a status that is waited for runs out.
LEMMA ExpireKeeps ==
    ASSUME TxTypes, NEW t, Ledger(t), NEW u, u = ExpirePending(t)
    PROVE  /\ Ledger(u) /\ u.early = t.early /\ u.cookie = t.cookie
           /\ \A w \in u.pending : now - w.at < Timeout
<1>. DEFINE live == {w \in t.pending : now - w.at < Timeout}
<1>1. t \in Tracker /\ IsFiniteSet(t.pending)
  BY PendingFinite DEF Ledger, Tracker
<1>2. live \in SUBSET t.pending
  OBVIOUS
<1>3. u = Missing(t, live)
  BY DEF ExpirePending
<1>5. /\ u \in Tracker /\ u.pending = live /\ u.early = t.early
      /\ u.seq = t.seq /\ u.cookie = t.cookie
      /\ u.acked = t.acked /\ u.noAck = t.noAck /\ u.cookieMissing = t.cookieMissing
      /\ u.statusMissing + Cardinality(live) = t.statusMissing + Cardinality(t.pending)
  <2>. HIDE DEF live
  <2>. QED  BY <1>1, <1>2, <1>3, MissingIs
<1>6. \A w \in live : w \in t.pending /\ now - w.at < Timeout
  OBVIOUS
<1>7. \A w \in t.pending \ live : ~(now - w.at < Timeout)
  OBVIOUS
<1>. HIDE DEF live
<1>8. EarlyOf(u) = EarlyOf(t)
  BY <1>5 DEF EarlyOf
<1>9. Sending(u) /\ Waiting(u) /\ CameEarly(u)
  BY <1>5, <1>6, <1>8 DEF Ledger, Sending, Waiting, CameEarly
<1>10. Late(u)
  <2>. SUFFICES ASSUME NEW f \in Ours, f \notin PendingOf(u), f \notin pushedOut, ~HasStatus(f)
                PROVE  now - accepted[f] >= Timeout
    BY DEF Late
  <2>1. CASE f \notin PendingOf(t)
    BY <2>1 DEF Ledger, Late
  <2>2. CASE f \in PendingOf(t)
    <3>1. PICK w \in t.pending : w.cookie = f
      BY <2>2 DEF PendingOf
    <3>2. w \notin live
      BY <1>5, <3>1 DEF PendingOf
    <3>3. w.at = accepted[f] /\ ~(now - w.at < Timeout)
      BY <1>7, <3>1, <3>2 DEF Ledger, Waiting
    <3>4. now \in Int /\ accepted[f] \in Int /\ Timeout \in Int
      BY TrackerAssumption DEF TxTypes, Ours
    <3>. QED  BY <3>3, <3>4
  <2>. QED  BY <2>1, <2>2
<1>11. Sums(u)
  <2>1. /\ u.acked \in Nat /\ u.noAck \in Nat /\ u.statusMissing \in Nat /\ u.cookieMissing \in Nat
        /\ t.statusMissing \in Nat
        /\ Cardinality(live) \in Nat /\ Cardinality(t.pending) \in Nat
    BY <1>1, <1>2, <1>5, Split DEF Tracker
  <2>. QED  BY <2>1, <1>5 DEF Ledger, Sums
<1>. QED  BY <1>5, <1>6, <1>9, <1>10, <1>11 DEF Ledger

LEMMA BeginIs ==
    ASSUME NEW t \in Tracker, NEW f \in Frames \cup {0}, NEW u, u = Begin(t, f)
    PROVE  /\ u \in Tracker /\ u.pending = t.pending /\ u.early = <<>>
           /\ u.seq = f /\ u.cookie = 0
           /\ u.acked = t.acked /\ u.noAck = t.noAck /\ u.cookieMissing = t.cookieMissing
           /\ u.statusMissing = t.statusMissing
<1>. DEFINE early == Seq(EarlyStatus)
            all == [seq : Frames \cup {0}, cookie : Frames \cup {0}, pending : SUBSET Pending,
                    early : early, acked : Nat, noAck : Nat, statusMissing : Nat, cookieMissing : Nat]
            a == [t EXCEPT !.seq = f]
            b == [a EXCEPT !.cookie = 0]
            none == <<>>
<1>1. t \in all /\ none \in early /\ u = [b EXCEPT !.early = none]
  BY DEF Tracker, Begin
<1>. HIDE DEF early, none
<1>2. a \in all /\ a = [t EXCEPT !.seq = f]
  BY <1>1
<1>. HIDE DEF a
<1>3. b \in all /\ b = [a EXCEPT !.cookie = 0]
  BY <1>2
<1>. HIDE DEF b
<1>4. u \in all
  BY <1>1, <1>3
<1>5. /\ u.pending = t.pending /\ u.early = none
      /\ u.seq = f /\ u.cookie = 0
      /\ u.acked = t.acked /\ u.noAck = t.noAck /\ u.cookieMissing = t.cookieMissing
      /\ u.statusMissing = t.statusMissing
  BY <1>1, <1>2, <1>3
<1>. QED  BY <1>4, <1>5 DEF Tracker, early, none

LEMMA ClosedIs ==
    ASSUME NEW t \in Tracker, NEW u, u = Closed(t)
    PROVE  /\ u \in Tracker /\ u.pending = t.pending /\ u.early = <<>>
           /\ u.seq = 0 /\ u.cookie = 0
           /\ u.acked = t.acked /\ u.noAck = t.noAck /\ u.cookieMissing = t.cookieMissing
           /\ u.statusMissing = t.statusMissing
<1>1. u = Begin(t, 0)
  BY DEF Closed, Begin
<1>. QED  BY <1>1, BeginIs

LEMMA RecordIs ==
    ASSUME NEW t \in Tracker, NEW outcome \in Outcomes, NEW u, u = Record(t, outcome)
    PROVE  /\ u \in Tracker /\ u.pending = t.pending /\ u.early = t.early
           /\ u.seq = t.seq /\ u.cookie = t.cookie
           /\ u.acked = t.acked + (IF outcome = "acked" THEN 1 ELSE 0)
           /\ u.noAck = t.noAck + (IF outcome = "noAck" THEN 1 ELSE 0)
           /\ u.cookieMissing = t.cookieMissing /\ u.statusMissing = t.statusMissing
<1>. DEFINE early == Seq(EarlyStatus)
            all == [seq : Frames \cup {0}, cookie : Frames \cup {0}, pending : SUBSET Pending,
                    early : early, acked : Nat, noAck : Nat, statusMissing : Nat, cookieMissing : Nat]
<1>1. t \in all
  BY DEF Tracker
<1>. HIDE DEF early
<1>2. CASE outcome = "acked"
  <2>1. u = [t EXCEPT !.acked = t.acked + 1]
    BY <1>2 DEF Record
  <2>. QED  BY <1>1, <1>2, <2>1 DEF Tracker, early
<1>3. CASE outcome = "noAck"
  <2>1. u = [t EXCEPT !.noAck = t.noAck + 1]
    BY <1>3 DEF Record
  <2>. QED  BY <1>1, <1>3, <2>1 DEF Tracker, early
<1>. QED  BY <1>2, <1>3 DEF Outcomes

Keeping(t, e) == [t EXCEPT !.early = Append(Newest(t.early), e)]

\* What a status that no frame waits for becomes while a request is under way.
LEMMA EarlyIs ==
    ASSUME NEW t \in Tracker, NEW e \in EarlyStatus,
           NEW u, u = Keeping(t, e)
    PROVE  /\ u \in Tracker /\ u.pending = t.pending /\ u.seq = t.seq /\ u.cookie = t.cookie
           /\ u.acked = t.acked /\ u.noAck = t.noAck /\ u.cookieMissing = t.cookieMissing
           /\ u.statusMissing = t.statusMissing
           /\ \A i \in DOMAIN u.early : u.early[i] = e \/ \E j \in DOMAIN t.early : u.early[i] = t.early[j]
           /\ \E i \in DOMAIN u.early : u.early[i] = e
<1>. DEFINE early == Seq(EarlyStatus)
            all == [seq : Frames \cup {0}, cookie : Frames \cup {0}, pending : SUBSET Pending,
                    early : early, acked : Nat, noAck : Nat, statusMissing : Nat, cookieMissing : Nat]
            q == Newest(t.early)
            new == Append(q, e)
<1>1. t \in all /\ t.early \in Seq(EarlyStatus)
  BY DEF Tracker
<1>2. q \in Seq(EarlyStatus) /\ \A i \in 1..Len(q) : \E j \in DOMAIN t.early : q[i] = t.early[j]
  <2>1. CASE Len(t.early) = Cap
    <3>1. q = Tail(t.early) /\ t.early # <<>>
      BY <2>1, TrackerAssumption DEF Newest
    <3>2. /\ q \in Seq(EarlyStatus) /\ Len(q) = Len(t.early) - 1
          /\ \A i \in 1..Len(q) : q[i] = t.early[i + 1] /\ i + 1 \in DOMAIN t.early
      BY <1>1, <3>1
    <3>. QED  BY <3>2
  <2>2. CASE Len(t.early) # Cap
    BY <1>1, <2>2 DEF Newest
  <2>. QED  BY <2>1, <2>2
<1>. HIDE DEF q
<1>3. /\ new \in early /\ \A i \in DOMAIN new : new[i] = e \/ (i \in 1..Len(q) /\ new[i] = q[i])
      /\ Len(q) + 1 \in DOMAIN new /\ new[Len(q) + 1] = e
  BY <1>2
<1>4. u = [t EXCEPT !.early = new]
  BY DEF q, Keeping
<1>. HIDE DEF early, new
<1>5. /\ u \in all /\ u.pending = t.pending /\ u.seq = t.seq /\ u.cookie = t.cookie
      /\ u.acked = t.acked /\ u.noAck = t.noAck /\ u.cookieMissing = t.cookieMissing
      /\ u.statusMissing = t.statusMissing /\ u.early = new
  BY <1>1, <1>3, <1>4
<1>6. u \in Tracker
  BY <1>5 DEF Tracker, early
<1>7. \A i \in DOMAIN u.early : u.early[i] = e \/ \E j \in DOMAIN t.early : u.early[i] = t.early[j]
  BY <1>2, <1>3, <1>5
<1>8. \E i \in DOMAIN u.early : u.early[i] = e
  BY <1>3, <1>5
<1>. QED  BY <1>5, <1>6, <1>7, <1>8, Zenon

\* A status that the tracker reads.
LEMMA ReadStatus ==
    ASSUME TxTypes, Mail, NEW m \in Message, m.k = "status",
           m.cookie \in Frames => m.cookie \in reported /\ ~HasStatus(m.cookie),
           NEW t, Ledger(t), \A w \in t.pending : now - w.at < Timeout,
           NEW u, u = Status(t, m), Noted(m),
           UNCHANGED <<now, call, taken, reported, accepted>>,
           pushedOut' = pushedOut \cup (EarlyOf(t) \ EarlyOf(u))
    PROVE  TxTypes' /\ Ledger(u)' /\ u.cookie = t.cookie
<1>. DEFINE c == m.cookie
<1>1. c \in Frames \cup Foreign /\ m.outcome \in Outcomes
  BY DEF Message
<1>2. t \in Tracker /\ Sending(t) /\ Waiting(t) /\ CameEarly(t) /\ Late(t) /\ Sums(t)
  BY DEF Ledger
<1>3. /\ learnt' \in [Frames -> [outcome : Outcomes, at : Int]]
      /\ \A f \in Frames : f # c => learnt'[f] = learnt[f]
      /\ c \in Frames => learnt'[c] = [outcome |-> m.outcome, at |-> now]
  <2>1. CASE c \in Frames
    BY <1>1, <2>1 DEF Noted, TxTypes
  <2>2. CASE c \notin Frames
    BY <2>2 DEF Noted, TxTypes
  <2>. QED  BY <2>1, <2>2
<1>4. now \in Nat /\ accepted \in [Frames -> Int] /\ Timeout \in Nat
  BY TrackerAssumption DEF TxTypes
<1>5. Ours' = Ours /\ \A f \in Ours : f \in Frames
  BY DEF Ours
<1>6. /\ \A f \in Frames : f # c => (HasStatus(f)' <=> HasStatus(f)) /\ (Timely(f)' <=> Timely(f))
      /\ c \in Frames => HasStatus(c)' /\ (Timely(c)' <=> now - accepted[c] < Timeout)
  BY <1>3, <1>4 DEF HasStatus, Timely
<1>7. \A f \in Frames : f \in pushedOut' /\ f \notin pushedOut =>
        f \in EarlyOf(t) /\ f \notin EarlyOf(u) /\ HasStatus(f) /\ f # c
             /\ (f = call \/ f \notin Ours \/ ~Timely(f))
  <2>. SUFFICES ASSUME NEW f \in Frames, f \in EarlyOf(t)
                PROVE  /\ HasStatus(f) /\ f # c
                       /\ f = call \/ f \notin Ours \/ f \in pushedOut \/ ~Timely(f)
    OBVIOUS
  <2>1. PICK i \in DOMAIN t.early : t.early[i].cookie = f
    BY DEF EarlyOf
  <2>. QED  BY <1>2, <2>1 DEF CameEarly
<1>8. (call # 0 => call \in Frames) /\ \A f \in Ours : f # call
  BY <1>2, <1>5, FramesAre DEF Sending, TxTypes
<1>9. TxTypes'
  <2>1. \A f \in Frames : (HasStatus(f)' => f \in reported')
                         /\ (f \in reported' \cup pushedOut' \cup Ours' => f \in taken')
    BY <1>5, <1>6, <1>7 DEF TxTypes
  <2>2. \A f \in Frames : accepted'[f] <= now' /\ learnt'[f].at <= now'
    BY <1>3, <1>4 DEF TxTypes
  <2>. QED  BY <1>3, <2>1, <2>2 DEF TxTypes
<1>10. CASE Waits(t, c)
  <2>. DEFINE left == {w \in t.pending : w.cookie # c}
              a == [t EXCEPT !.pending = left]
  <2>1. PICK w \in t.pending : w.cookie = c
    BY <1>10 DEF Waits
  <2>2. /\ c \in Frames /\ c \in Ours /\ c \notin pushedOut /\ w.at = accepted[c] /\ ~HasStatus(c)
        /\ now - accepted[c] < Timeout
    BY <1>2, <1>5, <2>1 DEF Waiting
  <2>3. /\ IsFiniteSet(t.pending) /\ \A v \in t.pending : v.cookie = c => v = w
    <3>1. t.pending \in SUBSET Pending
      BY <1>2 DEF Tracker
    <3>. QED  BY <1>2, <2>1, <3>1, PendingFinite, Zenon
  <2>4. left = t.pending \ {w} /\ left \in SUBSET t.pending
    BY <2>1, <2>3
  <2>5. /\ Cardinality(t.pending) \in Nat /\ Cardinality(left) \in Nat
        /\ Cardinality(t.pending) = Cardinality(left) + 1
    <3>1. Cardinality(t.pending \ {w}) = Cardinality(t.pending) - 1
      BY <2>1, <2>3, FS_RemoveElement
    <3>2. Cardinality(t.pending) \in Nat /\ Cardinality(left) \in Nat
      BY <2>3, <2>4, Split
    <3>3. Cardinality(left) = Cardinality(t.pending \ {w})
      BY <2>4, Zenon
    <3>. HIDE DEF left
    <3>. QED  BY <3>1, <3>2, <3>3
  <2>6. u = Record(a, m.outcome)
    BY <1>10 DEF Status
  <2>. HIDE DEF left
  <2>7. /\ a \in Tracker /\ a.pending = left /\ a.early = t.early /\ a.seq = t.seq /\ a.cookie = t.cookie
        /\ a.acked = t.acked /\ a.noAck = t.noAck /\ a.cookieMissing = t.cookieMissing
        /\ a.statusMissing = t.statusMissing
    <3>. DEFINE early == Seq(EarlyStatus)
                all == [seq : Frames \cup {0}, cookie : Frames \cup {0}, pending : SUBSET Pending,
                        early : early, acked : Nat, noAck : Nat, statusMissing : Nat, cookieMissing : Nat]
    <3>1. t \in all /\ left \in SUBSET Pending
      BY <1>2, <2>4 DEF Tracker
    <3>. HIDE DEF early
    <3>2. a \in all
      BY <3>1
    <3>3. /\ a.pending = left /\ a.early = t.early /\ a.seq = t.seq /\ a.cookie = t.cookie
          /\ a.acked = t.acked /\ a.noAck = t.noAck /\ a.cookieMissing = t.cookieMissing
          /\ a.statusMissing = t.statusMissing
      BY <3>1
    <3>. QED  BY <3>2, <3>3 DEF Tracker, early
  <2>. HIDE DEF a
  <2>8. /\ u \in Tracker /\ u.pending = left /\ u.early = t.early
        /\ u.seq = t.seq /\ u.cookie = t.cookie
        /\ u.acked = t.acked + (IF m.outcome = "acked" THEN 1 ELSE 0)
        /\ u.noAck = t.noAck + (IF m.outcome = "noAck" THEN 1 ELSE 0)
        /\ u.cookieMissing = t.cookieMissing /\ u.statusMissing = t.statusMissing
    BY <1>1, <2>6, <2>7, RecordIs
  <2>9. EarlyOf(u) = EarlyOf(t) /\ pushedOut' = pushedOut
    BY <2>8 DEF EarlyOf
  <2>10. Sending(u)'
    BY <1>2, <1>6, <1>8, <2>2, <2>8, <2>9, <1>5 DEF Sending
  <2>11. Waiting(u)'
    BY <1>2, <1>5, <1>6, <2>4, <2>8, <2>9, <2>1, <2>3 DEF Waiting
  <2>12. CameEarly(u)'
    BY <1>2, <1>3, <1>5, <1>6, <2>2, <2>8, <2>9 DEF CameEarly
  <2>13. Late(u)'
    <3>. SUFFICES ASSUME NEW f \in Ours, f \notin PendingOf(u), f \notin pushedOut, ~HasStatus(f)'
                  PROVE  now - accepted[f] >= Timeout
      BY <1>5, <2>9 DEF Late, PendingOf
    <3>1. f \in Frames /\ f # c /\ ~HasStatus(f)
      BY <1>5, <1>6
    <3>2. f \notin PendingOf(t)
      BY <2>4, <2>1, <2>8, <3>1 DEF PendingOf
    <3>. QED  BY <1>2, <3>1, <3>2 DEF Late
  <2>14. Sums(u)'
    <3>1. \A outcome \in Outcomes :
            Counted(outcome)' = IF outcome = m.outcome THEN Counted(outcome) \cup {c} ELSE Counted(outcome)
      <4>1. /\ \A f \in Frames : f # c => (learnt'[f].outcome = learnt[f].outcome)
            /\ learnt'[c].outcome = m.outcome
        BY <1>3, <2>2
      <4>2. Timely(c)' /\ HasStatus(c)'
        BY <1>6, <2>2
      <4>. QED  BY <1>5, <1>6, <2>2, <2>9, <4>1, <4>2 DEF Counted
    <3>2. \A outcome \in Outcomes : c \notin Counted(outcome)
      BY <2>2 DEF Counted
    <3>3. \A outcome \in Outcomes : Counted(outcome) \in SUBSET Frames
      BY <1>5 DEF Counted
    <3>4. \A outcome \in Outcomes :
            /\ Cardinality(Counted(outcome)) \in Nat
            /\ Cardinality(Counted(outcome) \cup {c}) = Cardinality(Counted(outcome)) + 1
      BY <2>2, <3>2, <3>3, OfFrames
    <3>5. \A outcome \in Outcomes :
            Cardinality(Counted(outcome)') = Cardinality(Counted(outcome)) + (IF outcome = m.outcome THEN 1 ELSE 0)
      <4>. SUFFICES ASSUME NEW outcome \in Outcomes
                    PROVE  Cardinality(Counted(outcome)')
                             = Cardinality(Counted(outcome)) + (IF outcome = m.outcome THEN 1 ELSE 0)
        OBVIOUS
      <4>1. CASE outcome = m.outcome
        <5>1. Cardinality(Counted(outcome)') = Cardinality(Counted(outcome) \cup {c})
          BY <3>1, <4>1, Zenon
        <5>. QED  BY <3>4, <4>1, <5>1
      <4>2. CASE outcome # m.outcome
        <5>1. Cardinality(Counted(outcome)') = Cardinality(Counted(outcome))
          BY <3>1, <4>2, Zenon
        <5>2. Cardinality(Counted(outcome)) \in Nat
          BY <3>4, Zenon
        <5>. QED  BY <4>2, <5>1, <5>2
      <4>. QED  BY <4>1, <4>2
    <3>6. /\ Cardinality(Counted("acked")') = Cardinality(Counted("acked")) + (IF m.outcome = "acked" THEN 1 ELSE 0)
          /\ Cardinality(Counted("noAck")') = Cardinality(Counted("noAck")) + (IF m.outcome = "noAck" THEN 1 ELSE 0)
          /\ m.outcome = "acked" \/ m.outcome = "noAck"
      BY <1>1, <3>5 DEF Outcomes
    <3>7. u.acked = Cardinality(Counted("acked")') /\ u.noAck = Cardinality(Counted("noAck")')
      BY <1>2, <2>8, <3>6 DEF Sums
    <3>8. Cardinality(Ours') = u.acked + u.noAck + u.statusMissing + u.cookieMissing + Cardinality(u.pending)
      <4>1. Cardinality(Ours') = Cardinality(Ours) /\ Cardinality(u.pending) = Cardinality(left)
        BY <1>5, <2>8, Zenon
      <4>2. t.acked \in Nat /\ t.noAck \in Nat /\ t.statusMissing \in Nat /\ t.cookieMissing \in Nat
        BY <1>2 DEF Tracker
      <4>. QED  BY <1>2, <2>5, <2>8, <3>6, <4>1, <4>2 DEF Sums
    <3>. QED  BY <3>7, <3>8 DEF Sums
  <2>. QED  BY <1>9, <2>8, <2>10, <2>11, <2>12, <2>13, <2>14 DEF Ledger
<1>11. CASE ~Waits(t, c)
  <2>1. /\ u \in Tracker /\ u.pending = t.pending /\ u.seq = t.seq /\ u.cookie = t.cookie
        /\ u.acked = t.acked /\ u.noAck = t.noAck /\ u.cookieMissing = t.cookieMissing
        /\ u.statusMissing = t.statusMissing
        /\ \A i \in DOMAIN u.early :
              \/ /\ t.seq # 0 /\ u.early[i].cookie = c /\ u.early[i].outcome = m.outcome
              \/ \E j \in DOMAIN t.early : u.early[i] = t.early[j]
        /\ t.seq # 0 => c \in EarlyOf(u)
        /\ t.seq = 0 => u.early = t.early
    <3>1. CASE t.seq = 0
      BY <1>2, <1>11, <3>1 DEF Status
    <3>2. CASE t.seq # 0
      <4>. DEFINE e == [cookie |-> c, outcome |-> m.outcome]
      <4>1. u = Keeping(t, e)
        BY <1>11, <3>2 DEF Status, Keeping
      <4>2. e \in EarlyStatus /\ e.cookie = c /\ e.outcome = m.outcome
        BY <1>1 DEF EarlyStatus
      <4>. HIDE DEF e
      <4>3. /\ u \in Tracker /\ u.pending = t.pending /\ u.seq = t.seq /\ u.cookie = t.cookie
            /\ u.acked = t.acked /\ u.noAck = t.noAck /\ u.cookieMissing = t.cookieMissing
            /\ u.statusMissing = t.statusMissing
            /\ \A i \in DOMAIN u.early : u.early[i] = e \/ \E j \in DOMAIN t.early : u.early[i] = t.early[j]
            /\ \E i \in DOMAIN u.early : u.early[i] = e
        BY <1>2, <4>1, <4>2, EarlyIs
      <4>4. c \in EarlyOf(u)
        BY <4>2, <4>3 DEF EarlyOf
      <4>. QED  BY <3>2, <4>2, <4>3, <4>4
    <3>. QED  BY <3>1, <3>2
  <2>2. \A d \in EarlyOf(u) : d = c \/ d \in EarlyOf(t)
    BY <2>1 DEF EarlyOf
  <2>3. c \in Frames /\ c \in Ours /\ c \notin pushedOut' => ~Timely(c)'
    <3>. SUFFICES ASSUME c \in Frames, c \in Ours, c \notin pushedOut'
                  PROVE  ~Timely(c)'
      OBVIOUS
    <3>1. c \notin PendingOf(t) /\ ~HasStatus(c) /\ c \notin pushedOut
      BY <1>11 DEF PendingOf, Waits
    <3>2. now - accepted[c] >= Timeout
      BY <1>2, <3>1 DEF Late
    <3>. QED  BY <1>4, <1>6, <3>2
  <2>4. Sending(u)'
    BY <1>2, <1>5, <1>6, <1>7, <1>8, <2>1, <2>2 DEF Sending
  <2>5. Waiting(u)'
    <3>. SUFFICES ASSUME NEW w \in t.pending
                  PROVE  /\ w.cookie \in Ours /\ w.at = accepted[w.cookie]
                         /\ HasStatus(w.cookie)' <=> w.cookie \in pushedOut'
      BY <1>5, <2>1 DEF Waiting
    <3>1. /\ w.cookie \in Ours /\ w.cookie \in Frames /\ w.at = accepted[w.cookie]
          /\ HasStatus(w.cookie) <=> w.cookie \in pushedOut
      BY <1>2, <1>5 DEF Waiting
    <3>2. w.cookie # c
      BY <1>11 DEF Waits
    <3>. QED  BY <1>6, <1>7, <3>1, <3>2
  <2>6. CameEarly(u)'
    <3>. SUFFICES ASSUME NEW i \in DOMAIN u.early, u.early[i].cookie \in Frames
                  PROVE  /\ HasStatus(u.early[i].cookie)'
                         /\ learnt'[u.early[i].cookie].outcome = u.early[i].outcome
                         /\ \/ u.early[i].cookie = call \/ u.early[i].cookie \notin Ours
                            \/ u.early[i].cookie \in pushedOut' \/ ~Timely(u.early[i].cookie)'
      BY <1>5 DEF CameEarly
    <3>1. CASE u.early[i].cookie = c /\ u.early[i].outcome = m.outcome
      BY <1>3, <1>6, <2>3, <3>1
    <3>2. CASE \E j \in DOMAIN t.early : u.early[i] = t.early[j]
      BY <1>2, <1>3, <1>6, <3>2 DEF CameEarly
    <3>. QED  BY <2>1, <3>1, <3>2
  <2>7. Late(u)'
    <3>. SUFFICES ASSUME NEW f \in Ours, f \notin PendingOf(u), f \notin pushedOut', ~HasStatus(f)'
                  PROVE  now - accepted[f] >= Timeout
      BY <1>5 DEF Late, PendingOf
    <3>1. f \in Frames /\ f # c /\ ~HasStatus(f) /\ f \notin PendingOf(t) /\ f \notin pushedOut
      BY <1>5, <1>6, <2>1 DEF PendingOf
    <3>. QED  BY <1>2, <3>1 DEF Late
  <2>8. Sums(u)'
    <3>1. \A outcome \in Outcomes : Counted(outcome)' = Counted(outcome)
      <4>. SUFFICES ASSUME NEW outcome \in Outcomes, NEW f \in Ours
                    PROVE  f \in Counted(outcome)' <=> f \in Counted(outcome)
        BY <1>5 DEF Counted
      <4>1. CASE f = c
        BY <1>5, <1>6, <2>3, <4>1 DEF Counted
      <4>2. CASE f # c
        <5>1. learnt'[f] = learnt[f]
          BY <1>3, <1>5, <4>2
        <5>. QED  BY <1>5, <1>6, <1>7, <1>8, <4>2, <5>1 DEF Counted
      <4>. QED  BY <4>1, <4>2
    <3>2. "acked" \in Outcomes /\ "noAck" \in Outcomes
      BY DEF Outcomes
    <3>3. /\ Cardinality(Counted("acked")') = Cardinality(Counted("acked"))
          /\ Cardinality(Counted("noAck")') = Cardinality(Counted("noAck"))
          /\ Cardinality(Ours') = Cardinality(Ours)
      BY <1>5, <3>1, <3>2, Zenon
    <3>. QED  BY <1>2, <2>1, <3>3 DEF Sums
  <2>. QED  BY <1>9, <2>1, <2>4, <2>5, <2>6, <2>7, <2>8 DEF Ledger
<1>. HIDE DEF c
<1>. QED  BY <1>10, <1>11

\* The account is of what is sent, accepted and learnt, and of the time.
LEMMA SameLedger ==
    ASSUME NEW t, Ledger(t), UNCHANGED <<now, call, taken, accepted, learnt, pushedOut>>
    PROVE  Ledger(t)'
<1>1. /\ Ours' = Ours /\ Counted("acked")' = Counted("acked") /\ Counted("noAck")' = Counted("noAck")
  BY DEF Ours, Counted, HasStatus, Timely
<1>2. /\ Cardinality(Ours') = Cardinality(Ours)
      /\ Cardinality(Counted("acked")') = Cardinality(Counted("acked"))
      /\ Cardinality(Counted("noAck")') = Cardinality(Counted("noAck"))
  BY <1>1, Zenon
<1>3. Sums(t)'
  BY <1>2 DEF Ledger, Sums
<1>4. Sending(t)' /\ Waiting(t)'
  BY <1>1 DEF Ledger, Sending, Waiting, HasStatus, EarlyOf
<1>5. CameEarly(t)' /\ Late(t)'
  BY <1>1 DEF Ledger, CameEarly, Late, HasStatus, Timely, PendingOf
<1>. QED  BY <1>3, <1>4, <1>5 DEF Ledger

\* The cookie of the request that is under way.
LEMMA CookieStep ==
    ASSUME TxTypes, NEW t, Ledger(t), NEW m \in Message, m.k = "cookie", m.cookie = m.seq,
           NEW u, u = IF t.seq = m.seq THEN [t EXCEPT !.cookie = m.cookie] ELSE t
    PROVE  /\ Ledger(u) /\ u.early = t.early
           /\ u.cookie = t.cookie \/ u.cookie = call
           /\ m.seq = call => u.cookie = call
<1>1. m.seq \in Frames /\ m.cookie \in Frames /\ m.seq # 0
  BY FramesAre DEF Message
<1>2. t \in Tracker /\ Sending(t) /\ Waiting(t) /\ CameEarly(t) /\ Late(t) /\ Sums(t)
  BY DEF Ledger
<1>3. CASE t.seq # m.seq
  BY <1>1, <1>2, <1>3 DEF Sending
<1>4. CASE t.seq = m.seq
  <2>1. call = m.seq /\ call # 0
    BY <1>1, <1>2, <1>4 DEF Sending
  <2>. DEFINE early == Seq(EarlyStatus)
              all == [seq : Frames \cup {0}, cookie : Frames \cup {0}, pending : SUBSET Pending,
                      early : early, acked : Nat, noAck : Nat, statusMissing : Nat, cookieMissing : Nat]
  <2>2. t \in all
    BY <1>2 DEF Tracker
  <2>. HIDE DEF early
  <2>3. u \in all
    BY <1>1, <1>4, <2>2
  <2>4. /\ u.pending = t.pending /\ u.early = t.early /\ u.seq = t.seq /\ u.cookie = call
        /\ u.acked = t.acked /\ u.noAck = t.noAck /\ u.cookieMissing = t.cookieMissing
        /\ u.statusMissing = t.statusMissing
    BY <1>4, <2>1, <2>2
  <2>5. Sending(u) /\ Waiting(u) /\ CameEarly(u)
    BY <1>2, <2>1, <2>4 DEF Sending, Waiting, CameEarly, EarlyOf
  <2>6. Late(u) /\ Sums(u)
    BY <1>2, <2>4 DEF Late, Sums, PendingOf
  <2>. QED  BY <2>1, <2>3, <2>4, <2>5, <2>6 DEF Ledger, Tracker, early
<1>. QED  BY <1>3, <1>4

\* A request that failed: nothing becomes of its frame.
LEMMA FailStep ==
    ASSUME TxTypes, NEW t, Ledger(t), call # 0, NEW u, u = Closed(t),
           accepted' = [accepted EXCEPT ![call] = -1], call' = 0,
           pushedOut' = pushedOut \cup (PendingOf(t) \ PendingOf(u)),
           UNCHANGED <<now, taken, reported, learnt>>
    PROVE  TxTypes' /\ Ledger(u)'
<1>. DEFINE c == call
<1>1. t \in Tracker /\ Sending(t) /\ Waiting(t) /\ CameEarly(t) /\ Late(t) /\ Sums(t)
  BY DEF Ledger
<1>2. /\ u \in Tracker /\ u.pending = t.pending /\ u.early = <<>>
      /\ u.seq = 0 /\ u.cookie = 0
      /\ u.acked = t.acked /\ u.noAck = t.noAck /\ u.cookieMissing = t.cookieMissing
      /\ u.statusMissing = t.statusMissing
  BY <1>1, ClosedIs
<1>3. c \in Frames /\ c \in taken /\ c \notin Ours
  BY <1>1 DEF Sending, TxTypes
<1>4. /\ accepted' \in [Frames -> Int] /\ accepted'[c] = -1
      /\ \A f \in Frames : f # c => accepted'[f] = accepted[f]
  BY <1>3 DEF TxTypes
<1>5. pushedOut' = pushedOut
  BY <1>2 DEF PendingOf
<1>6. Ours' = Ours /\ \A f \in Ours : f \in Frames /\ f # c /\ accepted'[f] = accepted[f]
  BY <1>3, <1>4 DEF Ours, TxTypes
<1>7. TxTypes'
  <2>1. \A f \in Frames : (HasStatus(f)' => f \in reported')
                         /\ (f \in reported' \cup pushedOut' \cup Ours' => f \in taken')
    BY <1>5, <1>6 DEF TxTypes, HasStatus
  <2>2. \A f \in Frames : accepted'[f] <= now' /\ learnt'[f].at <= now'
    BY <1>3, <1>4 DEF TxTypes
  <2>. QED  BY <1>4, <2>1, <2>2 DEF TxTypes
<1>. HIDE DEF c
<1>8. Sending(u)' /\ CameEarly(u)'
  BY <1>2 DEF Sending, CameEarly
<1>9. Waiting(u)' /\ Late(u)'
  BY <1>1, <1>2, <1>5, <1>6 DEF Waiting, Late, PendingOf, HasStatus
<1>10. Sums(u)'
  <2>1. \A outcome \in Outcomes : Counted(outcome)' = Counted(outcome)
    BY <1>5, <1>6 DEF Counted, HasStatus, Timely
  <2>2. "acked" \in Outcomes /\ "noAck" \in Outcomes
    BY DEF Outcomes
  <2>3. /\ Cardinality(Counted("acked")') = Cardinality(Counted("acked"))
        /\ Cardinality(Counted("noAck")') = Cardinality(Counted("noAck"))
        /\ Cardinality(Ours') = Cardinality(Ours)
    BY <1>6, <2>1, <2>2, Zenon
  <2>. QED  BY <1>1, <1>2, <2>3 DEF Sums
<1>. QED  BY <1>2, <1>7, <1>8, <1>9, <1>10 DEF Ledger

\* A request that was accepted, of a frame whose status did not come yet.
LEMMA QueueStep ==
    ASSUME TxTypes, NEW t, Ledger(t), call # 0, t.cookie = call, call \notin EarlyOf(t),
           NEW u, u = Queue(t),
           accepted' = [accepted EXCEPT ![call] = now], call' = 0,
           pushedOut' = pushedOut \cup (PendingOf(t) \ PendingOf(u)),
           UNCHANGED <<now, taken, reported, learnt>>
    PROVE  TxTypes' /\ Ledger(u)'
<1>a. PICK c : c = call
  OBVIOUS
<1>b. PICK new : new = [cookie |-> c, at |-> now]
  OBVIOUS
<1>. DEFINE keep == Roomy(t.pending)
            v == Closed(t)
            w == Missing(v, keep)
<1>1. t \in Tracker /\ Sending(t) /\ Waiting(t) /\ CameEarly(t) /\ Late(t) /\ Sums(t)
  BY DEF Ledger
<1>2. /\ v \in Tracker /\ v.pending = t.pending /\ v.early = <<>>
      /\ v.seq = 0 /\ v.cookie = 0
      /\ v.acked = t.acked /\ v.noAck = t.noAck /\ v.cookieMissing = t.cookieMissing
      /\ v.statusMissing = t.statusMissing
  <2>. HIDE DEF v
  <2>. QED  BY <1>1, ClosedIs DEF v
<1>3. keep \in SUBSET t.pending
  BY DEF Roomy
<1>4. t.pending \in SUBSET Pending /\ IsFiniteSet(t.pending)
  <2>1. t.pending \in SUBSET Pending
    BY <1>1 DEF Tracker
  <2>. QED  BY <1>1, <2>1, PendingFinite, Zenon
<1>5. c \in Frames /\ c \in taken /\ c \notin Ours /\ (HasStatus(c) <=> c \in pushedOut)
  BY <1>a, <1>1 DEF Sending, TxTypes
<1>6. new \in Pending /\ new.cookie = c /\ new.at = now
  BY <1>b, <1>5 DEF Pending, TxTypes
<1>. HIDE DEF keep, v
<1>7. /\ w \in Tracker /\ w.pending = keep /\ w.early = <<>>
      /\ w.seq = 0 /\ w.cookie = 0
      /\ w.acked = t.acked /\ w.noAck = t.noAck /\ w.cookieMissing = t.cookieMissing
      /\ w.statusMissing + Cardinality(keep) = t.statusMissing + Cardinality(t.pending)
  <2>. HIDE DEF w
  <2>1. IsFiniteSet(v.pending) /\ keep \in SUBSET v.pending
    BY <1>2, <1>3, <1>4
  <2>. QED  BY <1>2, <2>1, MissingIs DEF w
<1>8. u = [w EXCEPT !.pending = @ \cup {new}]
  BY <1>a, <1>b DEF Queue, keep, v
<1>. HIDE DEF w
<1>9. /\ u \in Tracker /\ u.pending = keep \cup {new} /\ u.early = <<>>
      /\ u.seq = 0 /\ u.cookie = 0
      /\ u.acked = t.acked /\ u.noAck = t.noAck /\ u.cookieMissing = t.cookieMissing
      /\ u.statusMissing = w.statusMissing
  <2>. DEFINE early == Seq(EarlyStatus)
              all == [seq : Frames \cup {0}, cookie : Frames \cup {0}, pending : SUBSET Pending,
                      early : early, acked : Nat, noAck : Nat, statusMissing : Nat, cookieMissing : Nat]
              both == keep \cup {new}
  <2>1. w \in all /\ both \in SUBSET Pending
    BY <1>3, <1>4, <1>6, <1>7 DEF Tracker
  <2>2. u = [w EXCEPT !.pending = both]
    BY <1>7, <1>8
  <2>. HIDE DEF early, both
  <2>3. /\ u \in all /\ u.pending = both /\ u.early = w.early
        /\ u.seq = w.seq /\ u.cookie = w.cookie
        /\ u.acked = w.acked /\ u.noAck = w.noAck /\ u.cookieMissing = w.cookieMissing
        /\ u.statusMissing = w.statusMissing
    BY <2>1, <2>2
  <2>. QED  BY <1>7, <2>3 DEF Tracker, early, both
<1>10. \A x \in t.pending :
         /\ x.cookie \in Ours /\ x.cookie \in Frames /\ x.cookie # c
         /\ x.at = accepted[x.cookie]
         /\ HasStatus(x.cookie) <=> x.cookie \in pushedOut
  BY <1>1, <1>5 DEF Waiting, Ours
<1>11. /\ accepted' \in [Frames -> Int] /\ accepted'[c] = now /\ now \in Nat
       /\ \A f \in Frames : f # c => accepted'[f] = accepted[f]
  BY <1>a, <1>5 DEF TxTypes
<1>12. /\ Ours' = Ours \cup {c}
       /\ \A f \in Ours : f \in Frames /\ f # c /\ accepted'[f] = accepted[f]
  BY <1>5, <1>11 DEF Ours
<1>13. \A f \in Frames : (f \in PendingOf(u) <=> f = c \/ \E x \in keep : x.cookie = f)
  BY <1>6, <1>9 DEF PendingOf
<1>14. \A f \in Frames : f \in pushedOut' /\ f \notin pushedOut =>
         f \in Ours /\ ~HasStatus(f) /\ f # c /\ f \notin PendingOf(u)
  BY <1>10 DEF PendingOf
<1>15. pushedOut \subseteq pushedOut'
  OBVIOUS
<1>16. TxTypes'
  <2>1. \A f \in Frames : (HasStatus(f)' => f \in reported')
                         /\ (f \in reported' \cup pushedOut' \cup Ours' => f \in taken')
    BY <1>5, <1>12, <1>14 DEF TxTypes, HasStatus
  <2>2. \A f \in Frames : accepted'[f] <= now' /\ learnt'[f].at <= now'
    BY <1>5, <1>11 DEF TxTypes
  <2>. QED  BY <1>11, <2>1, <2>2 DEF TxTypes
<1>17. Sending(u)' /\ CameEarly(u)'
  BY <1>9 DEF Sending, CameEarly
<1>18. Waiting(u)'
  <2>1. \A x \in keep : x.cookie \in pushedOut' => x.cookie \in pushedOut
    BY <1>3, <1>10, <1>13, <1>14
  <2>2. \A x \in keep :
          /\ x.cookie \in Ours' /\ x.at = accepted'[x.cookie]
          /\ HasStatus(x.cookie)' <=> x.cookie \in pushedOut'
    BY <1>3, <1>10, <1>12, <1>15, <2>1 DEF HasStatus
  <2>3. /\ new.cookie \in Ours' /\ new.at = accepted'[new.cookie]
        /\ HasStatus(new.cookie)' <=> new.cookie \in pushedOut'
    BY <1>5, <1>6, <1>11, <1>12, <1>14 DEF HasStatus
  <2>. QED  BY <1>9, <2>2, <2>3 DEF Waiting
<1>19. Late(u)'
  <2>. SUFFICES ASSUME NEW f \in Ours', f \notin PendingOf(u), f \notin pushedOut', ~HasStatus(f)
                PROVE  now - accepted'[f] >= Timeout
    BY DEF Late, HasStatus, PendingOf
  <2>1. f \in Ours /\ f \in Frames /\ f # c
    BY <1>5, <1>12, <1>13
  <2>2. f \notin PendingOf(t)
    BY <2>1
  <2>. QED  BY <1>1, <1>12, <1>15, <2>1, <2>2 DEF Late
<1>20. Sums(u)'
  <2>1. \A outcome \in Outcomes : Counted(outcome)' = Counted(outcome)
    <3>. SUFFICES ASSUME NEW outcome \in Outcomes, NEW f \in Frames
                  PROVE  f \in Counted(outcome)' <=> f \in Counted(outcome)
      BY <1>5, <1>12 DEF Counted
    <3>1. CASE f = c
      BY <1>5, <1>12, <1>15, <3>1 DEF Counted, HasStatus
    <3>2. CASE f # c
      <4>1. (Timely(f)' <=> Timely(f)) /\ (HasStatus(f)' <=> HasStatus(f))
        BY <1>11, <3>2 DEF Timely, HasStatus
      <4>. QED  BY <1>12, <1>14, <1>15, <3>2, <4>1 DEF Counted
    <3>. QED  BY <3>1, <3>2
  <2>2. "acked" \in Outcomes /\ "noAck" \in Outcomes
    BY DEF Outcomes
  <2>3. /\ Cardinality(Counted("acked")') = Cardinality(Counted("acked"))
        /\ Cardinality(Counted("noAck")') = Cardinality(Counted("noAck"))
    BY <2>1, <2>2, Zenon
  <2>4. Cardinality(Ours') = Cardinality(Ours) + 1 /\ Cardinality(Ours) \in Nat
    <3>1. Ours \in SUBSET Frames
      BY DEF Ours
    <3>2. Cardinality(Ours \cup {c}) = Cardinality(Ours) + 1 /\ Cardinality(Ours) \in Nat
      BY <1>5, <3>1, OfFrames
    <3>3. Cardinality(Ours') = Cardinality(Ours \cup {c})
      BY <1>12, Zenon
    <3>. QED  BY <3>2, <3>3
  <2>5. Cardinality(u.pending) = Cardinality(keep) + 1 /\ Cardinality(keep) \in Nat
    <3>1. IsFiniteSet(keep) /\ new \notin keep
      BY <1>3, <1>4, <1>6, <1>10, FS_Subset
    <3>2. Cardinality(keep) \in Nat
      BY <3>1, FS_CardinalityType
    <3>3. Cardinality(keep \cup {new}) = IF new \in keep THEN Cardinality(keep) ELSE Cardinality(keep) + 1
      BY <3>1, FS_AddElement, Zenon
    <3>4. Cardinality(u.pending) = Cardinality(keep \cup {new})
      BY <1>9, Zenon
    <3>. QED  BY <3>1, <3>2, <3>3, <3>4
  <2>6. /\ t.acked \in Nat /\ t.noAck \in Nat /\ t.statusMissing \in Nat /\ t.cookieMissing \in Nat
        /\ w.statusMissing \in Nat /\ Cardinality(t.pending) \in Nat
    <3>1. Cardinality(t.pending) \in Nat
      BY <1>4, FS_CardinalityType
    <3>. QED  BY <1>1, <1>7, <3>1 DEF Tracker
  <2>7. u.acked = Cardinality(Counted("acked")') /\ u.noAck = Cardinality(Counted("noAck")')
    BY <1>1, <1>9, <2>3 DEF Sums
  <2>8. Cardinality(Ours') = u.acked + u.noAck + u.statusMissing + u.cookieMissing + Cardinality(u.pending)
    <3>1. Cardinality(Ours) = t.acked + t.noAck + t.statusMissing + t.cookieMissing + Cardinality(t.pending)
      BY <1>1 DEF Sums
    <3>2. /\ u.acked = t.acked /\ u.noAck = t.noAck /\ u.cookieMissing = t.cookieMissing
          /\ u.statusMissing = w.statusMissing
          /\ w.statusMissing + Cardinality(keep) = t.statusMissing + Cardinality(t.pending)
      BY <1>7, <1>9
    <3>. QED  BY <2>4, <2>5, <2>6, <3>1, <3>2
  <2>. QED  BY <2>7, <2>8 DEF Sums
<1>. QED  BY <1>9, <1>16, <1>17, <1>18, <1>19, <1>20 DEF Ledger

\* A request that was accepted, of a frame whose status is known.
LEMMA RecordStep ==
    ASSUME TxTypes, NEW t, Ledger(t), call # 0, call \in EarlyOf(t), NEW outcome \in Outcomes,
           outcome = learnt[call].outcome, NEW u, u = Record(Closed(t), outcome),
           accepted' = [accepted EXCEPT ![call] = now], call' = 0,
           pushedOut' = pushedOut \cup (PendingOf(t) \ PendingOf(u)),
           UNCHANGED <<now, taken, reported, learnt>>
    PROVE  TxTypes' /\ Ledger(u)'
<1>a. PICK c : c = call
  OBVIOUS
<1>. DEFINE v == Closed(t)
<1>1. t \in Tracker /\ Sending(t) /\ Waiting(t) /\ CameEarly(t) /\ Late(t) /\ Sums(t)
  BY DEF Ledger
<1>2. /\ v \in Tracker /\ v.pending = t.pending /\ v.early = <<>>
      /\ v.seq = 0 /\ v.cookie = 0
      /\ v.acked = t.acked /\ v.noAck = t.noAck /\ v.cookieMissing = t.cookieMissing
      /\ v.statusMissing = t.statusMissing
  <2>. HIDE DEF v
  <2>. QED  BY <1>1, ClosedIs DEF v
<1>. HIDE DEF v
<1>3. /\ u \in Tracker /\ u.pending = t.pending /\ u.early = <<>>
      /\ u.seq = 0 /\ u.cookie = 0
      /\ u.acked = t.acked + (IF outcome = "acked" THEN 1 ELSE 0)
      /\ u.noAck = t.noAck + (IF outcome = "noAck" THEN 1 ELSE 0)
      /\ u.cookieMissing = t.cookieMissing /\ u.statusMissing = t.statusMissing
  <2>1. u = Record(v, outcome)
    BY DEF v
  <2>. QED  BY <1>2, <2>1, RecordIs
<1>4. c \in Frames /\ c \in taken /\ c \notin Ours /\ HasStatus(c) /\ c \notin pushedOut
  BY <1>a, <1>1 DEF Sending, TxTypes
<1>5. /\ accepted' \in [Frames -> Int] /\ accepted'[c] = now /\ now \in Nat
      /\ \A f \in Frames : f # c => accepted'[f] = accepted[f]
  BY <1>a, <1>4 DEF TxTypes
<1>6. /\ Ours' = Ours \cup {c}
      /\ \A f \in Ours : f \in Frames /\ f # c /\ accepted'[f] = accepted[f]
  BY <1>4, <1>5 DEF Ours
<1>7. pushedOut' = pushedOut
  BY <1>3 DEF PendingOf
<1>8. TxTypes'
  <2>1. \A f \in Frames : (HasStatus(f)' => f \in reported')
                         /\ (f \in reported' \cup pushedOut' \cup Ours' => f \in taken')
    BY <1>4, <1>6, <1>7 DEF TxTypes, HasStatus
  <2>2. \A f \in Frames : accepted'[f] <= now' /\ learnt'[f].at <= now'
    BY <1>4, <1>5 DEF TxTypes
  <2>. QED  BY <1>5, <2>1, <2>2 DEF TxTypes
<1>9. Sending(u)' /\ CameEarly(u)'
  BY <1>3 DEF Sending, CameEarly
<1>10. Waiting(u)'
  BY <1>1, <1>3, <1>6, <1>7 DEF Waiting, HasStatus
<1>11. Late(u)'
  BY <1>1, <1>3, <1>4, <1>6, <1>7 DEF Late, HasStatus, PendingOf
<1>12. Sums(u)'
  <2>1. HasStatus(c)' /\ Timely(c)' /\ learnt'[c].outcome = outcome
    <3>1. learnt[c].at \in Int /\ learnt[c].at <= now /\ Timeout > 0 /\ Timeout \in Int
      BY <1>4, TrackerAssumption DEF TxTypes
    <3>. QED  BY <1>a, <1>4, <1>5, <3>1 DEF HasStatus, Timely
  <2>2. \A o \in Outcomes : Counted(o)' = IF o = outcome THEN Counted(o) \cup {c} ELSE Counted(o)
    <3>1. \A f \in Frames : f # c => (Timely(f)' <=> Timely(f)) /\ (HasStatus(f)' <=> HasStatus(f))
      BY <1>5 DEF Timely, HasStatus
    <3>. QED  BY <1>4, <1>6, <1>7, <2>1, <3>1 DEF Counted
  <2>3. \A o \in Outcomes :
          /\ Cardinality(Counted(o)) \in Nat
          /\ Cardinality(Counted(o) \cup {c}) = Cardinality(Counted(o)) + 1
    <3>1. \A o \in Outcomes : Counted(o) \in SUBSET Frames /\ c \notin Counted(o)
      BY <1>4, <1>6 DEF Counted
    <3>. QED  BY <1>4, <3>1, OfFrames
  <2>4. \A o \in Outcomes :
          Cardinality(Counted(o)') = Cardinality(Counted(o)) + (IF o = outcome THEN 1 ELSE 0)
    <3>. SUFFICES ASSUME NEW o \in Outcomes
                  PROVE  Cardinality(Counted(o)') = Cardinality(Counted(o)) + (IF o = outcome THEN 1 ELSE 0)
      OBVIOUS
    <3>1. CASE o = outcome
      <4>1. Cardinality(Counted(o)') = Cardinality(Counted(o) \cup {c})
        BY <2>2, <3>1, Zenon
      <4>. QED  BY <2>3, <3>1, <4>1
    <3>2. CASE o # outcome
      <4>1. Cardinality(Counted(o)') = Cardinality(Counted(o))
        BY <2>2, <3>2, Zenon
      <4>2. Cardinality(Counted(o)) \in Nat
        BY <2>3, Zenon
      <4>. QED  BY <3>2, <4>1, <4>2
    <3>. QED  BY <3>1, <3>2
  <2>5. /\ Cardinality(Counted("acked")') = Cardinality(Counted("acked")) + (IF outcome = "acked" THEN 1 ELSE 0)
        /\ Cardinality(Counted("noAck")') = Cardinality(Counted("noAck")) + (IF outcome = "noAck" THEN 1 ELSE 0)
        /\ outcome = "acked" \/ outcome = "noAck"
    BY <2>4 DEF Outcomes
  <2>6. u.acked = Cardinality(Counted("acked")') /\ u.noAck = Cardinality(Counted("noAck")')
    BY <1>1, <1>3, <2>5 DEF Sums
  <2>7. Cardinality(Ours') = Cardinality(Ours) + 1 /\ Cardinality(Ours) \in Nat
    <3>1. Ours \in SUBSET Frames
      BY DEF Ours
    <3>2. Cardinality(Ours \cup {c}) = Cardinality(Ours) + 1 /\ Cardinality(Ours) \in Nat
      BY <1>4, <3>1, OfFrames
    <3>3. Cardinality(Ours') = Cardinality(Ours \cup {c})
      BY <1>6, Zenon
    <3>. QED  BY <3>2, <3>3
  <2>8. Cardinality(Ours') = u.acked + u.noAck + u.statusMissing + u.cookieMissing + Cardinality(u.pending)
    <3>1. Cardinality(Ours) = t.acked + t.noAck + t.statusMissing + t.cookieMissing + Cardinality(t.pending)
      BY <1>1 DEF Sums
    <3>2. /\ t.acked \in Nat /\ t.noAck \in Nat /\ t.statusMissing \in Nat /\ t.cookieMissing \in Nat
          /\ t.pending \in SUBSET Pending
      BY <1>1 DEF Tracker
    <3>3. Cardinality(t.pending) \in Nat
      BY <1>1, <3>2, PendingFinite, FS_CardinalityType
    <3>4. Cardinality(u.pending) = Cardinality(t.pending)
      BY <1>3, Zenon
    <3>5. u.acked + u.noAck = t.acked + t.noAck + 1
      BY <1>3, <2>5, <3>2
    <3>6. u.statusMissing = t.statusMissing /\ u.cookieMissing = t.cookieMissing
      BY <1>3, Zenon
    <3>7. u.acked \in Nat /\ u.noAck \in Nat
      BY <1>3, <3>2
    <3>. QED  BY <2>7, <3>1, <3>2, <3>3, <3>4, <3>5, <3>6, <3>7
  <2>. QED  BY <2>6, <2>8 DEF Sums
<1>. QED  BY <1>3, <1>8, <1>9, <1>10, <1>11, <1>12 DEF Ledger

LEMMA TwoSeqs ==
    ASSUME NEW S, NEW p \in Seq(S), NEW q \in Seq(S)
    PROVE  /\ p \o q \in Seq(S) /\ Len(p \o q) = Len(p) + Len(q)
           /\ \A i \in 1..Len(p) : (p \o q)[i] = p[i]
           /\ \A i \in 1..Len(q) : (p \o q)[Len(p) + i] = q[i]
OBVIOUS

\* What is put into the socket, as far as there is room.
LEMMA PutIs ==
    ASSUME socket \in Seq(Message), Len(socket) <= Room, NEW ms \in Seq(Message), Put(ms)
    PROVE  \E n \in 0..Len(ms) :
              /\ socket' \in Seq(Message) /\ Len(socket') = Len(socket) + n /\ Len(socket') <= Room
              /\ \A i \in DOMAIN socket : i \in DOMAIN socket' /\ socket'[i] = socket[i]
              /\ \A i \in DOMAIN socket' : i \notin DOMAIN socket =>
                    i - Len(socket) \in 1..n /\ socket'[i] = ms[i - Len(socket)]
<1>. DEFINE room == Room - Len(socket)
            n == IF Len(ms) < room THEN Len(ms) ELSE room
            put == SubSeq(ms, 1, n)
<1>1. Room \in Nat /\ Len(socket) \in Nat /\ Len(ms) \in Nat
  BY TrackerAssumption
<1>2. n \in 0..Len(ms) /\ n <= room
  BY <1>1
<1>3. socket' = socket \o put
  BY DEF Put
<1>. HIDE DEF n
<1>4. put \in Seq(Message) /\ Len(put) = n /\ \A i \in 1..n : put[i] = ms[i]
  BY <1>2
<1>. HIDE DEF put
<1>5. /\ socket' \in Seq(Message) /\ Len(socket') = Len(socket) + Len(put)
      /\ \A i \in 1..Len(socket) : socket'[i] = socket[i]
      /\ \A i \in 1..Len(put) : socket'[Len(socket) + i] = put[i]
  <2>1. /\ socket \o put \in Seq(Message) /\ Len(socket \o put) = Len(socket) + Len(put)
        /\ \A i \in 1..Len(socket) : (socket \o put)[i] = socket[i]
        /\ \A i \in 1..Len(put) : (socket \o put)[Len(socket) + i] = put[i]
    BY <1>4, TwoSeqs
  <2>. QED  BY <1>3, <2>1, Zenon
<1>6. /\ socket' \in Seq(Message) /\ Len(socket') = Len(socket) + n
      /\ \A i \in 1..Len(socket) : socket'[i] = socket[i]
      /\ \A i \in 1..n : socket'[Len(socket) + i] = ms[i]
  BY <1>4, <1>5
<1>7. Len(socket') <= Room
  <2>1. n \in Int
    BY <1>1, <1>2
  <2>. QED  BY <1>1, <1>2, <1>6, <2>1
<1>8. DOMAIN socket = 1..Len(socket) /\ DOMAIN socket' = 1..(Len(socket) + n) /\ n \in Nat
  BY <1>2, <1>6
<1>9. \A i \in DOMAIN socket' : i \notin DOMAIN socket =>
         i - Len(socket) \in 1..n /\ socket'[i] = ms[i - Len(socket)]
  <2>. SUFFICES ASSUME NEW i \in DOMAIN socket', i \notin DOMAIN socket
                PROVE  i - Len(socket) \in 1..n /\ socket'[i] = ms[i - Len(socket)]
    OBVIOUS
  <2>1. i - Len(socket) \in 1..n /\ Len(socket) + (i - Len(socket)) = i
    BY <1>1, <1>8
  <2>. QED  BY <1>6, <2>1
<1>10. \A i \in DOMAIN socket : i \in DOMAIN socket' /\ socket'[i] = socket[i]
  BY <1>1, <1>6, <1>8
<1>. QED  BY <1>2, <1>6, <1>7, <1>9, <1>10

\* The kernel's messages of one event.
LEMMA PutKeeps ==
    ASSUME Mail, NEW ms \in Seq(Message), Put(ms),
           learnt' = learnt, taken \subseteq taken', reported \subseteq reported',
           \A i \in 1..Len(ms) :
              /\ ms[i].k = "cookie" => ms[i].cookie = ms[i].seq
              /\ ms[i].k \in {"cookie", "ack"} => ms[i].seq \in taken'
              /\ ms[i].k = "status" /\ ms[i].cookie \in Frames =>
                    /\ ms[i].cookie \in reported' \ reported /\ ~HasStatus(ms[i].cookie)
                    /\ \A j \in 1..Len(ms) : ms[j].k = "status" => i = j
    PROVE  Mail'
<1>1. socket \in Seq(Message) /\ Len(socket) <= Room /\ DOMAIN socket = 1..Len(socket)
  BY DEF Mail
<1>2. PICK n \in 0..Len(ms) :
         /\ socket' \in Seq(Message) /\ Len(socket') = Len(socket) + n /\ Len(socket') <= Room
         /\ \A i \in DOMAIN socket : i \in DOMAIN socket' /\ socket'[i] = socket[i]
         /\ \A i \in DOMAIN socket' : i \notin DOMAIN socket =>
               i - Len(socket) \in 1..n /\ socket'[i] = ms[i - Len(socket)]
  BY <1>1, PutIs
<1>3. Len(socket) \in Nat /\ n \in Nat /\ Len(ms) \in Nat /\ DOMAIN socket' = 1..(Len(socket) + n)
  BY <1>1, <1>2
<1>4. \A i \in DOMAIN socket' :
         \/ i \in 1..Len(socket) /\ i \in DOMAIN socket /\ socket'[i] = socket[i]
         \/ /\ i - Len(socket) \in 1..Len(ms) /\ socket'[i] = ms[i - Len(socket)] /\ ~(i \in 1..Len(socket))
  <2>1. 1..n \subseteq 1..Len(ms)
    BY <1>3
  <2>. QED  BY <1>1, <1>2, <2>1
<1>5. \A i \in DOMAIN socket' :
         /\ socket'[i].k = "cookie" => socket'[i].cookie = socket'[i].seq
         /\ socket'[i].k \in {"cookie", "ack"} => socket'[i].seq \in taken'
         /\ socket'[i].k = "status" /\ socket'[i].cookie \in Frames
               => socket'[i].cookie \in reported' /\ ~HasStatus(socket'[i].cookie)
  BY <1>4 DEF Mail
<1>6. \A i, j \in DOMAIN socket' :
         i < j /\ socket'[i].k = "status" /\ socket'[j].k = "status" /\ socket'[i].cookie \in Frames
            => socket'[i].cookie # socket'[j].cookie
  <2>. SUFFICES ASSUME NEW i \in DOMAIN socket', NEW j \in DOMAIN socket', i < j,
                       socket'[i].k = "status", socket'[j].k = "status", socket'[i].cookie \in Frames
                PROVE  socket'[i].cookie # socket'[j].cookie
    OBVIOUS
  <2>1. CASE j \in 1..Len(socket)
    <3>1. i \in 1..Len(socket)
      BY <1>3, <2>1
    <3>. QED  BY <1>1, <1>2, <2>1, <3>1 DEF Mail
  <2>2. CASE j \notin 1..Len(socket) /\ i \in 1..Len(socket)
    <3>1. socket[i].cookie \in reported
      BY <1>1, <1>2, <2>2 DEF Mail
    <3>2. socket'[j].cookie \in Frames => socket'[j].cookie \notin reported
      BY <1>4, <2>2
    <3>. QED  BY <1>2, <2>2, <3>1, <3>2
  <2>3. CASE j \notin 1..Len(socket) /\ i \notin 1..Len(socket)
    <3>1. /\ i - Len(socket) \in 1..Len(ms) /\ socket'[i] = ms[i - Len(socket)]
          /\ j - Len(socket) \in 1..Len(ms) /\ socket'[j] = ms[j - Len(socket)]
      BY <1>4, <2>3
    <3>2. i - Len(socket) # j - Len(socket)
      BY <1>3
    <3>. QED  BY <3>1, <3>2
  <2>. QED  BY <2>1, <2>2, <2>3
<1>. QED  BY <1>2, <1>5, <1>6 DEF Mail, HasStatus

\* Reading a datagram.
LEMMA TakeKeeps ==
    ASSUME TxTypes, Mail, socket # <<>>, NEW m, m = Head(socket), Noted(m),
           socket' = Tail(socket), UNCHANGED <<taken, reported>>
    PROVE  /\ Mail' /\ m \in Message /\ 1 \in DOMAIN socket /\ m = socket[1]
           /\ m.k = "cookie" => m.cookie = m.seq
           /\ m.k \in {"cookie", "ack"} => m.seq \in Frames
           /\ m.k = "status" /\ m.cookie \in Frames => m.cookie \in reported /\ ~HasStatus(m.cookie)
           /\ \A i \in DOMAIN socket' : i + 1 \in DOMAIN socket /\ socket'[i] = socket[i + 1]
<1>1. socket \in Seq(Message) /\ Len(socket) <= Room /\ DOMAIN socket = 1..Len(socket)
  BY DEF Mail
<1>2. m \in Message /\ 1 \in DOMAIN socket /\ m = socket[1]
  BY <1>1
<1>3. /\ socket' \in Seq(Message) /\ Len(socket') <= Room
      /\ \A i \in DOMAIN socket' : i + 1 \in DOMAIN socket /\ socket'[i] = socket[i + 1]
  BY <1>1, TrackerAssumption
<1>4. /\ m.k = "cookie" => m.cookie = m.seq
      /\ m.k \in {"cookie", "ack"} => m.seq \in taken
      /\ m.k = "status" /\ m.cookie \in Frames => m.cookie \in reported /\ ~HasStatus(m.cookie)
  BY <1>2 DEF Mail
<1>5. \A f \in Frames : m.k # "status" \/ f # m.cookie => learnt'[f] = learnt[f]
  BY DEF Noted, TxTypes
<1>6. \A i \in DOMAIN socket' :
         socket'[i].k = "status" /\ socket'[i].cookie \in Frames =>
            socket'[i].cookie \in reported /\ ~(learnt'[socket'[i].cookie].at >= 0)
  <2>. SUFFICES ASSUME NEW i \in DOMAIN socket', socket'[i].k = "status", socket'[i].cookie \in Frames
                PROVE  socket'[i].cookie \in reported /\ ~(learnt'[socket'[i].cookie].at >= 0)
    OBVIOUS
  <2>1. PICK c : c = socket'[i].cookie
    OBVIOUS
  <2>2. /\ i + 1 \in DOMAIN socket /\ socket[i + 1].k = "status" /\ socket[i + 1].cookie = c /\ c \in Frames
        /\ 1 < i + 1
    BY <1>1, <1>3, <2>1
  <2>3. c \in reported /\ ~HasStatus(c)
    BY <2>2 DEF Mail
  <2>4. m.k = "status" => c # m.cookie
    BY <1>2, <2>2 DEF Mail
  <2>5. ~(learnt'[c].at >= 0)
    BY <1>5, <2>2, <2>3, <2>4 DEF HasStatus
  <2>. QED  BY <2>1, <2>3, <2>5
<1>7. \A i \in DOMAIN socket' :
         /\ socket'[i].k = "cookie" => socket'[i].cookie = socket'[i].seq
         /\ socket'[i].k \in {"cookie", "ack"} => socket'[i].seq \in taken
  BY <1>3 DEF Mail
<1>8. \A i, j \in DOMAIN socket' :
         i < j /\ socket'[i].k = "status" /\ socket'[j].k = "status" /\ socket'[i].cookie \in Frames
            => socket'[i].cookie # socket'[j].cookie
  <2>. SUFFICES ASSUME NEW i \in DOMAIN socket', NEW j \in DOMAIN socket', i < j,
                       socket'[i].k = "status", socket'[j].k = "status", socket'[i].cookie \in Frames
                PROVE  socket'[i].cookie # socket'[j].cookie
    OBVIOUS
  <2>1. i + 1 < j + 1
    BY <1>3
  <2>. QED  BY <1>3, <2>1 DEF Mail
<1>9. Mail'
  BY <1>3, <1>6, <1>7, <1>8 DEF Mail, HasStatus
<1>. QED  BY <1>2, <1>3, <1>4, <1>9 DEF TxTypes

\* The tracker is the one the account is of.
LEMMA LedgerIs ==
    ASSUME NEW u, u = tracker', Ledger(u)'
    PROVE  Ledger(tracker)'
BY DEF Ledger, Sending, Waiting, CameEarly, Late, Sums, EarlyOf, PendingOf

LEMMA ReportStep ==
    ASSUME TxInv, NEW c \in Frames \cup Foreign, Report(c)
    PROVE  TxInv'
<1>1. /\ c \in (taken \cup Foreign) \ reported /\ reported' = reported \cup {c}
      /\ UNCHANGED <<now, call, taken, tracker, accepted, learnt, pushedOut>>
  BY DEF Report
<1>2. PICK outcome \in Outcomes : Put(<<StatusOf(c, outcome)>>)
  BY DEF Report
<1>. DEFINE m == StatusOf(c, outcome)  ms == <<m>>
<1>3. m \in Message /\ m.k = "status" /\ m.cookie = c
  BY DEF StatusOf, Message
<1>. HIDE DEF m
<1>4. ms \in Seq(Message) /\ Len(ms) = 1 /\ ms[1] = m /\ Put(ms)
  BY <1>2, <1>3 DEF m
<1>. HIDE DEF ms
<1>5. c \in Frames => ~HasStatus(c)
  BY <1>1 DEF TxInv, TxTypes
<1>6. Mail'
  <2>1. \A i \in 1..Len(ms) : i = 1 /\ ms[i] = m
    BY <1>4
  <2>2. \A i \in 1..Len(ms) :
          /\ ms[i].k = "cookie" => ms[i].cookie = ms[i].seq
          /\ ms[i].k \in {"cookie", "ack"} => ms[i].seq \in taken'
          /\ ms[i].k = "status" /\ ms[i].cookie \in Frames =>
                /\ ms[i].cookie \in reported' \ reported /\ ~HasStatus(ms[i].cookie)
                /\ \A j \in 1..Len(ms) : ms[j].k = "status" => i = j
    BY <1>1, <1>3, <1>5, <2>1
  <2>3. learnt' = learnt /\ taken \subseteq taken' /\ reported \subseteq reported' /\ Mail
    BY <1>1 DEF TxInv
  <2>. QED  BY <1>4, <2>2, <2>3, PutKeeps
<1>7. Answers'
  <2>1. PICK n \in 0..Len(ms) :
          /\ socket' \in Seq(Message) /\ Len(socket') = Len(socket) + n /\ Len(socket') <= Room
          /\ \A i \in DOMAIN socket : i \in DOMAIN socket' /\ socket'[i] = socket[i]
          /\ \A i \in DOMAIN socket' : i \notin DOMAIN socket =>
                i - Len(socket) \in 1..n /\ socket'[i] = ms[i - Len(socket)]
    BY <1>4, PutIs DEF TxInv, Mail
  <2>2. \A i \in DOMAIN socket' : (i \in DOMAIN socket /\ socket'[i] = socket[i]) \/ socket'[i].k = "status"
    <3>1. \A i \in 1..n : ms[i].k = "status"
      BY <1>3, <1>4
    <3>. QED  BY <2>1, <3>1
  <2>. QED  BY <1>1, <2>1, <2>2 DEF TxInv, Answers
<1>8. TxTypes'
  <2>1. \A f \in Frames : (HasStatus(f)' => f \in reported')
                         /\ (f \in reported' \cup pushedOut' \cup Ours' => f \in taken')
    BY <1>1, TrackerAssumption DEF TxInv, TxTypes, HasStatus, Ours
  <2>. QED  BY <1>1, <2>1 DEF TxInv, TxTypes, Ours
<1>9. Ledger(tracker)'
  <2>1. PICK u : u = tracker
    OBVIOUS
  <2>2. Ledger(u)'
    BY <1>1, <2>1, SameLedger DEF TxInv
  <2>. QED  BY <1>1, <2>1, <2>2, LedgerIs
<1>. QED  BY <1>6, <1>7, <1>8, <1>9 DEF TxInv

\* The messages that answer f's request.
AnswersTo(f, ms) ==
    /\ ms \in Seq(Message)
    /\ \A i \in 1..Len(ms) :
          /\ ms[i].k = "cookie" => ms[i].cookie = ms[i].seq
          /\ ms[i].k \in {"cookie", "ack"} => ms[i].seq = f
          /\ ms[i].k = "status" => ms[i].cookie = f /\ \A j \in 1..Len(ms) : ms[j].k = "status" => i = j
          /\ ms[i].k = "ack" /\ ms[i].error = 0 => \E j \in 1..Len(ms) : j < i /\ ms[j].k = "cookie"

LEMMA SubmitPuts ==
    ASSUME NEW f \in Frames, Submit(f)
    PROVE  \E ms : /\ AnswersTo(f, ms) /\ Put(ms)
                   /\ reported' = reported \/ reported' = reported \cup {f}
                   /\ (\E i \in 1..Len(ms) : ms[i].k = "status") => reported' = reported \cup {f}
<1>. DEFINE cookie == Cookie(f)  ack(error) == Ack(f, error)  status(outcome) == StatusOf(f, outcome)
<1>1. cookie \in Message /\ cookie.k = "cookie" /\ cookie.seq = f /\ cookie.cookie = f
  BY DEF Cookie, Message
<1>2. \A error \in {0, 1} : /\ ack(error) \in Message /\ ack(error).k = "ack"
                            /\ ack(error).seq = f /\ ack(error).error = error
  BY DEF Ack, Message
<1>3. \A outcome \in Outcomes : /\ status(outcome) \in Message /\ status(outcome).k = "status"
                                /\ status(outcome).cookie = f
  BY DEF StatusOf, Message
<1>4. \/ Put(<<ack(1)>>) /\ reported' = reported \cup {f}
      \/ Put(<<cookie, ack(0)>>) /\ reported' = reported
      \/ /\ \E outcome \in Outcomes : \/ Put(<<status(outcome), cookie, ack(0)>>)
                                       \/ Put(<<cookie, status(outcome), ack(0)>>)
         /\ reported' = reported \cup {f}
  BY DEF Submit
<1>. HIDE DEF cookie, ack, status
<1>5. CASE Put(<<ack(1)>>) /\ reported' = reported \cup {f}
  <2>. DEFINE ms == <<ack(1)>>
  <2>1. AnswersTo(f, ms)
    BY <1>2 DEF AnswersTo
  <2>. QED  BY <1>5, <2>1
<1>6. CASE Put(<<cookie, ack(0)>>) /\ reported' = reported
  <2>. DEFINE ms == <<cookie, ack(0)>>
  <2>1. AnswersTo(f, ms)
    BY <1>1, <1>2 DEF AnswersTo
  <2>2. \A i \in 1..Len(ms) : ms[i].k # "status"
    BY <1>1, <1>2
  <2>. HIDE DEF ms
  <2>. QED  BY <1>6, <2>1, <2>2 DEF ms
<1>7. ASSUME NEW outcome \in Outcomes, reported' = reported \cup {f}, Put(<<status(outcome), cookie, ack(0)>>)
      PROVE  \E ms : AnswersTo(f, ms) /\ Put(ms)
  <2>. DEFINE ms == <<status(outcome), cookie, ack(0)>>
  <2>1. AnswersTo(f, ms)
    BY <1>1, <1>2, <1>3 DEF AnswersTo
  <2>. QED  BY <1>7, <2>1
<1>8. ASSUME NEW outcome \in Outcomes, reported' = reported \cup {f}, Put(<<cookie, status(outcome), ack(0)>>)
      PROVE  \E ms : AnswersTo(f, ms) /\ Put(ms)
  <2>. DEFINE ms == <<cookie, status(outcome), ack(0)>>
  <2>1. AnswersTo(f, ms)
    BY <1>1, <1>2, <1>3 DEF AnswersTo
  <2>. QED  BY <1>8, <2>1
<1>. QED  BY <1>4, <1>5, <1>6, <1>7, <1>8

LEMMA SubmitStep ==
    ASSUME TxInv, NEW f \in Frames, Submit(f)
    PROVE  TxInv'
<1>1. /\ call = 0 /\ f \notin taken /\ call' = f /\ taken' = taken \cup {f}
      /\ tracker' = Begin(tracker, f)
      /\ UNCHANGED <<now, accepted, learnt, pushedOut>>
  BY DEF Submit
<1>2. TxTypes /\ Ledger(tracker) /\ Mail
  BY DEF TxInv
<1>3. f \notin reported /\ ~HasStatus(f) /\ f \notin Ours /\ f \notin pushedOut /\ f # 0
  BY <1>1, <1>2, FramesAre DEF TxTypes
<1>4. PICK ms :
        /\ AnswersTo(f, ms) /\ Put(ms)
        /\ reported' = reported \/ reported' = reported \cup {f}
        /\ (\E i \in 1..Len(ms) : ms[i].k = "status") => reported' = reported \cup {f}
  BY SubmitPuts
<1>5. ms \in Seq(Message)
  BY <1>4 DEF AnswersTo
<1>6. Mail'
  <2>1. \A i \in 1..Len(ms) :
          /\ ms[i].k = "cookie" => ms[i].cookie = ms[i].seq
          /\ ms[i].k \in {"cookie", "ack"} => ms[i].seq \in taken'
          /\ ms[i].k = "status" /\ ms[i].cookie \in Frames =>
                /\ ms[i].cookie \in reported' \ reported /\ ~HasStatus(ms[i].cookie)
                /\ \A j \in 1..Len(ms) : ms[j].k = "status" => i = j
    BY <1>1, <1>3, <1>4 DEF AnswersTo
  <2>2. learnt' = learnt /\ taken \subseteq taken' /\ reported \subseteq reported'
    BY <1>1, <1>4
  <2>. QED  BY <1>2, <1>4, <1>5, <2>1, <2>2, PutKeeps
<1>7. Answers'
  <2>1. PICK n \in 0..Len(ms) :
          /\ socket' \in Seq(Message) /\ Len(socket') = Len(socket) + n /\ Len(socket') <= Room
          /\ \A i \in DOMAIN socket : i \in DOMAIN socket' /\ socket'[i] = socket[i]
          /\ \A i \in DOMAIN socket' : i \notin DOMAIN socket =>
                i - Len(socket) \in 1..n /\ socket'[i] = ms[i - Len(socket)]
    BY <1>2, <1>4, <1>5, PutIs DEF Mail
  <2>. SUFFICES ASSUME NEW i \in DOMAIN socket',
                       socket'[i].k = "ack", socket'[i].error = 0, socket'[i].seq = f
                PROVE  \E j \in DOMAIN socket' : j < i /\ socket'[j].k = "cookie" /\ socket'[j].seq = f
    BY <1>1 DEF Answers
  <2>2. i \notin DOMAIN socket
    BY <1>1, <1>2, <2>1 DEF Mail
  <2>3. /\ i - Len(socket) \in 1..n /\ socket'[i] = ms[i - Len(socket)]
        /\ Len(socket) \in Nat /\ n \in Nat /\ n <= Len(ms) /\ Len(ms) \in Nat
        /\ DOMAIN socket' = 1..(Len(socket) + n) /\ DOMAIN socket = 1..Len(socket)
    BY <1>2, <1>5, <2>1, <2>2 DEF Mail
  <2>4. PICK j \in 1..Len(ms) : j < i - Len(socket) /\ ms[j].k = "cookie" /\ ms[j].seq = f
    <3>1. i - Len(socket) \in 1..Len(ms)
      BY <2>3
    <3>. QED  BY <1>4, <2>3, <3>1 DEF AnswersTo
  <2>5. PICK k \in DOMAIN socket' : k = j + Len(socket) /\ k \notin DOMAIN socket /\ k < i /\ k - Len(socket) = j
    BY <2>3, <2>4
  <2>. QED  BY <2>1, <2>4, <2>5
<1>8. TxTypes'
  <2>1. \A g \in Frames : (HasStatus(g)' => g \in reported')
                         /\ (g \in reported' \cup pushedOut' \cup Ours' => g \in taken')
    BY <1>1, <1>2, <1>4 DEF TxTypes, HasStatus, Ours
  <2>. QED  BY <1>1, <1>2, <2>1 DEF TxTypes, Ours
<1>9. Ledger(tracker)'
  <2>1. PICK t : t = tracker
    OBVIOUS
  <2>2. PICK u : u = Begin(t, f)
    OBVIOUS
  <2>3. t \in Tracker /\ Sending(t) /\ Waiting(t) /\ CameEarly(t) /\ Late(t) /\ Sums(t)
    BY <1>2, <2>1 DEF Ledger
  <2>4. /\ u \in Tracker /\ u.pending = t.pending /\ u.early = <<>>
        /\ u.seq = f /\ u.cookie = 0
        /\ u.acked = t.acked /\ u.noAck = t.noAck /\ u.cookieMissing = t.cookieMissing
        /\ u.statusMissing = t.statusMissing
    BY <2>2, <2>3, BeginIs
  <2>5. Ours' = Ours /\ Counted("acked")' = Counted("acked") /\ Counted("noAck")' = Counted("noAck")
    BY <1>1 DEF Ours, Counted, HasStatus, Timely
  <2>6. /\ Cardinality(Ours') = Cardinality(Ours)
        /\ Cardinality(Counted("acked")') = Cardinality(Counted("acked"))
        /\ Cardinality(Counted("noAck")') = Cardinality(Counted("noAck"))
    BY <2>5, Zenon
  <2>7. Sums(u)'
    BY <2>3, <2>4, <2>6 DEF Sums
  <2>8. Sending(u)' /\ CameEarly(u)'
    BY <1>1, <1>3, <2>4, <2>5 DEF Sending, CameEarly, EarlyOf, HasStatus
  <2>9. Waiting(u)' /\ Late(u)'
    BY <1>1, <2>3, <2>4, <2>5 DEF Waiting, Late, HasStatus, PendingOf
  <2>10. Ledger(u)'
    BY <2>4, <2>7, <2>8, <2>9 DEF Ledger
  <2>. QED  BY <1>1, <2>1, <2>2, <2>10, LedgerIs
<1>. QED  BY <1>6, <1>7, <1>8, <1>9 DEF TxInv

LEMMA ElapseStep ==
    ASSUME TxInv, Elapse
    PROVE  TxInv'
<1>1. now' = now + 1 /\ UNCHANGED <<call, taken, reported, socket, overrun, tracker, accepted, learnt, pushedOut>>
  BY DEF Elapse
<1>2. TxTypes /\ Ledger(tracker) /\ Mail /\ Answers
  BY DEF TxInv
<1>3. Ours' = Ours
  BY <1>1 DEF Ours
<1>4. TxTypes'
  <2>1. \A g \in Frames : (HasStatus(g)' => g \in reported')
                         /\ (g \in reported' \cup pushedOut' \cup Ours' => g \in taken')
    BY <1>1, <1>2, <1>3 DEF TxTypes, HasStatus
  <2>. QED  BY <1>1, <1>2, <2>1 DEF TxTypes
<1>5. Mail' /\ Answers'
  BY <1>1, <1>2 DEF Mail, Answers, HasStatus
<1>6. Ledger(tracker)'
  <2>1. PICK t : t = tracker
    OBVIOUS
  <2>2. t \in Tracker /\ Sending(t) /\ Waiting(t) /\ CameEarly(t) /\ Late(t) /\ Sums(t)
    BY <1>2, <2>1 DEF Ledger
  <2>3. Counted("acked")' = Counted("acked") /\ Counted("noAck")' = Counted("noAck")
    BY <1>1, <1>3 DEF Counted, HasStatus, Timely
  <2>4. /\ Cardinality(Ours') = Cardinality(Ours)
        /\ Cardinality(Counted("acked")') = Cardinality(Counted("acked"))
        /\ Cardinality(Counted("noAck")') = Cardinality(Counted("noAck"))
    BY <1>3, <2>3, Zenon
  <2>5. Sums(t)'
    BY <2>2, <2>4 DEF Sums
  <2>6. Sending(t)' /\ Waiting(t)' /\ CameEarly(t)'
    BY <1>1, <1>3, <2>2 DEF Sending, Waiting, CameEarly, EarlyOf, HasStatus, Timely
  <2>7. Late(t)'
    <3>1. \A f \in Ours : accepted[f] \in Int /\ now \in Int /\ Timeout \in Int
      BY <1>2, TrackerAssumption DEF TxTypes, Ours
    <3>. QED  BY <1>1, <1>3, <2>2, <3>1 DEF Late, HasStatus, PendingOf
  <2>8. Ledger(t)'
    BY <2>2, <2>5, <2>6, <2>7 DEF Ledger
  <2>. QED  BY <1>1, <2>1, <2>8, LedgerIs
<1>. QED  BY <1>4, <1>5, <1>6 DEF TxInv

\* What a datagram tells is told to the tracker while its request goes on, or when none does.
LEMMA EventStep ==
    ASSUME TxInv, NEW m, NEW u, u = Event(tracker, m), Read(m, u), GoOn(u),
           UNCHANGED <<now, call, taken, reported, accepted>>
    PROVE  TxInv'
<1>1. TxTypes /\ Ledger(tracker) /\ Mail /\ Answers
  BY DEF TxInv
<1>2. /\ Mail' /\ m \in Message /\ 1 \in DOMAIN socket /\ m = socket[1]
      /\ m.k = "cookie" => m.cookie = m.seq
      /\ m.k \in {"cookie", "ack"} => m.seq \in Frames
      /\ m.k = "status" /\ m.cookie \in Frames => m.cookie \in reported /\ ~HasStatus(m.cookie)
      /\ \A i \in DOMAIN socket' : i + 1 \in DOMAIN socket /\ socket'[i] = socket[i + 1]
  BY <1>1, TakeKeeps DEF Read
<1>3. PICK t : t = ExpirePending(tracker)
  OBVIOUS
<1>4. /\ Ledger(t) /\ t.early = tracker.early /\ t.cookie = tracker.cookie
      /\ \A w \in t.pending : now - w.at < Timeout
  <2>1. PICK r : r = tracker
    OBVIOUS
  <2>. QED  BY <1>1, <1>3, <2>1, ExpireKeeps
<1>5. tracker' = u /\ pushedOut' = pushedOut \cup (EarlyOf(t) \ EarlyOf(u))
  BY <1>4 DEF GoOn, EarlyOf
<1>6. /\ TxTypes' /\ Ledger(u)'
      /\ u.cookie = t.cookie \/ u.cookie = call
      /\ m.k = "cookie" /\ m.seq = call => u.cookie = call
  <2>1. CASE m.k = "status"
    <3>1. u = Status(t, m)
      BY <1>3, <2>1 DEF Event
    <3>2. Noted(m)
      BY DEF Read
    <3>3. TxTypes' /\ Ledger(u)' /\ u.cookie = t.cookie
      BY <1>1, <1>2, <1>4, <1>5, <2>1, <3>1, <3>2, ReadStatus
    <3>. QED  BY <2>1, <3>3
  <2>2. ASSUME m.k # "status", Ledger(u), u.early = t.early
        PROVE  TxTypes' /\ Ledger(u)'
    <3>1. learnt' = learnt /\ pushedOut' = pushedOut
      BY <1>5, <2>2 DEF Read, Noted, EarlyOf
    <3>2. Ledger(u)'
      BY <2>2, <3>1, SameLedger
    <3>3. \A f \in Frames : (HasStatus(f)' => f \in reported')
                           /\ (f \in reported' \cup pushedOut' \cup Ours' => f \in taken')
      BY <1>1, <3>1 DEF TxTypes, HasStatus, Ours
    <3>. QED  BY <1>1, <3>1, <3>2, <3>3 DEF TxTypes
  <2>3. CASE m.k = "cookie"
    <3>1. u = IF t.seq = m.seq THEN [t EXCEPT !.cookie = m.cookie] ELSE t
      BY <1>3, <2>3 DEF Event
    <3>2. /\ Ledger(u) /\ u.early = t.early
          /\ u.cookie = t.cookie \/ u.cookie = call
          /\ m.seq = call => u.cookie = call
      BY <1>1, <1>2, <1>4, <2>3, <3>1, CookieStep
    <3>. QED  BY <2>2, <2>3, <3>2
  <2>4. CASE m.k = "ack"
    <3>1. u = t
      BY <1>3, <2>4 DEF Event
    <3>. QED  BY <1>4, <2>2, <2>4, <3>1
  <2>. QED  BY <1>2, <2>1, <2>3, <2>4 DEF Message
<1>7. Answers'
  <2>. SUFFICES ASSUME NEW i \in DOMAIN socket',
                       socket'[i].k = "ack", socket'[i].error = 0, socket'[i].seq = call, u.cookie # call
                PROVE  \E j \in DOMAIN socket' : j < i /\ socket'[j].k = "cookie" /\ socket'[j].seq = call
    BY <1>5 DEF Answers
  <2>1. i + 1 \in DOMAIN socket /\ socket[i + 1] = socket'[i]
    BY <1>2
  <2>2. PICK j \in DOMAIN socket : j < i + 1 /\ socket[j].k = "cookie" /\ socket[j].seq = call
    BY <1>1, <1>4, <1>6, <2>1 DEF Answers
  <2>3. j # 1
    BY <1>2, <1>6, <2>2
  <2>4. DOMAIN socket = 1..Len(socket) /\ Len(socket) \in Nat /\ DOMAIN socket' = 1..(Len(socket) - 1)
    BY <1>1 DEF Mail, Read
  <2>5. i \in Int /\ j \in Int
    BY <2>4
  <2>6. j - 1 \in DOMAIN socket' /\ (j - 1) + 1 = j /\ j - 1 < i
    BY <2>2, <2>3, <2>4, <2>5
  <2>7. socket'[j - 1] = socket[j]
    BY <1>2, <2>6
  <2>. QED  BY <2>2, <2>6, <2>7
<1>. QED  BY <1>2, <1>5, <1>6, <1>7, LedgerIs DEF TxInv

\* What a request has come to.
LEMMA ReturnStep ==
    ASSUME TxTypes, Mail', NEW t, Ledger(t), call # 0, NEW u,
           \/ u = Closed(t) /\ accepted' = [accepted EXCEPT ![call] = -1]
           \/ u = Finish(t, TRUE) /\ t.cookie = call /\ accepted' = [accepted EXCEPT ![call] = now],
           tracker' = u, call' = 0, pushedOut' = pushedOut \cup (PendingOf(t) \ PendingOf(u)),
           UNCHANGED <<now, taken, reported, learnt>>
    PROVE  TxInv'
<1>1. TxTypes' /\ Ledger(u)'
  <2>1. CASE u = Closed(t) /\ accepted' = [accepted EXCEPT ![call] = -1]
    BY <2>1, FailStep
  <2>2. CASE u = Finish(t, TRUE) /\ t.cookie = call /\ accepted' = [accepted EXCEPT ![call] = now]
    <3>. DEFINE mine == {i \in DOMAIN t.early : t.early[i].cookie = t.cookie}
    <3>1. CASE mine = {}
      <4>1. u = Queue(t)
        BY <2>2, <3>1 DEF Finish
      <4>2. call \notin EarlyOf(t)
        BY <2>2, <3>1 DEF EarlyOf
      <4>. QED  BY <2>2, <4>1, <4>2, QueueStep
    <3>2. CASE mine # {}
      <4>. DEFINE first == Min(mine)  outcome == t.early[first].outcome
      <4>1. first \in mine
        <5>1. mine \in SUBSET Nat
          BY DEF Ledger, Tracker
        <5>2. \E i \in mine : \A j \in mine : i <= j
          <6>. HIDE DEF mine
          <6>. QED  BY <3>2, <5>1, LeastNumber
        <5>. HIDE DEF mine
        <5>. QED  BY <5>2, Zenon DEF Min
      <4>2. u = Record(Closed(t), outcome)
        BY <2>2, <3>2 DEF Finish
      <4>. HIDE DEF first
      <4>3. first \in DOMAIN t.early /\ t.early[first].cookie = call
        BY <2>2, <4>1
      <4>4. outcome \in Outcomes /\ call \in EarlyOf(t) /\ call \in Frames
        <5>1. t.early \in Seq(EarlyStatus)
          BY DEF Ledger, Tracker
        <5>2. t.early[first] \in EarlyStatus
          BY <4>3, <5>1
        <5>. QED  BY <4>3, <5>2 DEF EarlyStatus, EarlyOf, TxTypes
      <4>5. outcome = learnt[call].outcome
        BY <4>3, <4>4 DEF Ledger, CameEarly
      <4>. HIDE DEF outcome, mine
      <4>. QED  BY <2>2, <4>2, <4>4, <4>5, RecordStep
    <3>. QED  BY <3>1, <3>2
  <2>. QED  BY <2>1, <2>2
<1>2. Answers'
  BY FramesAre DEF Answers, Mail, TxTypes
<1>. QED  BY <1>1, <1>2, LedgerIs DEF TxInv

LEMMA AwaitStep ==
    ASSUME TxInv, Await
    PROVE  TxInv'
<1>1. /\ TxTypes /\ Ledger(tracker) /\ Mail /\ Answers
      /\ call # 0 /\ UNCHANGED <<now, taken, reported>>
  BY DEF TxInv, Await
<1>2. PICK r : r = tracker
  OBVIOUS
<1>3. CASE Return(tracker, FALSE) /\ UNCHANGED <<socket, learnt>>
  <2>1. Mail'
    BY <1>1, <1>3 DEF Mail, HasStatus
  <2>2. PICK u : u = Closed(r)
    OBVIOUS
  <2>3. /\ tracker' = u /\ call' = 0 /\ accepted' = [accepted EXCEPT ![call] = -1]
        /\ pushedOut' = pushedOut \cup (PendingOf(r) \ PendingOf(u))
    BY <1>2, <1>3, <2>2 DEF Return, Finish, PendingOf
  <2>. QED  BY <1>1, <1>2, <1>3, <2>1, <2>2, <2>3, ReturnStep
<1>4. ASSUME NEW m, NEW t, t = Event(tracker, m), Read(m, t),
             IF m.k = "ack" /\ m.seq = call THEN Return(t, m.error = 0)
                                            ELSE GoOn(t) /\ UNCHANGED <<call, accepted>>
      PROVE  TxInv'
  <2>1. CASE ~(m.k = "ack" /\ m.seq = call)
    <3>1. GoOn(t) /\ UNCHANGED <<now, call, taken, reported, accepted>>
      BY <1>1, <1>4, <2>1
    <3>. QED  BY <1>4, <3>1, EventStep
  <2>2. CASE m.k = "ack" /\ m.seq = call
    <3>1. Mail' /\ m \in Message /\ 1 \in DOMAIN socket /\ m = socket[1]
      BY <1>1, <1>4, TakeKeeps DEF Read
    <3>2. t = ExpirePending(r)
      BY <1>2, <1>4, <2>2 DEF Event
    <3>3. Ledger(t) /\ t.cookie = tracker.cookie
      BY <1>1, <1>2, <3>2, ExpireKeeps
    <3>4. learnt' = learnt
      BY <1>4, <2>2 DEF Read, Noted
    <3>5. Return(t, m.error = 0)
      BY <1>4, <2>2
    <3>6. CASE m.error = 0
      <4>1. t.cookie = call
        <5>1. DOMAIN socket = 1..Len(socket)
          BY <1>1 DEF Mail
        <5>. QED  BY <1>1, <2>2, <3>1, <3>3, <3>6, <5>1 DEF Answers
      <4>2. PICK u : u = Finish(t, TRUE)
        OBVIOUS
      <4>3. /\ tracker' = u /\ call' = 0 /\ accepted' = [accepted EXCEPT ![call] = now]
            /\ pushedOut' = pushedOut \cup (PendingOf(t) \ PendingOf(u))
        BY <3>5, <3>6, <4>2 DEF Return, PendingOf
      <4>. QED  BY <1>1, <3>1, <3>3, <3>4, <4>1, <4>2, <4>3, ReturnStep
    <3>7. CASE m.error # 0
      <4>1. PICK u : u = Closed(t)
        OBVIOUS
      <4>2. /\ tracker' = u /\ call' = 0 /\ accepted' = [accepted EXCEPT ![call] = -1]
            /\ pushedOut' = pushedOut \cup (PendingOf(t) \ PendingOf(u))
        BY <3>5, <3>7, <4>1 DEF Return, Finish, PendingOf
      <4>. QED  BY <1>1, <3>1, <3>3, <3>4, <4>1, <4>2, ReturnStep
    <3>. QED  BY <3>6, <3>7
  <2>. QED  BY <2>1, <2>2
<1>. QED  BY <1>3, <1>4 DEF Await

LEMMA DrainStep ==
    ASSUME TxInv, Drain
    PROVE  TxInv'
<1>1. TxTypes /\ Ledger(tracker) /\ Mail /\ Answers /\ UNCHANGED <<now, call, taken, reported, accepted>>
  BY DEF TxInv, Drain
<1>2. CASE GoOn(ExpirePending(tracker)) /\ UNCHANGED <<socket, learnt>>
  <2>1. PICK t : t = tracker
    OBVIOUS
  <2>2. PICK u : u = ExpirePending(t)
    OBVIOUS
  <2>3. Ledger(u) /\ u.early = t.early /\ u.cookie = t.cookie
    BY <1>1, <2>1, <2>2, ExpireKeeps
  <2>4. tracker' = u /\ pushedOut' = pushedOut
    BY <1>2, <2>1, <2>2, <2>3 DEF GoOn, EarlyOf
  <2>5. Ledger(u)'
    BY <1>1, <1>2, <2>3, <2>4, SameLedger
  <2>6. Mail' /\ Answers'
    BY <1>1, <1>2, <2>1, <2>3, <2>4 DEF Mail, Answers, HasStatus
  <2>7. TxTypes'
    <3>1. \A f \in Frames : (HasStatus(f)' => f \in reported')
                           /\ (f \in reported' \cup pushedOut' \cup Ours' => f \in taken')
      BY <1>1, <1>2, <2>4 DEF TxTypes, HasStatus, Ours
    <3>. QED  BY <1>1, <1>2, <2>4, <3>1 DEF TxTypes
  <2>. QED  BY <2>4, <2>5, <2>6, <2>7, LedgerIs DEF TxInv
<1>3. ASSUME NEW m, NEW t, t = Event(tracker, m), Read(m, t), GoOn(t)
      PROVE  TxInv'
  BY <1>1, <1>3, EventStep
<1>. QED  BY <1>2, <1>3 DEF Drain

LEMMA TxStep ==
    ASSUME TxInv, [TxNext]_txVars
    PROVE  TxInv'
<1>1. CASE Await
  BY <1>1, AwaitStep
<1>2. CASE Drain
  BY <1>2, DrainStep
<1>3. CASE Elapse
  BY <1>3, ElapseStep
<1>4. ASSUME NEW f \in Frames, Submit(f)
      PROVE  TxInv'
  BY <1>4, SubmitStep
<1>5. ASSUME NEW c \in Frames \cup Foreign, Report(c)
      PROVE  TxInv'
  BY <1>5, ReportStep
<1>6. CASE UNCHANGED txVars
  <2>1. PICK t : t = tracker
    OBVIOUS
  <2>2. UNCHANGED <<now, call, taken, reported, socket, overrun, accepted, learnt, pushedOut>> /\ tracker' = t
    BY <1>6, <2>1 DEF txVars
  <2>3. Ledger(t)'
    BY <2>1, <2>2, SameLedger DEF TxInv
  <2>4. Mail' /\ Answers'
    BY <2>1, <2>2 DEF TxInv, Mail, Answers, HasStatus
  <2>5. TxTypes'
    <3>1. \A f \in Frames : (HasStatus(f)' => f \in reported')
                           /\ (f \in reported' \cup pushedOut' \cup Ours' => f \in taken')
      BY <2>2 DEF TxInv, TxTypes, HasStatus, Ours
    <3>. QED  BY <2>2, <3>1 DEF TxInv, TxTypes
  <2>. QED  BY <2>2, <2>3, <2>4, <2>5, LedgerIs DEF TxInv
<1>. QED  BY <1>1, <1>2, <1>3, <1>4, <1>5, <1>6 DEF TxNext

LEMMA TxInvInit == TxInit => TxInv
<1>. SUFFICES ASSUME TxInit
              PROVE  TxInv
  OBVIOUS
<1>1. /\ now = 0 /\ call = 0 /\ taken = {} /\ reported = {} /\ socket = <<>> /\ pushedOut = {}
      /\ tracker = NewTracker /\ accepted = [f \in Frames |-> -1] /\ learnt = [f \in Frames |-> Unlearnt]
  BY DEF TxInit
<1>2. Unlearnt \in [outcome : Outcomes, at : Int] /\ Unlearnt.at = -1
  BY DEF Unlearnt, Outcomes
<1>3. Ours = {} /\ \A f \in Frames : ~HasStatus(f) /\ accepted[f] = -1 /\ learnt[f].at = -1
  BY <1>1, <1>2 DEF Ours, HasStatus
<1>4. TxTypes
  BY <1>1, <1>2, <1>3 DEF TxTypes
<1>5. Mail /\ Answers
  BY <1>1, TrackerAssumption DEF Mail, Answers
<1>6. Ledger(tracker)
  <2>. DEFINE early == Seq(EarlyStatus)  none == <<>>
  <2>1. none \in early /\ tracker = [seq |-> 0, cookie |-> 0, pending |-> {}, early |-> none,
                                     acked |-> 0, noAck |-> 0, statusMissing |-> 0, cookieMissing |-> 0]
    BY <1>1 DEF NewTracker
  <2>2. DOMAIN none = {}
    OBVIOUS
  <2>. HIDE DEF early, none
  <2>3. tracker \in Tracker
    BY <2>1 DEF Tracker, early
  <2>4. /\ tracker.seq = 0 /\ tracker.pending = {} /\ tracker.early = none /\ tracker.acked = 0
        /\ tracker.noAck = 0 /\ tracker.statusMissing = 0 /\ tracker.cookieMissing = 0
    BY <2>1
  <2>5. Counted("acked") = {} /\ Counted("noAck") = {}
    BY <1>3 DEF Counted
  <2>6. /\ Cardinality(Counted("acked")) = 0 /\ Cardinality(Counted("noAck")) = 0
        /\ Cardinality(Ours) = 0 /\ Cardinality(tracker.pending) = 0
    <3>1. Cardinality({}) = 0
      BY FS_EmptySet
    <3>. QED  BY <1>3, <2>4, <2>5, <3>1, Zenon
  <2>7. Sums(tracker)
    BY <2>4, <2>6 DEF Sums
  <2>8. Sending(tracker) /\ Waiting(tracker) /\ CameEarly(tracker) /\ Late(tracker)
    BY <1>1, <1>3, <2>2, <2>4 DEF Sending, Waiting, CameEarly, Late
  <2>. QED  BY <2>3, <2>7, <2>8 DEF Ledger
<1>. QED  BY <1>4, <1>5, <1>6 DEF TxInv

LEMMA TxHolds == TxInv => StatusesAreOurs
<1>. SUFFICES ASSUME TxInv
              PROVE  StatusesAreOurs
  OBVIOUS
<1>. DEFINE ours == {f \in Frames : accepted[f] >= 0}
            inTime(f) == learnt[f].at >= 0 /\ learnt[f].at - accepted[f] < Timeout
            said(outcome) == {f \in ours \ pushedOut : inTime(f) /\ learnt[f].outcome = outcome}
<1>1. ours = Ours /\ said("acked") = Counted("acked") /\ said("noAck") = Counted("noAck")
  BY DEF Ours, Counted, HasStatus, Timely
<1>2. Sums(tracker)
  BY DEF TxInv, Ledger
<1>. HIDE DEF ours, said
<1>3. /\ Cardinality(ours) = tracker.acked + tracker.noAck + tracker.statusMissing
                               + tracker.cookieMissing + Cardinality(tracker.pending)
      /\ tracker.acked = Cardinality(said("acked")) /\ tracker.noAck = Cardinality(said("noAck"))
  BY <1>1, <1>2, Zenon DEF Sums
<1>. QED  BY <1>3, Zenon DEF StatusesAreOurs, ours, said

-----------------------------------------------------------------------------
\* The host's announcement is repeated only while the host stands by it, at its time and
\* where somebody listens; and every window that has a channel gets its master indication
\* frame, once, however the loop is delayed and the clock jumps (lib.rs, AnnounceCache,
\* rebroadcast_announce, AnnounceScheduler).
THEOREM RepeatsAreTimelyAlways == Spec => []RepeatsAreTimely
<1>1. Init => ReplayInv /\ CadenceInv
  BY ReplayBegins, CadenceBegins DEF Init
<1>2. ReplayInv /\ [Next]_codecsVars => ReplayInv'
  <2>1. [Next]_codecsVars => [ReplayNext]_replayVars
    BY DEF Next, codecsVars, Uploading, OnAir, Accounting, Repeating, Timing, Telling
  <2>. QED  BY <2>1, ReplayStep
<1>3. CadenceInv /\ [Next]_codecsVars => CadenceInv'
  <2>1. [Next]_codecsVars => [CadenceNext]_cadenceVars
    BY DEF Next, codecsVars, Uploading, OnAir, Accounting, Repeating, Timing, Telling
  <2>. QED  BY <2>1, CadenceStep
<1>4. ReplayInv /\ CadenceInv => RepeatsAreTimely
  BY CadenceHolds DEF RepeatsAreTimely, ReplayInv
<1>. QED  BY <1>1, <1>2, <1>3, <1>4, PTL DEF Spec

\* The statistics of sent frames are of the node's own, count each that was accepted once,
\* and count it as acknowledged or not exactly if its own status was read in time, however
\* statuses, answers and other processes' frames come in between; only a full queue costs
\* one (tx_status.rs, Tracker; MgmtTx of lib.rs).
THEOREM StatusesAreOursAlways == Spec => []StatusesAreOurs
<1>1. Init => TxInv
  BY TxInvInit DEF Init
<1>2. TxInv /\ [Next]_codecsVars => TxInv'
  <2>1. [Next]_codecsVars => [TxNext]_txVars
    BY DEF Next, codecsVars, Uploading, OnAir, Accounting, Repeating, Timing, Telling
  <2>. QED  BY <2>1, TxStep
<1>3. TxInv => StatusesAreOurs
  BY TxHolds
<1>. QED  BY <1>1, <1>2, <1>3, PTL DEF Spec

\* A status says the receiver is announced only if it has its port, though the fields are
\* set and read one by one; and a trace is the end of what was kept, of which a gate that
\* is closed lets no more through than each thread's one event (introspect.rs; TraceRing
\* and TraceGate of lib.rs); and the statistics of sent frames are as above.
THEOREM TellsTheTruthAlways == Spec => []TellsTheTruth
<1>1. Init => OfProgram /\ StatusInv /\ TraceInv
  BY StatusBegins, TraceBegins DEF Init, IntroInit, OfProgram
<1>2. OfProgram /\ StatusInv /\ TraceInv /\ [Next]_codecsVars
        => (OfProgram /\ StatusInv /\ TraceInv)'
  <2>1. [Next]_codecsVars => [IntroNext]_introVars
    BY DEF Next, codecsVars, Uploading, OnAir, Accounting, Repeating, Timing, Telling
  <2>2. OfProgram /\ [IntroNext]_introVars => OfProgram'
    BY ProgramStays DEF OfProgram
  <2>. QED  BY <2>1, <2>2, StatusStep, TraceStep
<1>3. OfProgram /\ StatusInv /\ TraceInv /\ StatusesAreOurs => TellsTheTruth
  BY TraceHolds DEF TellsTheTruth, StatusInv
<1>. QED  BY <1>1, <1>2, <1>3, StatusesAreOursAlways, PTL DEF Spec

\* The bar of a transfer is full exactly when its body has arrived, whatever pieces it
\* comes in, wherever the network ends it and whatever the other connection does to the
\* throttle they share (progress.rs, Sink::progress).
THEOREM BarIsHonestAlways == Spec => []BarIsHonest
<1>1. Init => BarInv
  BY TransferBegins DEF Init
<1>2. BarInv /\ [Next]_codecsVars => BarInv'
  <2>1. [Next]_codecsVars => [TransferNext]_transferVars
    BY DEF Next, codecsVars, Uploading, OnAir, Accounting, Repeating, Timing, Telling
  <2>. QED  BY <2>1, TransferStep
<1>3. BarInv => BarIsHonest
  BY BarHolds
<1>. QED  BY <1>1, <1>2, <1>3, PTL DEF Spec
=============================================================================
