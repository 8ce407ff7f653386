------------------------------- MODULE Replay -------------------------------
(***************************************************************************)
(* The announcement a node repeats for its host                            *)
(* (native/airdrop/crates/filin-rs/src: mdns_cache, AnnounceCache,         *)
(* classify_mdns, rebroadcast_announce and the TAP branch of run in lib).  *)
(* The host's mDNS response is kept and sent again on every visit of a     *)
(* channel where somebody may listen, until it is withdrawn or too old.    *)
(* A frame is a record of what the code asks of it.                        *)
(***************************************************************************)
EXTENDS Integers, Sequences, FiniteSets

CONSTANTS HostFrames,    \* frames the host may send
          Visits,        \* what an iteration may find: channel, master's anchor, guard open
          Social,        \* AWDL_SOCIAL_CHANNEL_NUMS
          CacheTtl,      \* ANNOUNCE_CACHE_TTL_US
          TtlCap,        \* the 45 seconds a record's own time to live is cut to
          MinGap,        \* ANNOUNCE_REBROADCAST_MIN_GAP_US
          MaxClock       \* bound on time

ASSUME ReplayAssumption ==
    /\ {CacheTtl, TtlCap, MaxClock} \subseteq Nat /\ MinGap \in Nat \ {0} /\ 0 \notin Social
    /\ \A f \in HostFrames :
          {f.self, f.toMdns, f.plain, f.response, f.fault} \subseteq BOOLEAN /\ f.ttls \subseteq Nat
    /\ \A v \in Visits : v.open \in BOOLEAN

Channels == Social \cup {v.channel : v \in Visits}

VARIABLES clock,
          cache,       \* AnnounceCache: frame, cachedAt, frameTtl, lastSent
          standing,        \* history: the frame the host stands by, and since when
          replay,      \* history: what this iteration sent again, and where
          spoken       \* history: per channel, the time and the cache's age group of the last

replayVars == <<clock, cache, standing, replay, spoken>>

NoFrame == [k |-> "none"]
Never == -MinGap
NoReplay == [frame |-> NoFrame, channel |-> 0]

ReplayInit ==
    /\ clock = 0
    /\ cache = [frame |-> NoFrame, cachedAt |-> 0, frameTtl |-> CacheTtl,
                lastSent |-> [c \in Channels |-> Never]]
    /\ standing = [frame |-> NoFrame, at |-> 0]
    /\ replay = NoReplay
    /\ spoken = [c \in Channels |-> Never]

-----------------------------------------------------------------------------
(* mdns_cache. *)

Keep == "keep"
Clear == "clear"
Replace == "replace"

MinOf(S) == CHOOSE x \in S : \A y \in S : x <= y
Lesser(x, y) == IF x <= y THEN x ELSE y

\* dns_decision and classify: the frame is a whole, plain response between the two mDNS
\* ports, or nothing is known of it.
Classify(f) ==
    IF f.plain /\ ~f.response THEN Keep
    ELSE IF f.plain /\ ~f.fault /\ f.ttls # {} /\ 0 \notin f.ttls THEN Replace
    ELSE Clear

MaxAge(f) == Lesser(MinOf(f.ttls), TtlCap)

\* classify_mdns: from this host, to the mDNS port.
IsSelfMdns(f) == f.self /\ f.toMdns

\* A frame that is withdrawn takes the times of its repetitions along.
Forgotten(c) == [c EXCEPT !.frame = NoFrame, !.lastSent = [x \in Channels |-> Never]]

\* AnnounceCache::refresh.
Refresh(c, f) == [c EXCEPT !.frame = f, !.cachedAt = clock, !.frameTtl = CacheTtl]

\* Mutant: the record's own time to live is forgotten by the refresh.
ObserveLonger(c, f) ==
    IF Classify(f) = Keep THEN c
    ELSE IF Classify(f) = Clear THEN Forgotten(c)
    ELSE Refresh(c, f)

\* AnnounceCache::observe_mdns.
Observe(c, f) ==
    IF Classify(f) = Keep THEN c
    ELSE IF Classify(f) = Clear THEN Forgotten(c)
    ELSE [Refresh(c, f) EXCEPT !.frameTtl = Lesser(CacheTtl, MaxAge(f))]

-----------------------------------------------------------------------------

\* What the host stands by: its last response, until it withdraws a record of it or sends
\* one that cannot be repeated.
Stands(f) ==
    IF ~IsSelfMdns(f) \/ Classify(f) = Keep THEN standing
    ELSE [frame |-> IF Classify(f) = Replace THEN f ELSE NoFrame, at |-> clock]

\* A multicast frame of the host, which run also sends and spreads (module Node).
FromHost ==
    \E f \in HostFrames :
        /\ cache' = IF IsSelfMdns(f) THEN Observe(cache, f) ELSE cache
        /\ standing' = Stands(f)
        /\ spoken' = IF IsSelfMdns(f) /\ Classify(f) = Clear THEN [c \in Channels |-> Never] ELSE spoken
        /\ replay' = NoReplay
        /\ UNCHANGED clock

\* AnnounceCache::is_live and the expiry that rebroadcast begins with.
IsLive(c) == c.frame # NoFrame /\ clock - c.cachedAt < c.frameTtl

\* rebroadcast_announce: outside the guard, where the social channels or the master are;
\* the time is taken whether or not the radio accepts the frame.
Rebroadcast ==
    \E v \in Visits, accepts \in BOOLEAN :
        LET allowed == v.channel \in Social \cup ({v.anchor} \ {0})
            due == /\ v.channel # 0 /\ v.open /\ allowed /\ IsLive(cache)
                   /\ clock - cache.lastSent[v.channel] >= MinGap
        IN /\ cache' = [cache EXCEPT
                           !.frame = IF v.channel # 0 /\ v.open /\ ~IsLive(cache) THEN NoFrame ELSE @,
                           !.lastSent = IF due THEN [@ EXCEPT ![v.channel] = clock] ELSE @]
           /\ replay' = IF due /\ accepts THEN [frame |-> cache.frame, channel |-> v.channel,
                                                anchor |-> v.anchor, gap |-> clock - spoken[v.channel]]
                                          ELSE NoReplay
           /\ spoken' = IF due /\ accepts THEN [spoken EXCEPT ![v.channel] = clock] ELSE spoken
           /\ UNCHANGED <<clock, standing>>

Later ==
    /\ clock < MaxClock
    /\ clock' = clock + 1
    /\ replay' = NoReplay
    /\ UNCHANGED <<cache, standing, spoken>>

ReplayNext == FromHost \/ Rebroadcast \/ Later

-----------------------------------------------------------------------------

\* Only what the host stands by is repeated: never what it has withdrawn or replaced,
\* nor longer than any record in it lives or the cache keeps it; where somebody may listen, and
\* not again on a channel before the gap unless the host withdrew something between
\* (AnnounceCache, rebroadcast_announce).
ReplaysAreLive ==
    replay.frame # NoFrame =>
        /\ replay.frame = standing.frame
        /\ \A ttl \in standing.frame.ttls \cup {TtlCap, CacheTtl} : clock - standing.at < ttl
        /\ replay.channel \in Social \cup {replay.anchor}
        /\ replay.gap >= MinGap
=============================================================================
