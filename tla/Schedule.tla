------------------------------ MODULE Schedule ------------------------------
(***************************************************************************)
(* The channel schedule of an AWDL node                                    *)
(* (native/airdrop/crates/filin-rs/src/lib.rs, modules channel, schedule   *)
(* and state, and roc.rs): pure functions of channel sequences.            *)
(*                                                                         *)
(* A channel sequence gives a channel to every slot of the hop cycle, 0    *)
(* for a slot in which the node is not available.  The operating class     *)
(* that goes with a channel is left out: nothing is decided by it.         *)
(***************************************************************************)
EXTENDS Integers, Sequences, FiniteSets, FiniteSetsExt, SequencesExt

CONSTANTS SeqLen,      \* CHANSEQ_LEN, slots of a hop cycle
          Social,      \* AWDL_SOCIAL_CHANNELS, in their order
          NoIr,        \* channels on which the radio may not transmit
          FillOrder    \* order in which null slots are filled

ASSUME SeqLenAssumption == SeqLen \in Nat \ {0}
ASSUME SocialAssumption == /\ IsInjective(Social)
                           /\ Social \in Seq(1..255) /\ Social # <<>>
                           /\ ToSet(Social) \cap NoIr = {} /\ 0 \notin NoIr
                           /\ FillOrder \in Seq(ToSet(Social)) /\ FillOrder # <<>>

\* A channel is a byte.
Channels == 0..255

Slots == 0..SeqLen - 1
Constant(c) == [i \in Slots |-> c]

\* The n-th element of s, going round.
Cyclic(s, n) == s[(n % Len(s)) + 1]

\* How many slots before i hold a channel of which Is is true.
Before(seq, i, Is(_)) == Cardinality({j \in Slots : j < i /\ Is(seq[j])})

Occurrences(seq, c) == Cardinality({i \in Slots : seq[i] = c})

\* The channels on which every listener of the sequence hears a frame.
DistinctChannels(seq, anchor) ==
    LET some == {seq[i] : i \in Slots} \ {0}
    IN  IF some = {} THEN {anchor} \ {0} ELSE some

\* Slot 0, or the channel of most slots, the lowest on a tie.
MasterAnchor(seq) ==
    LET some == {seq[i] : i \in Slots} \ {0}
        Most == {c \in some : \A d \in some : Occurrences(seq, d) <= Occurrences(seq, c)}
    IN  IF seq[0] # 0 THEN seq[0] ELSE IF some = {} THEN 0 ELSE Min(Most)

\* Mutant: channels the radio may not transmit on are kept.
KeepNoIr(seq) == seq

\* Channels the radio cannot transmit on become social channels in turn.
ReplaceNoIr(seq) ==
    [i \in Slots |-> IF seq[i] \in NoIr
                     THEN Cyclic(Social, Before(seq, i, LAMBDA c : c \in NoIr))
                     ELSE seq[i]]

\* find_injectable_slot: a null slot, else one whose channel occurs again.
Injectable(seq) ==
    LET null  == {i \in Slots : seq[i] = 0}
        twice == {i \in Slots : Occurrences(seq, seq[i]) > 1}
    IN  IF null # {} THEN null ELSE twice

Inject(seq, c) ==
    IF (\E i \in Slots : seq[i] = c) \/ Injectable(seq) = {} THEN seq
    ELSE [seq EXCEPT ![Min(Injectable(seq))] = c]

\* fill_nulls_biased: without anchor the social channels in turn, with one the anchor
\* and a social channel alternate.
FillNulls(seq, anchor) ==
    [i \in Slots |->
        LET n == Before(seq, i, LAMBDA c : c = 0)
        IN  IF seq[i] # 0 THEN seq[i]
            ELSE IF anchor = 0 THEN Cyclic(FillOrder, n)
            ELSE IF n % 2 = 0 THEN anchor
            ELSE Cyclic(FillOrder, n \div 2)]

\* Mutant: a social channel that the master leaves out stays out.
FillOnly(seq, anchor) == FillNulls(seq, anchor)

\* ensure_social_coverage: the social channels one after the other, then the null slots.
EnsureSocial(seq, anchor) ==
    LET injected[i \in 0..Len(Social)] ==
            IF i = 0 THEN seq ELSE Inject(injected[i - 1], Social[i])
    IN  FillNulls(injected[Len(Social)], anchor)

\* There is a slot for each channel of seq that can be used and each social channel.
RoomFor(seq) ==
    Cardinality(({seq[i] : i \in Slots} \ ({0} \cup NoIr)) \cup ToSet(Social)) <= SeqLen

\* What a node hops on that follows a master with sequence seq.
Adopted(seq) ==
    LET usable == ReplaceNoIr(seq)
    IN  EnsureSocial(usable, MasterAnchor(usable))

\* roc::sequence: of four slots the home channel, twice the reserved one, none.
RocSequence(roc, home) ==
    [i \in Slots |-> IF i % 4 = 3 THEN 0
                     ELSE IF i % 4 = 0 /\ home \notin {0, roc} THEN home ELSE roc]

\* How many slots from this one on, this one included, hold channel c.
Run(seq, slot, c) ==
    IF seq[slot] # c THEN 0
    ELSE 1 + Max({n \in 0..SeqLen : \A k \in 1..n : seq[(slot + k) % SeqLen] = c})

\* AwdlState::park_channel: where most of the peers under the top master start, one of
\* the highest number on a tie, if the radio can transmit there.
ParkChannel(starts, top, anchor) ==
    LET usable == {p \in DOMAIN starts : starts[p] \notin NoIr \cup {0}}
        Count(c) == Cardinality({p \in usable : starts[p] = c})
        some   == {starts[p] : p \in usable}
    IN  IF some # {} THEN Max({c \in some : \A d \in some : Count(d) <= Count(c)})
        ELSE IF top \notin NoIr \cup {0} THEN top ELSE anchor
=============================================================================
