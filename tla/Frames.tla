------------------------------- MODULE Frames -------------------------------
(***************************************************************************)
(* Frames of AWDL from one node to another                                 *)
(* (native/airdrop/crates/filin-rs/src: announce_template, data_rx and the *)
(* modules radiotap, ieee80211, awdl, state, rx and runtime of lib).  A    *)
(* node announces itself with the frames of a captured Mac in which it     *)
(* replaces what is the Mac's, and carries the frames of its host.  A      *)
(* frame is heard with the fields of the receiving driver's radio header,  *)
(* perhaps cut where the receiver's buffer ends.  A TLV is a record of the *)
(* fields that someone reads or writes.                                    *)
(***************************************************************************)
EXTENDS Integers, Sequences, SequencesExt

CONSTANTS Sender, Hearer, Bystander,     \* nodes
          Group,                         \* a group address
          NoAddr, Awdl, OtherBss,        \* zeros, AWDL_BSSID, another BSSID
          Captured,                      \* what is in the template where the Mac's own was
          States,                        \* what a sender's state may be
          Radios,                        \* radio headers: sequences of [bit, value]
          Layouts,                       \* how Apple's nodes lay a sequence out
          Aggregates,                    \* what an Apple peer may send at once
          OtherByte,                     \* what stands beside a channel in an entry
          Byte                           \* one more than the greatest value of a byte

Nodes == {Sender, Hearer, Bystander}

ASSUME AddressAssumption ==
    /\ {Group, NoAddr, Awdl, OtherBss, Captured} \cap Nodes = {}
    /\ \A s \in States : s.self = Sender

VARIABLES state,     \* AwdlState of the sender
          air,       \* the frame that is sent, or none
          peer,      \* what the hearer keeps of the sender
          heard,     \* history: the announcement admitted last, the record before it
          delivered,      \* frames given to the hearer's host by the last data frame
          carried    \* history: the frame received last, how much of it, its checksum

frameVars == <<state, air, peer, heard, delivered, carried>>

-----------------------------------------------------------------------------
(* announce_template: TLVs by kind. *)

SyncTlv == 4
ElectionTlv == 5
ServiceTlv == 2
DataPathTlv == 12
ArpaTlv == 16
SequenceTlv == 18
VersionTlv == 21
ElectionV2Tlv == 24

Kinds(subtype) ==
    IF subtype = "psf" THEN <<4, 5, 18, 19, 6, 24, 12, 7, 17, 21, 33>>
                       ELSE <<4, 5, 18, 24, 12, 7, 17, 33, 16, 21, 6, 2, 2>>

FieldsOf(kind) ==
    CASE kind = SyncTlv       -> {"channel", "countdown", "anchor", "master", "aw", "sequence"}
      [] kind = ElectionTlv   -> {"height", "master", "masterMetric", "selfMetric"}
      [] kind = ElectionV2Tlv -> {"master", "sync", "counter", "height", "masterMetric",
                                  "selfMetric", "selfCounter"}
      [] kind = SequenceTlv   -> {"sequence"}
      [] kind = DataPathTlv   -> {"self"}
      [] kind = ArpaTlv       -> {"name"}
      [] kind = VersionTlv    -> {"version"}
      [] OTHER                -> {}

\* The records of a service: names, each with the data that follow it. The host of a
\* pointer's name is none.
Service(ours) ==
    LET name(type, host) == [name |-> TRUE, type |-> type, service |-> ours, host |-> host]
        data(fields) == [name |-> FALSE, v |-> [f \in fields |-> Captured]]
    IN <<name("PTR", NoAddr),   data({"display"}),
         name("SRV", Captured), data({"port", "uuid"}),
         name("TXT", Captured), data({"sid", "at", "dnm", "flags"})>>

\* Spans of a template: each value is the captured Mac's; of two services one is
\* AirDrop's.
Template(subtype) ==
    [i \in DOMAIN Kinds(subtype) |->
        LET kind == Kinds(subtype)[i]
        IN [kind |-> kind,
            v |-> IF kind = ServiceTlv THEN [records |-> Service(i = Len(Kinds(subtype)))]
                                       ELSE [f \in FieldsOf(kind) |-> Captured]]]

\* The fields of a TLV's value that are given, in place of what it has.
Set(tlv, given) == [tlv EXCEPT !.v = [f \in DOMAIN @ |->
                       IF f \in DOMAIN given THEN given[f] ELSE @[f]]]

Master(s) == IF s.master = NoAddr THEN s.self ELSE s.master

\* What is ours in the data behind a name of the type (rewrite_rdata).
OursIn(type, s) ==
    CASE type = "PTR" -> [display |-> s.name]
      [] type = "SRV" -> [uuid |-> s.name]
      [] type = "TXT" -> [sid |-> s.name, at |-> s.name, dnm |-> s.name]

\* rewrite_tlv2: a name that is AirDrop's makes the data after it ours.
RewriteServices(tlv, s) ==
    LET rewrite(acc, r) ==
            IF r.name
            THEN [type |-> r.type, service |-> r.service,
                  out |-> Append(acc.out, IF r.service /\ r.host # NoAddr
                                          THEN [r EXCEPT !.host = s.name] ELSE r)]
            ELSE [acc EXCEPT !.out = Append(@, IF acc.service THEN Set(r, OursIn(acc.type, s)) ELSE r)]
        before == [type |-> "none", service |-> FALSE, out |-> <<>>]
    IN [tlv EXCEPT !.v.records = FoldLeft(rewrite, before, @).out]

\* build, of a TLV: who we are, and the clock.
Patch(tlv, s) ==
    CASE tlv.kind = SyncTlv ->
             Set(tlv, [countdown |-> s.countdown, master |-> Master(s), aw |-> s.aw])
      [] tlv.kind = ElectionTlv -> Set(tlv, [master |-> Master(s)])
      [] tlv.kind = ElectionV2Tlv ->
             Set(tlv, [master |-> Master(s), sync |-> Master(s), counter |-> s.counter,
                       selfCounter |-> s.aw])
      [] tlv.kind = DataPathTlv -> Set(tlv, [self |-> s.self])
      [] tlv.kind = ArpaTlv     -> Set(tlv, [name |-> s.name])
      [] tlv.kind = ServiceTlv  -> RewriteServices(tlv, s)
      [] OTHER                  -> tlv

Simple == 0
Legacy == 1
OpClass == 3

\* The bytes of a channel in a sequence; the other byte is flags or a class.
EntryOf(encoding, channel) ==
    CASE encoding = Simple  -> <<channel>>
      [] encoding = Legacy  -> <<OtherByte, channel>>
      [] encoding = OpClass -> <<channel, OtherByte>>
      [] OTHER              -> <<channel, channel>>

\* Sixteen entries, each for four windows, and nothing to repeat, or another layout.
Encoded(encoding, plain, channels) ==
    [encoding |-> encoding, plain |-> plain,
     bytes |-> FlattenSeq([i \in DOMAIN channels |-> EntryOf(encoding, channels[i])])]

\* apply_runtime_state: the schedule and the election; an older election has a byte of
\* the height.
ApplyRuntimeState(tlv, s) ==
    CASE tlv.kind = SyncTlv ->
             Set(tlv, [channel |-> IF s.current = 0 THEN s.anchor ELSE s.current,
                       anchor |-> IF s.masterAnchor = 0 THEN s.anchor ELSE s.masterAnchor,
                       sequence |-> Encoded(OpClass, TRUE, s.sequence)])
      [] tlv.kind = SequenceTlv -> Set(tlv, [sequence |-> Encoded(OpClass, TRUE, s.sequence)])
      [] tlv.kind = ElectionTlv ->
             Set(tlv, [height |-> s.height % Byte, masterMetric |-> s.masterMetric,
                       selfMetric |-> s.selfMetric])
      [] tlv.kind = ElectionV2Tlv ->
             Set(tlv, [sync |-> s.sync, height |-> s.height, masterMetric |-> s.masterMetric,
                       selfMetric |-> s.selfMetric, selfCounter |-> s.selfCounter])
      [] OTHER -> tlv

Build(subtype, s) == [i \in DOMAIN Template(subtype) |-> Patch(Template(subtype)[i], s)]

\* build_link_announcement: services of other protocols are not announced.
LinkTlvs(subtype, s) == SelectSeq(Build(subtype, s), LAMBDA tlv : tlv.kind # ServiceTlv)

\* build_announce_80211.
Announcement(subtype, s) ==
    LET link == LinkTlvs(subtype, s)
    IN [type |-> "action", subtype |-> subtype, bssid |-> Awdl, plain |-> TRUE,
        source |-> s.self, destination |-> Group,
        rest |-> [i \in DOMAIN link |-> ApplyRuntimeState(link[i], s)]]

\* Apple's nodes announce their sequence in the layout they choose.
Apples(frame, sequence) ==
    [frame EXCEPT !.rest = [i \in DOMAIN @ |->
        IF @[i].kind = SequenceTlv THEN Set(@[i], [sequence |-> sequence]) ELSE @[i]]]

-----------------------------------------------------------------------------
(* Frames of hosts. *)

Ethernet(dst, src, payload) == [dst |-> dst, src |-> src, payload |-> payload]

\* encapsulate_ethernet_payload and build_data_frame.
DataFrame(e) ==
    [type |-> "data", bssid |-> Awdl, plain |-> TRUE, source |-> e.src, destination |-> e.dst,
     rest |-> <<[llc |-> TRUE, e |-> e]>>]

\* What Apple's nodes send: several frames in one, each with addresses of its own.
Aggregate(from, subframes) ==
    [type |-> "aggregate", bssid |-> Awdl, plain |-> TRUE, source |-> from,
     destination |-> Hearer, rest |-> subframes]

OfOtherBss(e) == [DataFrame(e) EXCEPT !.bssid = OtherBss]

\* Frames with a distribution system, encryption, order or fragments.
Unsupported(e) == [DataFrame(e) EXCEPT !.plain = FALSE]

-----------------------------------------------------------------------------
(* The radio header. *)

Laid == (0..17) \cup (19..22)      \* bits with a known layout
FlagsBit == 1
SignalBit == 5

\* The value of a field that is present, and before which no field is unknown.
Field(radio, bit, otherwise) ==
    LET at == {i \in DOMAIN radio : radio[i].bit = bit /\ \A j \in 1..i : radio[j].bit \in Laid}
    IN IF at = {} THEN otherwise ELSE radio[CHOOSE i \in at : TRUE].value

Fcs == [fcs |-> TRUE]

\* What the driver hands over of a frame: a buffer full, the checksum last if it says so.
Heard(radio, frame, n) ==
    LET whole == IF Field(radio, FlagsBit, "none") = "fcs" THEN Append(frame.rest, Fcs)
                                                          ELSE frame.rest
    IN [frame EXCEPT !.rest = SubSeq(whole, 1, IF n < Len(whole) THEN n ELSE Len(whole))]

\* ieee80211_payload_without_fcs.
WithoutFcs(radio, rest) ==
    IF Field(radio, FlagsBit, "none") = "fcs" /\ rest # <<>> THEN Front(rest) ELSE rest

Intact(radio) == Field(radio, FlagsBit, "none") # "bad"

RssiThreshold == -65
RssiGrace == -5
NoSignal == 0

RssiAdmits(signal, known) ==
    signal = NoSignal \/ signal >= RssiThreshold + (IF known THEN RssiGrace ELSE 0)

-----------------------------------------------------------------------------
(* What a hearer keeps of a peer. *)

ElectionFields == {"master", "sync", "counter", "height", "masterMetric", "selfMetric",
                   "selfCounter"}

NewPeer ==
    [known |-> FALSE, supportsV2 |-> FALSE, sentMif |-> FALSE, master |-> Sender, sync |-> Sender,
     counter |-> 0, height |-> 0, masterMetric |-> 0, selfMetric |-> 0, selfCounter |-> 0,
     sequence |-> <<>>, name |-> "", version |-> 0, countdown |-> 0, aw |-> 0]

Merge(p, v, fields) == [f \in DOMAIN p |-> IF f \in fields THEN v[f] ELSE p[f]]

SizeOf(encoding) == IF encoding = Simple THEN 1 ELSE 2

\* chan_num: which byte of an entry is the channel.
ChanNum(encoding, entry) == IF encoding = Legacy THEN entry[2] ELSE entry[1]

Legible(sequence) == sequence.plain /\ sequence.encoding \in {Simple, Legacy, OpClass}

\* parse_channel_sequence.
Channelled(sequence) ==
    LET size == SizeOf(sequence.encoding)
    IN [i \in 1..Len(sequence.bytes) \div size |->
           ChanNum(sequence.encoding, SubSeq(sequence.bytes, (i - 1) * size + 1, i * size))]

\* Mutant: the older election counts whatever else the peer announces.
OlderAlways(p) == TRUE

\* The older election counts for a peer that never announced the newer.
OlderCounts(p) == ~p.supportsV2

\* apply_action, a TLV.
Fold(p, tlv) ==
    CASE tlv.kind = SyncTlv /\ tlv.v.countdown <= 64 -> Merge(p, tlv.v, {"countdown", "aw"})
      [] tlv.kind = ElectionTlv /\ OlderCounts(p) -> Merge(p, tlv.v, FieldsOf(ElectionTlv))
      [] tlv.kind = SequenceTlv /\ Legible(tlv.v.sequence) ->
             [p EXCEPT !.sequence = Channelled(tlv.v.sequence)]
      [] tlv.kind = ElectionV2Tlv -> [Merge(p, tlv.v, FieldsOf(ElectionV2Tlv))
                                         EXCEPT !.supportsV2 = TRUE]
      [] tlv.kind = ArpaTlv -> Merge(p, tlv.v, {"name"})
      [] tlv.kind = VersionTlv -> Merge(p, tlv.v, {"version"})
      [] OTHER -> p

ApplyAction(p, subtype, tlvs) ==
    FoldLeft(Fold, [p EXCEPT !.known = TRUE, !.sentMif = @ \/ subtype = "mif"], tlvs)

\* rx: an action frame of the AWDL network, plain, with a good checksum.
IsAction(radio, frame) ==
    Intact(radio) /\ frame.type = "action" /\ frame.bssid = Awdl /\ frame.plain

-----------------------------------------------------------------------------
(* data_rx. *)

ForHost(dst) == dst \in {Hearer, Group}

\* The complete subframes before the cut; what is left of the checksum is none.
Complete(frame, rest) == SelectSeq(rest, LAMBDA part : part # Fcs)

\* decapsulate_data_frame: what follows the header is the payload, whatever it is.
Single(rest) == [rest[1].e EXCEPT !.payload = IF Len(rest) = 1 THEN @ ELSE "overlong"]

\* decode: what the host gets of a data frame. A subframe that is not AWDL's refuses all.
Deliver(radio, frame, sent) ==
    LET rest == WithoutFcs(radio, frame.rest)
        parts == Complete(sent, rest)
        admitted == /\ Intact(radio) /\ frame.type \in {"data", "aggregate"}
                    /\ frame.bssid = Awdl /\ frame.plain
                    /\ frame.source # Hearer /\ ForHost(frame.destination)
                    /\ \A i \in DOMAIN parts : parts[i].llc
        frames == IF frame.type = "data" THEN <<Single(rest)>>
                                         ELSE [i \in DOMAIN parts |-> parts[i].e]
    IN IF admitted THEN SelectSeq(frames, LAMBDA e : e.src # Hearer /\ ForHost(e.dst)) ELSE <<>>

-----------------------------------------------------------------------------

Silence == [type |-> "none"]
NothingHeard == [type |-> "none"]
NothingCarried == [frame |-> Silence, n |-> 0, intact |-> TRUE]

FramesInit ==
    /\ state \in States
    /\ air = Silence
    /\ peer = NewPeer
    /\ heard = NothingHeard
    /\ delivered = <<>>
    /\ carried = NothingCarried

\* Nothing is on the air; the histories are of one frame.
Quiet ==
    /\ air = Silence
    /\ heard' = NothingHeard /\ delivered' = <<>> /\ carried' = NothingCarried
    /\ UNCHANGED peer

Announce ==
    /\ Quiet /\ UNCHANGED state
    /\ \E subtype \in {"psf", "mif"} :
          \/ air' = Announcement(subtype, state)
          \/ \E layout \in Layouts :
                air' = Apples(Announcement(subtype, state),
                              Encoded(layout.encoding, layout.plain, state.sequence))

\* Data of the sender's host, of others near by and of other networks.
SendData ==
    /\ Quiet /\ UNCHANGED state
    /\ \E src \in {Sender, Hearer}, dst \in {Hearer, Bystander, Group} :
          LET e == Ethernet(dst, src, "packet")
          IN src # dst /\ air' \in {DataFrame(e), OfOtherBss(e), Unsupported(e)}

SendAggregate ==
    /\ Quiet /\ UNCHANGED state
    /\ \E subframes \in Aggregates : air' = Aggregate(Sender, subframes)

\* Elections, the schedule and the clock of the sender go on (modules Election, Node).
Advance ==
    /\ Quiet
    /\ state' \in States \ {state}
    /\ UNCHANGED air

Lose == air # Silence /\ air' = Silence /\ UNCHANGED <<state, peer, heard, delivered, carried>>

\* One frame of the radio, whole or as much as the buffer takes.
Receive ==
    /\ air # Silence
    /\ \E radio \in Radios, n \in 0..Len(air.rest) + 1 :
          LET frame == Heard(radio, air, n)
              tlvs == WithoutFcs(radio, frame.rest)
              action == IsAction(radio, air)
              admitted == RssiAdmits(Field(radio, SignalBit, NoSignal), peer.known)
          IN /\ air.type = "data" => n = Len(air.rest) + 1
             /\ peer' = IF action /\ admitted THEN ApplyAction(peer, air.subtype, tlvs) ELSE peer
             /\ heard' = IF action /\ admitted
                         THEN [type |-> "action", subtype |-> air.subtype, of |-> state,
                               whole |-> n > Len(air.rest), before |-> peer,
                               legible |-> \A i \in DOMAIN air.rest :
                                   air.rest[i].kind = SequenceTlv => Legible(air.rest[i].v.sequence)]
                         ELSE NothingHeard
             /\ delivered' = IF action THEN <<>> ELSE Deliver(radio, frame, air)
             /\ carried' = IF action THEN NothingCarried
                           ELSE [frame |-> air, n |-> n, intact |-> Intact(radio)]
    /\ air' = Silence
    /\ UNCHANGED state

FramesNext == Announce \/ SendData \/ SendAggregate \/ Advance \/ Lose \/ Receive

-----------------------------------------------------------------------------

\* What an announcement says of a sender in state s.
Says(s) ==
    [master |-> Master(s), sync |-> s.sync, counter |-> s.counter, height |-> s.height,
     masterMetric |-> s.masterMetric, selfMetric |-> s.selfMetric, selfCounter |-> s.selfCounter,
     sequence |-> s.sequence, name |-> s.name, countdown |-> s.countdown, aw |-> s.aw]

\* A hearer has of its peer what the peer is: all of it after a whole announcement; after
\* one that was cut, an election that is of one announcement and not of two, once the
\* peer has announced the newer one; its channels, whichever way they are laid out; and
\* never a value of the Mac whose frames are the template, but its version
\* (build_announce_80211 to apply_action).
PeerSeesState ==
    /\ heard.type = "action" /\ heard.whole =>
          \A f \in ElectionFields \cup {"countdown", "aw"}
                    \cup (IF heard.legible THEN {"sequence"} ELSE {})
                    \cup (IF heard.subtype = "mif" THEN {"name"} ELSE {}) :
             peer[f] = Says(heard.of)[f]
    /\ heard.type = "action" => peer.sequence \in {heard.of.sequence, heard.before.sequence}
    /\ heard.type = "action" /\ heard.before.supportsV2 =>
          \/ \A f \in ElectionFields : peer[f] = Says(heard.of)[f]
          \/ \A f \in ElectionFields : peer[f] = heard.before[f]
    /\ \A f \in DOMAIN peer \ {"version"} : peer[f] # Captured

\* Of the Mac whose frames are the template no name is left in the records that make
\* AirDrop's service ours, and other services are as they were (rewrite_tlv2).
ServicesAreOurs ==
    \A tlv \in {Build("mif", state)[i] : i \in {j \in DOMAIN Kinds("mif") : Kinds("mif")[j] = ServiceTlv}} :
        \/ tlv.v.records = Service(FALSE)
        \/ \A i \in DOMAIN tlv.v.records :
              LET r == tlv.v.records[i] IN
              IF r.name THEN r.service /\ r.host # Captured
                        ELSE \A f \in DOMAIN r.v \ {"port", "flags"} : r.v[f] = state.name

\* The host gets the frames for it that were received whole, as they were sent, and no
\* others: those before the cut of an aggregate too, or its sender's TCP never gets an
\* answer (decapsulate_amsdu_data_frames).
HostGetsItsOwn ==
    LET f == carried.frame
        mine(e) == e.src # Hearer /\ e.dst \in {Hearer, Group}
        whole == IF f.type \in {"data", "aggregate"}
                 THEN {i \in DOMAIN f.rest : i < carried.n} ELSE {}
        readable == /\ carried.intact /\ f.type # "none" /\ f.bssid = Awdl /\ f.plain
                    /\ f.source # Hearer /\ f.destination \in {Hearer, Group}
                    /\ \A i \in DOMAIN f.rest : f.rest[i].llc
    IN /\ \A j \in DOMAIN delivered : \E i \in DOMAIN f.rest : delivered[j] = f.rest[i].e /\ mine(delivered[j])
       /\ f.type \in {"data", "aggregate"} /\ readable =>
             \A i \in whole : mine(f.rest[i].e) => \E j \in DOMAIN delivered : delivered[j] = f.rest[i].e
=============================================================================
