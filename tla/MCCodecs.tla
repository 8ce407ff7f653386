------------------------------ MODULE MCCodecs ------------------------------
EXTENDS Codecs

(* Uploads: three sets of files under every layer, and every other cut. *)

a == [name |-> "a", size |-> 1]
b == [name |-> "b", size |-> 0]
c3 == [name |-> "c", size |-> 3]

Framings == {[framing |-> f, parts |-> 1, outOfStep |-> FALSE] : f \in {"length", "none"}}
    \cup [framing: {"chunked"}, parts: {3, 100}, outOfStep: BOOLEAN]
Layers == [type: {"cpio", "other"}, blocks: {1}, spoiled: {0}]
    \cup {l \in [type: {"dvzip"}, blocks: 1..4, spoiled: 0..4] : l.spoiled <= l.blocks}
Carrying(layers, cuts) ==
    {[files |-> fs, leadingDir |-> d, type |-> l.type, blocks |-> l.blocks, spoiled |-> l.spoiled,
      framing |-> f.framing, parts |-> f.parts, outOfStep |-> f.outOfStep, cut |-> cut] :
        fs \in {<<a>>, <<a, b>>, <<c3, a>>}, d \in BOOLEAN, l \in layers, f \in Framings,
        cut \in cuts}
MCUploads == Carrying(Layers, {100}) \cup Carrying({l \in Layers : l.spoiled = 0}, {1, 3, 4, 7, 9})
MCBeside == [files |-> <<a>>, leadingDir |-> FALSE, type |-> "cpio", blocks |-> 1, spoiled |-> 0,
             framing |-> "length", parts |-> 1, outOfStep |-> FALSE, cut |-> 100]

(* Frames: two states of the sender, eight radio headers. *)

Present(bit, value) == [bit |-> bit, value |-> value]
MCRadios == {<<Present(0, "tsft"), Present(1, flags), Present(2, "rate"), Present(5, signal)>> :
                 flags \in {"none", "fcs", "bad"}, signal \in {-60, -68}}
            \cup {<<Present(1, "fcs"), Present(18, "xchannel"), Present(5, -80)>>,
                  <<Present(2, "rate")>>}
MCLayouts == {[encoding |-> 0, plain |-> TRUE], [encoding |-> 1, plain |-> TRUE],
              [encoding |-> 3, plain |-> FALSE], [encoding |-> 7, plain |-> TRUE]}
St(master, sync, height, m, seq, aw) ==
    [self |-> Sender, master |-> master, sync |-> sync, counter |-> m + 1, height |-> height,
     masterMetric |-> m, selfMetric |-> 5, selfCounter |-> aw + 1, sequence |-> seq,
     current |-> seq[1], anchor |-> 6, masterAnchor |-> 0, name |-> "uuid",
     countdown |-> aw * 16, aw |-> aw]
MCStates == {St(NoAddr, Sender, 0, 5, <<6, 44>>, 1), St(Bystander, Hearer, 300, 9, <<149, 0>>, 3)}
Sub(llc, dst, src, p) == [llc |-> llc, e |-> [dst |-> dst, src |-> src, payload |-> p]]
MCAggregates ==
    {<<Sub(TRUE, Hearer, Sender, 1), Sub(TRUE, Bystander, Sender, 2), Sub(TRUE, Hearer, Sender, 3)>>,
     <<Sub(TRUE, Hearer, Sender, 1), Sub(FALSE, Hearer, Sender, 2)>>,
     <<Sub(TRUE, Group, Hearer, 1), Sub(TRUE, Hearer, Sender, 4)>>}

(* The repeated announcement. *)

Dns(id, ttls) == [id |-> id, self |-> TRUE, toMdns |-> TRUE, plain |-> TRUE, response |-> TRUE,
                  fault |-> FALSE, ttls |-> ttls]
MCHostFrames ==
    {Dns(1, {2, 9}), Dns(2, {9}), Dns(3, {0, 9}), Dns(4, {}),
     [Dns(5, {9}) EXCEPT !.fault = TRUE], [Dns(6, {9}) EXCEPT !.plain = FALSE],
     [Dns(7, {9}) EXCEPT !.response = FALSE], [Dns(8, {9}) EXCEPT !.self = FALSE],
     [Dns(9, {9}) EXCEPT !.toMdns = FALSE]}
MCVisits == [channel: {0, 6, 52}, anchor: {0, 52}, open: BOOLEAN]

MCSlots == <<TRUE, FALSE, TRUE>>
=============================================================================
