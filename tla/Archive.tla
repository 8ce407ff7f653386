------------------------------ MODULE Archive ------------------------------
(***************************************************************************)
(* The layers of an upload (native/airdrop/crates/luftlift-rs/src: cpio,   *)
(* dvzip, chunked, guard, client): an ODC archive of the files, cut into   *)
(* zlib blocks, sent as one body or in chunks.  A layer is a sequence of   *)
(* parts: the header, the name, a unit of the data of an entry; the length *)
(* and the stream of a block; the size line, the payload, the line end of  *)
(* a chunk.  What the formats' digits say is kept, their digits are not.   *)
(***************************************************************************)
EXTENDS Integers, Sequences, SequencesExt

CONSTANTS MaxBody,       \* parts of a body the receiver takes
          MaxExpanded    \* parts of an archive it inflates

ASSUME LimitsAssumption == MaxBody \in Nat /\ MaxExpanded \in Nat

Trailer == "TRAILER!!!"
DotDir == "."

Header(size, dir) == [k |-> "header", size |-> size, dir |-> dir]
Entry(name, size, dir, ino) ==
    <<Header(size, dir), [k |-> "name", name |-> name]>>
        \o [i \in 1..size |-> [k |-> "data", of |-> ino, unit |-> i]]

\* The archive of files, which have a name and a size, as the sender builds it;
\* Apple's senders lead with an entry for the directory.
BuildOdc(files, leadingDir) ==
    (IF leadingDir THEN Entry(DotDir, 0, TRUE, 0) ELSE <<>>)
        \o FlattenSeq([i \in DOMAIN files |-> Entry(files[i].name, files[i].size, FALSE, i)])
        \o Entry(Trailer, 0, FALSE, 0)

IsHeader(a, pos) == pos + 1 <= Len(a) /\ a[pos].k = "header"

\* The archive is walked to the end of its trailer, and every entry lies within it.
CompleteCpio(a) ==
    LET walk[pos \in 1..Len(a) + 1] ==
            /\ IsHeader(a, pos) /\ a[pos + 1].k = "name"
            /\ IF a[pos + 1].name = Trailer
               THEN a[pos].size = 0
               ELSE pos + 2 + a[pos].size <= Len(a) + 1 /\ walk[pos + 2 + a[pos].size]
    IN walk[1]

\* The entries up to the trailer or the first that is malformed; directories are skipped.
ReadOdc(a) ==
    LET name(pos) == IF a[pos + 1].k = "name" THEN a[pos + 1].name ELSE ""
        next(pos) == pos + 2 + a[pos].size
        file(pos) == [name |-> name(pos), data |-> SubSeq(a, pos + 2, next(pos) - 1)]
        walk[pos \in 1..Len(a) + 1] ==
            IF ~IsHeader(a, pos) THEN <<>>
            ELSE IF next(pos) > Len(a) + 1 \/ name(pos) = Trailer THEN <<>>
            ELSE IF a[pos].dir \/ name(pos) = DotDir THEN walk[next(pos)]
            ELSE <<file(pos)>> \o walk[next(pos)]
    IN walk[1]

\* The nth of the contiguous slices a sender compresses one by one.
Slice(a, n, of) ==
    LET count == IF of > Len(a) THEN Len(a) ELSE of
        block == Len(a) \div count
    IN SubSeq(a, (n - 1) * block + 1, IF n >= count THEN Len(a) ELSE n * block)

\* Each block: its length, then its stream. The sender may spoil the stream of one.
CpioToDvzip(a, blocks, spoiled) ==
    FlattenSeq([n \in 1..blocks |->
        <<[k |-> "length"], [k |-> "stream", good |-> n # spoiled, of |-> Slice(a, n, blocks)]>>])

\* Blocks are inflated until one is short; one that does not inflate is skipped,
\* and more than the limit is nothing.
DvzipToCpio(d) ==
    LET walk[pos \in 1..Len(d) + 2] ==
            IF pos + 1 > Len(d) \/ d[pos].k # "length" THEN <<>>
            ELSE (IF d[pos + 1].good THEN d[pos + 1].of ELSE <<>>) \o walk[pos + 2]
        out == walk[1]
    IN IF Len(out) > MaxExpanded THEN <<>> ELSE out

SizeLine(n) == [k |-> "size", n |-> n]
LineEnd == [k |-> "crlf"]

\* The body in chunks of so many parts, the last chunk and its trailer. A sender out
\* of step announces one part less than the first chunk has.
ChunkFrame(body, parts, outOfStep) ==
    LET count == (Len(body) + parts - 1) \div parts
        chunk(i) == SubSeq(body, (i - 1) * parts + 1, IF i = count THEN Len(body) ELSE i * parts)
        size(i) == Len(chunk(i)) - (IF outOfStep /\ i = 1 THEN 1 ELSE 0)
    IN FlattenSeq([i \in 1..count |-> <<SizeLine(size(i))>> \o chunk(i) \o <<LineEnd>>])
           \o <<SizeLine(0), LineEnd>>

Refused == [ok |-> FALSE, body |-> <<>>]

\* The body of a framed one: a size line that is none, a short chunk or a missing line
\* end refuses it.
DecodeChunked(raw) ==
    LET walk[pos \in 1..Len(raw) + 1] ==
            IF pos > Len(raw) THEN Refused
            ELSE IF raw[pos].k # "size" THEN Refused
            ELSE LET end == pos + raw[pos].n
                 IN IF raw[pos].n = 0 THEN [ok |-> TRUE, body |-> <<>>]
                    ELSE IF end + 1 > Len(raw) \/ raw[end + 1] # LineEnd THEN Refused
                    ELSE LET rest == walk[end + 2]
                         IN [rest EXCEPT !.body = SubSeq(raw, pos + 1, end) \o @]
    IN walk[1]
=============================================================================
