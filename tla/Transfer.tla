------------------------------ MODULE Transfer ------------------------------
(***************************************************************************)
(* Uploads on their way (native/airdrop/crates/luftlift-rs/src: server,    *)
(* http, handlers, progress, client): each connection's thread reads the   *)
(* head, then the body piece by piece, reports its progress through the    *)
(* one sink they share, decodes the layers and answers.  The network may   *)
(* end a connection after any part.  Consent is module Receiver's.         *)
(***************************************************************************)
EXTENDS Archive

CONSTANTS Uploads,     \* what the first connection may carry
          Beside,      \* what the second carries
          Piece        \* RECV_CHUNK in parts

ASSUME UploadsAssumption ==
    /\ Piece \in Nat \ {0}
    /\ \A u \in Uploads \cup {Beside} :
          /\ u.files \in Seq([name : STRING, size : Nat])
          /\ {u.blocks, u.parts} \subseteq Nat \ {0} /\ u.cut \in Nat
          /\ u.framing \in {"length", "chunked", "none"}

Conns == 1..2

VARIABLES upload,      \* per connection: files, layers, faults and where the network ends it
          conn,        \* phase, parts not yet read, parts wanted, parts read, payload read
          throttle,    \* the sink's, shared: started, percent, due (250 ms since the last event)
          shown,       \* per connection: the last progress event, received of total
          answered,       \* per connection: the status its sender has read, 0 for none
          received     \* per connection: the files its handler returned

transferVars == <<upload, conn, throttle, shown, answered, received>>

-----------------------------------------------------------------------------
(* The sender. *)

Archived(u) == BuildOdc(u.files, u.leadingDir)
Body(u) == IF u.type = "dvzip" THEN CpioToDvzip(Archived(u), u.blocks, u.spoiled) ELSE Archived(u)
Wire(u) == IF u.framing = "chunked" THEN ChunkFrame(Body(u), u.parts, u.outOfStep) ELSE Body(u)

\* What the network delivers before the stream ends.
Delivered(u) == SubSeq(Wire(u), 1, IF u.cut < Len(Wire(u)) THEN u.cut ELSE Len(Wire(u)))

NoBar == [received |-> 0, total |-> 0]
Unread == [phase |-> "head", left |-> <<>>, want |-> 0, raw |-> <<>>, payload |-> 0]
Rested == [started |-> FALSE, percent |-> 0, due |-> TRUE]

TransferInit ==
    /\ upload \in {<<u, Beside>> : u \in Uploads}
    /\ conn = [c \in Conns |-> [Unread EXCEPT !.left = Delivered(upload[c])]]
    /\ throttle = Rested
    /\ shown = [c \in Conns |-> NoBar]
    /\ answered = [c \in Conns |-> 0]
    /\ received = [c \in Conns |-> <<>>]

-----------------------------------------------------------------------------
(* The sink. *)

Percent(got, total) == IF total = 0 THEN -1
                       ELSE ((IF got < total THEN got ELSE total) * 100) \div total

ShouldEmit(got, total) ==
    \/ ~throttle.started
    \/ Percent(got, total) # throttle.percent /\ Percent(got, total) >= 0
    \/ throttle.due

\* Mutant: the last update is throttled like the others.
ProgressUnforced(c, got, total) ==
    IF ShouldEmit(got, total)
    THEN /\ throttle' = [started |-> TRUE, percent |-> Percent(got, total), due |-> FALSE]
         /\ shown' = [shown EXCEPT ![c] = [received |-> got, total |-> total]]
    ELSE UNCHANGED <<throttle, shown>>

Progress(c, got, total) ==
    IF ShouldEmit(got, total) \/ (total > 0 /\ got >= total)
    THEN /\ throttle' = [started |-> TRUE, percent |-> Percent(got, total), due |-> FALSE]
         /\ shown' = [shown EXCEPT ![c] = [received |-> got, total |-> total]]
    ELSE UNCHANGED <<throttle, shown>>

\* PROGRESS_MIN_INTERVAL passes.
Tick ==
    /\ throttle.started /\ ~throttle.due
    /\ throttle' = [throttle EXCEPT !.due = TRUE]
    /\ UNCHANGED <<upload, conn, shown, answered, received>>

-----------------------------------------------------------------------------
(* The thread of a connection. *)

Fail(c) ==
    /\ conn' = [conn EXCEPT ![c].phase = "broken"]
    /\ UNCHANGED <<throttle, shown, received>>

Reads(c, n, phase) ==
    conn' = [conn EXCEPT ![c].phase = phase, ![c].left = SubSeq(@, n + 1, Len(@)),
                         ![c].raw = @ \o SubSeq(conn[c].left, 1, n)]

\* read_headers, and read_body's choice by the framing the head announces.
ReadHead(c) ==
    LET length == Len(Wire(upload[c]))
        begins(phase, want) ==
            /\ conn' = [conn EXCEPT ![c].phase = phase, ![c].want = want]
            /\ throttle' = Rested
            /\ UNCHANGED <<shown, received>>
    IN /\ conn[c].phase = "head"
       /\ \/ upload[c].framing = "length" /\ length > MaxBody /\ Fail(c)
          \/ upload[c].framing = "length" /\ length <= MaxBody /\ begins("body", length)
          \/ upload[c].framing = "chunked" /\ begins("size", 0)
          \/ /\ upload[c].framing = "none"
             /\ conn' = [conn EXCEPT ![c].phase = "whole"]
             /\ UNCHANGED <<throttle, shown, received>>
       /\ UNCHANGED <<upload, answered>>

\* read_exact_with_progress: pieces of a body whose length is known.
ReadBody(c) ==
    LET n == IF conn[c].want < Piece THEN conn[c].want ELSE Piece
        got == Len(conn[c].raw) + n
    IN /\ conn[c].phase = "body"
       /\ \/ Len(conn[c].left) < n /\ Fail(c)
          \/ /\ Len(conn[c].left) >= n
             /\ conn' = [conn EXCEPT ![c].phase = IF conn[c].want = n THEN "whole" ELSE "body",
                                     ![c].want = @ - n,
                                     ![c].left = SubSeq(@, n + 1, Len(@)),
                                     ![c].raw = @ \o SubSeq(conn[c].left, 1, n)]
             /\ Progress(c, got, Len(Wire(upload[c])))
             /\ UNCHANGED received
       /\ UNCHANGED <<upload, answered>>

\* A size line; the last chunk takes one line of its trailer with it.
ReadSize(c) ==
    LET left == conn[c].left
        isHex == left # <<>> /\ left[1].k = "size"
    IN /\ conn[c].phase = "size"
       /\ \/ ~isHex /\ Fail(c)
          \/ /\ isHex /\ left[1].n = 0
             /\ Reads(c, IF Len(left) > 1 THEN 2 ELSE 1, "whole")
             /\ UNCHANGED <<throttle, shown, received>>
          \/ /\ isHex /\ left[1].n > 0
             /\ IF left[1].n > MaxBody - Len(conn[c].raw) - 1 THEN Fail(c)
                ELSE /\ conn' = [conn EXCEPT ![c].phase = "payload", ![c].want = left[1].n,
                                             ![c].left = Tail(@), ![c].raw = Append(@, left[1])]
                     /\ UNCHANGED <<throttle, shown, received>>
       /\ UNCHANGED <<upload, answered>>

\* read_chunk_payload, and the two bytes after the last piece of a chunk. The total of
\* a chunked body is not known: the sink is told 0.
ReadPayload(c) ==
    LET n == IF conn[c].want < Piece THEN conn[c].want ELSE Piece
        last == conn[c].want = n
        take == IF last THEN n + 1 ELSE n
    IN /\ conn[c].phase = "payload"
       /\ \/ Len(conn[c].left) < n /\ Fail(c)
          \/ /\ Len(conn[c].left) >= n
             /\ IF last /\ Len(conn[c].left) = n
                THEN conn' = [conn EXCEPT ![c].phase = "broken"]
                ELSE conn' = [conn EXCEPT ![c].phase = IF last THEN "size" ELSE "payload",
                                          ![c].want = @ - n,
                                          ![c].payload = @ + n,
                                          ![c].left = SubSeq(@, take + 1, Len(@)),
                                          ![c].raw = @ \o SubSeq(conn[c].left, 1, take)]
             /\ Progress(c, conn[c].payload + n, 0)
             /\ UNCHANGED received
       /\ UNCHANGED <<upload, answered>>

\* Mutant: whatever the archive holds before it ends is taken for the whole of it.
DecodeAnything(u, body) ==
    LET cpio == IF u.type = "dvzip" THEN DvzipToCpio(body) ELSE body
    IN ReadOdc(cpio)

\* decode_upload_body.
Decode(u, body) ==
    LET cpio == IF u.type = "dvzip" THEN DvzipToCpio(body) ELSE body
    IN IF CompleteCpio(cpio) THEN ReadOdc(cpio) ELSE <<>>

\* The body parse_request finds in what was read.
Parsed(c) ==
    CASE upload[c].framing = "chunked" -> DecodeChunked(conn[c].raw)
      [] upload[c].framing = "length"  -> [ok |-> TRUE, body |-> conn[c].raw]
      [] OTHER                         -> [ok |-> TRUE, body |-> <<>>]

\* parse_request, handle_upload and the answer, which the sender reads past the 100 it
\* may have got before; a connection the network ended does not carry it.
Handle(c) ==
    LET u == upload[c]
        parsed == Parsed(c)
        files == IF u.type = "other" THEN <<>> ELSE Decode(u, parsed.body)
        status == CASE u.type = "other" -> 406 [] files = <<>> -> 400 [] OTHER -> 200
    IN /\ conn[c].phase = "whole"
       /\ IF parsed.ok
          THEN /\ conn' = [conn EXCEPT ![c].phase = "done"]
               /\ received' = [received EXCEPT ![c] = files]
               /\ answered' \in {[answered EXCEPT ![c] = status], answered}
          ELSE conn' = [conn EXCEPT ![c].phase = "broken"] /\ UNCHANGED <<answered, received>>
       /\ UNCHANGED <<upload, throttle, shown>>

TransferNext == \/ Tick
        \/ \E c \in Conns : \/ ReadHead(c) \/ ReadBody(c) \/ ReadSize(c)
                            \/ ReadPayload(c) \/ Handle(c)

-----------------------------------------------------------------------------

\* The files of an upload as its receiver should have them.
Sent(u) ==
    LET file(i) == [name |-> u.files[i].name,
                    data |-> [n \in 1..u.files[i].size |-> [k |-> "data", of |-> i, unit |-> n]]]
    IN [i \in DOMAIN u.files |-> file(i)]

\* The block whose stream does not inflate is exactly as long as some entries in a row.
HidesEntries(u) ==
    /\ u.type = "dvzip" /\ u.spoiled # 0
    /\ \E first, last \in DOMAIN u.files :
          Len(Slice(Archived(u), u.spoiled, u.blocks))
              = Len(BuildOdc(SubSeq(u.files, first, last), FALSE)) - Len(BuildOdc(<<>>, FALSE))

\* What the receiver stores of an upload is what was sent, each file whole, wherever the
\* network ends the stream and whichever layer the sender spoils (decode_upload_body,
\* complete_cpio): but a block that does not inflate is skipped, which shows only if
\* what is missing is not as long as some entries in a row.
UploadIsWhole ==
    \A c \in Conns : received[c] # <<>> => received[c] = Sent(upload[c]) \/ HidesEntries(upload[c])

\* The bar of a transfer is full exactly when its body has arrived: not before, though a
\* chunked body has no length, and at the latest then, though the throttle may have
\* spent its percentage or its time on another connection (Sink::progress).
BarIsHonest ==
    \A c \in Conns :
        LET arrived == conn[c].phase \in {"whole", "done"} IN
        /\ shown[c].total > 0 /\ shown[c].received >= shown[c].total => arrived
        /\ arrived /\ upload[c].framing = "length" =>
               shown[c] = [received |-> Len(Wire(upload[c])), total |-> Len(Wire(upload[c]))]
=============================================================================
