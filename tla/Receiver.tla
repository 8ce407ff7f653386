------------------------------ MODULE Receiver ------------------------------
(***************************************************************************)
(* Receiving files (native/airdrop/crates/luftlift-rs/src: server, guard,  *)
(* handlers, progress) from Apple devices, which send any request on any   *)
(* connection, and from the project's own sender (client), which opens a   *)
(* connection per request.  Every connection has a thread; threads share   *)
(* the approvals, the directory of prompts and decisions, and the output   *)
(* directory.  An Ask opens a prompt; the user's answer is a file another  *)
(* process writes.  Bodies and archives are modelled by whether they are   *)
(* whole; how they are read is the subject of module Archive.              *)
(***************************************************************************)
EXTENDS Integers, Sequences, FiniteSets

CONSTANTS Conns,        \* connections
          Apples,       \* addresses of Apple devices
          Senders,      \* addresses of luftlift senders
          Names,        \* leaf names of files
          Payloads,     \* the sequences of names an archive may hold
          MaxActive,    \* connections served at a time
          MaxSuffix,    \* prefixes tried for a name that exists
          NoPeer,
          MaxAsks, MaxUploads   \* bounds: requests of each kind

Peers == Apples \cup Senders
Tokens == 1..MaxAsks
Uploads == 1..MaxUploads
Places == (0..MaxSuffix) \X Names

ASSUME PeersAssumption == NoPeer \notin Peers /\ Apples \cap Senders = {}
ASSUME PayloadsAssumption == Payloads \subseteq Seq(Names) /\ <<>> \notin Payloads
ASSUME BoundAssumption ==
    MaxActive \in Nat \ {0} /\ MaxSuffix \in Nat /\ MaxAsks \in Nat /\ MaxUploads \in Nat

VARIABLES conn,       \* the connections and what their threads do
          approvals,  \* per peer: the ask whose approval an upload may use, and its age
          prompt,     \* per ask: "none", "open", "accepted", "refused"
          tapped,     \* what the user chose last, on its way to the decision file
          decision,   \* the decision files
          asks, uploads,   \* numbers given so far
          consumed,   \* history: uploads that used the approval of an ask
          disk,       \* the output directory: per place the upload whose file is there
          whole,      \* places whose file is written and synchronised
          reported,   \* uploads with a received event
          acked,      \* uploads answered 200
          stage, carries   \* luftlift senders: their leg, and the upload they sent

serverVars == <<conn, approvals, prompt, decision, asks, uploads, consumed, disk, whole,
                  reported, acked>>
receiverVars == <<serverVars, tapped, stage, carries>>

NoConn == [peer |-> NoPeer, phase |-> "free", token |-> 0, upload |-> 0,
           left |-> <<>>, places |-> {}]
NoGrant == [token |-> 0, fresh |-> FALSE]

ReceiverInit ==
    /\ conn = [c \in Conns |-> NoConn]
    /\ approvals = [p \in Peers |-> NoGrant]
    /\ prompt = [t \in Tokens |-> "none"]
    /\ tapped = [t \in Tokens |-> "none"]
    /\ decision = [t \in Tokens |-> "none"]
    /\ asks = 0 /\ uploads = 0
    /\ consumed = [t \in Tokens |-> {}]
    /\ disk = [f \in Places |-> 0]
    /\ whole = {}
    /\ reported = {} /\ acked = {}
    /\ stage = [p \in Senders |-> "discover"]
    /\ carries = [p \in Senders |-> 0]

Open(c) == conn[c].phase # "free"
Active == Cardinality({c \in Conns : Open(c)})
-----------------------------------------------------------------------------
(* The sender's side.  A luftlift sender goes through discover, ask and    *)
(* upload, each on a connection of its own, and stops at the first answer  *)
(* that is not 200 and at a connection that breaks.                        *)

NextStage(s) == CASE s = "discover" -> "ask" [] s = "ask" -> "upload" [] s = "upload" -> "sent"

Hear(p, ok) ==
    stage' = IF p \in Senders /\ stage[p] \in {"discover", "ask", "upload"}
             THEN [stage EXCEPT ![p] = IF ok THEN NextStage(@) ELSE "failed"]
             ELSE stage

\* The request a peer may send next.
MaySend(p, request) == p \in Senders => stage[p] = request

\* A luftlift sender has one connection at a time and one request on it.
Idle(p) == p \in Senders => /\ \A c \in Conns : conn[c].peer # p
                            /\ stage[p] \in {"discover", "ask", "upload"}
-----------------------------------------------------------------------------
(* Connections.                                                            *)

\* The thread of c ends: its slot is free again.
Close(c) == conn' = [conn EXCEPT ![c] = NoConn]

\* An error of reading, writing, storing or decoding closes without an answer.
Broken(c) == Close(c) /\ Hear(conn[c].peer, FALSE)

\* serve_forever: a connection gets a thread of its own ...
Accept(c, p) ==
    /\ ~Open(c) /\ Idle(p) /\ Active < MaxActive
    /\ conn' = [conn EXCEPT ![c] = [NoConn EXCEPT !.peer = p, !.phase = "head"]]
    /\ UNCHANGED <<approvals, prompt, tapped, decision, asks, uploads, consumed, disk, whole,
                   reported, acked, stage, carries>>

\* ... and one over the limit is dropped at once, which ends a luftlift sender.
Refuse(p) ==
    /\ Idle(p) /\ Active >= MaxActive
    /\ Hear(p, FALSE)
    /\ UNCHANGED <<serverVars, tapped, carries>>

\* The peer closes, the link breaks or a read times out.  A thread that waits for
\* the user or stores files does not notice.
Drop(c) ==
    /\ conn[c].phase \in {"head", "asking", "body"}
    /\ Broken(c)
    /\ UNCHANGED <<approvals, prompt, tapped, decision, asks, uploads, consumed, disk, whole,
                   reported, acked, carries>>

\* The answer is written, and lost if the connection is: on a connection that is kept
\* the next head is read, except that a luftlift sender opens another.
Answer(c, status, keep) ==
    \E arrives \in BOOLEAN :
        /\ Hear(conn[c].peer, arrives /\ status = 200)
        /\ IF keep /\ arrives /\ conn[c].peer \notin Senders
           THEN conn' = [conn EXCEPT ![c] = [NoConn EXCEPT !.peer = conn[c].peer, !.phase = "head"]]
           ELSE Close(c)

\* Discover is answered; so is an unknown path (404), and another method (405).
Discover(c) ==
    /\ conn[c].phase = "head" /\ MaySend(conn[c].peer, "discover")
    /\ \/ Answer(c, 200, TRUE)
       \/ conn[c].peer \in Apples /\ (Answer(c, 404, TRUE) \/ Answer(c, 405, FALSE))
    /\ UNCHANGED <<approvals, prompt, tapped, decision, asks, uploads, consumed, disk, whole,
                   reported, acked, carries>>
-----------------------------------------------------------------------------
(* Ask.                                                                    *)

\* Mutant: an approval that is checked and not consumed.
TakeNothing(p) == UNCHANGED approvals

\* take_approval: whatever it finds is gone.
TakeApproval(p) == approvals' = [approvals EXCEPT ![p] = NoGrant]

\* The head of an Ask is read: an older approval of the peer ends with it.
AskHead(c) ==
    /\ conn[c].phase = "head" /\ MaySend(conn[c].peer, "ask")
    /\ asks < MaxAsks
    /\ asks' = asks + 1
    /\ TakeApproval(conn[c].peer)
    /\ conn' = [conn EXCEPT ![c].phase = "asking", ![c].token = asks + 1]
    /\ UNCHANGED <<prompt, tapped, decision, uploads, consumed, disk, whole, reported, acked,
                   stage, carries>>

\* approve: the prompt is opened, unless the body, the number or size of files or the
\* directory is unfit.
AskBody(c) ==
    /\ conn[c].phase = "asking"
    /\ \/ /\ prompt' = [prompt EXCEPT ![conn[c].token] = "open"]
          /\ conn' = [conn EXCEPT ![c].phase = "prompt"]
          /\ UNCHANGED stage
       \/ Answer(c, 403, FALSE) /\ UNCHANGED prompt
    /\ UNCHANGED <<approvals, tapped, decision, asks, uploads, consumed, disk, whole, reported,
                   acked, carries>>

\* grant_approval
Grant(p, token) == approvals' = [approvals EXCEPT ![p] = [token |-> token, fresh |-> TRUE]]

\* Mutant: the prompt waits for the user without a deadline.
DecideWithoutDeadline(c) ==
    LET t == conn[c].token
    IN  /\ conn[c].phase = "prompt" /\ decision[t] # "none"
        /\ IF decision[t] = "accept"
           THEN /\ prompt' = [prompt EXCEPT ![t] = "accepted"]
                /\ Grant(conn[c].peer, t) /\ Answer(c, 200, TRUE)
           ELSE /\ prompt' = [prompt EXCEPT ![t] = "refused"]
                /\ Answer(c, 403, FALSE) /\ UNCHANGED approvals
        /\ decision' = [decision EXCEPT ![t] = "none"]
        /\ UNCHANGED <<tapped, asks, uploads, consumed, disk, whole, reported, acked, carries>>

\* The poll finds a decision, or the deadline has passed; both files are removed.
Decide(c) ==
    LET t == conn[c].token
    IN  /\ conn[c].phase = "prompt"
        /\ \/ decision[t] = "accept"
              /\ prompt' = [prompt EXCEPT ![t] = "accepted"]
              /\ Grant(conn[c].peer, t)
              /\ Answer(c, 200, TRUE)
           \/ prompt' = [prompt EXCEPT ![t] = "refused"]
              /\ UNCHANGED approvals
              /\ Answer(c, 403, FALSE)
        /\ decision' = [decision EXCEPT ![t] = "none"]
        /\ UNCHANGED <<tapped, asks, uploads, consumed, disk, whole, reported, acked, carries>>

\* The user taps on the card, the notification or the dialog while the prompt is there
\* (AirDropStore.decision) ...
Tap(t, choice) ==
    /\ prompt[t] = "open"
    /\ tapped' = [tapped EXCEPT ![t] = choice]
    /\ UNCHANGED <<serverVars, stage, carries>>

\* ... and the decision file is renamed into place, perhaps after the prompt has gone.
Land(t) ==
    /\ tapped[t] # "none"
    /\ decision' = [decision EXCEPT ![t] = tapped[t]]
    /\ tapped' = [tapped EXCEPT ![t] = "none"]
    /\ UNCHANGED <<conn, approvals, prompt, asks, uploads, consumed, disk, whole, reported, acked,
                   stage, carries>>

\* APPROVAL_TTL has passed.
Expire(p) ==
    /\ approvals[p].fresh
    /\ approvals' = [approvals EXCEPT ![p].fresh = FALSE]
    /\ UNCHANGED <<conn, prompt, tapped, decision, asks, uploads, consumed, disk, whole, reported,
                   acked, stage, carries>>
-----------------------------------------------------------------------------
(* Upload.                                                                 *)

\* The head of an Upload is read: without a fresh approval it is refused before
\* its body; Expect: 100-continue is answered and flushed here.
UploadHead(c) ==
    LET p == conn[c].peer
        grant == approvals[p]
    IN  /\ conn[c].phase = "head" /\ MaySend(p, "upload")
        /\ uploads < MaxUploads
        /\ TakeApproval(p)
        /\ IF grant.fresh
           THEN /\ uploads' = uploads + 1
                /\ consumed' = [consumed EXCEPT ![grant.token] = @ \cup {uploads + 1}]
                /\ conn' = [conn EXCEPT ![c].phase = "body", ![c].upload = uploads + 1]
                /\ carries' = IF p \in Senders THEN [carries EXCEPT ![p] = uploads + 1] ELSE carries
                /\ UNCHANGED stage
           ELSE /\ Answer(c, 403, FALSE)
                /\ UNCHANGED <<uploads, consumed, carries>>
        /\ UNCHANGED <<prompt, tapped, decision, asks, disk, whole, reported, acked>>

\* The body is whole and decoded; it holds a complete archive or it does not (400), or
\* is of another type (406).
UploadBody(c) ==
    /\ conn[c].phase = "body"
    /\ \/ \E payload \in Payloads :
             conn' = [conn EXCEPT ![c].phase = "save", ![c].left = payload]
          /\ UNCHANGED stage
       \/ Answer(c, 400, TRUE)
       \/ Answer(c, 406, FALSE)
    /\ UNCHANGED <<approvals, prompt, tapped, decision, asks, uploads, consumed, disk, whole,
                   reported, acked, carries>>

\* Mutant: the file is written under the name it came with.
PlaceOverwritten(name) == {<<0, name>>}

\* The place save uses for a name: the first prefix that is free.
PlaceFor(name) ==
    {<<s, name>> : s \in {n \in 0..MaxSuffix : /\ disk[<<n, name>>] = 0
                                              /\ \A m \in 0..(n - 1) : disk[<<m, name>>] # 0}}

\* The file is created under a new name and written ...
Save(c) ==
    /\ conn[c].phase = "save" /\ conn[c].left # <<>>
    /\ \E place \in PlaceFor(Head(conn[c].left)) :
          /\ disk' = [disk EXCEPT ![place] = conn[c].upload]
          /\ whole' = whole \cup {place}
          /\ conn' = [conn EXCEPT ![c].left = Tail(@), ![c].places = @ \cup {place}]
    /\ UNCHANGED <<approvals, prompt, tapped, decision, asks, uploads, consumed, reported, acked,
                   stage, carries>>

\* ... or is not: its name is unfit or taken too often, or storage fails when the file
\* is there already.  What was saved before stays, and no event tells of it.
SaveFails(c) ==
    /\ conn[c].phase = "save" /\ conn[c].left # <<>>
    /\ \/ \E place \in PlaceFor(Head(conn[c].left)) :
             disk' = [disk EXCEPT ![place] = conn[c].upload] /\ whole' = whole \ {place}
       \/ UNCHANGED <<disk, whole>>
    /\ Broken(c)
    /\ UNCHANGED <<approvals, prompt, tapped, decision, asks, uploads, consumed, reported, acked,
                   carries>>

\* All files are saved: one received event, then 200.
Finish(c) ==
    /\ conn[c].phase = "save" /\ conn[c].left = <<>>
    /\ reported' = reported \cup {conn[c].upload}
    /\ acked' = acked \cup {conn[c].upload}
    /\ Answer(c, 200, FALSE)
    /\ UNCHANGED <<approvals, prompt, tapped, decision, asks, uploads, consumed, disk, whole,
                   carries>>
-----------------------------------------------------------------------------
Serve(c) ==
    \/ Discover(c) \/ AskHead(c) \/ AskBody(c) \/ Decide(c)
    \/ UploadHead(c) \/ UploadBody(c) \/ Save(c) \/ SaveFails(c) \/ Finish(c)

ReceiverNext ==
    \/ \E c \in Conns : Serve(c) \/ Drop(c) \/ \E p \in Peers : Accept(c, p)
    \/ \E t \in Tokens : Land(t) \/ \E choice \in {"accept", "reject"} : Tap(t, choice)
    \/ \E p \in Peers : Expire(p) \/ Refuse(p)

\* A thread in the middle of a request goes on: the prompt has a deadline, files are stored
\* or not, and a read times out.
Attend(c) == conn[c].phase # "head" /\ (Serve(c) \/ Drop(c))

ReceiverFairness == \A c \in Conns : WF_receiverVars(Attend(c))

ReceiverSpec == ReceiverInit /\ [][ReceiverNext]_receiverVars /\ ReceiverFairness
-----------------------------------------------------------------------------
(* Properties.                                                             *)

\* One Ask that the user accepted authorizes exactly one Upload: no approval is used
\* twice, on one connection or on several, and none without the user's consent.
UploadsHaveConsent ==
    \A t \in Tokens :
        /\ Cardinality(consumed[t]) <= 1
        /\ consumed[t] # {} => prompt[t] = "accepted"

\* The same over time: the receiver implements what the user may rely on, however asks and
\* uploads of several connections of a peer overlap, expire or break.
Contract == INSTANCE ConsentContract
              WITH Asks <- Tokens, Transfers <- Uploads, answer <- prompt, uses <- consumed
KeepsConsent == Contract!Spec

FilesOf(u) == {f \in Places : disk[f] = u}

\* An upload that was answered 200, and so one a luftlift sender reports as sent, is
\* on disk as a whole: every file under a name of its own, written and reported, however
\* uploads with the same names overlap, and stays so.
AckedIsSaved ==
    /\ \A u \in acked : /\ u \in reported
                        /\ FilesOf(u) \subseteq whole
                        /\ \E payload \in Payloads :
                              /\ Cardinality(FilesOf(u)) = Len(payload)
                              /\ {f[2] : f \in FilesOf(u)} = {payload[i] : i \in 1..Len(payload)}
    /\ \A p \in Senders : stage[p] = "sent" => carries[p] \in acked

\* Whatever the user does or leaves undone, and wherever the peer stops, a thread that
\* took up a request gets rid of it: a user who does not answer does not wedge a slot.
RequestsEnd ==
    \A c \in Conns : conn[c].phase \in {"asking", "prompt", "body", "save"} ~>
                     conn[c].phase \in {"free", "head"}
=============================================================================
