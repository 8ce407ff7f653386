---------------------------- MODULE AirdropProofs ----------------------------
(***************************************************************************)
(* Proofs about the two programs of native/airdrop: luftlift's Receiver,   *)
(* for any number of connections, peers, requests, names and prefixes, and *)
(* its Discovery, for any names, addresses and bounds; filin's Daemon, for *)
(* any peers, channels, kinds of cards and numbers of failures.  The three *)
(* have no state in common.                                                *)
(*                                                                         *)
(* The receiver implements ConsentContract, so that one Ask that the user  *)
(* accepted authorizes at most one Upload; and an Upload that is answered  *)
(* 200 is stored as a whole.                                               *)
(*                                                                         *)
(* Once the supervisor has followed awdl0 to an address, no thread that is *)
(* left over from an older session tells the network another one.  And the *)
(* app lists a device exactly while the one browse thread vouches for it,  *)
(* with the address that thread resolved last.                             *)
(*                                                                         *)
(* The kernel's neighbours are the daemon's peers as long as no call       *)
(* failed, through reopened links, dropped peers and peers that come back. *)
(***************************************************************************)
EXTENDS Receiver, Discovery, Daemon, FiniteSetTheorems, TLAPS

Phases == {"free", "head", "asking", "prompt", "body", "save"}
Conn == [peer : Peers \cup {NoPeer}, phase : Phases, token : 0..MaxAsks,
         upload : 0..MaxUploads, left : Seq(Names), places : SUBSET Places]
Grants == [token : 0..MaxAsks, fresh : BOOLEAN]

\* The type invariant of the parts that consent is about.
TypeOK ==
    /\ conn \in [Conns -> Conn]
    /\ \A c \in Conns : Open(c) => conn[c].peer \in Peers
    /\ approvals \in [Peers -> Grants]
    /\ \A p \in Peers : approvals[p].fresh => approvals[p].token # 0
    /\ prompt \in [Tokens -> {"none", "open", "accepted", "refused"}]
    /\ consumed \in [Tokens -> SUBSET Uploads]
    /\ asks \in 0..MaxAsks
    /\ uploads \in 0..MaxUploads

\* The ask of c is not decided.
Pending(c) == conn[c].phase \in {"asking", "prompt"}

\* Undecided asks have numbers of their own, and nobody has approved them.
PendingAreDistinct ==
    \A c, d \in Conns : Pending(c) /\ Pending(d) /\ conn[c].token = conn[d].token => c = d
PendingAreUnused ==
    \A c \in Conns : Pending(c) =>
        /\ conn[c].token \in 1..asks
        /\ consumed[conn[c].token] = {}
        /\ \A p \in Peers : approvals[p].token # conn[c].token

\* An approval is of an accepted ask that no upload has used, and of one peer.
GrantsAreUnused ==
    \A p \in Peers : approvals[p].token # 0 =>
        /\ approvals[p].token \in 1..asks
        /\ prompt[approvals[p].token] = "accepted"
        /\ consumed[approvals[p].token] = {}
GrantsAreDistinct ==
    \A p, q \in Peers : approvals[p].token = approvals[q].token /\ approvals[p].token # 0 => p = q

\* UploadsHaveConsent, said without cardinality.
UsedOnce ==
    \A t \in Tokens :
        \/ consumed[t] = {}
        \/ prompt[t] = "accepted" /\ \E u \in Uploads : consumed[t] = {u}

\* A prompt is open exactly from the body of its ask to the decision, as far
\* as the contract tells.
PromptsAreShown ==
    \A c \in Conns :
        /\ conn[c].phase = "asking" => prompt[conn[c].token] = "none"
        /\ conn[c].phase = "prompt" => prompt[conn[c].token] = "open"

FutureIsUnused == \A t \in Tokens : t > asks => consumed[t] = {} /\ prompt[t] = "none"
UploadsAreCounted == \A t \in Tokens : consumed[t] \subseteq 1..uploads

Consent == /\ PendingAreDistinct /\ PendingAreUnused /\ PromptsAreShown
           /\ GrantsAreUnused /\ GrantsAreDistinct
           /\ UsedOnce /\ FutureIsUnused /\ UploadsAreCounted

\* What a step does to the contract's variables.
Kept == [Contract!Next]_<<prompt, consumed>>

-----------------------------------------------------------------------------
\* The connections a step can leave.
LEMMA NoConnType == NoConn \in Conn /\ NoConn.phase = "free"
  BY BoundAssumption DEF NoConn, Conn, Phases

LEMMA HeadType ==
    ASSUME NEW p \in Peers
    PROVE  LET r == [NoConn EXCEPT !.peer = p, !.phase = "head"]
           IN r \in Conn /\ r.phase = "head" /\ r.peer = p
  BY NoConnType DEF Conn, Phases

\* One connection's step, as seen by the invariant.
LEMMA OneConn ==
    ASSUME TypeOK, NEW c \in Conns, NEW r \in Conn, r.phase # "free" => r.peer \in Peers,
           conn' = [conn EXCEPT ![c] = r]
    PROVE  /\ conn' \in [Conns -> Conn]
           /\ \A d \in Conns : Open(d)' => conn'[d].peer \in Peers
           /\ conn'[c] = r
           /\ \A d \in Conns : d # c => conn'[d] = conn[d]
  BY DEF TypeOK, Open

\* What an answer, of whatever status, leaves of its connection.
Replied(c) ==
    \/ conn' = [conn EXCEPT ![c] = [NoConn EXCEPT !.peer = conn[c].peer, !.phase = "head"]]
    \/ conn' = [conn EXCEPT ![c] = NoConn]

LEMMA AnswerStep ==
    ASSUME TypeOK, NEW c \in Conns, Open(c), Replied(c)
    PROVE  /\ conn' \in [Conns -> Conn]
           /\ \A d \in Conns : Open(d)' => conn'[d].peer \in Peers
           /\ ~Pending(c)'
           /\ \A d \in Conns : d # c => conn'[d] = conn[d]
<1>. DEFINE h == [NoConn EXCEPT !.peer = conn[c].peer, !.phase = "head"]
<1>1. h \in Conn /\ h.phase = "head" /\ h.peer \in Peers
  BY HeadType DEF TypeOK
<1>2. conn' = [conn EXCEPT ![c] = h] \/ conn' = [conn EXCEPT ![c] = NoConn]
  BY DEF Replied
<1>. HIDE DEF h
<1>3. CASE conn' = [conn EXCEPT ![c] = h]
  BY <1>1, <1>3, OneConn DEF Pending
<1>4. CASE conn' = [conn EXCEPT ![c] = NoConn]
  BY NoConnType, <1>4, OneConn DEF Pending
<1>. QED  BY <1>2, <1>3, <1>4

LEMMA CloseStep ==
    ASSUME TypeOK, NEW c \in Conns, Close(c)
    PROVE  /\ conn' \in [Conns -> Conn]
           /\ \A d \in Conns : Open(d)' => conn'[d].peer \in Peers
           /\ ~Pending(c)'
           /\ \A d \in Conns : d # c => conn'[d] = conn[d]
  BY NoConnType, OneConn DEF Close, Pending

\* A step of c that keeps its peer, or of no connection.
LEMMA MoveStep ==
    ASSUME TypeOK, NEW c \in Conns, Open(c), NEW r \in Conn, r.peer = conn[c].peer,
           conn' = [conn EXCEPT ![c] = r]
    PROVE  /\ conn' \in [Conns -> Conn]
           /\ \A d \in Conns : Open(d)' => conn'[d].peer \in Peers
           /\ conn'[c] = r
           /\ \A d \in Conns : d # c => conn'[d] = conn[d]
  BY OneConn DEF TypeOK

\* An approval goes.
LEMMA TakeStep ==
    ASSUME TypeOK, NEW p \in Peers, TakeApproval(p)
    PROVE  /\ approvals' \in [Peers -> Grants]
           /\ \A q \in Peers : approvals'[q].fresh => approvals'[q].token # 0
           /\ approvals'[p].token = 0
           /\ \A q \in Peers : q # p => approvals'[q] = approvals[q]
  BY BoundAssumption DEF TypeOK, TakeApproval, NoGrant, Grants

\* An approval comes.
LEMMA GrantStep ==
    ASSUME TypeOK, NEW p \in Peers, NEW t \in Tokens, Grant(p, t)
    PROVE  /\ approvals' \in [Peers -> Grants]
           /\ \A q \in Peers : approvals'[q].fresh => approvals'[q].token # 0
           /\ approvals'[p].token = t
           /\ \A q \in Peers : q # p => approvals'[q] = approvals[q]
  BY BoundAssumption DEF TypeOK, Grant, Grants, Tokens

-----------------------------------------------------------------------------
\* A step that takes up no ask, decides none and uses no approval keeps consent.
LEMMA Harmless ==
    ASSUME TypeOK, Consent, UNCHANGED <<prompt, consumed, asks, uploads>>,
           \A d \in Conns : Pending(d)' => /\ Pending(d) /\ conn'[d].token = conn[d].token
                                           /\ conn'[d].phase = conn[d].phase,
           \A p \in Peers : approvals'[p].token \in {0, approvals[p].token}
    PROVE  Consent' /\ Kept
<1>1. PendingAreDistinct' /\ PendingAreUnused'
  BY DEF Consent, PendingAreDistinct, PendingAreUnused
<1>2. PromptsAreShown'
  BY DEF Consent, PromptsAreShown, Pending
<1>3. GrantsAreUnused' /\ GrantsAreDistinct'
  BY DEF Consent, GrantsAreUnused, GrantsAreDistinct
<1>4. UsedOnce' /\ FutureIsUnused' /\ UploadsAreCounted'
  BY DEF Consent, UsedOnce, FutureIsUnused, UploadsAreCounted
<1>. QED  BY <1>1, <1>2, <1>3, <1>4 DEF Consent, Kept

\* A step of c that leaves it without an ask, and no other connection moved.
LEMMA Leaves ==
    ASSUME TypeOK, Consent, UNCHANGED <<prompt, consumed, asks, uploads>>,
           NEW c \in Conns, ~Pending(c)',
           \A d \in Conns : d # c => conn'[d] = conn[d],
           \A p \in Peers : approvals'[p].token \in {0, approvals[p].token}
    PROVE  Consent' /\ Kept
  BY Harmless DEF Pending

-----------------------------------------------------------------------------
\* Each step keeps the types.
LEMMA InitOK == ReceiverInit => TypeOK /\ Consent /\ Contract!Init
<1>. SUFFICES ASSUME ReceiverInit PROVE TypeOK /\ Consent /\ Contract!Init
  OBVIOUS
<1>1. \A c \in Conns : conn[c] = NoConn /\ ~Open(c) /\ ~Pending(c)
  BY NoConnType DEF ReceiverInit, Open, Pending
<1>2. conn \in [Conns -> Conn]
  BY NoConnType DEF ReceiverInit
<1>3. /\ approvals \in [Peers -> Grants]
      /\ \A p \in Peers : approvals[p].token = 0 /\ ~approvals[p].fresh
  BY BoundAssumption DEF ReceiverInit, NoGrant, Grants
<1>4. TypeOK
  BY <1>1, <1>2, <1>3, BoundAssumption DEF ReceiverInit, TypeOK
<1>5. \A t \in Tokens : consumed[t] = {}
  BY DEF ReceiverInit
<1>6. Consent
  <2>1. \A t \in Tokens : prompt[t] = "none"
    BY DEF ReceiverInit
  <2>2. \A c \in Conns : conn[c].phase = "free"
    BY <1>1, NoConnType
  <2>. QED
    BY <1>1, <1>3, <1>5, <2>1, <2>2
    DEF Consent, PendingAreDistinct, PendingAreUnused, PromptsAreShown, GrantsAreUnused,
        GrantsAreDistinct, UsedOnce, FutureIsUnused, UploadsAreCounted
<1>7. Contract!Init
  BY DEF ReceiverInit, Contract!Init
<1>. QED  BY <1>4, <1>6, <1>7

LEMMA Step == TypeOK /\ Consent /\ [ReceiverNext]_receiverVars => TypeOK' /\ Consent' /\ Kept
<1>. SUFFICES ASSUME TypeOK, Consent, [ReceiverNext]_receiverVars PROVE TypeOK' /\ Consent' /\ Kept
  OBVIOUS
<1>. DEFINE OldApprovals == \A q \in Peers : approvals'[q].token \in {0, approvals[q].token}
<1>a. UNCHANGED approvals => OldApprovals
  OBVIOUS
<1>b. ASSUME NEW c \in Conns, Open(c) PROVE conn[c].peer \in Peers
  BY <1>b DEF TypeOK
<1>. DEFINE Rest(c) == \A d \in Conns : d # c => conn'[d] = conn[d]
            ConnOK == /\ conn' \in [Conns -> Conn]
                      /\ \A d \in Conns : Open(d)' => conn'[d].peer \in Peers
<1>1. ASSUME NEW c \in Conns, NEW p \in Peers, Accept(c, p) PROVE TypeOK' /\ Consent' /\ Kept
  <2>1. ConnOK /\ Rest(c) /\ ~Pending(c)'
    BY <1>1, HeadType, OneConn DEF Accept, Pending
  <2>2. UNCHANGED <<approvals, prompt, consumed, asks, uploads>>
    BY <1>1 DEF Accept
  <2>. QED  BY <2>1, <2>2, <1>a, Leaves DEF TypeOK
<1>2. ASSUME NEW c \in Conns, Drop(c) PROVE TypeOK' /\ Consent' /\ Kept
  <2>1. ConnOK /\ Rest(c) /\ ~Pending(c)'
    BY <1>2, CloseStep DEF Drop, Broken
  <2>2. UNCHANGED <<approvals, prompt, consumed, asks, uploads>>
    BY <1>2 DEF Drop
  <2>. QED  BY <2>1, <2>2, <1>a, Leaves DEF TypeOK
<1>3. ASSUME NEW c \in Conns, Discover(c) PROVE TypeOK' /\ Consent' /\ Kept
  <2>0. Open(c) /\ Replied(c)
    BY <1>3 DEF Discover, Open, Answer, Close, Replied
  <2>1. ConnOK /\ Rest(c) /\ ~Pending(c)'
    BY <2>0, AnswerStep
  <2>2. UNCHANGED <<approvals, prompt, consumed, asks, uploads>>
    BY <1>3 DEF Discover
  <2>. QED  BY <2>1, <2>2, <1>a, Leaves DEF TypeOK
<1>4. ASSUME NEW c \in Conns, AskHead(c) PROVE TypeOK' /\ Consent' /\ Kept
  <2>. DEFINE r == [conn[c] EXCEPT !.phase = "asking", !.token = asks + 1]
  <2>0. asks + 1 \in Tokens /\ asks' = asks + 1 /\ Open(c) /\ conn[c].phase = "head"
    BY <1>4, BoundAssumption DEF AskHead, TypeOK, Tokens, Open
  <2>1. r \in Conn /\ r.peer = conn[c].peer /\ r.phase = "asking" /\ r.token = asks + 1
    <3>1. conn[c] \in Conn /\ asks + 1 \in 0..MaxAsks
      BY <2>0 DEF TypeOK, Tokens
    <3>. QED  BY <3>1 DEF Conn, Phases
  <2>2. conn' = [conn EXCEPT ![c] = r]
    BY <1>4 DEF AskHead, TypeOK
  <2>. HIDE DEF r
  <2>3. ConnOK /\ Rest(c) /\ conn'[c] = r
    BY <2>0, <2>1, <2>2, MoveStep
  <2>4. /\ approvals' \in [Peers -> Grants]
        /\ \A q \in Peers : approvals'[q].fresh => approvals'[q].token # 0
        /\ OldApprovals
    BY <1>4, <1>b, <2>0, TakeStep DEF AskHead
  <2>5. UNCHANGED <<prompt, consumed, uploads>>
    BY <1>4 DEF AskHead
  <2>6. TypeOK'
    BY <2>0, <2>3, <2>4, <2>5 DEF TypeOK, Tokens
  <2>7. asks \in Nat
    BY BoundAssumption DEF TypeOK
  <2>8. \A d \in Conns : d # c /\ Pending(d)' => Pending(d) /\ conn'[d].token = conn[d].token
                                               /\ conn[d].token \in 1..asks
    BY <2>3 DEF Pending, Consent, PendingAreUnused
  <2>9. PendingAreDistinct'
    BY <2>1, <2>3, <2>7, <2>8 DEF Consent, PendingAreDistinct
  <2>10. PendingAreUnused'
    <3>1. consumed[asks + 1] = {} /\ \A q \in Peers : approvals[q].token # asks + 1
      BY <2>0, <2>7 DEF Consent, FutureIsUnused, GrantsAreUnused
    <3>2. \A q \in Peers : approvals'[q].token # asks + 1
      BY <2>0, <2>4, <3>1 DEF Tokens
    <3>3. ASSUME NEW d \in Conns, d # c, Pending(d)'
          PROVE  /\ conn'[d].token \in 1..asks'
                 /\ consumed'[conn'[d].token] = {}
                 /\ \A q \in Peers : approvals'[q].token # conn'[d].token
      BY <3>3, <2>0, <2>4, <2>5, <2>7, <2>8 DEF Consent, PendingAreUnused
    <3>4. conn'[c].token = asks + 1 /\ asks + 1 \in 1..asks'
      BY <2>0, <2>1, <2>3, <2>7
    <3>. QED  BY <3>1, <3>2, <3>3, <3>4, <2>5 DEF PendingAreUnused
  <2>11. GrantsAreUnused' /\ GrantsAreDistinct'
    BY <2>0, <2>4, <2>5, <2>7 DEF Consent, GrantsAreUnused, GrantsAreDistinct
  <2>12. UsedOnce' /\ FutureIsUnused' /\ UploadsAreCounted'
    BY <2>0, <2>5, <2>7 DEF Consent, UsedOnce, FutureIsUnused, UploadsAreCounted, Tokens
  <2>13. PromptsAreShown'
    <3>1. prompt[asks + 1] = "none"
      BY <2>0, <2>7 DEF Consent, FutureIsUnused
    <3>. QED  BY <3>1, <2>1, <2>3, <2>5 DEF Consent, PromptsAreShown
  <2>. QED  BY <2>5, <2>6, <2>9, <2>10, <2>11, <2>12, <2>13 DEF Consent, Kept
<1>5. ASSUME NEW c \in Conns, AskBody(c) PROVE TypeOK' /\ Consent' /\ Kept
  <2>. DEFINE t == conn[c].token
              r == [conn[c] EXCEPT !.phase = "prompt"]
  <2>1. /\ Pending(c) /\ Open(c) /\ t \in Tokens
        /\ UNCHANGED <<approvals, consumed, asks, uploads>>
    BY <1>5 DEF AskBody, Pending, Open, TypeOK, Conn, Tokens, Consent, PendingAreUnused
  <2>2. CASE Answer(c, 403, FALSE) /\ UNCHANGED prompt
    <3>1. ConnOK /\ Rest(c) /\ ~Pending(c)'
      <4>1. Replied(c)
        BY <2>2 DEF Answer, Close, Replied
      <4>. QED  BY <2>1, <4>1, AnswerStep
    <3>. QED  BY <3>1, <2>1, <2>2, <1>a, Leaves DEF TypeOK
  <2>3. CASE prompt' = [prompt EXCEPT ![t] = "open"] /\ conn' = [conn EXCEPT ![c].phase = "prompt"]
    <3>1. r \in Conn /\ r.peer = conn[c].peer /\ r.phase = "prompt" /\ r.token = t
      BY DEF TypeOK, Conn, Phases
    <3>2. conn' = [conn EXCEPT ![c] = r]
      BY <2>3 DEF TypeOK
    <3>. HIDE DEF r
    <3>3. ConnOK /\ Rest(c) /\ conn'[c] = r
      BY <2>1, <3>1, <3>2, MoveStep
    <3>4. prompt' \in [Tokens -> {"none", "open", "accepted", "refused"}]
      BY <2>3 DEF TypeOK
    <3>5. TypeOK'
      BY <2>1, <3>3, <3>4 DEF TypeOK
    <3>6. \A d \in Conns : Pending(d)' => Pending(d) /\ conn'[d].token = conn[d].token
      BY <2>1, <3>1, <3>3 DEF Pending
    <3>7. PendingAreDistinct' /\ PendingAreUnused'
      BY <2>1, <3>6 DEF Consent, PendingAreDistinct, PendingAreUnused
    <3>8. consumed[t] = {} /\ (\A q \in Peers : approvals[q].token # t)
      BY <2>1 DEF Consent, PendingAreUnused
    <3>9. \A u \in Tokens : u # t => prompt'[u] = prompt[u]
      BY <2>3 DEF TypeOK
    <3>10. \A q \in Peers : approvals[q].token # 0 => approvals[q].token \in Tokens
      BY DEF TypeOK, Grants, Tokens
    <3>11. GrantsAreUnused' /\ GrantsAreDistinct'
      BY <2>1, <3>8, <3>9, <3>10 DEF Consent, GrantsAreUnused, GrantsAreDistinct
    <3>12. UsedOnce' /\ UploadsAreCounted'
      BY <2>1, <3>8, <3>9 DEF Consent, UsedOnce, UploadsAreCounted
    <3>13. FutureIsUnused'
      <4>1. t \in 1..asks /\ asks \in Nat
        BY <2>1, BoundAssumption DEF Consent, PendingAreUnused, TypeOK
      <4>2. \A u \in Tokens : u > asks => u # t
        BY <4>1, BoundAssumption DEF Tokens
      <4>. QED  BY <2>1, <3>9, <4>2 DEF Consent, FutureIsUnused
    <3>14. PromptsAreShown'
      <4>1. prompt'[t] = "open"
        BY <2>1, <2>3 DEF TypeOK
      <4>2. \A d \in Conns : d # c /\ Pending(d) => conn[d].token # t /\ conn[d].token \in Tokens
        BY <2>1 DEF Consent, PendingAreDistinct, PendingAreUnused, TypeOK, Conn, Tokens
      <4>. QED  BY <3>1, <3>3, <3>9, <4>1, <4>2 DEF Consent, PromptsAreShown, Pending
    <3>15. prompt[t] = "none"
      BY <1>5 DEF AskBody, Consent, PromptsAreShown
    <3>16. Kept
      BY <2>1, <2>3, <3>15 DEF Kept, Contract!Next, Contract!Show
    <3>. QED  BY <3>5, <3>7, <3>11, <3>12, <3>13, <3>14, <3>16 DEF Consent
  <2>. QED  BY <1>5, <2>2, <2>3 DEF AskBody
<1>6. ASSUME NEW c \in Conns, Decide(c) PROVE TypeOK' /\ Consent' /\ Kept
  <2>. DEFINE t == conn[c].token
  <2>1. /\ Pending(c) /\ Open(c) /\ t \in Tokens /\ t \in 1..asks
        /\ UNCHANGED <<consumed, asks, uploads>>
    BY <1>6 DEF Decide, Pending, Open, TypeOK, Conn, Tokens, Consent, PendingAreUnused
  <2>2. Replied(c)
    BY <1>6 DEF Decide, Answer, Close, Replied
  <2>3. ConnOK /\ Rest(c) /\ ~Pending(c)'
    BY <2>1, <2>2, AnswerStep
  <2>4. consumed[t] = {} /\ (\A q \in Peers : approvals[q].token # t)
    BY <2>1 DEF Consent, PendingAreUnused
  <2>5. \A d \in Conns : Pending(d)' =>
            /\ d # c /\ Pending(d)
            /\ conn'[d].token = conn[d].token /\ conn[d].token # t
    BY <2>1, <2>3 DEF Pending, Consent, PendingAreDistinct
  <2>6. /\ prompt' \in [Tokens -> {"none", "open", "accepted", "refused"}]
        /\ \A u \in Tokens : u # t => prompt'[u] = prompt[u]
    <3>1. \/ prompt' = [prompt EXCEPT ![t] = "accepted"]
          \/ prompt' = [prompt EXCEPT ![t] = "refused"]
      BY <1>6 DEF Decide
    <3>2. prompt \in [Tokens -> {"none", "open", "accepted", "refused"}]
      BY DEF TypeOK
    <3>. QED  BY <3>1, <3>2
  <2>7. \A q \in Peers : approvals[q].token # 0 => approvals[q].token \in Tokens
    BY DEF TypeOK, Grants, Tokens
  <2>8. UsedOnce' /\ FutureIsUnused' /\ UploadsAreCounted'
    <3>1. \A u \in Tokens : u > asks => u # t
      BY <2>1, BoundAssumption DEF TypeOK, Tokens
    <3>. QED
      BY <2>1, <2>4, <2>6, <3>1 DEF Consent, UsedOnce, FutureIsUnused, UploadsAreCounted
  <2>8a. PromptsAreShown'
    <3>1. \A d \in Conns : Pending(d)' => conn'[d] = conn[d] /\ conn[d].token \in Tokens
      <4>1. \A d \in Conns : Pending(d)' => Pending(d) /\ conn'[d] = conn[d]
        BY <2>3, <2>5
      <4>2. \A d \in Conns : Pending(d) => conn[d].token \in Tokens
        BY DEF Consent, PendingAreUnused, TypeOK, Conn, Tokens
      <4>. QED  BY <4>1, <4>2
    <3>. QED  BY <2>5, <2>6, <3>1 DEF Consent, PromptsAreShown, Pending
  <2>8b. Kept
    <3>1. prompt[t] = "open"
      BY <1>6 DEF Decide, Consent, PromptsAreShown
    <3>2. \E verdict \in {"accepted", "refused"} : prompt' = [prompt EXCEPT ![t] = verdict]
      BY <1>6 DEF Decide
    <3>. QED  BY <2>1, <3>1, <3>2 DEF Kept, Contract!Next, Contract!Settle
  <2>9. PendingAreDistinct'
    BY <2>5 DEF Consent, PendingAreDistinct
  <2>10. CASE Grant(conn[c].peer, t) /\ prompt' = [prompt EXCEPT ![t] = "accepted"]
    <3>1. /\ approvals' \in [Peers -> Grants]
          /\ \A q \in Peers : approvals'[q].fresh => approvals'[q].token # 0
          /\ approvals'[conn[c].peer].token = t
          /\ \A q \in Peers : q # conn[c].peer => approvals'[q] = approvals[q]
      BY <1>b, <2>1, <2>10, GrantStep
    <3>2. TypeOK'
      BY <2>1, <2>3, <2>6, <3>1 DEF TypeOK
    <3>3. \A q \in Peers : approvals'[q].token \in {t, approvals[q].token}
      BY <3>1
    <3>4. PendingAreUnused'
      BY <2>1, <2>5, <3>3 DEF Consent, PendingAreUnused
    <3>5. prompt'[t] = "accepted"
      BY <2>1, <2>10 DEF TypeOK
    <3>6. GrantsAreUnused'
      BY <2>1, <2>4, <2>6, <2>7, <3>3, <3>5 DEF Consent, GrantsAreUnused
    <3>7. GrantsAreDistinct'
      BY <2>4, <3>1 DEF Consent, GrantsAreDistinct
    <3>. QED  BY <2>8, <2>8a, <2>8b, <2>9, <3>2, <3>4, <3>6, <3>7 DEF Consent
  <2>11. CASE UNCHANGED approvals
    <3>1. TypeOK'
      BY <2>1, <2>3, <2>6, <2>11 DEF TypeOK
    <3>2. PendingAreUnused'
      BY <2>1, <2>5, <2>11 DEF Consent, PendingAreUnused
    <3>3. GrantsAreUnused' /\ GrantsAreDistinct'
      BY <2>1, <2>4, <2>6, <2>7, <2>11 DEF Consent, GrantsAreUnused, GrantsAreDistinct
    <3>. QED  BY <2>8, <2>8a, <2>8b, <2>9, <3>1, <3>2, <3>3 DEF Consent
  <2>. QED  BY <1>6, <2>10, <2>11 DEF Decide
<1>7. ASSUME NEW c \in Conns, UploadHead(c) PROVE TypeOK' /\ Consent' /\ Kept
  <2>. DEFINE p == conn[c].peer
              t == approvals[p].token
              r == [conn[c] EXCEPT !.phase = "body", !.upload = uploads + 1]
  <2>1. /\ Open(c) /\ p \in Peers /\ TakeApproval(p) /\ UNCHANGED <<prompt, asks>>
        /\ uploads < MaxUploads
    BY <1>7, <1>b DEF UploadHead, Open
  <2>2. /\ approvals' \in [Peers -> Grants]
        /\ \A q \in Peers : approvals'[q].fresh => approvals'[q].token # 0
        /\ approvals'[p].token = 0
        /\ \A q \in Peers : q # p => approvals'[q] = approvals[q]
        /\ OldApprovals
    BY <2>1, TakeStep
  <2>3. CASE ~approvals[p].fresh
    <3>1. UNCHANGED <<uploads, consumed>> /\ Answer(c, 403, FALSE)
      BY <1>7, <2>3 DEF UploadHead
    <3>2. ConnOK /\ Rest(c) /\ ~Pending(c)'
      <4>1. Replied(c)
        BY <3>1 DEF Answer, Close, Replied
      <4>. QED  BY <2>1, <4>1, AnswerStep
    <3>. QED  BY <2>1, <2>2, <3>1, <3>2, Leaves DEF TypeOK
  <2>4. CASE approvals[p].fresh
    <3>1. /\ uploads' = uploads + 1 /\ uploads + 1 \in Uploads
          /\ consumed' = [consumed EXCEPT ![t] = @ \cup {uploads + 1}]
          /\ conn' = [conn EXCEPT ![c].phase = "body", ![c].upload = uploads + 1]
      BY <1>7, <2>4, BoundAssumption DEF UploadHead, TypeOK, Uploads
    <3>2. t \in Tokens /\ t # 0 /\ t \in 1..asks
      BY <2>1, <2>4 DEF TypeOK, Grants, Tokens, Consent, GrantsAreUnused
    <3>3. r \in Conn /\ r.peer = conn[c].peer /\ r.phase = "body"
      <4>1. conn[c] \in Conn /\ uploads + 1 \in 0..MaxUploads
        BY <3>1 DEF TypeOK, Uploads
      <4>. QED  BY <4>1 DEF Conn, Phases
    <3>4. conn' = [conn EXCEPT ![c] = r]
      BY <3>1 DEF TypeOK
    <3>. HIDE DEF r
    <3>5. ConnOK /\ Rest(c) /\ conn'[c] = r
      BY <2>1, <3>3, <3>4, MoveStep
    <3>6. /\ prompt[t] = "accepted" /\ consumed'[t] = {uploads + 1}
          /\ consumed' \in [Tokens -> SUBSET Uploads]
          /\ \A u \in Tokens : u # t => consumed'[u] = consumed[u]
      <4>1. prompt[t] = "accepted" /\ consumed[t] = {}
        BY <2>1, <3>2 DEF Consent, GrantsAreUnused
      <4>2. consumed \in [Tokens -> SUBSET Uploads]
        BY DEF TypeOK
      <4>. QED  BY <3>1, <3>2, <4>1, <4>2
    <3>7. TypeOK'
      <4>1. uploads' \in 0..MaxUploads
        BY <3>1 DEF Uploads
      <4>2. UNCHANGED <<prompt, asks>>
        BY <2>1
      <4>. QED  BY <2>2, <3>5, <3>6, <4>1, <4>2 DEF TypeOK
    <3>8. \A d \in Conns : Pending(d)' =>
              /\ Pending(d) /\ conn'[d].token = conn[d].token
              /\ conn[d].token # t /\ conn[d].token \in Tokens
      <4>1. \A d \in Conns : Pending(d)' => Pending(d) /\ conn'[d] = conn[d]
        BY <3>3, <3>5 DEF Pending
      <4>2. \A d \in Conns : Pending(d) => conn[d].token # t /\ conn[d].token \in 1..asks
        BY <2>1 DEF Consent, PendingAreUnused
      <4>. QED  BY <4>1, <4>2, BoundAssumption DEF TypeOK, Tokens
    <3>9. PendingAreDistinct'
      BY <3>8 DEF Consent, PendingAreDistinct
    <3>9a. PendingAreUnused'
      <4>1. ASSUME NEW d \in Conns, Pending(d)'
            PROVE  /\ conn'[d].token \in 1..asks'
                   /\ consumed'[conn'[d].token] = {}
                   /\ \A q \in Peers : approvals'[q].token # conn'[d].token
        <5>1. /\ conn[d].token \in 1..asks /\ consumed[conn[d].token] = {}
              /\ \A q \in Peers : approvals[q].token # conn[d].token
          BY <4>1, <3>8 DEF Consent, PendingAreUnused
        <5>. QED  BY <4>1, <5>1, <2>1, <2>2, <3>6, <3>8
      <4>. QED  BY <4>1 DEF PendingAreUnused
    <3>10. \A q \in Peers : approvals'[q].token # 0 =>
              /\ approvals'[q].token = approvals[q].token /\ approvals[q].token # t
              /\ approvals[q].token \in Tokens
      BY <2>1, <2>2 DEF Consent, GrantsAreDistinct, TypeOK, Grants, Tokens
    <3>11. GrantsAreUnused' /\ GrantsAreDistinct'
      <4>1. GrantsAreUnused'
        <5>1. ASSUME NEW q \in Peers, approvals'[q].token # 0
              PROVE  /\ approvals'[q].token \in 1..asks'
                     /\ prompt'[approvals'[q].token] = "accepted"
                     /\ consumed'[approvals'[q].token] = {}
          <6>1. /\ approvals[q].token \in 1..asks /\ prompt[approvals[q].token] = "accepted"
                /\ consumed[approvals[q].token] = {}
            BY <3>10, <5>1 DEF Consent, GrantsAreUnused
          <6>2. consumed'[approvals[q].token] = consumed[approvals[q].token]
            BY <3>6, <3>10, <5>1, Zenon
          <6>. QED  BY <2>1, <3>10, <5>1, <6>1, <6>2
        <5>. QED  BY <5>1 DEF GrantsAreUnused
      <4>2. GrantsAreDistinct'
        BY <3>10 DEF Consent, GrantsAreDistinct
      <4>. QED  BY <4>1, <4>2
    <3>12. UsedOnce'
      BY <2>1, <3>1, <3>6 DEF Consent, UsedOnce
    <3>13. FutureIsUnused'
      BY <2>1, <3>2, <3>6, BoundAssumption DEF Consent, FutureIsUnused, TypeOK, Tokens
    <3>14. UploadsAreCounted'
      <4>1. \A u \in Tokens : consumed'[u] \subseteq consumed[u] \cup {uploads + 1}
        BY <3>6
      <4>2. uploads \in Nat /\ uploads' = uploads + 1
        BY <3>1, BoundAssumption DEF TypeOK
      <4>. QED  BY <4>1, <4>2 DEF Consent, UploadsAreCounted
    <3>15. PromptsAreShown'
      BY <2>1, <3>3, <3>5 DEF Consent, PromptsAreShown
    <3>16. Kept
      <4>0. uploads \in Nat /\ uploads + 1 \notin 1..uploads
        BY BoundAssumption DEF TypeOK
      <4>1. consumed[t] = {} /\ \A b \in Tokens : uploads + 1 \notin consumed[b]
        BY <2>1, <3>1, <3>2, <4>0 DEF Consent, GrantsAreUnused, UploadsAreCounted
      <4>2. consumed' = [consumed EXCEPT ![t] = {uploads + 1}]
        BY <3>1, <3>2, <4>1 DEF TypeOK
      <4>. QED  BY <2>1, <3>1, <3>2, <3>6, <4>1, <4>2 DEF Kept, Contract!Next, Contract!Use
    <3>. QED  BY <3>7, <3>9, <3>9a, <3>11, <3>12, <3>13, <3>14, <3>15, <3>16 DEF Consent
  <2>. QED  BY <2>3, <2>4
<1>8. ASSUME NEW c \in Conns, UploadBody(c) PROVE TypeOK' /\ Consent' /\ Kept
  <2>1. Open(c) /\ UNCHANGED <<approvals, prompt, consumed, asks, uploads>>
    BY <1>8 DEF UploadBody, Open
  <2>2. ASSUME NEW payload \in Payloads,
               conn' = [conn EXCEPT ![c].phase = "save", ![c].left = payload]
        PROVE  ConnOK /\ Rest(c) /\ ~Pending(c)'
    <3>. DEFINE r == [conn[c] EXCEPT !.phase = "save", !.left = payload]
    <3>1. r \in Conn /\ r.peer = conn[c].peer /\ r.phase = "save"
      BY PayloadsAssumption DEF TypeOK, Conn, Phases
    <3>2. conn' = [conn EXCEPT ![c] = r]
      BY <2>2 DEF TypeOK
    <3>. HIDE DEF r
    <3>3. ConnOK /\ Rest(c) /\ conn'[c] = r
      BY <2>1, <3>1, <3>2, MoveStep
    <3>. QED  BY <3>1, <3>3 DEF Pending
  <2>4. ConnOK /\ Rest(c) /\ ~Pending(c)'
    <3>1. CASE Answer(c, 400, TRUE) \/ Answer(c, 406, FALSE)
      <4>1. Replied(c)
        BY <3>1 DEF Answer, Close, Replied
      <4>. QED  BY <2>1, <4>1, AnswerStep
    <3>2. CASE \E payload \in Payloads :
                  conn' = [conn EXCEPT ![c].phase = "save", ![c].left = payload]
      <4>1. PICK payload \in Payloads :
                    conn' = [conn EXCEPT ![c].phase = "save", ![c].left = payload]
        BY <3>2
      <4>. QED  BY <2>2, <4>1
    <3>. QED  BY <1>8, <3>1, <3>2 DEF UploadBody
  <2>. QED  BY <2>1, <2>4, <1>a, Leaves DEF TypeOK
<1>9. ASSUME NEW c \in Conns, Save(c) PROVE TypeOK' /\ Consent' /\ Kept
  <2>1. Open(c) /\ UNCHANGED <<approvals, prompt, consumed, asks, uploads>>
    BY <1>9 DEF Save, Open
  <2>2. PICK place \in PlaceFor(Head(conn[c].left)) :
            conn' = [conn EXCEPT ![c].left = Tail(@), ![c].places = @ \cup {place}]
    BY <1>9 DEF Save
  <2>3. /\ conn[c] \in Conn /\ conn[c].left \in Seq(Names) /\ conn[c].left # <<>>
        /\ conn[c].places \in SUBSET Places
    BY <1>9 DEF Save, TypeOK, Conn
  <2>4. Head(conn[c].left) \in Names /\ Tail(conn[c].left) \in Seq(Names)
    BY <2>3
  <2>5. place \in Places
    <3>1. \E n \in 0..MaxSuffix : place = <<n, Head(conn[c].left)>>
      BY <2>2 DEF PlaceFor
    <3>. QED  BY <3>1, <2>4 DEF Places
  <2>. DEFINE r == [conn[c] EXCEPT !.left = Tail(@), !.places = @ \cup {place}]
  <2>6. r \in Conn /\ r.peer = conn[c].peer /\ r.phase = "save"
    BY <1>9, <2>3, <2>4, <2>5 DEF Conn, Save
  <2>7. conn' = [conn EXCEPT ![c] = r]
    BY <2>2 DEF TypeOK
  <2>. HIDE DEF r
  <2>8. ConnOK /\ Rest(c) /\ ~Pending(c)'
    BY <2>1, <2>6, <2>7, MoveStep DEF Pending
  <2>. QED  BY <2>1, <2>8, <1>a, Leaves DEF TypeOK
<1>10. ASSUME NEW c \in Conns, SaveFails(c) PROVE TypeOK' /\ Consent' /\ Kept
  <2>1. ConnOK /\ Rest(c) /\ ~Pending(c)'
    BY <1>10, CloseStep DEF SaveFails, Broken
  <2>2. UNCHANGED <<approvals, prompt, consumed, asks, uploads>>
    BY <1>10 DEF SaveFails
  <2>. QED  BY <2>1, <2>2, <1>a, Leaves DEF TypeOK
<1>11. ASSUME NEW c \in Conns, Finish(c) PROVE TypeOK' /\ Consent' /\ Kept
  <2>1. ConnOK /\ Rest(c) /\ ~Pending(c)'
    <3>1. Open(c) /\ Replied(c)
      BY <1>11 DEF Finish, Open, Answer, Close, Replied
    <3>. QED  BY <3>1, AnswerStep
  <2>2. UNCHANGED <<approvals, prompt, consumed, asks, uploads>>
    BY <1>11 DEF Finish
  <2>. QED  BY <2>1, <2>2, <1>a, Leaves DEF TypeOK
<1>12. ASSUME NEW p \in Peers, Expire(p) PROVE TypeOK' /\ Consent' /\ Kept
  <2>1. UNCHANGED <<conn, prompt, consumed, asks, uploads>>
    BY <1>12 DEF Expire
  <2>2. /\ approvals' \in [Peers -> Grants]
        /\ \A q \in Peers : approvals'[q].token = approvals[q].token
        /\ \A q \in Peers : approvals'[q].fresh => approvals[q].fresh
    BY <1>12 DEF Expire, TypeOK, Grants
  <2>3. TypeOK'
    BY <2>1, <2>2 DEF TypeOK, Open
  <2>. QED  BY <2>1, <2>2, <2>3, Harmless DEF Pending
<1>13. CASE UNCHANGED <<conn, approvals, prompt, consumed, asks, uploads>>
  BY <1>13, Harmless DEF TypeOK, Open, Pending
<1>14. ASSUME NEW t \in Tokens, Land(t) \/ \E choice \in {"accept", "reject"} : Tap(t, choice)
       PROVE  UNCHANGED <<conn, approvals, prompt, consumed, asks, uploads>>
  BY <1>14 DEF Land, Tap, serverVars
<1>15. ASSUME NEW p \in Peers, Refuse(p)
       PROVE  UNCHANGED <<conn, approvals, prompt, consumed, asks, uploads>>
  BY <1>15 DEF Refuse, serverVars
<1>. QED
  BY <1>1, <1>2, <1>3, <1>4, <1>5, <1>6, <1>7, <1>8, <1>9, <1>10, <1>11, <1>12, <1>13, <1>14,
     <1>15
  DEF ReceiverNext, Serve, receiverVars, serverVars

-----------------------------------------------------------------------------
\* Consent implies the property the runs check.
LEMMA ConsentIsEnough == TypeOK /\ Consent => UploadsHaveConsent
<1>. SUFFICES ASSUME TypeOK, Consent, NEW t \in Tokens
              PROVE  Cardinality(consumed[t]) <= 1 /\ (consumed[t] # {} => prompt[t] = "accepted")
  BY DEF UploadsHaveConsent
<1>1. CASE consumed[t] = {}
  BY <1>1, FS_EmptySet
<1>2. CASE prompt[t] = "accepted" /\ \E u \in Uploads : consumed[t] = {u}
  BY <1>2, FS_Singleton
<1>. QED  BY <1>1, <1>2 DEF Consent, UsedOnce

-----------------------------------------------------------------------------
(* An upload that is answered 200 is stored as a whole.                    *)

Uploading(c) == conn[c].phase \in {"body", "save"}

FilesIn(d, u) == {f \in Places : d[f] = u}

\* The files of upload u on disk d are all of a payload's but those that are left.
Partial(d, w, u, left) ==
    /\ IsFiniteSet(FilesIn(d, u)) /\ FilesIn(d, u) \subseteq w
    /\ \E payload \in Payloads :
          /\ Cardinality(FilesIn(d, u)) + Len(left) = Len(payload)
          /\ {f[2] : f \in FilesIn(d, u)} \cup {left[i] : i \in 1..Len(left)}
                = {payload[i] : i \in 1..Len(payload)}

StoreTypes ==
    /\ disk \in [Places -> 0..MaxUploads]
    /\ stage \in [Senders -> {"discover", "ask", "upload", "sent", "failed"}]
    /\ carries \in [Senders -> 0..MaxUploads]

\* Uploads under way have numbers of their own, and are not answered.
UploadsAreDistinct ==
    /\ \A c \in Conns : Uploading(c) => conn[c].upload \in 1..uploads /\ conn[c].upload \notin acked
    /\ \A c, d \in Conns :
          Uploading(c) /\ Uploading(d) /\ conn[c].upload = conn[d].upload => c = d
    /\ acked \subseteq 1..uploads
    /\ \A f \in Places : disk[f] <= uploads

\* What is stored of them, before the body is whole and after.
SavesAreCounted ==
    \A c \in Conns :
        /\ conn[c].phase = "body" => FilesIn(disk, conn[c].upload) = {}
        /\ conn[c].phase = "save" => Partial(disk, whole, conn[c].upload, conn[c].left)

AnsweredAreSaved == \A u \in acked : u \in reported /\ Partial(disk, whole, u, <<>>)

\* A luftlift sender has one connection, which is where the sender is.
SendersAreFollowed ==
    /\ \A c, d \in Conns : conn[c].peer \in Senders /\ conn[c].peer = conn[d].peer => c = d
    /\ \A c \in Conns : conn[c].peer \in Senders =>
          /\ Pending(c) => stage[conn[c].peer] = "ask"
          /\ Uploading(c) => stage[conn[c].peer] = "upload" /\ carries[conn[c].peer] = conn[c].upload
    /\ \A p \in Senders : stage[p] = "sent" => carries[p] \in acked

Stored == /\ StoreTypes /\ UploadsAreDistinct /\ SavesAreCounted
          /\ AnsweredAreSaved /\ SendersAreFollowed

-----------------------------------------------------------------------------
\* A file more.
LEMMA FileStored ==
    ASSUME NEW d \in [Places -> Nat], NEW u \in Nat, NEW f \in Places, d[f] = 0, u # 0
    PROVE  /\ FilesIn([d EXCEPT ![f] = u], u) = FilesIn(d, u) \cup {f}
           /\ f \notin FilesIn(d, u)
           /\ \A v \in Nat : v # 0 /\ v # u =>
                 FilesIn([d EXCEPT ![f] = u], v) = FilesIn(d, v) /\ f \notin FilesIn(d, v)
  BY DEF FilesIn

LEMMA OneLess ==
    ASSUME NEW left \in Seq(Names), left # << >>
    PROVE  /\ Len(Tail(left)) + 1 = Len(left)
           /\ {left[i] : i \in 1..Len(left)}
                 = {Head(left)} \cup {Tail(left)[i] : i \in 1..Len(Tail(left))}
<1>1. Len(left) \in Nat /\ Len(left) # 0 /\ Len(Tail(left)) = Len(left) - 1 /\ Head(left) = left[1]
  OBVIOUS
<1>2. ASSUME NEW i \in 1..Len(Tail(left)) PROVE Tail(left)[i] = left[i + 1] /\ i + 1 \in 1..Len(left)
  BY <1>1
<1>3. ASSUME NEW i \in 1..Len(left), i # 1
      PROVE  i - 1 \in 1..Len(Tail(left)) /\ left[i] = Tail(left)[i - 1]
  <2>1. i - 1 \in 1..Len(Tail(left)) /\ (i - 1) + 1 = i
    BY <1>1, <1>3
  <2>. QED  BY <1>2, <2>1
<1>. QED  BY <1>1, <1>2, <1>3

LEMMA PartialSaved ==
    ASSUME NEW d \in [Places -> Nat], NEW w, NEW u \in Nat, u # 0,
           NEW left \in Seq(Names), left # << >>, Partial(d, w, u, left),
           NEW f \in Places, d[f] = 0, f[2] = Head(left)
    PROVE  Partial([d EXCEPT ![f] = u], w \cup {f}, u, Tail(left))
<1>. DEFINE F == FilesIn(d, u)
            G == FilesIn([d EXCEPT ![f] = u], u)
<1>1. G = F \cup {f} /\ f \notin F
  BY DEF FilesIn
<1>2. IsFiniteSet(F) /\ F \subseteq w
  BY DEF Partial
<1>. HIDE DEF F, G
<1>3. IsFiniteSet(G) /\ Cardinality(G) = Cardinality(F) + 1 /\ Cardinality(F) \in Nat
  BY <1>1, <1>2, FS_AddElement, FS_CardinalityType
<1>. USE DEF F
<1>4. PICK payload \in Payloads :
          /\ Cardinality(F) + Len(left) = Len(payload)
          /\ {g[2] : g \in F} \cup {left[i] : i \in 1..Len(left)} = {payload[i] : i \in 1..Len(payload)}
  BY DEF Partial
<1>. HIDE DEF F
<1>5. Cardinality(G) + Len(Tail(left)) = Len(payload)
  <2>1. Len(Tail(left)) + 1 = Len(left) /\ Len(Tail(left)) \in Nat
    BY OneLess
  <2>. QED  BY <1>3, <1>4, <2>1
<1>6. {g[2] : g \in G} = {g[2] : g \in F} \cup {Head(left)}
  BY <1>1
<1>7. {g[2] : g \in G} \cup {Tail(left)[i] : i \in 1..Len(Tail(left))}
         = {payload[i] : i \in 1..Len(payload)}
  <2>1. {left[i] : i \in 1..Len(left)} = {Head(left)} \cup {Tail(left)[i] : i \in 1..Len(Tail(left))}
    BY OneLess
  <2>. QED  BY <1>4, <1>6, <2>1
<1>8. G \subseteq w \cup {f}
  BY <1>1, <1>2
<1>. QED  BY <1>3, <1>5, <1>7, <1>8 DEF Partial, G

\* An upload of which nothing was stored or taken away.
LEMMA PartialKept ==
    ASSUME NEW d, NEW e, NEW w, NEW x, NEW u, NEW left, Partial(d, w, u, left),
           FilesIn(e, u) = FilesIn(d, u), FilesIn(d, u) \cap w \subseteq x
    PROVE  Partial(e, x, u, left)
  BY DEF Partial

\* What the end of a request leaves of its connection and of its sender.
Ended(c, status) ==
    /\ \/ Close(c)
       \/ /\ conn[c].peer \notin Senders
          /\ conn' = [conn EXCEPT ![c] = [NoConn EXCEPT !.peer = conn[c].peer, !.phase = "head"]]
    /\ \/ UNCHANGED stage
       \/ stage' = [stage EXCEPT ![conn[c].peer] = "failed"]
       \/ /\ status = 200
          /\ stage[conn[c].peer] \in {"discover", "ask", "upload"}
          /\ stage' = [stage EXCEPT ![conn[c].peer] = NextStage(@)]

LEMMA AnswerEnds == ASSUME NEW c, NEW status, NEW keep, Answer(c, status, keep) PROVE Ended(c, status)
<1>1. PICK arrives \in BOOLEAN : Hear(conn[c].peer, arrives /\ status = 200)
  BY DEF Answer
<1>2. \/ Close(c)
      \/ /\ conn[c].peer \notin Senders
         /\ conn' = [conn EXCEPT ![c] = [NoConn EXCEPT !.peer = conn[c].peer, !.phase = "head"]]
  BY DEF Answer
<1>3. \/ UNCHANGED stage
      \/ stage' = [stage EXCEPT ![conn[c].peer] = "failed"]
      \/ /\ status = 200
         /\ stage[conn[c].peer] \in {"discover", "ask", "upload"}
         /\ stage' = [stage EXCEPT ![conn[c].peer] = NextStage(@)]
  <2>1. CASE arrives /\ status = 200
    BY <1>1, <2>1 DEF Hear
  <2>2. CASE ~(arrives /\ status = 200)
    BY <1>1, <2>2 DEF Hear
  <2>. QED  BY <2>1, <2>2
<1>. QED  BY <1>2, <1>3 DEF Ended

LEMMA BrokenEnds == ASSUME NEW c, Broken(c) PROVE Ended(c, 0)
<1>1. Hear(conn[c].peer, FALSE) /\ Close(c)
  BY DEF Broken
<1>2. UNCHANGED stage \/ stage' = [stage EXCEPT ![conn[c].peer] = "failed"]
  BY <1>1 DEF Hear
<1>. QED  BY <1>1, <1>2 DEF Ended

\* A sender whose request has ended has no connection.
LEMMA AnswerHears ==
    ASSUME StoreTypes, conn \in [Conns -> Conn], NEW c \in Conns, NEW status, Ended(c, status)
    PROVE  /\ conn'[c].peer \notin Senders /\ conn'[c].phase \in {"free", "head"}
           /\ \A d \in Conns : d # c => conn'[d] = conn[d]
           /\ stage' \in [Senders -> {"discover", "ask", "upload", "sent", "failed"}]
           /\ \A p \in Senders : p # conn[c].peer => stage'[p] = stage[p]
           /\ \A p \in Senders : stage'[p] = "sent" =>
                 stage[p] = "sent" \/ (p = conn[c].peer /\ stage[p] = "upload" /\ status = 200)
<1>1. NoConn.peer = NoPeer /\ NoConn.phase = "free" /\ NoPeer \notin Senders
  BY PeersAssumption DEF NoConn, Peers
<1>2. conn'[c].peer \notin Senders /\ conn'[c].phase \in {"free", "head"}
  <2>1. CASE Close(c)
    BY <1>1, <2>1 DEF Close
  <2>2. CASE /\ conn[c].peer \notin Senders
             /\ conn' = [conn EXCEPT ![c] = [NoConn EXCEPT !.peer = conn[c].peer, !.phase = "head"]]
    BY <2>2 DEF NoConn
  <2>. QED  BY <2>1, <2>2 DEF Ended
<1>3. \A d \in Conns : d # c => conn'[d] = conn[d]
  BY DEF Ended, Close
<1>4. /\ stage' \in [Senders -> {"discover", "ask", "upload", "sent", "failed"}]
      /\ \A p \in Senders : p # conn[c].peer => stage'[p] = stage[p]
      /\ \A p \in Senders : stage'[p] = "sent" =>
            stage[p] = "sent" \/ (p = conn[c].peer /\ stage[p] = "upload" /\ status = 200)
  BY DEF Ended, NextStage, StoreTypes
<1>. QED  BY <1>2, <1>3, <1>4

\* A step that stores nothing, answers no upload and takes up none.
LEMMA StoreKept ==
    ASSUME Stored, UNCHANGED <<uploads, disk, whole, reported, acked>>,
           \A d \in Conns : Uploading(d)' => /\ conn'[d].phase = conn[d].phase
                                             /\ conn'[d].upload = conn[d].upload
                                             /\ conn'[d].left = conn[d].left
    PROVE  UploadsAreDistinct' /\ SavesAreCounted' /\ AnsweredAreSaved'
<1>1. UploadsAreDistinct'
  BY DEF Stored, UploadsAreDistinct, Uploading
<1>2. SavesAreCounted'
  BY DEF Stored, SavesAreCounted, Uploading
<1>3. AnsweredAreSaved'
  BY DEF Stored, AnsweredAreSaved
<1>. QED  BY <1>1, <1>2, <1>3

\* A step of no sender, or that leaves the senders where they are.
LEMMA SendersKept ==
    ASSUME Stored, UNCHANGED <<stage, carries>>, acked \subseteq acked',
           \A d \in Conns : conn'[d].peer \in Senders =>
              /\ conn'[d].peer = conn[d].peer
              /\ Pending(d)' => Pending(d)
              /\ Uploading(d)' => Uploading(d) /\ conn'[d].upload = conn[d].upload
    PROVE  SendersAreFollowed'
  BY DEF Stored, SendersAreFollowed

\* A request ends, and with it the sender's connection.
LEMMA SenderAnswered ==
    ASSUME Stored, conn \in [Conns -> Conn], NEW c \in Conns, NEW status, Ended(c, status),
           UNCHANGED carries, acked \subseteq acked',
           conn[c].peer \in Senders /\ stage[conn[c].peer] = "upload" /\ status = 200
              => carries[conn[c].peer] \in acked'
    PROVE  SendersAreFollowed' /\ (UNCHANGED disk => StoreTypes')
<1>1. /\ conn'[c].peer \notin Senders /\ conn'[c].phase \in {"free", "head"}
      /\ \A d \in Conns : d # c => conn'[d] = conn[d]
      /\ stage' \in [Senders -> {"discover", "ask", "upload", "sent", "failed"}]
      /\ \A p \in Senders : p # conn[c].peer => stage'[p] = stage[p]
      /\ \A p \in Senders : stage'[p] = "sent" =>
            stage[p] = "sent" \/ (p = conn[c].peer /\ stage[p] = "upload" /\ status = 200)
  BY AnswerHears DEF Stored
<1>2. \A d, e \in Conns : conn'[d].peer \in Senders /\ conn'[d].peer = conn'[e].peer => d = e
  BY <1>1 DEF Stored, SendersAreFollowed
<1>3. ASSUME NEW d \in Conns, conn'[d].peer \in Senders
      PROVE  conn'[d] = conn[d] /\ stage'[conn[d].peer] = stage[conn[d].peer]
  <2>1. d # c /\ conn'[d] = conn[d]
    BY <1>1, <1>3
  <2>2. conn[d].peer # conn[c].peer
    BY <1>3, <2>1 DEF Stored, SendersAreFollowed
  <2>. QED  BY <1>1, <1>3, <2>1, <2>2
<1>4. \A d \in Conns : conn'[d].peer \in Senders =>
         /\ Pending(d)' => stage'[conn'[d].peer] = "ask"
         /\ Uploading(d)' => stage'[conn'[d].peer] = "upload" /\ carries'[conn'[d].peer] = conn'[d].upload
  BY <1>3 DEF Stored, SendersAreFollowed, Pending, Uploading
<1>5. \A p \in Senders : stage'[p] = "sent" => carries'[p] \in acked'
  BY <1>1 DEF Stored, SendersAreFollowed
<1>6. SendersAreFollowed'
  BY <1>2, <1>4, <1>5 DEF SendersAreFollowed
<1>. QED  BY <1>1, <1>6 DEF Stored, StoreTypes

\* An answer that is not the one of a whole upload.
LEMMA AnswerKept ==
    ASSUME Stored, conn \in [Conns -> Conn], NEW c \in Conns, NEW status, Ended(c, status),
           UNCHANGED <<uploads, disk, whole, reported, acked, carries>>,
           conn[c].peer \in Senders /\ status = 200 => stage[conn[c].peer] # "upload"
    PROVE  Stored'
<1>1. SendersAreFollowed' /\ StoreTypes'
  BY SenderAnswered
<1>2. \A d \in Conns : Uploading(d)' => conn'[d] = conn[d]
  BY AnswerHears DEF Stored, Uploading
<1>3. UploadsAreDistinct' /\ SavesAreCounted' /\ AnsweredAreSaved'
  BY <1>2, StoreKept
<1>. QED  BY <1>1, <1>3 DEF Stored

\* A file that is created takes no other upload's place.
LEMMA FileCreated ==
    ASSUME Stored, TypeOK, NEW c \in Conns, Uploading(c), NEW f \in Places, disk[f] = 0,
           disk' = [disk EXCEPT ![f] = conn[c].upload], whole \ {f} \subseteq whole',
           UNCHANGED <<uploads, reported, acked>>,
           \A d \in Conns : d # c => conn'[d] = conn[d],
           Uploading(c)' => conn'[c].upload = conn[c].upload,
           conn'[c].phase # "body",
           conn'[c].phase = "save" => Partial(disk', whole', conn[c].upload, conn'[c].left)
    PROVE  UploadsAreDistinct' /\ SavesAreCounted' /\ AnsweredAreSaved' /\ disk' \in [Places -> 0..MaxUploads]
<1>. DEFINE u == conn[c].upload
<1>1. u \in 1..uploads /\ u \notin acked /\ uploads \in 0..MaxUploads /\ u \in 0..MaxUploads /\ MaxUploads \in Nat
  BY BoundAssumption DEF Stored, UploadsAreDistinct, TypeOK
<1>2. disk \in [Places -> Nat] /\ disk' \in [Places -> 0..MaxUploads]
  BY <1>1 DEF Stored, StoreTypes
<1>3. ASSUME NEW v \in Nat, v # 0, v # u, NEW left
      PROVE  /\ FilesIn(disk', v) = FilesIn(disk, v)
             /\ Partial(disk, whole, v, left) => Partial(disk', whole', v, left)
  <2>1. FilesIn(disk', v) = FilesIn(disk, v) /\ f \notin FilesIn(disk, v)
    BY <1>1, <1>2, <1>3 DEF FilesIn
  <2>2. FilesIn(disk, v) \cap whole \subseteq whole'
    BY <2>1
  <2>. QED  BY <2>1, <2>2, PartialKept
<1>4. ASSUME NEW d \in Conns, d # c, Uploading(d)
      PROVE  conn[d].upload \in Nat /\ conn[d].upload # 0 /\ conn[d].upload # u
  BY <1>1, <1>4 DEF Stored, UploadsAreDistinct
<1>5. UploadsAreDistinct'
  <2>1. \A d \in Conns : Uploading(d)' => Uploading(d) /\ conn'[d].upload = conn[d].upload
    BY DEF Uploading
  <2>2. \A g \in Places : disk'[g] <= uploads
    BY <1>1, <1>2 DEF Stored, UploadsAreDistinct
  <2>. QED  BY <2>1, <2>2 DEF Stored, UploadsAreDistinct
<1>6. SavesAreCounted'
  <2>1. ASSUME NEW d \in Conns, d # c
        PROVE  /\ conn'[d].phase = "body" => FilesIn(disk', conn'[d].upload) = {}
               /\ conn'[d].phase = "save" => Partial(disk', whole', conn'[d].upload, conn'[d].left)
    BY <1>3, <1>4, <2>1 DEF Stored, SavesAreCounted, Uploading
  <2>2. conn'[c].phase = "save" => Partial(disk', whole', conn'[c].upload, conn'[c].left)
    BY DEF Uploading
  <2>. QED  BY <2>1, <2>2 DEF SavesAreCounted
<1>7. AnsweredAreSaved'
  <2>1. ASSUME NEW v \in acked PROVE v \in reported /\ Partial(disk', whole', v, << >>)
    <3>1. v \in Nat /\ v # 0 /\ v # u
      BY <1>1 DEF Stored, UploadsAreDistinct
    <3>. QED  BY <1>3, <3>1 DEF Stored, AnsweredAreSaved
  <2>. QED  BY <2>1 DEF AnsweredAreSaved
<1>. QED  BY <1>2, <1>5, <1>6, <1>7

\* The place of a file is free.
LEMMA PlaceIsFree ==
    ASSUME TypeOK, NEW c \in Conns, conn[c].phase = "save", conn[c].left # << >>,
           NEW f \in PlaceFor(Head(conn[c].left))
    PROVE  f \in Places /\ disk[f] = 0 /\ f[2] = Head(conn[c].left) /\ conn[c].left \in Seq(Names)
<1>1. conn[c].left \in Seq(Names) /\ Head(conn[c].left) \in Names
  BY DEF TypeOK, Conn
<1>2. PICK s \in 0..MaxSuffix : f = <<s, Head(conn[c].left)>> /\ disk[<<s, Head(conn[c].left)>>] = 0
  BY DEF PlaceFor
<1>3. f \in Places
  BY <1>1, <1>2 DEF Places
<1>. QED  BY <1>1, <1>2, <1>3

LEMMA StoredStep == ASSUME TypeOK, TypeOK', Stored, [ReceiverNext]_receiverVars PROVE Stored'
<1>0. conn \in [Conns -> Conn] /\ conn' \in [Conns -> Conn]
  BY DEF TypeOK
<1>a. ASSUME UNCHANGED <<uploads, disk, whole, reported, acked, stage, carries>>,
             \A d \in Conns : conn'[d] = conn[d]
                              \/ (/\ conn'[d].peer = conn[d].peer /\ ~Uploading(d)'
                                  /\ Pending(d)' /\ conn[d].peer \in Senders => Pending(d))
      PROVE  Stored'
  <2>1. UploadsAreDistinct' /\ SavesAreCounted' /\ AnsweredAreSaved'
    BY <1>a, StoreKept DEF Uploading
  <2>2. SendersAreFollowed'
    BY <1>a, SendersKept DEF Pending, Uploading
  <2>. QED  BY <1>a, <2>1, <2>2 DEF Stored, StoreTypes
<1>1. ASSUME NEW c \in Conns, NEW p \in Peers, Accept(c, p) PROVE Stored'
  <2>1. /\ conn'[c].peer = p /\ conn'[c].phase = "head"
        /\ \A d \in Conns : d # c => conn'[d] = conn[d]
    BY <1>0, <1>1 DEF Accept, NoConn
  <2>2. p \in Senders => \A d \in Conns : conn[d].peer # p
    BY <1>1 DEF Accept, Idle
  <2>3. UNCHANGED <<uploads, disk, whole, reported, acked, stage, carries>>
    BY <1>1 DEF Accept
  <2>4. UploadsAreDistinct' /\ SavesAreCounted' /\ AnsweredAreSaved'
    BY <2>1, <2>3, StoreKept DEF Uploading
  <2>5. SendersAreFollowed'
    <3>1. ~Pending(c)' /\ ~Uploading(c)'
      BY <2>1 DEF Pending, Uploading
    <3>2. \A d \in Conns : d # c => (Pending(d)' <=> Pending(d)) /\ (Uploading(d)' <=> Uploading(d))
      BY <2>1 DEF Pending, Uploading
    <3>. QED  BY <2>1, <2>2, <2>3, <3>1, <3>2 DEF Stored, SendersAreFollowed
  <2>. QED  BY <2>3, <2>4, <2>5 DEF Stored, StoreTypes
<1>2. ASSUME NEW c \in Conns, Drop(c) PROVE Stored'
  <2>1. Broken(c) /\ UNCHANGED <<uploads, disk, whole, reported, acked, carries>>
    BY <1>2 DEF Drop
  <2>. QED  BY <1>0, <2>1, BrokenEnds, AnswerKept
<1>3. ASSUME NEW c \in Conns, Discover(c) PROVE Stored'
  <2>1. UNCHANGED <<uploads, disk, whole, reported, acked, carries>>
    BY <1>3 DEF Discover
  <2>2. conn[c].peer \in Senders => stage[conn[c].peer] # "upload"
    BY <1>3 DEF Discover, MaySend
  <2>3. Ended(c, 200) \/ Ended(c, 404) \/ Ended(c, 405)
    <3>1. CASE Answer(c, 200, TRUE)
      BY <3>1, AnswerEnds
    <3>2. CASE Answer(c, 404, TRUE)
      BY <3>2, AnswerEnds
    <3>3. CASE Answer(c, 405, FALSE)
      BY <3>3, AnswerEnds
    <3>. QED  BY <1>3, <3>1, <3>2, <3>3 DEF Discover
  <2>4. CASE Ended(c, 200)
    BY <1>0, <2>1, <2>2, <2>4, AnswerKept
  <2>5. CASE Ended(c, 404)
    BY <1>0, <2>1, <2>2, <2>5, AnswerKept
  <2>6. CASE Ended(c, 405)
    BY <1>0, <2>1, <2>2, <2>6, AnswerKept
  <2>. QED  BY <2>3, <2>4, <2>5, <2>6
<1>4. ASSUME NEW c \in Conns, AskHead(c) PROVE Stored'
  <2>1. /\ conn[c].phase = "head" /\ MaySend(conn[c].peer, "ask")
        /\ UNCHANGED <<uploads, disk, whole, reported, acked, stage, carries>>
    BY <1>4 DEF AskHead
  <2>2. /\ conn'[c].peer = conn[c].peer /\ conn'[c].phase = "asking"
        /\ \A d \in Conns : d # c => conn'[d] = conn[d]
    BY <1>0, <1>4 DEF AskHead, Conn
  <2>3. UploadsAreDistinct' /\ SavesAreCounted' /\ AnsweredAreSaved'
    BY <2>1, <2>2, StoreKept DEF Uploading
  <2>4. SendersAreFollowed'
    <3>1. ~Uploading(c)' /\ (conn[c].peer \in Senders => stage[conn[c].peer] = "ask")
      BY <2>1, <2>2 DEF Uploading, MaySend
    <3>2. \A d \in Conns : d # c => (Pending(d)' <=> Pending(d)) /\ (Uploading(d)' <=> Uploading(d))
      BY <2>2 DEF Pending, Uploading
    <3>. QED  BY <2>1, <2>2, <3>1, <3>2 DEF Stored, SendersAreFollowed
  <2>. QED  BY <2>1, <2>3, <2>4 DEF Stored, StoreTypes
<1>5. ASSUME NEW c \in Conns, AskBody(c) PROVE Stored'
  <2>1. conn[c].phase = "asking" /\ UNCHANGED <<uploads, disk, whole, reported, acked, carries>>
    BY <1>5 DEF AskBody
  <2>2. CASE conn' = [conn EXCEPT ![c].phase = "prompt"] /\ UNCHANGED stage
    <3>1. /\ conn'[c].peer = conn[c].peer /\ conn'[c].phase = "prompt"
          /\ \A d \in Conns : d # c => conn'[d] = conn[d]
      BY <1>0, <2>2 DEF Conn
    <3>. QED  BY <1>a, <2>1, <2>2, <3>1 DEF Pending, Uploading
  <2>3. CASE Answer(c, 403, FALSE)
    <3>1. Ended(c, 403)
      BY <2>3, AnswerEnds
    <3>. QED  BY <1>0, <2>1, <3>1, AnswerKept
  <2>. QED  BY <1>5, <2>2, <2>3 DEF AskBody
<1>6. ASSUME NEW c \in Conns, Decide(c) PROVE Stored'
  <2>1. conn[c].phase = "prompt" /\ UNCHANGED <<uploads, disk, whole, reported, acked, carries>>
    BY <1>6 DEF Decide
  <2>2. conn[c].peer \in Senders => stage[conn[c].peer] # "upload"
    BY <2>1 DEF Stored, SendersAreFollowed, Pending
  <2>3. Ended(c, 200) \/ Ended(c, 403)
    <3>1. CASE Answer(c, 200, TRUE)
      BY <3>1, AnswerEnds
    <3>2. CASE Answer(c, 403, FALSE)
      BY <3>2, AnswerEnds
    <3>. QED  BY <1>6, <3>1, <3>2 DEF Decide
  <2>4. CASE Ended(c, 200)
    BY <1>0, <2>1, <2>2, <2>4, AnswerKept
  <2>5. CASE Ended(c, 403)
    BY <1>0, <2>1, <2>2, <2>5, AnswerKept
  <2>. QED  BY <2>3, <2>4, <2>5
<1>7. ASSUME NEW c \in Conns, UploadHead(c) PROVE Stored'
  <2>. DEFINE u == uploads + 1
              p == conn[c].peer
  <2>1. /\ conn[c].phase = "head" /\ MaySend(p, "upload") /\ uploads < MaxUploads
        /\ UNCHANGED <<disk, whole, reported, acked>>
    BY <1>7 DEF UploadHead
  <2>2. uploads \in 0..MaxUploads /\ u \in 0..MaxUploads /\ uploads < u /\ MaxUploads \in Nat
    BY <2>1, BoundAssumption DEF TypeOK
  <2>3. CASE Answer(c, 403, FALSE) /\ UNCHANGED <<uploads, carries>>
    <3>1. Ended(c, 403)
      BY <2>3, AnswerEnds
    <3>. QED  BY <1>0, <2>1, <2>3, <3>1, AnswerKept
  <2>4. CASE /\ uploads' = u /\ UNCHANGED stage
             /\ conn' = [conn EXCEPT ![c].phase = "body", ![c].upload = u]
             /\ carries' = IF p \in Senders THEN [carries EXCEPT ![p] = u] ELSE carries
    <3>1. /\ conn'[c].peer = p /\ conn'[c].phase = "body" /\ conn'[c].upload = u
          /\ \A d \in Conns : d # c => conn'[d] = conn[d]
      BY <1>0, <2>4 DEF Conn
    <3>2. \A d \in Conns : d # c /\ Uploading(d)' => Uploading(d) /\ conn'[d] = conn[d]
      BY <3>1 DEF Uploading
    <3>3. UploadsAreDistinct'
      <4>1. \A d \in Conns : d # c /\ Uploading(d)' =>
               conn'[d].upload \in 1..uploads /\ conn'[d].upload # u /\ conn'[d].upload \notin acked
        BY <2>2, <3>2 DEF Stored, UploadsAreDistinct
      <4>2. u \notin acked /\ u \in 1..uploads' /\ acked \subseteq 1..uploads' /\ 1..uploads \subseteq 1..uploads'
        BY <2>2, <2>4 DEF Stored, UploadsAreDistinct
      <4>3. \A f \in Places : disk'[f] <= uploads'
        BY <2>1, <2>2, <2>4 DEF Stored, UploadsAreDistinct, StoreTypes
      <4>4. \A d \in Conns : Uploading(d)' => conn'[d].upload \in 1..uploads' /\ conn'[d].upload \notin acked'
        BY <2>1, <3>1, <4>1, <4>2
      <4>5. \A d, e \in Conns : Uploading(d)' /\ Uploading(e)' /\ conn'[d].upload = conn'[e].upload => d = e
        BY <3>1, <3>2, <4>1 DEF Stored, UploadsAreDistinct
      <4>. QED  BY <2>1, <4>2, <4>3, <4>4, <4>5 DEF UploadsAreDistinct
    <3>4. SavesAreCounted'
      <4>1. FilesIn(disk, u) = {}
        BY <2>2 DEF Stored, UploadsAreDistinct, StoreTypes, FilesIn
      <4>2. \A d \in Conns : d # c =>
               /\ conn'[d].phase = "body" => FilesIn(disk', conn'[d].upload) = {}
               /\ conn'[d].phase = "save" => Partial(disk', whole', conn'[d].upload, conn'[d].left)
        BY <2>1, <3>1 DEF Stored, SavesAreCounted
      <4>. QED  BY <2>1, <3>1, <4>1, <4>2 DEF SavesAreCounted
    <3>5. AnsweredAreSaved'
      BY <2>1 DEF Stored, AnsweredAreSaved
    <3>6. SendersAreFollowed'
      <4>1. p \in Senders => stage[p] = "upload" /\ carries'[p] = u
        BY <2>1, <2>4 DEF MaySend, Stored, StoreTypes
      <4>2. \A q \in Senders : q # p => carries'[q] = carries[q]
        BY <2>4 DEF Stored, StoreTypes
      <4>3. ~Pending(c)' /\ \A d \in Conns : d # c => (Pending(d)' <=> Pending(d)) /\ (Uploading(d)' <=> Uploading(d))
        BY <3>1 DEF Pending, Uploading
      <4>4. \A d \in Conns : d # c /\ conn[d].peer \in Senders => conn[d].peer # p
        BY DEF Stored, SendersAreFollowed
      <4>5. \A d \in Conns : conn'[d].peer = conn[d].peer
        BY <3>1
      <4>6. \A d, e \in Conns : conn'[d].peer \in Senders /\ conn'[d].peer = conn'[e].peer => d = e
        BY <4>5 DEF Stored, SendersAreFollowed
      <4>7. ASSUME NEW d \in Conns, conn'[d].peer \in Senders
            PROVE  /\ Pending(d)' => stage'[conn'[d].peer] = "ask"
                   /\ Uploading(d)' => /\ stage'[conn'[d].peer] = "upload"
                                       /\ carries'[conn'[d].peer] = conn'[d].upload
        <5>1. CASE d = c
          BY <2>4, <3>1, <4>1, <4>3, <4>7, <5>1
        <5>2. CASE d # c
          <6>1. conn'[d] = conn[d] /\ conn[d].peer # p /\ conn[d].peer \in Senders
            BY <3>1, <4>4, <4>7, <5>2
          <6>2. /\ stage'[conn[d].peer] = stage[conn[d].peer]
                /\ carries'[conn[d].peer] = carries[conn[d].peer]
            BY <2>4, <4>2, <6>1
          <6>3. (Pending(d)' => Pending(d)) /\ (Uploading(d)' => Uploading(d))
            BY <4>3, <5>2
          <6>. QED  BY <6>1, <6>2, <6>3 DEF Stored, SendersAreFollowed
        <5>. QED  BY <5>1, <5>2
      <4>8. \A q \in Senders : stage'[q] = "sent" => carries'[q] \in acked'
        BY <2>1, <2>4, <4>1, <4>2 DEF Stored, SendersAreFollowed
      <4>. QED  BY <4>6, <4>7, <4>8 DEF SendersAreFollowed
    <3>7. StoreTypes'
      BY <2>1, <2>2, <2>4 DEF Stored, StoreTypes
    <3>. QED  BY <3>3, <3>4, <3>5, <3>6, <3>7 DEF Stored
  <2>. QED  BY <1>7, <2>3, <2>4 DEF UploadHead
<1>8. ASSUME NEW c \in Conns, UploadBody(c) PROVE Stored'
  <2>1. conn[c].phase = "body" /\ UNCHANGED <<uploads, disk, whole, reported, acked, carries>>
    BY <1>8 DEF UploadBody
  <2>2. CASE Answer(c, 400, TRUE) \/ Answer(c, 406, FALSE)
    <3>1. Ended(c, 400) \/ Ended(c, 406)
      BY <2>2, AnswerEnds
    <3>. QED  BY <1>0, <2>1, <3>1, AnswerKept
  <2>3. ASSUME NEW payload \in Payloads, UNCHANGED stage,
               conn' = [conn EXCEPT ![c].phase = "save", ![c].left = payload]
        PROVE  Stored'
    <3>1. /\ conn'[c].peer = conn[c].peer /\ conn'[c].phase = "save"
          /\ conn'[c].upload = conn[c].upload /\ conn'[c].left = payload
          /\ \A d \in Conns : d # c => conn'[d] = conn[d]
      BY <1>0, <2>3 DEF Conn
    <3>2. \A d \in Conns : /\ Uploading(d)' <=> Uploading(d)
                           /\ Pending(d)' <=> Pending(d)
                           /\ conn'[d].upload = conn[d].upload /\ conn'[d].peer = conn[d].peer
      BY <2>1, <3>1 DEF Uploading, Pending
    <3>3. UploadsAreDistinct'
      BY <2>1, <3>2 DEF Stored, UploadsAreDistinct
    <3>4. SavesAreCounted'
      <4>1. Partial(disk, whole, conn[c].upload, payload)
        <5>1. FilesIn(disk, conn[c].upload) = {}
          BY <2>1 DEF Stored, SavesAreCounted
        <5>2. Cardinality({}) = 0 /\ IsFiniteSet({})
          BY FS_EmptySet
        <5>3. payload \in Seq(Names) /\ 0 + Len(payload) = Len(payload)
          BY PayloadsAssumption
        <5>. QED  BY <5>1, <5>2, <5>3 DEF Partial
      <4>. QED  BY <2>1, <3>1, <4>1 DEF Stored, SavesAreCounted
    <3>5. AnsweredAreSaved'
      BY <2>1 DEF Stored, AnsweredAreSaved
    <3>6. SendersAreFollowed'
      BY <2>1, <2>3, <3>2, SendersKept
    <3>. QED  BY <2>1, <2>3, <3>3, <3>4, <3>5, <3>6 DEF Stored, StoreTypes
  <2>. QED  BY <1>8, <2>2, <2>3 DEF UploadBody
<1>9. ASSUME NEW c \in Conns, Save(c) PROVE Stored'
  <2>1. /\ conn[c].phase = "save" /\ conn[c].left # << >> /\ Uploading(c)
        /\ UNCHANGED <<uploads, reported, acked, stage, carries>>
    BY <1>9 DEF Save, Uploading
  <2>2. PICK f \in PlaceFor(Head(conn[c].left)) :
           /\ disk' = [disk EXCEPT ![f] = conn[c].upload]
           /\ whole' = whole \cup {f}
           /\ conn' = [conn EXCEPT ![c].left = Tail(@), ![c].places = @ \cup {f}]
    BY <1>9 DEF Save
  <2>3. f \in Places /\ disk[f] = 0 /\ f[2] = Head(conn[c].left) /\ conn[c].left \in Seq(Names)
    BY <2>1, PlaceIsFree
  <2>4. /\ conn'[c].peer = conn[c].peer /\ conn'[c].phase = conn[c].phase
        /\ conn'[c].upload = conn[c].upload /\ conn'[c].left = Tail(conn[c].left)
        /\ \A d \in Conns : d # c => conn'[d] = conn[d]
    BY <1>0, <2>2 DEF Conn
  <2>5. Partial(disk', whole', conn[c].upload, Tail(conn[c].left))
    <3>1. conn[c].upload \in Nat /\ conn[c].upload # 0 /\ disk \in [Places -> Nat]
      BY <2>1, BoundAssumption DEF Stored, UploadsAreDistinct, StoreTypes, TypeOK
    <3>2. Partial(disk, whole, conn[c].upload, conn[c].left)
      BY <2>1 DEF Stored, SavesAreCounted
    <3>. QED  BY <2>1, <2>2, <2>3, <3>1, <3>2, PartialSaved
  <2>6. UploadsAreDistinct' /\ SavesAreCounted' /\ AnsweredAreSaved' /\ disk' \in [Places -> 0..MaxUploads]
    <3>1. whole \ {f} \subseteq whole'
      BY <2>2
    <3>. QED  BY <2>1, <2>2, <2>3, <2>4, <2>5, <3>1, FileCreated
  <2>7. SendersAreFollowed'
    <3>1. \A d \in Conns : /\ Uploading(d)' <=> Uploading(d)
                           /\ Pending(d)' <=> Pending(d)
                           /\ conn'[d].upload = conn[d].upload /\ conn'[d].peer = conn[d].peer
      BY <2>1, <2>4 DEF Uploading, Pending
    <3>. QED  BY <2>1, <3>1, SendersKept
  <2>. QED  BY <2>1, <2>6, <2>7 DEF Stored, StoreTypes
<1>10. ASSUME NEW c \in Conns, SaveFails(c) PROVE Stored'
  <2>1. /\ conn[c].phase = "save" /\ conn[c].left # << >> /\ Uploading(c) /\ Ended(c, 0)
        /\ UNCHANGED <<uploads, reported, acked, carries>>
    BY <1>10, BrokenEnds DEF SaveFails, Uploading
  <2>2. CASE UNCHANGED <<disk, whole>>
    BY <1>0, <2>1, <2>2, AnswerKept
  <2>3. ASSUME NEW f \in PlaceFor(Head(conn[c].left)),
               disk' = [disk EXCEPT ![f] = conn[c].upload], whole' = whole \ {f}
        PROVE  Stored'
    <3>1. f \in Places /\ disk[f] = 0
      BY <2>1, PlaceIsFree
    <3>2. /\ conn'[c].phase \in {"free", "head"}
          /\ \A d \in Conns : d # c => conn'[d] = conn[d]
          /\ stage' \in [Senders -> {"discover", "ask", "upload", "sent", "failed"}]
      BY <1>0, <2>1, AnswerHears DEF Stored
    <3>3. UploadsAreDistinct' /\ SavesAreCounted' /\ AnsweredAreSaved' /\ disk' \in [Places -> 0..MaxUploads]
      <4>1. ~Uploading(c)' /\ conn'[c].phase # "body" /\ conn'[c].phase # "save"
        BY <3>2 DEF Uploading
      <4>. QED  BY <2>1, <2>3, <3>1, <3>2, <4>1, FileCreated
    <3>4. SendersAreFollowed'
      BY <1>0, <2>1, SenderAnswered
    <3>. QED  BY <2>1, <3>2, <3>3, <3>4 DEF Stored, StoreTypes
  <2>. QED  BY <1>10, <2>2, <2>3 DEF SaveFails
<1>11. ASSUME NEW c \in Conns, Finish(c) PROVE Stored'
  <2>. DEFINE u == conn[c].upload
  <2>1. /\ conn[c].phase = "save" /\ conn[c].left = << >> /\ Uploading(c)
        /\ reported' = reported \cup {u} /\ acked' = acked \cup {u} /\ Ended(c, 200)
        /\ UNCHANGED <<uploads, disk, whole, carries>>
    BY <1>11, AnswerEnds DEF Finish, Uploading
  <2>2. /\ conn'[c].phase \in {"free", "head"}
        /\ \A d \in Conns : d # c => conn'[d] = conn[d]
    BY <1>0, <2>1, AnswerHears DEF Stored
  <2>3. \A d \in Conns : Uploading(d)' => d # c /\ Uploading(d) /\ conn'[d] = conn[d]
    BY <2>2 DEF Uploading
  <2>4. UploadsAreDistinct'
    BY <2>1, <2>3 DEF Stored, UploadsAreDistinct
  <2>5. SavesAreCounted'
    BY <2>1, <2>2 DEF Stored, SavesAreCounted
  <2>6. AnsweredAreSaved'
    BY <2>1 DEF Stored, AnsweredAreSaved, SavesAreCounted
  <2>7. SendersAreFollowed' /\ StoreTypes'
    <3>1. conn[c].peer \in Senders => carries[conn[c].peer] \in acked'
      BY <2>1 DEF Stored, SendersAreFollowed
    <3>2. acked \subseteq acked'
      BY <2>1
    <3>. QED  BY <1>0, <2>1, <3>1, <3>2, SenderAnswered
  <2>. QED  BY <2>4, <2>5, <2>6, <2>7 DEF Stored
<1>12. ASSUME NEW p \in Peers, Refuse(p) PROVE Stored'
  <2>1. UNCHANGED <<conn, uploads, disk, whole, reported, acked, carries>> /\ Idle(p) /\ Hear(p, FALSE)
    BY <1>12 DEF Refuse, serverVars
  <2>2. UploadsAreDistinct' /\ SavesAreCounted' /\ AnsweredAreSaved'
    BY <2>1, StoreKept
  <2>3. /\ stage' \in [Senders -> {"discover", "ask", "upload", "sent", "failed"}]
        /\ \A q \in Senders : q # p => stage'[q] = stage[q]
        /\ \A q \in Senders : stage'[q] = "sent" => stage[q] = "sent"
    BY <2>1 DEF Hear, Stored, StoreTypes
  <2>4. SendersAreFollowed'
    <3>1. \A d \in Conns : conn[d].peer \in Senders => conn[d].peer # p
      BY <2>1 DEF Idle
    <3>. QED  BY <2>1, <2>3, <3>1 DEF Stored, SendersAreFollowed, Pending, Uploading
  <2>. QED  BY <2>1, <2>2, <2>3, <2>4 DEF Stored, StoreTypes
<1>13. ASSUME NEW t \in Tokens, NEW choice, Land(t) \/ Tap(t, choice) PROVE Stored'
  <2>1. UNCHANGED <<conn, uploads, disk, whole, reported, acked, stage, carries>>
    BY <1>13 DEF Land, Tap, serverVars
  <2>. QED  BY <1>a, <2>1
<1>14. ASSUME NEW p \in Peers, Expire(p) PROVE Stored'
  <2>1. UNCHANGED <<conn, uploads, disk, whole, reported, acked, stage, carries>>
    BY <1>14 DEF Expire
  <2>. QED  BY <1>a, <2>1
<1>15. CASE UNCHANGED receiverVars
  <2>1. UNCHANGED <<conn, uploads, disk, whole, reported, acked, stage, carries>>
    BY <1>15 DEF receiverVars, serverVars
  <2>. QED  BY <1>a, <2>1
<1>. QED
  BY <1>1, <1>2, <1>3, <1>4, <1>5, <1>6, <1>7, <1>8, <1>9, <1>10, <1>11, <1>12, <1>13, <1>14, <1>15
  DEF ReceiverNext, Serve

LEMMA StoredInit == ReceiverInit => Stored
<1>. SUFFICES ASSUME ReceiverInit PROVE Stored
  OBVIOUS
<1>1. \A c \in Conns : conn[c].phase = "free" /\ conn[c].peer = NoPeer
  BY DEF ReceiverInit, NoConn
<1>2. NoPeer \notin Senders
  BY PeersAssumption DEF Peers
<1>3. StoreTypes
  BY BoundAssumption DEF ReceiverInit, StoreTypes
<1>4. UploadsAreDistinct
  BY <1>1, <1>3 DEF ReceiverInit, UploadsAreDistinct, Uploading
<1>5. SavesAreCounted /\ AnsweredAreSaved
  BY <1>1 DEF ReceiverInit, SavesAreCounted, AnsweredAreSaved
<1>6. SendersAreFollowed
  BY <1>1, <1>2 DEF ReceiverInit, SendersAreFollowed
<1>. QED  BY <1>3, <1>4, <1>5, <1>6 DEF Stored

LEMMA StoredIsSaved == Stored => AckedIsSaved
<1>. SUFFICES ASSUME Stored PROVE AckedIsSaved
  OBVIOUS
<1>1. ASSUME NEW u \in acked
      PROVE  /\ u \in reported
             /\ FilesOf(u) \subseteq whole
             /\ \E payload \in Payloads :
                   /\ Cardinality(FilesOf(u)) = Len(payload)
                   /\ {f[2] : f \in FilesOf(u)} = {payload[i] : i \in 1..Len(payload)}
  <2>1. u \in reported /\ Partial(disk, whole, u, << >>)
    BY DEF Stored, AnsweredAreSaved
  <2>2. FilesOf(u) = FilesIn(disk, u)
    BY DEF FilesOf, FilesIn
  <2>3. IsFiniteSet(FilesOf(u)) /\ FilesOf(u) \subseteq whole
    BY <2>1, <2>2 DEF Partial
  <2>4. PICK payload \in Payloads :
           /\ Cardinality(FilesOf(u)) + Len(<< >>) = Len(payload)
           /\ {f[2] : f \in FilesOf(u)} \cup {<< >>[i] : i \in 1..Len(<< >>)}
                 = {payload[i] : i \in 1..Len(payload)}
    BY <2>1, <2>2 DEF Partial
  <2>5. Cardinality(FilesOf(u)) \in Nat /\ Len(<< >>) = 0
    BY <2>3, FS_CardinalityType
  <2>6. Cardinality(FilesOf(u)) = Len(payload)
    BY <2>4, <2>5
  <2>7. {f[2] : f \in FilesOf(u)} = {payload[i] : i \in 1..Len(payload)}
    <3>1. {<< >>[i] : i \in 1..Len(<< >>)} = {}
      BY <2>5
    <3>. QED  BY <2>4, <3>1
  <2>. QED  BY <2>1, <2>3, <2>6, <2>7
<1>. QED  BY <1>1 DEF AckedIsSaved, Stored, SendersAreFollowed

\* The receiver's connections, approvals and prompts are well typed.
THEOREM TypeCorrect == ReceiverSpec => []TypeOK
<1>. QED  BY InitOK, Step, PTL DEF ReceiverSpec

\* The receiver implements what a user may rely on: every step of a request,
\* of the user or of a clock is a step of the contract, or none.
THEOREM ConsentIsKept == ReceiverSpec => KeepsConsent
<1>1. TypeOK /\ Consent /\ [ReceiverNext]_receiverVars => [Contract!Next]_<<prompt, consumed>>
  BY Step DEF Kept
<1>. QED  BY <1>1, InitOK, Step, PTL DEF ReceiverSpec, KeepsConsent, Contract!Spec

\* One Ask that the user accepted authorizes at most one Upload (server.rs,
\* take_approval and grant_approval), whatever the connections do.
THEOREM OneUploadPerConsent == ReceiverSpec => []UploadsHaveConsent
<1>. QED  BY InitOK, Step, ConsentIsEnough, PTL DEF ReceiverSpec

\* An upload that was answered 200 is on disk as a whole and reported, under
\* names of its own, and stays so; so is what a luftlift sender reports as sent
\* (server.rs, save and the answer after it; client.rs, send).
THEOREM WhatIsAckedIsSaved == ReceiverSpec => []AckedIsSaved
<1>. QED  BY InitOK, Step, StoredInit, StoredStep, StoredIsSaved, PTL DEF ReceiverSpec

-----------------------------------------------------------------------------
(* Discovery: who can still speak to the network.  It is the daemon of the *)
(* session the supervisor can tear down, or of the one it is just opening. *)
(* Threads of a session are not waited for, so it must hold whatever they  *)
(* do.                                                                     *)

SupPlaces == {"poll", "quit", "join", "unregister", "shutdown", "announce", "repeat", "publish"}

Tied ==
    /\ sup \in [at : SupPlaces, read : Addrs \cup {None}, last : Addrs \cup {None}]
    /\ ifaddr \in Addrs \cup {None}
    /\ session \in 0..MaxSessions
    /\ daemon \in [Sessions -> {"none", "up", "silent", "down"}]
    /\ address \in [Sessions -> Addrs \cup {None}]

Speaks(k) == daemon[k] \in {"up", "silent"}

\* Sessions that can still speak to the network.
OneSpeaks ==
    \A k \in Sessions :
        Speaks(k) => k = teardown \/ (k = session /\ sup.at \in {"repeat", "publish"})

\* A session is opened after the last was torn down, with the address that was read.
OpenedInTurn ==
    /\ sup.at \in {"announce", "repeat", "publish"} => teardown = 0
    /\ sup.at \in {"repeat", "publish"} => session \in Sessions /\ address[session] = sup.read

\* The session that can be torn down announces the last address.
LastIsAnnounced ==
    sup.at = "poll" /\ teardown # 0 => teardown \in Sessions /\ address[teardown] = sup.last

Followed == OneSpeaks /\ OpenedInTurn /\ LastIsAnnounced
-----------------------------------------------------------------------------
\* A step that makes no daemon speak that was quiet.
LEMMA NoneNewSpeaks ==
    ASSUME OneSpeaks, sup' = sup, session' = session, teardown' = teardown,
           \A k \in Sessions : Speaks(k)' => Speaks(k)
    PROVE  OneSpeaks'
  BY DEF OneSpeaks

LEMMA Initially == DiscoveryInit => Tied /\ Followed
  <1>. SUFFICES ASSUME DiscoveryInit PROVE Tied /\ Followed
    OBVIOUS
  <1>1. Tied
    BY BoundsAssumption DEF DiscoveryInit, Tied, SupPlaces
  <1>2. Followed
    BY DEF DiscoveryInit, Followed, OneSpeaks, OpenedInTurn, LastIsAnnounced, Speaks
  <1>. QED  BY <1>1, <1>2

\* The steps of the supervisor.
LEMMA SuperviseStep ==
    ASSUME Tied, Followed, Supervise PROVE Tied' /\ Followed'
  <1>. USE DEF Followed
  <1>1. CASE PollBrowse
    <2>1. /\ sup' \in [at : SupPlaces, read : Addrs \cup {None}, last : Addrs \cup {None}]
          /\ sup'.at \in {"poll", "quit"} /\ (sup'.at = "poll" => teardown = 0)
          /\ UNCHANGED <<ifaddr, session, teardown, daemon, address>>
          /\ sup.at = "poll"
      BY <1>1 DEF PollBrowse, Forget, At, Tied, SupPlaces, sessionVars, worldVars
    <2>2. Tied'
      BY <2>1 DEF Tied
    <2>. QED  BY <2>1, <2>2 DEF OneSpeaks, OpenedInTurn, LastIsAnnounced, Speaks
  <1>2. CASE PollAddress
    <2>0. /\ UNCHANGED <<ifaddr, session, teardown, daemon, address>>
          /\ sup.at = "poll"
      BY <1>2 DEF PollAddress, At, sessionVars, worldVars
    <2>1. /\ sup' \in [at : SupPlaces, read : Addrs \cup {None}, last : Addrs \cup {None}]
          /\ sup'.at \in {"poll", "quit", "announce"}
          /\ sup'.at \in {"poll", "announce"} => teardown = 0
          /\ UNCHANGED <<ifaddr, session, teardown, daemon, address>>
          /\ sup.at = "poll"
      <3>1. CASE ifaddr = None
        BY <1>2, <2>0, <3>1 DEF PollAddress, Forget, Tied, SupPlaces
      <3>2. CASE ifaddr # None
        BY <1>2, <2>0, <3>2 DEF PollAddress, Tied, SupPlaces
      <3>. QED  BY <3>1, <3>2
    <2>2. Tied'
      BY <2>1 DEF Tied
    <2>. QED  BY <2>1, <2>2 DEF OneSpeaks, OpenedInTurn, LastIsAnnounced, Speaks
  <1>3. CASE Quit \/ Join
    <2>1. /\ sup' \in [at : SupPlaces, read : Addrs \cup {None}, last : Addrs \cup {None}]
          /\ sup.at \in {"quit", "join"} /\ sup'.at \in {"join", "unregister"}
          /\ UNCHANGED <<ifaddr, session, teardown, daemon, address>>
      BY <1>3 DEF Quit, Join, Go, At, Tied, SupPlaces, sessionVars, worldVars
    <2>2. Tied'
      BY <2>1 DEF Tied
    <2>. QED  BY <2>1, <2>2 DEF OneSpeaks, OpenedInTurn, LastIsAnnounced, Speaks
  <1>4. CASE SayGoodbye
    <2>1. /\ sup' \in [at : SupPlaces, read : Addrs \cup {None}, last : Addrs \cup {None}]
          /\ sup.at = "unregister" /\ sup'.at = "shutdown"
          /\ UNCHANGED <<ifaddr, session, teardown, address>>
      BY <1>4 DEF SayGoodbye, Go, At, Tied, SupPlaces, worldVars
    <2>2. /\ daemon' \in [Sessions -> {"none", "up", "silent", "down"}]
          /\ \A k \in Sessions : daemon'[k] \in {"up", "silent"} => Speaks(k)
      BY <1>4 DEF SayGoodbye, Unregister, Tied, Speaks
    <2>3. Tied'
      BY <2>1, <2>2 DEF Tied
    <2>. QED  BY <2>1, <2>2, <2>3 DEF OneSpeaks, OpenedInTurn, LastIsAnnounced, Speaks
  <1>5. CASE EndSession
    <2>1. /\ sup' \in [at : SupPlaces, read : Addrs \cup {None}, last : Addrs \cup {None}]
          /\ sup.at = "shutdown" /\ sup'.at \in {"poll", "announce"}
          /\ teardown' = 0 /\ UNCHANGED <<ifaddr, session, address>>
      BY <1>5 DEF EndSession, Go, At, Tied, SupPlaces, worldVars
    <2>2. /\ daemon' \in [Sessions -> {"none", "up", "silent", "down"}]
          /\ \A k \in Sessions : daemon'[k] \in {"up", "silent"} => Speaks(k) /\ k # teardown
      BY <1>5 DEF EndSession, ShutDown, Tied, Speaks
    <2>3. Tied'
      BY <2>1, <2>2 DEF Tied
    <2>. QED  BY <2>1, <2>2, <2>3 DEF OneSpeaks, OpenedInTurn, LastIsAnnounced, Speaks
  <1>6. CASE Announce
    <2>1. /\ sup' = [sup EXCEPT !.at = "repeat"] /\ sup.at = "announce"
          /\ session' = session + 1 /\ session' \in Sessions
          /\ UNCHANGED <<ifaddr, teardown>>
      BY <1>6, BoundsAssumption DEF Announce, Go, At, Tied, worldVars, Sessions
    <2>2. /\ daemon' = [daemon EXCEPT ![session'] = "up"]
          /\ address' = [address EXCEPT ![session'] = sup.read]
      BY <1>6 DEF Announce
    <2>3. Tied'
      BY <2>1, <2>2 DEF Tied, SupPlaces, Sessions
    <2>4. \A k \in Sessions : ~Speaks(k)
      BY <2>1 DEF OneSpeaks, OpenedInTurn, Sessions
    <2>5. \A k \in Sessions : Speaks(k)' => k = session'
      BY <2>2, <2>4 DEF Speaks, Tied
    <2>6. sup'.at = "repeat" /\ address'[session'] = sup'.read
      BY <2>1, <2>2 DEF Tied
    <2>. QED  BY <2>1, <2>3, <2>5, <2>6 DEF OneSpeaks, OpenedInTurn, LastIsAnnounced
  <1>7. CASE AnnounceFails
    <2>1. /\ sup' \in [at : SupPlaces, read : Addrs \cup {None}, last : Addrs \cup {None}]
          /\ sup.at = "announce" /\ sup'.at = "poll"
          /\ UNCHANGED <<ifaddr, session, teardown, daemon, address>>
      BY <1>7 DEF AnnounceFails, Go, At, Tied, SupPlaces, sessionVars
    <2>2. Tied'
      BY <2>1 DEF Tied
    <2>. QED  BY <2>1, <2>2 DEF OneSpeaks, OpenedInTurn, LastIsAnnounced, Speaks
  <1>8. CASE Start
    <2>1. /\ sup' = [sup EXCEPT !.at = "publish"] /\ sup.at = "repeat"
          /\ UNCHANGED <<ifaddr, session, teardown, daemon, address>>
      BY <1>8 DEF Start, Go, At
    <2>2. Tied' /\ sup'.at = "publish" /\ sup'.read = sup.read
      BY <2>1 DEF Tied, SupPlaces
    <2>. QED  BY <2>1, <2>2 DEF OneSpeaks, OpenedInTurn, LastIsAnnounced, Speaks
  <1>9. CASE Publish
    <2>1. /\ sup' = [sup EXCEPT !.at = "poll", !.last = sup.read] /\ sup.at = "publish"
          /\ teardown' = session /\ UNCHANGED <<ifaddr, session, daemon, address>>
      BY <1>9 DEF Publish, At, sessionVars, worldVars
    <2>2. Tied' /\ sup'.at = "poll" /\ sup'.last = sup.read
      BY <2>1 DEF Tied, SupPlaces
    <2>3. teardown = 0 /\ session \in Sessions /\ address[session] = sup.read
      BY <2>1 DEF OpenedInTurn
    <2>. QED  BY <2>1, <2>2, <2>3 DEF OneSpeaks, OpenedInTurn, LastIsAnnounced, Speaks, Sessions
  <1>. QED  BY <1>1, <1>2, <1>3, <1>4, <1>5, <1>6, <1>7, <1>8, <1>9 DEF Supervise

\* The other threads and the world.
LEMMA OtherStep ==
    ASSUME Tied, Followed, DiscoveryNext, ~Supervise, ~Exit
    PROVE  /\ Tied' /\ Followed'
           /\ UNCHANGED <<sup, session, teardown, address>>
  <1>. SUFFICES /\ UNCHANGED <<sup, session, teardown, address>>
                /\ ifaddr' \in Addrs \cup {None}
                /\ daemon' \in [Sessions -> {"none", "up", "silent", "down"}]
                /\ \A k \in Sessions : Speaks(k)' => Speaks(k)
    BY NoneNewSpeaks DEF Tied, Followed, OpenedInTurn, LastIsAnnounced
  <1>. USE DEF supVars, sessionVars, browseVars, worldVars, Speaks
  <1>1. ASSUME NEW k \in Sessions, Repeat(k) \/ DaemonDies(k)
        PROVE  /\ UNCHANGED <<sup, session, teardown, address, ifaddr>>
               /\ daemon' \in [Sessions -> {"none", "up", "silent", "down"}]
               /\ \A j \in Sessions : Speaks(j)' => Speaks(j)
    BY <1>1 DEF Repeat, Wake, Reannounce, Says, DaemonDies, Tied
  <1>2. ASSUME NEW k \in Sessions, Begin(k) \/ Leave(k) \/ HearPeer(k)
        PROVE  UNCHANGED <<sup, session, teardown, address, ifaddr, daemon>>
    BY <1>2 DEF Begin, Leave, HearPeer, Removed, Resolved
  <1>3. CASE AddressChanges
    BY <1>3 DEF AddressChanges, Tied
  <1>4. CASE Signal
    BY <1>4 DEF Signal, Unregister, Tied
  <1>5. ASSUME NEW name \in Instances, SendTo(name)
        PROVE  UNCHANGED <<sup, session, teardown, address, ifaddr, daemon>>
    BY <1>5 DEF SendTo
  <1>. QED  BY <1>1, <1>2, <1>3, <1>4, <1>5 DEF DiscoveryNext, Tied

LEMMA ExitStep == ASSUME Tied, Exit PROVE Tied' /\ Followed'
  <1>1. /\ sup' = [at |-> "poll", read |-> None, last |-> None]
        /\ session' = 0 /\ teardown' = 0 /\ UNCHANGED ifaddr
        /\ daemon' = [k \in Sessions |-> "none"] /\ address' = [k \in Sessions |-> None]
    BY DEF Exit
  <1>2. Tied'
    BY <1>1, BoundsAssumption DEF Tied, SupPlaces
  <1>3. Followed'
    BY <1>1 DEF Followed, OneSpeaks, OpenedInTurn, LastIsAnnounced, Speaks
  <1>. QED  BY <1>2, <1>3

LEMMA Inductive ==
    ASSUME Tied, Followed, [DiscoveryNext]_discoveryVars PROVE Tied' /\ Followed'
  <1>1. CASE UNCHANGED discoveryVars
    BY <1>1 DEF discoveryVars, supVars, sessionVars, worldVars, Tied, Followed, OneSpeaks,
                OpenedInTurn, LastIsAnnounced, Speaks
  <1>2. CASE DiscoveryNext
    BY <1>2, SuperviseStep, OtherStep, ExitStep
  <1>. QED  BY <1>1, <1>2

\* What the network hears while the supervisor is at rest.
LEMMA Heard ==
    ASSUME Tied, Followed, [DiscoveryNext]_discoveryVars,
           At("poll"), sup.last # None, air' # air
    PROVE  air' \in {None, sup.last}
  <1>. USE DEF supVars, sessionVars, browseVars, worldVars
  <1>1. DiscoveryNext
    BY DEF discoveryVars
  <1>2. ~Supervise
    BY DEF Supervise, At, PollBrowse, PollAddress, Quit, Join, SayGoodbye, EndSession, Announce,
           AnnounceFails, Start, Publish
  <1>3. CASE Signal
    BY <1>3 DEF Signal, Unregister, Says
  <1>4. ASSUME NEW k \in Sessions, Repeat(k) PROVE air' \in {None, sup.last}
    <2>1. Speaks(k) /\ air' = address[k]
      BY <1>4 DEF Repeat, Wake, Reannounce, Says, Speaks
    <2>2. k = teardown /\ k # 0
      BY <2>1 DEF Followed, OneSpeaks, At, Sessions
    <2>. QED  BY <2>1, <2>2 DEF Followed, LastIsAnnounced, At
  <1>5. ASSUME NEW k \in Sessions, Begin(k) \/ Leave(k) \/ HearPeer(k) \/ DaemonDies(k)
        PROVE  UNCHANGED air
    BY <1>5 DEF Begin, Leave, HearPeer, Removed, Resolved, DaemonDies
  <1>6. AddressChanges \/ Exit => UNCHANGED air
    BY DEF AddressChanges, Exit
  <1>7. ASSUME NEW name \in Instances, SendTo(name) PROVE UNCHANGED air
    BY <1>7 DEF SendTo
  <1>. QED  BY <1>1, <1>2, <1>3, <1>4, <1>5, <1>6, <1>7 DEF DiscoveryNext

\* Whatever re-announcers of older sessions are left over, whichever daemons die and whenever
\* awdl0 changes (spawn_reannouncer, mdns_announce_supervisor): once the supervisor has followed
\* awdl0 to an address, the network hears that one or a goodbye.
THEOREM OldAddressIsSilent == DiscoverySpec => NoOldAddress
  <1>1. DiscoverySpec => [](Tied /\ Followed)
    BY Initially, Inductive, PTL DEF DiscoverySpec
  <1>2. Tied /\ Followed /\ [DiscoveryNext]_discoveryVars
        => [At("poll") /\ sup.last # None /\ air' # air => air' \in {None, sup.last}]_discoveryVars
    BY Heard
  <1>. QED  BY <1>1, <1>2, PTL DEF DiscoverySpec, NoOldAddress

-----------------------------------------------------------------------------
(* The list of nearby devices.  At most one thread browses, as all but the *)
(* last were told to stop and waited for, and only it knows devices: the   *)
(* rows are its knowledge and nobody else's.                               *)

BrowseTypes ==
    /\ browse \in [Sessions -> {"none", "start", "loop", "ended"}]
    /\ known \in [Sessions -> [Instances -> Elsewhere \cup Addrs \cup {None}]]
    /\ DOMAIN rows = Rows

Browses(k) == browse[k] \in {"start", "loop"}

\* The browse thread is the one of the session the supervisor can tear down, or
\* of the one it is about to publish.
OneBrowses ==
    \A k \in Sessions : Browses(k) => k = teardown \/ (k = session /\ sup.at = "publish")

\* A session is torn down only once its browse thread has ended.
JoinedFirst ==
    \A k \in Sessions : k = teardown /\ sup.at \in {"unregister", "shutdown"} => ~Browses(k)

\* A thread that does not browse vouches for nothing.
OnlyBrowsersKnow == \A k \in Sessions : browse[k] # "loop" => known[k] = NothingKnown

\* The rows of the list are the names known to the thread that browses.
RowsAreKnown ==
    Alive => /\ \A k \in Sessions : browse[k] = "loop" => \A n \in Instances : rows[n] = known[k][n]
             /\ (\A k \in Sessions : browse[k] # "loop") => \A n \in Instances : rows[n] = None

Vouched == BrowseTypes /\ OneBrowses /\ JoinedFirst /\ OnlyBrowsersKnow /\ RowsAreKnown

\* A step of no browse thread.
LEMMA NoBrowser ==
    ASSUME Vouched, UNCHANGED <<browse, known, rows>>, Alive' => Alive, OneBrowses', JoinedFirst'
    PROVE  Vouched'
  BY DEF Vouched, BrowseTypes, OnlyBrowsersKnow, RowsAreKnown, NothingKnown

LEMMA VouchedInit == DiscoveryInit => Vouched
  <1>. SUFFICES ASSUME DiscoveryInit PROVE Vouched
    OBVIOUS
  <1>1. BrowseTypes
    BY DEF DiscoveryInit, BrowseTypes, NothingKnown
  <1>2. \A k \in Sessions : browse[k] = "none" /\ known[k] = NothingKnown
    BY DEF DiscoveryInit
  <1>3. \A n \in Instances : rows[n] = None
    BY DEF DiscoveryInit, Rows
  <1>. QED  BY <1>1, <1>2, <1>3 DEF Vouched, OneBrowses, JoinedFirst, OnlyBrowsersKnow, RowsAreKnown, Browses

LEMMA VouchedSupervise == ASSUME Tied, Followed, Vouched, Supervise PROVE Vouched'
  <1>. USE DEF Vouched
  <1>0. sup \in [at : SupPlaces, read : Addrs \cup {None}, last : Addrs \cup {None}]
    BY DEF Tied
  <1>1. CASE PollBrowse \/ PollAddress
    <2>1. /\ UNCHANGED <<browse, known, rows, running, session, teardown>>
          /\ sup.at = "poll" /\ sup'.at \in {"poll", "quit", "announce"}
      BY <1>0, <1>1 DEF PollBrowse, PollAddress, Forget, At, sessionVars, browseVars, worldVars
    <2>2. OneBrowses' /\ JoinedFirst'
      BY <2>1 DEF OneBrowses, JoinedFirst, Browses
    <2>. QED  BY <2>1, <2>2, NoBrowser DEF Alive
  <1>2. CASE Quit \/ SayGoodbye
    <2>1. /\ UNCHANGED <<browse, known, rows, running, session, teardown>>
          /\ sup.at # "publish" /\ sup'.at # "unregister" /\ (sup'.at = "shutdown" => sup.at = "unregister")
      BY <1>0, <1>2 DEF Quit, SayGoodbye, Go, At, browseVars, worldVars
    <2>2. OneBrowses' /\ JoinedFirst'
      BY <2>1 DEF OneBrowses, JoinedFirst, Browses
    <2>. QED  BY <2>1, <2>2, NoBrowser DEF Alive
  <1>3. CASE Join
    <2>1. /\ UNCHANGED <<browse, known, rows, running, session, teardown>>
          /\ sup.at = "join" /\ Joined(teardown)
      BY <1>3 DEF Join, At, sessionVars, browseVars, worldVars
    <2>2. OneBrowses' /\ JoinedFirst'
      BY <2>1 DEF OneBrowses, JoinedFirst, Browses, Joined
    <2>. QED  BY <2>1, <2>2, NoBrowser DEF Alive
  <1>4. CASE EndSession
    <2>1. /\ UNCHANGED <<browse, known, rows, running, session>> /\ teardown' = 0
          /\ sup.at = "shutdown" /\ sup'.at \in {"poll", "announce"}
      BY <1>0, <1>4 DEF EndSession, Go, At, browseVars, worldVars
    <2>2. OneBrowses' /\ JoinedFirst'
      BY <2>1 DEF OneBrowses, JoinedFirst, Browses
    <2>. QED  BY <2>1, <2>2, NoBrowser DEF Alive
  <1>5. CASE Announce \/ AnnounceFails
    <2>1. /\ UNCHANGED <<browse, known, rows, running, teardown>>
          /\ sup.at = "announce" /\ sup'.at \in {"repeat", "poll"} /\ teardown = 0
      BY <1>0, <1>5 DEF Announce, AnnounceFails, Go, At, browseVars, worldVars, Followed, OpenedInTurn
    <2>2. OneBrowses' /\ JoinedFirst'
      BY <2>1 DEF OneBrowses, JoinedFirst, Browses, Sessions
    <2>. QED  BY <2>1, <2>2, NoBrowser DEF Alive
  <1>6. CASE Start
    <2>1. /\ UNCHANGED <<known, rows, running, session, teardown>>
          /\ sup.at = "repeat" /\ sup'.at = "publish" /\ teardown = 0 /\ session \in Sessions
          /\ browse' = [browse EXCEPT ![session] = "start"] \/ browse' = browse
      BY <1>0, <1>6 DEF Start, Go, At, Followed, OpenedInTurn
    <2>2. \A k \in Sessions : ~Browses(k)
      BY <2>1 DEF OneBrowses, Sessions
    <2>3. /\ browse' \in [Sessions -> {"none", "start", "loop", "ended"}]
          /\ \A k \in Sessions : browse'[k] # "loop" /\ (Browses(k)' => k = session)
      BY <2>1, <2>2 DEF BrowseTypes, Browses
    <2>4. BrowseTypes' /\ OneBrowses' /\ JoinedFirst'
      BY <2>1, <2>3 DEF BrowseTypes, OneBrowses, JoinedFirst
    <2>5. \A k \in Sessions : known[k] = NothingKnown
      BY <2>2 DEF OnlyBrowsersKnow, Browses
    <2>6. OnlyBrowsersKnow'
      BY <2>1, <2>5 DEF OnlyBrowsersKnow, NothingKnown
    <2>7. RowsAreKnown'
      BY <2>1, <2>2, <2>3 DEF RowsAreKnown, Browses, Alive
    <2>. QED  BY <2>4, <2>6, <2>7
  <1>7. CASE Publish
    <2>1. /\ UNCHANGED <<browse, known, rows, running, session>> /\ teardown' = session
          /\ sup.at = "publish" /\ sup'.at = "poll" /\ teardown = 0
      BY <1>0, <1>7 DEF Publish, At, sessionVars, browseVars, worldVars, Followed, OpenedInTurn
    <2>2. OneBrowses' /\ JoinedFirst'
      BY <2>1 DEF OneBrowses, JoinedFirst, Browses, Sessions
    <2>. QED  BY <2>1, <2>2, NoBrowser DEF Alive
  <1>. QED  BY <1>1, <1>2, <1>3, <1>4, <1>5, <1>6, <1>7 DEF Supervise

\* No other thread browses.
LEMMA TheBrowser ==
    ASSUME Followed, OneBrowses, NEW k \in Sessions, NEW i \in Sessions, Browses(k), Browses(i)
    PROVE  i = k
  BY DEF Followed, OpenedInTurn, OneBrowses, Sessions

LEMMA VouchedBrowse ==
    ASSUME Tied, Followed, Vouched, NEW k \in Sessions, Begin(k) \/ Leave(k) \/ HearPeer(k)
    PROVE  Vouched'
  <1>. USE DEF Vouched
  <1>1. /\ UNCHANGED <<running, sup, session, teardown>> /\ Browses(k) /\ Alive
        /\ \A i \in Sessions : i # k => browse'[i] = browse[i] /\ known'[i] = known[i]
        /\ browse'[k] = "start" => browse[k] = "start"
    BY DEF Begin, Leave, HearPeer, Removed, Resolved, Browses, supVars, sessionVars, worldVars,
           BrowseTypes
  <1>2. \A i \in Sessions : i # k => ~Browses(i) /\ browse[i] # "loop"
    BY <1>1, TheBrowser DEF Browses
  <1>3. OneBrowses' /\ JoinedFirst'
    BY <1>1, <1>2 DEF OneBrowses, JoinedFirst, Browses
  <1>4. ASSUME BrowseTypes', browse'[k] # "loop" => known'[k] = NothingKnown,
               browse'[k] = "loop" => \A n \in Instances : rows'[n] = known'[k][n],
               browse'[k] # "loop" => \A n \in Instances : rows'[n] = None
        PROVE  Vouched'
    <2>1. OnlyBrowsersKnow'
      BY <1>1, <1>2, <1>4 DEF OnlyBrowsersKnow, NothingKnown
    <2>2. RowsAreKnown'
      BY <1>1, <1>2, <1>4 DEF RowsAreKnown
    <2>. QED  BY <1>3, <1>4, <2>1, <2>2
  <1>5. CASE Begin(k)
    <2>1. /\ browse' = [browse EXCEPT ![k] = "loop"] /\ rows' = [r \in Rows |-> None]
          /\ known' = known /\ browse[k] = "start"
      BY <1>5 DEF Begin
    <2>2. known[k] = NothingKnown
      BY <2>1 DEF OnlyBrowsersKnow
    <2>3. \A n \in Instances : NothingKnown[n] = None /\ n \in Rows
      BY DEF NothingKnown, Rows
    <2>4. BrowseTypes' /\ browse'[k] = "loop"
      BY <2>1 DEF BrowseTypes
    <2>. QED  BY <1>4, <2>1, <2>2, <2>3, <2>4
  <1>6. CASE Leave(k)
    <2>1. /\ browse' = [browse EXCEPT ![k] = "ended"] /\ browse[k] = "loop"
          /\ known' = [known EXCEPT ![k] = NothingKnown]
          /\ rows' = [r \in Rows |-> IF r \in Instances /\ known[k][r] # None THEN None ELSE rows[r]]
      BY <1>6 DEF Leave
    <2>2. NothingKnown \in [Instances -> Elsewhere \cup Addrs \cup {None}]
      BY DEF NothingKnown
    <2>3. BrowseTypes' /\ browse'[k] = "ended" /\ known'[k] = NothingKnown
      BY <2>1, <2>2 DEF BrowseTypes
    <2>4. \A n \in Instances : rows[n] = known[k][n] /\ n \in Rows
      BY <1>1, <2>1 DEF RowsAreKnown, Rows
    <2>5. \A n \in Instances : rows'[n] = None
      BY <2>1, <2>4
    <2>. QED  BY <1>4, <2>3, <2>5
  <1>7. ASSUME NEW name \in Instances, NEW place \in Elsewhere \cup Addrs \cup {None},
               known' = [known EXCEPT ![k][name] = place], rows' = [rows EXCEPT ![name] = place],
               browse' = browse, browse[k] = "loop"
        PROVE  Vouched'
    <2>1. known'[k] = [known[k] EXCEPT ![name] = place]
      BY <1>7 DEF BrowseTypes
    <2>2. known[k] \in [Instances -> Elsewhere \cup Addrs \cup {None}]
      BY DEF BrowseTypes
    <2>3. BrowseTypes'
      BY <1>7 DEF BrowseTypes
    <2>4. \A n \in Instances : rows[n] = known[k][n] /\ n \in Rows
      BY <1>1, <1>7 DEF RowsAreKnown, Rows
    <2>5. \A n \in Instances : rows'[n] = known'[k][n]
      BY <1>7, <2>1, <2>2, <2>4 DEF BrowseTypes
    <2>. QED  BY <1>4, <1>7, <2>3, <2>5
  <1>8. ASSUME NEW name \in Instances, NEW place \in Elsewhere \cup Addrs, Resolved(k, name, place)
        PROVE  Vouched'
    <2>1. browse' = browse /\ browse[k] = "loop"
      BY <1>8 DEF Resolved
    <2>2. CASE UNCHANGED <<known, rows>>
      BY <1>1, <1>3, <2>1, <2>2, NoBrowser DEF Alive
    <2>3. CASE known' = [known EXCEPT ![k][name] = place] /\ rows' = [rows EXCEPT ![name] = place]
      BY <1>7, <2>1, <2>3
    <2>. QED  BY <1>8, <2>2, <2>3 DEF Resolved, Filtered
  <1>9. ASSUME NEW name \in Instances, Removed(k, name)
        PROVE  Vouched'
    <2>1. /\ known' = [known EXCEPT ![k][name] = None] /\ rows' = [rows EXCEPT ![name] = None]
          /\ browse' = browse /\ browse[k] = "loop"
      BY <1>9 DEF Removed, Filtered
    <2>. QED  BY <1>7, <2>1
  <1>. QED  BY <1>5, <1>6, <1>8, <1>9 DEF HearPeer

LEMMA VouchedStep ==
    ASSUME Tied, Followed, Vouched, [DiscoveryNext]_discoveryVars PROVE Vouched'
  <1>. USE DEF Vouched
  <1>1. ASSUME UNCHANGED <<browse, known, rows, sup, session, teardown>>, Alive' => Alive
        PROVE  Vouched'
    <2>1. OneBrowses' /\ JoinedFirst'
      BY <1>1 DEF OneBrowses, JoinedFirst, Browses
    <2>. QED  BY <1>1, <2>1, NoBrowser
  <1>2. ASSUME NEW k \in Sessions, Repeat(k) \/ DaemonDies(k) PROVE Vouched'
    <2>1. UNCHANGED <<browse, known, rows, sup, session, teardown, running>>
      BY <1>2 DEF Repeat, Wake, Reannounce, DaemonDies, supVars, browseVars, worldVars
    <2>. QED  BY <1>1, <2>1 DEF Alive
  <1>3. CASE AddressChanges \/ Signal \/ UNCHANGED discoveryVars
    <2>1. UNCHANGED <<browse, known, rows, sup, session, teardown>>
      BY <1>3 DEF AddressChanges, Signal, discoveryVars, supVars, sessionVars, browseVars
    <2>2. Alive' => Alive
      BY <1>3 DEF AddressChanges, Signal, discoveryVars, worldVars, Alive
    <2>. QED  BY <1>1, <2>1, <2>2
  <1>4. CASE Exit
    <2>1. /\ browse' = [k \in Sessions |-> "none"] /\ known' = [k \in Sessions |-> NothingKnown]
          /\ rows' = rows /\ ~Alive'
      BY <1>4 DEF Exit, Alive
    <2>2. BrowseTypes'
      BY <2>1 DEF BrowseTypes, NothingKnown
    <2>3. \A k \in Sessions : browse'[k] = "none" /\ known'[k] = NothingKnown
      BY <2>1
    <2>4. OneBrowses' /\ JoinedFirst' /\ OnlyBrowsersKnow'
      BY <2>3 DEF OneBrowses, JoinedFirst, OnlyBrowsersKnow, Browses, NothingKnown
    <2>. QED  BY <2>1, <2>2, <2>4 DEF RowsAreKnown
  <1>5. ASSUME NEW name \in Instances, SendTo(name) PROVE Vouched'
    <2>1. /\ rows' = [rows EXCEPT ![Label] = Label]
          /\ UNCHANGED <<browse, known, sup, session, teardown, running>>
      BY <1>5 DEF SendTo, supVars, sessionVars, worldVars
    <2>2. \A n \in Instances : rows'[n] = rows[n]
      BY <2>1, NamesAssumption DEF BrowseTypes, Rows
    <2>3. BrowseTypes'
      BY <2>1 DEF BrowseTypes
    <2>4. OneBrowses' /\ JoinedFirst' /\ OnlyBrowsersKnow'
      BY <2>1 DEF OneBrowses, JoinedFirst, OnlyBrowsersKnow, Browses, NothingKnown
    <2>5. RowsAreKnown'
      BY <2>1, <2>2 DEF RowsAreKnown, Alive
    <2>. QED  BY <2>3, <2>4, <2>5
  <1>6. ASSUME NEW k \in Sessions, Begin(k) \/ Leave(k) \/ HearPeer(k) PROVE Vouched'
    BY <1>6, VouchedBrowse
  <1>7. CASE Supervise
    BY <1>7, VouchedSupervise
  <1>. QED  BY <1>2, <1>3, <1>4, <1>5, <1>6, <1>7 DEF DiscoveryNext

LEMMA VouchedRows == Followed /\ Vouched => RowsAreVouchedFor
  <1>. SUFFICES ASSUME Followed, Vouched, Alive
                PROVE  /\ Cardinality({k \in Sessions : browse[k] = "loop"}) <= 1
                       /\ \A name \in Instances : rows[name] = Reported(name)
    BY DEF RowsAreVouchedFor
  <1>. USE DEF Vouched
  <1>1. CASE \A k \in Sessions : browse[k] # "loop"
    <2>1. {k \in Sessions : browse[k] = "loop"} = {}
      BY <1>1
    <2>2. Cardinality({}) = 0
      BY FS_EmptySet
    <2>3. \A name \in Instances : rows[name] = Reported(name)
      BY <1>1 DEF RowsAreKnown, Reported
    <2>. QED  BY <2>1, <2>2, <2>3
  <1>2. ASSUME NEW k \in Sessions, browse[k] = "loop"
        PROVE  /\ Cardinality({i \in Sessions : browse[i] = "loop"}) <= 1
               /\ \A name \in Instances : rows[name] = Reported(name)
    <2>1. \A i \in Sessions : browse[i] = "loop" => i = k
      BY <1>2, TheBrowser DEF Browses
    <2>2. {i \in Sessions : browse[i] = "loop"} = {k}
      BY <1>2, <2>1
    <2>3. Cardinality({k}) = 1
      BY FS_Singleton
    <2>4. k = CHOOSE i \in Sessions : browse[i] = "loop"
      BY <1>2, <2>1
    <2>5. \A name \in Instances : Reported(name) = known[k][name]
      BY <1>2, <2>4 DEF Reported
    <2>6. \A name \in Instances : rows[name] = known[k][name]
      BY <1>2 DEF RowsAreKnown
    <2>. QED  BY <2>2, <2>3, <2>5, <2>6
  <1>. QED  BY <1>1, <1>2

\* The app lists a device exactly while the one browse thread vouches for it
\* (mdns.rs, run_browse and the supervisor's teardown; AirDropState, the rows).
THEOREM RowsAreKept == DiscoverySpec => []RowsAreVouchedFor
  <1>1. DiscoverySpec => [](Tied /\ Followed /\ Vouched)
    BY Initially, Inductive, VouchedInit, VouchedStep, PTL DEF DiscoverySpec
  <1>2. Tied /\ Followed /\ Vouched => RowsAreVouchedFor
    BY VouchedRows
  <1>. QED  BY <1>1, <1>2, PTL

-----------------------------------------------------------------------------
(* Daemon. *)

\* Without awdl0 the kernel knows no neighbours of it; while the daemon runs
\* its table and its peers agree.  callFaults only grows, so a step that ends
\* without failures began without.
Agree == callFaults = 0 => kernel = peers /\ table = peers
NeighborsInv ==
    /\ callFaults \in Nat
    /\ ~Running => kernel = {}
    /\ Running => Agree

-----------------------------------------------------------------------------
\* Before the daemon runs nothing touches its mapping.
LEMMA OpenStep ==
    ASSUME NeighborsInv, OpenLinks
    PROVE  NeighborsInv'
<1>. DEFINE Waiting == pc' # "running" /\ kernel' = {} /\ callFaults' \in Nat
<1>1. Waiting => NeighborsInv'
  BY DEF NeighborsInv, Running
<1>2. ~Running => kernel = {} /\ callFaults \in Nat
  BY DEF NeighborsInv
<1>3. CASE OpenTap
  BY <1>1, <1>2, <1>3 DEF OpenTap, Call, CloseLinks, Fault, mapping, bounds, Running, NeighborsInv
<1>4. CASE ReadAddress
  BY <1>1, <1>2, <1>4 DEF ReadAddress, Call, CloseLinks, Fault, mapping, bounds, Running, NeighborsInv
<1>5. CASE ConfigureHost
  BY <1>1, <1>2, <1>5 DEF ConfigureHost, Call, CloseLinks, Fault, mapping, bounds, Running, NeighborsInv
<1>6. CASE Release
  BY <1>1, <1>2, <1>6 DEF Release, Fault, mapping, Running, NeighborsInv
<1>7. CASE TakeDown
  BY <1>1, <1>2, <1>7 DEF TakeDown, mapping, bounds, Running, NeighborsInv
<1>8. CASE SetMonitor
  BY <1>1, <1>2, <1>8 DEF SetMonitor, Call, CloseLinks, Fault, mapping, bounds, Running, NeighborsInv
<1>9. CASE BringUp
  BY <1>1, <1>2, <1>9 DEF BringUp, Call, CloseLinks, Fault, mapping, bounds, Running, NeighborsInv
<1>10. CASE Tune
  BY <1>1, <1>2, <1>10 DEF Tune, Call, CloseLinks, Fault, mapping, bounds, Running, NeighborsInv
<1>11. CASE Bind
  BY <1>1, <1>2, <1>11 DEF Bind, Call, CloseLinks, Fault, mapping, bounds, Running, NeighborsInv
<1>12. CASE OpenTx
  BY <1>1, <1>2, <1>12 DEF OpenTx, Call, CloseLinks, Fault, mapping, bounds, Running, NeighborsInv
<1>13. CASE Launch
  BY <1>2, <1>13 DEF Launch, Fault, Running, NeighborsInv, Agree
<1>. QED
  BY <1>3, <1>4, <1>5, <1>6, <1>7, <1>8, <1>9, <1>10, <1>11, <1>12, <1>13 DEF OpenLinks

\* A peer that is heard, or dropped, is a neighbour, or none, at the same step.
LEMMA RunStep ==
    ASSUME NeighborsInv, Run
    PROVE  NeighborsInv'
<1>. USE DEF NeighborsInv, Running, Agree
<1>1. CASE CheckInterface
  BY <1>1 DEF CheckInterface, CloseLinks, bounds
<1>2. CASE PollError
  BY <1>2 DEF PollError, CloseLinks, Fault, mapping
<1>3. CASE TapError
  BY <1>3 DEF TapError, CloseLinks, Fault
<1>4. ASSUME NEW c \in Channels, Hop(c) PROVE NeighborsInv'
  BY <1>4 DEF Hop, mapping, bounds
<1>5. ASSUME NEW p \in Neighbors, Receive(p) PROVE NeighborsInv'
  BY <1>5 DEF Receive, Noted, SetNeighbors, Fault
<1>6. ASSUME NEW gone \in SUBSET peers, Clean(gone) PROVE NeighborsInv'
  BY <1>6 DEF Clean, Evicted, SetNeighbors, Fault
<1>. QED  BY <1>1, <1>2, <1>3, <1>4, <1>5, <1>6 DEF Run

LEMMA NeighborsStep == NeighborsInv /\ [DaemonNext]_daemonVars => NeighborsInv'
<1>. SUFFICES ASSUME NeighborsInv, [DaemonNext]_daemonVars PROVE NeighborsInv'
  OBVIOUS
<1>1. CASE WakeUp
  BY <1>1 DEF WakeUp, NeighborsInv, Running, mapping, bounds
<1>2. CASE Unplug
  BY <1>2 DEF Unplug, NeighborsInv, Running, Agree, mapping, bounds
<1>3. CASE Plug \/ Manage
  BY <1>3 DEF Plug, Manage, NeighborsInv, Running, Agree, mapping, bounds, links
<1>4. CASE TakenDown
  BY <1>4 DEF TakenDown, Fault, NeighborsInv, Running, Agree, mapping
<1>5. CASE UNCHANGED daemonVars
  BY <1>5 DEF daemonVars, NeighborsInv, Running, Agree, mapping, bounds
<1>. QED  BY <1>1, <1>2, <1>3, <1>4, <1>5, OpenStep, RunStep DEF DaemonNext

-----------------------------------------------------------------------------
\* The kernel's neighbours of awdl0 are the daemon's peers while no call
\* failed (lib.rs, NeighborTable; main.rs, the loop around run).
THEOREM NeighborsAreKept == DaemonSpec => []NeighborsArePeers
<1>1. DaemonInit => NeighborsInv
  BY DEF DaemonInit, NeighborsInv, Running
<1>2. NeighborsInv => NeighborsArePeers
  BY DEF NeighborsInv, NeighborsArePeers, Agree
<1>. QED  BY <1>1, <1>2, NeighborsStep, PTL DEF DaemonSpec
=============================================================================
