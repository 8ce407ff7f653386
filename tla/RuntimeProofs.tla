---------------------------- MODULE RuntimeProofs ----------------------------
(***************************************************************************)
(* For any number of servers, services, attempts, disturbances, devices    *)
(* and restarts: only a complete database is advertised, by one            *)
(* advertisement, no server stays open that nobody holds or has lost, and  *)
(* the advertised state number falls behind in the two known ways only.    *)
(***************************************************************************)
EXTENDS Runtime, TLAPS

\* The attempt that is current: its opener, the result that it has posted, and
\* the service that the stack adds.
Opening == {o \in openers : o.current}
Results == {p \in posts : p.current /\ p.kind \in {"opened", "serviceAdded"}}
Underway == Opening # {} \/ Results # {} \/ adding # {}

\* What the stack does for advertiseCallback, or has to say about it.
Reports == {p \in posts : p.current /\ p.kind \in AdvertPosts}
OnAir == advert # "none" \/ Reports # {}

\* There is one attempt, and it is at one place.
OneAttempt ==
    /\ \A o1, o2 \in Opening : o1 = o2
    /\ \A p, q \in Results : p = q
    /\ \A a, b \in adding : a = b
    /\ Opening # {} => Results = {} /\ adding = {}
    /\ Results # {} => adding = {}

\* What the two flags say of it.
Flags ==
    /\ Underway => starting /\ ~advertising /\ ~OnAir
    /\ OnAir => (starting \/ advertising) /\ pendingService = 0
    /\ pendingService # 0 => starting

\* How far the publication is.
Publication ==
    /\ pendingService # 0 => server # NoServer /\ pendingServices = Services - pendingService
    /\ pendingService = 0 => server = NoServer \/ published[server] = Services
    /\ \A a \in adding :
          /\ a.current /\ a.server = server
          /\ a.service = pendingService /\ published[server] + 1 = pendingService
    /\ \A p \in Results : p.kind = "serviceAdded" =>
          /\ p.server = server /\ pendingService # 0
          /\ p.service = pendingService /\ published[server] = pendingService
    /\ advert # "none" => server # NoServer

\* A server that an opener has posted is new, and in nobody else's hands.
Late ==
    /\ \A p \in posts : p.kind = "opened" =>
          p.server \in Servers /\ p.server # server /\ published[p.server] = 0
    /\ \A p, q \in posts : p.kind = "opened" /\ q.kind = "opened" /\ p.server = q.server => p = q

\* The server dies with Bluetooth only.
Alive == server # NoServer => server \in registered \/ OffIsNews

\* While the service is destroyed nothing begins.
Down == ~up =>
    /\ server = NoServer /\ Opening = {} /\ link = "none" /\ handshake = "none"
    /\ ~recoveryPending /\ ~startupTimeout /\ ~connected /\ broadcasts = << >>
    /\ \A p \in posts : ~p.current /\ p.kind \in GenerationPosts
    /\ binder \notin {"connect", "disconnect"}

\* The refresh of a number that has moved is still to come, or the connection's
\* end will bring it.
Due ==
    radio \in {"starting", "advertising"} /\ payload # gsn =>
        \/ missed \/ refreshes \/ numberConnected # {}
        \/ poller.at \in {"mark", "refresh"} \/ numberBinder.at = "endThenRefresh"

\* A connection callback runs for a device.
Attended == numberBinder.at # "idle" => numberBinder.dev \in Devices

Posts == [kind : Kinds, current : BOOLEAN, server : Servers \cup {NoServer}, service : 0..Services]
Openers == [current : BOOLEAN, at : {"check", "open"}, attempt : 1..MaxAttempts]
Additions == [current : BOOLEAN, server : Servers, service : 1..Services]

Typed ==
    /\ registered \subseteq Servers
    /\ published \in [Servers -> Nat]
    /\ server \in Servers \cup {NoServer}
    /\ pendingServices \in 0..Services
    /\ pendingService \in 0..Services
    /\ adding \subseteq Additions
    /\ openers \subseteq Openers
    /\ posts \subseteq Posts
    /\ broadcasts \in Seq({"off", "on"})

Core == OneAttempt /\ Flags /\ Publication /\ Late
Sound == Typed /\ Core /\ Alive /\ OneAdvertisement /\ LateServersAreClosed

-----------------------------------------------------------------------------
(* What a generation that has passed leaves. *)

LEMMA OutdatedPosts ==
    ASSUME NEW kinds, NEW S, S \subseteq Posts
    PROVE  /\ OutdatedOf(kinds, S) \subseteq Posts
           /\ \A q \in OutdatedOf(kinds, S) : q.kind \notin kinds => q \in S
           /\ \A q \in OutdatedOf(kinds, S) : q.kind \in kinds =>
                 /\ ~q.current
                 /\ \E p \in S : /\ p.kind = q.kind /\ p.server = q.server
                                 /\ q = [p EXCEPT !.current = FALSE]
           /\ \A p \in S : \E q \in OutdatedOf(kinds, S) : q.kind = p.kind /\ q.server = p.server
           /\ \A p \in S : p.kind \notin kinds => p \in OutdatedOf(kinds, S)
<1>1. ASSUME NEW p \in S
      PROVE  /\ [p EXCEPT !.current = FALSE] \in Posts
             /\ [p EXCEPT !.current = FALSE].kind = p.kind
             /\ [p EXCEPT !.current = FALSE].server = p.server
             /\ ~[p EXCEPT !.current = FALSE].current
  BY <1>1 DEF Posts
<1>2. OutdatedOf(kinds, S) = {p \in S : p.kind \notin kinds}
                               \cup {[p EXCEPT !.current = FALSE] : p \in {x \in S : x.kind \in kinds}}
  BY DEF OutdatedOf, Outdated
<1>3. ASSUME NEW q \in OutdatedOf(kinds, S)
      PROVE  \/ q \in S /\ q.kind \notin kinds
             \/ \E p \in S : p.kind \in kinds /\ q = [p EXCEPT !.current = FALSE]
  BY <1>2
<1>4. ASSUME NEW q \in OutdatedOf(kinds, S)
      PROVE  /\ q \in Posts
             /\ q.kind \notin kinds => q \in S
             /\ q.kind \in kinds =>
                 /\ ~q.current
                 /\ \E p \in S : /\ p.kind = q.kind /\ p.server = q.server
                                 /\ q = [p EXCEPT !.current = FALSE]
  BY <1>1, <1>3
<1>5. ASSUME NEW p \in S
      PROVE  /\ \E q \in OutdatedOf(kinds, S) : q.kind = p.kind /\ q.server = p.server
             /\ p.kind \notin kinds => p \in OutdatedOf(kinds, S)
  <2>1. CASE p.kind \notin kinds
    BY <1>2, <2>1
  <2>2. CASE p.kind \in kinds
    <3>1. [p EXCEPT !.current = FALSE] \in OutdatedOf(kinds, S)
      BY <1>2, <2>2
    <3>. QED  BY <1>1, <2>2, <3>1
  <2>. QED  BY <2>1, <2>2
<1>. QED  BY <1>4, <1>5

LEMMA OutdatedOpeners ==
    ASSUME openers \subseteq Openers
    PROVE  Outdated(openers) \subseteq Openers /\ \A o \in Outdated(openers) : ~o.current
  BY DEF Outdated, Openers

\* No opener is current, or a new one is.
LEMMA Launched ==
    ASSUME Typed, Launch
    PROVE  /\ openers' \subseteq Openers
           /\ \A o1, o2 \in Opening' : o1 = o2
           /\ starting' /\ startupTimeout'
<1>. DEFINE new == [current |-> TRUE, at |-> "check", attempt |-> 1]
<1>1. openers' = Outdated(openers) \cup {new} /\ starting' /\ startupTimeout'
  BY DEF Launch
<1>2. new \in Openers
  BY LimitsAssumption DEF Openers
<1>3. Outdated(openers) \subseteq Openers /\ \A o \in Outdated(openers) : ~o.current
  BY OutdatedOpeners DEF Typed
<1>. HIDE DEF new
<1>. QED  BY <1>1, <1>2, <1>3 DEF Opening

LEMMA Stopped ==
    ASSUME Typed, NEW recover, StoppedStarting(recover)
    PROVE  openers' \subseteq Openers /\ Opening' = {}
<1>1. openers' = Outdated(openers)
  BY DEF StoppedStarting
<1>. QED  BY <1>1, OutdatedOpeners DEF Typed, Opening

\* What Reset leaves of an attempt.
LEMMA ResetStep ==
    ASSUME Typed, Core, NEW rest, rest \subseteq posts, NEW s, Reset(rest, s),
           s = server \/ adding = {},
           openers' \subseteq Openers, \A o1, o2 \in Opening' : o1 = o2, Opening' # {} => starting',
           broadcasts' \in Seq({"off", "on"})
    PROVE  Typed' /\ Core' /\ Alive'
<1>1. /\ posts' = OutdatedOf(GenerationPosts, rest)
      /\ adding' = Outdated({a \in adding : a.server # s})
      /\ advert' = "none" /\ registered' = registered \ {s} /\ server' = NoServer
      /\ pendingServices' = 0 /\ pendingService' = 0 /\ advertising' = FALSE
      /\ published' = published
  BY DEF Reset
<1>2. adding' = {}
  BY <1>1 DEF Core, Publication, Outdated
<1>3. rest \subseteq Posts
  BY DEF Typed
<1>4. /\ posts' \subseteq Posts
      /\ \A q \in posts' : q.kind \in GenerationPosts => ~q.current
      /\ \A q \in posts' : q.kind = "opened" =>
            \E p \in posts : p.kind = "opened" /\ p.server = q.server /\ q = [p EXCEPT !.current = FALSE]
  BY <1>1, <1>3, OutdatedPosts DEF GenerationPosts
<1>5. Results' = {} /\ Reports' = {}
  BY <1>4 DEF Results, Reports, GenerationPosts
<1>6. Typed'
  BY <1>1, <1>2, <1>4, LimitsAssumption DEF Typed
<1>7. OneAttempt'
  BY <1>2, <1>5 DEF OneAttempt
<1>8. Flags'
  BY <1>1, <1>2, <1>5 DEF Flags, Underway, OnAir
<1>9. Publication'
  BY <1>1, <1>2, <1>5 DEF Publication
<1>10. Late'
  <2>1. ASSUME NEW q \in posts', q.kind = "opened"
        PROVE  q.server \in Servers /\ q.server # server' /\ published'[q.server] = 0
    BY <1>1, <1>4, <2>1, ServersAssumption DEF Core, Late
  <2>2. ASSUME NEW q1 \in posts', NEW q2 \in posts', q1.kind = "opened", q2.kind = "opened",
               q1.server = q2.server
        PROVE  q1 = q2
    <3>1. PICK p1 \in posts : /\ p1.kind = "opened" /\ p1.server = q1.server
                              /\ q1 = [p1 EXCEPT !.current = FALSE]
      BY <1>4, <2>2
    <3>2. PICK p2 \in posts : /\ p2.kind = "opened" /\ p2.server = q2.server
                              /\ q2 = [p2 EXCEPT !.current = FALSE]
      BY <1>4, <2>2
    <3>3. p1 = p2
      BY <2>2, <3>1, <3>2 DEF Core, Late
    <3>. QED  BY <3>1, <3>2, <3>3
  <2>. QED  BY <2>1, <2>2 DEF Late
<1>. QED  BY <1>1, <1>6, <1>7, <1>8, <1>9, <1>10 DEF Core, Alive

\* The servers of the results that come too late are still to be closed.
LEMMA ResetCloses ==
    ASSUME Typed, LateServersAreClosed, NEW rest, rest \subseteq posts, NEW s, Reset(rest, s),
           \A p \in posts : p.kind = "opened" => p \in rest \/ p.server = s,
           overwritten \subseteq overwritten', server \in registered => server = s \/ server \in overwritten'
    PROVE  LateServersAreClosed'
<1>1. posts' = OutdatedOf(GenerationPosts, rest) /\ registered' = registered \ {s}
  BY DEF Reset
<1>2. rest \subseteq Posts
  BY DEF Typed
<1>3. \A p \in rest : \E q \in posts' : q.kind = p.kind /\ q.server = p.server
  BY <1>1, <1>2, OutdatedPosts
<1>4. ASSUME NEW r \in registered'
      PROVE  r \in {server'} \cup overwritten' \cup {p.server : p \in {q \in posts' : q.kind = "opened"}}
  <2>1. r \in registered /\ r # s
    BY <1>1, <1>4
  <2>2. CASE r \in overwritten \/ r = server
    BY <2>1, <2>2
  <2>3. CASE \E p \in posts : p.kind = "opened" /\ p.server = r
    BY <1>3, <2>1, <2>3
  <2>. QED  BY <2>1, <2>2, <2>3 DEF LateServersAreClosed
<1>. QED  BY <1>4 DEF LateServersAreClosed

-----------------------------------------------------------------------------
(* The handlers' parts. *)

\* What a handler goes on with, once it has taken its own post.
Remains(rest) == rest \subseteq posts /\ \A p \in posts : p.kind = "opened" => p \in rest

LEMMA StopSound ==
    ASSUME Sound, NEW rest, Remains(rest), NEW recover, StopProbe(rest, recover),
           broadcasts' \in Seq({"off", "on"})
    PROVE  Sound'
<1>1. /\ Reset(rest, server) /\ StoppedStarting(recover) /\ UNCHANGED overwritten
      /\ rest \subseteq posts
  BY DEF StopProbe, Remains
<1>2. openers' \subseteq Openers /\ Opening' = {}
  BY <1>1, Stopped DEF Sound
<1>3. Typed' /\ Core' /\ Alive'
  BY <1>1, <1>2, ResetStep DEF Sound
<1>4. LateServersAreClosed'
  BY <1>1, ResetCloses DEF Sound, Remains
<1>5. OneAdvertisement'
  BY <1>1 DEF Reset, Sound, OneAdvertisement
<1>. QED  BY <1>3, <1>4, <1>5 DEF Sound

LEMMA RestartSound ==
    ASSUME Sound, NEW rest, Remains(rest), Restart(rest), UNCHANGED broadcasts
    PROVE  Sound'
<1>0. broadcasts' \in Seq({"off", "on"})
  BY DEF Sound, Typed
<1>1. CASE \E recover : StopProbe(rest, recover)
  BY <1>0, <1>1, StopSound
<1>2. CASE Reset(rest, server) /\ Launch /\ UNCHANGED overwritten
  <2>1. openers' \subseteq Openers /\ (\A o1, o2 \in Opening' : o1 = o2) /\ starting'
    BY <1>2, Launched DEF Sound
  <2>2. Typed' /\ Core' /\ Alive'
    BY <1>0, <1>2, <2>1, ResetStep DEF Sound, Remains
  <2>3. LateServersAreClosed'
    BY <1>2, ResetCloses DEF Sound, Remains
  <2>4. OneAdvertisement'
    BY <1>2 DEF Reset, Sound, OneAdvertisement
  <2>. QED  BY <2>2, <2>3, <2>4 DEF Sound
<1>. QED  BY <1>1, <1>2 DEF Restart, FailProbe

\* A step that moves no attempt on.
LEMMA QuietStep ==
    ASSUME Core,
           UNCHANGED <<server, published, pendingServices, pendingService, starting>>,
           adding' \subseteq adding, Results' \subseteq Results,
           \A o1, o2 \in Opening' : o1 = o2, Opening' # {} => Opening # {},
           OnAir' => OnAir /\ advertising' = advertising,
           advertising' => advertising, advert' # "none" => advert # "none",
           \A p \in posts' : p.kind = "opened" => p \in posts
    PROVE  Core'
<1>1. OneAttempt'
  BY DEF Core, OneAttempt
<1>2. Underway' => Underway
  BY DEF Underway
<1>3. Flags'
  <2>1. Underway' => starting' /\ ~advertising' /\ ~OnAir'
    BY <1>2 DEF Core, Flags
  <2>2. OnAir' => (starting' \/ advertising') /\ pendingService' = 0
    BY DEF Core, Flags
  <2>3. pendingService' # 0 => starting'
    BY DEF Core, Flags
  <2>. QED  BY <2>1, <2>2, <2>3 DEF Flags
<1>4. Publication'
  BY DEF Core, Publication
<1>5. Late'
  BY DEF Core, Late
<1>. QED  BY <1>1, <1>3, <1>4, <1>5 DEF Core

\* The posts of the advertisement are outdated.
LEMMA OutdatedAdvert ==
    ASSUME Typed, NEW rest, rest \subseteq posts, posts' = OutdatedOf(AdvertPosts, rest)
    PROVE  /\ posts' \subseteq Posts /\ Reports' = {} /\ Results' \subseteq {p \in rest : p \in Results}
           /\ \A p \in posts' : p.kind = "opened" => p \in rest
           /\ \A p \in rest : p.kind = "opened" => p \in posts'
<1>1. /\ posts' \subseteq Posts
      /\ \A q \in posts' : q.kind \notin AdvertPosts => q \in rest
      /\ \A q \in posts' : q.kind \in AdvertPosts => ~q.current
      /\ \A p \in rest : p.kind \notin AdvertPosts => p \in posts'
  BY OutdatedPosts DEF Typed
<1>. QED  BY <1>1 DEF Reports, Results, AdvertPosts

\* startProbe outdates everything, but closes nothing.
LEMMA StartSound ==
    ASSUME Sound, NEW rest, Remains(rest), StartProbe(rest), UNCHANGED broadcasts
    PROVE  Sound'
<1>0. broadcasts' \in Seq({"off", "on"}) /\ rest \subseteq posts
  BY DEF Sound, Typed, Remains
<1>1. CASE \E recover : StopProbe(rest, recover)
  BY <1>0, <1>1, StopSound
<1>2. CASE /\ posts' = rest
           /\ UNCHANGED <<stackVars, publishVars, startVars, advertVars, peerVars,
                          openers, binder, overwritten>>
  <2>1. /\ UNCHANGED <<registered, published, adding, advert, orphan, server, pendingServices,
                       pendingService, starting, advertising, openers, overwritten, broadcasts>>
        /\ posts' \subseteq posts /\ \A p \in posts : p.kind = "opened" => p \in posts'
    BY <1>2 DEF stackVars, publishVars, startVars, advertVars, Remains
  <2>2. /\ Results' \subseteq Results /\ Reports' \subseteq Reports /\ Opening' = Opening
    BY <2>1 DEF Results, Reports, Opening
  <2>3. Core'
    BY <2>1, <2>2, QuietStep DEF Sound, OnAir, Core, OneAttempt
  <2>4. Typed' /\ Alive'
    BY <2>1 DEF Sound, Typed, Alive, OffIsNews
  <2>5. OneAdvertisement' /\ LateServersAreClosed'
    BY <2>1 DEF Sound, OneAdvertisement, LateServersAreClosed
  <2>. QED  BY <2>3, <2>4, <2>5 DEF Sound
<1>3. CASE /\ ~advertising /\ ~starting
           /\ posts' = OutdatedOf(GenerationPosts, rest)
           /\ adding' = Outdated(adding)
           /\ Launch
           /\ UNCHANGED <<registered, published, advert, orphan, link, publishVars,
                          advertVars, peerVars, overwritten>>
  <2>1. ~Underway /\ ~OnAir /\ pendingService = 0
    BY <1>3 DEF Sound, Core, Flags
  <2>2. adding' = {} /\ advert' = "none" /\ UNCHANGED <<server, pendingServices, pendingService, advertising>>
    BY <1>3, <2>1 DEF Underway, OnAir, Outdated, publishVars, advertVars
  <2>3. openers' \subseteq Openers /\ (\A o1, o2 \in Opening' : o1 = o2) /\ starting'
    BY <1>3, Launched DEF Sound
  <2>4. rest \subseteq Posts
    BY <1>0 DEF Sound, Typed
  <2>5. /\ posts' \subseteq Posts
        /\ \A q \in posts' : q.kind \in GenerationPosts => ~q.current
        /\ \A q \in posts' : q.kind = "opened" =>
              \E p \in posts : p.kind = "opened" /\ p.server = q.server /\ q = [p EXCEPT !.current = FALSE]
        /\ \A p \in rest : \E q \in posts' : q.kind = p.kind /\ q.server = p.server
    BY <1>0, <1>3, <2>4, OutdatedPosts DEF GenerationPosts
  <2>6. Results' = {} /\ Reports' = {}
    BY <2>5 DEF Results, Reports, GenerationPosts
  <2>7. Typed' /\ Alive'
    BY <1>0, <1>3, <2>2, <2>3, <2>5 DEF Sound, Typed, Alive, OffIsNews
  <2>8. OneAttempt' /\ Flags' /\ Publication'
    <3>1. OneAttempt'
      BY <2>2, <2>3, <2>6 DEF OneAttempt
    <3>2. Flags'
      BY <1>3, <2>1, <2>2, <2>3, <2>6 DEF Flags, OnAir
    <3>3. Publication'
      BY <1>3, <2>1, <2>2, <2>6 DEF Sound, Core, Publication
    <3>. QED  BY <3>1, <3>2, <3>3
  <2>9. Late'
    <3>1. ASSUME NEW q \in posts', q.kind = "opened"
          PROVE  q.server \in Servers /\ q.server # server' /\ published'[q.server] = 0
      BY <1>3, <2>2, <2>5, <3>1 DEF Sound, Core, Late
    <3>2. ASSUME NEW q1 \in posts', NEW q2 \in posts', q1.kind = "opened", q2.kind = "opened",
                 q1.server = q2.server
          PROVE  q1 = q2
      <4>1. PICK p1 \in posts : /\ p1.kind = "opened" /\ p1.server = q1.server
                                /\ q1 = [p1 EXCEPT !.current = FALSE]
        BY <2>5, <3>2
      <4>2. PICK p2 \in posts : /\ p2.kind = "opened" /\ p2.server = q2.server
                                /\ q2 = [p2 EXCEPT !.current = FALSE]
        BY <2>5, <3>2
      <4>3. p1 = p2
        BY <3>2, <4>1, <4>2 DEF Sound, Core, Late
      <4>. QED  BY <4>1, <4>2, <4>3
    <3>. QED  BY <3>1, <3>2 DEF Late
  <2>10. LateServersAreClosed'
    <3>1. ASSUME NEW r \in registered'
          PROVE  r \in {server'} \cup overwritten' \cup {p.server : p \in {q \in posts' : q.kind = "opened"}}
      <4>1. CASE \E p \in posts : p.kind = "opened" /\ p.server = r
        BY <2>5, <4>1 DEF Remains
      <4>2. CASE r \in overwritten \/ r = server
        BY <1>3, <2>2, <4>2
      <4>. QED  BY <1>3, <3>1, <4>1, <4>2 DEF Sound, LateServersAreClosed
    <3>. QED  BY <3>1 DEF LateServersAreClosed
  <2>11. OneAdvertisement'
    BY <1>3 DEF Sound, OneAdvertisement
  <2>. QED  BY <2>7, <2>8, <2>9, <2>10, <2>11 DEF Sound, Core
<1>. QED  BY <1>1, <1>2, <1>3 DEF StartProbe, FailProbe

\* The database is complete: the accessory is advertised.
LEMMA AdvertiseSound ==
    ASSUME Sound, NEW rest, Remains(rest), NEW n, n = 0, StartAdvertising(rest, n),
           UNCHANGED <<broadcasts, overwritten>>,
           server # NoServer, published[server] = Services,
           ~OnAir, Opening = {}, adding = {}, \A p \in rest : p \notin Results
    PROVE  Sound'
<1>0. broadcasts' \in Seq({"off", "on"}) /\ rest \subseteq posts
  BY DEF Sound, Typed, Remains
<1>1. CASE \E recover : StopProbe(rest, recover)
  BY <1>0, <1>1, StopSound
<1>2. CASE /\ starting' = TRUE /\ advert' = "asked" /\ orphan' = (orphan \/ advert # "none")
           /\ posts' = OutdatedOf(AdvertPosts, rest) /\ pendingService' = n
           /\ UNCHANGED <<registered, published, adding, server, pendingServices, advertising, openers>>
  <2>1. /\ posts' \subseteq Posts /\ Reports' = {} /\ Results' = {}
        /\ \A p \in posts' : p.kind = "opened" => p \in posts
        /\ \A p \in posts : p.kind = "opened" => p \in posts'
    BY <1>0, <1>2, OutdatedAdvert DEF Sound, Remains
  <2>2. Opening' = {} /\ adding' = {}
    BY <1>2 DEF Opening
  <2>3. Typed' /\ Alive'
    BY <1>2, <2>1, LimitsAssumption DEF Sound, Typed, Alive, OffIsNews
  <2>4. OneAttempt' /\ Flags' /\ Publication'
    BY <1>2, <2>1, <2>2 DEF OneAttempt, Flags, Underway, OnAir, Publication
  <2>5. Late'
    BY <1>2, <2>1 DEF Sound, Core, Late
  <2>6. OneAdvertisement'
    BY <1>2 DEF Sound, OneAdvertisement, OnAir
  <2>7. LateServersAreClosed'
    BY <1>2, <2>1 DEF Sound, LateServersAreClosed
  <2>. QED  BY <2>3, <2>4, <2>5, <2>6, <2>7 DEF Sound, Core
<1>. QED  BY <1>1, <1>2 DEF StartAdvertising, FailProbe

\* The next service goes to the server, or the first one to a new server.
LEMMA AddSound ==
    ASSUME Sound, NEW rest, rest \subseteq posts, NEW s \in Servers, NEW n \in 1..Services,
           AddService(rest, s, n), UNCHANGED broadcasts,
           starting, ~advertising, ~OnAir, Opening = {}, adding = {}, published[s] + 1 = n,
           \A p \in rest : p \notin Results,
           \A p \in posts : p.kind = "opened" => (p \in rest <=> p.server # s)
    PROVE  Sound'
<1>0. broadcasts' \in Seq({"off", "on"}) /\ s # NoServer /\ server \in Servers \cup {NoServer}
      /\ registered \subseteq Servers
  BY ServersAssumption DEF Sound, Typed
<1>1. /\ overwritten \subseteq overwritten'
      /\ server \in registered => server = s \/ server \in overwritten'
  BY <1>0, ServersAssumption DEF AddService
<1>2. CASE Reset(rest, s) /\ StoppedStarting(TRUE)
  <2>1. openers' \subseteq Openers /\ Opening' = {}
    BY <1>2, Stopped DEF Sound
  <2>2. Typed' /\ Core' /\ Alive'
    BY <1>0, <1>2, <2>1, ResetStep DEF Sound
  <2>3. LateServersAreClosed'
    BY <1>1, <1>2, ResetCloses DEF Sound
  <2>4. OneAdvertisement'
    BY <1>2 DEF Reset, Sound, OneAdvertisement
  <2>. QED  BY <2>2, <2>3, <2>4 DEF Sound
<1>3. CASE /\ s \in registered
           /\ adding' = adding \cup {[current |-> TRUE, server |-> s, service |-> n]}
           /\ server' = s /\ pendingService' = n /\ pendingServices' = Services - n
           /\ posts' = rest
           /\ UNCHANGED <<registered, published, advert, orphan, link, startVars,
                          advertVars, peerVars, openers, binder>>
  <2>. DEFINE a == [current |-> TRUE, server |-> s, service |-> n]
  <2>1. /\ a \in Additions /\ a.current /\ a.server = s /\ a.service = n
        /\ adding' = {a}
    BY <1>3 DEF Additions
  <2>. HIDE DEF a
  <2>2. UNCHANGED <<registered, published, advert, orphan, starting, advertising, openers, broadcasts>>
    BY <1>3 DEF startVars, advertVars
  <2>3. Results' = {} /\ Reports' = {} /\ Opening' = {}
    BY <1>3, <2>2 DEF Results, Reports, Opening, OnAir
  <2>4. Typed' /\ Alive'
    BY <1>3, <2>1, <2>2, LimitsAssumption DEF Sound, Typed, Alive
  <2>5. OneAttempt' /\ Flags'
    BY <1>3, <2>1, <2>2, <2>3 DEF OneAttempt, Flags, Underway, OnAir
  <2>6. Publication'
    BY <1>0, <1>3, <2>1, <2>2, <2>3 DEF Publication, OnAir
  <2>7. Late'
    BY <1>3, <2>2 DEF Sound, Core, Late
  <2>8. LateServersAreClosed'
    <3>1. ASSUME NEW r \in registered'
          PROVE  r \in {server'} \cup overwritten' \cup {p.server : p \in {q \in posts' : q.kind = "opened"}}
      <4>1. CASE \E p \in posts : p.kind = "opened" /\ p.server = r
        BY <1>3, <4>1
      <4>2. CASE r \in overwritten \/ r = server
        BY <1>1, <1>3, <2>2, <3>1, <4>2
      <4>. QED  BY <2>2, <3>1, <4>1, <4>2 DEF Sound, LateServersAreClosed
    <3>. QED  BY <3>1 DEF LateServersAreClosed
  <2>9. OneAdvertisement'
    BY <2>2 DEF Sound, OneAdvertisement
  <2>. QED  BY <2>4, <2>5, <2>6, <2>7, <2>8, <2>9 DEF Sound, Core
<1>. QED  BY <1>2, <1>3 DEF AddService

-----------------------------------------------------------------------------
(* The steps. *)

\* The stack, a thread or a handler does something that no attempt depends on.
LEMMA QuietSound ==
    ASSUME Sound, posts' \subseteq Posts, openers' \subseteq Openers,
           UNCHANGED <<server, published, pendingServices, pendingService, starting, registered,
                       orphan, overwritten, broadcasts>>,
           adding' \subseteq adding, Results' \subseteq Results,
           \A o1, o2 \in Opening' : o1 = o2, Opening' # {} => Opening # {},
           OnAir' => OnAir /\ advertising' = advertising,
           advertising' => advertising, advert' # "none" => advert # "none",
           \A p : p.kind = "opened" => (p \in posts' <=> p \in posts)
    PROVE  Sound'
<1>1. Core'
  BY QuietStep DEF Sound
<1>2. Typed' /\ Alive' /\ OneAdvertisement' /\ LateServersAreClosed'
  BY DEF Sound, Typed, Alive, OffIsNews, OneAdvertisement, LateServersAreClosed
<1>. QED  BY <1>1, <1>2 DEF Sound

\* Posts come and go that no attempt depends on, and nothing else happens to it.
LEMMA PostsSound ==
    ASSUME Sound, posts' \subseteq Posts,
           UNCHANGED <<server, published, pendingServices, pendingService, starting, advertising,
                       advert, adding, openers, registered, orphan, overwritten, broadcasts>>,
           Results' \subseteq Results, Reports' \subseteq Reports,
           \A p : p.kind = "opened" => (p \in posts' <=> p \in posts)
    PROVE  Sound'
<1>1. Opening' = Opening /\ (OnAir' => OnAir) /\ openers' \subseteq Openers
  BY DEF Opening, OnAir, Sound, Typed
<1>2. \A o1, o2 \in Opening : o1 = o2
  BY DEF Sound, Core, OneAttempt
<1>. QED  BY <1>1, <1>2, QuietSound

LEMMA OpenerGoesOn ==
    ASSUME Sound, NEW o \in openers, NEW n \in Openers, n.current => o.current,
           openers' \subseteq (openers \ {o}) \cup {n}
    PROVE  /\ openers' \subseteq Openers
           /\ \A o1, o2 \in Opening' : o1 = o2
           /\ Opening' # {} => Opening # {}
  BY DEF Sound, Typed, Core, OneAttempt, Opening

\* An opener goes on, or gives up.
LEMMA OpenerSound ==
    ASSUME Sound, NEW o \in openers, CheckOpener(o) \/ OpenFails(o) \/ OpenRetries(o)
    PROVE  Sound'
<1>. USE DEF radioVars, stackVars, publishVars, startVars, advertVars
<1>1. o \in Openers /\ openers \subseteq Openers /\ posts \subseteq Posts
  BY DEF Sound, Typed
<1>2. CASE CheckOpener(o)
  <2>1. openers' \subseteq (openers \ {o}) \cup {[o EXCEPT !.at = "open"]}
    BY <1>2 DEF CheckOpener
  <2>2. [o EXCEPT !.at = "open"] \in Openers /\ [o EXCEPT !.at = "open"].current = o.current
    BY <1>1 DEF Openers
  <2>3. /\ openers' \subseteq Openers
        /\ \A o1, o2 \in Opening' : o1 = o2
        /\ Opening' # {} => Opening # {}
    BY <2>1, <2>2, OpenerGoesOn
  <2>4. Results' = Results /\ OnAir' = OnAir
    BY <1>2 DEF CheckOpener, Results, OnAir, Reports
  <2>. QED  BY <1>1, <1>2, <2>3, <2>4, QuietSound DEF CheckOpener
<1>3. CASE OpenFails(o)
  <2>. DEFINE f == [Plain("openFailed") EXCEPT !.current = o.current]
  <2>1. f \in Posts /\ f.kind = "openFailed"
    BY <1>1, LimitsAssumption DEF Plain, Post, Posts, Kinds, Openers
  <2>2. openers' \subseteq (openers \ {o}) \cup {o} /\ posts' = posts \cup {f}
    BY <1>3 DEF OpenFails
  <2>. HIDE DEF f
  <2>3. /\ openers' \subseteq Openers
        /\ \A o1, o2 \in Opening' : o1 = o2
        /\ Opening' # {} => Opening # {}
    BY <1>1, <2>2, OpenerGoesOn
  <2>4. Results' = Results /\ Reports' = Reports
    BY <2>1, <2>2 DEF Results, Reports, AdvertPosts
  <2>5. UNCHANGED advert
    BY <1>3 DEF OpenFails
  <2>. QED  BY <1>1, <1>3, <2>1, <2>2, <2>3, <2>4, <2>5, QuietSound DEF OpenFails, OnAir
<1>4. CASE OpenRetries(o)
  <2>. DEFINE n == [o EXCEPT !.at = "check", !.attempt = @ + 1]
  <2>1. openers' = (openers \ {o}) \cup {n} /\ o.attempt < MaxAttempts
    BY <1>4 DEF OpenRetries
  <2>2. n \in Openers /\ n.current = o.current
    <3>1. o.attempt + 1 \in 1..MaxAttempts
      BY <1>1, <2>1, LimitsAssumption DEF Openers
    <3>. QED  BY <1>1, <3>1 DEF Openers
  <2>. HIDE DEF n
  <2>3. /\ openers' \subseteq Openers
        /\ \A o1, o2 \in Opening' : o1 = o2
        /\ Opening' # {} => Opening # {}
    BY <2>1, <2>2, OpenerGoesOn
  <2>4. Results' = Results /\ OnAir' = OnAir
    BY <1>4 DEF OpenRetries, Results, OnAir, Reports
  <2>. QED  BY <1>1, <1>4, <2>3, <2>4, QuietSound DEF OpenRetries
<1>. QED  BY <1>2, <1>3, <1>4

\* A server that is opened has a handle that nobody holds.
LEMMA OpenServerSound ==
    ASSUME Sound, NEW o \in openers, OpenServer(o) PROVE Sound'
<1>. DEFINE s == CHOOSE s \in Servers : s \notin Held
            r == [Post("opened", s, 0) EXCEPT !.current = o.current]
<1>1. s \in Servers /\ s \notin Held
  <2>1. \E x \in Servers : x \notin Held
    BY DEF OpenServer
  <2>. QED  BY <2>1
<1>2. /\ registered' = registered \cup {s} /\ published' = [published EXCEPT ![s] = 0]
      /\ overwritten' = overwritten \ {s} /\ posts' = posts \cup {r}
      /\ openers' = openers \ {o}
      /\ UNCHANGED <<adding, advert, orphan, server, pendingServices, pendingService, starting,
                     advertising, broadcasts>>
  BY DEF OpenServer, radioVars, publishVars, startVars, advertVars
<1>3. o \in Openers
  BY DEF Sound, Typed
<1>. HIDE DEF s
<1>4. /\ r \in Posts /\ r.kind = "opened" /\ r.server = s /\ r.current = o.current
  <2>1. r = [kind |-> "opened", current |-> o.current, server |-> s, service |-> 0]
    BY DEF Post
  <2>2. o.current \in BOOLEAN /\ 0 \in 0..Services
    BY <1>3, LimitsAssumption DEF Openers
  <2>. QED  BY <1>1, <2>1, <2>2 DEF Posts, Kinds
<1>. HIDE DEF r
<1>5. s # server /\ s \notin registered /\ \A p \in posts : p.server # s
  BY <1>1 DEF Held
<1>6. published' \in [Servers -> Nat] /\ published'[s] = 0
      /\ \A t \in Servers : t # s => published'[t] = published[t]
  BY <1>1, <1>2 DEF Sound, Typed
<1>7. Typed' /\ Alive'
  BY <1>1, <1>2, <1>4, <1>6 DEF Sound, Typed, Alive, OffIsNews
<1>8. /\ Opening' \subseteq Opening /\ Reports' = Reports
      /\ Results' \subseteq Results \cup {r}
      /\ o.current => Opening' = {} /\ Results' = {r} /\ adding' = {}
      /\ ~o.current => Results' = Results
  <2>1. o.current => Opening = {o} /\ Results = {} /\ adding = {}
    BY DEF Sound, Core, OneAttempt, Opening
  <2>2. Results' = IF o.current THEN Results \cup {r} ELSE Results
    BY <1>2, <1>4 DEF Results
  <2>3. Opening' = Opening \ {o} /\ Reports' = Reports
    BY <1>2, <1>4 DEF Opening, Reports, AdvertPosts
  <2>. QED  BY <1>2, <2>1, <2>2, <2>3
<1>9. OneAttempt'
  <2>1. CASE o.current
    BY <1>8, <2>1 DEF OneAttempt
  <2>2. CASE ~o.current
    BY <1>2, <1>8, <2>2 DEF Sound, Core, OneAttempt
  <2>. QED  BY <2>1, <2>2
<1>10. Flags'
  <2>1. OnAir' <=> OnAir
    BY <1>2, <1>8 DEF OnAir
  <2>2. Underway' => Underway
    BY <1>2, <1>8 DEF Underway, Opening
  <2>. QED  BY <1>2, <2>1, <2>2 DEF Sound, Core, Flags
<1>11. Publication'
  <2>1. server # NoServer => published'[server] = published[server]
    BY <1>5, <1>6 DEF Sound, Typed
  <2>2. \A a \in adding : server # NoServer
    BY ServersAssumption DEF Sound, Typed, Core, Publication, Additions
  <2>. QED  BY <1>2, <1>4, <1>8, <2>1, <2>2 DEF Sound, Core, Publication
<1>12. Late'
  <2>1. ASSUME NEW p \in posts', p.kind = "opened"
        PROVE  p.server \in Servers /\ p.server # server' /\ published'[p.server] = 0
    BY <1>1, <1>2, <1>4, <1>5, <1>6, <2>1 DEF Sound, Core, Late
  <2>2. \A p, q \in posts' : p.kind = "opened" /\ q.kind = "opened" /\ p.server = q.server => p = q
    BY <1>2, <1>4, <1>5 DEF Sound, Core, Late
  <2>. QED  BY <2>1, <2>2 DEF Late
<1>13. OneAdvertisement' /\ LateServersAreClosed'
  <2>1. r \in posts' /\ r.kind = "opened" /\ r.server = s
    BY <1>2, <1>4
  <2>2. s \in {p.server : p \in {q \in posts' : q.kind = "opened"}}
    BY <2>1
  <2>3. {p.server : p \in {q \in posts : q.kind = "opened"}}
          \subseteq {p.server : p \in {q \in posts' : q.kind = "opened"}}
    BY <1>2
  <2>. QED  BY <1>2, <2>2, <2>3 DEF Sound, OneAdvertisement, LateServersAreClosed
<1>. QED  BY <1>7, <1>9, <1>10, <1>11, <1>12, <1>13 DEF Sound, Core

\* The stack has added the service.
LEMMA StackAddsSound ==
    ASSUME Sound, NEW a \in adding, StackAdds(a) PROVE Sound'
<1>. DEFINE r == [Post("serviceAdded", a.server, a.service) EXCEPT !.current = a.current]
<1>1. /\ a \in Additions /\ a.current /\ a.server = server /\ server \in Servers
      /\ a.service = pendingService /\ published[server] + 1 = pendingService /\ pendingService # 0
      /\ adding = {a} /\ Results = {} /\ Opening = {}
  BY DEF Sound, Typed, Core, OneAttempt, Publication, Additions
<1>2. /\ published' = [published EXCEPT ![server] = @ + 1] /\ adding' = {}
      /\ posts' = posts \cup {r}
      /\ UNCHANGED <<registered, overwritten, advert, orphan, server, pendingServices, pendingService,
                     starting, advertising, openers, broadcasts>>
  BY <1>1 DEF StackAdds, stackRest, radioVars, publishVars, startVars, advertVars
<1>3. r \in Posts /\ r.kind = "serviceAdded" /\ r.server = server /\ r.service = pendingService
  <2>1. r = [kind |-> "serviceAdded", current |-> a.current, server |-> a.server, service |-> a.service]
    BY DEF Post
  <2>2. a.current \in BOOLEAN /\ a.service \in 0..Services /\ a.server \in Servers
    BY <1>1, LimitsAssumption DEF Additions
  <2>. QED  BY <1>1, <2>1, <2>2 DEF Posts, Kinds
<1>. HIDE DEF r
<1>4. /\ published' \in [Servers -> Nat] /\ published'[server] = pendingService
      /\ \A t \in Servers : t # server => published'[t] = published[t]
  BY <1>1, <1>2 DEF Sound, Typed
<1>5. Results' \subseteq {r} /\ Opening' = {} /\ Reports' = Reports
  BY <1>1, <1>2, <1>3 DEF Results, Opening, Reports, AdvertPosts
<1>6. Typed' /\ Alive'
  BY <1>2, <1>3, <1>4 DEF Sound, Typed, Alive, OffIsNews
<1>7. OneAttempt'
  BY <1>2, <1>5 DEF OneAttempt
<1>8. Flags'
  BY <1>1, <1>2, <1>5 DEF Sound, Core, Flags, Underway, OnAir
<1>9. Publication'
  BY <1>1, <1>2, <1>3, <1>4, <1>5 DEF Sound, Core, Publication
<1>10. Late'
  BY <1>2, <1>3, <1>4 DEF Sound, Core, Late
<1>11. OneAdvertisement' /\ LateServersAreClosed'
  BY <1>2 DEF Sound, OneAdvertisement, LateServersAreClosed
<1>. QED  BY <1>6, <1>7, <1>8, <1>9, <1>10, <1>11 DEF Sound, Core

LEMMA OpenedSound == ASSUME Sound, NEW p \in posts, Opened(p) PROVE Sound'
<1>1. p \in Posts /\ p.kind = "opened" /\ broadcasts' = broadcasts
  BY DEF Opened, OwnVars, radioVars, Sound, Typed
<1>2. p.server \in Servers /\ p.server # server /\ published[p.server] = 0
      /\ \A q \in posts : q.kind = "opened" => (q \in posts \ {p} <=> q.server # p.server)
  BY <1>1 DEF Sound, Core, Late
<1>3. CASE p.current /\ AddService(posts \ {p}, p.server, 1)
  <2>1. p \in Results
    BY <1>1, <1>3 DEF Results
  <2>2. starting /\ ~advertising /\ ~OnAir /\ Opening = {} /\ adding = {}
        /\ \A q \in posts \ {p} : q \notin Results
    BY <2>1 DEF Sound, Core, OneAttempt, Flags, Underway
  <2>3. 1 \in 1..Services
    BY LimitsAssumption
  <2>. QED  BY <1>1, <1>2, <1>3, <2>2, <2>3, AddSound
<1>4. CASE /\ ~p.current
           /\ registered' = registered \ {p.server}
           /\ posts' = posts \ {p}
           /\ UNCHANGED <<published, adding, advert, orphan, link, publishVars, startVars,
                          advertVars, peerVars, openers, binder, overwritten, disturbed>>
  <2>1. UNCHANGED <<published, adding, advert, orphan, server, pendingServices, pendingService,
                    starting, advertising, openers, overwritten>>
    BY <1>4 DEF publishVars, startVars, advertVars
  <2>2. Results' \subseteq Results /\ Reports' \subseteq Reports /\ Opening' = Opening
    BY <1>4 DEF Results, Reports, Opening
  <2>3. Core'
    BY <1>4, <2>1, <2>2, QuietStep DEF Sound, Core, OneAttempt, OnAir
  <2>4. Typed' /\ Alive' /\ OneAdvertisement'
    BY <1>1, <1>2, <1>4, <2>1 DEF Sound, Typed, Alive, OffIsNews, OneAdvertisement
  <2>5. LateServersAreClosed'
    BY <1>2, <1>4, <2>1 DEF Sound, LateServersAreClosed
  <2>. QED  BY <2>3, <2>4, <2>5 DEF Sound
<1>. QED  BY <1>3, <1>4 DEF Opened

LEMMA ServiceAddedSound == ASSUME Sound, NEW p \in posts, ServiceAdded(p) PROVE Sound'
<1>1. /\ p \in Posts /\ p.kind = "serviceAdded" /\ p \in Results
      /\ UNCHANGED broadcasts
  BY DEF ServiceAdded, OwnVars, radioVars, Sound, Typed, Results
<1>2. /\ pendingService # 0 /\ published[server] = pendingService
      /\ server # NoServer /\ server \in Servers /\ pendingServices = Services - pendingService
      /\ pendingService \in 0..Services
  BY <1>1 DEF Sound, Core, Publication, Typed
<1>3. /\ starting /\ ~advertising /\ ~OnAir /\ Opening = {} /\ adding = {}
      /\ \A q \in posts \ {p} : q \notin Results
  BY <1>1 DEF Sound, Core, OneAttempt, Flags, Underway
<1>4. Remains(posts \ {p})
  BY <1>1 DEF Remains
<1>5. CASE pendingServices > 0 /\ AddService(posts \ {p}, server, pendingService + 1)
  <2>1. pendingService + 1 \in 1..Services
    BY <1>2, <1>5, LimitsAssumption
  <2>2. \A q \in posts : q.kind = "opened" => q.server # server /\ q \in posts \ {p}
    BY <1>1 DEF Sound, Core, Late
  <2>. QED  BY <1>1, <1>2, <1>3, <1>5, <2>1, <2>2, AddSound
<1>6. CASE pendingServices = 0 /\ StartAdvertising(posts \ {p}, 0) /\ UNCHANGED overwritten
  <2>1. published[server] = Services
    BY <1>2, <1>6, LimitsAssumption
  <2>. QED  BY <1>1, <1>2, <1>3, <1>4, <1>6, <2>1, AdvertiseSound
<1>7. CASE FailProbe(posts \ {p})
  <2>1. broadcasts' \in Seq({"off", "on"})
    BY <1>1 DEF Sound, Typed
  <2>. QED  BY <1>4, <1>7, <2>1, StopSound DEF FailProbe
<1>. QED  BY <1>5, <1>6, <1>7 DEF ServiceAdded

LEMMA AdvertStartedSound == ASSUME Sound, NEW p \in posts, AdvertStarted(p) PROVE Sound'
<1>1. p \in Reports
  BY DEF AdvertStarted, Reports, AdvertPosts
<1>2. ~Underway /\ pendingService = 0
  BY <1>1 DEF Sound, Core, Flags, OnAir
<1>3. /\ advertising' = TRUE /\ starting' = FALSE /\ posts' = posts \ {p}
      /\ UNCHANGED <<registered, published, adding, advert, orphan, server, pendingServices,
                     pendingService, openers, overwritten, broadcasts>>
  BY DEF AdvertStarted, stackVars, publishVars, OwnVars, radioVars
<1>4. Results' \subseteq Results /\ Reports' \subseteq Reports /\ Opening' = Opening
  BY <1>3 DEF Results, Reports, Opening
<1>5. ~Underway'
  BY <1>2, <1>3, <1>4 DEF Underway
<1>6. OneAttempt' /\ Flags' /\ Publication'
  <2>1. OneAttempt'
    BY <1>5 DEF OneAttempt, Underway
  <2>2. Flags'
    BY <1>2, <1>3, <1>5 DEF Flags
  <2>3. Publication'
    BY <1>3, <1>4 DEF Sound, Core, Publication
  <2>. QED  BY <2>1, <2>2, <2>3
<1>7. Late'
  BY <1>3 DEF Sound, Core, Late
<1>8. Typed' /\ Alive' /\ OneAdvertisement'
  BY <1>3 DEF Sound, Typed, Alive, OffIsNews, OneAdvertisement
<1>9. LateServersAreClosed'
  <2>1. p.kind # "opened"
    BY DEF AdvertStarted
  <2>. QED  BY <1>3, <2>1 DEF Sound, LateServersAreClosed
<1>. QED  BY <1>6, <1>7, <1>8, <1>9 DEF Sound, Core

LEMMA HandleSound == ASSUME Sound, NEW p \in posts, Handle(p) \/ LoseCallback(p) PROVE Sound'
<1>. DEFINE Taken == UNCHANGED <<server, published, pendingServices, pendingService, starting,
                                 advertising, advert, adding, openers, registered, orphan,
                                 overwritten, broadcasts>>
<1>1. ASSUME p.kind # "opened", posts' = posts \ {p}, Taken PROVE Sound'
  <2>1. posts' \subseteq Posts /\ Results' \subseteq Results /\ Reports' \subseteq Reports
    BY <1>1 DEF Sound, Typed, Results, Reports
  <2>. QED  BY <1>1, <2>1, PostsSound
<1>2. p.kind # "opened" => Remains(posts \ {p})
  BY DEF Remains
<1>3. broadcasts \in Seq({"off", "on"})
  BY DEF Sound, Typed
<1>4. CASE Failed(p)
  <2>1. p.kind # "opened" /\ StopProbe(posts \ {p}, TRUE) /\ UNCHANGED broadcasts
    BY <1>4 DEF Failed, FailProbe, OwnVars, radioVars
  <2>. QED  BY <1>2, <1>3, <2>1, StopSound
<1>5. CASE Start(p)
  <2>1. p.kind # "opened" /\ StartProbe(posts \ {p}) /\ UNCHANGED broadcasts
    BY <1>5 DEF Start, OwnVars, radioVars
  <2>. QED  BY <1>2, <2>1, StartSound
<1>6. CASE Readvertise(p)
  <2>1. p.kind = "readvertise" /\ UNCHANGED broadcasts
    BY <1>6 DEF Readvertise, OwnVars, radioVars
  <2>2. CASE ~advertising /\ ~starting /\ ~connected /\ server # NoServer
    <3>1. StartAdvertising(posts \ {p}, pendingService) /\ UNCHANGED overwritten
      BY <1>6, <2>2 DEF Readvertise
    <3>2. ~Underway /\ ~OnAir /\ pendingService = 0
      BY <2>2 DEF Sound, Core, Flags
    <3>3. published[server] = Services
      BY <2>2, <3>2 DEF Sound, Core, Publication
    <3>4. Opening = {} /\ adding = {} /\ \A q \in posts \ {p} : q \notin Results
      BY <3>2 DEF Underway
    <3>. QED  BY <1>2, <2>1, <2>2, <3>1, <3>2, <3>3, <3>4, AdvertiseSound
  <2>3. CASE ~(~advertising /\ ~starting /\ ~connected /\ server # NoServer)
    <3>1. posts' = posts \ {p} /\ Taken
      BY <1>6, <2>1, <2>3 DEF Readvertise, stackVars, publishVars, startVars, advertVars
    <3>. QED  BY <1>1, <2>1, <3>1
  <2>. QED  BY <2>2, <2>3
<1>7. CASE Ignored(p)
  BY <1>1, <1>7 DEF Ignored, OwnVars, radioVars, stackVars, publishVars, startVars, advertVars
<1>8. CASE ScheduleRecovery(p)
  BY <1>1, <1>8 DEF ScheduleRecovery, OwnVars, radioVars, stackVars, publishVars, advertVars
<1>9. CASE LoseCallback(p)
  BY <1>1, <1>9 DEF LoseCallback, stackRest, radioVars, stackVars, publishVars, startVars, advertVars
<1>. QED
  BY <1>4, <1>5, <1>6, <1>7, <1>8, <1>9, OpenedSound, ServiceAddedSound, AdvertStartedSound DEF Handle

\* A post that no attempt depends on.
LEMMA PlainPost ==
    ASSUME NEW k \in Kinds
    PROVE  Plain(k) \in Posts /\ Plain(k).kind = k /\ Plain(k).current
  BY LimitsAssumption DEF Plain, Post, Posts

LEMMA Posting ==
    ASSUME Sound, NEW k \in {"start", "scheduleRecovery", "disconnectDeadline"},
           posts' \in {posts, posts \cup {Plain(k)}}
    PROVE  /\ posts' \subseteq Posts /\ Results' \subseteq Results /\ Reports' \subseteq Reports
           /\ \A p : p.kind = "opened" => (p \in posts' <=> p \in posts)
<1>1. Plain(k) \in Posts /\ Plain(k).kind = k
  BY PlainPost DEF Kinds
<1>. QED  BY <1>1 DEF Sound, Typed, Results, Reports, AdvertPosts

LEMMA PassedDeadline ==
    ASSUME Sound, \/ posts' = OutdatedOf(DeadlinePosts, posts)
                  \/ posts' = OutdatedOf(DeadlinePosts, posts) \cup {Plain("scheduleRecovery")}
    PROVE  /\ posts' \subseteq Posts /\ Results' \subseteq Results /\ Reports' \subseteq Reports
           /\ \A p : p.kind = "opened" => (p \in posts' <=> p \in posts)
<1>. DEFINE S == OutdatedOf(DeadlinePosts, posts)
            n == Plain("scheduleRecovery")
<1>1. n \in Posts /\ n.kind = "scheduleRecovery"
  BY PlainPost DEF Kinds
<1>2. posts \subseteq Posts
  BY DEF Sound, Typed
<1>3. /\ S \subseteq Posts
      /\ \A q \in S : q.kind \notin DeadlinePosts => q \in posts
      /\ \A p \in posts : p.kind \notin DeadlinePosts => p \in S
  BY <1>2, OutdatedPosts
<1>4. posts' = S \/ posts' = S \cup {n}
  OBVIOUS
<1>. HIDE DEF S, n
<1>. QED  BY <1>1, <1>3, <1>4 DEF Results, Reports, AdvertPosts, DeadlinePosts

\* The connections, the clock and the user.
LEMMA BystanderSound ==
    ASSUME Sound,
           \/ Callback \/ HandshakeExpires \/ SessionFails \/ Create
           \/ PeerConnects \/ LinkEnds \/ PeerVerifies \/ Demand
    PROVE  Sound'
<1>. USE DEF radioVars, stackVars, publishVars, startVars, advertVars, stackRest, OwnVars
<1>. DEFINE Rest == UNCHANGED <<server, published, pendingServices, pendingService, starting,
                                advertising, advert, adding, openers, registered, orphan,
                                overwritten, broadcasts>>

<1>1. ASSUME Rest, UNCHANGED posts PROVE Sound'
  <2>1. posts' \subseteq Posts /\ Results' = Results /\ Reports' = Reports
    BY <1>1 DEF Sound, Typed, Results, Reports
  <2>. QED  BY <1>1, <2>1, PostsSound
<1>2. CASE ConnectChecked \/ ConnectTimed
  BY <1>1, <1>2 DEF ConnectChecked, ConnectTimed
<1>3. CASE ConnectListed
  <2>1. Rest /\ posts' = OutdatedOf(DeadlinePosts, posts)
    BY <1>3 DEF ConnectListed
  <2>. QED  BY <2>1, PassedDeadline, PostsSound
<1>4. CASE Disconnected
  <2>1. /\ Rest
        /\ \/ posts' = OutdatedOf(DeadlinePosts, posts)
           \/ posts' = OutdatedOf(DeadlinePosts, posts) \cup {Plain("scheduleRecovery")}
    BY <1>4 DEF Disconnected
  <2>. QED  BY <2>1, PassedDeadline, PostsSound
<1>5. CASE HandshakeExpires \/ SessionFails
  <2>1. Rest /\ posts' = posts \cup {Plain("disconnectDeadline")}
    BY <1>5 DEF HandshakeExpires, SessionFails, DisconnectPeer
  <2>. QED  BY <2>1, Posting, PostsSound
<1>6. CASE Create
  BY <1>1, <1>6 DEF Create
<1>7. CASE PeerConnects \/ LinkEnds \/ PeerVerifies
  BY <1>1, <1>7 DEF PeerConnects, LinkEnds, PeerVerifies
<1>8. CASE Demand
  <2>1. Rest /\ posts' \in {posts, posts \cup {Plain("start")}}
    BY <1>8 DEF Demand
  <2>. QED  BY <2>1, Posting, PostsSound
<1>. QED  BY <1>2, <1>3, <1>4, <1>5, <1>6, <1>7, <1>8 DEF Callback

\* The advertisement is stopped to start again.
LEMMA RefreshSound == ASSUME Sound, Refresh PROVE Sound'
<1>. DEFINE S == OutdatedOf(AdvertPosts, posts)
            n == Plain("readvertise")
<1>1. n \in Posts /\ n.kind = "readvertise"
  BY PlainPost DEF Kinds
<1>2. /\ S \subseteq Posts
      /\ \A q \in S : q.kind \notin AdvertPosts => q \in posts
      /\ \A q \in S : q.kind \in AdvertPosts => ~q.current
      /\ \A p \in posts : p.kind \notin AdvertPosts => p \in S
  BY OutdatedPosts DEF Sound, Typed
<1>3. /\ posts' = S \cup {n} /\ advert' = "none" /\ advertising' = FALSE
      /\ UNCHANGED <<server, published, pendingServices, pendingService, starting, adding, openers,
                     registered, orphan, overwritten, broadcasts>>
  BY DEF Refresh, publishVars, startVars, OwnVars, radioVars
<1>. HIDE DEF S, n
<1>4. /\ posts' \subseteq Posts /\ Results' \subseteq Results /\ Reports' = {}
      /\ \A p : p.kind = "opened" => (p \in posts' <=> p \in posts)
  BY <1>1, <1>2, <1>3 DEF Results, Reports, AdvertPosts
<1>5. ~OnAir' /\ Opening' = Opening /\ openers' \subseteq Openers
  BY <1>3, <1>4 DEF OnAir, Opening, Sound, Typed
<1>6. \A o1, o2 \in Opening : o1 = o2
  BY DEF Sound, Core, OneAttempt
<1>. QED  BY <1>3, <1>4, <1>5, <1>6, QuietSound

LEMMA StackAdvertisesSound == ASSUME Sound, StackAdvertises PROVE Sound'
<1>1. OnAir
  BY DEF StackAdvertises, OnAir
<1>2. /\ UNCHANGED <<server, published, pendingServices, pendingService, starting, advertising,
                     adding, openers, registered, orphan, overwritten, broadcasts>>
      /\ advert = "asked"
      /\ \E k \in AdvertPosts : posts' = posts \cup {Plain(k)}
  BY DEF StackAdvertises, stackRest, radioVars, publishVars, startVars, advertVars, AdvertPosts
<1>3. PICK k \in AdvertPosts : posts' = posts \cup {Plain(k)}
  BY <1>2
<1>4. Plain(k) \in Posts /\ Plain(k).kind = k
  BY <1>3, PlainPost DEF AdvertPosts, Kinds
<1>5. /\ posts' \subseteq Posts /\ Results' \subseteq Results
      /\ \A p : p.kind = "opened" => (p \in posts' <=> p \in posts)
  BY <1>3, <1>4 DEF Sound, Typed, Results, AdvertPosts
<1>6. Opening' = Opening /\ openers' \subseteq Openers /\ \A o1, o2 \in Opening : o1 = o2
  BY <1>2 DEF Opening, Sound, Typed, Core, OneAttempt
<1>. QED  BY <1>1, <1>2, <1>5, <1>6, QuietSound

\* Bluetooth goes with its servers: the service hears of it, if there is one.
LEMMA SwitchSound == ASSUME Sound, Down, SwitchOff \/ SwitchOn PROVE Sound'
<1>1. CASE SwitchOff
  <2>1. /\ registered' = {} /\ adding' = {} /\ advert' = "none" /\ orphan' = FALSE /\ overwritten' = {}
        /\ broadcasts' = IF up THEN Append(broadcasts, "off") ELSE broadcasts
        /\ UNCHANGED <<server, published, pendingServices, pendingService, starting, advertising,
                       openers, posts>>
    BY <1>1 DEF SwitchOff, Announce, publishVars, startVars, advertVars
  <2>2. Results' = Results /\ Opening' = Opening /\ (OnAir' => OnAir)
    BY <2>1 DEF Results, Opening, OnAir, Reports
  <2>3. Core'
    BY <2>1, <2>2, QuietStep DEF Sound, Core, OneAttempt
  <2>4. Alive'
    <3>1. CASE up
      <4>1. /\ Len(broadcasts') \in Nat /\ Len(broadcasts') >= 1
            /\ broadcasts'[Len(broadcasts')] = "off"
        BY <2>1, <3>1 DEF Sound, Typed
      <4>. QED  BY <4>1 DEF Alive, OffIsNews
    <3>2. CASE ~up
      BY <2>1, <3>2 DEF Down, Alive
    <3>. QED  BY <3>1, <3>2
  <2>5. Typed'
    BY <2>1 DEF Sound, Typed
  <2>6. OneAdvertisement' /\ LateServersAreClosed'
    BY <2>1 DEF OneAdvertisement, LateServersAreClosed
  <2>. QED  BY <2>3, <2>4, <2>5, <2>6 DEF Sound
<1>2. CASE SwitchOn
  <2>1. /\ broadcasts' \in {broadcasts, Append(broadcasts, "on")}
        /\ UNCHANGED <<server, published, pendingServices, pendingService, starting, advertising,
                       openers, posts, registered, adding, advert, orphan, overwritten>>
    BY <1>2 DEF SwitchOn, Announce, stackVars, publishVars, startVars, advertVars
  <2>2. Results' = Results /\ Opening' = Opening /\ (OnAir' => OnAir)
    BY <2>1 DEF Results, Opening, OnAir, Reports
  <2>3. Core'
    BY <2>1, <2>2, QuietStep DEF Sound, Core, OneAttempt
  <2>4. broadcasts' \in Seq({"off", "on"}) /\ (OffIsNews => OffIsNews')
    <3>1. CASE broadcasts' = Append(broadcasts, "on")
      <4>1. broadcasts \in Seq({"off", "on"})
        BY DEF Sound, Typed
      <4>2. /\ broadcasts' \in Seq({"off", "on"}) /\ Len(broadcasts') = Len(broadcasts) + 1
            /\ \A i \in 1..Len(broadcasts) : broadcasts'[i] = broadcasts[i]
        BY <3>1, <4>1
      <4>3. ASSUME NEW i \in 1..Len(broadcasts), broadcasts[i] = "off" PROVE OffIsNews'
        <5>1. i \in 1..Len(broadcasts') /\ broadcasts'[i] = "off"
          BY <4>1, <4>2, <4>3
        <5>. QED  BY <5>1 DEF OffIsNews
      <4>. QED  BY <4>2, <4>3 DEF OffIsNews
    <3>2. CASE broadcasts' = broadcasts
      BY <3>2 DEF Sound, Typed, OffIsNews
    <3>. QED  BY <2>1, <3>1, <3>2
  <2>5. Typed' /\ Alive'
    BY <2>1, <2>4 DEF Sound, Typed, Alive
  <2>6. OneAdvertisement' /\ LateServersAreClosed'
    BY <2>1 DEF Sound, OneAdvertisement, LateServersAreClosed
  <2>. QED  BY <2>3, <2>5, <2>6 DEF Sound
<1>. QED  BY <1>1, <1>2

\* A broadcast is delivered.
LEMMA DeliverSound == ASSUME Sound, Deliver PROVE Sound'
<1>1. broadcasts \in Seq({"off", "on"}) /\ broadcasts # << >> /\ broadcasts' = Tail(broadcasts)
  BY DEF Deliver, Sound, Typed
<1>2. /\ broadcasts' \in Seq({"off", "on"})
      /\ Len(broadcasts') = Len(broadcasts) - 1 /\ Len(broadcasts) \in Nat /\ Len(broadcasts') \in Nat
      /\ \A i \in 1..Len(broadcasts') : broadcasts'[i] = broadcasts[i + 1]
      /\ Head(broadcasts) = broadcasts[1]
  BY <1>1
<1>3. CASE Head(broadcasts) = "on"
  <2>1. /\ posts' \in {posts, posts \cup {Plain("start")}}
        /\ UNCHANGED <<server, published, pendingServices, pendingService, starting, advertising,
                       openers, registered, adding, advert, orphan, overwritten>>
    BY <1>3 DEF Deliver, stackVars, publishVars, startVars, advertVars
  <2>2. /\ posts' \subseteq Posts /\ Results' \subseteq Results /\ Reports' \subseteq Reports
        /\ \A p : p.kind = "opened" => (p \in posts' <=> p \in posts)
    BY <2>1, Posting
  <2>3. Opening' = Opening /\ (OnAir' => OnAir)
    BY <2>1, <2>2 DEF Opening, OnAir
  <2>4. Core'
    BY <2>1, <2>2, <2>3, QuietStep DEF Sound, Core, OneAttempt
  <2>5. ASSUME NEW i \in 1..Len(broadcasts), broadcasts[i] = "off" PROVE OffIsNews'
    <3>1. i - 1 \in 1..Len(broadcasts') /\ broadcasts'[i - 1] = "off"
      BY <1>2, <1>3, <2>5
    <3>. QED  BY <3>1 DEF OffIsNews
  <2>6. Typed' /\ Alive'
    BY <1>2, <2>1, <2>2, <2>5 DEF Sound, Typed, Alive, OffIsNews
  <2>7. OneAdvertisement' /\ LateServersAreClosed'
    BY <2>1, <2>2 DEF Sound, OneAdvertisement, LateServersAreClosed
  <2>. QED  BY <2>4, <2>6, <2>7 DEF Sound
<1>4. CASE Head(broadcasts) # "on"
  <2>1. StopProbe(posts, FALSE)
    BY <1>4 DEF Deliver
  <2>. QED  BY <1>2, <2>1, StopSound DEF Remains
<1>. QED  BY <1>3, <1>4

\* The timers, and the end of the service.
LEMMA TimerSound ==
    ASSUME Sound, Recover \/ StartupExpires \/ WorkerStalled \/ Reconcile \/ Destroy PROVE Sound'
<1>1. Remains(posts) /\ broadcasts \in Seq({"off", "on"})
  BY DEF Remains, Sound, Typed
<1>2. CASE StartupExpires \/ WorkerStalled
  <2>1. StopProbe(posts, TRUE) /\ UNCHANGED broadcasts
    BY <1>2 DEF StartupExpires, WorkerStalled, FailProbe, OwnVars, radioVars
  <2>. QED  BY <1>1, <2>1, StopSound
<1>3. CASE Restart(posts) /\ UNCHANGED broadcasts
  BY <1>1, <1>3, RestartSound
<1>4. CASE Recover /\ connected
  <2>1. UNCHANGED <<server, published, pendingServices, pendingService, starting, advertising,
                    advert, adding, openers, registered, orphan, overwritten, broadcasts, posts>>
    BY <1>4 DEF Recover, stackVars, publishVars, advertVars, OwnVars, radioVars
  <2>2. posts' \subseteq Posts /\ Results' = Results /\ Reports' = Reports
    BY <2>1 DEF Sound, Typed, Results, Reports
  <2>. QED  BY <2>1, <2>2, PostsSound
<1>5. CASE Destroy
  <2>1. /\ Reset({p \in posts : p.kind = "opened"}, server) /\ StoppedStarting(FALSE)
        /\ UNCHANGED overwritten /\ broadcasts' = << >>
    BY <1>5 DEF Destroy
  <2>2. StopProbe({p \in posts : p.kind = "opened"}, FALSE)
    BY <2>1 DEF StopProbe
  <2>3. Remains({p \in posts : p.kind = "opened"}) /\ broadcasts' \in Seq({"off", "on"})
    BY <2>1 DEF Remains
  <2>. QED  BY <2>2, <2>3, StopSound
<1>. QED  BY <1>2, <1>3, <1>4, <1>5 DEF Recover, Reconcile, OwnVars, radioVars

\* What a destroyed service leaves runs down.
LEMMA DownStep == ASSUME Sound, Down, [ProbeNext]_probeVars PROVE Down'
<1>. USE DEF radioVars, stackVars, publishVars, startVars, advertVars, peerVars, stackRest, OwnVars
<1>0. server # NoServer \/ (adding = {} /\ advert = "none")
  BY ServersAssumption DEF Sound, Typed, Core, Publication, Additions
<1>1. CASE Destroy
  <2>. DEFINE S == {p \in posts : p.kind = "opened"}
  <2>1. /\ Reset(S, server) /\ StoppedStarting(FALSE) /\ broadcasts' = << >>
    BY <1>1 DEF Destroy
  <2>2. Opening' = {} /\ ~recoveryPending' /\ ~startupTimeout'
    BY <2>1, Stopped DEF Sound, StoppedStarting
  <2>3. S \subseteq Posts
    BY DEF Sound, Typed
  <2>4. posts' = OutdatedOf(GenerationPosts, S)
    BY <2>1 DEF Reset
  <2>5. \A p \in posts' : ~p.current /\ p.kind \in GenerationPosts
    BY <2>3, <2>4, OutdatedPosts DEF GenerationPosts
  <2>6. /\ server' = NoServer /\ link' = "none" /\ handshake' = "none" /\ ~connected'
        /\ binder' \notin {"connect", "disconnect"}
    BY <2>1 DEF Reset, OutdateBinder
  <2>. QED  BY <2>1, <2>2, <2>5, <2>6 DEF Down
<1>2. CASE up /\ ~Destroy
  <2>1. up'
    <3>1. ASSUME NEW p \in posts, Handle(p) \/ LoseCallback(p) PROVE up'
      BY <1>2, <3>1 DEF Handle, Opened, ServiceAdded, AdvertStarted, Failed, Ignored, Start, Readvertise,
                        ScheduleRecovery, LoseCallback
    <3>2. ASSUME NEW o \in openers, CheckOpener(o) \/ OpenServer(o) \/ OpenFails(o) \/ OpenRetries(o)
          PROVE  up'
      BY <1>2, <3>2 DEF CheckOpener, OpenServer, OpenFails, OpenRetries
    <3>3. ASSUME NEW a \in adding, StackAdds(a) PROVE up'
      BY <1>2, <3>3 DEF StackAdds
    <3>4. CASE Callback
      BY <1>2, <3>4 DEF Callback, ConnectChecked, ConnectTimed, ConnectListed, Disconnected
    <3>5. CASE \/ Recover \/ StartupExpires \/ WorkerStalled \/ HandshakeExpires \/ SessionFails
               \/ Reconcile \/ Refresh
      BY <1>2, <3>5 DEF Recover, StartupExpires, WorkerStalled, HandshakeExpires, SessionFails, Reconcile,
                        Refresh
    <3>6. CASE Deliver \/ Create \/ StackAdvertises \/ PeerConnects \/ LinkEnds
      BY <1>2, <3>6 DEF Deliver, Create, StackAdvertises, PeerConnects, LinkEnds
    <3>7. CASE PeerVerifies \/ Demand \/ SwitchOff \/ SwitchOn \/ UNCHANGED probeVars
      BY <1>2, <3>7 DEF PeerVerifies, Demand, SwitchOff, SwitchOn, probeVars
    <3>. QED  BY <1>2, <3>1, <3>2, <3>3, <3>4, <3>5, <3>6, <3>7 DEF ProbeNext, Open
  <2>. QED  BY <2>1 DEF Down
<1>3. CASE ~up
  <2>1. /\ server = NoServer /\ Opening = {} /\ link = "none" /\ handshake = "none"
        /\ ~recoveryPending /\ ~startupTimeout /\ ~connected /\ broadcasts = << >>
        /\ \A p \in posts : ~p.current /\ p.kind \in GenerationPosts
        /\ binder \notin {"connect", "disconnect"}
    BY <1>3 DEF Down
  <2>2. /\ advert = "none" /\ adding = {} /\ server \notin registered
        /\ posts \subseteq Posts /\ openers \subseteq Openers
    BY <1>0, <2>1, ServersAssumption DEF Sound, Typed
  <2>3. ASSUME UNCHANGED <<server, link, handshake, recoveryPending, startupTimeout, connected, broadcasts, binder>>,
               Opening' = {}, \A p \in posts' : ~p.current /\ p.kind \in GenerationPosts
        PROVE  Down'
    BY <2>1, <2>3 DEF Down
  <2>4. ASSUME NEW p \in posts, Handle(p) \/ LoseCallback(p) PROVE Down'
    <3>1. Opened(p) \/ Ignored(p) \/ LoseCallback(p)
      BY <2>1, <2>4 DEF Handle, ServiceAdded, AdvertStarted, Failed, Start, Readvertise, ScheduleRecovery,
                        GenerationPosts, AdvertPosts, DeadlinePosts
    <3>2. /\ UNCHANGED <<server, link, handshake, recoveryPending, startupTimeout, connected, broadcasts, binder>>
          /\ openers' = openers /\ posts' \subseteq posts
      BY <2>1, <3>1 DEF Opened, Ignored, LoseCallback
    <3>. QED  BY <2>1, <2>3, <3>2 DEF Opening
  <2>5. ASSUME NEW o \in openers, CheckOpener(o) \/ OpenServer(o) \/ OpenFails(o) \/ OpenRetries(o)
        PROVE  Down'
    <3>1. ~o.current /\ o \in Openers
      BY <2>1, <2>2, <2>5 DEF Opening
    <3>2. CASE CheckOpener(o)
      BY <2>1, <2>3, <3>1, <3>2 DEF CheckOpener, Opening
    <3>3. CASE OpenServer(o)
      <4>1. openers' = openers \ {o}
            /\ UNCHANGED <<server, link, handshake, recoveryPending, startupTimeout, connected, broadcasts, binder>>
        BY <3>3 DEF OpenServer
      <4>2. PICK s : posts' = posts \cup {[Post("opened", s, 0) EXCEPT !.current = o.current]}
        BY <3>3 DEF OpenServer
      <4>3. /\ ~[Post("opened", s, 0) EXCEPT !.current = o.current].current
            /\ [Post("opened", s, 0) EXCEPT !.current = o.current].kind = "opened"
        BY <3>1 DEF Post
      <4>. QED  BY <2>1, <2>3, <4>1, <4>2, <4>3 DEF Opening, GenerationPosts
    <3>4. CASE OpenFails(o)
      <4>1. /\ openers' = openers \ {o}
            /\ posts' = posts \cup {[Plain("openFailed") EXCEPT !.current = o.current]}
            /\ UNCHANGED <<server, link, handshake, recoveryPending, startupTimeout, connected, broadcasts, binder>>
        BY <3>4 DEF OpenFails
      <4>2. /\ ~[Plain("openFailed") EXCEPT !.current = o.current].current
            /\ [Plain("openFailed") EXCEPT !.current = o.current].kind = "openFailed"
        BY <3>1 DEF Plain, Post
      <4>. QED  BY <2>1, <2>3, <4>1, <4>2 DEF Opening, GenerationPosts
    <3>5. CASE OpenRetries(o)
      <4>1. /\ openers' = (openers \ {o}) \cup {[o EXCEPT !.at = "check", !.attempt = @ + 1]}
            /\ UNCHANGED <<server, link, handshake, recoveryPending, startupTimeout, connected, broadcasts, binder, posts>>
        BY <3>5 DEF OpenRetries
      <4>2. ~[o EXCEPT !.at = "check", !.attempt = @ + 1].current
        BY <3>1 DEF Openers
      <4>. QED  BY <2>1, <2>3, <4>1, <4>2 DEF Opening
    <3>. QED  BY <2>5, <3>2, <3>3, <3>4, <3>5
  <2>6. CASE Callback
    BY <1>3, <2>1, <2>3, <2>6 DEF Callback, ConnectChecked, ConnectTimed, ConnectListed, Disconnected
  <2>7. CASE \/ Recover \/ StartupExpires \/ WorkerStalled \/ HandshakeExpires \/ SessionFails
             \/ Reconcile \/ Refresh
    BY <1>3, <2>1, <2>7 DEF Recover, StartupExpires, WorkerStalled, HandshakeExpires, SessionFails, Reconcile,
                            Refresh
  <2>8. CASE Deliver \/ StackAdvertises \/ PeerConnects \/ LinkEnds \/ PeerVerifies \/ Demand
    BY <1>3, <2>1, <2>2, <2>8 DEF Deliver, StackAdvertises, PeerConnects, LinkEnds, PeerVerifies, Demand
  <2>9. CASE Create
    BY <2>9 DEF Create, Down
  <2>10. CASE SwitchOff
    BY <1>3, <2>1, <2>10 DEF SwitchOff, Announce, Down, Opening
  <2>11. CASE SwitchOn
    BY <1>3, <2>1, <2>3, <2>11 DEF SwitchOn, Announce, Opening
  <2>12. CASE UNCHANGED probeVars
    BY <2>1, <2>3, <2>12 DEF probeVars, Opening
  <2>. QED
    BY <1>1, <2>2, <2>4, <2>5, <2>6, <2>7, <2>8, <2>9, <2>10, <2>11, <2>12 DEF ProbeNext, Open
<1>. QED  BY <1>1, <1>2, <1>3

LEMMA ProbeStep == ASSUME Sound, Down, [ProbeNext]_probeVars PROVE Sound' /\ Down'
<1>1. CASE UNCHANGED probeVars
  <2>1. UNCHANGED <<server, published, pendingServices, pendingService, starting, advertising,
                    advert, adding, openers, registered, orphan, overwritten, broadcasts, posts>>
    BY <1>1 DEF probeVars, radioVars, stackVars, publishVars, startVars, advertVars
  <2>2. posts' \subseteq Posts /\ Results' = Results /\ Reports' = Reports
    BY <2>1 DEF Sound, Typed, Results, Reports
  <2>. QED  BY <2>1, <2>2, PostsSound, DownStep
<1>2. CASE ProbeNext
  <2>1. ASSUME NEW o \in openers, CheckOpener(o) \/ OpenServer(o) \/ OpenFails(o) \/ OpenRetries(o)
        PROVE  Sound'
    BY <2>1, OpenerSound, OpenServerSound
  <2>. QED
    BY <1>2, <2>1, HandleSound, StackAddsSound, BystanderSound, RefreshSound, StackAdvertisesSound,
       SwitchSound, DeliverSound, TimerSound, DownStep DEF ProbeNext, Open
<1>. QED  BY <1>1, <1>2

LEMMA ProbeStart == ProbeInit => Sound /\ Down
<1>. SUFFICES ASSUME ProbeInit PROVE Sound /\ Down
  OBVIOUS
<1>1. /\ Opening = {} /\ Results = {} /\ Reports = {} /\ adding = {} /\ advert = "none"
      /\ pendingService = 0 /\ server = NoServer /\ posts = {} /\ registered = {} /\ orphan = FALSE
  BY DEF ProbeInit, Opening, Results, Reports
<1>2. Typed
  BY LimitsAssumption DEF ProbeInit, Typed
<1>3. OneAttempt /\ Flags /\ Publication /\ Late
  BY <1>1 DEF OneAttempt, Flags, Underway, OnAir, Publication, Late
<1>4. Alive /\ OneAdvertisement /\ LateServersAreClosed /\ Down
  BY <1>1 DEF Alive, OneAdvertisement, LateServersAreClosed, Down, ProbeInit
<1>. QED  BY <1>2, <1>3, <1>4 DEF Sound, Core

LEMMA WholeDatabase == Sound => AdvertisesWholeDatabase
  BY DEF Sound, Core, Flags, OnAir, Publication, Alive, AdvertisesWholeDatabase

-----------------------------------------------------------------------------
(* The types of the fields that none of the properties speaks about. *)

Fields ==
    /\ adapter \in {"off", "turningOn", "on"}
    /\ advert \in {"none", "asked", "onAir"}
    /\ link \in {"none", "up", "closing"}
    /\ orphan \in BOOLEAN /\ up \in BOOLEAN /\ starting \in BOOLEAN /\ advertising \in BOOLEAN
    /\ modeDue \in BOOLEAN /\ startupTimeout \in BOOLEAN /\ recoveryPending \in BOOLEAN
    /\ connected \in BOOLEAN
    /\ handshake \in {"none", "waiting", "verified"}
    /\ streak \in 0..(ProtocollessLimit - 1)
    /\ binder \in {"none", "connect", "checked", "timed", "disconnect"}
    /\ overwritten \subseteq Servers
    /\ disturbed \in 0..MaxDisturbances

\* The handlers' own part of them.
Own ==
    /\ advert \in {"none", "asked", "onAir"}
    /\ link \in {"none", "up", "closing"}
    /\ orphan \in BOOLEAN /\ starting \in BOOLEAN /\ advertising \in BOOLEAN
    /\ modeDue \in BOOLEAN /\ startupTimeout \in BOOLEAN /\ recoveryPending \in BOOLEAN
    /\ connected \in BOOLEAN
    /\ handshake \in {"none", "waiting", "verified"}
    /\ binder \in {"none", "connect", "checked", "timed", "disconnect"}

\* Few disturbances are few after another, and after none.
LEMMA FewDisturbances ==
    ASSUME Fields, Calm \/ Disturb PROVE disturbed' \in 0..MaxDisturbances
  BY LimitsAssumption DEF Fields, Calm, Disturb

LEMMA OwnStop ==
    ASSUME Own, NEW rest, NEW s, Reset(rest, s),
           Launch \/ StoppedStarting(TRUE) \/ StoppedStarting(FALSE)
    PROVE  Own'
<1>1. starting' \in BOOLEAN /\ startupTimeout' \in BOOLEAN /\ recoveryPending' \in BOOLEAN
  BY DEF Launch, StoppedStarting
<1>2. /\ advert' \in {"none", "asked", "onAir"} /\ link' \in {"none", "up", "closing"}
      /\ handshake' \in {"none", "waiting", "verified"}
      /\ binder' \in {"none", "connect", "checked", "timed", "disconnect"}
  BY DEF Own, Reset, OutdateBinder
<1>3. orphan' \in BOOLEAN /\ advertising' \in BOOLEAN /\ modeDue' \in BOOLEAN /\ connected' \in BOOLEAN
  BY DEF Own, Reset
<1>. QED  BY <1>1, <1>2, <1>3 DEF Own

LEMMA OwnFail ==
    ASSUME Own, NEW rest, NEW recover \in BOOLEAN, StopProbe(rest, recover)
    PROVE  Own' /\ UNCHANGED overwritten
<1>1. recover = TRUE \/ recover = FALSE
  OBVIOUS
<1>2. Reset(rest, server) /\ StoppedStarting(recover) /\ UNCHANGED overwritten
  BY DEF StopProbe
<1>3. StoppedStarting(TRUE) \/ StoppedStarting(FALSE)
  BY <1>1, <1>2
<1>. QED  BY <1>2, <1>3, OwnStop

LEMMA OwnRestart ==
    ASSUME Own, NEW rest, Restart(rest)
    PROVE  Own' /\ UNCHANGED overwritten /\ (Calm \/ Disturb)
<1>1. CASE Reset(rest, server) /\ Launch /\ UNCHANGED overwritten /\ Calm
  BY <1>1, OwnStop
<1>2. CASE Disturb /\ FailProbe(rest)
  BY <1>2, OwnFail DEF FailProbe
<1>3. CASE Calm /\ StopProbe(rest, adapter = "turningOn")
  <2>1. (adapter = "turningOn") \in BOOLEAN
    OBVIOUS
  <2>. QED  BY <1>3, <2>1, OwnFail
<1>. QED  BY <1>1, <1>2, <1>3 DEF Restart

LEMMA OwnStart ==
    ASSUME Own, NEW rest, StartProbe(rest)
    PROVE  Own' /\ UNCHANGED overwritten /\ (Calm \/ Disturb)
<1>1. CASE Calm /\ UNCHANGED <<stackVars, publishVars, startVars, advertVars, peerVars,
                               openers, binder, overwritten>>
  BY <1>1 DEF Own, stackVars, startVars, advertVars, peerVars
<1>2. CASE /\ Calm /\ Launch /\ OutdateBinder
           /\ UNCHANGED <<registered, published, advert, orphan, link, publishVars,
                          advertVars, peerVars, overwritten>>
  <2>1. binder' \in {"none", "connect", "checked", "timed", "disconnect"}
    BY <1>2 DEF Own, OutdateBinder
  <2>2. starting' \in BOOLEAN /\ startupTimeout' \in BOOLEAN /\ recoveryPending' \in BOOLEAN
    BY <1>2 DEF Launch
  <2>. QED  BY <1>2, <2>1, <2>2 DEF Own, advertVars, peerVars
<1>3. CASE Disturb /\ FailProbe(rest)
  BY <1>3, OwnFail DEF FailProbe
<1>4. CASE Calm /\ StopProbe(rest, adapter = "turningOn")
  <2>1. (adapter = "turningOn") \in BOOLEAN
    OBVIOUS
  <2>. QED  BY <1>4, <2>1, OwnFail
<1>. QED  BY <1>1, <1>2, <1>3, <1>4 DEF StartProbe

LEMMA OwnAdvertise ==
    ASSUME Own, NEW rest, NEW n, StartAdvertising(rest, n)
    PROVE  Own' /\ (Calm \/ Disturb)
<1>1. CASE /\ Calm /\ starting' = TRUE /\ startupTimeout' = TRUE /\ advert' = "asked"
           /\ orphan' = (orphan \/ advert # "none") /\ modeDue' = FALSE
           /\ UNCHANGED <<link, recoveryPending, advertising, peerVars, binder>>
  <2>1. starting' \in BOOLEAN /\ startupTimeout' \in BOOLEAN /\ orphan' \in BOOLEAN /\ modeDue' \in BOOLEAN
    BY <1>1
  <2>. QED  BY <1>1, <2>1 DEF Own, peerVars
<1>2. CASE (Disturb \/ Calm) /\ FailProbe(rest)
  BY <1>2, OwnFail DEF FailProbe
<1>. QED  BY <1>1, <1>2 DEF StartAdvertising

LEMMA OwnAdd ==
    ASSUME Own, NEW rest, NEW s, NEW n, AddService(rest, s, n)
    PROVE  Own' /\ (Calm \/ Disturb) /\ overwritten' \subseteq overwritten \cup registered
<1>1. overwritten' = overwritten \cup (({server} \ {s, NoServer}) \cap registered)
  BY DEF AddService
<1>2. CASE Calm /\ UNCHANGED <<advert, orphan, link, startVars, advertVars, peerVars, binder>>
  BY <1>1, <1>2 DEF Own, startVars, advertVars, peerVars
<1>3. CASE (IF s \in registered THEN Disturb ELSE Calm) /\ Reset(rest, s) /\ StoppedStarting(TRUE)
  BY <1>1, <1>3, OwnStop
<1>. QED  BY <1>2, <1>3 DEF AddService

\* A handler of the main thread.
LEMMA HandleFields ==
    ASSUME Typed, Fields, NEW p \in posts, Handle(p) \/ LoseCallback(p) PROVE Fields'
<1>0. Own
  BY DEF Fields, Own
<1>1. ASSUME Own', Calm \/ Disturb, overwritten' \subseteq overwritten \cup registered, UNCHANGED OwnVars
      PROVE  Fields'
  <2>1. disturbed' \in 0..MaxDisturbances
    BY <1>1, FewDisturbances
  <2>. QED  BY <1>1, <2>1 DEF Fields, Own, OwnVars, radioVars, Typed
<1>2. CASE Opened(p)
  BY <1>0, <1>1, <1>2, OwnAdd
     DEF Opened, Own, Calm, startVars, advertVars, peerVars
<1>3. CASE ServiceAdded(p)
  <2>1. ASSUME UNCHANGED overwritten PROVE overwritten' \subseteq overwritten \cup registered
    BY <2>1
  <2>2. CASE AddService(posts \ {p}, server, pendingService + 1)
    BY <1>0, <1>1, <1>3, <2>2, OwnAdd DEF ServiceAdded
  <2>3. CASE StartAdvertising(posts \ {p}, 0) /\ UNCHANGED overwritten
    BY <1>0, <1>1, <1>3, <2>1, <2>3, OwnAdvertise DEF ServiceAdded
  <2>4. CASE Disturb /\ FailProbe(posts \ {p})
    BY <1>0, <1>1, <1>3, <2>1, <2>4, OwnFail DEF ServiceAdded, FailProbe
  <2>. QED  BY <1>3, <2>2, <2>3, <2>4 DEF ServiceAdded
<1>4. CASE AdvertStarted(p)
  <2>1. /\ advertising' \in BOOLEAN /\ starting' \in BOOLEAN /\ startupTimeout' \in BOOLEAN
        /\ recoveryPending' \in BOOLEAN
    BY <1>4 DEF AdvertStarted
  <2>2. Own' /\ UNCHANGED <<OwnVars, overwritten, disturbed>>
    BY <1>0, <1>4, <2>1 DEF AdvertStarted, Own, stackVars, peerVars
  <2>. QED  BY <1>1, <2>2 DEF Calm
<1>5. CASE Failed(p)
  BY <1>0, <1>1, <1>5, OwnFail DEF Failed, FailProbe
<1>6. CASE Ignored(p) \/ LoseCallback(p)
  <2>1. UNCHANGED <<stackVars, startVars, advertVars, peerVars, binder, overwritten>>
    BY <1>6 DEF Ignored, LoseCallback, stackRest
  <2>2. Own'
    BY <1>0, <2>1 DEF Own, stackVars, startVars, advertVars, peerVars
  <2>3. (Calm \/ Disturb) /\ UNCHANGED OwnVars
    BY <1>6 DEF Ignored, LoseCallback, stackRest, Calm, OwnVars
  <2>. QED  BY <1>1, <2>1, <2>2, <2>3
<1>7. CASE Start(p)
  BY <1>0, <1>1, <1>7, OwnStart DEF Start
<1>8. CASE Readvertise(p)
  <2>1. CASE StartAdvertising(posts \ {p}, pendingService) /\ UNCHANGED overwritten
    BY <1>0, <1>1, <1>8, <2>1, OwnAdvertise DEF Readvertise
  <2>2. CASE UNCHANGED <<stackVars, startVars, advertVars, peerVars, binder, overwritten, disturbed>>
    <3>1. Own'
      BY <1>0, <2>2 DEF Own, stackVars, startVars, advertVars, peerVars
    <3>. QED  BY <1>1, <1>8, <2>2, <3>1 DEF Readvertise, Calm
  <2>. QED  BY <1>8, <2>1, <2>2 DEF Readvertise
<1>9. CASE ScheduleRecovery(p)
  <2>1. recoveryPending' \in BOOLEAN
    BY <1>9 DEF ScheduleRecovery
  <2>2. Own' /\ UNCHANGED <<OwnVars, overwritten, disturbed>>
    BY <1>0, <1>9, <2>1 DEF ScheduleRecovery, Own, stackVars, peerVars, advertVars
  <2>. QED  BY <1>1, <2>2 DEF Calm
<1>. QED  BY <1>2, <1>3, <1>4, <1>5, <1>6, <1>7, <1>8, <1>9 DEF Handle

\* A connection callback.
LEMMA CallbackFields == ASSUME Fields, Callback PROVE Fields'
<1>1. CASE ConnectChecked \/ ConnectTimed
  <2>1. /\ binder' \in {"none", "connect", "checked", "timed", "disconnect"}
        /\ handshake' \in {"none", "waiting", "verified"}
    BY <1>1 DEF ConnectChecked, ConnectTimed, Fields, peerVars
  <2>2. UNCHANGED <<radioVars, stackVars, up, startVars, advertVars, connected, streak,
                    overwritten, disturbed>>
    BY <1>1 DEF ConnectChecked, ConnectTimed, peerVars
  <2>. QED  BY <2>1, <2>2 DEF Fields, radioVars, stackVars, startVars, advertVars
<1>2. CASE ConnectListed
  <2>1. connected' \in BOOLEAN /\ binder' = "none"
    BY <1>2 DEF ConnectListed
  <2>2. UNCHANGED <<radioVars, stackVars, up, startVars, advertVars, handshake, streak,
                    overwritten, disturbed>>
    BY <1>2 DEF ConnectListed
  <2>. QED  BY <2>1, <2>2 DEF Fields, radioVars, stackVars, startVars, advertVars
<1>3. CASE Disconnected
  <2>1. streak' \in 0..(ProtocollessLimit - 1)
    BY <1>3, LimitsAssumption DEF Disconnected, Fields
  <2>2. connected' \in BOOLEAN /\ binder' = "none" /\ handshake' = "none"
    BY <1>3 DEF Disconnected
  <2>3. UNCHANGED <<radioVars, stackVars, up, startVars, advertVars, overwritten, disturbed>>
    BY <1>3 DEF Disconnected
  <2>. QED  BY <2>1, <2>2, <2>3 DEF Fields, radioVars, stackVars, startVars, advertVars
<1>. QED  BY <1>1, <1>2, <1>3 DEF Callback

\* A thread that opens a server.
LEMMA OpenerFields ==
    ASSUME Fields, NEW o \in openers, CheckOpener(o) \/ OpenServer(o) \/ OpenFails(o) \/ OpenRetries(o)
    PROVE  Fields'
<1>1. UNCHANGED <<radioVars, advert, orphan, link, up, startVars, advertVars, peerVars, streak, binder>>
  BY DEF CheckOpener, OpenServer, OpenFails, OpenRetries, stackVars
<1>2. overwritten' \subseteq overwritten
  BY DEF CheckOpener, OpenServer, OpenFails, OpenRetries
<1>3. Calm \/ Disturb
  BY DEF CheckOpener, OpenServer, OpenFails, OpenRetries, Calm
<1>4. disturbed' \in 0..MaxDisturbances
  BY <1>3, FewDisturbances
<1>. QED  BY <1>1, <1>2, <1>4 DEF Fields, radioVars, startVars, advertVars, peerVars

\* The timers, the watchdog and the service's own life.
LEMMA TimerFields ==
    ASSUME Typed, Fields,
           \/ Recover \/ StartupExpires \/ WorkerStalled \/ HandshakeExpires \/ SessionFails
           \/ Reconcile \/ Refresh \/ Deliver \/ Destroy \/ Create
    PROVE  Fields'
<1>0. Own /\ Fields
  BY DEF Fields, Own
<1>1. ASSUME Own', Calm \/ Disturb, UNCHANGED <<adapter, up, streak, overwritten>>
      PROVE  Fields'
  <2>1. disturbed' \in 0..MaxDisturbances
    BY <1>1, FewDisturbances
  <2>. QED  BY <1>1, <2>1 DEF Fields, Own
<1>2. ASSUME UNCHANGED OwnVars PROVE UNCHANGED <<adapter, up, streak>>
  BY <1>2 DEF OwnVars, radioVars
<1>3. CASE Recover
  <2>1. CASE Restart(posts)
    BY <1>0, <1>1, <1>2, <1>3, <2>1, OwnRestart DEF Recover
  <2>2. CASE /\ recoveryPending' = FALSE
             /\ UNCHANGED <<stackVars, starting, startupTimeout, advertVars, peerVars, binder,
                            overwritten, disturbed>>
    <3>1. recoveryPending' \in BOOLEAN
      BY <2>2
    <3>2. Own'
      BY <1>0, <2>2, <3>1 DEF Own, stackVars, advertVars, peerVars
    <3>. QED  BY <1>1, <1>2, <1>3, <2>2, <3>2 DEF Recover, Calm
  <2>. QED  BY <1>3, <2>1, <2>2 DEF Recover
<1>4. CASE StartupExpires \/ WorkerStalled
  <2>1. FailProbe(posts) /\ (Calm \/ Disturb) /\ UNCHANGED OwnVars
    BY <1>4 DEF StartupExpires, WorkerStalled
  <2>. QED  BY <1>0, <1>1, <1>2, <2>1, OwnFail DEF FailProbe
<1>5. CASE HandshakeExpires \/ SessionFails
  <2>1. link' \in {"none", "up", "closing"} /\ handshake' = "none"
    BY <1>0, <1>5 DEF HandshakeExpires, SessionFails, DisconnectPeer, Own
  <2>2. UNCHANGED <<OwnVars, advert, orphan, startVars, advertVars, connected, binder, overwritten>>
    BY <1>5 DEF HandshakeExpires, SessionFails
  <2>3. Own'
    BY <1>0, <2>1, <2>2 DEF Own, startVars, advertVars
  <2>4. Calm \/ Disturb
    BY <1>5 DEF HandshakeExpires, SessionFails, Calm
  <2>. QED  BY <1>1, <1>2, <2>2, <2>3, <2>4
<1>6. CASE Reconcile
  BY <1>0, <1>1, <1>2, <1>6, OwnRestart DEF Reconcile
<1>7. CASE Refresh
  <2>1. advertising' \in BOOLEAN /\ advert' = "none"
    BY <1>7 DEF Refresh
  <2>2. UNCHANGED <<OwnVars, orphan, link, startVars, modeDue, peerVars, binder, overwritten, disturbed>>
    BY <1>7 DEF Refresh
  <2>3. Own'
    BY <1>0, <2>1, <2>2 DEF Own, startVars, peerVars
  <2>. QED  BY <1>1, <1>2, <2>2, <2>3 DEF Calm
<1>8. CASE Deliver
  <2>1. Own' /\ UNCHANGED overwritten
    <3>1. CASE StopProbe(posts, FALSE)
      BY <1>0, <3>1, OwnFail
    <3>2. CASE UNCHANGED <<stackVars, startVars, advertVars, peerVars, binder, overwritten>>
      BY <1>0, <3>2 DEF Own, stackVars, startVars, advertVars, peerVars
    <3>. QED  BY <1>8, <3>1, <3>2 DEF Deliver
  <2>. QED  BY <1>1, <1>8, <2>1 DEF Deliver, Calm
<1>9. CASE Destroy
  <2>1. Own'
    BY <1>0, <1>9, OwnStop DEF Destroy
  <2>2. up' \in BOOLEAN /\ streak' = 0 /\ Disturb /\ UNCHANGED <<adapter, overwritten>>
    BY <1>9 DEF Destroy
  <2>3. disturbed' \in 0..MaxDisturbances
    BY <2>2, FewDisturbances
  <2>. QED  BY <1>0, <2>1, <2>2, <2>3, LimitsAssumption DEF Fields, Own
<1>10. CASE Create
  <2>1. up' \in BOOLEAN /\ binder' = "none"
    BY <1>10 DEF Create
  <2>2. UNCHANGED <<radioVars, stackVars, startVars, advertVars, peerVars, streak, overwritten, disturbed>>
    BY <1>10 DEF Create
  <2>. QED  BY <1>0, <2>1, <2>2 DEF Fields, radioVars, stackVars, startVars, advertVars, peerVars
<1>. QED  BY <1>3, <1>4, <1>5, <1>6, <1>7, <1>8, <1>9, <1>10

\* The stack, the controller and the user.
LEMMA StackFields ==
    ASSUME Fields,
           \/ \E a \in adding : StackAdds(a)
           \/ StackAdvertises \/ PeerConnects \/ LinkEnds \/ PeerVerifies \/ Demand
           \/ SwitchOff \/ SwitchOn
    PROVE  Fields'
<1>1. Calm \/ Disturb
  BY DEF StackAdds, StackAdvertises, PeerConnects, LinkEnds, PeerVerifies, Demand, SwitchOff, SwitchOn, Calm
<1>2. disturbed' \in 0..MaxDisturbances
  BY <1>1, FewDisturbances
<1>3. CASE (\E a \in adding : StackAdds(a)) \/ StackAdvertises \/ PeerConnects \/ LinkEnds
  <2>1. /\ advert' \in {"none", "asked", "onAir"} /\ link' \in {"none", "up", "closing"}
        /\ binder' \in {"none", "connect", "checked", "timed", "disconnect"}
    BY <1>3 DEF Fields, StackAdds, StackAdvertises, PeerConnects, LinkEnds
  <2>2. UNCHANGED <<stackRest, orphan>>
    BY <1>3 DEF StackAdds, StackAdvertises, PeerConnects, LinkEnds
  <2>. QED  BY <1>2, <2>1, <2>2 DEF Fields, stackRest, radioVars, startVars, advertVars, peerVars
<1>4. CASE PeerVerifies
  BY <1>2, <1>4 DEF PeerVerifies, Fields, radioVars, stackVars, startVars, advertVars
<1>5. CASE Demand
  <2>1. modeDue' \in BOOLEAN
    BY <1>5 DEF Demand, Fields
  <2>2. UNCHANGED <<stackVars, startVars, advertising, peerVars, binder, overwritten, OwnVars>>
    BY <1>5 DEF Demand
  <2>. QED  BY <1>2, <2>1, <2>2 DEF Fields, OwnVars, radioVars, stackVars, startVars, peerVars
<1>6. CASE SwitchOff
  <2>1. orphan' \in BOOLEAN
    BY <1>6 DEF SwitchOff
  <2>2. /\ adapter' = "off" /\ advert' = "none" /\ link' = "none" /\ overwritten' = {}
        /\ UNCHANGED <<up, startVars, advertVars, peerVars, streak, binder>>
    BY <1>6 DEF SwitchOff
  <2>. QED  BY <1>2, <2>1, <2>2 DEF Fields, startVars, advertVars, peerVars
<1>7. CASE SwitchOn
  <2>1. adapter' \in {"off", "turningOn", "on"}
    BY <1>7 DEF SwitchOn
  <2>2. UNCHANGED <<stackVars, up, startVars, advertVars, peerVars, streak, binder, overwritten>>
    BY <1>7 DEF SwitchOn
  <2>. QED  BY <1>2, <2>1, <2>2 DEF Fields, stackVars, startVars, advertVars, peerVars
<1>. QED  BY <1>3, <1>4, <1>5, <1>6, <1>7

LEMMA FieldsStep == ASSUME Sound, Fields, [ProbeNext]_probeVars PROVE Fields'
<1>1. CASE UNCHANGED probeVars
  <2>1. UNCHANGED <<radioVars, stackVars, up, startVars, advertVars, peerVars, streak, binder,
                    overwritten, disturbed>>
    BY <1>1 DEF probeVars
  <2>. QED  BY <2>1 DEF Fields, radioVars, stackVars, startVars, advertVars, peerVars
<1>2. CASE ProbeNext
  <2>1. Typed
    BY DEF Sound
  <2>. QED
    BY <1>2, <2>1, HandleFields, CallbackFields, OpenerFields, TimerFields, StackFields DEF ProbeNext, Open
<1>. QED  BY <1>1, <1>2

LEMMA FieldsStart == ProbeInit => Fields
<1>. SUFFICES ASSUME ProbeInit PROVE Fields
  OBVIOUS
<1>1. /\ orphan \in BOOLEAN /\ up \in BOOLEAN /\ starting \in BOOLEAN /\ advertising \in BOOLEAN
      /\ modeDue \in BOOLEAN /\ startupTimeout \in BOOLEAN /\ recoveryPending \in BOOLEAN
      /\ connected \in BOOLEAN
  BY DEF ProbeInit
<1>2. streak \in 0..(ProtocollessLimit - 1) /\ disturbed \in 0..MaxDisturbances
  BY LimitsAssumption DEF ProbeInit
<1>. QED  BY <1>1, <1>2 DEF Fields, ProbeInit

LEMMA ProbeTyped == Typed /\ Fields => ProbeTypeOK
<1>. SUFFICES ASSUME Typed, Fields PROVE ProbeTypeOK
  OBVIOUS
<1>1. {orphan, up, starting, advertising, modeDue, startupTimeout, recoveryPending, connected}
         \subseteq BOOLEAN
  BY DEF Fields
<1>. QED  BY <1>1 DEF Typed, Fields, ProbeTypeOK, Additions, Openers, Posts

-----------------------------------------------------------------------------
(* The state number. *)

LEMMA AttendedStep == ASSUME NumberTypeOK, Attended, [NumberNext]_gsnVars PROVE Attended'
<1>1. CASE DisconnectRemoves
  BY <1>1 DEF NumberTypeOK, DisconnectRemoves, Attended
<1>2. CASE ConnectAdds \/ ConnectUnmarks \/ DisconnectLooks \/ DisconnectEnds
  BY <1>2 DEF ConnectAdds, ConnectUnmarks, DisconnectLooks, DisconnectEnds, Running, BinderIdle, Attended
<1>3. ASSUME NEW d \in Devices, LinkUp(d) \/ LinkDown(d) PROVE Attended'
  BY <1>3 DEF LinkUp, LinkDown, Running, Attended
<1>4. CASE UNCHANGED numberBinder
  BY <1>4 DEF Attended
<1>5. CASE Observe \/ Poll
  BY <1>4, <1>5 DEF Observe, Poll, LookConnected, LookMarked, Count, Mark, PostRefresh, PollerRest
<1>6. CASE Publish \/ NumberOnAir \/ NumberRefresh \/ NumberReadvertise
  BY <1>4, <1>6 DEF Publish, NumberOnAir, NumberRefresh, NumberReadvertise, MainRest
<1>7. CASE HealthRestart \/ OtherRestart \/ UNCHANGED gsnVars
  BY <1>4, <1>7 DEF HealthRestart, OtherRestart, NumberRestart, gsnVars
<1>. QED  BY <1>1, <1>2, <1>3, <1>5, <1>6, <1>7 DEF NumberNext, NumberCallback

LEMMA NumberTyped == ASSUME NumberTypeOK, Attended, [NumberNext]_gsnVars PROVE NumberTypeOK'
<1>. DEFINE Polls == [at : {"idle", "connected?", "marked?", "count", "mark", "refresh"},
                      connected : BOOLEAN]
            Runs == [at : {"idle", "add", "unmark", "look", "remove", "removeThenRefresh",
                           "end", "endThenRefresh"},
                     dev : Devices \cup {NoDevice}]
<1>1. CASE Observe \/ LookConnected \/ LookMarked \/ Mark \/ PostRefresh
  <2>0. ASSUME NEW at \in {"idle", "connected?", "marked?", "count", "mark", "refresh"},
               NEW c \in BOOLEAN
        PROVE  Polling(at, c) \in Polls
    BY <2>0 DEF Polling
  <2>1. poller' \in Polls
    <3>1. CASE Observe
      BY <2>0, <3>1 DEF Observe
    <3>2. CASE LookConnected
      BY <2>0, <3>2 DEF LookConnected
    <3>3. CASE LookMarked
      BY <2>0, <3>3 DEF LookMarked, PollerIdle, NumberTypeOK
    <3>4. CASE Mark
      BY <2>0, <3>4 DEF Mark, NumberTypeOK
    <3>5. CASE PostRefresh
      BY <2>0, <3>5 DEF PostRefresh, PollerIdle
    <3>. QED  BY <1>1, <3>1, <3>2, <3>3, <3>4, <3>5
  <2>2. marked' \in BOOLEAN /\ refreshes' \in BOOLEAN
    BY <1>1 DEF NumberTypeOK, Observe, LookConnected, LookMarked, Mark, PostRefresh, numberVars
  <2>3. UNCHANGED <<gsn, bumps, PollerRest>>
    BY <1>1 DEF Observe, LookConnected, LookMarked, Mark, PostRefresh, numberVars
  <2>. QED  BY <2>1, <2>2, <2>3 DEF NumberTypeOK, PollerRest, numberAdvert
<1>2. CASE Count
  <2>1. poller' \in Polls
    BY <1>2 DEF NumberTypeOK, Count, Polling
  <2>2. gsn' \in 1..MaxGsn
    BY <1>2, MaxAssumption DEF NumberTypeOK, Count
  <2>3. bumps' \in [Devices -> 0..2]
    BY <1>2 DEF NumberTypeOK, Count
  <2>. QED  BY <1>2, <2>1, <2>2, <2>3 DEF NumberTypeOK, Count, PollerRest, numberAdvert
<1>3. CASE NumberCallback \/ \E d \in Devices : LinkUp(d) \/ LinkDown(d)
  <2>1. numberBinder' \in Runs
    <3>1. CASE DisconnectRemoves
      BY <3>1 DEF NumberTypeOK, DisconnectRemoves
    <3>2. CASE ConnectAdds \/ ConnectUnmarks \/ DisconnectLooks \/ DisconnectEnds
      BY <3>2 DEF NumberTypeOK, ConnectAdds, ConnectUnmarks, DisconnectLooks, DisconnectEnds,
                  Running, BinderIdle
    <3>3. ASSUME NEW d \in Devices, LinkUp(d) \/ LinkDown(d) PROVE numberBinder' \in Runs
      BY <3>3 DEF NumberTypeOK, LinkUp, LinkDown, Running
    <3>. QED  BY <1>3, <3>1, <3>2, <3>3 DEF NumberCallback
  <2>2. numberConnected' \subseteq Devices
    <3>1. CASE ConnectAdds
      BY <3>1 DEF NumberTypeOK, ConnectAdds, Attended
    <3>2. CASE ~ConnectAdds
      BY <1>3, <3>2 DEF NumberTypeOK, NumberCallback, ConnectUnmarks, DisconnectLooks,
                        DisconnectRemoves, DisconnectEnds, LinkUp, LinkDown
    <3>. QED  BY <3>1, <3>2
  <2>3. bumps' \in [Devices -> 0..2]
    BY <1>3 DEF NumberTypeOK, NumberCallback, ConnectAdds, ConnectUnmarks, DisconnectLooks,
                DisconnectRemoves, DisconnectEnds, LinkUp, LinkDown
  <2>4. links' \subseteq Devices /\ marked' \in BOOLEAN /\ refreshes' \in BOOLEAN /\ missed' \in BOOLEAN
    BY <1>3 DEF NumberTypeOK, NumberCallback, ConnectAdds, ConnectUnmarks, DisconnectLooks,
                DisconnectRemoves, DisconnectEnds, LinkUp, LinkDown
  <2>5. UNCHANGED BinderRest
    BY <1>3 DEF NumberCallback, ConnectAdds, ConnectUnmarks, DisconnectLooks, DisconnectRemoves,
                DisconnectEnds, LinkUp, LinkDown
  <2>. QED  BY <2>1, <2>2, <2>3, <2>4, <2>5 DEF NumberTypeOK, BinderRest, numberAdvert
<1>4. CASE Publish \/ NumberOnAir \/ NumberRefresh \/ NumberReadvertise
  <2>1. payload' \in 0..MaxGsn /\ radio' \in {"down", "starting", "advertising", "window"}
    BY <1>4, MaxAssumption
       DEF NumberTypeOK, Publish, NumberOnAir, NumberRefresh, NumberReadvertise, numberAdvert
  <2>3. refreshes' \in BOOLEAN /\ missed' \in BOOLEAN
    BY <1>4 DEF NumberTypeOK, Publish, NumberOnAir, NumberRefresh, NumberReadvertise
  <2>4. readvertise' \in BOOLEAN
    BY <1>4 DEF NumberTypeOK, Publish, NumberOnAir, NumberRefresh, NumberReadvertise, numberAdvert
  <2>2. UNCHANGED <<restarts, MainRest>>
    BY <1>4 DEF Publish, NumberOnAir, NumberRefresh, NumberReadvertise
  <2>. QED  BY <2>1, <2>2, <2>3, <2>4 DEF NumberTypeOK, MainRest, numberVars
<1>5. CASE HealthRestart \/ OtherRestart
  <2>1. restarts' \in 0..MaxRestarts
    BY <1>5, MaxAssumption DEF NumberTypeOK, HealthRestart, OtherRestart
  <2>2. NumberRestart
    BY <1>5 DEF HealthRestart, OtherRestart
  <2>3. payload' \in 0..MaxGsn /\ radio' \in {"down", "starting", "advertising", "window"}
    BY <2>2, MaxAssumption DEF NumberRestart
  <2>4. marked' \in BOOLEAN /\ numberConnected' \subseteq Devices /\ links' \subseteq Devices
    BY <2>2 DEF NumberRestart
  <2>5. UNCHANGED <<gsn, bumps, readvertise, poller, numberBinder, refreshes, missed>>
    BY <2>2 DEF NumberRestart
  <2>. QED  BY <2>1, <2>3, <2>4, <2>5 DEF NumberTypeOK
<1>6. CASE UNCHANGED gsnVars
  BY <1>6 DEF NumberTypeOK, gsnVars, numberVars, numberAdvert
<1>. QED  BY <1>1, <1>2, <1>3, <1>4, <1>5, <1>6 DEF NumberNext, Poll

\* Due is kept: whoever takes away the last thing that would bring the number
\* into the advertisement leaves another, or the history that says so.
LEMMA NumberStep == ASSUME NumberTypeOK, Due, [NumberNext]_gsnVars PROVE Due'
<1>1. CASE Observe \/ LookConnected \/ LookMarked \/ Mark \/ PostRefresh
  <2>1. poller.at \in {"mark", "refresh"} => refreshes' \/ poller'.at \in {"mark", "refresh"}
    BY <1>1 DEF Observe, LookConnected, LookMarked, Mark, PostRefresh, Polling, PollerIdle
  <2>2. UNCHANGED <<gsn, numberConnected, radio, payload, numberBinder, missed>>
    BY <1>1 DEF Observe, LookConnected, LookMarked, Mark, PostRefresh, numberVars, PollerRest, numberAdvert
  <2>3. refreshes => refreshes'
    BY <1>1 DEF Observe, LookConnected, LookMarked, Mark, PostRefresh
  <2>. QED  BY <2>1, <2>2, <2>3 DEF Due
<1>2. CASE Count
  BY <1>2 DEF Count, Polling, Due
<1>3. CASE DisconnectRemoves
  <2>1. /\ numberBinder.at = "removeThenRefresh" => numberBinder'.at = "endThenRefresh"
        /\ numberBinder.at \in {"remove", "removeThenRefresh"}
        /\ UNCHANGED <<gsn, radio, payload, poller, refreshes>>
        /\ missed' = (missed \/ (numberBinder.at = "remove" /\ payload # gsn))
    BY <1>3 DEF NumberTypeOK, DisconnectRemoves, BinderRest, numberAdvert
  <2>. QED  BY <2>1 DEF Due
<1>4. CASE ConnectAdds \/ ConnectUnmarks \/ DisconnectLooks \/ DisconnectEnds
  <2>1. /\ UNCHANGED <<gsn, radio, payload, poller, missed>>
        /\ numberConnected \subseteq numberConnected'
    BY <1>4 DEF ConnectAdds, ConnectUnmarks, DisconnectLooks, DisconnectEnds, BinderRest, numberAdvert
  <2>2. (refreshes => refreshes') /\ (numberBinder.at = "endThenRefresh" => refreshes')
    <3>1. CASE DisconnectEnds
      <4>1. refreshes' = (refreshes \/ numberBinder.at = "endThenRefresh")
        BY <3>1 DEF DisconnectEnds
      <4>. QED  BY <4>1
    <3>2. CASE ConnectAdds \/ ConnectUnmarks \/ DisconnectLooks
      <4>1. refreshes' = refreshes
        BY <3>2 DEF ConnectAdds, ConnectUnmarks, DisconnectLooks
      <4>2. numberBinder.at # "endThenRefresh"
        BY <3>2 DEF ConnectAdds, ConnectUnmarks, DisconnectLooks
      <4>. QED  BY <4>1, <4>2
    <3>. QED  BY <1>4, <3>1, <3>2
  <2>. QED  BY <2>1, <2>2 DEF Due
<1>5. ASSUME NEW d \in Devices, LinkUp(d) \/ LinkDown(d) PROVE Due'
  <2>1. /\ UNCHANGED <<gsn, radio, payload, poller, missed, numberConnected, refreshes>>
        /\ numberBinder.at # "endThenRefresh"
    BY <1>5 DEF LinkUp, LinkDown, BinderRest, numberAdvert, BinderIdle, Running
  <2>. QED  BY <2>1 DEF Due
<1>6. CASE Publish \/ NumberReadvertise
  <2>1. \/ payload' = gsn'
        \/ radio' \notin {"starting", "advertising"}
        \/ UNCHANGED <<gsn, radio, payload, poller, missed, numberConnected, refreshes, numberBinder>>
    BY <1>6 DEF Publish, NumberReadvertise, MainRest, numberVars
  <2>. QED  BY <2>1 DEF Due
<1>7. CASE NumberOnAir
  BY <1>7 DEF NumberOnAir, MainRest, numberVars, Due
<1>8. CASE NumberRefresh
  <2>1. CASE radio = "advertising" /\ numberConnected = {}
    BY <1>8, <2>1 DEF NumberRefresh, Due
  <2>2. CASE ~(radio = "advertising" /\ numberConnected = {})
    BY <1>8, <2>2 DEF NumberRefresh, numberAdvert, MainRest, numberVars, Due
  <2>. QED  BY <2>1, <2>2
<1>9. CASE HealthRestart \/ OtherRestart
  BY <1>9 DEF HealthRestart, OtherRestart, NumberRestart, Due
<1>10. CASE UNCHANGED gsnVars
  BY <1>10 DEF gsnVars, numberVars, numberAdvert, Due
<1>. QED  BY <1>1, <1>2, <1>3, <1>4, <1>5, <1>6, <1>7, <1>8, <1>9, <1>10
          DEF NumberNext, Poll, NumberCallback

LEMMA NumberStart == NumberInit => NumberTypeOK /\ Attended /\ Due
<1>. SUFFICES ASSUME NumberInit PROVE NumberTypeOK /\ Attended /\ Due
  OBVIOUS
<1>1. poller \in [at : {"idle", "connected?", "marked?", "count", "mark", "refresh"},
                  connected : BOOLEAN]
  BY DEF NumberInit, PollerIdle, Polling
<1>2. numberBinder \in [at : {"idle", "add", "unmark", "look", "remove", "removeThenRefresh",
                              "end", "endThenRefresh"},
                        dev : Devices \cup {NoDevice}]
  BY DEF NumberInit, BinderIdle, Running
<1>3. bumps \in [Devices -> 0..2]
  BY DEF NumberInit
<1>4. gsn \in 1..MaxGsn /\ payload \in 0..MaxGsn /\ restarts \in 0..MaxRestarts
  BY MaxAssumption DEF NumberInit
<1>5. marked \in BOOLEAN /\ readvertise \in BOOLEAN /\ refreshes \in BOOLEAN /\ missed \in BOOLEAN
  BY DEF NumberInit
<1>6. numberConnected = {} /\ links = {} /\ radio = "down"
  BY DEF NumberInit
<1>7. NumberTypeOK
  BY <1>1, <1>2, <1>3, <1>4, <1>5, <1>6 DEF NumberTypeOK
<1>8. Attended
  BY DEF NumberInit, Attended, BinderIdle, Running
<1>9. Due
  BY <1>6 DEF Due
<1>. QED  BY <1>7, <1>8, <1>9

LEMMA NotDue == Due => StaleOnlyIfMissed
  BY DEF Due, StaleOnlyIfMissed, Quiet, Stale, PollerIdle, Polling, BinderIdle, Running

-----------------------------------------------------------------------------
(* Both parts. *)

\* Both parts' invariants.
IInv == Sound /\ Down /\ Fields /\ NumberTypeOK /\ Attended /\ Due

LEMMA Inductive == Spec => []IInv
<1>1. Init => IInv
  BY ProbeStart, FieldsStart, NumberStart DEF Init, IInv
<1>2. IInv /\ [Next]_runtimeVars => IInv'
  <2>. SUFFICES ASSUME IInv, [Next]_runtimeVars PROVE IInv'
    OBVIOUS
  <2>1. CASE Publishing \/ UNCHANGED runtimeVars
    <3>1. [ProbeNext]_probeVars /\ UNCHANGED gsnVars
      BY <2>1 DEF Publishing, runtimeVars
    <3>2. Sound' /\ Down' /\ Fields'
      BY <3>1, ProbeStep, FieldsStep DEF IInv
    <3>3. NumberTypeOK' /\ Attended' /\ Due'
      BY <3>1, NumberTyped, AttendedStep, NumberStep DEF IInv
    <3>. QED  BY <3>2, <3>3 DEF IInv
  <2>2. CASE Numbering
    <3>1. [NumberNext]_gsnVars /\ UNCHANGED probeVars
      BY <2>2 DEF Numbering
    <3>2. Sound' /\ Down' /\ Fields'
      BY <3>1, ProbeStep, FieldsStep DEF IInv
    <3>3. NumberTypeOK' /\ Attended' /\ Due'
      BY <3>1, NumberTyped, AttendedStep, NumberStep DEF IInv
    <3>. QED  BY <3>2, <3>3 DEF IInv
  <2>. QED  BY <2>1, <2>2 DEF Next
<1>. QED  BY <1>1, <1>2, PTL DEF Spec

\* Every field of HomeKitRuntime keeps its type; in particular the state number
\* wraps to 1 and is never 0.
THEOREM TypeCorrect == Spec => []TypeOK
<1>1. IInv => TypeOK
  BY ProbeTyped DEF IInv, Sound, TypeOK
<1>. QED  BY <1>1, Inductive, PTL

\* What the GATT callbacks, the threads that open servers, the timers and the
\* Bluetooth switch do in any order: HomeKitRuntime advertises only while its
\* server lives and every service has been added to it
\* (startAdvertisingAfterGattPublished).
THEOREM WholeDatabaseAdvertised == Spec => []AdvertisesWholeDatabase
<1>1. IInv => AdvertisesWholeDatabase
  BY WholeDatabase DEF IInv
<1>. QED  BY <1>1, Inductive, PTL

\* The advertise callback is given up before the next start, so no
\* advertisement runs that no stopAdvertising can reach.
THEOREM OneAdvertisementRuns == Spec => []OneAdvertisement
<1>1. IInv => OneAdvertisement
  BY DEF IInv, Sound
<1>. QED  BY <1>1, Inductive, PTL

\* A server that is opened after its attempt has been given up is closed by
\* its own result, or is on the way to be, or is the one that a second result
\* took the place of.
THEOREM LateServersClose == Spec => []LateServersAreClosed
<1>1. IInv => LateServersAreClosed
  BY DEF IInv, Sound
<1>. QED  BY <1>1, Inductive, PTL

\* refreshAdvertisementWithCurrentState loses a number only while advertising
\* starts, and onConnectionStateChange only when it looked before the poller
\* set its mark, however often the number wraps and the probe restarts.
THEOREM NumberStaleOnlyIfMissed == Spec => []StaleOnlyIfMissed
<1>1. IInv => StaleOnlyIfMissed
  BY NotDue DEF IInv
<1>. QED  BY <1>1, Inductive, PTL
=============================================================================
