-------------------------- MODULE WebServer_proof --------------------------
(***************************************************************************)
(* Theorems about the web server: the users' file, the answers of the      *)
(* legacy gateway, the sessions' files with the chats that are persisted   *)
(* in them, what the requests cost, the readers of event streams, the      *)
(* parser of thoughts, and the statistics of the trace file.               *)
(***************************************************************************)
EXTENDS UserStore, LegacyProxy, ChatRoute, CostGovernance, LineStreams, ThinkParser,
        TraceStats, SequenceTheorems, FiniteSetTheorems, FunctionTheorems, WellFoundedInduction, TLAPS

----------------------------------------------------------------------------
(***************************************************************************)
(* No address belongs to two users, for any requests and any addresses.    *)
(* What is in the file and what waits to be written are lists of one kind: *)
(* records of users with addresses that differ.  Every request prepares    *)
(* such a list from such a list, and every write puts one prepared earlier *)
(* into the file, so that no order of the writes can mix two of them.      *)
(***************************************************************************)

IsUser(u) == u = [id |-> u.id, email |-> u.email, active |-> u.active]

Sound(us) ==
    /\ \A u \in us : IsUser(u)
    /\ \A u, v \in us : u.email = v.email => u = v

IsRequest(q) == q = [at |-> q.at, writes |-> q.writes]

UsersInd ==
    /\ Sound(users)
    /\ DOMAIN request = Requests
    /\ \A r \in Requests : IsRequest(request[r]) /\ Sound(request[r].writes)

\* A user with an address nobody has may be added.
LEMMA AddsUser ==
    ASSUME NEW us, Sound(us), NEW id, NEW email, \A u \in us : u.email # email
    PROVE  Sound(us \cup {[id |-> id, email |-> email, active |-> TRUE]})
<1> DEFINE new == [id |-> id, email |-> email, active |-> TRUE]
<1>1. IsUser(new) /\ new.email = email
  BY DEF IsUser
<1> HIDE DEF new
<1>2. Sound(us \cup {new})
  BY <1>1 DEF Sound
<1> QED
  BY <1>2 DEF new

\* Switching users on and off leaves their addresses alone.
Switched(u, id, active) == IF u.id = id THEN [u EXCEPT !.active = active] ELSE u

LEMMA SwitchKeepsAddress ==
    ASSUME NEW u, IsUser(u), NEW id, NEW active
    PROVE  IsUser(Switched(u, id, active)) /\ Switched(u, id, active).email = u.email
<1>1. Switched(u, id, active) = [id |-> u.id, email |-> u.email,
                                 active |-> IF u.id = id THEN active ELSE u.active]
  BY DEF Switched, IsUser
<1> QED
  BY <1>1 DEF IsUser

LEMMA SwitchesUser ==
    ASSUME NEW us, Sound(us), NEW id, NEW active
    PROVE  Sound({Switched(u, id, active) : u \in us})
<1>1. \A u \in us : IsUser(Switched(u, id, active)) /\ Switched(u, id, active).email = u.email
  BY SwitchKeepsAddress DEF Sound
<1> QED
  BY <1>1 DEF Sound

\* A request that ends waits to write nothing, which is sound.
LEMMA NothingIsSound == Sound({})
BY DEF Sound

LEMMA UsersStart == UsersInit => UsersInd
BY NothingIsSound DEF UsersInit, UsersInd, Sound, IsUser, IsRequest, Admin

\* One request prepares a sound list, and the others keep theirs.
LEMMA UsersPrepared ==
    ASSUME UsersInd, NEW r \in Requests, NEW at, NEW us, Sound(us), UNCHANGED users,
           request' = [request EXCEPT ![r] = [at |-> at, writes |-> us]]
    PROVE  UsersInd'
BY DEF UsersInd, Sound, IsUser, IsRequest

LEMMA UsersStep == UsersInd /\ [UsersNext]_userVars => UsersInd'
<1> SUFFICES ASSUME UsersInd, [UsersNext]_userVars PROVE UsersInd'
  OBVIOUS
<1>1. CASE UNCHANGED userVars
  BY <1>1 DEF UsersInd, Sound, IsUser, IsRequest, userVars
<1>2. ASSUME NEW r \in Requests, NEW email \in Emails, CreateUser(r, email) PROVE UsersInd'
  <2>1. CASE RequestEnds(r)
    BY <1>2, <2>1, NothingIsSound, UsersPrepared DEF CreateUser, RequestEnds
  <2>2. CASE ~RequestEnds(r)
    <3>1. \A u \in users : u.email # email
      BY <1>2, <2>2 DEF CreateUser
    <3>2. PICK id : PreparesUsers(r, users \cup {[id |-> id, email |-> email, active |-> TRUE]})
      BY <1>2, <2>2 DEF CreateUser
    <3>3. Sound(users \cup {[id |-> id, email |-> email, active |-> TRUE]})
      BY <3>1, AddsUser DEF UsersInd
    <3> QED
      BY <1>2, <3>2, <3>3, UsersPrepared DEF CreateUser, PreparesUsers
  <2> QED
    BY <2>1, <2>2
<1>3. ASSUME NEW r \in Requests, NEW u \in users, NEW active \in BOOLEAN,
             SetUserActive(r, u.id, active)
      PROVE  UsersInd'
  <2>1. CASE RequestEnds(r)
    BY <1>3, <2>1, NothingIsSound, UsersPrepared DEF SetUserActive, RequestEnds
  <2>2. CASE ~RequestEnds(r)
    <3>1. PreparesUsers(r, {Switched(v, u.id, active) : v \in users})
      BY <1>3, <2>2 DEF SetUserActive, Switched
    <3>2. Sound({Switched(v, u.id, active) : v \in users})
      BY SwitchesUser DEF UsersInd
    <3> QED
      BY <1>3, <3>1, <3>2, UsersPrepared DEF SetUserActive, PreparesUsers
  <2> QED
    BY <2>1, <2>2
<1>4. ASSUME NEW r \in Requests, TruncatesUsers(r) PROVE UsersInd'
  <2>1. \A o \in Requests : IsRequest(request'[o]) /\ request'[o].writes = request[o].writes
    BY <1>4 DEF TruncatesUsers, UsersInd, IsRequest
  <2> QED
    BY <1>4, <2>1 DEF TruncatesUsers, UsersInd, Sound, IsUser
<1>5. ASSUME NEW r \in Requests, WritesUsers(r) PROVE UsersInd'
  <2>1. Sound(users')
    BY <1>5 DEF WritesUsers, UsersInd
  <2>2. \A o \in Requests : IsRequest(request'[o])
                            /\ request'[o].writes \in {{}, request[o].writes}
    <3> SUFFICES ASSUME NEW o \in Requests
                 PROVE  /\ IsRequest(request'[o])
                        /\ request'[o].writes \in {{}, request[o].writes}
      OBVIOUS
    <3>1. CASE o = r
      BY <1>5, <3>1 DEF WritesUsers, IsRequest
    <3>2. CASE o # r /\ request[o].at = "writing"
      <4>1. request'[o] = [request[o] EXCEPT !.at = "overwriting"]
        BY <1>5, <3>2 DEF WritesUsers
      <4>2. request[o] = [at |-> request[o].at, writes |-> request[o].writes]
        BY DEF UsersInd, IsRequest
      <4>3. request'[o] = [at |-> "overwriting", writes |-> request[o].writes]
        BY <4>1, <4>2
      <4> QED
        BY <4>3 DEF IsRequest
    <3>3. CASE o # r /\ request[o].at # "writing"
      BY <1>5, <3>3 DEF WritesUsers, UsersInd
    <3> QED
      BY <3>1, <3>2, <3>3
  <2>3. \A o \in Requests : Sound(request'[o].writes)
    BY <2>2, NothingIsSound DEF UsersInd
  <2>4. DOMAIN request' = Requests
    BY <1>5 DEF WritesUsers
  <2> QED
    BY <2>1, <2>2, <2>3, <2>4 DEF UsersInd, Sound, IsUser, IsRequest
<1> QED
  BY <1>1, <1>2, <1>3, <1>4, <1>5 DEF UsersNext

(* EmailsUnique is an invariant, whatever requests of administrators interleave at the
   reads and writes of createUser and setUserActive. *)
THEOREM AddressesUnique == UsersSpec => []EmailsUnique
<1>1. UsersInd => EmailsUnique
  BY DEF UsersInd, Sound, EmailsUnique
<1> QED
  BY <1>1, UsersStart, UsersStep, PTL DEF UsersSpec

----------------------------------------------------------------------------
(***************************************************************************)
(* One answer per request of the legacy gateway, for any requests and      *)
(* conversations.  AnsweredOnce says nothing of what is still to be        *)
(* written; Written does, place by place, and that is what every await     *)
(* that may throw finds when it reaches the catch block.                   *)
(***************************************************************************)

Waiting == {"idle", "init", "fetching", "body"}   \* nothing is written yet
Headed  == {"error", "piping"}                    \* the head is
Places  == Waiting \cup Headed \cup {"passed", "over"}

GetRecords   == [at : Places, route : Routes \cup {"none"}, dialog : Dialogs \cup {"none"}]
ReplyRecords == [heads : Nat, ends : Nat, open : BOOLEAN]

ProxyTypes == get \in [Gets -> GetRecords] /\ reply \in [Gets -> ReplyRecords]

\* What was written to a response whose request is at a place.
Fits(place, r) ==
    /\ place \in Waiting => r.heads = 0 /\ r.ends = 0
    /\ place \in Headed  => r.heads = 1 /\ r.ends = 0
    /\ place = "passed"  => r.heads <= 1 /\ r.ends <= r.heads
    /\ place = "over"    => r.heads = 1 /\ r.ends = 1

Written == \A g \in Gets : Fits(get[g].at, reply[g])

Initialised ==
    \A g \in Gets : get[g].route = "rag" /\ get[g].at \in {"fetching", "body"}
                       => get[g].dialog \in initialized

ProxyInd == ProxyTypes /\ Written /\ Initialised

LEMMA ProxyStart == ProxyInit => ProxyInd
BY DEF ProxyInit, ProxyInd, ProxyTypes, Written, Initialised, Fits, GetRecords, ReplyRecords, Places,
       Waiting, Headed

\* A step of one request keeps the invariant if it does for that request.
LEMMA OneRequest ==
    ASSUME ProxyInd, NEW g \in Gets, NEW q \in GetRecords, NEW r \in ReplyRecords,
           get' = [get EXCEPT ![g] = q], reply' = [reply EXCEPT ![g] = r],
           initialized \subseteq initialized', Fits(q.at, r),
           q.route = "rag" /\ q.at \in {"fetching", "body"} => q.dialog \in initialized'
    PROVE  ProxyInd'
<1>1. ProxyTypes'
  BY DEF ProxyInd, ProxyTypes
<1>2. Written'
  BY DEF ProxyInd, ProxyTypes, Written
<1>3. Initialised'
  BY DEF ProxyInd, ProxyTypes, Initialised
<1> QED
  BY <1>1, <1>2, <1>3 DEF ProxyInd

\* A request that moves on, and writes r.
LEMMA RequestMoves ==
    ASSUME ProxyInd, NEW g \in Gets, NEW where \in Places, NEW r \in ReplyRecords,
           At(g, where), reply' = [reply EXCEPT ![g] = r],
           initialized \subseteq initialized', Fits(where, r),
           get[g].route = "rag" /\ where \in {"fetching", "body"} => get[g].dialog \in initialized'
    PROVE  ProxyInd'
<1> DEFINE q == [get[g] EXCEPT !.at = where]
<1>1. get[g] \in GetRecords
  BY DEF ProxyInd, ProxyTypes
<1>2. q \in GetRecords /\ q.at = where /\ q.route = get[g].route /\ q.dialog = get[g].dialog
  BY <1>1 DEF GetRecords
<1>3. get' = [get EXCEPT ![g] = q]
  BY DEF At
<1> HIDE DEF q
<1> QED
  BY <1>2, <1>3, OneRequest

\* A response that is complete is over.
LEMMA RequestOver ==
    ASSUME ProxyInd, NEW g \in Gets, NEW r \in ReplyRecords, Replies(g, r), r.heads = 1, r.ends = 1
    PROVE  ProxyInd'
<1>1. Fits("over", r) /\ "over" \in Places
  BY DEF Fits, Places, Waiting, Headed
<1> QED
  BY <1>1, RequestMoves DEF Replies

\* What the helpers write.
LEMMA HeadWritten ==
    ASSUME NEW r \in ReplyRecords
    PROVE  /\ WriteHead(r) \in ReplyRecords
           /\ WriteHead(r).heads = r.heads + 1 /\ WriteHead(r).ends = r.ends
           /\ End(r) \in ReplyRecords
           /\ End(r).heads = r.heads /\ End(r).ends = r.ends + 1
           /\ HeadUnlessSent(r) \in ReplyRecords
           /\ HeadUnlessSent(r).ends = r.ends
           /\ HeadUnlessSent(r).heads = IF r.heads = 0 THEN 1 ELSE r.heads
BY DEF WriteHead, End, HeadUnlessSent, ReplyRecords

LEMMA ProxiesStep ==
    ASSUME ProxyInd, NEW g \in Gets, Proxies(g)
    PROVE  ProxyInd'
<1> DEFINE r == reply[g]
<1>0. /\ get[g] \in GetRecords /\ r \in ReplyRecords /\ Fits(get[g].at, r)
      /\ reply = [reply EXCEPT ![g] = r]
      /\ r.heads \in Nat /\ r.ends \in Nat
  BY DEF ProxyInd, ProxyTypes, Written, ReplyRecords
<1>1. CASE Arrives(g)
  <2>1. PICK route \in Routes, d \in Dialogs :
           /\ get[g].at = "idle"
           /\ get' = [get EXCEPT ![g] =
                 [route |-> route, dialog |-> d,
                  at |-> CASE route \in {"options", "forbidden"}     -> "over"
                           [] route = "passed"                       -> "passed"
                           [] route = "rag" /\ d \notin initialized  -> "init"
                           [] OTHER                                  -> "fetching"]]
           /\ reply' = IF route \in {"options", "forbidden"}
                         THEN [reply EXCEPT ![g] = End(WriteHead(@))] ELSE reply
           /\ UNCHANGED initialized
    BY <1>1 DEF Arrives
  <2> DEFINE place == CASE route \in {"options", "forbidden"}     -> "over"
                        [] route = "passed"                       -> "passed"
                        [] route = "rag" /\ d \notin initialized  -> "init"
                        [] OTHER                                  -> "fetching"
             q == [route |-> route, dialog |-> d, at |-> place]
             w == IF route \in {"options", "forbidden"} THEN End(WriteHead(r)) ELSE r
  <2>2. r.heads = 0 /\ r.ends = 0
    BY <1>0, <2>1 DEF Fits, Waiting
  <2>3. place \in {"over", "passed", "init", "fetching"}
    OBVIOUS
  <2>4. q \in GetRecords
    BY <2>3 DEF GetRecords, Places, Waiting, Headed
  <2>5. w \in ReplyRecords /\ Fits(place, w)
    BY <1>0, <2>2, HeadWritten DEF Fits, Waiting, Headed, Routes
  <2>6. get' = [get EXCEPT ![g] = q] /\ reply' = [reply EXCEPT ![g] = w]
    BY <1>0, <2>1
  <2>7. q.route = "rag" /\ q.at \in {"fetching", "body"} => q.dialog \in initialized'
    BY <2>1
  <2>8. q.at = place /\ UNCHANGED initialized
    BY <2>1
  <2> HIDE DEF q, w, place
  <2> QED
    BY <2>4, <2>5, <2>6, <2>7, <2>8, OneRequest
<1>2. CASE InitReturns(g)
  <2>1. Fits("fetching", r) /\ "fetching" \in Places
    BY <1>0, <1>2 DEF InitReturns, Fits, Waiting, Headed, Places
  <2> QED
    BY <1>0, <1>2, <2>1, RequestMoves DEF InitReturns
<1>3. CASE InitRefused(g)
  <2>1. r.heads = 0 /\ r.ends = 0
    BY <1>0, <1>3 DEF InitRefused, Fits, Waiting
  <2> QED
    BY <1>0, <1>3, <2>1, HeadWritten, RequestOver DEF InitRefused
<1>4. CASE Fetched(g)
  <2>1. r.heads = 0 /\ r.ends = 0 /\ get[g].at = "fetching"
    BY <1>0, <1>4 DEF Fetched, Fits, Waiting
  <2>2. CASE At(g, "error") /\ reply' = [reply EXCEPT ![g] = WriteHead(r)]
    <3>1. Fits("error", WriteHead(r)) /\ "error" \in Places /\ WriteHead(r) \in ReplyRecords
      BY <1>0, <2>1, HeadWritten DEF Fits, Waiting, Headed, Places
    <3> QED
      BY <1>4, <2>2, <3>1, RequestMoves DEF Fetched
  <2>3. CASE At(g, "piping") /\ reply' = [reply EXCEPT ![g] = WriteHead(r)]
    <3>1. Fits("piping", WriteHead(r)) /\ "piping" \in Places /\ WriteHead(r) \in ReplyRecords
      BY <1>0, <2>1, HeadWritten DEF Fits, Waiting, Headed, Places
    <3> QED
      BY <1>4, <2>3, <3>1, RequestMoves DEF Fetched
  <2>4. CASE At(g, "body") /\ reply' = reply
    <3>1. Fits("body", r) /\ "body" \in Places
      BY <1>0, <2>1 DEF Fits, Waiting, Headed, Places
    <3>2. get[g].route = "rag" => get[g].dialog \in initialized
      BY <2>1 DEF ProxyInd, Initialised
    <3> QED
      BY <1>0, <1>4, <2>4, <3>1, <3>2, RequestMoves DEF Fetched
  <2> QED
    BY <1>4, <2>2, <2>3, <2>4 DEF Fetched
<1>5. CASE Body(g)
  <2>1. r.heads = 0 /\ r.ends = 0
    BY <1>0, <1>5 DEF Body, Fits, Waiting
  <2> QED
    BY <1>0, <1>5, <2>1, HeadWritten, RequestOver DEF Body
<1>6. CASE Error(g) \/ Piped(g)
  <2>1. r.heads = 1 /\ r.ends = 0
    BY <1>0, <1>6 DEF Error, Piped, Fits, Headed
  <2> QED
    BY <1>0, <1>6, <2>1, HeadWritten, RequestOver DEF Error, Piped
<1>7. CASE BadGateway(g)
  <2>1. r.heads \in {0, 1} /\ r.ends = 0
    BY <1>0, <1>7 DEF BadGateway, Fits, Waiting, Headed
  <2> QED
    BY <1>0, <1>7, <2>1, HeadWritten, RequestOver DEF BadGateway
<1>8. CASE PassedHead(g)
  <2>1. r.heads = 0 /\ r.ends = 0
    BY <1>0, <1>8 DEF PassedHead, Fits
  <2>2. WriteHead(r) \in ReplyRecords /\ Fits(get[g].at, WriteHead(r))
    BY <1>0, <1>8, <2>1, HeadWritten DEF PassedHead, Fits, Waiting, Headed
  <2>3. get' = [get EXCEPT ![g] = get[g]] /\ reply' = [reply EXCEPT ![g] = WriteHead(r)]
    BY <1>8 DEF PassedHead, ProxyInd, ProxyTypes
  <2> QED
    BY <1>0, <1>8, <2>2, <2>3, OneRequest DEF PassedHead
<1>9. CASE PassedBody(g)
  <2>1. End(r) \in ReplyRecords /\ Fits(get[g].at, End(r))
    BY <1>0, <1>9, HeadWritten DEF PassedBody, Fits, Waiting, Headed
  <2>2. get' = [get EXCEPT ![g] = get[g]] /\ reply' = [reply EXCEPT ![g] = End(r)]
    BY <1>9 DEF PassedBody, ProxyInd, ProxyTypes
  <2> QED
    BY <1>0, <1>9, <2>1, <2>2, OneRequest DEF PassedBody
<1>10. CASE ProxyError(g)
  <2> DEFINE w == IF r.ends = 0 THEN End(HeadUnlessSent(r)) ELSE r
  <2>1. r.heads <= 1 /\ r.ends <= r.heads
    BY <1>0, <1>10 DEF ProxyError, Fits
  <2>2. w \in ReplyRecords /\ w.heads = 1 /\ w.ends = 1
    <3>1. CASE r.ends = 0
      <4> DEFINE h == HeadUnlessSent(r)
      <4>1. h \in ReplyRecords /\ h.heads = 1 /\ h.ends = 0
        <5>1. r.heads \in {0, 1}
          BY <1>0, <2>1
        <5>2. h \in ReplyRecords /\ h.ends = r.ends /\ h.heads = IF r.heads = 0 THEN 1 ELSE r.heads
          BY <1>0, HeadWritten
        <5> QED
          BY <3>1, <5>1, <5>2
      <4> HIDE DEF h
      <4>2. End(h) \in ReplyRecords /\ End(h).heads = 1 /\ End(h).ends = 1
        BY <4>1, HeadWritten
      <4> QED
        BY <3>1, <4>2 DEF h
    <3>2. CASE r.ends # 0
      BY <1>0, <2>1, <3>2
    <3> QED
      BY <3>1, <3>2
  <2>3. Replies(g, w)
    BY <1>10 DEF ProxyError
  <2> QED
    BY <2>2, <2>3, RequestOver
<1>11. CASE BrowserLeaves(g)
  <2> DEFINE w == [r EXCEPT !.open = FALSE]
  <2>1. w \in ReplyRecords /\ w.heads = r.heads /\ w.ends = r.ends
    BY <1>0 DEF ReplyRecords
  <2>2. Fits(get[g].at, w)
    BY <1>0, <2>1 DEF Fits
  <2>3. get' = [get EXCEPT ![g] = get[g]] /\ reply' = [reply EXCEPT ![g] = w]
    BY <1>11 DEF BrowserLeaves, ProxyInd, ProxyTypes
  <2>4. get[g].route = "rag" /\ get[g].at \in {"fetching", "body"} => get[g].dialog \in initialized
    BY DEF ProxyInd, Initialised
  <2> HIDE DEF w
  <2> QED
    BY <1>0, <1>11, <2>1, <2>2, <2>3, <2>4, OneRequest DEF BrowserLeaves
<1> QED
  BY <1>1, <1>2, <1>3, <1>4, <1>5, <1>6, <1>7, <1>8, <1>9, <1>10, <1>11 DEF Proxies

LEMMA ProxyStep == ProxyInd /\ [ProxyNext]_proxyVars => ProxyInd'
<1> SUFFICES ASSUME ProxyInd, [ProxyNext]_proxyVars PROVE ProxyInd'
  OBVIOUS
<1>1. CASE UNCHANGED answerVars
  BY <1>1 DEF answerVars, ProxyInd, ProxyTypes, Written, Initialised
<1>2. ASSUME NEW g \in Gets, Proxies(g) \/ (gateway = "up" /\ Arrives(g)) PROVE ProxyInd'
  BY <1>2, ProxiesStep DEF Proxies
<1>3. CASE CleanExit
  <2>1. \A g \in Gets : /\ reply'[g] \in ReplyRecords
                        /\ reply'[g].heads = reply[g].heads /\ reply'[g].ends = reply[g].ends
    BY <1>3 DEF CleanExit, ProxyInd, ProxyTypes, ReplyRecords
  <2>2. ProxyTypes'
    BY <1>3, <2>1 DEF CleanExit, ProxyInd, ProxyTypes
  <2>3. Written'
    BY <1>3, <2>1 DEF CleanExit, ProxyInd, Written, Fits
  <2> QED
    BY <1>3, <2>2, <2>3 DEF CleanExit, ProxyInd, Initialised
<1>4. ASSUME NEW w \in Upgrades, Upgrade(w) \/ UpgradeFails(w) \/ Upgraded(w) \/ SocketEnds(w)
      PROVE  ProxyInd'
  BY <1>1, <1>4 DEF Upgrade, UpgradeFails, Upgraded, SocketEnds
<1>5. CASE ServerCloses \/ ForceExit
  BY <1>1, <1>5 DEF ServerCloses, ForceExit, answerVars
<1>6. CASE UNCHANGED proxyVars
  BY <1>1, <1>6 DEF proxyVars
<1> QED
  BY <1>2, <1>3, <1>4, <1>5, <1>6 DEF ProxyNext

(* AnsweredOnce is an invariant, however many requests share the catch blocks and the set
   of initialised conversations, and wherever a fetch, a body or a stream fails. *)
THEOREM OneAnswerEach == ProxySpec => []AnsweredOnce
<1>1. ProxyInd => AnsweredOnce
  <2> SUFFICES ASSUME ProxyInd, NEW g \in Gets
               PROVE  /\ reply[g].heads <= 1 /\ reply[g].ends <= reply[g].heads
                      /\ get[g].at = "over" => reply[g].ends = 1
                      /\ get[g].route = "rag" /\ get[g].at \in {"fetching", "body"}
                            => get[g].dialog \in initialized
    BY DEF AnsweredOnce
  <2>1. get[g].at \in Places /\ Fits(get[g].at, reply[g])
    BY DEF ProxyInd, ProxyTypes, Written, GetRecords
  <2> QED
    BY <2>1 DEF ProxyInd, Initialised, Fits, Places
<1> QED
  BY <1>1, ProxyStart, ProxyStep, PTL DEF ProxySpec

----------------------------------------------------------------------------
(***************************************************************************)
(* The sessions' files, for any users, keys and chats.  What a file, a     *)
(* request under way or a write not yet done holds is of one kind: a record *)
(* whose exchanges are those of chats that say no more, all of what each   *)
(* said and each once, and whose owner is the one it was created for.  A   *)
(* step may only add to what is said and created (Later), so what one      *)
(* request has read stays good while others write.                         *)
(***************************************************************************)

TaskRecords ==
    [at : {"idle", "ready", "writing", "over"},
     op : {"none", "create", "append", "rename", "feedback", "history", "remove"},
     key : Keys \cup {"none"}, user : Users \cup {"none"},
     record : {Absent} \cup Records,
     handle : {"none", "empty", "filled", "removed"}]

Saved == {"persisting", "failing", "closed"}

\* An exchange in a log is that of a request which says no more, and all of it.
Whole(e) == phase[e.chat] \in Saved /\ e.words = given[e.chat]

GoodLog(log) ==
    /\ log \in Seq(Exchanges)
    /\ \A i \in DOMAIN log : Whole(log[i])
    /\ \A i, j \in DOMAIN log : log[i].chat = log[j].chat => i = j

Good(k, r) == r \in Records /\ GoodLog(r.log) /\ (r.owner # System => CreatedBy(k, r.owner))

TaskFine(q) ==
    /\ q \in TaskRecords
    /\ q.at = "idle" => q.op = "none"
    /\ q.at = "writing" => q.op # "remove" /\ q.handle # "none"
    /\ q.at \in {"ready", "writing"} /\ q.op # "remove" => q.key \in Keys /\ Good(q.key, q.record)
    /\ q.at = "ready" /\ q.op = "remove" => q.user \in Admins \/ CreatedBy(q.key, q.user)

ChatFine ==
    /\ phase \in [Chats -> {"idle", "refused", "streaming"} \cup Saved]
    /\ given \in [Chats -> Nat] /\ said = given

FileFine == DOMAIN file = Keys /\ \A k \in Keys : file[k] \in {Absent, Torn} \/ Good(k, file[k])
TasksFine == task \in [Tasks -> TaskRecords] /\ \A t \in Tasks : TaskFine(task[t])

ChatInd == ChatFine /\ FileFine /\ TasksFine

\* What a saved exchange says stays, and so does who created a session.
SavedStay == \A c \in Chats : phase[c] \in Saved => phase'[c] \in Saved /\ given'[c] = given[c]
CreatesStay ==
    \A t \in Calls : task[t].op = "create" => /\ task'[t].op = "create"
                                             /\ task'[t].key = task[t].key
                                             /\ task'[t].user = task[t].user
Later == SavedStay /\ CreatesStay

LEMMA CreatorsStay ==
    ASSUME Later, NEW k, NEW u, CreatedBy(k, u) PROVE CreatedBy(k, u)'
BY DEF Later, CreatesStay, CreatedBy

LEMMA GoodStays ==
    ASSUME Later, NEW k, NEW r, Good(k, r) PROVE Good(k, r)'
<1>1. r \in Records /\ r.log \in Seq(Exchanges)
  BY DEF Good, GoodLog
<1>2. ASSUME NEW i \in DOMAIN r.log PROVE Whole(r.log[i])'
  <2>1. r.log[i] \in Exchanges
    BY <1>1, ElementOfSeq, LenProperties
  <2>2. Whole(r.log[i])
    BY DEF Good, GoodLog
  <2> QED
    BY <2>1, <2>2 DEF Whole, Later, SavedStay, Exchanges
<1>3. GoodLog(r.log)'
  BY <1>1, <1>2 DEF Good, GoodLog
<1>4. r.owner # System => CreatedBy(k, r.owner)'
  BY CreatorsStay DEF Good
<1> QED
  BY <1>1, <1>3, <1>4 DEF Good

LEMMA TaskFineStays ==
    ASSUME Later, NEW q, TaskFine(q) PROVE TaskFine(q)'
<1>1. q.at \in {"ready", "writing"} /\ q.op # "remove" => q.key \in Keys /\ Good(q.key, q.record)'
  BY GoodStays DEF TaskFine
<1>2. q.at = "ready" /\ q.op = "remove" => q.user \in Admins \/ CreatedBy(q.key, q.user)'
  BY CreatorsStay DEF TaskFine
<1> QED
  BY <1>1, <1>2 DEF TaskFine

LEMMA HandleChanges ==
    ASSUME NEW q, TaskFine(q), NEW h \in {"empty", "filled", "removed"}
    PROVE  TaskFine([q EXCEPT !.handle = h])
<1> DEFINE p == [q EXCEPT !.handle = h]
<1>1. /\ p \in TaskRecords /\ p.at = q.at /\ p.op = q.op /\ p.key = q.key /\ p.user = q.user
      /\ p.record = q.record /\ p.handle # "none"
  BY DEF TaskFine, TaskRecords
<1> HIDE DEF p
<1>2. TaskFine(p)
  BY <1>1 DEF TaskFine
<1> QED
  BY <1>2 DEF p

LEMMA LogChanges ==
    ASSUME NEW r \in Records, NEW log
    PROVE  [r EXCEPT !.log = log] = [owner |-> r.owner, title |-> r.title, log |-> log]
BY DEF Records

\* What is rewritten of an exchange leaves its words and whose they are.
LEMMA GoodLogs ==
    ASSUME NEW k, NEW r, Good(k, r), NEW log, DOMAIN log = DOMAIN r.log,
           log = [i \in DOMAIN r.log |-> log[i]],
           \A i \in DOMAIN r.log : /\ log[i] \in Exchanges /\ log[i].chat = r.log[i].chat
                                   /\ log[i].words = r.log[i].words
    PROVE  Good(k, [r EXCEPT !.log = log])
<1>1. r \in Records /\ r.log \in Seq(Exchanges) /\ DOMAIN r.log = 1 .. Len(r.log) /\ Len(r.log) \in Nat
  BY LenProperties DEF Good, GoodLog
<1>2. log \in Seq(Exchanges)
  <2>1. log \in [1 .. Len(r.log) -> Exchanges]
    BY <1>1
  <2> QED
    BY <1>1, <2>1
<1>3. GoodLog(log)
  <2>1. \A i \in DOMAIN r.log : Whole(r.log[i])
    BY DEF Good, GoodLog
  <2>2. \A i, j \in DOMAIN r.log : r.log[i].chat = r.log[j].chat => i = j
    BY DEF Good, GoodLog
  <2>3. \A i \in DOMAIN log : Whole(log[i])
    BY <2>1 DEF Whole
  <2>4. \A i, j \in DOMAIN log : log[i].chat = log[j].chat => i = j
    BY <2>2
  <2> QED
    BY <1>2, <2>3, <2>4 DEF GoodLog
<1>4. [r EXCEPT !.log = log] = [owner |-> r.owner, title |-> r.title, log |-> log]
  BY <1>1, LogChanges
<1> QED
  BY <1>1, <1>2, <1>3, <1>4 DEF Good, Records

LEMMA NormalizedIs ==
    ASSUME NEW k, NEW r, Good(k, r)
    PROVE  Good(k, Normalized(r))
<1> DEFINE log == [i \in DOMAIN r.log |-> Kept(r.log[i])]
<1>1. r.log \in Seq(Exchanges)
  BY DEF Good, GoodLog
<1>2. ASSUME NEW i \in DOMAIN r.log
      PROVE  log[i] \in Exchanges /\ log[i].chat = r.log[i].chat /\ log[i].words = r.log[i].words
  <2>1. r.log[i] \in Exchanges
    BY <1>1, ElementOfSeq, LenProperties
  <2>2. log[i] = Kept(r.log[i])
    OBVIOUS
  <2> HIDE DEF log
  <2> QED
    BY <2>1, <2>2 DEF Exchanges, Kept
<1>3. DOMAIN log = DOMAIN r.log
  OBVIOUS
<1>4. log = [i \in DOMAIN r.log |-> log[i]]
  OBVIOUS
<1>5. Normalized(r) = [r EXCEPT !.log = log]
  BY DEF Normalized
<1> HIDE DEF log
<1> QED
  BY <1>2, <1>3, <1>4, <1>5, GoodLogs

LEMMA ReadIs ==
    ASSUME FileFine, NEW k \in Keys
    PROVE  Read(k) = Absent \/ Good(k, Read(k))
BY NormalizedIs DEF Read, FileFine

LEMMA OneTaskChanges ==
    ASSUME TasksFine, Later, NEW t \in Tasks, NEW q, TaskFine(q)', task' = [task EXCEPT ![t] = q]
    PROVE  TasksFine'
<1>1. q \in TaskRecords
  BY DEF TaskFine
<1>2. task' \in [Tasks -> TaskRecords]
  BY <1>1 DEF TasksFine
<1>3. \A o \in Tasks : task'[o] = IF o = t THEN q ELSE task[o]
  BY DEF TasksFine
<1>4. ASSUME NEW o \in Tasks PROVE TaskFine(task[o])'
  <2>1. CASE o = t
    <3>1. task'[o] = q
      BY <1>3, <2>1
    <3> QED
      BY <3>1 DEF TaskFine
  <2>2. CASE o # t
    <3>1. task'[o] = task[o]
      BY <1>3, <2>2
    <3>2. TaskFine(task[o])'
      BY TaskFineStays DEF TasksFine
    <3> QED
      BY <3>1, <3>2 DEF TaskFine
  <2> QED
    BY <2>1, <2>2
<1> QED
  BY <1>2, <1>4 DEF TasksFine

\* A request prepares a good record, or a removal its user is entitled to.
LEMMA PreparesFine ==
    ASSUME TasksFine, Later, NEW t \in Tasks, NEW k \in Keys, NEW u \in Users \cup {"none"},
           NEW op \in {"create", "append", "rename", "feedback", "remove"}, NEW record,
           Prepares(t, op, k, u, record),
           op # "remove" => Good(k, record)',
           op = "remove" => record = Absent /\ (u \in Admins \/ CreatedBy(k, u)')
    PROVE  TasksFine'
<1> DEFINE q == [at |-> "ready", op |-> op, key |-> k, user |-> u, record |-> record, handle |-> "none"]
<1>1. task' = [task EXCEPT ![t] = q]
  BY DEF Prepares
<1>2. record \in {Absent} \cup Records
  BY DEF Good
<1>3. TaskFine(q)'
  <2>1. q \in TaskRecords
    BY <1>2 DEF TaskRecords
  <2> QED
    BY <2>1 DEF TaskFine
<1> HIDE DEF q
<1> QED
  BY <1>1, <1>3, OneTaskChanges

LEMMA EndsFine ==
    ASSUME TasksFine, Later, NEW t \in Tasks, NEW k \in Keys, NEW u \in Users \cup {"none"},
           NEW op \in {"rename", "feedback", "history", "remove"}, Ends(t, op, k, u)
    PROVE  TasksFine'
<1> DEFINE q == [at |-> "over", op |-> op, key |-> k, user |-> u, record |-> Absent, handle |-> "none"]
<1>1. task' = [task EXCEPT ![t] = q]
  BY DEF Ends
<1>2. TaskFine(q)'
  BY DEF TaskFine, TaskRecords
<1> HIDE DEF q
<1> QED
  BY <1>1, <1>2, OneTaskChanges

\* A request that begins created no session yet.
LEMMA BeginsLater ==
    ASSUME TasksFine, SavedStay, NEW t \in Tasks, task[t].at = "idle",
           NEW q, task' = [task EXCEPT ![t] = q]
    PROVE  Later
<1>1. task[t].op = "none"
  BY DEF TasksFine, TaskFine
<1>2. \A o \in Tasks : o # t => task'[o] = task[o]
  BY DEF TasksFine
<1> QED
  BY <1>1, <1>2 DEF Later, CreatesStay, Tasks

LEMMA FilesStay ==
    ASSUME FileFine, Later, UNCHANGED file
    PROVE  FileFine'
BY GoodStays DEF FileFine

LEMMA ChatsStay ==
    ASSUME ChatFine, UNCHANGED chatVars
    PROVE  ChatFine' /\ SavedStay
BY DEF ChatFine, SavedStay, chatVars

LEMMA Renames ==
    ASSUME NEW k, NEW r, Good(k, r), NEW title \in Titles
    PROVE  Good(k, [r EXCEPT !.title = title])
<1> DEFINE s == [r EXCEPT !.title = title]
<1>1. s = [owner |-> r.owner, title |-> title, log |-> r.log]
  BY DEF Good, Records
<1> HIDE DEF s
<1>2. Good(k, s)
  BY <1>1 DEF Good, Records
<1> QED
  BY <1>2 DEF s

LEMMA RatesAnswers ==
    ASSUME NEW k, NEW r, Good(k, r), NEW D, NEW reaction \in {"up", "down"}, NEW log,
           DOMAIN log = DOMAIN r.log, log = [i \in DOMAIN r.log |-> log[i]],
           \A i \in DOMAIN r.log : log[i] = IF i \in D THEN Liked(r.log[i], reaction) ELSE r.log[i]
    PROVE  Good(k, [r EXCEPT !.log = log])
<1>1. r \in Records /\ r.log \in Seq(Exchanges) /\ DOMAIN r.log = 1 .. Len(r.log) /\ Len(r.log) \in Nat
  BY LenProperties DEF Good, GoodLog
<1>2. ASSUME NEW i \in DOMAIN r.log
      PROVE  log[i] \in Exchanges /\ log[i].chat = r.log[i].chat /\ log[i].words = r.log[i].words
  <2>1. r.log[i] \in Exchanges
    BY <1>1, ElementOfSeq
  <2>2. log[i] = IF i \in D THEN Liked(r.log[i], reaction) ELSE r.log[i]
    OBVIOUS
  <2> QED
    BY <2>1, <2>2 DEF Exchanges, Liked
<1> QED
  BY <1>2, GoodLogs

\* An exchange is appended once the request says no more; before, no log had it.
LEMMA Appends ==
    ASSUME Later, NEW c \in Chats, phase[c] = "streaming", phase'[c] \in Saved, UNCHANGED given,
           NEW k, NEW s, Good(k, s), NEW e \in Exchanges, e.chat = c, e.words = given[c]
    PROVE  Good(k, [owner |-> s.owner,
                    title |-> IF s.title = "default" THEN "asked" ELSE s.title,
                    log   |-> Append(s.log, e)])'
<1> DEFINE log == Append(s.log, e)
           title == IF s.title = "default" THEN "asked" ELSE s.title
           n == Len(s.log)
<1>4. s \in Records /\ s.log \in Seq(Exchanges) /\ n \in Nat /\ DOMAIN s.log = 1 .. n
  BY LenProperties DEF Good, GoodLog
<1>5. /\ log \in Seq(Exchanges) /\ Len(log) = n + 1 /\ log[n + 1] = e
      /\ \A i \in 1 .. n : log[i] = s.log[i]
  BY <1>4, AppendProperties
<1> HIDE DEF n
<1>6. \A i \in 1 .. n : Whole(s.log[i]) /\ s.log[i].chat # c
  <2>1. phase[c] \notin Saved
    BY DEF Saved
  <2> QED
    BY <1>4, <2>1 DEF Good, GoodLog, Whole
<1> HIDE DEF log
<1>7. DOMAIN log = 1 .. n + 1
  BY <1>5, LenProperties
<1>8. \A i \in 1 .. n : Whole(log[i])' /\ log[i].chat # c
  <2>1. ASSUME NEW i \in 1 .. n PROVE Whole(s.log[i])'
    <3>1. Whole(s.log[i]) /\ s.log[i] \in Exchanges
      BY <1>4, <1>6, ElementOfSeq
    <3> QED
      BY <3>1 DEF Whole, Later, SavedStay, Exchanges
  <2>2. \A i \in 1 .. n : Whole(log[i])'
    BY <1>5, <2>1 DEF Whole
  <2> QED
    BY <1>5, <1>6, <2>2
<1>9. Whole(log[n + 1])'
  BY <1>5 DEF Whole
<1>10. \A i \in 1 .. n + 1 : i \in 1 .. n \/ i = n + 1
  BY <1>4
<1>11. \A i, j \in DOMAIN log : log[i].chat = log[j].chat => i = j
  BY <1>4, <1>5, <1>7, <1>8, <1>10 DEF Good, GoodLog
<1>12. GoodLog(log)'
  BY <1>5, <1>7, <1>8, <1>9, <1>10, <1>11 DEF GoodLog
<1> DEFINE r == [owner |-> s.owner, title |-> title, log |-> log]
<1>13. title \in Titles
  BY <1>4 DEF Titles, Records
<1>15. r \in Records /\ r.log = log /\ r.owner = s.owner
  BY <1>4, <1>5, <1>13 DEF Records
<1> HIDE DEF r, title
<1>16. s.owner # System => CreatedBy(k, s.owner)'
  BY CreatorsStay DEF Good
<1>17. Good(k, r)'
  BY <1>12, <1>15, <1>16 DEF Good
<1> QED
  BY <1>17 DEF r, title, log

\* What a request of the session routes prepares or answers leaves the invariant.
LEMMA Prepared ==
    ASSUME FileFine, TasksFine, ChatFine', SavedStay, NEW t \in Tasks, task[t].at = "idle",
           NEW k \in Keys, NEW u \in Users \cup {"none"}, UNCHANGED file,
           NEW op \in {"create", "append", "rename", "feedback", "remove"}, NEW record,
           Prepares(t, op, k, u, record),
           Later /\ op # "remove" => Good(k, record)',
           Later /\ op = "remove" => record = Absent /\ (u \in Admins \/ CreatedBy(k, u)')
    PROVE  ChatInd'
<1>1. Later
  BY BeginsLater DEF Prepares
<1> QED
  BY <1>1, PreparesFine, FilesStay DEF ChatInd

LEMMA Ended ==
    ASSUME FileFine, TasksFine, ChatFine', SavedStay, NEW t \in Tasks, task[t].at = "idle",
           NEW k \in Keys, NEW u \in Users \cup {"none"}, UNCHANGED file,
           NEW op \in {"rename", "feedback", "history", "remove"}, Ends(t, op, k, u)
    PROVE  ChatInd'
<1>1. Later
  BY BeginsLater DEF Ends
<1> QED
  BY <1>1, EndsFine, FilesStay DEF ChatInd

LEMMA CreateSessionKeeps ==
    ASSUME ChatInd, UNCHANGED chatVars, NEW t \in Calls, NEW k \in Keys, NEW u \in Users,
           CreateSession(t, k, u)
    PROVE  ChatInd'
<1>1. ChatFine' /\ SavedStay /\ t \in Tasks
  BY ChatsStay DEF ChatInd, Tasks
<1>2. Prepares(t, "create", k, u, Blank(u)) /\ task[t].at = "idle" /\ UNCHANGED file
  BY DEF CreateSession
<1>3. Blank(u) \in Records /\ GoodLog(Blank(u).log)' /\ Blank(u).owner = u
  BY DEF Blank, Records, Titles, GoodLog
<1>4. task'[t].op = "create" /\ task'[t].key = k /\ task'[t].user = u
  BY <1>1, <1>2 DEF Prepares, ChatInd, TasksFine
<1>5. CreatedBy(k, u)'
  BY <1>4 DEF CreatedBy
<1> DEFINE blank == Blank(u)
<1>6. Good(k, blank)'
  BY <1>3, <1>5 DEF Good
<1> HIDE DEF blank
<1> QED
  BY <1>1, <1>2, <1>6, Prepared DEF ChatInd, blank

LEMMA RenameReadsKeeps ==
    ASSUME ChatInd, UNCHANGED chatVars, NEW t \in Calls, NEW k \in Keys, RenameReads(t, k)
    PROVE  ChatInd'
<1>1. ChatFine' /\ SavedStay /\ t \in Tasks /\ task[t].at = "idle" /\ UNCHANGED file
  BY ChatsStay DEF ChatInd, Tasks, RenameReads
<1>2. CASE Ends(t, "rename", k, "none")
  BY <1>1, <1>2, Ended DEF ChatInd
<1>3. ASSUME NEW title \in {"given", "default"}, Read(k) # Absent,
             Prepares(t, "rename", k, "none", [Read(k) EXCEPT !.title = title])
      PROVE  ChatInd'
  <2>1. PICK record : record = [Read(k) EXCEPT !.title = title]
    OBVIOUS
  <2>2. Good(k, record)
    BY <1>3, <2>1, ReadIs, Renames DEF ChatInd, Titles
  <2> QED
    BY <1>1, <1>3, <2>1, <2>2, GoodStays, Prepared DEF ChatInd
<1> QED
  BY <1>2, <1>3 DEF RenameReads

LEMMA FeedbackReadsKeeps ==
    ASSUME ChatInd, UNCHANGED chatVars, NEW t \in Calls, NEW k \in Keys, NEW c \in Chats,
           FeedbackReads(t, k, c)
    PROVE  ChatInd'
<1> DEFINE s == Read(k)
           Rated == {i \in DOMAIN s.log : s.log[i].chat = c /\ s.log[i].answered}
           Rating(reaction) == [s EXCEPT !.log = [i \in DOMAIN s.log |->
                                   IF i \in Rated THEN Liked(s.log[i], reaction) ELSE s.log[i]]]
<1>1. ChatFine' /\ SavedStay /\ t \in Tasks /\ task[t].at = "idle" /\ UNCHANGED file
  BY ChatsStay DEF ChatInd, Tasks, FeedbackReads
<1>2. CASE Ends(t, "feedback", k, "none")
  BY <1>1, <1>2, Ended DEF ChatInd
<1>3. ASSUME NEW reaction \in Reactions, Read(k) # Absent,
             Prepares(t, "feedback", k, "none", Rating(reaction))
      PROVE  ChatInd'
  <2>1. PICK record : record = Rating(reaction)
    OBVIOUS
  <2>2. reaction \in {"up", "down"} /\ Good(k, s)
    BY <1>3, ReadIs, SessionsAssumption DEF ChatInd
  <2>3. Good(k, Rating(reaction))
    <3> DEFINE log == [i \in DOMAIN s.log |->
                          IF i \in Rated THEN Liked(s.log[i], reaction) ELSE s.log[i]]
    <3> HIDE DEF s, Rated
    <3>1. /\ DOMAIN log = DOMAIN s.log /\ log = [i \in DOMAIN s.log |-> log[i]]
          /\ \A i \in DOMAIN s.log :
                 log[i] = IF i \in Rated THEN Liked(s.log[i], reaction) ELSE s.log[i]
      OBVIOUS
    <3>2. Rating(reaction) = [s EXCEPT !.log = log]
      OBVIOUS
    <3> HIDE DEF log, Rating
    <3> QED
      BY <2>2, <3>1, <3>2, RatesAnswers
  <2>4. Good(k, record)
    BY <2>1, <2>3
  <2> QED
    BY <1>1, <1>3, <2>1, <2>4, GoodStays, Prepared DEF ChatInd
<1> QED
  BY <1>2, <1>3 DEF FeedbackReads

LEMMA RemoveChecksKeeps ==
    ASSUME ChatInd, UNCHANGED chatVars, NEW t \in Calls, NEW k \in Keys, NEW u \in Users,
           RemoveChecks(t, k, u)
    PROVE  ChatInd'
<1>1. ChatFine' /\ SavedStay /\ t \in Tasks /\ task[t].at = "idle" /\ UNCHANGED file
  BY ChatsStay DEF ChatInd, Tasks, RemoveChecks
<1>2. CASE Ends(t, "remove", k, u)
  BY <1>1, <1>2, Ended DEF ChatInd
<1>3. ASSUME Read(k) # Absent, Read(k).owner = u \/ u \in Admins,
             Prepares(t, "remove", k, u, Absent)
      PROVE  ChatInd'
  <2>1. u \in Admins \/ CreatedBy(k, u)
    BY <1>3, ReadIs, SessionsAssumption DEF Good, ChatInd
  <2> QED
    BY <1>1, <1>3, <2>1, CreatorsStay, Prepared DEF ChatInd
<1> QED
  BY <1>2, <1>3 DEF RemoveChecks

LEMMA GetHistoryKeeps ==
    ASSUME ChatInd, UNCHANGED chatVars, NEW t \in Calls, NEW k \in Keys, GetHistory(t, k)
    PROVE  ChatInd'
<1>1. ChatFine' /\ SavedStay /\ t \in Tasks /\ task[t].at = "idle" /\ UNCHANGED file
  BY ChatsStay DEF ChatInd, Tasks, GetHistory
<1> QED
  BY <1>1, Ended DEF ChatInd, GetHistory

\* The end of a stream: the exchange of this request is in no log yet.
LEMMA PersistKeeps ==
    ASSUME ChatInd, NEW c \in Chats, NEW failed \in BOOLEAN, phase[c] = "streaming", Persist(c, failed)
    PROVE  ChatInd'
<1> DEFINE k == KeyOf[c]
           e == Exchange(c, said[c], failed)
           s == IF Read(k) = Absent THEN Blank(System) ELSE Read(k)
<1>1. k \in Keys /\ AskedBy[c] \in Users /\ c \in Tasks
  BY SessionsAssumption DEF Tasks
<1>2. task[c].at = "idle" /\ UNCHANGED file /\ Prepares(c, "append", k, AskedBy[c], Appended(k, e))
  BY DEF Persist, AppendReads
<1>3. phase'[c] \in Saved /\ UNCHANGED given
  BY DEF Persist, Saved, ChatInd, ChatFine
<1>4. SavedStay /\ ChatFine'
  BY DEF Persist, SavedStay, Saved, ChatInd, ChatFine
<1>5. Good(k, s)
  <2>1. Good(k, Blank(System))
    BY DEF Good, GoodLog, Blank, Records, Titles
  <2> QED
    BY <1>1, <2>1, ReadIs DEF ChatInd
<1>6. e \in Exchanges /\ e.chat = c /\ e.words = given[c]
  BY DEF Exchange, Exchanges, ChatInd, ChatFine
<1>7. PICK record : record = Appended(k, e)
  OBVIOUS
<1>8. PICK r : r = s
  OBVIOUS
<1>9. PICK x : x = e
  OBVIOUS
<1>10. record = [owner |-> r.owner, title |-> IF r.title = "default" THEN "asked" ELSE r.title,
                 log |-> Append(r.log, x)]
  BY <1>7, <1>8, <1>9 DEF Appended
<1> HIDE DEF s, e
<1>11. ASSUME Later PROVE Good(k, record)'
  BY <1>3, <1>5, <1>6, <1>8, <1>9, <1>10, <1>11, Appends
<1> QED
  BY <1>1, <1>2, <1>4, <1>7, <1>11, Prepared DEF ChatInd

\* A step of a file operation: what each request then is, and the file.
LEMMA FileSteps ==
    ASSUME ChatInd, UNCHANGED chatVars, task' = [o \in Tasks |-> task'[o]],
           \A o \in Tasks : /\ TaskFine(task'[o]) 
                           /\ task'[o].op = task[o].op /\ task'[o].key = task[o].key
                           /\ task'[o].user = task[o].user,
           DOMAIN file' = Keys,
           \A k \in Keys : file'[k] = file[k] \/ file'[k] \in {Absent, Torn} \/ Good(k, file'[k])
    PROVE  ChatInd'
<1>1. ChatFine' /\ SavedStay
  BY ChatsStay DEF ChatInd
<1>2. Later
  BY <1>1 DEF Later, CreatesStay, Tasks
<1>3. TasksFine'
  <2>1. ASSUME NEW o \in Tasks PROVE TaskFine(task[o])'
    <3>1. PICK q : q = task'[o]
      OBVIOUS
    <3>2. TaskFine(q)
      BY <3>1
    <3>3. TaskFine(q)'
      BY <1>2, <3>2, TaskFineStays
    <3> QED
      BY <3>1, <3>3 DEF TaskFine
  <2>2. \A o \in Tasks : task'[o] \in TaskRecords
    BY DEF TaskFine
  <2>3. task' \in [Tasks -> TaskRecords]
    BY <2>2
  <2> QED
    BY <2>1, <2>3 DEF TasksFine
<1>4. FileFine'
  <2>1. ASSUME NEW k \in Keys PROVE (file[k] \in {Absent, Torn} \/ Good(k, file[k]))'
    <3>1. PICK r : r = file'[k]
      OBVIOUS
    <3>2. r \in {Absent, Torn} \/ Good(k, r)
      BY <3>1 DEF ChatInd, FileFine
    <3>3. r \in {Absent, Torn} \/ Good(k, r)'
      BY <1>2, <3>2, GoodStays
    <3> QED
      BY <3>1, <3>3 DEF Good
  <2> QED
    BY <2>1 DEF FileFine
<1> QED
  BY <1>1, <1>3, <1>4 DEF ChatInd

LEMMA OpenFileKeeps ==
    ASSUME ChatInd, UNCHANGED chatVars, NEW t \in Tasks, OpenFile(t)
    PROVE  ChatInd'
<1> DEFINE k == task[t].key
<1>1. TasksFine /\ FileFine /\ TaskFine(task[t])
  BY DEF ChatInd, TasksFine
<1>2. k \in Keys
  BY <1>1 DEF OpenFile, TaskFine
<1>3. ASSUME NEW o \in Tasks
      PROVE  /\ TaskFine(task'[o]) /\ task'[o].op = task[o].op /\ task'[o].key = task[o].key
             /\ task'[o].user = task[o].user
  <2>1. CASE o = t
    <3>1. task'[o] = [task[t] EXCEPT !.at = "writing", !.handle = "empty"]
      BY <2>1 DEF OpenFile
    <3>2. /\ task'[o] \in TaskRecords /\ task'[o].at = "writing" /\ task'[o].op = task[t].op
          /\ task'[o].key = k /\ task'[o].user = task[t].user /\ task'[o].record = task[t].record
          /\ task'[o].handle = "empty"
      BY <1>1, <3>1 DEF TaskFine, TaskRecords
    <3>3. PICK q : q = task'[o]
      OBVIOUS
    <3>4. TaskFine(q)
      BY <1>1, <3>1, <3>2, <3>3 DEF TaskFine, OpenFile
    <3> QED
      BY <2>1, <3>2, <3>3, <3>4
  <2>2. CASE o # t
    <3>1. task'[o] = task[o] \/ task'[o] = [task[o] EXCEPT !.handle = "empty"]
      BY <2>2 DEF OpenFile
    <3>2. TaskFine(task[o])
      BY <1>1 DEF TasksFine
    <3>3. TaskFine([task[o] EXCEPT !.handle = "empty"])
      BY <3>2, HandleChanges
    <3>4. task[o] \in TaskRecords
      BY <3>2 DEF TaskFine
    <3> QED
      BY <3>1, <3>2, <3>3, <3>4 DEF TaskRecords
  <2> QED
    BY <2>1, <2>2
<1>4. task' = [o \in Tasks |-> task'[o]]
  BY DEF OpenFile
<1>5. DOMAIN file' = Keys /\ \A l \in Keys : file'[l] = file[l] \/ file'[l] = Torn
  BY <1>1, <1>2 DEF OpenFile, FileFine
<1> QED
  BY <1>3, <1>4, <1>5, FileSteps

\* A request whose operation is over.
LEMMA IsOver ==
    ASSUME NEW q, TaskFine(q)
    PROVE  TaskFine([q EXCEPT !.at = "over", !.record = Absent, !.handle = "none"])
<1> DEFINE p == [q EXCEPT !.at = "over", !.record = Absent, !.handle = "none"]
<1>1. p \in TaskRecords /\ p.at = "over" /\ p.op = q.op /\ p.key = q.key /\ p.user = q.user
  BY DEF TaskFine, TaskRecords
<1> HIDE DEF p
<1>2. TaskFine(p)
  BY <1>1 DEF TaskFine
<1> QED
  BY <1>2 DEF p

LEMMA WriteFileKeeps ==
    ASSUME ChatInd, UNCHANGED chatVars, NEW t \in Tasks, WriteFile(t)
    PROVE  ChatInd'
<1> DEFINE k == task[t].key
<1>1. TasksFine /\ FileFine /\ TaskFine(task[t])
  BY DEF ChatInd, TasksFine
<1>2. k \in Keys /\ Good(k, task[t].record)
  BY <1>1 DEF WriteFile, TaskFine
<1>3. ASSUME NEW o \in Tasks
      PROVE  /\ TaskFine(task'[o]) /\ task'[o].op = task[o].op /\ task'[o].key = task[o].key
             /\ task'[o].user = task[o].user
  <2>1. CASE o = t
    <3>1. task'[o] = [task[t] EXCEPT !.at = "over", !.record = Absent, !.handle = "none"]
      BY <2>1 DEF WriteFile
    <3>2. TaskFine(task'[o])
      BY <1>1, <3>1, IsOver
    <3>3. task[t] \in TaskRecords
      BY <1>1 DEF TaskFine
    <3> QED
      BY <2>1, <3>1, <3>2, <3>3 DEF TaskRecords
  <2>2. CASE o # t
    <3>1. task'[o] = task[o] \/ task'[o] = [task[o] EXCEPT !.handle = "filled"]
      BY <2>2 DEF WriteFile
    <3>2. TaskFine(task[o])
      BY <1>1 DEF TasksFine
    <3>3. TaskFine([task[o] EXCEPT !.handle = "filled"])
      BY <3>2, HandleChanges
    <3>4. task[o] \in TaskRecords
      BY <3>2 DEF TaskFine
    <3> QED
      BY <3>1, <3>2, <3>3, <3>4 DEF TaskRecords
  <2> QED
    BY <2>1, <2>2
<1>4. task' = [o \in Tasks |-> task'[o]]
  BY DEF WriteFile
<1>5. task[t].handle \in {"empty", "filled", "removed"} =>
          file' = file \/ file' = [file EXCEPT ![k] = task[t].record] \/ file' = [file EXCEPT ![k] = Torn]
  BY DEF WriteFile
<1>6. task[t].handle # "none"
  BY <1>1 DEF TaskFine, WriteFile
<1>7. task[t].handle \in {"empty", "filled", "removed"}
  BY <1>1, <1>6 DEF TaskFine, TaskRecords
<1>8. DOMAIN file' = Keys /\ \A l \in Keys : file'[l] = file[l] \/ file'[l] = Torn
                                            \/ (l = k /\ file'[l] = task[t].record)
  BY <1>1, <1>2, <1>5, <1>7 DEF FileFine
<1>9. \A l \in Keys : file'[l] = file[l] \/ file'[l] \in {Absent, Torn} \/ Good(l, file'[l])
  BY <1>2, <1>8
<1> QED
  BY <1>3, <1>4, <1>8, <1>9, FileSteps

LEMMA UnlinkKeeps ==
    ASSUME ChatInd, UNCHANGED chatVars, NEW t \in Calls, Unlink(t)
    PROVE  ChatInd'
<1> DEFINE k == task[t].key
<1>1. TasksFine /\ FileFine /\ t \in Tasks /\ TaskFine(task[t])
  BY DEF ChatInd, TasksFine, Tasks
<1>3. ASSUME NEW o \in Tasks
      PROVE  /\ TaskFine(task'[o]) /\ task'[o].op = task[o].op /\ task'[o].key = task[o].key
             /\ task'[o].user = task[o].user
  <2>1. CASE o = t
    <3>1. task'[o] = [task[t] EXCEPT !.at = "over", !.record = Absent, !.handle = "none"]
      BY <2>1 DEF Unlink
    <3>2. TaskFine(task'[o])
      BY <1>1, <3>1, IsOver
    <3>3. task[t] \in TaskRecords
      BY <1>1 DEF TaskFine
    <3> QED
      BY <2>1, <3>1, <3>2, <3>3 DEF TaskRecords
  <2>2. CASE o # t
    <3>1. task'[o] = task[o] \/ task'[o] = [task[o] EXCEPT !.handle = "removed"]
      BY <2>2 DEF Unlink
    <3>2. TaskFine(task[o])
      BY <1>1 DEF TasksFine
    <3>3. TaskFine([task[o] EXCEPT !.handle = "removed"])
      BY <3>2, HandleChanges
    <3>4. task[o] \in TaskRecords
      BY <3>2 DEF TaskFine
    <3> QED
      BY <3>1, <3>2, <3>3, <3>4 DEF TaskRecords
  <2> QED
    BY <2>1, <2>2
<1>4. task' = [o \in Tasks |-> task'[o]]
  BY DEF Unlink
<1>5. DOMAIN file' = Keys /\ \A l \in Keys : file'[l] = file[l] \/ file'[l] = Absent
  BY <1>1 DEF Unlink, FileFine
<1> QED
  BY <1>3, <1>4, <1>5, FileSteps

\* The steps of a chat request that touch no session.
LEMMA HandlesKeeps ==
    ASSUME ChatInd, NEW c \in Chats, Post(c) \/ Token(c) \/ Close(c) \/ ClientLeaves(c)
    PROVE  ChatInd'
<1>1. UNCHANGED storeVars
  BY DEF Post, Token, Close, ClientLeaves
<1>2. ChatFine'
  BY DEF Post, Token, EmitVisibleToken, Close, ClientLeaves, ChatInd, ChatFine, Saved
<1>3. SavedStay
  BY DEF Post, Token, Close, ClientLeaves, SavedStay, ChatInd, ChatFine, Saved
<1>4. Later
  BY <1>1, <1>3 DEF Later, CreatesStay, storeVars
<1>5. TasksFine'
  <2>1. ASSUME NEW o \in Tasks PROVE TaskFine(task[o])'
    <3>1. PICK q : q = task[o]
      OBVIOUS
    <3>2. TaskFine(q)'
      BY <1>4, <3>1, TaskFineStays DEF ChatInd, TasksFine
    <3>3. q = task'[o]
      BY <1>1, <3>1 DEF storeVars
    <3> QED
      BY <3>2, <3>3 DEF TaskFine
  <2> QED
    BY <1>1, <2>1 DEF ChatInd, TasksFine, storeVars
<1> QED
  BY <1>1, <1>2, <1>4, <1>5, FilesStay DEF ChatInd, storeVars

LEMMA ChatStarts == Init => ChatInd
<1> SUFFICES ASSUME Init PROVE ChatInd
  OBVIOUS
<1>1. ChatFine
  BY DEF Init, ChatFine
<1>2. FileFine
  BY DEF Init, StoreInit, FileFine
<1>3. TaskFine(Idle)
  BY DEF Idle, TaskFine, TaskRecords
<1>4. TasksFine
  BY <1>3 DEF Init, StoreInit, TasksFine, TaskFine
<1> QED
  BY <1>1, <1>2, <1>4 DEF ChatInd

LEMMA ChatSteps == ChatInd /\ [Next]_vars => ChatInd'
<1> SUFFICES ASSUME ChatInd, [Next]_vars PROVE ChatInd'
  OBVIOUS
<1>1. ASSUME NEW t \in Calls, SessionRoutes(t), UNCHANGED chatVars PROVE ChatInd'
  BY <1>1, RenameReadsKeeps, FeedbackReadsKeeps, GetHistoryKeeps, CreateSessionKeeps, RemoveChecksKeeps
     DEF SessionRoutes
<1>2. ASSUME NEW t \in Calls, Unlink(t), UNCHANGED chatVars PROVE ChatInd'
  BY <1>2, UnlinkKeeps
<1>3. ASSUME NEW t \in Tasks, Writes(t), UNCHANGED chatVars PROVE ChatInd'
  BY <1>3, OpenFileKeeps, WriteFileKeeps DEF Writes
<1>4. ASSUME NEW c \in Chats, Handles(c) PROVE ChatInd'
  <2>1. CASE Post(c) \/ Token(c) \/ Close(c) \/ ClientLeaves(c)
    BY <2>1, HandlesKeeps
  <2>2. CASE BackendEnds(c) \/ BackendFails(c) \/ TimesOut(c)
    BY <2>2, PersistKeeps DEF BackendEnds, BackendFails, TimesOut
  <2> QED
    BY <1>4, <2>1, <2>2 DEF Handles
<1>5. CASE UNCHANGED vars
  BY <1>5 DEF ChatInd, ChatFine, FileFine, TasksFine, TaskFine, Good, GoodLog, Whole, CreatedBy,
              vars, chatVars, storeVars
<1> QED
  BY <1>1, <1>2, <1>3, <1>4, <1>5 DEF Next, StoreNext

LEMMA ChatAlways == Spec => []ChatInd
<1>1. Init => ChatInd
  BY ChatStarts
<1>2. ChatInd /\ [Next]_vars => ChatInd'
  BY ChatSteps
<1> QED
  BY <1>1, <1>2, PTL DEF Spec

(* StoredOnceWhole is an invariant, for any chats, calls, keys and users: whatever the
   handlers of the session routes and the persisting of the chat route interleave, every
   exchange in a session's file is all of what its chat said, and is there once. *)
THEOREM ExchangesStoredOnce == Spec => []StoredOnceWhole
<1>1. ChatInd => StoredOnceWhole
  BY DEF ChatInd, FileFine, Good, GoodLog, Whole, StoredOnceWhole
<1> QED
  BY <1>1, ChatAlways, PTL

(* RemovedByItsCreator is an action property of the routes: only an administrator, or the
   user the session was created for, removes a session's file, although the check of
   DELETE reads another file than the one that unlink removes. *)
THEOREM OnlyCreatorsRemove == Spec => RemovedByItsCreator
<1> DEFINE A == \A t \in Calls : task[t].op = "remove" /\ task[t].at = "ready" /\ task'[t].at = "over"
                  => task[t].user \in Admins \/ CreatedBy(task[t].key, task[t].user)
<1>1. ChatInd => A
  BY DEF ChatInd, TasksFine, TaskFine, Tasks
<1>2. ChatInd /\ [Next]_vars => [A]_storeVars
  BY <1>1
<1> QED
  BY <1>2, ChatAlways, PTL DEF Spec, RemovedByItsCreator

----------------------------------------------------------------------------
(***************************************************************************)
(* Sums over finite sets.  Total is a recursive function on the subsets of *)
(* its set.  That there is one, and what it yields, is proved by the least *)
(* size of a subset for which it would not hold.                           *)
(***************************************************************************)

Less == {ss \in Nat \X Nat : ss[1] < ss[2]}

\* A set of numbers that is not empty has a least one.
LEMMA HasMin == ASSUME NEW S \in SUBSET Nat, S # {} PROVE \E m \in S : \A k \in S : m <= k
<1>1. IsWellFoundedOn(Less, Nat)
  BY NatLessThanWellFounded DEF OpToRel, Less
<1>2. PICK m \in S : \A k \in S : ~(<<k, m>> \in Less)
  BY <1>1, WFMin
<1>3. \A k, l \in Nat : k < l => <<k, l>> \in Less
  BY DEF Less
<1>4. \A k \in S : ~(k < m)
  BY <1>2, <1>3
<1>5. \A k \in S : m <= k
  <2>1. \A k, l \in Nat : ~(k < l) => l <= k
    OBVIOUS
  <2> QED
    BY <1>4, <2>1
<1> QED
  BY <1>5

\* The element a sum over s begins with.
First(s) == CHOOSE x \in s : TRUE

\* The sums g of f over the sets of D, each the sum over the set without that element and more.
AreSums(g, f, D) ==
    g = [s \in D |-> IF s = {} THEN 0 ELSE f[First(s)] + g[s \ {First(s)}]]

\* Those over all subsets of a set.
AllSums(g, f, S) == AreSums(g, f, SUBSET S)

LEMMA FirstIs == ASSUME NEW S, S # {} PROVE First(S) \in S
BY DEF First

\* For sets of at most n elements there are such sums, by the least n that has none.
LEMMA SumsExist ==
    ASSUME NEW S, IsFiniteSet(S), NEW f
    PROVE  \E g : AllSums(g, f, S)
<1> DEFINE Small(n) == {s \in SUBSET S : Cardinality(s) <= n}
           none == {n \in Nat : ~\E g : AreSums(g, f, Small(n))}
<1>1. \A s \in SUBSET S : IsFiniteSet(s) /\ Cardinality(s) \in Nat /\ Cardinality(s) <= Cardinality(S)
  BY FS_Subset, FS_CardinalityType
<1>2. none = {}
  <2> SUFFICES ASSUME none # {} PROVE FALSE
    OBVIOUS
  <2>1. none \in SUBSET Nat
    OBVIOUS
  <2> HIDE DEF none
  <2>2. PICK n \in none : \A k \in none : n <= k
    BY <2>1, HasMin
  <2>3. n \in Nat /\ ~\E g : AreSums(g, f, Small(n))
    BY <2>2 DEF none
  <2>4. CASE n = 0
    <3> DEFINE g == [s \in Small(0) |-> 0]
    <3>1. \A s \in Small(0) : s = {}
      BY <1>1, FS_EmptySet
    <3>2. g = [s \in Small(0) |-> IF s = {} THEN 0 ELSE f[First(s)] + g[s \ {First(s)}]]
      BY <3>1
    <3> QED
      BY <2>3, <2>4, <3>2 DEF AreSums, AllSums
  <2>5. CASE n # 0
    <3>1. n - 1 \in Nat /\ ~(n <= n - 1)
      BY <2>3, <2>5
    <3>2. n - 1 \notin none
      BY <2>2, <3>1
    <3>3. PICK g : AreSums(g, f, Small(n - 1))
      BY <3>1, <3>2 DEF none
    <3> DEFINE h == [s \in Small(n) |-> IF s = {} THEN 0 ELSE f[First(s)] + g[s \ {First(s)}]]
    <3>4. \A s \in Small(n - 1) : s \in Small(n) /\ h[s] = g[s]
      <4> SUFFICES ASSUME NEW s \in Small(n - 1) PROVE s \in Small(n) /\ h[s] = g[s]
        OBVIOUS
      <4>1. \A k \in Nat : k <= n - 1 => k <= n
        BY <2>3
      <4>2. s \in Small(n)
        BY <1>1, <4>1
      <4>3. g[s] = IF s = {} THEN 0 ELSE f[First(s)] + g[s \ {First(s)}]
        BY <3>3 DEF AreSums, AllSums
      <4> QED
        BY <4>2, <4>3
    <3>5. \A s \in Small(n) : s # {} => s \ {First(s)} \in Small(n - 1)
      <4> SUFFICES ASSUME NEW s \in Small(n), s # {} PROVE s \ {First(s)} \in Small(n - 1)
        OBVIOUS
      <4>1. First(s) \in s
        BY FirstIs
      <4>2. Cardinality(s \ {First(s)}) = Cardinality(s) - 1
        BY <1>1, <4>1, FS_RemoveElement
      <4>3. Cardinality(s) \in Nat /\ Cardinality(s) <= n
        BY <1>1
      <4>4. Cardinality(s) - 1 <= n - 1
        BY <2>3, <4>3
      <4> QED
        BY <4>2, <4>4
    <3>6. \A s \in Small(n) : s # {} => h[s \ {First(s)}] = g[s \ {First(s)}]
      BY <3>4, <3>5
    <3>7. h = [s \in Small(n) |-> IF s = {} THEN 0 ELSE f[First(s)] + h[s \ {First(s)}]]
      <4> DEFINE k == [s \in Small(n) |-> IF s = {} THEN 0 ELSE f[First(s)] + h[s \ {First(s)}]]
      <4>1. \A s \in Small(n) : h[s] = k[s]
        BY <3>6
      <4> QED
        BY <4>1
    <3> QED
      BY <2>3, <3>7 DEF AreSums, AllSums
  <2> QED
    BY <2>4, <2>5
<1>3. Cardinality(S) \in Nat
  BY FS_CardinalityType
<1>4. PICK g : AreSums(g, f, Small(Cardinality(S)))
  BY <1>2, <1>3
<1>5. Small(Cardinality(S)) = SUBSET S
  BY <1>1
<1> QED
  BY <1>4, <1>5 DEF AllSums

LEMMA TotalIsSum ==
    ASSUME NEW S, IsFiniteSet(S), NEW f
    PROVE  \E g : AllSums(g, f, S) /\ Total(f, S) = g[S]
<1> DEFINE it == CHOOSE g : AllSums(g, f, S)
<1>1. Total(f, S) = it[S]
  BY DEF Total, MapThenSumSet, MapThenFoldSet, AllSums, AreSums, First
<1>2. AllSums(it, f, S)
  BY SumsExist
<1> QED
  BY <1>1, <1>2

LEMMA FiniteSets ==
    ASSUME NEW S, IsFiniteSet(S), NEW T \in SUBSET S
    PROVE  /\ IsFiniteSet(T) /\ Cardinality(T) \in Nat
           /\ T # {} => /\ First(T) \in T /\ T \ {First(T)} \in SUBSET S
                        /\ Cardinality(T \ {First(T)}) \in Nat
                        /\ Cardinality(T \ {First(T)}) < Cardinality(T)
<1>1. IsFiniteSet(T) /\ Cardinality(T) \in Nat
  BY FS_Subset, FS_CardinalityType
<1>2. ASSUME T # {}
      PROVE  /\ First(T) \in T /\ Cardinality(T \ {First(T)}) \in Nat
             /\ Cardinality(T \ {First(T)}) < Cardinality(T)
  <2>1. First(T) \in T
    BY <1>2, FirstIs
  <2>2. Cardinality(T \ {First(T)}) = Cardinality(T) - 1 /\ IsFiniteSet(T \ {First(T)})
    BY <1>1, <2>1, FS_RemoveElement
  <2>3. Cardinality(T \ {First(T)}) \in Nat
    BY <2>2, FS_CardinalityType
  <2> QED
    BY <1>1, <2>1, <2>2, <2>3
<1> QED
  BY <1>1, <1>2

AgreeOn(S, f, e) == \A x \in S : f[x] = e[x]

\* Sums over the subsets of two sets agree where they both are.
LEMMA SumsAgree ==
    ASSUME NEW S, NEW T, T \subseteq S, IsFiniteSet(S), NEW f, NEW e, AgreeOn(T, f, e),
           NEW g, AllSums(g, f, S), NEW h, AllSums(h, e, T)
    PROVE  g[T] = h[T]
<1> DEFINE wrong == {s \in SUBSET T : g[s] # h[s]}
           sizes == {Cardinality(s) : s \in wrong}
<1>1. \A s \in SUBSET T : Cardinality(s) \in Nat
  BY FiniteSets
<1>2. wrong = {}
  <2> SUFFICES ASSUME wrong # {} PROVE FALSE
    OBVIOUS
  <2>1. sizes \in SUBSET Nat /\ sizes # {}
    BY <1>1
  <2> HIDE DEF sizes
  <2>2. PICK n \in sizes : \A k \in sizes : n <= k
    BY <2>1, HasMin
  <2>3. PICK s \in wrong : Cardinality(s) = n
    BY <2>2 DEF sizes
  <2>4. s \in SUBSET T /\ g[s] # h[s]
    BY <2>3
  <2>5. /\ g[s] = IF s = {} THEN 0 ELSE f[First(s)] + g[s \ {First(s)}]
        /\ h[s] = IF s = {} THEN 0 ELSE e[First(s)] + h[s \ {First(s)}]
    BY <2>4 DEF AreSums, AllSums
  <2>6. s # {}
    BY <2>4, <2>5
  <2> DEFINE r == s \ {First(s)}
  <2>7. First(s) \in T /\ r \in SUBSET T /\ Cardinality(r) \in Nat /\ Cardinality(s) \in Nat
        /\ Cardinality(r) < Cardinality(s) /\ f[First(s)] = e[First(s)]
    BY <2>4, <2>6, FiniteSets, FS_Subset DEF AgreeOn
  <2>8. r \notin wrong
    <3>1. ASSUME r \in wrong PROVE FALSE
      <4>1. Cardinality(r) \in sizes
        BY <3>1 DEF sizes
      <4>2. n <= Cardinality(r)
        BY <2>2, <4>1
      <4> QED
        BY <2>3, <2>7, <4>2
    <3> QED
      BY <3>1
  <2>9. g[r] = h[r]
    BY <2>7, <2>8
  <2> QED
    BY <2>4, <2>5, <2>6, <2>7, <2>9
<1> QED
  BY <1>2

LEMMA TotalAgrees ==
    ASSUME NEW S, IsFiniteSet(S), NEW f, NEW e, \A x \in S : f[x] = e[x]
    PROVE  Total(f, S) = Total(e, S)
<1>1. PICK g : AllSums(g, f, S) /\ Total(f, S) = g[S]
  BY TotalIsSum
<1>2. PICK h : AllSums(h, e, S) /\ Total(e, S) = h[S]
  BY TotalIsSum
<1>3. S \subseteq S /\ AgreeOn(S, f, e)
  BY DEF AgreeOn
<1>4. g[S] = h[S]
  BY <1>1, <1>2, <1>3, SumsAgree
<1> QED
  BY <1>1, <1>2, <1>4

LEMMA TotalStep ==
    ASSUME NEW S, IsFiniteSet(S), NEW f
    PROVE  Total(f, S) = IF S = {} THEN 0 ELSE f[First(S)] + Total(f, S \ {First(S)})
<1>1. PICK g : AllSums(g, f, S) /\ Total(f, S) = g[S]
  BY TotalIsSum
<1>2. g[S] = IF S = {} THEN 0 ELSE f[First(S)] + g[S \ {First(S)}]
  BY <1>1 DEF AreSums, AllSums
<1> DEFINE R == S \ {First(S)}
<1>3. IsFiniteSet(R) /\ R \in SUBSET S
  BY FS_Subset
<1> HIDE DEF R
<1>4. PICK h : AllSums(h, f, R) /\ Total(f, R) = h[R]
  BY <1>3, TotalIsSum
<1>5. g[R] = h[R]
  <2>1. AgreeOn(R, f, f) /\ R \subseteq S
    BY <1>3 DEF AgreeOn
  <2> QED
    BY <1>1, <1>4, <2>1, SumsAgree
<1> QED
  BY <1>1, <1>2, <1>4, <1>5 DEF R

LEMMA TotalNat ==
    ASSUME NEW S, IsFiniteSet(S), NEW f, \A x \in S : f[x] \in Nat
    PROVE  Total(f, S) \in Nat
<1> DEFINE wrong == {s \in SUBSET S : Total(f, s) \notin Nat}
           sizes == {Cardinality(s) : s \in wrong}
<1>1. wrong = {}
  <2> SUFFICES ASSUME wrong # {} PROVE FALSE
    OBVIOUS
  <2>1. sizes \in SUBSET Nat /\ sizes # {}
    <3>1. \A s \in SUBSET S : Cardinality(s) \in Nat
      BY FiniteSets
    <3> QED
      BY <3>1
  <2> HIDE DEF sizes
  <2>2. PICK n \in sizes : \A k \in sizes : n <= k
    BY <2>1, HasMin
  <2>3. PICK s \in wrong : Cardinality(s) = n
    BY <2>2 DEF sizes
  <2>4. s \in SUBSET S /\ Total(f, s) \notin Nat /\ IsFiniteSet(s)
    BY <2>3, FS_Subset
  <2>5. Total(f, s) = IF s = {} THEN 0 ELSE f[First(s)] + Total(f, s \ {First(s)})
    BY <2>4, TotalStep
  <2>6. s # {}
    BY <2>4, <2>5
  <2> DEFINE r == s \ {First(s)}
  <2>7. First(s) \in S /\ r \in SUBSET S /\ Cardinality(r) \in Nat /\ Cardinality(s) \in Nat
        /\ Cardinality(r) < Cardinality(s)
    BY <2>4, <2>6, FiniteSets
  <2>8. r \notin wrong
    <3>1. ASSUME r \in wrong PROVE FALSE
      <4>1. Cardinality(r) \in sizes
        BY <3>1 DEF sizes
      <4>2. n <= Cardinality(r)
        BY <2>2, <4>1
      <4> QED
        BY <2>3, <2>7, <4>2
    <3> QED
      BY <3>1
  <2>9. Total(f, r) \in Nat /\ f[First(s)] \in Nat
    BY <2>7, <2>8
  <2> HIDE DEF r, wrong
  <2> QED
    BY <2>4, <2>5, <2>6, <2>9 DEF r
<1> QED
  BY <1>1

\* The order of the elements does not matter: any of them may be the last.
LEMMA TotalWithout ==
    ASSUME NEW S, IsFiniteSet(S), NEW f, \A x \in S : f[x] \in Nat, NEW x \in S
    PROVE  Total(f, S) = f[x] + Total(f, S \ {x})
<1> DEFINE Right(s) == \A y \in s : Total(f, s) = f[y] + Total(f, s \ {y})
           wrong == {s \in SUBSET S : ~Right(s)}
           sizes == {Cardinality(s) : s \in wrong}
<1>1. wrong = {}
  <2> SUFFICES ASSUME wrong # {} PROVE FALSE
    OBVIOUS
  <2>1. sizes \in SUBSET Nat /\ sizes # {}
    <3>1. \A s \in SUBSET S : Cardinality(s) \in Nat
      BY FiniteSets
    <3> QED
      BY <3>1
  <2> HIDE DEF sizes
  <2>2. PICK n \in sizes : \A k \in sizes : n <= k
    BY <2>1, HasMin
  <2>3. PICK s \in wrong : Cardinality(s) = n
    BY <2>2 DEF sizes
  <2>4. s \in SUBSET S /\ IsFiniteSet(s)
    BY <2>3, FS_Subset
  <2>5. PICK y \in s : Total(f, s) # f[y] + Total(f, s \ {y})
    BY <2>3
  <2> DEFINE z == First(s)
  <2>6. z \in s /\ Total(f, s) = f[z] + Total(f, s \ {z})
    BY <2>4, <2>5, TotalStep, FirstIs
  <2>7. y # z
    BY <2>5, <2>6
  <2>8. ASSUME NEW v \in s PROVE Right(s \ {v})
    <3>1. Cardinality(s \ {v}) = Cardinality(s) - 1 /\ Cardinality(s) \in Nat
      BY <2>4, FS_RemoveElement, FS_CardinalityType
    <3>2. Cardinality(s \ {v}) \in Nat
      BY <2>4, FS_RemoveElement, FS_CardinalityType
    <3>3. ASSUME s \ {v} \in wrong PROVE FALSE
      <4>1. Cardinality(s \ {v}) \in sizes
        BY <3>3 DEF sizes
      <4>2. n <= Cardinality(s \ {v})
        BY <2>2, <4>1
      <4> QED
        BY <2>3, <3>1, <3>2, <4>2
    <3> QED
      BY <2>4, <3>3
  <2> DEFINE rest == s \ {y, z}
  <2>9. Total(f, s \ {z}) = f[y] + Total(f, (s \ {z}) \ {y})
    BY <2>6, <2>7, <2>8
  <2>10. Total(f, s \ {y}) = f[z] + Total(f, (s \ {y}) \ {z})
    BY <2>6, <2>7, <2>8
  <2>11. (s \ {z}) \ {y} = rest /\ (s \ {y}) \ {z} = rest
    OBVIOUS
  <2>12. Total(f, rest) \in Nat /\ f[y] \in Nat /\ f[z] \in Nat
    <3>1. rest \in SUBSET S /\ IsFiniteSet(rest)
      BY <2>4, FS_Subset
    <3> QED
      BY <2>4, <2>6, <3>1, TotalNat
  <2>13. \A a, b, c \in Nat : a + (b + c) = b + (a + c)
    OBVIOUS
  <2> HIDE DEF z, rest
  <2> QED
    BY <2>5, <2>6, <2>9, <2>10, <2>11, <2>12, <2>13
<1> QED
  BY <1>1

\* More elements, more in all.
LEMMA TotalOfMore ==
    ASSUME NEW S, IsFiniteSet(S), NEW f, \A x \in S : f[x] \in Nat, NEW T \in SUBSET S
    PROVE  Total(f, T) <= Total(f, S)
<1> DEFINE wrong == {s \in SUBSET S : T \subseteq s /\ ~(Total(f, T) <= Total(f, s))}
           sizes == {Cardinality(s) : s \in wrong}
<1>1. wrong = {}
  <2> SUFFICES ASSUME wrong # {} PROVE FALSE
    OBVIOUS
  <2>1. sizes \in SUBSET Nat /\ sizes # {}
    <3>1. \A s \in SUBSET S : Cardinality(s) \in Nat
      BY FiniteSets
    <3> QED
      BY <3>1
  <2> HIDE DEF sizes
  <2>2. PICK n \in sizes : \A k \in sizes : n <= k
    BY <2>1, HasMin
  <2>3. PICK s \in wrong : Cardinality(s) = n
    BY <2>2 DEF sizes
  <2>4. s \in SUBSET S /\ T \subseteq s /\ ~(Total(f, T) <= Total(f, s)) /\ IsFiniteSet(s)
    BY <2>3, FS_Subset
  <2>5. Total(f, T) \in Nat
    BY FS_Subset, TotalNat
  <2>6. s # T
    BY <2>4, <2>5
  <2>7. PICK x \in s : x \notin T
    BY <2>4, <2>6
  <2> DEFINE r == s \ {x}
  <2>8. Cardinality(r) = Cardinality(s) - 1 /\ Cardinality(s) \in Nat
    BY <2>4, FS_RemoveElement, FS_CardinalityType
  <2>9. r \in SUBSET S /\ T \subseteq r /\ IsFiniteSet(r)
    BY <2>4, <2>7, FS_Subset
  <2>10. r \notin wrong
    <3>1. ASSUME r \in wrong PROVE FALSE
      <4>1. Cardinality(r) \in sizes
        BY <3>1 DEF sizes
      <4>2. n <= Cardinality(r)
        BY <2>2, <4>1
      <4> QED
        BY <2>3, <2>8, <4>2
    <3> QED
      BY <3>1
  <2>11. Total(f, T) <= Total(f, r) /\ Total(f, r) \in Nat /\ f[x] \in Nat
    BY <2>4, <2>9, <2>10, TotalNat
  <2>12. Total(f, s) = f[x] + Total(f, r)
    BY <2>4, TotalWithout
  <2>13. \A a, b, c \in Nat : a <= b => a <= c + b
    OBVIOUS
  <2> HIDE DEF r, wrong
  <2> QED
    BY <2>4, <2>5, <2>11, <2>12, <2>13
<1> QED
  BY <1>1

\* One of the elements counts more.
GrowsAt(S, f, e, x, c) ==
    /\ \A y \in S : f[y] \in Nat
    /\ x \in S /\ c \in Nat /\ e[x] = f[x] + c /\ \A y \in S : y # x => e[y] = f[y]

LEMMA TotalGrows ==
    ASSUME NEW S, IsFiniteSet(S), NEW f, NEW e, NEW x, NEW c, GrowsAt(S, f, e, x, c)
    PROVE  Total(e, S) = Total(f, S) + c
<1> DEFINE R == S \ {x}
<1>0. /\ \A y \in S : f[y] \in Nat
      /\ x \in S /\ c \in Nat /\ e[x] = f[x] + c /\ \A y \in S : y # x => e[y] = f[y]
  BY DEF GrowsAt
<1>1. IsFiniteSet(R)
  BY FS_Subset
<1>2. \A y \in S : e[y] \in Nat
  <2>1. \A a, b \in Nat : a + b \in Nat
    OBVIOUS
  <2> QED
    BY <1>0, <2>1
<1>3. Total(f, S) = f[x] + Total(f, R) /\ Total(e, S) = e[x] + Total(e, R)
  BY <1>0, <1>2, TotalWithout
<1>4. Total(e, R) = Total(f, R)
  BY <1>0, <1>1, TotalAgrees
<1>5. Total(f, R) \in Nat /\ f[x] \in Nat
  BY <1>0, <1>1, TotalNat
<1>6. \A a, b, d \in Nat : (a + d) + b = (a + b) + d
  OBVIOUS
<1> HIDE DEF R
<1> QED
  BY <1>0, <1>3, <1>4, <1>5, <1>6

\* Where nothing counts there is nothing in all.
LEMMA TotalZero ==
    ASSUME NEW S, IsFiniteSet(S), NEW f, \A x \in S : f[x] = 0
    PROVE  Total(f, S) = 0
<1> DEFINE wrong == {s \in SUBSET S : Total(f, s) # 0}
           sizes == {Cardinality(s) : s \in wrong}
<1>1. wrong = {}
  <2> SUFFICES ASSUME wrong # {} PROVE FALSE
    OBVIOUS
  <2>1. sizes \in SUBSET Nat /\ sizes # {}
    <3>1. \A s \in SUBSET S : Cardinality(s) \in Nat
      BY FiniteSets
    <3> QED
      BY <3>1
  <2> HIDE DEF sizes
  <2>2. PICK n \in sizes : \A k \in sizes : n <= k
    BY <2>1, HasMin
  <2>3. PICK s \in wrong : Cardinality(s) = n
    BY <2>2 DEF sizes
  <2>4. s \in SUBSET S /\ Total(f, s) # 0 /\ IsFiniteSet(s)
    BY <2>3, FS_Subset
  <2>5. Total(f, s) = IF s = {} THEN 0 ELSE f[First(s)] + Total(f, s \ {First(s)})
    BY <2>4, TotalStep
  <2>6. s # {}
    BY <2>4, <2>5
  <2> DEFINE r == s \ {First(s)}
  <2>7. First(s) \in S /\ r \in SUBSET S /\ Cardinality(r) \in Nat /\ Cardinality(s) \in Nat
        /\ Cardinality(r) < Cardinality(s)
    BY <2>4, <2>6, FiniteSets
  <2>8. r \notin wrong
    <3>1. ASSUME r \in wrong PROVE FALSE
      <4>1. Cardinality(r) \in sizes
        BY <3>1 DEF sizes
      <4>2. n <= Cardinality(r)
        BY <2>2, <4>1
      <4> QED
        BY <2>3, <2>7, <4>2
    <3> QED
      BY <3>1
  <2>9. Total(f, r) = 0 /\ f[First(s)] = 0
    BY <2>7, <2>8
  <2> HIDE DEF r, wrong
  <2> QED
    BY <2>4, <2>5, <2>6, <2>9 DEF r
<1> QED
  BY <1>1

----------------------------------------------------------------------------
(***************************************************************************)
(* BudgetsAddUp.  An account holds what the bills it stands for cost, in   *)
(* all and model by model (Accounted): a new bill costs nothing, and what  *)
(* a report adds to a bill it adds to one entry of two accounts.  Of the   *)
(* bills before a request only those that were streaming when it asked may *)
(* still grow (EarlierAreOver), and so what the others cost stays what the *)
(* preflight found, or less, for the account is the sum of more of them.   *)
(***************************************************************************)

Events  == {"none", "warning", "fallback", "block"}
States  == {"ok", "warning", "limited"}
Bills   == [caller : Callers, asked : Names, estimate : Nat, model : Names \cup {"none"},
            event : Events, state : States, cost : Nat, at : {"refused", "streaming", "over"},
            peers : SUBSET Nat]

\* The requests of the set B, their costs, and those of them that model m served.
CostsOf(list) == [i \in DOMAIN list |-> list[i].cost]
ServedBy(list, B, m) == {i \in B : resolveModelKey(list[i].model) = m}

\* An account that holds what the requests of the set B have cost, in all and model by model.
Accounted(totals, list, B) ==
    /\ totals.totalUsd = Total(CostsOf(list), B)
    /\ \A m \in Models : totals.perModelUsd[m] = Total(CostsOf(list), ServedBy(list, B, m))

Budgets == [totalUsd : Nat, perModelUsd : [Models -> Nat]]

BillsOfSession(list, s) == {i \in DOMAIN list : list[i].caller.session = s}
BillsOfUser(list, u)    == {i \in DOMAIN list : list[i].caller.user = u}

\* What a refused request cost, which is nothing.
RefusedCostsNothing == \A i \in DOMAIN bills : bills[i].at = "refused" => bills[i].cost = 0
AskedAreNames == \A i \in DOMAIN bills : bills[i].at # "refused" => bills[i].model \in Names

CostTypes ==
    /\ config \in Configs
    /\ sessionBudget \in [Accounts -> Budgets]
    /\ userBudget \in [Payers -> Budgets]
    /\ bills \in Seq(Bills)

AccountsAreRight ==
    /\ \A s \in Accounts : Accounted(sessionBudget[s], bills, BillsOfSession(bills, s))
    /\ \A u \in Payers : Accounted(userBudget[u], bills, BillsOfUser(bills, u))

\* Those before a request that were not under way when it asked are over.
EarlierAreOver == \A i \in DOMAIN bills : \A j \in Before(i) : bills[j].at # "streaming"

CostInd == /\ CostTypes /\ RefusedCostsNothing /\ AskedAreNames /\ AccountsAreRight
           /\ EarlierAreOver /\ OwnModelsBelowLimit /\ FallbacksAreDue

LEMMA ModelsFinite == IsFiniteSet(Models) /\ \A n \in Names : resolveModelKey(n) \in Models
<1>1. IsFiniteSet(Names)
  BY CostAssumption
<1> DEFINE f == [n \in Names |-> resolveModelKey(n)]
<1>2. IsFiniteSet({resolveModelKey(n) : n \in Names})
  <2>1. f \in Surjection(Names, {resolveModelKey(n) : n \in Names})
    BY DEF Surjection
  <2> QED
    BY <1>1, <2>1, FS_Surjection
<1> QED
  BY <1>2 DEF Models

LEMMA BillsAre ==
    ASSUME NEW list \in Seq(Bills)
    PROVE  /\ Len(list) \in Nat /\ DOMAIN list = 1 .. Len(list) /\ IsFiniteSet(DOMAIN list)
           /\ \A i \in DOMAIN list : list[i] \in Bills /\ list[i].cost \in Nat
           /\ \A B \in SUBSET DOMAIN list :
                 IsFiniteSet(B) /\ \A i \in B : CostsOf(list)[i] = list[i].cost /\ CostsOf(list)[i] \in Nat
<1>1. /\ Len(list) \in Nat /\ DOMAIN list = 1 .. Len(list) /\ \A i \in DOMAIN list : list[i] \in Bills
  BY LenProperties, ElementOfSeq
<1>2. IsFiniteSet(DOMAIN list)
  BY <1>1, FS_Interval
<1>3. \A i \in DOMAIN list : list[i].cost \in Nat /\ CostsOf(list)[i] = list[i].cost
  BY <1>1 DEF Bills, CostsOf
<1>4. \A B \in SUBSET DOMAIN list : IsFiniteSet(B)
  BY <1>2, FS_Subset
<1> QED
  BY <1>1, <1>2, <1>3, <1>4

\* A request that has cost nothing joins the list, and maybe those of B.
Joins(list, b, more, B, C) ==
    /\ list \in Seq(Bills) /\ b \in Bills /\ b.cost = 0 /\ more = Append(list, b)
    /\ B \in SUBSET DOMAIN list /\ C \in SUBSET DOMAIN more
    /\ C = B \/ C = B \cup {Len(list) + 1}

\* A request that has cost nothing changes no sum, whether it is among those summed or not.
LEMMA FreeBill ==
    ASSUME NEW list, NEW b, NEW more, NEW B, NEW C, Joins(list, b, more, B, C)
    PROVE  Total(CostsOf(more), C) = Total(CostsOf(list), B)
<1> DEFINE k == Len(list) + 1
<1>0. /\ list \in Seq(Bills) /\ b \in Bills /\ b.cost = 0 /\ more = Append(list, b)
      /\ B \in SUBSET DOMAIN list /\ C \in SUBSET DOMAIN more
      /\ C = B \/ C = B \cup {k}
  BY DEF Joins
<1>1. /\ Len(list) \in Nat /\ more \in Seq(Bills) /\ DOMAIN list = 1 .. Len(list)
      /\ DOMAIN more = 1 .. k /\ more[k] = b /\ \A i \in DOMAIN list : more[i] = list[i]
  BY <1>0, BillsAre, AppendProperties
<1>2. /\ IsFiniteSet(B) /\ \A i \in B : CostsOf(list)[i] = list[i].cost
      /\ IsFiniteSet(C) /\ \A i \in C : CostsOf(more)[i] = more[i].cost /\ CostsOf(more)[i] \in Nat
  BY <1>0, <1>1, BillsAre
<1>3. B \in SUBSET DOMAIN more /\ k \notin B /\ \A i \in B : i \in DOMAIN list
  BY <1>0, <1>1
<1>4. \A i \in B : CostsOf(more)[i] = more[i].cost
  BY <1>1, <1>3, BillsAre
<1>5. \A i \in B : CostsOf(more)[i] = CostsOf(list)[i]
  BY <1>1, <1>2, <1>3, <1>4
<1>6. Total(CostsOf(more), B) = Total(CostsOf(list), B)
  BY <1>2, <1>5, TotalAgrees
<1>7. CASE C = B \cup {k}
  <2>1. C \ {k} = B /\ k \in C
    BY <1>3, <1>7
  <2>2. Total(CostsOf(more), C) = CostsOf(more)[k] + Total(CostsOf(more), B)
    <3> DEFINE f == CostsOf(more)
    <3>1. IsFiniteSet(C) /\ \A i \in C : f[i] \in Nat
      BY <1>2
    <3> HIDE DEF f, k
    <3>2. Total(f, C) = f[k] + Total(f, C \ {k})
      BY <2>1, <3>1, TotalWithout
    <3> QED
      BY <2>1, <3>2 DEF f
  <2>3. CostsOf(more)[k] = 0
    BY <1>0, <1>1, <1>2, <2>1
  <2>4. Total(CostsOf(list), B) \in Nat
    BY <1>0, BillsAre, TotalNat
  <2> HIDE DEF k
  <2> QED
    BY <1>6, <2>2, <2>3, <2>4
<1>8. CASE C = B
  BY <1>6, <1>8
<1> QED
  BY <1>0, <1>7, <1>8

LEMMA FreeBillAccounted ==
    ASSUME NEW list, NEW b, NEW more, NEW B, NEW C, Joins(list, b, more, B, C), NEW totals, Accounted(totals, list, B)
    PROVE  Accounted(totals, more, C)
<1> DEFINE k == Len(list) + 1
<1>0. /\ list \in Seq(Bills) /\ b \in Bills /\ b.cost = 0 /\ more = Append(list, b)
      /\ B \in SUBSET DOMAIN list /\ C \in SUBSET DOMAIN more
      /\ C = B \/ C = B \cup {k}
  BY DEF Joins
<1>1. /\ Len(list) \in Nat /\ DOMAIN list = 1 .. Len(list) /\ more[k] = b
      /\ \A i \in DOMAIN list : more[i] = list[i]
  BY <1>0, BillsAre, AppendProperties
<1>2. ASSUME NEW m \in Models
      PROVE  Total(CostsOf(more), ServedBy(more, C, m)) = Total(CostsOf(list), ServedBy(list, B, m))
  <2> DEFINE D == ServedBy(list, B, m)
             E == ServedBy(more, C, m)
  <2>1. \A i \in B : i \in E <=> i \in D
    BY <1>0, <1>1 DEF ServedBy
  <2>2. E = D \/ E = D \cup {k}
    BY <1>0, <2>1 DEF ServedBy
  <2>3. D \in SUBSET DOMAIN list /\ E \in SUBSET DOMAIN more
    BY <1>0 DEF ServedBy
  <2> HIDE DEF D, E
  <2>4. Joins(list, b, more, D, E)
    BY <1>0, <2>2, <2>3 DEF Joins
  <2>5. Total(CostsOf(more), E) = Total(CostsOf(list), D)
    BY <2>4, FreeBill
  <2> QED
    BY <2>5 DEF D, E
<1>3. Total(CostsOf(more), C) = Total(CostsOf(list), B)
  BY FreeBill
<1> QED
  BY <1>2, <1>3 DEF Accounted

\* A request of the list costs c more.
Grows(list, i, c, grown) ==
    /\ list \in Seq(Bills) /\ grown \in Seq(Bills) /\ DOMAIN grown = DOMAIN list
    /\ i \in DOMAIN list /\ c \in Nat /\ grown[i].cost = list[i].cost + c
    /\ \A j \in DOMAIN list :
          grown[j].model = list[j].model /\ (j # i => grown[j].cost = list[j].cost)

LEMMA GrownTotal ==
    ASSUME NEW list, NEW i, NEW c, NEW grown, Grows(list, i, c, grown), NEW B \in SUBSET DOMAIN list
    PROVE  Total(CostsOf(grown), B) = IF i \in B THEN Total(CostsOf(list), B) + c
                                      ELSE Total(CostsOf(list), B)
<1> DEFINE f == CostsOf(list)
           e == CostsOf(grown)
<1>1. IsFiniteSet(B) /\ \A j \in B : f[j] \in Nat
  BY BillsAre DEF Grows
<1>2. \A j \in B : f[j] = list[j].cost /\ e[j] = grown[j].cost
  BY BillsAre DEF Grows
<1>3. \A j \in B : j # i => e[j] = f[j]
  BY <1>2 DEF Grows
<1>4. i \in B => e[i] = f[i] + c
  BY <1>2 DEF Grows
<1>5. c \in Nat
  BY DEF Grows
<1> HIDE DEF f, e
<1>6. CASE i \in B
  <2>1. GrowsAt(B, f, e, i, c)
    BY <1>1, <1>3, <1>4, <1>5, <1>6 DEF GrowsAt
  <2> QED
    BY <1>1, <1>6, <2>1, TotalGrows DEF f, e
<1>7. CASE i \notin B
  <2>1. \A j \in B : e[j] = f[j]
    BY <1>3, <1>7
  <2>2. Total(e, B) = Total(f, B)
    BY <1>1, <2>1, TotalAgrees
  <2> QED
    BY <1>7, <2>2 DEF f, e
<1> QED
  BY <1>6, <1>7

LEMMA AddedIs ==
    ASSUME NEW p \in Budgets, NEW n \in Models, NEW c \in Nat, NEW q, q = Adds(p, n, c)
    PROVE  /\ q \in Budgets /\ q.totalUsd = p.totalUsd + c
           /\ \A m \in Models : q.perModelUsd[m] = IF m = n THEN p.perModelUsd[m] + c
                                                   ELSE p.perModelUsd[m]
<1>1. p.totalUsd \in Nat /\ p.perModelUsd \in [Models -> Nat]
  BY DEF Budgets
<1>2. p.totalUsd + c \in Nat /\ p.perModelUsd[n] + c \in Nat
  BY <1>1
<1> DEFINE per == [p.perModelUsd EXCEPT ![n] = @ + c]
<1>3. per \in [Models -> Nat] /\ \A m \in Models : per[m] = IF m = n THEN p.perModelUsd[m] + c
                                                            ELSE p.perModelUsd[m]
  BY <1>1, <1>2
<1>4. q = [p EXCEPT !.totalUsd = p.totalUsd + c, !.perModelUsd = per]
  BY DEF Adds
<1> HIDE DEF per
<1>5. q = [totalUsd |-> p.totalUsd + c, perModelUsd |-> per]
  BY <1>4 DEF Budgets
<1> QED
  BY <1>2, <1>3, <1>5 DEF Budgets

LEMMA GrownAccounted ==
    ASSUME NEW list, NEW i, NEW c, NEW grown, Grows(list, i, c, grown), NEW B \in SUBSET DOMAIN list,
           NEW p \in Budgets, Accounted(p, list, B),
           NEW n \in Models, n = resolveModelKey(list[i].model),
           NEW q, q = IF i \in B THEN Adds(p, n, c) ELSE p
    PROVE  Accounted(q, grown, B)
<1>1. c \in Nat /\ i \in DOMAIN list /\ \A j \in DOMAIN list : grown[j].model = list[j].model
  BY DEF Grows
<1>2. /\ q.totalUsd = IF i \in B THEN p.totalUsd + c ELSE p.totalUsd
      /\ \A m \in Models : q.perModelUsd[m] = IF i \in B /\ m = n THEN p.perModelUsd[m] + c
                                              ELSE p.perModelUsd[m]
  <2>1. CASE i \in B
    BY <1>1, <2>1, AddedIs
  <2>2. CASE i \notin B
    BY <2>2
  <2> QED
    BY <2>1, <2>2
<1>3. Total(CostsOf(grown), B) = IF i \in B THEN Total(CostsOf(list), B) + c
                                 ELSE Total(CostsOf(list), B)
  BY GrownTotal
<1>4. ASSUME NEW m \in Models
      PROVE  q.perModelUsd[m] = Total(CostsOf(grown), ServedBy(grown, B, m))
  <2> DEFINE D == ServedBy(list, B, m)
  <2>1. ServedBy(grown, B, m) = D /\ D \in SUBSET DOMAIN list /\ (i \in D <=> i \in B /\ m = n)
    BY <1>1 DEF ServedBy
  <2>2. p.perModelUsd[m] = Total(CostsOf(list), D)
    BY DEF Accounted
  <2> HIDE DEF D
  <2>3. Total(CostsOf(grown), D) = IF i \in D THEN Total(CostsOf(list), D) + c
                                   ELSE Total(CostsOf(list), D)
    BY <2>1, GrownTotal
  <2> QED
    BY <1>2, <2>1, <2>2, <2>3
<1>5. q.totalUsd = Total(CostsOf(grown), B)
  <2>1. p.totalUsd = Total(CostsOf(list), B)
    BY DEF Accounted
  <2> QED
    BY <1>2, <1>3, <2>1
<1> QED
  BY <1>4, <1>5 DEF Accounted

LEMMA CostOfIs == \A B : CostOf(B) = Total(CostsOf(bills), B)
BY DEF CostOf, CostsOf

\* An account that is right shows the bill.
LEMMA AccountShows ==
    ASSUME CostTypes, RefusedCostsNothing, AskedAreNames, NEW B \in SUBSET DOMAIN bills,
           NEW p \in Budgets, Accounted(p, bills, B)
    PROVE  toSnapshot(p) = Bill(B)
<1> DEFINE key(i) == resolveModelKey(bills[i].model)
           paid   == {n \in Models : p.perModelUsd[n] > 0}
           used   == {key(i) : i \in {j \in B : bills[j].cost > 0}}
<1>1. bills \in Seq(Bills)
  BY DEF CostTypes
<1>2. IsFiniteSet(B) /\ \A i \in B : i \in DOMAIN bills /\ bills[i].cost \in Nat
                                     /\ CostsOf(bills)[i] = bills[i].cost
  BY <1>1, BillsAre
<1>3. \A m \in Models : p.perModelUsd[m] = Total(CostsOf(bills), ServedBy(bills, B, m)) /\ p.perModelUsd[m] \in Nat
  BY DEF Accounted, Budgets
<1>4. \A m : ServedBy(bills, B, m) \in SUBSET B /\ IsFiniteSet(ServedBy(bills, B, m))
  BY <1>2, FS_Subset DEF ServedBy
<1>5. ASSUME NEW m \in paid PROVE m \in used
  <2> DEFINE D == ServedBy(bills, B, m)
  <2>1. p.perModelUsd[m] = Total(CostsOf(bills), D) /\ p.perModelUsd[m] # 0 /\ IsFiniteSet(D) /\ D \in SUBSET B
    BY <1>3, <1>4
  <2>2. \A i \in D : key(i) = m
    BY DEF ServedBy
  <2> HIDE DEF D
  <2>3. ~\A i \in D : CostsOf(bills)[i] = 0
    BY <2>1, TotalZero
  <2>4. PICK i \in D : CostsOf(bills)[i] # 0
    BY <2>3
  <2>5. i \in B /\ bills[i].cost > 0
    BY <1>2, <2>1, <2>4
  <2> QED
    BY <2>2, <2>4, <2>5
<1>6. ASSUME NEW m \in used PROVE m \in paid
  <2>1. PICK i \in B : bills[i].cost > 0 /\ key(i) = m
    OBVIOUS
  <2>2. bills[i].at # "refused" /\ i \in DOMAIN bills
    BY <1>2, <2>1 DEF RefusedCostsNothing
  <2>3. m \in Models
    BY <2>1, <2>2, ModelsFinite DEF AskedAreNames
  <2> DEFINE D == ServedBy(bills, B, m)
  <2>4. i \in D /\ IsFiniteSet(D) /\ D \in SUBSET B
    BY <1>4, <2>1 DEF ServedBy
  <2>5. p.perModelUsd[m] = Total(CostsOf(bills), D)
    BY <1>3, <2>3
  <2> DEFINE f == CostsOf(bills)
             R == D \ {i}
  <2>6. \A j \in D : f[j] \in Nat
    BY <1>2, <2>4
  <2>7. f[i] > 0 /\ f[i] \in Nat
    BY <1>2, <2>1
  <2>8. IsFiniteSet(R) /\ \A j \in R : f[j] \in Nat
    BY <2>4, <2>6, FS_Subset
  <2> HIDE DEF D, f
  <2>9. Total(f, D) = f[i] + Total(f, R)
    BY <2>4, <2>6, TotalWithout
  <2> HIDE DEF R
  <2>10. Total(f, R) \in Nat
    BY <2>8, TotalNat
  <2>11. p.perModelUsd[m] > 0
    BY <2>5, <2>7, <2>9, <2>10 DEF f
  <2> QED
    BY <2>3, <2>11
<1>7. paid = used
  BY <1>5, <1>6
<1>8. \A m \in paid : p.perModelUsd[m] = CostOf({i \in B : key(i) = m})
  BY <1>3, CostOfIs DEF ServedBy
<1> HIDE DEF paid, used
<1>9. {<<m, p.perModelUsd[m]>> : m \in paid} = {<<m, CostOf({i \in B : key(i) = m})>> : m \in used}
  BY <1>7, <1>8
<1>10. p.totalUsd = CostOf(B)
  BY CostOfIs DEF Accounted
<1> QED
  BY <1>9, <1>10 DEF toSnapshot, Bill, paid, used

\* What a preflight decides.
LEMMA Preflight ==
    ASSUME CostTypes, NEW s \in Accounts, NEW m \in Names, NEW estimate \in Nat,
           NEW r, r = evaluateBudgetPreflight(s, m, estimate)
    PROVE  /\ r.model \in Names \cup {"none"} /\ r.event \in Events /\ r.state \in States
           /\ r # Refusal =>
                 /\ r.model \in Names /\ getModelPolicyTag(r.model) # "block"
                 /\ config.enabled /\ config.enforceHardLimit /\ r.event # "fallback" =>
                       ~(sessionBudget[s].totalUsd + estimate >= HardLimit)
           /\ r.event = "fallback" =>
                 config.hardLimitAction # "block" /\ HardLimit <= sessionBudget[s].totalUsd + estimate
<1> DEFINE projected == sessionBudget[s].totalUsd + estimate
           fallback  == config.fallbackModelKey
           tag(n)    == getModelPolicyTag(n)
<1>1. fallback \in Names
  BY CostAssumption DEF CostTypes
<1>2. r = IF tag(m) = "block" THEN Refusal
          ELSE IF ~config.enabled
            THEN [model |-> m, state |-> classifyBudgetState(projected),
                  event |-> IF tag(m) = "warn" THEN "warning" ELSE "none"]
          ELSE IF AtHardLimit(projected)
            THEN IF config.hardLimitAction = "block" \/ tag(fallback) = "block" THEN Refusal
                 ELSE [model |-> fallback, state |-> "limited", event |-> "fallback"]
          ELSE IF config.enforceSoftLimit /\ projected >= SoftLimit
            THEN [model |-> m, state |-> "warning", event |-> "warning"]
          ELSE [model |-> m, state |-> "ok", event |-> "none"]
  BY DEF evaluateBudgetPreflight
<1>3. classifyBudgetState(projected) \in States
  BY DEF classifyBudgetState, States
<1>4. AtHardLimit(projected) <=> config.enforceHardLimit /\ projected >= HardLimit
  BY DEF AtHardLimit
<1> DEFINE beyond == projected >= HardLimit
           soft == config.enforceSoftLimit /\ projected >= SoftLimit
           state == classifyBudgetState(projected)
<1> HIDE DEF projected, fallback, tag, beyond, soft, state
<1>5. CASE tag(m) = "block"
  <2>1. r = Refusal
    BY <1>2, <1>5
  <2> QED
    BY <2>1 DEF Refusal, Events, States
<1>6. CASE tag(m) # "block" /\ ~config.enabled
  BY <1>2, <1>3, <1>6 DEF Events, state, tag
<1>7. CASE tag(m) # "block" /\ config.enabled /\ AtHardLimit(projected)
  <2>1. r = Refusal \/ (r = [model |-> fallback, state |-> "limited", event |-> "fallback"]
                        /\ tag(fallback) # "block" /\ config.hardLimitAction # "block")
    BY <1>2, <1>7
  <2>2. HardLimit <= sessionBudget[s].totalUsd + estimate
    <3>1. HardLimit \in Nat /\ projected \in Nat
      BY CostAssumption DEF CostTypes, Budgets, projected
    <3>2. projected >= HardLimit
      BY <1>4, <1>7
    <3>3. HardLimit <= projected
      BY <3>1, <3>2
    <3> QED
      BY <3>3 DEF projected
  <2>3. CASE r = Refusal
    BY <2>3 DEF Refusal, Events, States
  <2>4. CASE r # Refusal
    <3>1. r.model = fallback /\ r.state = "limited" /\ r.event = "fallback"
      BY <2>1, <2>4
    <3>2. getModelPolicyTag(r.model) # "block" /\ config.hardLimitAction # "block"
      BY <2>1, <2>4, <3>1 DEF tag
    <3> QED
      BY <1>1, <2>2, <3>1, <3>2 DEF Events, States
  <2> QED
    BY <2>3, <2>4
<1>8. CASE tag(m) # "block" /\ config.enabled /\ ~AtHardLimit(projected)
  <2>1. \/ r = [model |-> m, state |-> "warning", event |-> "warning"]
        \/ r = [model |-> m, state |-> "ok", event |-> "none"]
    BY <1>2, <1>8
  <2>2. config.enforceHardLimit => ~(sessionBudget[s].totalUsd + estimate >= HardLimit)
    BY <1>4, <1>8 DEF projected
  <2> QED
    BY <1>8, <2>1, <2>2 DEF Events, States, tag
<1> QED
  BY <1>5, <1>6, <1>7, <1>8

LEMMA Priced == \A n \in Names, units \in Nat : estimateRequestCost(units, n) \in Nat
<1> SUFFICES ASSUME NEW n \in Names, NEW units \in Nat
             PROVE  units * getPricingForModel(n) \in Nat
  BY DEF estimateRequestCost
<1>1. getPricingForModel(n) \in Nat
  BY CostAssumption DEF getPricingForModel
<1>2. \A a, b \in Nat : a * b \in Nat
  OBVIOUS
<1> QED
  BY <1>1, <1>2

LEMMA CostStart == CostInit => CostInd
<1> SUFFICES ASSUME CostInit PROVE CostInd
  OBVIOUS
<1>1. /\ config \in Configs /\ bills = <<>> /\ \A s \in Accounts : sessionBudget[s] = NoUsage
      /\ \A u \in Payers : userBudget[u] = NoUsage
  BY DEF CostInit
<1>2. bills \in Seq(Bills) /\ DOMAIN bills = {}
  BY <1>1
<1>3. \A B \in SUBSET DOMAIN bills : Accounted(NoUsage, bills, B)
  <2> SUFFICES ASSUME NEW B \in SUBSET DOMAIN bills PROVE Accounted(NoUsage, bills, B)
    OBVIOUS
  <2>1. B = {} /\ \A m : ServedBy(bills, B, m) = {}
    BY <1>2 DEF ServedBy
  <2>2. \A f : Total(f, {}) = 0
    BY TotalStep, FS_EmptySet
  <2>3. NoUsage.totalUsd = 0 /\ \A m \in Models : NoUsage.perModelUsd[m] = 0
    BY DEF NoUsage
  <2> QED
    BY <2>1, <2>2, <2>3 DEF Accounted
<1>4. CostTypes
  <2>1. NoUsage \in Budgets
    BY DEF NoUsage, Budgets
  <2> QED
    BY <1>1, <1>2, <2>1 DEF CostTypes, CostInit
<1>5. AccountsAreRight
  BY <1>1, <1>3 DEF AccountsAreRight, BillsOfSession, BillsOfUser
<1>6. RefusedCostsNothing /\ AskedAreNames /\ EarlierAreOver /\ OwnModelsBelowLimit /\ FallbacksAreDue
  BY <1>2 DEF RefusedCostsNothing, AskedAreNames, EarlierAreOver, OwnModelsBelowLimit, AtFullPrice,
              FallbacksAreDue
<1> QED
  BY <1>4, <1>5, <1>6 DEF CostInd

\* A request asks: PostChat.
LEMMA PostKeeps == ASSUME CostInd, PostChat PROVE CostInd'
<1>1. PICK c \in Callers, m \in Names, units \in Prompts :
        LET estimate == estimateRequestCost(units, m)
            result   == evaluateBudgetPreflight(c.session, m, estimate)
        IN  /\ Len(bills) < MaxBills
            /\ bills' = Append(bills,
                   [caller |-> c, asked |-> m, estimate |-> estimate, model |-> result.model,
                    event |-> result.event, state |-> result.state, cost |-> 0,
                    at |-> IF result = Refusal THEN "refused" ELSE "streaming",
                    peers |-> Streaming(c.session)])
            /\ UNCHANGED <<config, sessionBudget, userBudget>>
  BY DEF PostChat
<1> DEFINE estimate == estimateRequestCost(units, m)
           r == evaluateBudgetPreflight(c.session, m, estimate)
           at == IF r = Refusal THEN "refused" ELSE "streaming"
           peers == Streaming(c.session)
           b == [caller |-> c, asked |-> m, estimate |-> estimate, model |-> r.model,
                 event |-> r.event, state |-> r.state, cost |-> 0, at |-> at, peers |-> peers]
<1>2. /\ bills' = Append(bills, b)
      /\ config' = config /\ sessionBudget' = sessionBudget /\ userBudget' = userBudget
  BY <1>1
<1>3. c.session \in Accounts /\ c.user \in Payers
  BY DEF Accounts, Payers
<1>4. estimate \in Nat
  BY CostAssumption, Priced
<1>5. CostTypes /\ bills \in Seq(Bills)
  BY DEF CostInd, CostTypes
<1>6. /\ Len(bills) \in Nat /\ DOMAIN bills = 1 .. Len(bills)
      /\ \A i \in DOMAIN bills : bills[i] \in Bills
  BY <1>5, BillsAre
<1>0. PICK k \in Nat : k = Len(bills) + 1
  BY <1>6
<1>7. peers \in SUBSET Nat /\ at \in {"refused", "streaming", "over"} /\ (at = "refused" <=> r = Refusal)
  BY <1>6 DEF Streaming
<1> HIDE DEF estimate, r, at, peers
<1>8. /\ r.model \in Names \cup {"none"} /\ r.event \in Events /\ r.state \in States
      /\ r # Refusal =>
            /\ r.model \in Names /\ getModelPolicyTag(r.model) # "block"
            /\ config.enabled /\ config.enforceHardLimit /\ r.event # "fallback" =>
                  ~(sessionBudget[c.session].totalUsd + estimate >= HardLimit)
      /\ r.event = "fallback" =>
            config.hardLimitAction # "block" /\ HardLimit <= sessionBudget[c.session].totalUsd + estimate
  BY <1>3, <1>4, <1>5, Preflight DEF r
<1>9. b \in Bills
  BY <1>4, <1>7, <1>8 DEF Bills
<1>10. /\ b.caller = c /\ b.estimate = estimate /\ b.model = r.model /\ b.event = r.event
       /\ b.cost = 0 /\ b.at = at /\ b.peers = peers
  OBVIOUS
<1> HIDE DEF b
<1>11. /\ bills' \in Seq(Bills) /\ DOMAIN bills' = 1 .. k /\ bills'[k] = b
       /\ \A i \in DOMAIN bills : bills'[i] = bills[i]
  BY <1>2, <1>0, <1>5, <1>6, <1>9, AppendProperties
<1>12. CostTypes'
  BY <1>2, <1>5, <1>11 DEF CostTypes
<1>13. RefusedCostsNothing'
  BY <1>0, <1>6, <1>10, <1>11 DEF RefusedCostsNothing, CostInd
<1>14. AskedAreNames'
  BY <1>0, <1>6, <1>7, <1>8, <1>10, <1>11 DEF AskedAreNames, CostInd
<1>15. AccountsAreRight'
  <2>1. ASSUME NEW B \in SUBSET DOMAIN bills, NEW C \in SUBSET DOMAIN bills', C = B \/ C = B \cup {k},
               NEW p, Accounted(p, bills, B)
        PROVE  Accounted(p, bills', C)
    <3>1. Joins(bills, b, bills', B, C)
      BY <1>0, <1>2, <1>5, <1>9, <1>10, <2>1 DEF Joins
    <3> QED
      BY <2>1, <3>1, FreeBillAccounted
  <2>2. ASSUME NEW s \in Accounts PROVE Accounted(sessionBudget[s], bills', BillsOfSession(bills', s))
    <3> DEFINE B == BillsOfSession(bills, s)
               C == BillsOfSession(bills', s)
    <3>1. B \in SUBSET DOMAIN bills /\ C \in SUBSET DOMAIN bills' /\ (C = B \/ C = B \cup {k})
      BY <1>0, <1>6, <1>11 DEF BillsOfSession
    <3>2. Accounted(sessionBudget[s], bills, B)
      BY DEF CostInd, AccountsAreRight
    <3> HIDE DEF B, C
    <3>3. Accounted(sessionBudget[s], bills', C)
      BY <2>1, <3>1, <3>2
    <3> QED
      BY <3>3 DEF C
  <2>3. ASSUME NEW u \in Payers PROVE Accounted(userBudget[u], bills', BillsOfUser(bills', u))
    <3> DEFINE B == BillsOfUser(bills, u)
               C == BillsOfUser(bills', u)
    <3>1. B \in SUBSET DOMAIN bills /\ C \in SUBSET DOMAIN bills' /\ (C = B \/ C = B \cup {k})
      BY <1>0, <1>6, <1>11 DEF BillsOfUser
    <3>2. Accounted(userBudget[u], bills, B)
      BY DEF CostInd, AccountsAreRight
    <3> HIDE DEF B, C
    <3>3. Accounted(userBudget[u], bills', C)
      BY <2>1, <3>1, <3>2
    <3> QED
      BY <3>3 DEF C
  <2> QED
    BY <1>2, <2>2, <2>3 DEF AccountsAreRight
\* The others have those before them that they had.
<1>16. \A i \in DOMAIN bills : Before(i)' = Before(i) /\ Before(i) \in SUBSET DOMAIN bills
  BY <1>0, <1>6, <1>11 DEF Before, Earlier
<1>17. Before(k)' \in SUBSET BillsOfSession(bills, c.session)
       /\ \A j \in Before(k)' : bills[j].at # "streaming"
  <2>1. Before(k)' = {j \in 1 .. k - 1 : bills'[j].caller.session = bills'[k].caller.session} \ bills'[k].peers
    BY DEF Before, Earlier
  <2>2. 1 .. k - 1 = DOMAIN bills
    BY <1>0, <1>6
  <2>3. Before(k)' = {j \in DOMAIN bills : bills[j].caller.session = c.session} \ peers
    BY <1>10, <1>11, <2>1, <2>2
  <2>4. peers = {i \in DOMAIN bills : bills[i].at = "streaming" /\ bills[i].caller.session = c.session}
    BY DEF Streaming, peers
  <2> QED
    BY <2>3, <2>4 DEF BillsOfSession
<1>18. \A i \in DOMAIN bills' : i \in DOMAIN bills \/ i = k
  BY <1>0, <1>6, <1>11
<1>19. EarlierAreOver'
  <2>1. ASSUME NEW i \in DOMAIN bills', NEW j \in Before(i)' PROVE bills'[j].at # "streaming"
    <3>1. CASE i \in DOMAIN bills
      <4>1. j \in Before(i) /\ j \in DOMAIN bills
        BY <1>16, <3>1
      <4>2. bills[j].at # "streaming"
        BY <3>1, <4>1 DEF CostInd, EarlierAreOver
      <4> QED
        BY <1>11, <4>1, <4>2
    <3>2. CASE i = k
      BY <1>11, <1>17, <3>2 DEF BillsOfSession
    <3> QED
      BY <1>18, <3>1, <3>2
  <2> QED
    BY <2>1 DEF EarlierAreOver
<1>20. \A B \in SUBSET DOMAIN bills : Total(CostsOf(bills'), B) = Total(CostsOf(bills), B)
  <2> SUFFICES ASSUME NEW B \in SUBSET DOMAIN bills
               PROVE  Total(CostsOf(bills'), B) = Total(CostsOf(bills), B)
    OBVIOUS
  <2>1. B \in SUBSET DOMAIN bills'
    BY <1>0, <1>6, <1>11
  <2>2. Joins(bills, b, bills', B, B)
    BY <1>0, <1>2, <1>5, <1>9, <1>10, <2>1 DEF Joins
  <2> QED
    BY <2>2, FreeBill
<1>21. CostOf(Before(k))' <= sessionBudget[c.session].totalUsd
  <2> DEFINE B == BillsOfSession(bills, c.session)
             A == Before(k)'
             f == CostsOf(bills)
  <2>1. B \in SUBSET DOMAIN bills /\ A \in SUBSET B
    BY <1>17 DEF BillsOfSession
  <2>2. IsFiniteSet(B) /\ \A i \in B : f[i] \in Nat
    BY <1>5, <2>1, BillsAre
  <2>3. CostOf(Before(k))' = Total(CostsOf(bills'), A)
    BY DEF CostOf, CostsOf
  <2>4. sessionBudget[c.session].totalUsd = Total(f, B)
    BY <1>3 DEF CostInd, AccountsAreRight, Accounted
  <2>5. A \in SUBSET DOMAIN bills
    BY <2>1
  <2> HIDE DEF A, B, f
  <2>6. Total(CostsOf(bills'), A) = Total(f, A)
    BY <1>20, <2>5 DEF f
  <2>7. Total(f, A) <= Total(f, B)
    BY <2>1, <2>2, TotalOfMore
  <2> QED
    BY <2>3, <2>4, <2>6, <2>7
<1>22. CostOf(Before(k))' \in Nat /\ sessionBudget[c.session].totalUsd \in Nat
  <2>1. Before(k)' \in SUBSET DOMAIN bills'
    BY <1>0, <1>6, <1>11, <1>17 DEF BillsOfSession
  <2>2. Total(CostsOf(bills'), Before(k)') \in Nat
    BY <1>11, <2>1, BillsAre, TotalNat
  <2>3. sessionBudget[c.session].totalUsd \in Nat
    BY <1>3, <1>5 DEF CostTypes, Budgets
  <2> QED
    BY <2>2, <2>3 DEF CostOf, CostsOf
<1>23. OwnModelsBelowLimit'
  <2>1. ASSUME config.enabled, config.enforceHardLimit, NEW i \in AtFullPrice'
        PROVE  (CostOf(Before(i)) + bills[i].estimate < HardLimit)'
    <3>1. i \in DOMAIN bills' /\ bills'[i].at # "refused" /\ bills'[i].event # "fallback"
      BY DEF AtFullPrice
    <3>2. CASE i \in DOMAIN bills
      <4>1. i \in AtFullPrice
        BY <1>11, <3>1, <3>2 DEF AtFullPrice
      <4>2. CostOf(Before(i)) + bills[i].estimate < HardLimit
        BY <2>1, <4>1 DEF CostInd, OwnModelsBelowLimit
      <4>3. CostOf(Before(i))' = CostOf(Before(i))
        <5>1. CostOf(Before(i))' = Total(CostsOf(bills'), Before(i)')
          BY DEF CostOf, CostsOf
        <5>2. CostOf(Before(i)) = Total(CostsOf(bills), Before(i))
          BY DEF CostOf, CostsOf
        <5> QED
          BY <1>16, <1>20, <3>2, <5>1, <5>2
      <4> QED
        BY <1>11, <3>2, <4>2, <4>3
    <3>3. CASE i = k
      <4>1. r # Refusal /\ r.event # "fallback"
        BY <1>7, <1>10, <1>11, <3>1, <3>3
      <4>2. ~(sessionBudget[c.session].totalUsd + estimate >= HardLimit)
        BY <1>8, <2>1, <4>1
      <4>3. HardLimit \in Nat
        BY CostAssumption
      <4>4. \A x, y, e, h \in Nat : x <= y /\ ~(y + e >= h) => x + e < h
        OBVIOUS
      <4>5. CostOf(Before(k))' + estimate < HardLimit
        BY <1>4, <1>21, <1>22, <4>2, <4>3, <4>4
      <4>6. bills'[i].estimate = estimate
        BY <1>10, <1>11, <3>3
      <4> QED
        BY <3>3, <4>5, <4>6
    <3> QED
      BY <1>18, <3>1, <3>2, <3>3
  <2>2. \A n : getModelPolicyTag(n)' = getModelPolicyTag(n)
    BY <1>2 DEF getModelPolicyTag
  <2>3. ASSUME NEW i \in DOMAIN bills', bills'[i].at # "refused"
        PROVE  getModelPolicyTag(bills'[i].model) # "block"
    <3>1. CASE i \in DOMAIN bills
      BY <1>11, <2>3, <3>1 DEF CostInd, OwnModelsBelowLimit
    <3>2. CASE i = k
      BY <1>7, <1>8, <1>10, <1>11, <2>3, <3>2
    <3> QED
      BY <1>18, <3>1, <3>2
  <2> QED
    BY <1>2, <2>1, <2>2, <2>3 DEF OwnModelsBelowLimit, getModelPolicyTag
<1>24. FallbacksAreDue'
  <2>1. \A i \in DOMAIN bills : Earlier(i)' = Earlier(i) /\ Earlier(i) \in SUBSET DOMAIN bills
    BY <1>0, <1>6, <1>11 DEF Earlier
  <2>3. Earlier(k)' = BillsOfSession(bills, c.session)
    <3>1. 1 .. k - 1 = DOMAIN bills
      BY <1>0, <1>6
    <3> QED
      BY <1>10, <1>11, <3>1 DEF Earlier, BillsOfSession
  <2>4. CostOf(Earlier(k))' = sessionBudget[c.session].totalUsd
    <3> DEFINE B == BillsOfSession(bills, c.session)
    <3>1. B \in SUBSET DOMAIN bills
      BY DEF BillsOfSession
    <3>2. sessionBudget[c.session].totalUsd = Total(CostsOf(bills), B)
      BY <1>3 DEF CostInd, AccountsAreRight, Accounted
    <3>3. CostOf(Earlier(k))' = Total(CostsOf(bills'), B)
      BY <2>3 DEF CostOf, CostsOf
    <3> HIDE DEF B
    <3> QED
      BY <1>20, <3>1, <3>2, <3>3
  <2>5. ASSUME NEW i \in DOMAIN bills', bills'[i].event = "fallback"
        PROVE  config'.hardLimitAction # "block" /\ HardLimit <= CostOf(Earlier(i))' + bills'[i].estimate
    <3>1. CASE i \in DOMAIN bills
      <4>1. config.hardLimitAction # "block" /\ HardLimit <= CostOf(Earlier(i)) + bills[i].estimate
        BY <1>11, <2>5, <3>1 DEF CostInd, FallbacksAreDue
      <4>2. CostOf(Earlier(i))' = CostOf(Earlier(i))
        <5>1. CostOf(Earlier(i))' = Total(CostsOf(bills'), Earlier(i)')
          BY DEF CostOf, CostsOf
        <5>2. CostOf(Earlier(i)) = Total(CostsOf(bills), Earlier(i))
          BY DEF CostOf, CostsOf
        <5> QED
          BY <1>20, <2>1, <3>1, <5>1, <5>2
      <4> QED
        BY <1>2, <1>11, <3>1, <4>1, <4>2
    <3>2. CASE i = k
      <4>1. bills'[i].event = r.event /\ bills'[i].estimate = estimate
        BY <1>10, <1>11, <3>2
      <4> QED
        BY <1>2, <1>8, <2>4, <2>5, <3>2, <4>1
    <3> QED
      BY <1>18, <3>1, <3>2
  <2> QED
    BY <2>5 DEF FallbacksAreDue
<1> QED
  BY <1>12, <1>13, <1>14, <1>15, <1>19, <1>23, <1>24 DEF CostInd

\* The list of requests has changed only in what request i costs, c more, in its state and
\* in that it is over.
Changed(i, c) ==
    /\ config' = config /\ bills' \in Seq(Bills) /\ DOMAIN bills' = DOMAIN bills
    /\ i \in DOMAIN bills /\ bills[i].at = "streaming" /\ c \in Nat
    /\ bills'[i].cost = bills[i].cost + c /\ bills'[i].at \in {"streaming", "over"}
    /\ \A j \in DOMAIN bills :
          /\ bills'[j].caller = bills[j].caller /\ bills'[j].model = bills[j].model
          /\ bills'[j].event = bills[j].event /\ bills'[j].estimate = bills[j].estimate
          /\ bills'[j].peers = bills[j].peers
          /\ j # i => bills'[j].cost = bills[j].cost /\ bills'[j].at = bills[j].at

LEMMA ChangeKeeps ==
    ASSUME CostInd, NEW i, NEW c, Changed(i, c)
    PROVE  (RefusedCostsNothing /\ AskedAreNames /\ EarlierAreOver /\ OwnModelsBelowLimit
            /\ FallbacksAreDue)'
<1>1. /\ config' = config /\ bills' \in Seq(Bills) /\ DOMAIN bills' = DOMAIN bills
      /\ i \in DOMAIN bills /\ bills[i].at = "streaming" /\ c \in Nat
      /\ bills'[i].cost = bills[i].cost + c /\ bills'[i].at \in {"streaming", "over"}
      /\ \A j \in DOMAIN bills :
            /\ bills'[j].caller = bills[j].caller /\ bills'[j].model = bills[j].model
            /\ bills'[j].event = bills[j].event /\ bills'[j].estimate = bills[j].estimate
            /\ bills'[j].peers = bills[j].peers
            /\ j # i => bills'[j].cost = bills[j].cost /\ bills'[j].at = bills[j].at
  BY DEF Changed
<1>2. bills \in Seq(Bills) /\ DOMAIN bills = 1 .. Len(bills) /\ Len(bills) \in Nat
  BY BillsAre DEF CostInd, CostTypes
<1>3. RefusedCostsNothing' /\ AskedAreNames'
  BY <1>1 DEF CostInd, RefusedCostsNothing, AskedAreNames
<1>4. \A j \in DOMAIN bills : Before(j)' = Before(j) /\ Before(j) \in SUBSET DOMAIN bills
  <2> SUFFICES ASSUME NEW j \in DOMAIN bills
               PROVE  Before(j)' = Before(j) /\ Before(j) \in SUBSET DOMAIN bills
    OBVIOUS
  <2>1. 1 .. j - 1 \in SUBSET DOMAIN bills
    BY <1>2
  <2> QED
    BY <1>1, <2>1 DEF Before, Earlier
<1>5. EarlierAreOver'
  <2>1. ASSUME NEW j \in DOMAIN bills, NEW h \in Before(j) PROVE bills'[h].at # "streaming"
    <3>1. h \in DOMAIN bills /\ bills[h].at # "streaming"
      BY <1>4, <2>1 DEF CostInd, EarlierAreOver
    <3> QED
      BY <1>1, <3>1
  <2> QED
    BY <1>1, <1>4, <2>1 DEF EarlierAreOver
<1>6. \A j \in DOMAIN bills : CostOf(Before(j))' = CostOf(Before(j))
  <2> SUFFICES ASSUME NEW j \in DOMAIN bills PROVE CostOf(Before(j))' = CostOf(Before(j))
    OBVIOUS
  <2> DEFINE B == Before(j)
             f == CostsOf(bills)
             e == CostsOf(bills')
  <2>1. CostOf(Before(j)) = Total(f, B) /\ CostOf(Before(j))' = Total(e, B)
    BY <1>4 DEF CostOf, CostsOf
  <2>2. B \in SUBSET DOMAIN bills /\ i \notin B
    BY <1>1, <1>4 DEF CostInd, EarlierAreOver
  <2>3. IsFiniteSet(B)
    BY <1>2, <2>2, BillsAre
  <2>4. \A h \in B : e[h] = f[h]
    BY <1>1, <2>2 DEF CostsOf
  <2> HIDE DEF B, f, e
  <2>5. Total(e, B) = Total(f, B)
    BY <2>3, <2>4, TotalAgrees
  <2> QED
    BY <2>1, <2>5
<1>7. OwnModelsBelowLimit'
  <2>1. ASSUME config.enabled, config.enforceHardLimit, NEW j \in AtFullPrice'
        PROVE  (CostOf(Before(j)) + bills[j].estimate < HardLimit)'
    <3>1. j \in DOMAIN bills /\ bills'[j].at # "refused" /\ bills'[j].event # "fallback"
      BY <1>1 DEF AtFullPrice
    <3>2. j \in AtFullPrice
      BY <1>1, <3>1 DEF AtFullPrice
    <3>3. CostOf(Before(j)) + bills[j].estimate < HardLimit
      BY <2>1, <3>2 DEF CostInd, OwnModelsBelowLimit
    <3> QED
      BY <1>1, <1>6, <3>1, <3>3
  <2>2. \A n : getModelPolicyTag(n)' = getModelPolicyTag(n)
    BY <1>1 DEF getModelPolicyTag
  <2>3. ASSUME NEW j \in DOMAIN bills, bills'[j].at # "refused"
        PROVE  getModelPolicyTag(bills'[j].model) # "block"
    BY <1>1, <2>3 DEF CostInd, OwnModelsBelowLimit
  <2> QED
    BY <1>1, <2>1, <2>2, <2>3 DEF OwnModelsBelowLimit, getModelPolicyTag
\* What the earlier requests cost only grows.
<1>8. \A j \in DOMAIN bills : /\ CostOf(Earlier(j)) \in Nat /\ CostOf(Earlier(j))' \in Nat
                              /\ CostOf(Earlier(j)) <= CostOf(Earlier(j))'
  <2> SUFFICES ASSUME NEW j \in DOMAIN bills
               PROVE  /\ CostOf(Earlier(j)) \in Nat /\ CostOf(Earlier(j))' \in Nat
                      /\ CostOf(Earlier(j)) <= CostOf(Earlier(j))'
    OBVIOUS
  <2> DEFINE B == Earlier(j)
             f == CostsOf(bills)
             e == CostsOf(bills')
  <2>1. Earlier(j)' = B /\ B \in SUBSET DOMAIN bills
    <3>1. 1 .. j - 1 \in SUBSET DOMAIN bills
      BY <1>2
    <3> QED
      BY <1>1, <3>1 DEF Earlier
  <2>2. CostOf(Earlier(j)) = Total(f, B) /\ CostOf(Earlier(j))' = Total(e, B)
    BY <2>1 DEF CostOf, CostsOf
  <2>3. Grows(bills, i, c, bills')
    BY <1>1, <1>2 DEF Grows
  <2>4. Total(e, B) = IF i \in B THEN Total(f, B) + c ELSE Total(f, B)
    BY <2>1, <2>3, GrownTotal
  <2>5. Total(f, B) \in Nat
    BY <1>2, <2>1, BillsAre, TotalNat
  <2> HIDE DEF B, f, e
  <2> QED
    BY <1>1, <2>2, <2>4, <2>5
<1>9. FallbacksAreDue'
  <2> SUFFICES ASSUME NEW j \in DOMAIN bills, bills'[j].event = "fallback"
               PROVE  config.hardLimitAction # "block" /\ HardLimit <= CostOf(Earlier(j))' + bills'[j].estimate
    BY <1>1 DEF FallbacksAreDue
  <2>1. /\ config.hardLimitAction # "block" /\ HardLimit <= CostOf(Earlier(j)) + bills[j].estimate
        /\ bills'[j].estimate = bills[j].estimate
    BY <1>1 DEF CostInd, FallbacksAreDue
  <2>2. HardLimit \in Nat /\ bills[j].estimate \in Nat
    <3>1. bills[j] \in Bills
      BY <1>2, BillsAre
    <3> QED
      BY <3>1, CostAssumption DEF Bills
  <2>3. \A h, x, y, m \in Nat : h <= x + m /\ x <= y => h <= y + m
    OBVIOUS
  <2>4. PICK x \in Nat, y \in Nat : x = CostOf(Earlier(j)) /\ y = CostOf(Earlier(j))' /\ x <= y
    BY <1>8
  <2> QED
    BY <2>1, <2>2, <2>3, <2>4
<1> QED
  BY <1>3, <1>5, <1>7, <1>9

LEMMA ChangeGrows ==
    ASSUME CostTypes, NEW i, NEW c, Changed(i, c)
    PROVE  /\ Grows(bills, i, c, bills')
           /\ \A s : BillsOfSession(bills', s) = BillsOfSession(bills, s)
           /\ \A u : BillsOfUser(bills', u) = BillsOfUser(bills, u)
BY DEF CostTypes, Changed, Grows, BillsOfSession, BillsOfUser

\* A stream ends.
LEMMA StreamOverKeeps ==
    ASSUME CostInd, NEW i \in DOMAIN bills, StreamOver(i)
    PROVE  CostInd'
<1>1. /\ bills[i].at = "streaming" /\ bills' = [bills EXCEPT ![i].at = "over"]
      /\ config' = config /\ sessionBudget' = sessionBudget /\ userBudget' = userBudget
  BY DEF StreamOver
<1>2. CostTypes /\ bills \in Seq(Bills) /\ bills[i] \in Bills
  BY BillsAre DEF CostInd, CostTypes
<1> DEFINE b == [bills[i] EXCEPT !.at = "over"]
<1>3. b \in Bills /\ b.cost = bills[i].cost + 0 /\ b.at = "over" /\ b.caller = bills[i].caller
      /\ b.model = bills[i].model /\ b.event = bills[i].event /\ b.estimate = bills[i].estimate
      /\ b.peers = bills[i].peers
  <2>1. bills[i].cost + 0 = bills[i].cost
    BY <1>2 DEF Bills
  <2>2. b \in Bills /\ b.cost = bills[i].cost /\ b.at = "over"
    BY <1>2 DEF Bills
  <2> QED
    BY <1>2, <2>1, <2>2 DEF Bills
<1>4. bills' = [bills EXCEPT ![i] = b]
  BY <1>1
<1> HIDE DEF b
<1>5. /\ bills' \in Seq(Bills) /\ DOMAIN bills' = DOMAIN bills /\ bills'[i] = b
      /\ \A j \in DOMAIN bills : j # i => bills'[j] = bills[j]
  BY <1>2, <1>3, <1>4, ExceptSeq
<1>6. Changed(i, 0)
  BY <1>1, <1>3, <1>5 DEF Changed
<1>7. Grows(bills, i, 0, bills')
      /\ \A s : BillsOfSession(bills', s) = BillsOfSession(bills, s)
      /\ \A u : BillsOfUser(bills', u) = BillsOfUser(bills, u)
  BY <1>2, <1>6, ChangeGrows
<1>8. \A B \in SUBSET DOMAIN bills : \A p \in Budgets :
         Accounted(p, bills, B) => Accounted(p, bills', B)
  <2> SUFFICES ASSUME NEW B \in SUBSET DOMAIN bills, NEW p \in Budgets, Accounted(p, bills, B)
               PROVE  Accounted(p, bills', B)
    OBVIOUS
  <2>1. resolveModelKey(bills[i].model) \in Models
    BY <1>1, ModelsFinite DEF CostInd, AskedAreNames
  <2>2. PICK n \in Models : n = resolveModelKey(bills[i].model)
    BY <2>1
  <2>3. Adds(p, n, 0) = p
    <3>1. p.totalUsd + 0 = p.totalUsd /\ p.perModelUsd[n] + 0 = p.perModelUsd[n]
          /\ p.perModelUsd \in [Models -> Nat]
      BY DEF Budgets
    <3>2. [p.perModelUsd EXCEPT ![n] = p.perModelUsd[n]] = p.perModelUsd
      BY <3>1
    <3>3. Adds(p, n, 0) = [p EXCEPT !.totalUsd = p.totalUsd, !.perModelUsd = p.perModelUsd]
      BY <3>1, <3>2 DEF Adds
    <3> QED
      BY <3>3 DEF Budgets
  <2>4. p = IF i \in B THEN Adds(p, n, 0) ELSE p
    BY <2>3
  <2> QED
    BY <1>7, <2>2, <2>4, GrownAccounted
<1>9. AccountsAreRight'
  <2>1. \A s : BillsOfSession(bills, s) \in SUBSET DOMAIN bills
    BY DEF BillsOfSession
  <2>2. \A u : BillsOfUser(bills, u) \in SUBSET DOMAIN bills
    BY DEF BillsOfUser
  <2>3. \A s \in Accounts : sessionBudget[s] \in Budgets
    BY <1>2 DEF CostTypes
  <2>4. \A u \in Payers : userBudget[u] \in Budgets
    BY <1>2 DEF CostTypes
  <2> QED
    BY <1>1, <1>7, <1>8, <2>1, <2>2, <2>3, <2>4 DEF CostInd, AccountsAreRight
<1>10. CostTypes'
  BY <1>1, <1>2, <1>5 DEF CostTypes
<1> QED
  BY <1>6, <1>9, <1>10, ChangeKeeps DEF CostInd

\* A usage is reported.
LEMMA UsageKeeps ==
    ASSUME CostInd, NEW i \in DOMAIN bills, NEW units \in Usages, RegisterUsageCost(i, units)
    PROVE  CostInd'
<1> DEFINE cost == units * getPricingForModel(bills[i].model)
           c    == bills[i].caller
           n    == resolveModelKey(bills[i].model)
           state == classifyBudgetState(sessionBudget'[c.session].totalUsd)
<1>1. /\ bills[i].at = "streaming" /\ config' = config
      /\ sessionBudget' = [sessionBudget EXCEPT ![c.session] = Adds(@, n, cost)]
      /\ userBudget' = [userBudget EXCEPT ![c.user] = Adds(@, n, cost)]
      /\ bills' = [bills EXCEPT ![i].cost = @ + cost, ![i].state = state]
  BY DEF RegisterUsageCost
<1>2. CostTypes /\ bills \in Seq(Bills) /\ bills[i] \in Bills
  BY BillsAre DEF CostInd, CostTypes
<1>3. bills[i].model \in Names /\ n \in Models
  BY <1>1, ModelsFinite DEF CostInd, AskedAreNames
<1>4. cost \in Nat
  <2>1. units \in Nat
    BY CostAssumption
  <2> QED
    BY <1>3, <2>1, Priced DEF estimateRequestCost
<1>5. c.session \in Accounts /\ c.user \in Payers
  BY <1>2 DEF Bills, Accounts, Payers
<1>6. state \in States
  BY DEF classifyBudgetState, States
<1> HIDE DEF cost, n, state
<1> DEFINE b == [bills[i] EXCEPT !.cost = @ + cost, !.state = state]
<1>7. b \in Bills /\ b.cost = bills[i].cost + cost /\ b.at = "streaming" /\ b.caller = bills[i].caller
      /\ b.model = bills[i].model /\ b.event = bills[i].event /\ b.estimate = bills[i].estimate
      /\ b.peers = bills[i].peers
  <2>1. bills[i].cost + cost \in Nat
    BY <1>2, <1>4 DEF Bills
  <2> QED
    BY <1>1, <1>2, <1>6, <2>1 DEF Bills
<1>8. bills' = [bills EXCEPT ![i] = b]
  BY <1>1, <1>2
<1> HIDE DEF b
<1>9. /\ bills' \in Seq(Bills) /\ DOMAIN bills' = DOMAIN bills /\ bills'[i] = b
      /\ \A j \in DOMAIN bills : j # i => bills'[j] = bills[j]
  BY <1>2, <1>7, <1>8, ExceptSeq
<1>10. Changed(i, cost)
  BY <1>1, <1>4, <1>7, <1>9 DEF Changed
<1>11. Grows(bills, i, cost, bills')
       /\ \A s : BillsOfSession(bills', s) = BillsOfSession(bills, s)
       /\ \A u : BillsOfUser(bills', u) = BillsOfUser(bills, u)
  BY <1>2, <1>10, ChangeGrows
<1>12. ASSUME NEW B \in SUBSET DOMAIN bills, NEW p \in Budgets, Accounted(p, bills, B),
              NEW q, q = IF i \in B THEN Adds(p, n, cost) ELSE p
       PROVE  Accounted(q, bills', B)
  <2>1. PICK m \in Models : m = n
    BY <1>3
  <2>2. m = resolveModelKey(bills[i].model)
    BY <2>1 DEF n
  <2>3. q = IF i \in B THEN Adds(p, m, cost) ELSE p
    BY <1>12, <2>1
  <2> QED
    BY <1>11, <1>12, <2>2, <2>3, GrownAccounted
<1>13. \A s \in Accounts : /\ sessionBudget[s] \in Budgets
                           /\ sessionBudget'[s] = IF s = c.session THEN Adds(sessionBudget[s], n, cost)
                                                  ELSE sessionBudget[s]
  BY <1>1, <1>2, <1>5 DEF CostTypes
<1>14. \A u \in Payers : /\ userBudget[u] \in Budgets
                         /\ userBudget'[u] = IF u = c.user THEN Adds(userBudget[u], n, cost)
                                             ELSE userBudget[u]
  BY <1>1, <1>2, <1>5 DEF CostTypes
<1>15. ASSUME NEW s \in Accounts PROVE Accounted(sessionBudget'[s], bills', BillsOfSession(bills', s))
  <2> DEFINE B == BillsOfSession(bills, s)
  <2>1. B \in SUBSET DOMAIN bills /\ (i \in B <=> s = c.session)
    BY DEF BillsOfSession
  <2>2. Accounted(sessionBudget[s], bills, B) /\ BillsOfSession(bills', s) = B
    BY <1>11 DEF CostInd, AccountsAreRight
  <2> HIDE DEF B
  <2>3. sessionBudget'[s] = IF i \in B THEN Adds(sessionBudget[s], n, cost)
                            ELSE sessionBudget[s]
    BY <1>13, <2>1
  <2> QED
    BY <1>12, <1>13, <2>1, <2>2, <2>3
<1>16. ASSUME NEW u \in Payers PROVE Accounted(userBudget'[u], bills', BillsOfUser(bills', u))
  <2> DEFINE B == BillsOfUser(bills, u)
  <2>1. B \in SUBSET DOMAIN bills /\ (i \in B <=> u = c.user)
    BY DEF BillsOfUser
  <2>2. Accounted(userBudget[u], bills, B) /\ BillsOfUser(bills', u) = B
    BY <1>11 DEF CostInd, AccountsAreRight
  <2> HIDE DEF B
  <2>3. userBudget'[u] = IF i \in B THEN Adds(userBudget[u], n, cost) ELSE userBudget[u]
    BY <1>14, <2>1
  <2> QED
    BY <1>12, <1>14, <2>1, <2>2, <2>3
<1>17. AccountsAreRight'
  BY <1>15, <1>16 DEF AccountsAreRight
<1>18. CostTypes'
  <2>1. \A p \in Budgets : Adds(p, n, cost) \in Budgets
    BY <1>3, <1>4, AddedIs
  <2>2. sessionBudget' \in [Accounts -> Budgets]
    BY <1>1, <1>2, <1>5, <2>1 DEF CostTypes
  <2>3. userBudget' \in [Payers -> Budgets]
    BY <1>1, <1>2, <1>5, <2>1 DEF CostTypes
  <2> QED
    BY <1>1, <1>2, <1>9, <2>2, <2>3 DEF CostTypes
<1> QED
  BY <1>10, <1>17, <1>18, ChangeKeeps DEF CostInd

LEMMA CostShows == CostInd => BudgetsAddUp
<1> SUFFICES ASSUME CostInd PROVE BudgetsAddUp
  OBVIOUS
<1>1. CostTypes /\ RefusedCostsNothing /\ AskedAreNames
  BY DEF CostInd
<1>2. ASSUME NEW s \in Accounts
      PROVE  getSessionCostSnapshot(s) = Bill(Where(LAMBDA b : b.caller.session = s))
  <2>1. BillsOfSession(bills, s) \in SUBSET DOMAIN bills /\ sessionBudget[s] \in Budgets
        /\ Accounted(sessionBudget[s], bills, BillsOfSession(bills, s))
    BY <1>1 DEF BillsOfSession, CostInd, AccountsAreRight, CostTypes
  <2>2. toSnapshot(sessionBudget[s]) = Bill(BillsOfSession(bills, s))
    BY <1>1, <2>1, AccountShows
  <2>3. Where(LAMBDA b : b.caller.session = s) = BillsOfSession(bills, s)
    BY DEF Where, BillsOfSession
  <2> QED
    BY <2>2, <2>3 DEF getSessionCostSnapshot
<1>3. ASSUME NEW u \in Payers
      PROVE  getUserCostSnapshot(u) = Bill(Where(LAMBDA b : b.caller.user = u))
  <2>1. BillsOfUser(bills, u) \in SUBSET DOMAIN bills /\ userBudget[u] \in Budgets
        /\ Accounted(userBudget[u], bills, BillsOfUser(bills, u))
    BY <1>1 DEF BillsOfUser, CostInd, AccountsAreRight, CostTypes
  <2>2. toSnapshot(userBudget[u]) = Bill(BillsOfUser(bills, u))
    BY <1>1, <2>1, AccountShows
  <2>3. Where(LAMBDA b : b.caller.user = u) = BillsOfUser(bills, u)
    BY DEF Where, BillsOfUser
  <2> QED
    BY <2>2, <2>3 DEF getUserCostSnapshot
<1> QED
  BY <1>2, <1>3 DEF BudgetsAddUp, TotalsAreBills, CostInd

(* BudgetsAddUp for any models, prices, sessions, users and requests that overlap: what   *)
(* registerUsageCost has added to an account is what its requests have cost, model by     *)
(* model; with enforcement evaluateBudgetPreflight lets a request through to the model it *)
(* asks for only while the requests of its session that are over, and its own estimate,   *)
(* cost less than the hard limit, and turns to the fallback model, which nothing limits,  *)
(* only when the requests of that session reach it; a blocked model is never asked.       *)
THEOREM BillsAddUp == CostSpec => []BudgetsAddUp
<1>1. CostInd /\ [CostNext]_costVars => CostInd'
  <2> SUFFICES ASSUME CostInd, [CostNext]_costVars PROVE CostInd'
    OBVIOUS
  <2>1. ASSUME UNCHANGED costVars PROVE CostInd'
    <3>1. config' = config /\ sessionBudget' = sessionBudget /\ userBudget' = userBudget /\ bills' = bills
      BY <2>1 DEF costVars
    <3>2. FallbacksAreDue'
      BY <3>1 DEF CostInd, FallbacksAreDue, Earlier, CostOf
    <3>3. (EarlierAreOver /\ OwnModelsBelowLimit)'
      BY <3>1 DEF CostInd, EarlierAreOver, OwnModelsBelowLimit, Before, Earlier, AtFullPrice,
                  CostOf, getModelPolicyTag
    <3> QED
      BY <3>1, <3>2, <3>3 DEF CostInd, CostTypes, RefusedCostsNothing, AskedAreNames, AccountsAreRight
  <2> QED
    BY <2>1, PostKeeps, StreamOverKeeps, UsageKeeps DEF CostNext
<1> QED
  BY <1>1, CostStart, CostShows, PTL DEF CostSpec
----------------------------------------------------------------------------
(***************************************************************************)
(* LinesSurviveChunks for any length of the stream and of its chunks.      *)
(* Reads is a recursive function on the places of a text.  That there is   *)
(* one, and that it yields what a reader of the symbols one by one has     *)
(* read, is proved by the least place at which it would not hold.  A line  *)
(* that is held unfinished is read as itself (HeldIsHeld), so that what    *)
(* follows is read behind it as behind all that was sent (ReadsOn): while  *)
(* no trace id was cut, buffer and out are what Reads holds of everything  *)
(* sent, and the end of the stream adds the leftover of that.              *)
(***************************************************************************)

\* What holds at zero and is handed on from each number to the next holds up to n.
LEMMA HandedOn ==
    ASSUME NEW n \in Nat, NEW G, 0 \in G,
           \A k \in 0 .. n : k \in G /\ k < n => k + 1 \in G
    PROVE  \A k \in 0 .. n : k \in G
<1> DEFINE bad == {k \in 0 .. n : k \notin G}
<1>1. SUFFICES ASSUME bad # {} PROVE FALSE
  OBVIOUS
<1>2. PICK m \in bad : \A k \in bad : m <= k
  <2>1. bad \in SUBSET Nat
    OBVIOUS
  <2> HIDE DEF bad
  <2> QED
    BY <1>1, <2>1, HasMin
<1>3. m \in 0 .. n /\ m # 0
  OBVIOUS
<1>4. m - 1 \in 0 .. n /\ m - 1 < n /\ m - 1 < m /\ (m - 1) + 1 = m
  BY <1>3
<1>5. m - 1 \in G
  BY <1>2, <1>4
<1> QED
  BY <1>4, <1>5

----------------------------------------------------------------------------
\* What the reader r has read of s after each of its symbols.
IsReading(r, s, f) ==
    /\ f[0] = NothingRead
    /\ \A n \in 1 .. Len(s) : f[n] = ReadSymbol(r, f[n - 1], s[n])

\* The recursive definition in Reads, for the first k symbols.
Unfolds(r, s, k, f) ==
    f = [n \in 0 .. k |-> IF n = 0 THEN NothingRead ELSE ReadSymbol(r, f[n - 1], s[n])]

LEMMA ReadingExists ==
    ASSUME NEW r, NEW S, NEW s \in Seq(S)
    PROVE  \E f : Unfolds(r, s, Len(s), f)
<1> DEFINE G == {k \in Nat : \E f : Unfolds(r, s, k, f)}
<1>1. 0 \in G
  <2> DEFINE f == [n \in 0 .. 0 |-> NothingRead]
  <2>1. f = [n \in 0 .. 0 |-> IF n = 0 THEN NothingRead ELSE ReadSymbol(r, f[n - 1], s[n])]
    OBVIOUS
  <2> HIDE DEF f
  <2>2. Unfolds(r, s, 0, f)
    BY <2>1 DEF Unfolds
  <2> QED
    BY <2>2
<1>2. ASSUME NEW k \in 0 .. Len(s), k \in G, k < Len(s) PROVE k + 1 \in G
  <2>1. PICK f : Unfolds(r, s, k, f)
    BY <1>2
  <2> DEFINE g == [n \in 0 .. k + 1 |-> IF n <= k THEN f[n] ELSE ReadSymbol(r, f[k], s[k + 1])]
  <2>2. \A n \in 0 .. k : f[n] = IF n = 0 THEN NothingRead ELSE ReadSymbol(r, f[n - 1], s[n])
    BY <2>1 DEF Unfolds
  <2>3. \A n \in 0 .. k : g[n] = f[n]
    OBVIOUS
  <2>4. g[k + 1] = ReadSymbol(r, f[k], s[k + 1])
    OBVIOUS
  <2>5. g = [n \in 0 .. k + 1 |-> g[n]]
    OBVIOUS
  <2> HIDE DEF g
  <2>6. ASSUME NEW n \in 0 .. k + 1
        PROVE  g[n] = IF n = 0 THEN NothingRead ELSE ReadSymbol(r, g[n - 1], s[n])
    <3>1. CASE n = 0
      BY <2>2, <2>3, <3>1
    <3>2. CASE n \in 1 .. k
      <4>1. n \in 0 .. k /\ n - 1 \in 0 .. k /\ n # 0
        BY <3>2
      <4> QED
        BY <2>2, <2>3, <4>1
    <3>3. CASE n = k + 1
      <4>1. k \in 0 .. k /\ n - 1 = k /\ n # 0
        BY <3>3
      <4> QED
        BY <2>3, <2>4, <3>3, <4>1
    <3> QED
      BY <3>1, <3>2, <3>3
  <2>7. Unfolds(r, s, k + 1, g)
    BY <2>5, <2>6 DEF Unfolds
  <2> QED
    BY <2>7
<1>3. Len(s) \in Nat
  OBVIOUS
<1> HIDE DEF G
<1>4. \A k \in 0 .. Len(s) : k \in G
  BY <1>1, <1>2, <1>3, HandedOn
<1>5. Len(s) \in G
  BY <1>3, <1>4
<1> QED
  BY <1>5 DEF G

LEMMA ReadsAreReadings ==
    ASSUME NEW r, NEW S, NEW s \in Seq(S)
    PROVE  \E f : IsReading(r, s, f) /\ Reads(r, s) = f[Len(s)]
<1> DEFINE f == CHOOSE f : Unfolds(r, s, Len(s), f)
<1>1. Unfolds(r, s, Len(s), f)
  BY ReadingExists
<1>2. Reads(r, s) = f[Len(s)]
  BY DEF Reads, Unfolds
<1> HIDE DEF f
<1>3. \A n \in 0 .. Len(s) :
        f[n] = IF n = 0 THEN NothingRead ELSE ReadSymbol(r, f[n - 1], s[n])
  BY <1>1 DEF Unfolds
<1>4. IsReading(r, s, f)
  BY <1>3 DEF IsReading
<1> QED
  BY <1>2, <1>4

\* What follows the symbols s changes nothing of what was read of s.
LEMMA ReadingAgrees ==
    ASSUME NEW r, NEW S, NEW s \in Seq(S), NEW t \in Seq(S), NEW f, NEW g,
           IsReading(r, s, f), IsReading(r, s \o t, g)
    PROVE  \A n \in 0 .. Len(s) : g[n] = f[n]
<1> DEFINE G == {n \in 0 .. Len(s) : g[n] = f[n]}
<1>1. Len(s) \in Nat /\ Len(s \o t) \in Nat /\ Len(s) <= Len(s \o t)
  OBVIOUS
<1>2. 0 \in G
  BY <1>1 DEF IsReading
<1>3. ASSUME NEW k \in 0 .. Len(s), k \in G, k < Len(s) PROVE k + 1 \in G
  <2>1. k + 1 \in 1 .. Len(s) /\ k + 1 \in 1 .. Len(s \o t) /\ (k + 1) - 1 = k /\ k + 1 \in 0 .. Len(s)
    BY <1>1, <1>3
  <2>2. (s \o t)[k + 1] = s[k + 1]
    BY <2>1
  <2>3. f[k + 1] = ReadSymbol(r, f[k], s[k + 1]) /\ g[k + 1] = ReadSymbol(r, g[k], (s \o t)[k + 1])
    BY <2>1 DEF IsReading
  <2> QED
    BY <1>3, <2>1, <2>2, <2>3
<1> HIDE DEF G
<1>4. \A k \in 0 .. Len(s) : k \in G
  BY <1>1, <1>2, <1>3, HandedOn
<1> QED
  BY <1>4 DEF G

\* The symbols a reader meets, the lines it may hold unfinished, and what it passes on.
Halves(r) == KindsFor(r) \X {1, 2}
Symbols(r) == IF r = "browser" THEN Halves(r) ELSE Halves(r) \cup {NL}
HeldLines(r) ==
    IF r = "browser" THEN {<<>>, <<<<"step", 1>>>>, <<<<"trace", 1>>>>} ELSE Seq(Halves(r))
Passed == {"token", "step", "trace", "json", "content", "value", "activity", "error",
           "usage", "text", "raw"}
ReadOf(r) == [line : HeldLines(r), out : Seq(Passed), done : BOOLEAN]

LEMMA HeldAreSymbols == ASSUME NEW r PROVE HeldLines(r) \subseteq Seq(Symbols(r))
<1>1. CASE r = "browser"
  <2>1. <<"step", 1>> \in Symbols(r) /\ <<"trace", 1>> \in Symbols(r)
    BY <1>1 DEF Symbols, Halves, KindsFor
  <2> QED
    BY <1>1, <2>1 DEF HeldLines
<1>2. CASE r # "browser"
  <2>1. Halves(r) \subseteq Symbols(r)
    BY <1>2 DEF Symbols
  <2>2. HeldLines(r) = Seq(Halves(r))
    BY <1>2 DEF HeldLines
  <2> HIDE DEF Halves, Symbols
  <2> QED
    BY <2>1, <2>2
<1> QED
  BY <1>1, <1>2

LEMMA PassedWords ==
    /\ <<>> \in Seq(Passed)
    /\ \A w \in Passed : <<w>> \in Seq(Passed)
OBVIOUS

LEMMA PassesPassed == ASSUME NEW r, NEW s PROVE Passes(r, s) \in Seq(Passed)
<1> DEFINE words == {<<>>} \cup {<<w>> : w \in Passed}
<1>1. words \subseteq Seq(Passed)
  BY PassedWords
<1>2. natLine(s) \in words
  BY DEF natLine, Passed
<1>3. processedLine(r, s) \in words
  BY DEF processedLine, processCommonLineTypes, Passed
<1>4. panelBlock(s) \in words
  <2>1. IsLine(s, "error") => s[1][1] = "error"
    BY DEF IsLine
  <2>2. IsLine(s, "usage") => s[1][1] = "usage"
    BY DEF IsLine
  <2>3. {"activity", "error", "usage", "token"} \subseteq Passed
    BY DEF Passed
  <2> QED
    BY <2>1, <2>2, <2>3 DEF panelBlock
<1> HIDE DEF words
<1> QED
  BY <1>1, <1>2, <1>3, <1>4 DEF Passes

LEMMA LeftoverPassed == ASSUME NEW r, NEW s PROVE Leftover(r, s) \in Seq(Passed)
<1>1. {"json", "usage", "token"} \subseteq Passed
  BY DEF Passed
<1> QED
  BY <1>1, PassedWords DEF Leftover, flushSSEBuffer, processRemainingBuffer

\* What was read when o had been passed on before.
Behind(o, read) == [line |-> read.line, out |-> o \o read.out, done |-> read.done]

HasRead(line, words, done) == [line |-> line, out |-> words, done |-> done]

LEMMA HasReadIs ==
    ASSUME NEW r
    PROVE  /\ \A a \in ReadOf(r) : /\ a = HasRead(a.line, a.out, a.done)
                                  /\ a.line \in HeldLines(r) /\ a.out \in Seq(Passed)
                                  /\ a.done \in BOOLEAN
           /\ \A line \in HeldLines(r), words \in Seq(Passed), done \in BOOLEAN :
                 HasRead(line, words, done) \in ReadOf(r)
           /\ \A line, words, done, o : Behind(o, HasRead(line, words, done)) = HasRead(line, o \o words, done)
           /\ \A o, a : Behind(o, a) = HasRead(a.line, o \o a.out, a.done)
BY DEF HasRead, ReadOf, Behind

LEMMA PassedInOrder ==
    \A s, t, u \in Seq(Passed) : (s \o t) \o u = s \o (t \o u)
BY ConcatAssociative

\* A symbol adds to what was read, whatever was passed on before.
LEMMA TextReads ==
    ASSUME NEW r, r # "browser", NEW a \in ReadOf(r), NEW o \in Seq(Passed), NEW c \in Symbols(r)
    PROVE  /\ ReadText(r, a, c) \in ReadOf(r)
           /\ ReadText(r, Behind(o, a), c) = Behind(o, ReadText(r, a, c))
<1>1. a.line \in Seq(Halves(r)) /\ a.out \in Seq(Passed) /\ a.done \in BOOLEAN
  BY DEF ReadOf, HeldLines
<1>2. a = [line |-> a.line, out |-> a.out, done |-> a.done]
  BY DEF ReadOf
<1>3. CASE c # NL
  <2>1. c \in Halves(r)
    BY <1>3 DEF Symbols
  <2>2. ReadText(r, a, c) = [line |-> Append(a.line, c), out |-> a.out, done |-> a.done]
    BY <1>2, <1>3 DEF ReadText
  <2>3. ReadText(r, Behind(o, a), c)
          = [line |-> Append(a.line, c), out |-> o \o a.out, done |-> a.done]
    BY <1>3 DEF ReadText, Behind
  <2>4. Append(a.line, c) \in Seq(Halves(r))
    <3> HIDE DEF Halves
    <3> QED
      BY <1>1, <2>1
  <2>5. ReadText(r, a, c) \in ReadOf(r)
    BY <1>1, <2>2, <2>4 DEF ReadOf, HeldLines
  <2> QED
    BY <2>2, <2>3, <2>5 DEF Behind
<1>4. CASE c = NL
  <2> DEFINE more == IF a.done THEN <<>> ELSE Passes(r, a.line)
             stop == a.done \/ Stops(r, a.line)
  <2>1. more \in Seq(Passed)
    BY PassesPassed
  <2>2. stop \in BOOLEAN
    BY <1>1 DEF Stops
  <2>3. ReadText(r, a, c) = [line |-> <<>>, out |-> a.out \o more, done |-> stop]
    <3>1. a.done => a.out \o more = a.out
      BY <1>1
    <3> QED
      BY <1>4, <3>1 DEF ReadText
  <2>4. ReadText(r, Behind(o, a), c)
          = [line |-> <<>>, out |-> (o \o a.out) \o more, done |-> stop]
    <3>1. o \o a.out \in Seq(Passed)
      BY <1>1
    <3>2. a.done => (o \o a.out) \o more = o \o a.out
      BY <3>1
    <3> QED
      BY <1>4, <3>2 DEF ReadText, Behind
  <2> HIDE DEF more, stop
  <2>5. (o \o a.out) \o more = o \o (a.out \o more)
    BY <1>1, <2>1, PassedInOrder
  <2>6. a.out \o more \in Seq(Passed)
    BY <1>1, <2>1
  <2>7. <<>> \in HeldLines(r)
    BY DEF HeldLines
  <2>8. ReadText(r, a, c) \in ReadOf(r)
    BY <2>2, <2>3, <2>6, <2>7 DEF ReadOf
  <2> QED
    BY <2>3, <2>4, <2>5, <2>8 DEF Behind
<1> QED
  BY <1>3, <1>4

\* The kinds of tagged text, and how the legacy chat reads each.
IsText(c) == \E i \in {1, 2} : c = <<"text", i>>
Begins(c) == c \in {<<"step", 1>>, <<"trace", 1>>}
EndsStep(c) == c = <<"step", 2>>
EndsTrace(c) == c = <<"trace", 2>>
TraceWord(line) == IF line = <<>> THEN "raw" ELSE "trace"

LEMMA TagsText ==
    ASSUME NEW line, NEW words, NEW done, NEW c, IsText(c)
    PROVE  ReadTagged(HasRead(line, words, done), c) = HasRead(line, Append(words, "text"), done)
<1>1. c[1] = "text" /\ c \notin {<<"step", 1>>, <<"trace", 1>>}
      /\ c # <<"step", 2>> /\ c # <<"trace", 2>>
  BY DEF IsText
<1> QED
  BY <1>1 DEF ReadTagged, HasRead

LEMMA TagsBegin ==
    ASSUME NEW line, NEW words, NEW done, NEW c, Begins(c)
    PROVE  ReadTagged(HasRead(line, words, done), c) = HasRead(<<c>>, words, done)
<1>1. c[1] # "text" /\ c # <<"step", 2>> /\ c # <<"trace", 2>>
  BY DEF Begins
<1> QED
  BY <1>1 DEF Begins, ReadTagged, HasRead

LEMMA TagsStep ==
    ASSUME NEW line, NEW words, NEW done, NEW c, EndsStep(c)
    PROVE  ReadTagged(HasRead(line, words, done), c) = HasRead(<<>>, Append(words, "step"), done)
<1>1. c[1] # "text" /\ c \notin {<<"step", 1>>, <<"trace", 1>>} /\ c # <<"trace", 2>>
  BY DEF EndsStep
<1> QED
  BY <1>1 DEF EndsStep, ReadTagged, HasRead

LEMMA TagsTrace ==
    ASSUME NEW line, NEW words, NEW done, NEW c, EndsTrace(c)
    PROVE  ReadTagged(HasRead(line, words, done), c) = HasRead(<<>>, Append(words, TraceWord(line)), done)
<1>1. c[1] # "text" /\ c \notin {<<"step", 1>>, <<"trace", 1>>} /\ c # <<"step", 2>>
  BY DEF EndsTrace
<1> DEFINE read == HasRead(line, words, done)
<1>2. read = [line |-> line, out |-> words, done |-> done] /\ read.line = line
  BY DEF HasRead
<1> HIDE DEF read
<1>3. ReadTagged(read, c)
        = [read EXCEPT !.line = <<>>, !.out = Append(@, IF read.line = <<>> THEN "raw" ELSE "trace")]
  BY <1>1 DEF EndsTrace, ReadTagged
<1>4. ReadTagged(read, c) = [line |-> <<>>, out |-> Append(words, TraceWord(line)), done |-> done]
  BY <1>2, <1>3 DEF TraceWord
<1> QED
  BY <1>4 DEF HasRead, read

LEMMA TaggedReads ==
    ASSUME NEW r, r = "browser", NEW a \in ReadOf(r), NEW o \in Seq(Passed), NEW c \in Symbols(r)
    PROVE  /\ ReadTagged(a, c) \in ReadOf(r)
           /\ ReadTagged(Behind(o, a), c) = Behind(o, ReadTagged(a, c))
<1>1. a.line \in HeldLines(r) /\ a.out \in Seq(Passed) /\ a.done \in BOOLEAN
      /\ a = HasRead(a.line, a.out, a.done) /\ Behind(o, a) = HasRead(a.line, o \o a.out, a.done)
  BY HasReadIs
<1>2. ASSUME NEW line \in HeldLines(r), NEW words \in Seq(Passed),
             ReadTagged(a, c) = HasRead(line, words, a.done),
             ReadTagged(Behind(o, a), c) = HasRead(line, o \o words, a.done)
      PROVE  /\ ReadTagged(a, c) \in ReadOf(r)
             /\ ReadTagged(Behind(o, a), c) = Behind(o, ReadTagged(a, c))
  BY <1>1, <1>2, HasReadIs
<1>3. \A w \in Passed : Append(a.out, w) \in Seq(Passed) /\ Append(o \o a.out, w) = o \o Append(a.out, w)
  BY <1>1
<1>4. <<>> \in HeldLines(r) /\ <<<<"step", 1>>>> \in HeldLines(r) /\ <<<<"trace", 1>>>> \in HeldLines(r)
  BY DEF HeldLines
<1>5. IsText(c) \/ Begins(c) \/ EndsStep(c) \/ EndsTrace(c)
  BY DEF Symbols, Halves, KindsFor, IsText, Begins, EndsStep, EndsTrace
<1>6. {"text", "step"} \subseteq Passed /\ TraceWord(a.line) \in Passed
  BY DEF Passed, TraceWord
<1>7. CASE IsText(c)
  <2>1. /\ ReadTagged(a, c) = HasRead(a.line, Append(a.out, "text"), a.done)
        /\ ReadTagged(Behind(o, a), c) = HasRead(a.line, Append(o \o a.out, "text"), a.done)
    BY <1>1, <1>7, TagsText
  <2> QED
    BY <1>1, <1>2, <1>3, <1>6, <2>1
<1>8. CASE Begins(c)
  <2>1. /\ ReadTagged(a, c) = HasRead(<<c>>, a.out, a.done)
        /\ ReadTagged(Behind(o, a), c) = HasRead(<<c>>, o \o a.out, a.done)
    BY <1>1, <1>8, TagsBegin
  <2>2. <<c>> \in HeldLines(r)
    BY <1>4, <1>8 DEF Begins
  <2> QED
    BY <1>1, <1>2, <2>1, <2>2
<1>9. CASE EndsStep(c)
  <2>1. /\ ReadTagged(a, c) = HasRead(<<>>, Append(a.out, "step"), a.done)
        /\ ReadTagged(Behind(o, a), c) = HasRead(<<>>, Append(o \o a.out, "step"), a.done)
    BY <1>1, <1>9, TagsStep
  <2> QED
    BY <1>2, <1>3, <1>4, <1>6, <2>1
<1>10. CASE EndsTrace(c)
  <2>1. /\ ReadTagged(a, c) = HasRead(<<>>, Append(a.out, TraceWord(a.line)), a.done)
        /\ ReadTagged(Behind(o, a), c)
              = HasRead(<<>>, Append(o \o a.out, TraceWord(a.line)), a.done)
    BY <1>1, <1>10, TagsTrace
  <2> QED
    BY <1>2, <1>3, <1>4, <1>6, <2>1
<1> QED
  BY <1>5, <1>7, <1>8, <1>9, <1>10

LEMMA SymbolReads ==
    ASSUME NEW r, NEW a \in ReadOf(r), NEW o \in Seq(Passed), NEW c \in Symbols(r)
    PROVE  /\ ReadSymbol(r, a, c) \in ReadOf(r)
           /\ ReadSymbol(r, Behind(o, a), c) = Behind(o, ReadSymbol(r, a, c))
BY TextReads, TaggedReads DEF ReadSymbol

LEMMA ReadingTyped ==
    ASSUME NEW r, NEW s \in Seq(Symbols(r)), NEW f, IsReading(r, s, f)
    PROVE  \A n \in 0 .. Len(s) : f[n] \in ReadOf(r)
<1> DEFINE G == {n \in 0 .. Len(s) : f[n] \in ReadOf(r)}
<1>1. Len(s) \in Nat
  OBVIOUS
<1>2. NothingRead \in ReadOf(r)
  BY DEF NothingRead, ReadOf, HeldLines
<1>3. 0 \in G
  BY <1>1, <1>2 DEF IsReading
<1>4. ASSUME NEW k \in 0 .. Len(s), k \in G, k < Len(s) PROVE k + 1 \in G
  <2>1. k + 1 \in 1 .. Len(s) /\ (k + 1) - 1 = k /\ k + 1 \in 0 .. Len(s)
    BY <1>1, <1>4
  <2>2. s[k + 1] \in Symbols(r)
    <3> HIDE DEF Symbols
    <3> QED
      BY <2>1
  <2>3. f[k + 1] = ReadSymbol(r, f[k], s[k + 1])
    BY <2>1 DEF IsReading
  <2>4. <<>> \in Seq(Passed)
    OBVIOUS
  <2> QED
    BY <1>4, <2>1, <2>2, <2>3, <2>4, SymbolReads
<1> HIDE DEF G
<1>5. \A k \in 0 .. Len(s) : k \in G
  BY <1>1, <1>3, <1>4, HandedOn
<1> QED
  BY <1>5 DEF G

LEMMA ReadsTyped ==
    ASSUME NEW r, NEW s \in Seq(Symbols(r))
    PROVE  Reads(r, s) \in ReadOf(r)
<1>1. PICK f : IsReading(r, s, f) /\ Reads(r, s) = f[Len(s)]
  BY ReadsAreReadings
<1>2. Len(s) \in 0 .. Len(s)
  OBVIOUS
<1> QED
  BY <1>1, <1>2, ReadingTyped

LEMMA TextIsKept ==
    ASSUME NEW r, NEW line, NEW words, NEW done, NEW c, c # NL
    PROVE  ReadText(r, HasRead(line, words, done), c) = HasRead(Append(line, c), words, done)
BY DEF ReadText, HasRead

\* A line that is held unfinished is read as itself.
LEMMA HeldIsHeld ==
    ASSUME NEW r, NEW b \in HeldLines(r)
    PROVE  Reads(r, b) = HasRead(b, <<>>, FALSE)
<1>1. b \in Seq(Symbols(r)) /\ Len(b) \in Nat
  BY HeldAreSymbols
<1>2. PICK f : IsReading(r, b, f) /\ Reads(r, b) = f[Len(b)]
  BY <1>1, ReadsAreReadings
<1> DEFINE no == FALSE
<1>3. f[0] = HasRead(<<>>, <<>>, no)
  BY <1>2 DEF IsReading, NothingRead, HasRead
<1> HIDE DEF no
<1>4. \A n \in 1 .. Len(b) : f[n] = ReadSymbol(r, f[n - 1], b[n])
  BY <1>2 DEF IsReading
<1>5. ASSUME r = "browser" PROVE Reads(r, b) = HasRead(b, <<>>, no)
  <2>1. ASSUME b = <<>> PROVE Reads(r, b) = HasRead(b, <<>>, no)
    <3>1. Len(b) = 0
      BY <2>1
    <3> QED
      BY <1>2, <1>3, <2>1, <3>1
  <2>2. ASSUME NEW c, Begins(c), b = <<c>> PROVE Reads(r, b) = HasRead(b, <<>>, no)
    <3>1. Len(b) = 1 /\ b[1] = c
      BY <2>2
    <3>2. f[1] = ReadTagged(f[0], c)
      BY <1>4, <1>5, <3>1 DEF ReadSymbol
    <3>3. f[1] = HasRead(<<c>>, <<>>, no)
      <4>1. ReadTagged(HasRead(<<>>, <<>>, no), c) = HasRead(<<c>>, <<>>, no)
        BY <2>2, TagsBegin
      <4> QED
        BY <1>3, <3>2, <4>1
    <3> QED
      BY <1>2, <2>2, <3>1, <3>3
  <2>3. Begins(<<"step", 1>>) /\ Begins(<<"trace", 1>>)
    BY DEF Begins
  <2> QED
    BY <1>5, <2>1, <2>2, <2>3 DEF HeldLines
<1>6. ASSUME r # "browser" PROVE Reads(r, b) = HasRead(b, <<>>, no)
  <2> DEFINE G == {n \in 0 .. Len(b) : f[n] = HasRead(SubSeq(b, 1, n), <<>>, no)}
  <2>1. 0 \in G
    <3>1. SubSeq(b, 1, 0) = <<>>
      BY <1>1
    <3>2. f[0] = HasRead(SubSeq(b, 1, 0), <<>>, no)
      BY <1>3, <3>1
    <3>3. 0 \in 0 .. Len(b)
      BY <1>1
    <3> QED
      BY <3>2, <3>3
  <2>2. ASSUME NEW k \in 0 .. Len(b), k \in G, k < Len(b) PROVE k + 1 \in G
    <3>1. k + 1 \in 1 .. Len(b) /\ (k + 1) - 1 = k /\ k + 1 \in 0 .. Len(b)
      BY <1>1, <2>2
    <3>2. b[k + 1] # NL
      <4>1. b \in Seq(Halves(r))
        BY <1>6 DEF HeldLines
      <4>2. b[k + 1] \in Halves(r)
        BY <3>1, <4>1
      <4>3. b[k + 1][2] # 0 /\ NL[2] = 0
        BY <4>2 DEF Halves, NL
      <4> QED
        BY <4>3
    <3>3. f[k + 1] = ReadText(r, f[k], b[k + 1])
      BY <1>4, <1>6, <3>1 DEF ReadSymbol
    <3>4. f[k + 1] = HasRead(Append(SubSeq(b, 1, k), b[k + 1]), <<>>, no)
      <4>1. f[k] = HasRead(SubSeq(b, 1, k), <<>>, no)
        BY <2>2
      <4>2. ReadText(r, HasRead(SubSeq(b, 1, k), <<>>, no), b[k + 1])
              = HasRead(Append(SubSeq(b, 1, k), b[k + 1]), <<>>, no)
        BY <3>2, TextIsKept
      <4> QED
        BY <3>3, <4>1, <4>2
    <3>5. Append(SubSeq(b, 1, k), b[k + 1]) = SubSeq(b, 1, k + 1)
      BY <1>1, <3>1
    <3> QED
      BY <3>1, <3>4, <3>5
  <2> HIDE DEF G
  <2>3. \A k \in 0 .. Len(b) : k \in G
    BY <1>1, <2>1, <2>2, HandedOn
  <2>4. f[Len(b)] = HasRead(SubSeq(b, 1, Len(b)), <<>>, no)
    <3>1. Len(b) \in G
      BY <1>1, <2>3
    <3> QED
      BY <3>1 DEF G
  <2>5. SubSeq(b, 1, Len(b)) = b
    BY <1>1, SubSeqFull
  <2> QED
    BY <1>2, <2>4, <2>5
<1> QED
  BY <1>5, <1>6 DEF no

\* What follows the symbols s may be read behind the line that s leaves unfinished alone.
LEMMA ReadsOn ==
    ASSUME NEW r, NEW s \in Seq(Symbols(r)), NEW t \in Seq(Symbols(r)), ~Reads(r, s).done
    PROVE  Reads(r, s \o t) = Behind(Reads(r, s).out, Reads(r, Reads(r, s).line \o t))
<1> DEFINE w == Reads(r, s)
           b == w.line
           o == w.out
<1>1. w \in ReadOf(r)
  BY ReadsTyped
<1>2. w = HasRead(b, o, FALSE) /\ b \in HeldLines(r) /\ o \in Seq(Passed)
  BY <1>1, HasReadIs
<1>3. b \in Seq(Symbols(r))
  BY <1>2, HeldAreSymbols
<1> HIDE DEF w, b, o
<1>4. PICK f : IsReading(r, s \o t, f) /\ Reads(r, s \o t) = f[Len(s \o t)]
  <2>1. s \o t \in Seq(Symbols(r))
    OBVIOUS
  <2> QED
    BY <2>1, ReadsAreReadings
<1>5. PICK g : IsReading(r, b \o t, g) /\ Reads(r, b \o t) = g[Len(b \o t)]
  <2>1. b \o t \in Seq(Symbols(r))
    BY <1>3
  <2> QED
    BY <2>1, ReadsAreReadings
<1>6. Len(s) \in Nat /\ Len(b) \in Nat /\ Len(t) \in Nat
  BY <1>3
<1>7. f[Len(s)] = w
  <2>1. PICK h : IsReading(r, s, h) /\ Reads(r, s) = h[Len(s)]
    BY ReadsAreReadings
  <2>2. Len(s) \in 0 .. Len(s)
    BY <1>6
  <2> QED
    BY <1>4, <2>1, <2>2, ReadingAgrees DEF w
<1>8. g[Len(b)] = HasRead(b, <<>>, FALSE)
  <2>1. PICK h : IsReading(r, b, h) /\ Reads(r, b) = h[Len(b)]
    BY <1>3, ReadsAreReadings
  <2>2. Len(b) \in 0 .. Len(b)
    BY <1>6
  <2>3. h[Len(b)] = HasRead(b, <<>>, FALSE)
    BY <1>2, <2>1, HeldIsHeld
  <2>4. g[Len(b)] = h[Len(b)]
    BY <1>3, <1>5, <2>1, <2>2, ReadingAgrees
  <2> QED
    BY <2>3, <2>4
<1>9. \A n \in 0 .. Len(b \o t) : g[n] \in ReadOf(r)
  <2>1. b \o t \in Seq(Symbols(r))
    BY <1>3
  <2> QED
    BY <1>5, <2>1, ReadingTyped
<1> DEFINE G == {n \in 0 .. Len(t) : f[Len(s) + n] = Behind(o, g[Len(b) + n])}
<1>10. 0 \in G
  <2>1. o \o <<>> = o
    BY <1>2
  <2>2. Behind(o, HasRead(b, <<>>, FALSE)) = HasRead(b, o, FALSE)
    BY <2>1 DEF Behind, HasRead
  <2>3. Len(s) + 0 = Len(s) /\ Len(b) + 0 = Len(b) /\ 0 \in 0 .. Len(t)
    BY <1>6
  <2> QED
    BY <1>2, <1>7, <1>8, <2>2, <2>3
<1>11. ASSUME NEW k \in 0 .. Len(t), k \in G, k < Len(t) PROVE k + 1 \in G
  <2> DEFINE i == Len(s) + k
             j == Len(b) + k
  <2>1. /\ i + 1 \in 1 .. Len(s \o t) /\ (i + 1) - 1 = i /\ Len(s) + (k + 1) = i + 1
        /\ j + 1 \in 1 .. Len(b \o t) /\ (j + 1) - 1 = j /\ Len(b) + (k + 1) = j + 1
        /\ j \in 0 .. Len(b \o t) /\ k + 1 \in 0 .. Len(t)
    BY <1>3, <1>6, <1>11
  <2>2. (s \o t)[i + 1] = t[k + 1] /\ (b \o t)[j + 1] = t[k + 1]
    BY <1>3, <1>6, <1>11
  <2>3. t[k + 1] \in Symbols(r)
    BY <1>6, <1>11
  <2>4. f[i] = Behind(o, g[j])
    BY <1>11
  <2> HIDE DEF i, j
  <2>5. f[i + 1] = ReadSymbol(r, f[i], t[k + 1]) /\ g[j + 1] = ReadSymbol(r, g[j], t[k + 1])
    BY <1>4, <1>5, <2>1, <2>2 DEF IsReading
  <2>6. f[i + 1] = Behind(o, g[j + 1])
    BY <1>2, <1>9, <2>1, <2>3, <2>4, <2>5, SymbolReads
  <2> QED
    BY <2>1, <2>6
<1> HIDE DEF G
<1>12. \A k \in 0 .. Len(t) : k \in G
  BY <1>6, <1>10, <1>11, HandedOn
<1>13. f[Len(s) + Len(t)] = Behind(o, g[Len(b) + Len(t)])
  <2>1. Len(t) \in G
    BY <1>6, <1>12
  <2> QED
    BY <2>1 DEF G
<1>14. Len(s \o t) = Len(s) + Len(t) /\ Len(b \o t) = Len(b) + Len(t)
  BY <1>3
<1> QED
  BY <1>4, <1>5, <1>13, <1>14 DEF w, b, o

----------------------------------------------------------------------------
LineTypes ==
    /\ reader \in Readers
    /\ sent \in Seq(Symbols(reader))
    /\ buffer \in HeldLines(reader)
    /\ out \in Seq(Passed)
    /\ over \in BOOLEAN

\* A trace id was cut.
ShowsRaw(words) == "raw" \in ToSet(words)

\* What was passed on and what is held are of everything sent; the end adds the leftover.
ReadSoFar(words, held, ended, whole) ==
    \/ ~ended /\ words = whole.out /\ held = whole.line /\ ~whole.done
    \/ ended /\ words = whole.out
    \/ ended /\ words = whole.out \o Leftover(reader, whole.line)

LineInd == LineTypes /\ (ShowsRaw(out) \/ ReadSoFar(out, buffer, over, Reads(reader, sent)))

LEMMA RawStays ==
    ASSUME NEW s \in Seq(Passed), NEW t \in Seq(Passed), ShowsRaw(s) \/ ShowsRaw(t)
    PROVE  ShowsRaw(s \o t)
<1>1. s \o t \in Seq(Passed) /\ Len(s) \in Nat /\ Len(t) \in Nat /\ Len(s \o t) = Len(s) + Len(t)
  OBVIOUS
<1>2. \A u \in Seq(Passed) : ShowsRaw(u) <=> \E i \in 1 .. Len(u) : u[i] = "raw"
  BY DEF ShowsRaw, ToSet
<1>3. ASSUME NEW i \in 1 .. Len(s), s[i] = "raw" PROVE ShowsRaw(s \o t)
  <2>1. i \in 1 .. Len(s \o t) /\ (s \o t)[i] = s[i]
    BY <1>1
  <2> QED
    BY <1>1, <1>2, <1>3, <2>1
<1>4. ASSUME NEW i \in 1 .. Len(t), t[i] = "raw" PROVE ShowsRaw(s \o t)
  <2>1. Len(s) + i \in 1 .. Len(s \o t) /\ (s \o t)[Len(s) + i] = t[i]
    BY <1>1
  <2> QED
    BY <1>1, <1>2, <1>4, <2>1
<1> QED
  BY <1>2, <1>3, <1>4

LEMMA RawAdded ==
    ASSUME NEW s \in Seq(Passed)
    PROVE  Append(s, "raw") \in Seq(Passed) /\ ShowsRaw(Append(s, "raw"))
<1>1. "raw" \in Passed
  BY DEF Passed
<1>2. Len(s) \in Nat /\ Append(s, "raw") \in Seq(Passed) /\ Len(Append(s, "raw")) = Len(s) + 1
      /\ Append(s, "raw")[Len(s) + 1] = "raw"
  BY <1>1
<1> QED
  BY <1>2 DEF ShowsRaw, ToSet

LEMMA LineStarts == LineInit => LineInd
<1> SUFFICES ASSUME LineInit PROVE LineInd
  OBVIOUS
<1>1. LineTypes
  <2>1. \A T : <<>> \in Seq(T)
    OBVIOUS
  <2>2. <<>> \in HeldLines(reader)
    BY <2>1 DEF HeldLines
  <2> QED
    BY <2>1, <2>2 DEF LineInit, LineTypes
<1>2. Reads(reader, sent) = HasRead(<<>>, <<>>, FALSE)
  BY <1>1, HeldIsHeld DEF LineInit, LineTypes
<1>3. ReadSoFar(out, buffer, over, Reads(reader, sent))
  <2> DEFINE whole == Reads(reader, sent)
  <2>1. whole.line = <<>> /\ whole.out = <<>> /\ ~whole.done
    BY <1>2 DEF HasRead
  <2> HIDE DEF whole
  <2>2. ~over /\ out = whole.out /\ buffer = whole.line /\ ~whole.done
    BY <2>1 DEF LineInit
  <2> QED
    BY <2>2 DEF ReadSoFar, whole
<1> QED
  BY <1>1, <1>3 DEF LineInd

LEMMA ListsAre ==
    ASSUME NEW T, NEW n \in Nat, NEW list \in [1 .. n -> T]
    PROVE  list \in Seq(T) /\ Len(list) = n
OBVIOUS

\* The chunk and what it completes are of the reader's symbols.
LEMMA ChunkTyped ==
    ASSUME NEW n \in Nat, NEW chunk \in [1 .. n -> (KindsFor(reader) \X {1, 2}) \cup {NL}],
           sent \in Seq(Symbols(reader)), WritesLines(sent \o chunk)
    PROVE  chunk \in Seq(Symbols(reader)) /\ sent \o chunk \in Seq(Symbols(reader))
<1> DEFINE S == (KindsFor(reader) \X {1, 2}) \cup {NL}
<1>1. chunk \in Seq(S) /\ Len(chunk) = n
  <2>1. chunk \in [1 .. n -> S]
    OBVIOUS
  <2> HIDE DEF S
  <2> QED
    BY <2>1, ListsAre
<1>2. CASE reader # "browser"
  <2>1. Symbols(reader) = S
    BY <1>2 DEF Symbols, Halves
  <2> HIDE DEF S
  <2> QED
    BY <1>1, <2>1
<1>3. CASE reader = "browser"
  <2>1. Symbols(reader) = KindsFor(reader) \X {1, 2}
    BY <1>3 DEF Symbols, Halves
  <2>2. ASSUME NEW i \in 1 .. n PROVE chunk[i] \in Symbols(reader)
    <3>1. Len(sent) \in Nat /\ Len(sent) + i \in DOMAIN (sent \o chunk)
          /\ (sent \o chunk)[Len(sent) + i] = chunk[i]
      <4> HIDE DEF S
      <4> QED
        BY <1>1
    <3>2. chunk[i] # NL
      BY <1>3, <3>1 DEF WritesLines
    <3> QED
      BY <2>1, <3>2
  <2>3. chunk \in [1 .. n -> Symbols(reader)]
    BY <2>2
  <2> QED
    BY <2>3
<1> QED
  BY <1>2, <1>3

LEMMA ChunkIsRead == LineInd /\ ReadChunk => LineInd'
<1> SUFFICES ASSUME LineInd, ReadChunk PROVE LineInd'
  OBVIOUS
<1>1. PICK chunk \in UNION {[1 .. n -> (KindsFor(reader) \X {1, 2}) \cup {NL}] : n \in 1 .. MaxChunk} :
        /\ ~over /\ WritesLines(sent \o chunk)
        /\ sent' = sent \o chunk
        /\ buffer' = Keeps(reader, Reads(reader, buffer \o chunk))
        /\ out' = out \o PassedOn(reader, Reads(reader, buffer \o chunk))
        /\ over' = Reads(reader, buffer \o chunk).done
        /\ reader' = reader
  BY DEF ReadChunk
<1>2. PICK n \in Nat : chunk \in [1 .. n -> (KindsFor(reader) \X {1, 2}) \cup {NL}]
  BY LineAssumption
<1>3. LineTypes
  BY DEF LineInd
<1>4. chunk \in Seq(Symbols(reader)) /\ sent' \in Seq(Symbols(reader))
  BY <1>1, <1>2, <1>3, ChunkTyped DEF LineTypes
<1> DEFINE read == Reads(reader, buffer \o chunk)
<1>5. read \in ReadOf(reader)
  <2>1. buffer \in Seq(Symbols(reader))
    BY <1>3, HeldAreSymbols DEF LineTypes
  <2>2. buffer \o chunk \in Seq(Symbols(reader))
    BY <1>4, <2>1
  <2> QED
    BY <2>2, ReadsTyped
<1> HIDE DEF read
<1>6. read.line \in HeldLines(reader) /\ read.out \in Seq(Passed) /\ read.done \in BOOLEAN
  BY <1>5 DEF ReadOf
<1>7. PassedOn(reader, read) \in Seq(Passed)
  BY <1>6, RawAdded DEF PassedOn
<1>8. LineTypes'
  <2>1. Keeps(reader, read) \in HeldLines(reader)
    BY <1>6 DEF Keeps, CutsTrace, HeldLines
  <2>2. out' \in Seq(Passed)
    BY <1>1, <1>3, <1>7 DEF LineTypes, read
  <2> QED
    BY <1>1, <1>3, <1>4, <1>6, <2>1, <2>2 DEF LineTypes, read
<1>9. CASE ShowsRaw(out)
  BY <1>1, <1>3, <1>7, <1>8, <1>9, RawStays DEF LineTypes, LineInd, read
<1>10. CASE CutsTrace(reader, read)
  <2>1. ShowsRaw(PassedOn(reader, read))
    BY <1>6, <1>10, RawAdded DEF PassedOn
  <2> QED
    BY <1>1, <1>3, <1>7, <1>8, <2>1, RawStays DEF LineTypes, LineInd, read
<1>11. CASE ~ShowsRaw(out) /\ ~CutsTrace(reader, read)
  <2>1. out = Reads(reader, sent).out /\ buffer = Reads(reader, sent).line /\ ~Reads(reader, sent).done
    BY <1>1, <1>11 DEF LineInd, ReadSoFar
  <2>2. Reads(reader, sent \o chunk) = Behind(out, read)
    BY <1>3, <1>4, <2>1, ReadsOn DEF LineTypes, read
  <2>3. Reads(reader', sent') = Behind(out, read)
    BY <1>1, <2>2
  <2>4. out' = out \o read.out /\ buffer' = read.line /\ over' = read.done
    BY <1>1, <1>11 DEF PassedOn, Keeps, read
  <2>5. ReadSoFar(out, buffer, over, Reads(reader, sent))'
    <3> DEFINE whole == Reads(reader', sent')
    <3>1. whole.out = out' /\ whole.line = buffer' /\ whole.done = over'
      BY <2>3, <2>4 DEF Behind
    <3>2. over' \in BOOLEAN
      BY <1>8 DEF LineTypes
    <3> HIDE DEF whole
    <3>3. \/ ~over' /\ out' = whole.out /\ buffer' = whole.line /\ ~whole.done
          \/ over' /\ out' = whole.out
      BY <3>1, <3>2
    <3> QED
      BY <3>3 DEF ReadSoFar, whole
  <2> QED
    BY <1>8, <2>5 DEF LineInd
<1> QED
  BY <1>9, <1>10, <1>11

LEMMA StreamEndsWhole == LineInd /\ EndOfStream => LineInd'
<1> SUFFICES ASSUME LineInd, EndOfStream PROVE LineInd'
  OBVIOUS
<1>1. LineTypes /\ ~over /\ over' /\ out' = out \o Leftover(reader, buffer)
      /\ reader' = reader /\ sent' = sent /\ buffer' = buffer
  BY DEF LineInd, EndOfStream
<1>2. Leftover(reader, buffer) \in Seq(Passed)
  BY LeftoverPassed
<1>3. LineTypes'
  <2>1. over' \in BOOLEAN
    BY DEF EndOfStream
  <2> QED
    BY <1>1, <1>2, <2>1 DEF LineTypes
<1>4. CASE ShowsRaw(out)
  BY <1>1, <1>2, <1>3, <1>4, RawStays DEF LineTypes, LineInd
<1>5. CASE ~ShowsRaw(out)
  <2>1. out = Reads(reader, sent).out /\ buffer = Reads(reader, sent).line
    BY <1>1, <1>5 DEF LineInd, ReadSoFar
  <2>2. ReadSoFar(out, buffer, over, Reads(reader, sent))'
    BY <1>1, <2>1 DEF ReadSoFar
  <2> QED
    BY <1>3, <2>2 DEF LineInd
<1> QED
  BY <1>4, <1>5

LEMMA StreamBreaksWhole == LineInd /\ StreamBreaks => LineInd'
<1> SUFFICES ASSUME LineInd, StreamBreaks PROVE LineInd'
  OBVIOUS
<1>1. LineTypes /\ ~over /\ over' = TRUE /\ out' = out
      /\ reader' = reader /\ sent' = sent /\ buffer' = buffer
  BY DEF LineInd, StreamBreaks
<1>2. LineTypes'
  BY <1>1 DEF LineTypes
<1>3. CASE ShowsRaw(out)
  BY <1>1, <1>2, <1>3 DEF LineInd
<1>4. CASE ~ShowsRaw(out)
  BY <1>1, <1>2, <1>4 DEF LineInd, ReadSoFar
<1> QED
  BY <1>3, <1>4

LEMMA LineStep == LineInd /\ [LineNext]_lineVars => LineInd'
<1>1. LineInd /\ UNCHANGED lineVars => LineInd'
  <2> SUFFICES ASSUME LineInd, UNCHANGED lineVars PROVE LineInd'
    OBVIOUS
  <2>1. reader' = reader /\ sent' = sent /\ buffer' = buffer /\ out' = out /\ over' = over
    BY DEF lineVars
  <2>2. LineTypes' /\ Reads(reader', sent') = Reads(reader, sent)
    BY <2>1 DEF LineInd, LineTypes
  <2> QED
    BY <2>1, <2>2 DEF LineInd, ReadSoFar
<1> QED
  BY <1>1, ChunkIsRead, StreamEndsWhole, StreamBreaksWhole DEF LineNext

LEMMA LineShows == LineInd => LinesSurviveChunks
BY DEF LineInd, ReadSoFar, ShowsRaw, LinesSurviveChunks

(* LinesSurviveChunks is an invariant: streamChatViaHttp, processChatStream,              *)
(* processGenerateStream, the chat panel and the legacy chat pass on what the complete    *)
(* lines hold, each once and in order, wherever the chunks end, unless the legacy chat    *)
(* shows the beginning of a trace id that a chunk cut.                                    *)
THEOREM LinesReadWhole == LineSpec => []LinesSurviveChunks
<1>1. LineSpec => []LineInd
  BY LineStarts, LineStep, PTL DEF LineSpec
<1> QED
  BY <1>1, LineShows, PTL
----------------------------------------------------------------------------
(***************************************************************************)
(* ChunksInvisible for any length of the stream and of its chunks.  Seen,  *)
(* what a reader of a whole text sees, is a recursive function on the      *)
(* lengths of its ends; that there is one, and that it depends on nothing  *)
(* but the end it is applied to, is proved by the least length at which it *)
(* would not hold.  Text in which no tag begins is seen as it is           *)
(* (SeenPrefixed), and what longestSuffixPrefix holds back is enough for   *)
(* no tag to begin in what is shown, whatever follows (HeldIsClear).  So   *)
(* no turn of the loop changes what will have been told at the end of the  *)
(* stream (Tells), for any text that may follow, and no tag is left in the *)
(* buffer between two chunks.                                              *)
(***************************************************************************)

Tags == {OpenTag, CloseTag}

\* The tag begins at the place i.
TagAt(s, tag, i) ==
    i \in 1 .. Len(s) - 2 /\ s[i] = tag[1] /\ s[i + 1] = tag[2] /\ s[i + 2] = tag[3]

LEMMA TagsAre ==
    /\ OpenTag # CloseTag
    /\ \A tag \in Tags : tag \in Seq(Alphabet) /\ Len(tag) = 3 /\ Other(tag) \in Tags
<1>1. OpenTag \in Seq(Alphabet) /\ Len(OpenTag) = 3
  BY DEF OpenTag, Alphabet
<1>2. CloseTag \in Seq(Alphabet) /\ Len(CloseTag) = 3
  BY DEF CloseTag, Alphabet
<1>3. OpenTag # CloseTag
  <2>1. OpenTag[2] = "think" /\ CloseTag[2] = "/think"
    BY DEF OpenTag, CloseTag
  <2> QED
    BY <2>1
<1> QED
  BY <1>1, <1>2, <1>3 DEF Tags, Other

LEMMA PartIs ==
    ASSUME NEW s \in Seq(Alphabet), NEW i \in 1 .. Len(s), NEW j \in i - 1 .. Len(s)
    PROVE  /\ SubSeq(s, i, j) \in Seq(Alphabet)
           /\ Len(SubSeq(s, i, j)) = j - i + 1
           /\ \A k \in 1 .. j - i + 1 : SubSeq(s, i, j)[k] = s[i + k - 1]
OBVIOUS

LEMMA OccurrencesAre ==
    ASSUME NEW s \in Seq(Alphabet), NEW tag \in Tags, NEW i
    PROVE  i \in Occurrences(s, tag) <=> TagAt(s, tag, i)
<1>1. tag \in Seq(Alphabet) /\ Len(tag) = 3 /\ Len(s) \in Nat
  BY TagsAre
<1>2. Len(s) - Len(tag) + 1 = Len(s) - 2
  BY <1>1
<1>3. ASSUME i \in 1 .. Len(s) - 2
      PROVE  SubSeq(s, i, i + Len(tag) - 1) = tag
               <=> s[i] = tag[1] /\ s[i + 1] = tag[2] /\ s[i + 2] = tag[3]
  <2> DEFINE part == SubSeq(s, i, i + 2)
  <2>1. i \in 1 .. Len(s) /\ i + 2 \in i - 1 .. Len(s) /\ (i + 2) - i + 1 = 3
        /\ i + Len(tag) - 1 = i + 2 /\ i + 1 - 1 = i /\ i + 2 - 1 = i + 1 /\ i + 3 - 1 = i + 2
    BY <1>1, <1>3
  <2>2. part \in Seq(Alphabet) /\ Len(part) = 3 /\ \A k \in 1 .. 3 : part[k] = s[i + k - 1]
    BY <2>1, PartIs
  <2>3. part[1] = s[i] /\ part[2] = s[i + 1] /\ part[3] = s[i + 2]
    BY <2>1, <2>2
  <2> HIDE DEF part
  <2>4. part = tag <=> \A k \in 1 .. 3 : part[k] = tag[k]
    BY <1>1, <2>2, SeqEqual
  <2>5. (\A k \in 1 .. 3 : part[k] = tag[k]) <=> part[1] = tag[1] /\ part[2] = tag[2] /\ part[3] = tag[3]
    OBVIOUS
  <2> QED
    BY <2>1, <2>3, <2>4, <2>5 DEF part
<1> QED
  BY <1>2, <1>3 DEF Occurrences, TagAt

LEMMA IndexIs ==
    ASSUME NEW s \in Seq(Alphabet), NEW tag \in Tags, Occurrences(s, tag) # {}
    PROVE  /\ TagAt(s, tag, IndexOf(s, tag))
           /\ IndexOf(s, tag) \in 1 .. Len(s) - 2
           /\ \A j : TagAt(s, tag, j) => IndexOf(s, tag) <= j
<1>1. Occurrences(s, tag) \in SUBSET Nat
  BY OccurrencesAre DEF TagAt
<1>2. \E i \in Occurrences(s, tag) : \A j \in Occurrences(s, tag) : i <= j
  BY <1>1, HasMin
<1>3. /\ IndexOf(s, tag) \in Occurrences(s, tag)
      /\ \A j \in Occurrences(s, tag) : IndexOf(s, tag) <= j
  BY <1>2 DEF IndexOf
<1> QED
  BY <1>3, OccurrencesAre DEF TagAt

LEMMA IndexFound ==
    ASSUME NEW s \in Seq(Alphabet), NEW tag \in Tags, NEW i, TagAt(s, tag, i),
           \A j : TagAt(s, tag, j) => i <= j
    PROVE  Occurrences(s, tag) # {} /\ IndexOf(s, tag) = i
<1>1. Occurrences(s, tag) # {}
  BY OccurrencesAre
<1>2. IndexOf(s, tag) \in Int /\ i \in Int /\ IndexOf(s, tag) <= i /\ i <= IndexOf(s, tag)
  <2>1. /\ TagAt(s, tag, IndexOf(s, tag)) /\ IndexOf(s, tag) \in 1 .. Len(s) - 2
        /\ \A j : TagAt(s, tag, j) => IndexOf(s, tag) <= j
    BY <1>1, IndexIs
  <2>2. i \in 1 .. Len(s) - 2
    BY DEF TagAt
  <2>3. IndexOf(s, tag) <= i /\ i <= IndexOf(s, tag)
    BY <2>1
  <2> QED
    BY <2>1, <2>2, <2>3
<1>3. \A a, b \in Int : a <= b /\ b <= a => a = b
  OBVIOUS
<1> QED
  BY <1>1, <1>2, <1>3

LEMMA EndingIs ==
    ASSUME NEW s \in Seq(Alphabet), NEW n \in 0 .. Len(s)
    PROVE  /\ Ending(s, n) \in Seq(Alphabet)
           /\ Len(Ending(s, n)) = n
           /\ \A k \in 1 .. n : Ending(s, n)[k] = s[Len(s) - n + k]
<1>1. Len(s) \in Nat
  OBVIOUS
<1>2. CASE n = 0
  BY <1>1, <1>2 DEF Ending
<1>3. CASE n # 0
  <2>1. Len(s) - n + 1 \in 1 .. Len(s) /\ Len(s) \in (Len(s) - n + 1) - 1 .. Len(s)
        /\ Len(s) - (Len(s) - n + 1) + 1 = n
        /\ \A k \in 1 .. n : (Len(s) - n + 1) + k - 1 = Len(s) - n + k
    BY <1>1, <1>3
  <2> QED
    BY <2>1, PartIs DEF Ending
<1> QED
  BY <1>2, <1>3

\* The end of an end.
LEMMA EndingOfEnding ==
    ASSUME NEW s \in Seq(Alphabet), NEW m \in 0 .. Len(s), NEW n \in 0 .. m
    PROVE  Ending(Ending(s, m), n) = Ending(s, n)
<1> DEFINE u == Ending(s, m)
           v == Ending(u, n)
           w == Ending(s, n)
<1>1. Len(s) \in Nat /\ n \in 0 .. Len(s)
  OBVIOUS
<1>2. u \in Seq(Alphabet) /\ Len(u) = m /\ \A k \in 1 .. m : u[k] = s[Len(s) - m + k]
  BY EndingIs
<1> HIDE DEF u
<1>3. v \in Seq(Alphabet) /\ Len(v) = n /\ \A k \in 1 .. n : v[k] = u[m - n + k]
  BY <1>2, EndingIs
<1>4. w \in Seq(Alphabet) /\ Len(w) = n /\ \A k \in 1 .. n : w[k] = s[Len(s) - n + k]
  BY <1>1, EndingIs
<1> HIDE DEF v, w
<1>5. ASSUME NEW k \in 1 .. n PROVE v[k] = w[k]
  <2>1. m - n + k \in 1 .. m /\ Len(s) - m + (m - n + k) = Len(s) - n + k
    BY <1>1
  <2> QED
    BY <1>2, <1>3, <1>4, <2>1
<1>6. v = w
  BY <1>3, <1>4, <1>5, SeqEqual
<1> QED
  BY <1>6 DEF u, v, w


\* What is left behind the first tag of the last n characters.
Left(s, n, tag) == n - (IndexOf(Ending(s, n), tag) + Len(tag) - 1)

LEMMA LeftIsLess ==
    ASSUME NEW s \in Seq(Alphabet), NEW n \in 0 .. Len(s), NEW tag \in Tags,
           Occurrences(Ending(s, n), tag) # {}
    PROVE  Left(s, n, tag) \in 0 .. n /\ Left(s, n, tag) < n
<1> DEFINE u == Ending(s, n)
           i == IndexOf(u, tag)
<1>1. u \in Seq(Alphabet) /\ Len(u) = n
  BY EndingIs
<1>2. i \in 1 .. Len(u) - 2
  BY <1>1, IndexIs
<1>3. Len(tag) = 3
  BY TagsAre
<1>4. Left(s, n, tag) = n - (i + 3 - 1)
  BY <1>3 DEF Left
<1> HIDE DEF u, i
<1> QED
  BY <1>1, <1>2, <1>4

LEMMA SeesNoTag ==
    ASSUME NEW u, NEW tag, NEW a, NEW b, Occurrences(u, tag) = {}
    PROVE  Sees(u, tag, a) = Sees(u, tag, b)
BY DEF Sees

UnfoldsTo(s, k, f) ==
    f = [n \in 0 .. k |->
           [tag \in Tags |-> Sees(Ending(s, n), tag, f[Left(s, n, tag)][Other(tag)])]]

\* What a reader sees in the ends of s.
IsSight(s, f) ==
    \A n \in 0 .. Len(s) : \A tag \in Tags :
        f[n][tag] = Sees(Ending(s, n), tag, f[Left(s, n, tag)][Other(tag)])

LEMMA UnfoldsIs ==
    ASSUME NEW s, NEW k, NEW f, UnfoldsTo(s, k, f), NEW n \in 0 .. k, NEW tag \in Tags
    PROVE  f[n][tag] = Sees(Ending(s, n), tag, f[Left(s, n, tag)][Other(tag)])
<1>1. f[n] = [t \in Tags |-> Sees(Ending(s, n), t, f[Left(s, n, t)][Other(t)])]
  BY Zenon DEF UnfoldsTo
<1> QED
  BY <1>1

LEMMA SightExists ==
    ASSUME NEW s \in Seq(Alphabet)
    PROVE  \E f : UnfoldsTo(s, Len(s), f)
<1> DEFINE G == {k \in 0 .. Len(s) : \E f : UnfoldsTo(s, k, f)}
<1>1. Len(s) \in Nat
  OBVIOUS
\* A function that sees what f does up to k, and goes on from it, unfolds up to k + 1.
<1>2. ASSUME NEW k \in 0 .. Len(s), NEW f,
             \A n \in 0 .. k : n < k => \A tag \in Tags :
                f[n][tag] = Sees(Ending(s, n), tag, f[Left(s, n, tag)][Other(tag)])
      PROVE  k \in G
  <2> DEFINE last == [tag \in Tags |-> Sees(Ending(s, k), tag, f[Left(s, k, tag)][Other(tag)])]
             g == [n \in 0 .. k |-> IF n < k THEN [tag \in Tags |-> f[n][tag]] ELSE last]
  <2>1. ASSUME NEW n \in 0 .. k, NEW tag \in Tags
        PROVE  g[n][tag] = Sees(Ending(s, n), tag, f[Left(s, n, tag)][Other(tag)])
    <3>1. CASE n < k
      BY <1>2, <3>1
    <3>2. CASE n = k
      BY <3>2
    <3> QED
      BY <3>1, <3>2
  <2>2. g = [n \in 0 .. k |-> [tag \in Tags |-> g[n][tag]]]
    OBVIOUS
  <2>3. \A n \in 0 .. k : n < k => \A tag \in Tags : g[n][tag] = f[n][tag]
    OBVIOUS
  <2> HIDE DEF g, last
  <2>4. ASSUME NEW n \in 0 .. k, NEW tag \in Tags
        PROVE  g[n][tag] = Sees(Ending(s, n), tag, g[Left(s, n, tag)][Other(tag)])
    <3>1. CASE Occurrences(Ending(s, n), tag) = {}
      BY <2>1, <3>1, SeesNoTag
    <3>2. CASE Occurrences(Ending(s, n), tag) # {}
      <4>1. n \in 0 .. Len(s)
        BY <1>1
      <4>2. Left(s, n, tag) \in 0 .. n /\ Left(s, n, tag) < n
        BY <3>2, <4>1, LeftIsLess
      <4>3. Left(s, n, tag) \in 0 .. k /\ Left(s, n, tag) < k
        BY <4>2
      <4>4. g[Left(s, n, tag)][Other(tag)] = f[Left(s, n, tag)][Other(tag)]
        BY <2>3, <4>3, TagsAre
      <4> QED
        BY <2>1, <4>4
    <3> QED
      BY <3>1, <3>2
  <2>5. UnfoldsTo(s, k, g)
    BY <2>2, <2>4 DEF UnfoldsTo
  <2> QED
    BY <2>5
<1>3. 0 \in G
  <2>1. 0 \in 0 .. Len(s) /\ \A n \in 0 .. 0 : ~(n < 0)
    BY <1>1
  <2> HIDE DEF G
  <2> QED
    BY <1>2, <2>1
<1>4. ASSUME NEW k \in 0 .. Len(s), k \in G, k < Len(s) PROVE k + 1 \in G
  <2>1. PICK f : UnfoldsTo(s, k, f)
    BY <1>4
  <2>2. k + 1 \in 0 .. Len(s) /\ \A n \in 0 .. k + 1 : n < k + 1 => n \in 0 .. k
    BY <1>1, <1>4
  <2>3. \A n \in 0 .. k : \A tag \in Tags :
           f[n][tag] = Sees(Ending(s, n), tag, f[Left(s, n, tag)][Other(tag)])
    BY <2>1, UnfoldsIs
  <2> HIDE DEF G
  <2> QED
    BY <1>2, <2>2, <2>3
<1> HIDE DEF G
<1>5. \A k \in 0 .. Len(s) : k \in G
  BY <1>1, <1>3, <1>4, HandedOn
<1>6. Len(s) \in G
  BY <1>1, <1>5
<1> QED
  BY <1>6 DEF G

LEMMA SeenIsSight ==
    ASSUME NEW s \in Seq(Alphabet)
    PROVE  \E f : IsSight(s, f) /\ \A tag \in Tags : Seen(s, tag) = f[Len(s)][tag]
<1> DEFINE f == CHOOSE f : UnfoldsTo(s, Len(s), f)
<1>1. UnfoldsTo(s, Len(s), f)
  BY SightExists
<1>2. \A tag \in Tags : Seen(s, tag) = f[Len(s)][tag]
  BY DEF Seen, UnfoldsTo, Tags, Left
<1> HIDE DEF f
<1>3. IsSight(s, f)
  BY <1>1, UnfoldsIs DEF IsSight
<1> QED
  BY <1>2, <1>3

\* What is seen in an end of s is what is seen in that end alone.
LEMMA SightsAgree ==
    ASSUME NEW s \in Seq(Alphabet), NEW m \in 0 .. Len(s), NEW f, NEW g,
           IsSight(s, f), IsSight(Ending(s, m), g)
    PROVE  \A n \in 0 .. m : \A tag \in Tags : g[n][tag] = f[n][tag]
<1> DEFINE same(n) == \A tag \in Tags : g[n][tag] = f[n][tag]
           G == {k \in 0 .. m : \A n \in 0 .. k : same(n)}
<1>1. Len(s) \in Nat /\ Len(Ending(s, m)) = m /\ m \in Nat
  BY EndingIs
<1>2. ASSUME NEW n \in 0 .. m, \A j \in 0 .. n : j < n => same(j) PROVE same(n)
  <2> SUFFICES ASSUME NEW tag \in Tags PROVE g[n][tag] = f[n][tag]
    OBVIOUS
  <2>1. n \in 0 .. Len(s) /\ Ending(Ending(s, m), n) = Ending(s, n)
    BY <1>1, EndingOfEnding
  <2>2. Left(Ending(s, m), n, tag) = Left(s, n, tag)
    BY <2>1 DEF Left
  <2>3. /\ f[n][tag] = Sees(Ending(s, n), tag, f[Left(s, n, tag)][Other(tag)])
        /\ g[n][tag] = Sees(Ending(s, n), tag, g[Left(s, n, tag)][Other(tag)])
    BY <1>1, <2>1, <2>2 DEF IsSight
  <2>4. CASE Occurrences(Ending(s, n), tag) = {}
    BY <2>3, <2>4, SeesNoTag
  <2>5. CASE Occurrences(Ending(s, n), tag) # {}
    <3>1. Left(s, n, tag) \in 0 .. n /\ Left(s, n, tag) < n
      BY <2>1, <2>5, LeftIsLess
    <3>2. g[Left(s, n, tag)][Other(tag)] = f[Left(s, n, tag)][Other(tag)]
      BY <1>2, <3>1, TagsAre
    <3> QED
      BY <2>3, <3>2
  <2> QED
    BY <2>4, <2>5
<1> HIDE DEF same
<1>3. 0 \in G
  BY <1>1, <1>2
<1>4. ASSUME NEW k \in 0 .. m, k \in G, k < m PROVE k + 1 \in G
  <2>1. k + 1 \in 0 .. m /\ \A n \in 0 .. k + 1 : n \in 0 .. k \/ n = k + 1
    BY <1>1, <1>4
  <2>2. \A j \in 0 .. k + 1 : j < k + 1 => same(j)
    BY <1>4
  <2>3. same(k + 1)
    BY <1>2, <2>1, <2>2
  <2> QED
    BY <1>4, <2>1, <2>3
<1> HIDE DEF G
<1>5. \A k \in 0 .. m : k \in G
  BY <1>1, <1>3, <1>4, HandedOn
<1>6. \A n \in 0 .. m : same(n)
  BY <1>5 DEF G
<1> QED
  BY <1>6 DEF same

\* What is seen of s is what is before its first tag, and what is seen behind that.
LEMMA SeenIs ==
    ASSUME NEW s \in Seq(Alphabet), NEW tag \in Tags
    PROVE  Seen(s, tag)
             = Sees(s, tag, Seen(Ending(s, Len(s) - (IndexOf(s, tag) + 2)), Other(tag)))
<1>1. PICK f : IsSight(s, f) /\ \A t \in Tags : Seen(s, t) = f[Len(s)][t]
  BY SeenIsSight
<1>2. Len(s) \in Nat /\ Len(s) \in 0 .. Len(s) /\ Ending(s, Len(s)) = s
  <2>1. SubSeq(s, 1, Len(s)) = s
    BY SubSeqFull
  <2> QED
    BY <2>1 DEF Ending
<1> DEFINE m == Len(s) - (IndexOf(s, tag) + 2)
<1>3. Seen(s, tag) = Sees(s, tag, f[Left(s, Len(s), tag)][Other(tag)])
  BY <1>1, <1>2 DEF IsSight
<1>4. CASE Occurrences(s, tag) = {}
  BY <1>3, <1>4, SeesNoTag
<1>5. CASE Occurrences(s, tag) # {}
  <2>1. IndexOf(s, tag) \in 1 .. Len(s) - 2 /\ Len(tag) = 3
    BY <1>5, IndexIs, TagsAre
  <2>2. m \in 0 .. Len(s) /\ Left(s, Len(s), tag) = m
    BY <1>2, <2>1 DEF Left
  <2> HIDE DEF m
  <2>3. Ending(s, m) \in Seq(Alphabet) /\ Len(Ending(s, m)) = m
    BY <2>2, EndingIs
  <2>4. PICK g : IsSight(Ending(s, m), g) /\ \A t \in Tags : Seen(Ending(s, m), t) = g[m][t]
    BY <2>3, SeenIsSight
  <2>5. m \in 0 .. m
    BY <2>2
  <2>6. g[m][Other(tag)] = f[m][Other(tag)]
    BY <1>1, <2>2, <2>4, <2>5, SightsAgree, TagsAre
  <2>7. Seen(Ending(s, m), Other(tag)) = f[m][Other(tag)]
    BY <2>4, <2>6, TagsAre
  <2> QED
    BY <1>3, <2>2, <2>7 DEF m
<1> QED
  BY <1>4, <1>5

----------------------------------------------------------------------------
Text == Seq(Alphabet)
Sights == [open : Text, visible : Text, thoughts : Seq(Text)]

LEMMA TextJoins ==
    /\ \A s, u \in Text : s \o u \in Text /\ Len(s \o u) = Len(s) + Len(u) /\ Len(s) \in Nat
    /\ \A s, u, v \in Text : (s \o u) \o v = s \o (u \o v)
    /\ <<>> \in Text /\ \A s \in Text : s \o <<>> = s /\ <<>> \o s = s
BY ConcatAssociative DEF Text

\* Texts are joined in whatever order.
LEMMA Associates ==
    ASSUME NEW s \in Text, NEW u \in Text, NEW v \in Text
    PROVE  (s \o u) \o v = s \o (u \o v)
BY ConcatAssociative DEF Text

LEMMA JoinIs ==
    ASSUME NEW s \in Text, NEW u \in Text
    PROVE  /\ \A k \in 1 .. Len(s) : (s \o u)[k] = s[k]
           /\ \A k \in 1 .. Len(u) : (s \o u)[Len(s) + k] = u[k]
BY DEF Text

LEMMA ThoughtsJoin ==
    /\ \A s, u \in Seq(Text) : s \o u \in Seq(Text)
    /\ \A s, u, v \in Seq(Text) : (s \o u) \o v = s \o (u \o v)
    /\ <<>> \in Seq(Text) /\ \A s \in Seq(Text) : s \o <<>> = s /\ <<>> \o s = s
    /\ \A s \in Text : <<s>> \in Seq(Text)
BY ConcatAssociative

LEMMA AtKept ==
    ASSUME NEW b \in Text, NEW t \in Text, NEW tag \in Tags, NEW j \in Int
    PROVE  /\ TagAt(b, tag, j) => TagAt(b \o t, tag, j)
           /\ TagAt(b \o t, tag, j) /\ j + 2 <= Len(b) => TagAt(b, tag, j)
<1>1. Len(b) \in Nat /\ Len(t) \in Nat /\ Len(b \o t) = Len(b) + Len(t)
  BY TextJoins
<1>2. \A i \in 1 .. Len(b) : (b \o t)[i] = b[i]
  BY DEF Text
<1>3. j \in 1 .. Len(b) - 2 => j \in 1 .. Len(b \o t) - 2 /\ j \in 1 .. Len(b)
                               /\ j + 1 \in 1 .. Len(b) /\ j + 2 \in 1 .. Len(b)
  BY <1>1
<1>4. j \in 1 .. Len(b \o t) - 2 /\ j + 2 <= Len(b) => j \in 1 .. Len(b) - 2
  BY <1>1
<1> QED
  BY <1>2, <1>3, <1>4 DEF TagAt

LEMMA AtShifted ==
    ASSUME NEW u \in Text, NEW v \in Text, NEW tag \in Tags, NEW j \in Nat, j >= 1
    PROVE  TagAt(u \o v, tag, Len(u) + j) <=> TagAt(v, tag, j)
<1>1. Len(u) \in Nat /\ Len(v) \in Nat /\ Len(u \o v) = Len(u) + Len(v)
  BY TextJoins
<1>2. \A i \in 1 .. Len(v) : (u \o v)[Len(u) + i] = v[i]
  BY DEF Text
<1>3. Len(u) + j \in 1 .. Len(u \o v) - 2 <=> j \in 1 .. Len(v) - 2
  BY <1>1
<1>4. j \in 1 .. Len(v) - 2 => j \in 1 .. Len(v) /\ j + 1 \in 1 .. Len(v) /\ j + 2 \in 1 .. Len(v)
  BY <1>1
<1>5. (Len(u) + j) + 1 = Len(u) + (j + 1) /\ (Len(u) + j) + 2 = Len(u) + (j + 2)
  BY <1>1
<1> QED
  BY <1>2, <1>3, <1>4, <1>5 DEF TagAt

\* A tag divides a text.
LEMMA Divides ==
    ASSUME NEW s \in Text, NEW tag \in Tags, NEW i, TagAt(s, tag, i)
    PROVE  LET u == SubSeq(s, 1, i - 1)  v == SubSeq(s, i + 3, Len(s))
           IN  u \in Text /\ v \in Text /\ s = u \o (tag \o v) /\ Len(u) = i - 1
<1> DEFINE u == SubSeq(s, 1, i - 1)
           v == SubSeq(s, i + 3, Len(s))
<1>1. s \in Seq(Alphabet) /\ Len(s) \in Nat /\ i \in 1 .. Len(s) - 2
  BY DEF Text, TagAt
<1>2. tag \in Text /\ Len(tag) = 3
  BY TagsAre DEF Text
<1>3. /\ u \in Text /\ Len(u) = i - 1 /\ \A k \in 1 .. i - 1 : u[k] = s[k]
      /\ v \in Text /\ Len(v) = Len(s) - i - 2 /\ \A k \in 1 .. Len(s) - i - 2 : v[k] = s[i + 2 + k]
  <2>1. \A k \in 1 .. Len(s) : s[k] \in Alphabet
    BY <1>1
  <2>2. \A k \in 1 .. i - 1 : s[k] \in Alphabet
    BY <1>1, <2>1
  <2>3. \A k \in i + 3 .. Len(s) : s[k] \in Alphabet
    BY <1>1, <2>1
  <2>4. u \in Text /\ Len(u) = (IF 1 <= i - 1 THEN i - 1 - 1 + 1 ELSE 0)
        /\ \A k \in 1 .. i - 1 - 1 + 1 : u[k] = s[1 + k - 1]
    BY <1>1, <2>2, SubSeqProperties DEF Text
  <2>5. v \in Text /\ Len(v) = (IF i + 3 <= Len(s) THEN Len(s) - (i + 3) + 1 ELSE 0)
        /\ \A k \in 1 .. Len(s) - (i + 3) + 1 : v[k] = s[i + 3 + k - 1]
    BY <1>1, <2>3, SubSeqProperties DEF Text
  <2> HIDE DEF u, v
  <2>6. Len(u) = i - 1 /\ Len(v) = Len(s) - i - 2 /\ i - 1 - 1 + 1 = i - 1
        /\ Len(s) - (i + 3) + 1 = Len(s) - i - 2
    BY <1>1, <2>4, <2>5
  <2>7. \A k \in 1 .. i - 1 : 1 + k - 1 = k
    OBVIOUS
  <2>8. \A k \in 1 .. Len(s) - i - 2 : i + 3 + k - 1 = i + 2 + k
    BY <1>1
  <2> QED
    BY <2>4, <2>5, <2>6, <2>7, <2>8
<1> HIDE DEF u, v
<1> DEFINE w == tag \o v
<1>4. w \in Text /\ Len(w) = 3 + Len(v)
      /\ \A k \in 1 .. 3 + Len(v) : w[k] = IF k <= 3 THEN tag[k] ELSE v[k - 3]
  <2>1. tag \o v \in Text /\ Len(tag \o v) = Len(tag) + Len(v)
        /\ \A k \in 1 .. Len(tag) + Len(v) :
              (tag \o v)[k] = IF k <= Len(tag) THEN tag[k] ELSE v[k - Len(tag)]
    BY <1>2, <1>3, ConcatProperties DEF Text
  <2> QED
    BY <1>2, <2>1
<1> HIDE DEF w
<1>5. u \o w \in Text /\ Len(u \o w) = Len(u) + Len(w)
      /\ \A k \in 1 .. Len(u) + Len(w) : (u \o w)[k] = IF k <= Len(u) THEN u[k] ELSE w[k - Len(u)]
  BY <1>3, <1>4, ConcatProperties DEF Text
<1>6. Len(u \o w) = Len(s) /\ Len(u) + Len(w) = Len(s)
  BY <1>1, <1>3, <1>4, <1>5
<1>7. ASSUME NEW k \in 1 .. Len(s) PROVE (u \o w)[k] = s[k]
  <2>1. CASE k <= i - 1
    <3>1. k \in 1 .. Len(u) /\ k \in 1 .. i - 1
      BY <1>1, <1>3, <2>1
    <3>2. (u \o w)[k] = u[k]
      BY <1>3, <1>4, <3>1, JoinIs
    <3> QED
      BY <1>3, <3>1, <3>2
  <2>2. CASE k \in {i, i + 1, i + 2}
    <3>1. ~(k <= Len(u)) /\ k - Len(u) \in {1, 2, 3} /\ k = i - 1 + (k - Len(u))
      BY <1>1, <1>3, <2>2
    <3>2. k - Len(u) <= 3 /\ k - Len(u) \in 1 .. 3 + Len(v)
      BY <1>1, <1>3, <3>1
    <3>3. (u \o w)[k] = tag[k - Len(u)]
      BY <1>4, <1>5, <1>6, <3>1, <3>2
    <3>4. s[i] = tag[1] /\ s[i + 1] = tag[2] /\ s[i + 2] = tag[3]
      BY DEF TagAt
    <3>5. (k = i => k - Len(u) = 1) /\ (k = i + 1 => k - Len(u) = 2) /\ (k = i + 2 => k - Len(u) = 3)
      BY <1>1, <1>3
    <3> QED
      BY <2>2, <3>3, <3>4, <3>5
  <2>3. CASE i + 3 <= k
    <3>1. ~(k <= Len(u)) /\ k - Len(u) \in 1 .. 3 + Len(v) /\ ~(k - Len(u) <= 3)
      BY <1>1, <1>3, <2>3
    <3>2. (u \o w)[k] = v[k - Len(u) - 3]
      BY <1>4, <1>5, <1>6, <3>1
    <3>3. k - Len(u) - 3 \in 1 .. Len(s) - i - 2 /\ i + 2 + (k - Len(u) - 3) = k
      BY <1>1, <1>3, <2>3
    <3> QED
      BY <1>3, <3>2, <3>3
  <2>4. k <= i - 1 \/ k \in {i, i + 1, i + 2} \/ i + 3 <= k
    BY <1>1
  <2> QED
    BY <2>1, <2>2, <2>3, <2>4
<1>8. u \o w = s
  BY <1>1, <1>5, <1>6, <1>7, SeqEqual DEF Text
<1> QED
  BY <1>3, <1>8 DEF u, v, w

\* What is seen before a tag and behind it, and of a text without one.
Ahead(tag, before, after) ==
    IF tag = CloseTag
    THEN [open |-> before, visible |-> after.visible, thoughts |-> after.thoughts]
    ELSE [open |-> <<>>, visible |-> before \o after.visible, thoughts |-> <<after.open>> \o after.thoughts]

Plain(tag, s) ==
    IF tag = CloseTag THEN [open |-> s, visible |-> <<>>, thoughts |-> <<>>]
    ELSE [open |-> <<>>, visible |-> s, thoughts |-> <<>>]

\* No tag begins in the first n characters.
Clear(s, tag, n) == \A j \in 1 .. n : ~TagAt(s, tag, j)

LEMMA SeenPlain ==
    ASSUME NEW s \in Text, NEW tag \in Tags, \A j : ~TagAt(s, tag, j)
    PROVE  Occurrences(s, tag) = {} /\ Seen(s, tag) = Plain(tag, s)
<1>1. Occurrences(s, tag) = {}
  BY OccurrencesAre DEF Text
<1> QED
  BY <1>1, SeenIs DEF Sees, Plain, Text

LEMMA SeenDivided ==
    ASSUME NEW u \in Text, NEW v \in Text, NEW tag \in Tags, Clear(u \o (tag \o v), tag, Len(u))
    PROVE  Seen(u \o (tag \o v), tag) = Ahead(tag, u, Seen(v, Other(tag)))
<1> DEFINE w == tag \o v
           s == u \o w
           i == Len(u) + 1
<1>1. tag \in Text /\ Len(tag) = 3
  BY TagsAre DEF Text
<1>2. w \in Text /\ Len(w) = 3 + Len(v) /\ Len(v) \in Nat /\ Len(u) \in Nat
  <2>1. w \in Text /\ Len(w) = Len(tag) + Len(v)
    BY <1>1, TextJoins
  <2>2. Len(v) \in Nat /\ Len(u) \in Nat
    BY TextJoins
  <2> HIDE DEF w
  <2> QED
    BY <1>1, <2>1, <2>2
<1>3. s \in Text /\ Len(s) = Len(u) + Len(w)
  BY <1>2, TextJoins
<1>4. TagAt(w, tag, 1)
  <2>1. w[1] = tag[1] /\ w[2] = tag[2] /\ w[3] = tag[3]
    <3>1. 1 \in 1 .. Len(tag) /\ 2 \in 1 .. Len(tag) /\ 3 \in 1 .. Len(tag)
      BY <1>1
    <3>2. \A k \in 1 .. Len(tag) : w[k] = tag[k]
      BY <1>1, JoinIs
    <3> QED
      BY <3>1, <3>2
  <2>2. 1 \in 1 .. Len(w) - 2 /\ 1 + 1 = 2 /\ 1 + 2 = 3
    BY <1>2
  <2> HIDE DEF w
  <2> QED
    BY <2>1, <2>2 DEF TagAt
<1>5. TagAt(s, tag, i)
  <2> HIDE DEF w
  <2> QED
    BY <1>2, <1>4, AtShifted
<1>6. Clear(s, tag, Len(u))
  OBVIOUS
<1> HIDE DEF s
<1>7. \A j : TagAt(s, tag, j) => i <= j
  <2> SUFFICES ASSUME NEW j, TagAt(s, tag, j) PROVE i <= j
    OBVIOUS
  <2>1. j \in Nat /\ j >= 1 /\ j \notin 1 .. Len(u)
    BY <1>3, <1>6 DEF TagAt, Clear
  <2> QED
    BY <1>2, <2>1
<1>8. Occurrences(s, tag) # {} /\ IndexOf(s, tag) = i
  BY <1>3, <1>5, <1>7, IndexFound DEF Text
<1> HIDE DEF w
<1>9. SubSeq(s, 1, i - 1) = u
  <2>1. i - 1 = Len(u)
    BY <1>2
  <2>2. SubSeq(u \o w, 1, Len(u)) = u
    BY <1>2, SubSeqOfConcat1, SubSeqFull DEF Text
  <2> QED
    BY <2>1, <2>2 DEF s
<1>10. Ending(s, Len(s) - (i + 2)) = v
  <2>1. Len(s) - (i + 2) = Len(v)
    BY <1>2, <1>3
  <2>2. Len(v) \in 0 .. Len(s)
    BY <1>2, <1>3
  <2> DEFINE e == Ending(s, Len(v))
  <2>3. e \in Text /\ Len(e) = Len(v) /\ \A k \in 1 .. Len(v) : e[k] = s[Len(s) - Len(v) + k]
    BY <1>3, <2>2, EndingIs DEF Text
  <2> HIDE DEF e
  <2>4. ASSUME NEW k \in 1 .. Len(v) PROVE e[k] = v[k]
    <3>1. Len(s) - Len(v) + k = Len(u) + (3 + k) /\ 3 + k \in 1 .. Len(w) /\ 3 + k = Len(tag) + k
      BY <1>1, <1>2, <1>3
    <3>2. s[Len(u) + (3 + k)] = w[3 + k]
      BY <1>2, <3>1, JoinIs DEF s
    <3>3. w[Len(tag) + k] = v[k]
      BY <1>1, JoinIs DEF w
    <3> QED
      BY <2>3, <3>1, <3>2, <3>3
  <2>5. e = v
    BY <2>3, <2>4, SeqEqual DEF Text
  <2> QED
    BY <2>1, <2>5 DEF e
<1>11. Seen(s, tag) = Sees(s, tag, Seen(v, Other(tag)))
  BY <1>3, <1>8, <1>10, SeenIs DEF Text
<1>12. Sees(s, tag, Seen(v, Other(tag))) = Ahead(tag, u, Seen(v, Other(tag)))
  BY <1>8, <1>9 DEF Sees, Ahead
<1> QED
  BY <1>11, <1>12 DEF s, w

LEMMA SeenTyped == ASSUME NEW s \in Text, NEW tag \in Tags PROVE Seen(s, tag) \in Sights
<1>1. PICK f : IsSight(s, f) /\ \A t \in Tags : Seen(s, t) = f[Len(s)][t]
  BY SeenIsSight DEF Text
<1> DEFINE fine(n) == \A t \in Tags : f[n][t] \in Sights
           G == {k \in 0 .. Len(s) : \A n \in 0 .. k : fine(n)}
<1>2. Len(s) \in Nat
  BY DEF Text
<1>3. ASSUME NEW n \in 0 .. Len(s), \A j \in 0 .. n : j < n => fine(j) PROVE fine(n)
  <2> SUFFICES ASSUME NEW t \in Tags PROVE f[n][t] \in Sights
    OBVIOUS
  <2> DEFINE e == Ending(s, n)
             a == f[Left(s, n, t)][Other(t)]
  <2>1. f[n][t] = Sees(e, t, a)
    BY <1>1 DEF IsSight
  <2>2. e \in Text
    BY EndingIs DEF Text
  <2>3. CASE Occurrences(e, t) = {}
    BY <2>1, <2>2, <2>3, TextJoins, ThoughtsJoin DEF Sees, Sights
  <2>4. CASE Occurrences(e, t) # {}
    <3>1. Left(s, n, t) \in 0 .. n /\ Left(s, n, t) < n
      BY <2>4, LeftIsLess DEF Text
    <3>2. a \in Sights
      BY <1>3, <3>1, TagsAre
    <3> DEFINE i == IndexOf(e, t)
               before == SubSeq(e, 1, i - 1)
    <3>3. before \in Text
      BY <2>2, <2>4, IndexIs, Divides DEF Text
    <3> HIDE DEF e, a, before
    <3>4. a.open \in Text /\ a.visible \in Text /\ a.thoughts \in Seq(Text)
      BY <3>2 DEF Sights
    <3>5. before \o a.visible \in Text /\ <<a.open>> \o a.thoughts \in Seq(Text)
      BY <3>3, <3>4, TextJoins, ThoughtsJoin
    <3> QED
      BY <2>1, <2>4, <3>3, <3>4, <3>5, TextJoins DEF Sees, Sights, before
  <2> QED
    BY <2>3, <2>4
<1> HIDE DEF fine
<1>4. 0 \in G
  BY <1>2, <1>3
<1>5. ASSUME NEW k \in 0 .. Len(s), k \in G, k < Len(s) PROVE k + 1 \in G
  <2>1. k + 1 \in 0 .. Len(s) /\ \A n \in 0 .. k + 1 : n \in 0 .. k \/ n = k + 1
    BY <1>2, <1>5
  <2>2. \A j \in 0 .. k + 1 : j < k + 1 => fine(j)
    BY <1>5
  <2>3. fine(k + 1)
    BY <1>3, <2>1, <2>2
  <2> QED
    BY <1>5, <2>1, <2>3
<1> HIDE DEF G
<1>6. \A k \in 0 .. Len(s) : k \in G
  BY <1>2, <1>4, <1>5, HandedOn
<1>7. fine(Len(s))
  BY <1>2, <1>6 DEF G
<1> QED
  BY <1>1, <1>7 DEF fine

----------------------------------------------------------------------------
\* More text before what is seen.
Prefixed(tag, u, d) ==
    IF tag = CloseTag THEN [open |-> u \o d.open, visible |-> d.visible, thoughts |-> d.thoughts]
    ELSE [open |-> d.open, visible |-> u \o d.visible, thoughts |-> d.thoughts]

\* Text in which no tag begins is seen as it is.
LEMMA SeenPrefixed ==
    ASSUME NEW u \in Text, NEW v \in Text, NEW tag \in Tags, Clear(u \o v, tag, Len(u))
    PROVE  Seen(u \o v, tag) = Prefixed(tag, u, Seen(v, tag))
<1>1. /\ u \o v \in Text /\ Len(u \o v) = Len(u) + Len(v)
      /\ Len(u) \in Nat /\ Len(v) \in Nat
  BY TextJoins
<1>2. ASSUME NEW j, TagAt(u \o v, tag, j) PROVE j - Len(u) \in Nat /\ j - Len(u) >= 1 /\ TagAt(v, tag, j - Len(u))
  <2>1. j \in Nat /\ j >= 1 /\ j \notin 1 .. Len(u)
    BY <1>1, <1>2 DEF TagAt, Clear
  <2>2. j - Len(u) \in Nat /\ j - Len(u) >= 1 /\ Len(u) + (j - Len(u)) = j
    BY <1>1, <2>1
  <2> QED
    BY <1>2, <2>2, AtShifted
<1>3. CASE \A j : ~TagAt(v, tag, j)
  <2>1. \A j : ~TagAt(u \o v, tag, j)
    BY <1>2, <1>3
  <2>2. Seen(u \o v, tag) = Plain(tag, u \o v) /\ Seen(v, tag) = Plain(tag, v)
    BY <1>1, <1>3, <2>1, SeenPlain
  <2> QED
    BY <1>1, <2>2, TextJoins DEF Plain, Prefixed
<1>4. CASE ~\A j : ~TagAt(v, tag, j)
  <2> DEFINE i == IndexOf(v, tag)
             a == SubSeq(v, 1, i - 1)
             c == SubSeq(v, i + 3, Len(v))
             d == Seen(c, Other(tag))
  <2>1. Occurrences(v, tag) # {}
    BY <1>4, OccurrencesAre DEF Text
  <2>2. TagAt(v, tag, i) /\ i \in 1 .. Len(v) - 2 /\ \A j : TagAt(v, tag, j) => i <= j
    BY <2>1, IndexIs DEF Text
  <2>3. a \in Text /\ c \in Text /\ v = a \o (tag \o c) /\ Len(a) = i - 1
    BY <2>2, Divides
  <2>4. tag \in Text /\ Other(tag) \in Tags
    BY TagsAre DEF Text
  <2>5. d \in Sights
    BY <2>3, <2>4, SeenTyped
  <2> HIDE DEF i, a, c, d
  <2> DEFINE w == tag \o c
  <2>14. w \in Text
    BY <2>3, <2>4, TextJoins
  <2> HIDE DEF w
  <2>15. u \o v = u \o (a \o w) /\ u \o (a \o w) = (u \o a) \o w
    <3>1. v = a \o w
      BY <2>3 DEF w
    <3>2. (u \o a) \o w = u \o (a \o w)
      <4>1. u \in Text /\ a \in Text /\ w \in Text
        BY <2>3, <2>14
      <4> QED
        BY <4>1, Associates, Zenon
    <3> QED
      BY <3>1, <3>2
  <2>6. u \o a \in Text /\ Len(u \o a) = Len(u) + Len(a) /\ Len(a) \in Nat /\ u \o v = (u \o a) \o w
    BY <2>3, <2>15, TextJoins
  <2>7. Clear(a \o (tag \o c), tag, Len(a))
    <3>1. \A j \in 1 .. Len(a) : ~(i <= j)
      BY <2>2, <2>3
    <3>2. Clear(v, tag, Len(a))
      BY <2>2, <3>1 DEF Clear
    <3> QED
      BY <2>3, <3>2
  <2>8. Clear((u \o a) \o w, tag, Len(u \o a))
    <3>1. ASSUME NEW j \in 1 .. Len(u) + Len(a), TagAt(u \o v, tag, j) PROVE FALSE
      <4>1. TagAt(v, tag, j - Len(u))
        BY <1>2, <3>1
      <4>2. i <= j - Len(u)
        BY <2>2, <4>1
      <4> QED
        BY <1>1, <2>2, <2>3, <2>6, <4>2
    <3>2. Clear(u \o v, tag, Len(u \o a))
      BY <2>6, <3>1 DEF Clear
    <3> QED
      BY <2>6, <3>2
  <2>9. Seen(v, tag) = Ahead(tag, a, d)
    BY <2>3, <2>7, SeenDivided DEF d
  <2>10. Seen(u \o v, tag) = Ahead(tag, u \o a, d)
    <3> DEFINE x == u \o a
    <3>1. x \in Text /\ Clear(x \o (tag \o c), tag, Len(x)) /\ u \o v = x \o (tag \o c)
      BY <2>6, <2>8 DEF w
    <3> HIDE DEF x
    <3>2. Seen(x \o (tag \o c), tag) = Ahead(tag, x, d)
      BY <2>3, <3>1, SeenDivided DEF d
    <3> QED
      BY <3>1, <3>2 DEF x
  <2>11. d.open \in Text /\ d.visible \in Text /\ d.thoughts \in Seq(Text)
    BY <2>5 DEF Sights
  <2>12. (u \o a) \o d.visible = u \o (a \o d.visible) /\ u \o <<>> = u
    <3> DEFINE x == d.visible
    <3>1. x \in Text
      BY <2>11
    <3> HIDE DEF x
    <3>2. (u \o a) \o x = u \o (a \o x)
      BY <2>3, <3>1, TextJoins
    <3> QED
      BY <3>2, TextJoins DEF x
  <2>13. Ahead(tag, u \o a, d) = Prefixed(tag, u, Ahead(tag, a, d))
    <3>1. CASE tag = CloseTag
      BY <3>1 DEF Ahead, Prefixed
    <3>2. CASE tag # CloseTag
      BY <2>12, <3>2 DEF Ahead, Prefixed
    <3> QED
      BY <3>1, <3>2
  <2> QED
    BY <2>9, <2>10, <2>13
<1> QED
  BY <1>3, <1>4

\* What is held back of a text without a tag.
LEMMA HeldBack ==
    ASSUME NEW b \in Text, NEW tag \in Tags
    PROVE  LET h == longestSuffixPrefix(b, tag)
           IN  /\ h \in 0 .. 2 /\ h <= Len(b)
               /\ \A n \in 1 .. 2 : n <= Len(b) /\ Ending(b, n) = SubSeq(tag, 1, n) => n <= h
<1> DEFINE sizes == {n \in 1 .. Len(tag) - 1 : n <= Len(b) /\ Ending(b, n) = SubSeq(tag, 1, n)}
           h == longestSuffixPrefix(b, tag)
<1>1. Len(tag) = 3 /\ Len(b) \in Nat
  BY TagsAre DEF Text
<1>2. sizes = {n \in 1 .. 2 : n <= Len(b) /\ Ending(b, n) = SubSeq(tag, 1, n)}
  <2>1. Len(tag) - 1 = 2
    BY <1>1
  <2> QED
    BY <2>1
<1>3. sizes \subseteq {1, 2} /\ \A n \in sizes : n <= Len(b)
  BY <1>2
<1>4. h = IF sizes = {} THEN 0 ELSE CHOOSE n \in sizes : \A m \in sizes : m <= n
  BY DEF longestSuffixPrefix
<1> HIDE DEF sizes, h
<1> SUFFICES /\ h \in 0 .. 2 /\ h <= Len(b)
             /\ \A n \in 1 .. 2 : n <= Len(b) /\ Ending(b, n) = SubSeq(tag, 1, n) => n <= h
  BY DEF h
<1>7. \A n \in 1 .. 2 : n <= Len(b) /\ Ending(b, n) = SubSeq(tag, 1, n) => n \in sizes
  BY <1>2
<1>5. CASE sizes = {}
  <2>1. h = 0
    BY <1>4, <1>5
  <2> QED
    BY <1>1, <1>5, <1>7, <2>1
<1>6. CASE sizes # {}
  <2>1. \E n \in sizes : \A m \in sizes : m <= n
    <3>1. CASE 2 \in sizes
      BY <1>3, <3>1
    <3>2. CASE 2 \notin sizes
      <4>1. sizes = {1}
        BY <1>3, <1>6, <3>2
      <4> QED
        BY <4>1
    <3> QED
      BY <3>1, <3>2
  <2>2. h \in sizes /\ \A m \in sizes : m <= h
    BY <1>4, <1>6, <2>1
  <2>3. h \in {1, 2} /\ h <= Len(b)
    BY <1>3, <2>2
  <2> QED
    BY <1>7, <2>2, <2>3
<1> QED
  BY <1>5, <1>6

LEMMA HeldIsClear ==
    ASSUME NEW b \in Text, NEW tag \in Tags, \A j : ~TagAt(b, tag, j), NEW t \in Text
    PROVE  Clear(b \o t, tag, Len(b) - longestSuffixPrefix(b, tag))
<1> DEFINE h == longestSuffixPrefix(b, tag)
<1>1. /\ h \in 0 .. 2 /\ h <= Len(b)
      /\ \A n \in 1 .. 2 : n <= Len(b) /\ Ending(b, n) = SubSeq(tag, 1, n) => n <= h
  BY HeldBack
<1>2. Len(b) \in Nat /\ tag \in Seq(Alphabet) /\ Len(tag) = 3 /\ b \in Seq(Alphabet)
  BY TagsAre DEF Text
<1> HIDE DEF h
<1> SUFFICES ASSUME NEW j \in 1 .. Len(b) - h, TagAt(b \o t, tag, j) PROVE FALSE
  BY DEF Clear, h
<1>3. j \in Int /\ j >= 1 /\ j <= Len(b) - h
  BY <1>1, <1>2
<1>4. ~(j + 2 <= Len(b))
  BY <1>3, AtKept
<1>5. (b \o t)[j] = tag[1] /\ (b \o t)[j + 1] = tag[2]
  BY DEF TagAt
<1>6. \A k \in 1 .. Len(b) : (b \o t)[k] = b[k]
  BY JoinIs
<1>7. \A n \in 1 .. 2 : /\ SubSeq(tag, 1, n) \in Seq(Alphabet) /\ Len(SubSeq(tag, 1, n)) = n
                        /\ \A k \in 1 .. n : SubSeq(tag, 1, n)[k] = tag[k]
  <2> SUFFICES ASSUME NEW n \in 1 .. 2
               PROVE  /\ SubSeq(tag, 1, n) \in Seq(Alphabet) /\ Len(SubSeq(tag, 1, n)) = n
                      /\ \A k \in 1 .. n : SubSeq(tag, 1, n)[k] = tag[k]
    OBVIOUS
  <2>1. 1 \in 1 .. Len(tag) /\ n \in 1 - 1 .. Len(tag) /\ n - 1 + 1 = n
        /\ \A k \in 1 .. n : 1 + k - 1 = k
    BY <1>2
  <2>2. /\ SubSeq(tag, 1, n) \in Seq(Alphabet)
        /\ Len(SubSeq(tag, 1, n)) = n - 1 + 1
        /\ \A k \in 1 .. n - 1 + 1 : SubSeq(tag, 1, n)[k] = tag[1 + k - 1]
    BY <1>2, <2>1, PartIs
  <2> QED
    BY <2>1, <2>2
<1>8. ASSUME NEW n \in 1 .. 2, n <= Len(b), \A k \in 1 .. n : b[Len(b) - n + k] = tag[k]
      PROVE  n <= h
  <2>1. n \in 0 .. Len(b)
    BY <1>2, <1>8
  <2>2. Ending(b, n) \in Seq(Alphabet) /\ Len(Ending(b, n)) = n
        /\ \A k \in 1 .. n : Ending(b, n)[k] = b[Len(b) - n + k]
    BY <1>2, <2>1, EndingIs
  <2>3. Ending(b, n) = SubSeq(tag, 1, n)
    BY <1>7, <1>8, <2>2, SeqEqual
  <2> QED
    BY <1>1, <1>8, <2>3
<1>9. CASE j = Len(b)
  <2>1. Len(b) - 1 + 1 = j /\ 1 <= Len(b) /\ j \in 1 .. Len(b)
    BY <1>2, <1>3, <1>9
  <2>2. \A k \in 1 .. 1 : b[Len(b) - 1 + k] = tag[k]
    BY <1>5, <1>6, <2>1
  <2>3. 1 <= h
    BY <1>8, <2>1, <2>2
  <2> QED
    BY <1>1, <1>2, <1>3, <1>9, <2>3
<1>10. CASE j = Len(b) - 1
  <2>1. /\ Len(b) - 2 + 1 = j /\ Len(b) - 2 + 2 = j + 1 /\ 2 <= Len(b)
        /\ j \in 1 .. Len(b) /\ j + 1 \in 1 .. Len(b)
    BY <1>2, <1>3, <1>10
  <2>2. b[j] = tag[1] /\ b[j + 1] = tag[2]
    BY <1>5, <1>6, <2>1
  <2>3. \A k \in 1 .. 2 : k = 1 \/ k = 2
    OBVIOUS
  <2>4. \A k \in 1 .. 2 : b[Len(b) - 2 + k] = tag[k]
    BY <2>1, <2>2, <2>3
  <2>5. 2 <= h
    BY <1>8, <2>1, <2>4
  <2> QED
    BY <1>1, <1>2, <1>3, <1>10, <2>5
<1> QED
  BY <1>1, <1>2, <1>3, <1>4, <1>9, <1>10

----------------------------------------------------------------------------
ParserStates == [insideThink : BOOLEAN, buffer : Text, thinking : Text, visible : Text,
                 thoughts : Seq(Text)]

\* The text before a tag, which a parser that waits for this one has still to read.
Waits(st) == \A j : ~TagAt(st.buffer, TagFor(st.insideThink), j)

\* What the parser st will have shown when it has read what is seen as d.
Told(st, d) ==
    [visible  |-> st.visible \o d.visible,
     thoughts |-> IF st.insideThink
                  THEN st.thoughts \o (<<st.thinking \o d.open>> \o d.thoughts)
                  ELSE st.thoughts \o d.thoughts]

Tells(st, t) == Told(st, Seen(st.buffer \o t, TagFor(st.insideThink)))

LEMMA TagForIs ==
    /\ TagFor(TRUE) = CloseTag /\ TagFor(FALSE) = OpenTag
    /\ \A st \in ParserStates :
          /\ TagFor(st.insideThink) \in Tags
          /\ st.insideThink => TagFor(st.insideThink) = CloseTag
          /\ ~st.insideThink => TagFor(st.insideThink) = OpenTag
BY DEF TagFor, Tags

LEMMA Splits ==
    ASSUME NEW s \in Text, NEW n \in 0 .. Len(s)
    PROVE  LET u == SubSeq(s, 1, n)  v == SubSeq(s, n + 1, Len(s))
           IN  u \in Text /\ v \in Text /\ Len(u) = n /\ s = u \o v
<1> DEFINE u == SubSeq(s, 1, n)
           v == SubSeq(s, n + 1, Len(s))
<1>1. s \in Seq(Alphabet) /\ Len(s) \in Nat /\ \A k \in 1 .. Len(s) : s[k] \in Alphabet
  BY DEF Text
<1>2. \A k \in 1 .. n : s[k] \in Alphabet
  BY <1>1
<1>3. \A k \in n + 1 .. Len(s) : s[k] \in Alphabet
  BY <1>1
<1>4. u \in Text /\ Len(u) = (IF 1 <= n THEN n - 1 + 1 ELSE 0)
      /\ \A k \in 1 .. n - 1 + 1 : u[k] = s[1 + k - 1]
  BY <1>1, <1>2, SubSeqProperties DEF Text
<1>5. v \in Text /\ Len(v) = (IF n + 1 <= Len(s) THEN Len(s) - (n + 1) + 1 ELSE 0)
      /\ \A k \in 1 .. Len(s) - (n + 1) + 1 : v[k] = s[n + 1 + k - 1]
  BY <1>1, <1>3, SubSeqProperties DEF Text
<1> HIDE DEF u, v
<1>6. Len(u) = n /\ Len(v) = Len(s) - n /\ n - 1 + 1 = n /\ Len(s) - (n + 1) + 1 = Len(s) - n
  BY <1>1, <1>4, <1>5
<1>7. u \o v \in Text /\ Len(u \o v) = Len(s)
  <2>1. u \o v \in Text /\ Len(u \o v) = Len(u) + Len(v)
    BY <1>4, <1>5, TextJoins
  <2> QED
    BY <1>1, <1>6, <2>1
<1>8. ASSUME NEW k \in 1 .. Len(s) PROVE (u \o v)[k] = s[k]
  <2>1. CASE k <= n
    <3>1. k \in 1 .. Len(u) /\ k \in 1 .. n - 1 + 1 /\ 1 + k - 1 = k
      BY <1>1, <1>6, <2>1
    <3> QED
      BY <1>4, <1>5, <3>1, JoinIs
  <2>2. CASE ~(k <= n)
    <3>1. k - n \in 1 .. Len(v) /\ k - n \in 1 .. Len(s) - (n + 1) + 1 /\ Len(u) + (k - n) = k
          /\ n + 1 + (k - n) - 1 = k
      BY <1>1, <1>6, <2>2
    <3>2. (u \o v)[Len(u) + (k - n)] = v[k - n]
      BY <1>4, <1>5, <3>1, JoinIs
    <3>3. v[k - n] = s[n + 1 + (k - n) - 1]
      BY <1>5, <3>1
    <3> QED
      BY <3>1, <3>2, <3>3
  <2> QED
    BY <2>1, <2>2
<1>9. u \o v = s
  BY <1>1, <1>7, <1>8, SeqEqual DEF Text
<1> QED
  BY <1>4, <1>5, <1>6, <1>9 DEF u, v

\* A turn that finds no tag shows what cannot be the beginning of one.
LEMMA TurnWaits ==
    ASSUME NEW st \in ParserStates, Waits(st)
    PROVE  /\ Turn(st) \in ParserStates /\ Waits(Turn(st))
           /\ \A t \in Text : Tells(Turn(st), t) = Tells(st, t)
<1> DEFINE b == st.buffer
           tag == TagFor(st.insideThink)
           n == Len(b) - longestSuffixPrefix(b, tag)
           x == SubSeq(b, 1, n)
           y == SubSeq(b, n + 1, Len(b))
<1>1. b \in Text /\ tag \in Tags /\ Len(b) \in Nat
  BY TagForIs, TextJoins DEF ParserStates
<1>2. \A j : ~TagAt(b, tag, j)
  BY DEF Waits
<1>3. Occurrences(b, tag) = {}
  BY <1>1, <1>2, SeenPlain
<1>4. n \in 0 .. Len(b)
  BY <1>1, HeldBack
<1>5. x \in Text /\ y \in Text /\ Len(x) = n /\ b = x \o y
  <2> HIDE DEF b, n
  <2> QED
    BY <1>1, <1>4, Splits
<1>6. Turn(st) = IF st.insideThink THEN [st EXCEPT !.thinking = @ \o x, !.buffer = y]
                 ELSE [st EXCEPT !.visible = @ \o x, !.buffer = y]
  BY <1>3 DEF Turn
<1>7. ASSUME NEW t \in Text PROVE Clear(b \o t, tag, n)
  BY <1>1, <1>2, HeldIsClear
<1> HIDE DEF b, n, x, y
<1>8. ASSUME NEW t \in Text
      PROVE  Seen(b \o t, tag) = Prefixed(tag, x, Seen(y \o t, tag)) /\ Seen(y \o t, tag) \in Sights
  <2>1. b \o t = x \o (y \o t) /\ y \o t \in Text
    BY <1>5, TextJoins
  <2>2. Clear(x \o (y \o t), tag, Len(x))
    BY <1>5, <1>7, <2>1
  <2> QED
    BY <1>1, <1>5, <2>1, <2>2, SeenPrefixed, SeenTyped
<1>9. \A j : ~TagAt(y, tag, j)
  <2> SUFFICES ASSUME NEW j, TagAt(y, tag, j) PROVE FALSE
    OBVIOUS
  <2>1. j \in Nat /\ j >= 1
    BY <1>5, TextJoins DEF TagAt
  <2>2. TagAt(x \o y, tag, Len(x) + j)
    BY <1>1, <1>5, <2>1, AtShifted
  <2> QED
    BY <1>2, <1>5, <2>2
<1>10. /\ st.insideThink \in BOOLEAN /\ st.thinking \in Text /\ st.visible \in Text
       /\ st.thoughts \in Seq(Text)
       /\ st = [insideThink |-> st.insideThink, buffer |-> st.buffer, thinking |-> st.thinking,
                visible |-> st.visible, thoughts |-> st.thoughts]
  BY DEF ParserStates
<1>11. CASE st.insideThink
  <2>1. Turn(st) = [insideThink |-> st.insideThink, buffer |-> y, thinking |-> st.thinking \o x,
                    visible |-> st.visible, thoughts |-> st.thoughts]
    BY <1>6, <1>10, <1>11
  <2>2. st.thinking \o x \in Text
    BY <1>5, <1>10, TextJoins
  <2>5. Turn(st) \in ParserStates /\ Turn(st).buffer = y /\ Turn(st).insideThink = st.insideThink
    BY <1>5, <1>10, <2>1, <2>2 DEF ParserStates
  <2>3. Turn(st) \in ParserStates /\ Turn(st).buffer = y
        /\ TagFor(Turn(st).insideThink) = tag /\ tag = CloseTag
    BY <1>11, <2>5, TagForIs
  <2>4. ASSUME NEW t \in Text PROVE Tells(Turn(st), t) = Tells(st, t)
    <3> DEFINE d == Seen(y \o t, tag)
    <3>1. Seen(b \o t, tag) = Prefixed(tag, x, d) /\ d \in Sights
      BY <1>8
    <3> HIDE DEF d, tag
    <3>2. d.open \in Text
      BY <3>1 DEF Sights
    <3>3. (st.thinking \o x) \o d.open = st.thinking \o (x \o d.open)
      BY <1>5, <1>10, <3>2, TextJoins
    <3>4. Tells(Turn(st), t) = Told(Turn(st), d)
      BY <2>3 DEF Tells, d
    <3>5. Tells(st, t) = Told(st, Prefixed(tag, x, d))
      BY <3>1 DEF Tells, b, tag
    <3>6. Prefixed(tag, x, d) = [open |-> x \o d.open, visible |-> d.visible, thoughts |-> d.thoughts]
      BY <2>3 DEF Prefixed
    <3>7. Told(st, Prefixed(tag, x, d))
            = [visible |-> st.visible \o d.visible,
               thoughts |-> st.thoughts \o (<<st.thinking \o (x \o d.open)>> \o d.thoughts)]
      BY <1>11, <3>6 DEF Told
    <3>8. Told(Turn(st), d)
            = [visible |-> st.visible \o d.visible,
               thoughts |-> st.thoughts \o (<<(st.thinking \o x) \o d.open>> \o d.thoughts)]
      BY <1>11, <2>1 DEF Told
    <3> QED
      BY <3>3, <3>4, <3>5, <3>7, <3>8
  <2> QED
    BY <1>9, <2>3, <2>4 DEF Waits
<1>12. CASE ~st.insideThink
  <2>1. Turn(st) = [insideThink |-> st.insideThink, buffer |-> y, thinking |-> st.thinking,
                    visible |-> st.visible \o x, thoughts |-> st.thoughts]
    BY <1>6, <1>10, <1>12
  <2>2. st.visible \o x \in Text
    BY <1>5, <1>10, TextJoins
  <2>3. Turn(st) \in ParserStates /\ Turn(st).buffer = y
        /\ TagFor(Turn(st).insideThink) = tag /\ tag = OpenTag
    BY <1>5, <1>10, <1>12, <2>1, <2>2, TagForIs DEF ParserStates
  <2>4. ASSUME NEW t \in Text PROVE Tells(Turn(st), t) = Tells(st, t)
    <3> DEFINE d == Seen(y \o t, tag)
    <3>1. Seen(b \o t, tag) = Prefixed(tag, x, d) /\ d \in Sights
      BY <1>8
    <3> HIDE DEF d, tag
    <3>2. d.visible \in Text
      BY <3>1 DEF Sights
    <3>3. (st.visible \o x) \o d.visible = st.visible \o (x \o d.visible)
      BY <1>5, <1>10, <3>2, TextJoins
    <3>4. Tells(Turn(st), t) = Told(Turn(st), d)
      BY <2>3 DEF Tells, d
    <3>5. Tells(st, t) = Told(st, Prefixed(tag, x, d))
      BY <3>1 DEF Tells, b, tag
    <3>6. Prefixed(tag, x, d) = [open |-> d.open, visible |-> x \o d.visible, thoughts |-> d.thoughts]
      BY <2>3, TagsAre DEF Prefixed
    <3>7. Told(st, Prefixed(tag, x, d))
            = [visible |-> st.visible \o (x \o d.visible), thoughts |-> st.thoughts \o d.thoughts]
      BY <1>12, <3>6 DEF Told
    <3>8. Told(Turn(st), d)
            = [visible |-> (st.visible \o x) \o d.visible, thoughts |-> st.thoughts \o d.thoughts]
      <4> DEFINE u == Turn(st)
      <4>1. u.visible = st.visible \o x /\ u.thoughts = st.thoughts /\ u.insideThink = st.insideThink
        BY <2>1
      <4>2. ~u.insideThink
        BY <1>12, <4>1
      <4> HIDE DEF u
      <4>3. Told(u, d) = [visible |-> u.visible \o d.visible, thoughts |-> u.thoughts \o d.thoughts]
        BY <4>2 DEF Told
      <4> QED
        BY <4>1, <4>3 DEF u
    <3> QED
      BY <3>3, <3>4, <3>5, <3>7, <3>8
  <2> QED
    BY <1>9, <2>3, <2>4 DEF Waits
<1> QED
  BY <1>10, <1>11, <1>12

\* A turn that finds a tag goes on behind it.
LEMMA TurnFinds ==
    ASSUME NEW st \in ParserStates, ~Waits(st)
    PROVE  /\ Turn(st) \in ParserStates /\ Len(Turn(st).buffer) < Len(st.buffer)
           /\ \A t \in Text : Tells(Turn(st), t) = Tells(st, t)
<1> DEFINE b == st.buffer
           tag == TagFor(st.insideThink)
           i == IndexOf(b, tag)
           x == SubSeq(b, 1, i - 1)
           y == SubSeq(b, i + 3, Len(b))
<1>1. b \in Text /\ tag \in Tags /\ Len(b) \in Nat /\ tag \in Text /\ Len(tag) = 3
  <2>1. b \in Text /\ tag \in Tags
    BY TagForIs DEF ParserStates
  <2> QED
    BY <2>1, TextJoins, TagsAre DEF Text
<1>2. Occurrences(b, tag) # {}
  <2>1. b \in Seq(Alphabet)
    BY <1>1 DEF Text
  <2>2. \E j : TagAt(b, tag, j)
    BY DEF Waits
  <2> QED
    BY <1>1, <2>1, <2>2, OccurrencesAre
<1>3. TagAt(b, tag, i) /\ i \in 1 .. Len(b) - 2 /\ \A j : TagAt(b, tag, j) => i <= j
  BY <1>1, <1>2, IndexIs DEF Text
<1>4. x \in Text /\ y \in Text /\ b = x \o (tag \o y) /\ Len(x) = i - 1
  <2> HIDE DEF b, i
  <2> QED
    BY <1>1, <1>3, Divides
<1>5. Turn(st) = IF st.insideThink
                 THEN [st EXCEPT !.insideThink = FALSE, !.buffer = y, !.thinking = <<>>,
                                 !.thoughts = Append(@, st.thinking \o x)]
                 ELSE [st EXCEPT !.insideThink = TRUE, !.buffer = y, !.thinking = <<>>,
                                 !.visible = @ \o x]
  <2>1. ((i - 1) + Len(tag)) + 1 = i + 3
    BY <1>1, <1>3
  <2> QED
    BY <1>2, <2>1 DEF Turn
<1> HIDE DEF b, i, x, y
<1>6. Len(y) < Len(b)
  <2> DEFINE w == tag \o y
  <2>1. w \in Text /\ Len(w) = Len(tag) + Len(y) /\ Len(y) \in Nat
    BY <1>1, <1>4, TextJoins
  <2> HIDE DEF w
  <2>2. Len(x \o w) = Len(x) + Len(w) /\ Len(x) \in Nat
    BY <1>4, <2>1, TextJoins
  <2>3. b = x \o w
    BY <1>4 DEF w
  <2> QED
    BY <1>1, <2>1, <2>2, <2>3
<1>7. ASSUME NEW t \in Text
      PROVE  /\ Seen(b \o t, tag) = Ahead(tag, x, Seen(y \o t, Other(tag)))
             /\ Seen(y \o t, Other(tag)) \in Sights
  <2> DEFINE w == tag \o y
  <2>1. w \in Text /\ w \o t = tag \o (y \o t) /\ y \o t \in Text
    <3>1. w \in Text /\ y \o t \in Text
      BY <1>1, <1>4, TextJoins
    <3> HIDE DEF tag
    <3>2. (tag \o y) \o t = tag \o (y \o t)
      BY <1>1, <1>4, Associates
    <3> QED
      BY <3>1, <3>2
  <2> HIDE DEF w
  <2>2. b \o t = x \o (w \o t)
    BY <1>4, <2>1, TextJoins DEF w
  <2>3. Clear(b \o t, tag, Len(x))
    <3> SUFFICES ASSUME NEW j \in 1 .. Len(x), TagAt(b \o t, tag, j) PROVE FALSE
      BY DEF Clear
    <3>1. j \in Int /\ j + 2 <= Len(b) /\ ~(i <= j)
      BY <1>1, <1>3, <1>4
    <3>2. TagAt(b, tag, j)
      BY <1>1, <3>1, AtKept
    <3> QED
      BY <1>3, <3>1, <3>2
  <2>4. b \o t = x \o (tag \o (y \o t))
    BY <2>1, <2>2
  <2>5. Clear(x \o (tag \o (y \o t)), tag, Len(x))
    BY <2>3, <2>4
  <2>6. Seen(x \o (tag \o (y \o t)), tag) = Ahead(tag, x, Seen(y \o t, Other(tag)))
    BY <1>1, <1>4, <2>1, <2>5, SeenDivided
  <2> QED
    BY <1>1, <2>1, <2>4, <2>6, SeenTyped, TagsAre
<1>8. /\ st.insideThink \in BOOLEAN /\ st.thinking \in Text /\ st.visible \in Text
      /\ st.thoughts \in Seq(Text)
      /\ st = [insideThink |-> st.insideThink, buffer |-> st.buffer, thinking |-> st.thinking,
               visible |-> st.visible, thoughts |-> st.thoughts]
  BY DEF ParserStates
<1>9. CASE st.insideThink
  <2> DEFINE z == st.thinking \o x
  <2>1. Turn(st) = [insideThink |-> FALSE, buffer |-> y, thinking |-> <<>>,
                    visible |-> st.visible, thoughts |-> Append(st.thoughts, z)]
    BY <1>5, <1>8, <1>9
  <2>2. z \in Text /\ <<>> \in Text
    BY <1>4, <1>8, TextJoins
  <2> HIDE DEF z
  <2>3. Append(st.thoughts, z) \in Seq(Text) /\ Append(st.thoughts, z) = st.thoughts \o <<z>>
        /\ <<z>> \in Seq(Text)
    BY <1>8, <2>2, AppendIsConcat, ThoughtsJoin
  <2>4. Turn(st) \in ParserStates /\ Turn(st).buffer = y /\ TagFor(Turn(st).insideThink) = Other(tag)
        /\ tag = CloseTag
    <3>1. Turn(st) \in ParserStates /\ Turn(st).buffer = y /\ ~Turn(st).insideThink
      BY <1>4, <1>8, <2>1, <2>2, <2>3 DEF ParserStates
    <3>2. tag = CloseTag /\ TagFor(Turn(st).insideThink) = OpenTag
      BY <1>9, <3>1, TagForIs
    <3> HIDE DEF tag
    <3> QED
      BY <3>1, <3>2, TagsAre DEF Other
  <2>5. ASSUME NEW t \in Text PROVE Tells(Turn(st), t) = Tells(st, t)
    <3> DEFINE d == Seen(y \o t, Other(tag))
    <3>1. Seen(b \o t, tag) = Ahead(tag, x, d) /\ d \in Sights
      BY <1>7
    <3> HIDE DEF d, tag
    <3>2. d.thoughts \in Seq(Text)
      BY <3>1 DEF Sights
    <3> DEFINE e == d.thoughts
    <3>3. (st.thoughts \o <<z>>) \o e = st.thoughts \o (<<z>> \o e)
      <4>1. e \in Seq(Text)
        BY <3>2
      <4> HIDE DEF e
      <4> QED
        BY <1>8, <2>3, <4>1, ThoughtsJoin
    <3>4. Tells(Turn(st), t) = Told(Turn(st), d)
      BY <2>4 DEF Tells, d
    <3>5. Tells(st, t) = Told(st, Ahead(tag, x, d))
      BY <3>1 DEF Tells, b, tag
    <3>6. Ahead(tag, x, d) = [open |-> x, visible |-> d.visible, thoughts |-> d.thoughts]
      BY <2>4 DEF Ahead
    <3>7. Told(st, Ahead(tag, x, d))
            = [visible |-> st.visible \o d.visible, thoughts |-> st.thoughts \o (<<z>> \o e)]
      BY <1>9, <3>6 DEF Told, z
    <3>8. Told(Turn(st), d)
            = [visible |-> st.visible \o d.visible, thoughts |-> (st.thoughts \o <<z>>) \o e]
      BY <2>1, <2>3 DEF Told
    <3> QED
      BY <3>3, <3>4, <3>5, <3>7, <3>8
  <2> QED
    BY <1>6, <2>4, <2>5 DEF b
<1>10. CASE ~st.insideThink
  <2>1. Turn(st) = [insideThink |-> TRUE, buffer |-> y, thinking |-> <<>>,
                    visible |-> st.visible \o x, thoughts |-> st.thoughts]
    BY <1>5, <1>8, <1>10
  <2>2. st.visible \o x \in Text /\ <<>> \in Text
    BY <1>4, <1>8, TextJoins
  <2>3. Turn(st) \in ParserStates /\ Turn(st).buffer = y /\ TagFor(Turn(st).insideThink) = Other(tag)
        /\ tag = OpenTag
    <3>1. Turn(st) \in ParserStates /\ Turn(st).buffer = y /\ Turn(st).insideThink
      BY <1>4, <1>8, <2>1, <2>2 DEF ParserStates
    <3>2. tag = OpenTag /\ TagFor(Turn(st).insideThink) = CloseTag
      BY <1>10, <3>1, TagForIs
    <3> HIDE DEF tag
    <3> QED
      BY <3>1, <3>2 DEF Other
  <2>4. ASSUME NEW t \in Text PROVE Tells(Turn(st), t) = Tells(st, t)
    <3> DEFINE d == Seen(y \o t, Other(tag))
    <3>1. Seen(b \o t, tag) = Ahead(tag, x, d) /\ d \in Sights
      BY <1>7
    <3> HIDE DEF d, tag
    <3>2. d.open \in Text /\ d.visible \in Text
      BY <3>1 DEF Sights
    <3>3. (st.visible \o x) \o d.visible = st.visible \o (x \o d.visible) /\ <<>> \o d.open = d.open
      <4>1. st.visible \in Text /\ x \in Text
        BY <1>4, <1>8
      <4> DEFINE l == st.visible
                 r == d.visible
                 o == d.open
      <4> HIDE DEF x, l, r, o
      <4>2. (l \o x) \o r = l \o (x \o r)
        BY <3>2, <4>1, TextJoins DEF l, r
      <4>3. <<>> \o o = o
        BY <3>2, TextJoins DEF o
      <4> QED
        BY <4>2, <4>3 DEF l, r, o
    <3>4. Tells(Turn(st), t) = Told(Turn(st), d)
      BY <2>3 DEF Tells, d
    <3>5. Tells(st, t) = Told(st, Ahead(tag, x, d))
      BY <3>1 DEF Tells, b, tag
    <3>6. Ahead(tag, x, d)
            = [open |-> <<>>, visible |-> x \o d.visible, thoughts |-> <<d.open>> \o d.thoughts]
      BY <2>3, TagsAre DEF Ahead
    <3>7. Told(st, Ahead(tag, x, d))
            = [visible |-> st.visible \o (x \o d.visible),
               thoughts |-> st.thoughts \o (<<d.open>> \o d.thoughts)]
      BY <1>10, <3>6 DEF Told
    <3>8. Told(Turn(st), d)
            = [visible |-> (st.visible \o x) \o d.visible,
               thoughts |-> st.thoughts \o (<< <<>> \o d.open >> \o d.thoughts)]
      BY <2>1 DEF Told
    <3> QED
      BY <3>3, <3>4, <3>5, <3>7, <3>8
  <2> QED
    BY <1>6, <2>3, <2>4 DEF b
<1> QED
  BY <1>8, <1>9, <1>10

----------------------------------------------------------------------------
\* The turns of the loop, one after another.
Turns(st, k, f) == f = [n \in 0 .. k |-> IF n = 0 THEN st ELSE Turn(f[n - 1])]

LEMMA TurnsExist == ASSUME NEW st, NEW m \in Nat PROVE \E f : Turns(st, m, f)
<1> DEFINE G == {k \in Nat : \E f : Turns(st, k, f)}
<1>1. 0 \in G
  <2> DEFINE f == [n \in 0 .. 0 |-> st]
  <2>1. f = [n \in 0 .. 0 |-> IF n = 0 THEN st ELSE Turn(f[n - 1])]
    OBVIOUS
  <2> HIDE DEF f
  <2>2. Turns(st, 0, f)
    BY <2>1 DEF Turns
  <2> QED
    BY <2>2
<1>2. ASSUME NEW k \in 0 .. m, k \in G, k < m PROVE k + 1 \in G
  <2>1. PICK f : Turns(st, k, f)
    BY <1>2
  <2> DEFINE g == [n \in 0 .. k + 1 |-> IF n <= k THEN f[n] ELSE Turn(f[k])]
  <2>2. \A n \in 0 .. k : f[n] = IF n = 0 THEN st ELSE Turn(f[n - 1])
    BY <2>1 DEF Turns
  <2>3. \A n \in 0 .. k : g[n] = f[n]
    OBVIOUS
  <2>4. g[k + 1] = Turn(f[k])
    OBVIOUS
  <2>5. g = [n \in 0 .. k + 1 |-> g[n]]
    OBVIOUS
  <2> HIDE DEF g
  <2>6. ASSUME NEW n \in 0 .. k + 1
        PROVE  g[n] = IF n = 0 THEN st ELSE Turn(g[n - 1])
    <3>1. CASE n = 0
      BY <2>2, <2>3, <3>1
    <3>2. CASE n \in 1 .. k
      <4>1. n \in 0 .. k /\ n - 1 \in 0 .. k /\ n # 0
        BY <3>2
      <4> QED
        BY <2>2, <2>3, <4>1
    <3>3. CASE n = k + 1
      <4>1. k \in 0 .. k /\ n - 1 = k /\ n # 0
        BY <3>3
      <4> QED
        BY <2>3, <2>4, <3>3, <4>1
    <3> QED
      BY <3>1, <3>2, <3>3
  <2>7. Turns(st, k + 1, g)
    BY <2>5, <2>6 DEF Turns
  <2> QED
    BY <2>7
<1> HIDE DEF G
<1>3. \A k \in 0 .. m : k \in G
  BY <1>1, <1>2, HandedOn
<1>4. m \in G
  BY <1>3
<1> QED
  BY <1>4 DEF G

\* The loop leaves no tag in the buffer, and its turns change nothing of what is told.
LEMMA ConsumeIs ==
    ASSUME NEW st \in ParserStates
    PROVE  /\ Consume(st) \in ParserStates /\ Waits(Consume(st))
           /\ \A t \in Text : Tells(Consume(st), t) = Tells(st, t)
<1> DEFINE m == Len(st.buffer) + 1
           f == CHOOSE f : Turns(st, m, f)
<1>1. m \in Nat /\ Len(st.buffer) \in Nat
  BY TextJoins DEF ParserStates
<1>2. Consume(st) = f[m]
  BY DEF Consume, Turns
<1>3. Turns(st, m, f)
  BY <1>1, TurnsExist
<1> HIDE DEF f
<1>4. \A n \in 0 .. m : f[n] = IF n = 0 THEN st ELSE Turn(f[n - 1])
  BY <1>3 DEF Turns
<1> HIDE DEF m
<1> DEFINE same(p) == \A t \in Text : Tells(p, t) = Tells(st, t)
           fine(n) == /\ f[n] \in ParserStates /\ same(f[n])
                      /\ Waits(f[n]) \/ Len(f[n].buffer) + n <= Len(st.buffer)
           G == {n \in 0 .. m : fine(n)}
<1>5. fine(0)
  <2>1. f[0] = st
    BY <1>1, <1>4
  <2> QED
    BY <1>1, <2>1
<1>6. ASSUME NEW k \in 0 .. m, fine(k), k < m PROVE fine(k + 1)
  <2>1. k + 1 \in 0 .. m /\ k + 1 # 0 /\ (k + 1) - 1 = k
    BY <1>1, <1>6
  <2>2. f[k + 1] = Turn(f[k])
    BY <1>4, <2>1
  <2>3. f[k] \in ParserStates /\ same(f[k]) /\ (Waits(f[k]) \/ Len(f[k].buffer) + k <= Len(st.buffer))
    BY <1>6
  <2>4. CASE Waits(f[k])
    <3>1. /\ Turn(f[k]) \in ParserStates /\ Waits(Turn(f[k]))
          /\ \A t \in Text : Tells(Turn(f[k]), t) = Tells(f[k], t)
      BY <2>3, <2>4, TurnWaits
    <3> QED
      BY <2>2, <2>3, <3>1
  <2>5. CASE ~Waits(f[k])
    <3>1. /\ Turn(f[k]) \in ParserStates /\ Len(Turn(f[k]).buffer) < Len(f[k].buffer)
          /\ \A t \in Text : Tells(Turn(f[k]), t) = Tells(f[k], t)
      BY <2>3, <2>5, TurnFinds
    <3>2. Len(Turn(f[k]).buffer) \in Nat /\ Len(f[k].buffer) \in Nat
      <4>1. Turn(f[k]).buffer \in Text /\ f[k].buffer \in Text
        BY <2>3, <3>1 DEF ParserStates
      <4> QED
        BY <4>1, TextJoins
    <3>3. Len(Turn(f[k]).buffer) + (k + 1) <= Len(st.buffer)
      <4>1. Len(f[k].buffer) + k <= Len(st.buffer)
        BY <2>3, <2>5
      <4>2. Len(Turn(f[k]).buffer) < Len(f[k].buffer)
        BY <3>1
      <4> DEFINE a == Len(f[k].buffer)
                 c == Len(Turn(f[k]).buffer)
                 l == Len(st.buffer)
      <4>3. a \in Nat /\ c \in Nat /\ l \in Nat /\ k \in Nat /\ c < a /\ a + k <= l
        BY <1>1, <3>2, <4>1, <4>2
      <4> HIDE DEF a, c, l
      <4>4. c + (k + 1) <= l
        BY <4>3
      <4> QED
        BY <4>4 DEF a, c, l
    <3> QED
      BY <2>2, <2>3, <3>1, <3>3
  <2> QED
    BY <2>4, <2>5
<1> HIDE DEF fine
<1>7. 0 \in G
  BY <1>1, <1>5
<1>8. ASSUME NEW k \in 0 .. m, k \in G, k < m PROVE k + 1 \in G
  <2>1. k + 1 \in 0 .. m
    BY <1>1, <1>8
  <2> QED
    BY <1>6, <1>8, <2>1
<1> HIDE DEF G
<1>9. \A k \in 0 .. m : k \in G
  BY <1>1, <1>7, <1>8, HandedOn
<1>10. fine(m)
  BY <1>1, <1>9 DEF G
<1>11. f[m] \in ParserStates /\ same(f[m]) /\ (Waits(f[m]) \/ Len(f[m].buffer) + m <= Len(st.buffer))
  BY <1>10 DEF fine
<1>12. Len(f[m].buffer) \in Nat
  <2>1. f[m].buffer \in Text
    BY <1>11 DEF ParserStates
  <2> QED
    BY <2>1, TextJoins
<1>13. ~(Len(f[m].buffer) + m <= Len(st.buffer))
  <2>1. \A a, l \in Nat : ~(a + (l + 1) <= l)
    OBVIOUS
  <2>2. m = Len(st.buffer) + 1
    BY DEF m
  <2> QED
    BY <1>1, <1>12, <2>1, <2>2
<1> QED
  BY <1>2, <1>11, <1>13

----------------------------------------------------------------------------
LEMMA BeginningIs ==
    ASSUME NEW s \in Text, NEW u \in Text
    PROVE  IsPrefix(s, s \o u)
<1>1. Len(s) \in Nat /\ Len(u) \in Nat /\ Len(s \o u) = Len(s) + Len(u)
  BY TextJoins
<1>2. SubSeq(s \o u, 1, Len(s)) = s /\ SubSeq(s, 1, Len(s)) = s
  BY <1>1, SubSeqOfConcat1, SubSeqFull DEF Text
<1> QED
  BY <1>1, <1>2 DEF IsPrefix

\* What is told of the rest of a stream is what a reader of the whole of it sees.
ShownOf(d) == [visible |-> d.visible, thoughts |-> d.thoughts]

ThinkInd ==
    /\ text \in Text /\ flushed \in BOOLEAN
    /\ ~flushed => /\ parser \in ParserStates /\ Waits(parser)
                   /\ \A t \in Text : Tells(parser, t) = ShownOf(Seen(text \o t, OpenTag))
    /\ flushed => /\ parser.visible = Seen(text, OpenTag).visible
                  /\ parser.thoughts = Seen(text, OpenTag).thoughts

LEMMA ThinkIndInit == ThinkInit => ThinkInd
<1> SUFFICES ASSUME ThinkInit PROVE ThinkInd
  OBVIOUS
<1>1. text = <<>> /\ parser = createThinkStreamState /\ flushed = FALSE
  BY DEF ThinkInit
<1>2. <<>> \in Text /\ <<>> \in Seq(Text) /\ OpenTag \in Tags /\ \A s \in Text : <<>> \o s = s
  BY TextJoins, ThoughtsJoin DEF Tags
<1>3. parser \in ParserStates
  BY <1>1, <1>2 DEF ParserStates, createThinkStreamState
<1>4. parser.buffer = <<>> /\ ~parser.insideThink /\ parser.visible = <<>> /\ parser.thoughts = <<>>
  BY <1>1 DEF createThinkStreamState
<1>5. TagFor(parser.insideThink) = OpenTag
  BY <1>3, <1>4, TagForIs
<1>6. Waits(parser)
  BY <1>4 DEF Waits, TagAt
<1>7. ASSUME NEW t \in Text PROVE Tells(parser, t) = ShownOf(Seen(text \o t, OpenTag))
  <2> DEFINE d == Seen(t, OpenTag)
  <2>1. d \in Sights
    BY <1>2, SeenTyped
  <2> HIDE DEF d
  <2>2. <<>> \o d.visible = d.visible /\ <<>> \o d.thoughts = d.thoughts
    BY <2>1, TextJoins, ThoughtsJoin DEF Sights
  <2>3. Tells(parser, t) = Told(parser, d)
    BY <1>2, <1>4, <1>5 DEF Tells, d
  <2>4. Told(parser, d) = [visible |-> <<>> \o d.visible, thoughts |-> <<>> \o d.thoughts]
    BY <1>4 DEF Told
  <2>5. text \o t = t
    BY <1>1, <1>2
  <2> QED
    BY <2>2, <2>3, <2>4, <2>5 DEF ShownOf, d
<1> QED
  BY <1>1, <1>2, <1>3, <1>6, <1>7 DEF ThinkInd

LEMMA ThinkIndChunk == ASSUME ThinkInd, Chunk PROVE ThinkInd'
<1>1. PICK piece \in Pieces : /\ ~flushed /\ text' = text \o piece
                              /\ parser' = parseThinkChunk(parser, piece) /\ flushed' = flushed
  BY DEF Chunk
<1>2. piece \in Text
  <2>1. PICK n \in 1 .. MaxPiece : piece \in [1 .. n -> Alphabet]
    BY DEF Pieces
  <2> QED
    BY <2>1, ThinkAssumption DEF Text
<1>3. /\ text \in Text /\ flushed \in BOOLEAN /\ parser \in ParserStates
      /\ \A t \in Text : Tells(parser, t) = ShownOf(Seen(text \o t, OpenTag))
  BY <1>1 DEF ThinkInd
<1> DEFINE q == [parser EXCEPT !.buffer = @ \o piece]
<1>4. q \in ParserStates /\ q.buffer = parser.buffer \o piece /\ parser.buffer \in Text
      /\ q.insideThink = parser.insideThink /\ q.visible = parser.visible
      /\ q.thinking = parser.thinking /\ q.thoughts = parser.thoughts
  <2>1. parser.buffer \in Text
    BY <1>3 DEF ParserStates
  <2>2. parser.buffer \o piece \in Text
    BY <1>2, <2>1, TextJoins
  <2> QED
    BY <1>3, <2>1, <2>2 DEF ParserStates
<1>5. parser' = Consume(q)
  BY <1>1 DEF parseThinkChunk
<1> HIDE DEF q
<1>6. /\ parser' \in ParserStates /\ Waits(parser')
      /\ \A t \in Text : Tells(parser', t) = Tells(q, t)
  BY <1>4, <1>5, ConsumeIs
<1>7. text \o piece \in Text
  BY <1>2, <1>3, TextJoins
<1>8. ASSUME NEW t \in Text PROVE Tells(parser', t) = ShownOf(Seen(text' \o t, OpenTag))
  <2>1. piece \o t \in Text
    BY <1>2, TextJoins
  <2>2. q.buffer \o t = parser.buffer \o (piece \o t)
    <3>1. (parser.buffer \o piece) \o t = parser.buffer \o (piece \o t)
      <4> DEFINE b == parser.buffer
      <4>1. b \in Text
        BY <1>4
      <4> HIDE DEF b
      <4>2. (b \o piece) \o t = b \o (piece \o t)
        BY <1>2, <4>1, TextJoins
      <4> QED
        BY <4>2 DEF b
    <3> QED
      BY <1>4, <3>1
  <2>3. text' \o t = text \o (piece \o t)
    BY <1>1, <1>2, <1>3, TextJoins
  <2>4. Tells(q, t) = Tells(parser, piece \o t)
    BY <1>4, <2>2 DEF Tells, Told
  <2>5. Tells(parser, piece \o t) = ShownOf(Seen(text \o (piece \o t), OpenTag))
    BY <1>3, <2>1
  <2>6. Tells(parser', t) = Tells(q, t)
    BY <1>6
  <2> QED
    BY <2>3, <2>4, <2>5, <2>6
<1>9. ~flushed' /\ flushed' \in BOOLEAN /\ text' \in Text
  BY <1>1, <1>3, <1>7
<1> QED
  BY <1>6, <1>8, <1>9 DEF ThinkInd

\* The end of the stream shows what was held back, in which no tag begins.
LEMMA EndShowsRest ==
    ASSUME NEW st \in ParserStates, Waits(st)
    PROVE  /\ flushThinkState(st).visible = Tells(st, <<>>).visible
           /\ flushThinkState(st).thoughts = Tells(st, <<>>).thoughts
<1> DEFINE tag == TagFor(st.insideThink)
<1>1. st.buffer \in Text /\ tag \in Tags /\ st.thinking \in Text /\ st.visible \in Text
      /\ st.thoughts \in Seq(Text)
  BY TagForIs DEF ParserStates
<1>2. st.buffer \o <<>> = st.buffer
  BY <1>1, TextJoins
<1>3. Seen(st.buffer, tag) = Plain(tag, st.buffer)
  BY <1>1, SeenPlain DEF Waits
<1>4. Tells(st, <<>>) = Told(st, Plain(tag, st.buffer))
  BY <1>2, <1>3 DEF Tells
<1>5. CASE st.insideThink
  <2>1. tag = CloseTag
    BY <1>5, TagForIs
  <2> DEFINE z == st.thinking \o st.buffer
  <2>2. Tells(st, <<>>) = [visible |-> st.visible \o <<>>, thoughts |-> st.thoughts \o (<<z>> \o <<>>)]
    BY <1>4, <1>5, <2>1 DEF Told, Plain
  <2>3. z \in Text
    BY <1>1, TextJoins
  <2>4. flushThinkState(st).visible = st.visible /\ flushThinkState(st).thoughts = Append(st.thoughts, z)
    BY <1>5 DEF flushThinkState, createThinkStreamState
  <2> HIDE DEF z
  <2>5. <<z>> \in Seq(Text)
    BY <2>3
  <2>6. <<z>> \o <<>> = <<z>> /\ st.visible \o <<>> = st.visible
    BY <1>1, <2>5, TextJoins, ThoughtsJoin
  <2>7. Append(st.thoughts, z) = st.thoughts \o <<z>>
    BY <1>1, <2>3, AppendIsConcat
  <2> QED
    BY <2>2, <2>4, <2>6, <2>7
<1>6. CASE ~st.insideThink
  <2>1. tag = OpenTag /\ OpenTag # CloseTag
    BY <1>6, TagForIs, TagsAre
  <2>2. Tells(st, <<>>) = [visible |-> st.visible \o st.buffer, thoughts |-> st.thoughts \o <<>>]
    BY <1>4, <1>6, <2>1 DEF Told, Plain
  <2>3. flushThinkState(st).visible = st.visible \o st.buffer /\ flushThinkState(st).thoughts = st.thoughts
    BY <1>6 DEF flushThinkState, createThinkStreamState
  <2>4. st.thoughts \o <<>> = st.thoughts
    BY <1>1, ThoughtsJoin
  <2>5. Tells(st, <<>>).visible = st.visible \o st.buffer /\ Tells(st, <<>>).thoughts = st.thoughts \o <<>>
    <3> DEFINE u == st.visible \o st.buffer
               v == st.thoughts \o <<>>
               r == Tells(st, <<>>)
    <3>1. r = [visible |-> u, thoughts |-> v]
      BY <2>2
    <3> HIDE DEF u, v, r
    <3>2. r.visible = u /\ r.thoughts = v
      BY <3>1
    <3> QED
      BY <3>2 DEF u, v, r
  <2> QED
    BY <2>3, <2>4, <2>5
<1> QED
  BY <1>5, <1>6

LEMMA ThinkIndEnd == ASSUME ThinkInd, EndOfText PROVE ThinkInd'
<1>1. ~flushed /\ flushed' = TRUE /\ parser' = flushThinkState(parser) /\ text' = text
  BY DEF EndOfText
<1>2. /\ text \in Text /\ parser \in ParserStates /\ Waits(parser)
      /\ \A t \in Text : Tells(parser, t) = ShownOf(Seen(text \o t, OpenTag))
  BY <1>1 DEF ThinkInd
<1>3. <<>> \in Text /\ text \o <<>> = text
  BY <1>2, TextJoins
<1>4. Tells(parser, <<>>) = ShownOf(Seen(text, OpenTag))
  BY <1>2, <1>3
<1>5. parser'.visible = Tells(parser, <<>>).visible /\ parser'.thoughts = Tells(parser, <<>>).thoughts
  BY <1>1, <1>2, EndShowsRest
<1>6. parser'.visible = Seen(text, OpenTag).visible /\ parser'.thoughts = Seen(text, OpenTag).thoughts
  BY <1>4, <1>5 DEF ShownOf
<1> QED
  BY <1>1, <1>2, <1>6 DEF ThinkInd

LEMMA ThinkIndUse == ThinkInd => ChunksInvisible
<1> SUFFICES ASSUME ThinkInd PROVE ChunksInvisible
  OBVIOUS
<1> DEFINE whole == Seen(text, OpenTag)
<1>1. text \in Text /\ OpenTag \in Tags /\ <<>> \in Text
  BY TextJoins DEF ThinkInd, Tags
<1>2. whole \in Sights
  BY <1>1, SeenTyped
<1>3. CASE flushed
  <2>1. parser.visible = whole.visible /\ parser.thoughts = whole.thoughts /\ whole.visible \in Text
    BY <1>2, <1>3 DEF ThinkInd, Sights
  <2>2. whole.visible \o <<>> = whole.visible
    BY <2>1, TextJoins
  <2>3. IsPrefix(parser.visible, whole.visible)
    BY <1>1, <2>1, <2>2, BeginningIs
  <2> QED
    BY <2>1, <2>3 DEF ChunksInvisible
<1>4. CASE ~flushed
  <2> DEFINE d == Seen(parser.buffer \o <<>>, TagFor(parser.insideThink))
  <2>1. parser \in ParserStates /\ Tells(parser, <<>>) = ShownOf(Seen(text \o <<>>, OpenTag))
    BY <1>1, <1>4 DEF ThinkInd
  <2>2. text \o <<>> = text
    BY <1>1, TextJoins
  <2>3. whole.visible = parser.visible \o d.visible
    BY <2>1, <2>2 DEF Tells, Told, ShownOf
  <2>4. parser.buffer \o <<>> \in Text /\ TagFor(parser.insideThink) \in Tags /\ parser.visible \in Text
    <3>1. parser.buffer \in Text /\ parser.visible \in Text
      BY <2>1 DEF ParserStates
    <3> QED
      BY <1>1, <2>1, <3>1, TextJoins, TagForIs
  <2>5. d.visible \in Text
    BY <2>4, SeenTyped DEF Sights
  <2>6. IsPrefix(parser.visible, whole.visible)
    <3> HIDE DEF d, whole
    <3> QED
      BY <2>3, <2>4, <2>5, BeginningIs
  <2> QED
    BY <1>4, <2>6 DEF ChunksInvisible
<1> QED
  BY <1>3, <1>4

(* Where a stream of tokens was cut into chunks cannot be told from what lib/thinking.ts
   shows: nothing shown is taken back, and at the end the answer and the thoughts are those
   of the whole text. *)
THEOREM ThoughtsSeenWhole == ThinkSpec => []ChunksInvisible
<1>1. ThinkInit => ThinkInd
  BY ThinkIndInit
<1>2. ThinkInd /\ [ThinkNext]_thinkVars => ThinkInd'
  <2> SUFFICES ASSUME ThinkInd, [ThinkNext]_thinkVars PROVE ThinkInd'
    OBVIOUS
  <2>1. CASE Chunk
    BY <2>1, ThinkIndChunk
  <2>2. CASE EndOfText
    BY <2>2, ThinkIndEnd
  <2>3. CASE UNCHANGED thinkVars
    BY <2>3 DEF thinkVars, ThinkInd
  <2> QED
    BY <2>1, <2>2, <2>3 DEF ThinkNext
<1> QED
  BY <1>1, <1>2, ThinkIndUse, PTL DEF ThinkSpec
----------------------------------------------------------------------------
(***************************************************************************)
(* DashboardAddsUp for any lines of a trace file, any number of traces and *)
(* tools, and any times.  The bucket of a trace holds what its events tell *)
(* (Bears): whether one failed, the least of their times and the greatest  *)
(* of their ends, so that no order in which the lines of several traces    *)
(* were written shows.  A finite set can be ranked by numbers, by the      *)
(* least size of one that could not (RankingExists), which gives the       *)
(* percentiles; the sizes of the parts that a key makes of a finite set    *)
(* add up to its own (PartsAddUp), and every request falls into one bucket *)
(* of the trend (IndexFits).                                               *)
(***************************************************************************)

\* A finite set has an element of the greatest number.
LEMMA HasGreatest ==
    ASSUME NEW S, IsFiniteSet(S), S # {}, NEW f, \A x \in S : f[x] \in Int
    PROVE  \E x \in S : \A y \in S : f[y] <= f[x]
<1> DEFINE none == {s \in SUBSET S : s # {} /\ ~\E x \in s : \A y \in s : f[y] <= f[x]}
           sizes == {Cardinality(s) : s \in none}
<1>1. none = {}
  <2> SUFFICES ASSUME none # {} PROVE FALSE
    OBVIOUS
  <2>1. sizes \in SUBSET Nat /\ sizes # {}
    <3>1. \A s \in SUBSET S : Cardinality(s) \in Nat
      BY FiniteSets
    <3> QED
      BY <3>1
  <2> HIDE DEF sizes
  <2>2. PICK n \in sizes : \A k \in sizes : n <= k
    BY <2>1, HasMin
  <2>3. PICK s \in none : Cardinality(s) = n
    BY <2>2 DEF sizes
  <2>4. s \in SUBSET S /\ s # {} /\ ~\E x \in s : \A y \in s : f[y] <= f[x]
    BY <2>3
  <2> DEFINE a == First(s)
             r == s \ {a}
  <2>5. a \in s /\ r \in SUBSET S /\ Cardinality(r) \in Nat /\ Cardinality(r) < Cardinality(s)
        /\ Cardinality(s) \in Nat
    BY <2>4, FiniteSets
  <2>6. r \notin none
    <3> SUFFICES ASSUME r \in none PROVE FALSE
      OBVIOUS
    <3>1. Cardinality(r) \in sizes
      BY DEF sizes
    <3>2. n <= Cardinality(r)
      BY <2>2, <3>1
    <3> QED
      BY <2>3, <2>5, <3>2
  <2>7. s = r \cup {a}
    BY <2>5
  <2>8. \A x \in s : f[x] \in Int
    BY <2>4
  <2>9. CASE r = {}
    <3>1. \A y \in s : f[y] <= f[a]
      BY <2>5, <2>7, <2>8, <2>9
    <3> QED
      BY <2>4, <2>5, <3>1
  <2>10. CASE r # {}
    <3>1. PICK x \in r : \A y \in r : f[y] <= f[x]
      BY <2>5, <2>6, <2>10
    <3> HIDE DEF r, a
    <3>2. CASE f[a] <= f[x]
      <4>1. \A y \in s : f[y] <= f[x]
        BY <2>7, <3>1, <3>2
      <4> QED
        BY <2>4, <2>7, <4>1
    <3>3. CASE ~(f[a] <= f[x])
      <4>1. f[a] \in Int /\ f[x] \in Int
        BY <2>7, <2>8
      <4>2. \A y \in s : f[y] <= f[a]
        BY <2>7, <2>8, <3>1, <3>3, <4>1
      <4> QED
        BY <2>4, <2>5, <4>2
    <3> QED
      BY <3>2, <3>3
  <2> QED
    BY <2>9, <2>10
<1> QED
  BY <1>1

IsRanking(f, S, numbers) ==
    /\ f \in [1 .. Cardinality(S) -> S]
    /\ IsInjective(f)
    /\ \A i, j \in DOMAIN f : i < j => numbers[f[i]] <= numbers[f[j]]

\* A finite set can be ranked by numbers: the greatest comes behind a ranking of the others.
LEMMA RankingExists ==
    ASSUME NEW S, IsFiniteSet(S), NEW numbers, \A x \in S : numbers[x] \in Int
    PROVE  \E f : IsRanking(f, S, numbers)
<1> DEFINE none == {s \in SUBSET S : ~\E f : IsRanking(f, s, numbers)}
           sizes == {Cardinality(s) : s \in none}
<1>1. none = {}
  <2> SUFFICES ASSUME none # {} PROVE FALSE
    OBVIOUS
  <2>1. sizes \in SUBSET Nat /\ sizes # {}
    <3>1. \A s \in SUBSET S : Cardinality(s) \in Nat
      BY FiniteSets
    <3> QED
      BY <3>1
  <2> HIDE DEF sizes
  <2>2. PICK n \in sizes : \A k \in sizes : n <= k
    BY <2>1, HasMin
  <2>3. PICK s \in none : Cardinality(s) = n
    BY <2>2 DEF sizes
  <2>4. s \in SUBSET S /\ ~\E f : IsRanking(f, s, numbers)
    BY <2>3
  <2>5. IsFiniteSet(s) /\ Cardinality(s) \in Nat
    BY <2>4, FS_Subset, FS_CardinalityType
  <2>6. CASE s = {}
    <3> DEFINE f == [i \in 1 .. 0 |-> 0]
    <3>1. Cardinality(s) = 0
      BY <2>6, FS_EmptySet
    <3>2. f \in [1 .. 0 -> s]
      OBVIOUS
    <3>3. IsRanking(f, s, numbers)
      BY <3>1, <3>2 DEF IsRanking, IsInjective
    <3> QED
      BY <2>4, <3>3
  <2>7. CASE s # {}
    <3>1. \A x \in s : numbers[x] \in Int
      BY <2>4
    <3>2. PICK a \in s : \A y \in s : numbers[y] <= numbers[a]
      BY <2>5, <2>7, <3>1, HasGreatest
    <3> DEFINE r == s \ {a}
               m == Cardinality(r)
    <3>3. IsFiniteSet(r) /\ m = Cardinality(s) - 1 /\ m \in Nat /\ r \in SUBSET S
      <4>1. IsFiniteSet(r) /\ m = Cardinality(s) - 1
        BY <2>5, <3>2, FS_RemoveElement
      <4>2. m \in Nat
        BY <4>1, FS_CardinalityType
      <4> QED
        BY <2>4, <4>1, <4>2
    <3>4. r \notin none
      <4> SUFFICES ASSUME r \in none PROVE FALSE
        OBVIOUS
      <4>1. Cardinality(r) \in sizes
        BY DEF sizes
      <4>2. n <= Cardinality(r)
        BY <2>2, <4>1
      <4> QED
        BY <2>3, <2>5, <3>3, <4>2
    <3>5. PICK f : IsRanking(f, r, numbers)
      BY <3>3, <3>4
    <3>6. /\ f \in [1 .. m -> r] /\ \A i, j \in 1 .. m : f[i] = f[j] => i = j
          /\ \A i, j \in 1 .. m : i < j => numbers[f[i]] <= numbers[f[j]]
      BY <3>5 DEF IsRanking, IsInjective
    <3> HIDE DEF m
    <3> DEFINE g == [i \in 1 .. m + 1 |-> IF i <= m THEN f[i] ELSE a]
    <3>7. Cardinality(s) = m + 1 /\ \A i \in 1 .. m + 1 : i \in 1 .. m \/ i = m + 1
      BY <2>5, <3>3
    <3>8. \A i \in 1 .. m : g[i] = f[i] /\ f[i] \in r /\ i \in 1 .. m + 1
      BY <3>3, <3>6
    <3>9. g[m + 1] = a /\ m + 1 \in 1 .. m + 1
      BY <3>3
    <3>10. g \in [1 .. m + 1 -> s]
      BY <3>2, <3>6, <3>7
    <3> HIDE DEF g
    <3>11. ASSUME NEW i \in 1 .. m + 1, NEW j \in 1 .. m + 1, g[i] = g[j] PROVE i = j
      <4>1. CASE i \in 1 .. m /\ j \in 1 .. m
        BY <3>6, <3>8, <3>11, <4>1
      <4>2. CASE i \in 1 .. m /\ j = m + 1
        BY <3>8, <3>9, <3>11, <4>2
      <4>3. CASE i = m + 1 /\ j \in 1 .. m
        BY <3>8, <3>9, <3>11, <4>3
      <4> QED
        BY <3>7, <4>1, <4>2, <4>3
    <3>12. ASSUME NEW i \in 1 .. m + 1, NEW j \in 1 .. m + 1, i < j
           PROVE  numbers[g[i]] <= numbers[g[j]]
      <4>1. i \in 1 .. m
        BY <3>3, <3>12
      <4>2. CASE j \in 1 .. m
        BY <3>6, <3>8, <3>12, <4>1, <4>2
      <4>3. CASE j = m + 1
        BY <3>2, <3>8, <3>9, <4>1, <4>3
      <4> QED
        BY <3>7, <4>2, <4>3
    <3>13. DOMAIN g = 1 .. m + 1
      BY <3>10
    <3>14. IsRanking(g, s, numbers)
      BY <3>7, <3>10, <3>11, <3>12, <3>13 DEF IsRanking, IsInjective
    <3> QED
      BY <2>4, <3>14
  <2> QED
    BY <2>6, <2>7
<1> QED
  BY <1>1

\* Ranked ranks.
LEMMA RankedIs ==
    ASSUME NEW S, IsFiniteSet(S), NEW numbers, \A x \in S : numbers[x] \in Int
    PROVE  IsRanking(Ranked(S, numbers), S, numbers)
<1>1. \E f \in [1 .. Cardinality(S) -> S] :
         IsInjective(f) /\ \A i, j \in DOMAIN f : i < j => numbers[f[i]] <= numbers[f[j]]
  BY RankingExists DEF IsRanking
<1> QED
  BY <1>1 DEF Ranked, IsRanking

----------------------------------------------------------------------------
\* The members of B stand for the parts of T that have their keys, of these sizes.
Parts(B, T, key, place, sizes) ==
    /\ \A b, c \in B : key[b] = key[c] => b = c
    /\ \A b \in B : sizes[b] = Cardinality({t \in T : place[t] = key[b]})
    /\ \A t \in T : \E b \in B : place[t] = key[b]

\* The sizes of the parts of a finite set add up to its own.
LEMMA PartsAddUp ==
    ASSUME NEW B, IsFiniteSet(B), NEW T, IsFiniteSet(T), NEW key, NEW place, NEW sizes,
           Parts(B, T, key, place, sizes)
    PROVE  Total(sizes, B) = Cardinality(T)
<1>0. /\ \A b, c \in B : key[b] = key[c] => b = c
      /\ \A b \in B : sizes[b] = Cardinality({t \in T : place[t] = key[b]})
      /\ \A t \in T : \E b \in B : place[t] = key[b]
  BY DEF Parts
<1> DEFINE In(s) == {t \in T : \E b \in s : place[t] = key[b]}
           wrong == {s \in SUBSET B : Total(sizes, s) # Cardinality(In(s))}
           counts == {Cardinality(s) : s \in wrong}
<1>1. wrong = {}
  <2> SUFFICES ASSUME wrong # {} PROVE FALSE
    OBVIOUS
  <2>1. counts \in SUBSET Nat /\ counts # {}
    <3>1. \A s \in SUBSET B : Cardinality(s) \in Nat
      BY FiniteSets
    <3>2. \A s \in wrong : s \in SUBSET B
      OBVIOUS
    <3> HIDE DEF wrong
    <3> QED
      BY <3>1, <3>2
  <2> HIDE DEF counts
  <2>2. PICK n \in counts : \A k \in counts : n <= k
    BY <2>1, HasMin
  <2>3. PICK s \in wrong : Cardinality(s) = n
    BY <2>2 DEF counts
  <2>4. s \in SUBSET B /\ Total(sizes, s) # Cardinality(In(s)) /\ IsFiniteSet(s)
    BY <2>3, FS_Subset
  <2>5. Total(sizes, s) = IF s = {} THEN 0 ELSE sizes[First(s)] + Total(sizes, s \ {First(s)})
    BY <2>4, TotalStep
  <2>6. s # {}
    <3> SUFFICES ASSUME s = {} PROVE FALSE
      OBVIOUS
    <3>1. In(s) = {}
      OBVIOUS
    <3>2. Cardinality(In(s)) = 0
      BY <3>1, FS_EmptySet
    <3> QED
      BY <2>4, <2>5, <3>2
  <2> DEFINE a == First(s)
             r == s \ {a}
             part == {t \in T : place[t] = key[a]}
  <2>7. a \in s /\ r \in SUBSET B /\ Cardinality(r) \in Nat /\ Cardinality(s) \in Nat
        /\ Cardinality(r) < Cardinality(s)
    BY <2>4, <2>6, FiniteSets
  <2>8. r \notin wrong
    <3> SUFFICES ASSUME r \in wrong PROVE FALSE
      OBVIOUS
    <3>1. Cardinality(r) \in counts
      BY DEF counts
    <3>2. n <= Cardinality(r)
      BY <2>2, <3>1
    <3> QED
      BY <2>3, <2>7, <3>2
  <2>9. Total(sizes, r) = Cardinality(In(r))
    BY <2>7, <2>8
  <2>10. s = r \cup {a} /\ a \in B /\ a \notin r
    BY <2>4, <2>7
  <2> HIDE DEF a, r
  <2>11. In(s) = In(r) \cup part /\ In(r) \cap part = {}
    <3>1. In(s) = In(r) \cup part
      BY <2>10
    <3>2. ASSUME NEW t \in In(r), t \in part PROVE FALSE
      <4>1. PICK b \in r : place[t] = key[b]
        OBVIOUS
      <4>2. b = a
        BY <1>0, <2>7, <2>10, <3>2, <4>1
      <4> QED
        BY <2>10, <4>1, <4>2
    <3> QED
      BY <3>1, <3>2
  <2>12. IsFiniteSet(In(r)) /\ IsFiniteSet(part)
    <3>1. In(r) \in SUBSET T /\ part \in SUBSET T
      OBVIOUS
    <3> QED
      BY <3>1, FS_Subset
  <2>13. Cardinality(In(s)) = Cardinality(In(r)) + Cardinality(part)
    <3>1. Cardinality({}) = 0 /\ Cardinality(In(r)) \in Nat /\ Cardinality(part) \in Nat
      BY <2>12, FS_EmptySet, FS_CardinalityType
    <3> DEFINE x == In(r)
    <3> HIDE DEF In, part
    <3>2. Cardinality(x \cup part) = Cardinality(x) + Cardinality(part) - Cardinality(x \cap part)
      BY <2>12, FS_Union
    <3>3. x \cap part = {} /\ In(s) = x \cup part
      BY <2>11
    <3>4. Cardinality(x) \in Nat
      BY <3>1
    <3> HIDE DEF x
    <3>5. Cardinality(In(s)) = Cardinality(x) + Cardinality(part)
      <4> DEFINE c == Cardinality(x)
                 d == Cardinality(part)
                 e == Cardinality(x \cap part)
      <4>1. e = 0 /\ c \in Nat /\ d \in Nat
        BY <3>1, <3>3, <3>4
      <4>2. Cardinality(In(s)) = c + d - e
        BY <3>2, <3>3
      <4> HIDE DEF c, d, e
      <4>3. c + d - e = c + d
        BY <4>1
      <4> QED
        BY <4>2, <4>3 DEF c, d
    <3> QED
      BY <3>5 DEF x
  <2>14. sizes[a] = Cardinality(part)
    BY <1>0, <2>10
  <2>15. Cardinality(In(r)) \in Nat /\ Cardinality(part) \in Nat
    BY <2>12, FS_CardinalityType
  <2>16. Total(sizes, s) = sizes[a] + Total(sizes, r)
    BY <2>5, <2>6 DEF a, r
  <2> HIDE DEF In, part
  <2> QED
    BY <2>4, <2>9, <2>13, <2>14, <2>15, <2>16
<1>2. Total(sizes, B) = Cardinality(In(B))
  BY <1>1
<1>3. In(B) = T
  BY <1>0
<1> QED
  BY <1>2, <1>3

----------------------------------------------------------------------------
\* What is read of a record is a number or missing.
LEMMA TimesAre ==
    ASSUME NEW e \in TraceRecords
    PROVE  /\ e.time = Missing => pickTimestampMs(e) = Missing
           /\ e.time # Missing => pickTimestampMs(e) \in Nat /\ pickTimestampMs(e) # Missing
           /\ pickDurationMs(e) \in Nat \cup {Missing}
<1>1. /\ e.time \in Nat \cup {Missing} /\ e.since \in Nat \cup {Missing}
      /\ e.lasted \in Nat \cup {Missing} /\ MsPerSecond \in Nat
  BY StatsAssumption
<1>2. \A n \in Nat : n # Missing /\ n * MsPerSecond \in Nat
  BY <1>1, StatsAssumption
<1>3. e.time # Missing => pickTimestampMs(e) \in Nat
  BY <1>1, <1>2 DEF pickTimestampMs
<1>4. CASE e.lasted # Missing
  BY <1>1, <1>2, <1>3, <1>4 DEF pickTimestampMs, pickDurationMs
<1>5. CASE e.lasted = Missing /\ (e.time = Missing \/ e.since = Missing \/ e.time < e.since)
  BY <1>2, <1>3, <1>5 DEF pickTimestampMs, pickDurationMs
<1>6. CASE e.lasted = Missing /\ ~(e.time = Missing \/ e.since = Missing \/ e.time < e.since)
  <2>1. e.time - e.since \in Nat
    BY <1>1, <1>6
  <2>2. pickDurationMs(e) = (e.time - e.since) * MsPerSecond
    BY <1>6 DEF pickDurationMs
  <2> QED
    BY <1>2, <1>3, <2>1, <2>2 DEF pickTimestampMs
<1> QED
  BY <1>4, <1>5, <1>6

StampsIn(E) == {pickTimestampMs(e) : e \in E} \ {Missing}
EndsIn(E) ==
    StampsIn(E) \cup {pickTimestampMs(e) + pickDurationMs(e) :
                         e \in {x \in E : Missing \notin {x.time, pickDurationMs(x)}}}

\* The bucket b holds what the events of E tell.
Bears(b, E) ==
    /\ b.failed <=> \E e \in E : isFailedEvent(e)
    /\ b.overflow <=> \E e \in E : hasContextOverflow(e)
    /\ b.overflow => "context_overflow" \in b.categories
    /\ b.categories # {} => b.failed \/ b.overflow
    /\ {b.failed, b.overflow} \subseteq BOOLEAN
    /\ b.fallback \in Nat \cup {Missing}
    /\ StampsIn(E) = {} => b.started = Missing /\ b.ended = Missing
    /\ StampsIn(E) # {} => /\ b.started \in StampsIn(E) /\ \A x \in StampsIn(E) : b.started <= x
                           /\ b.ended \in EndsIn(E) /\ \A x \in EndsIn(E) : x <= b.ended

\* The times are numbers, and ends of what lasted no time.
LEMMA StampsAre ==
    ASSUME NEW E \in SUBSET TraceRecords
    PROVE  /\ StampsIn(E) \subseteq EndsIn(E) /\ EndsIn(E) \subseteq Nat
           /\ StampsIn(E) = {} => EndsIn(E) = {}
<1>1. \A e \in E : /\ e.time = Missing => pickTimestampMs(e) = Missing
                   /\ e.time # Missing => pickTimestampMs(e) \in Nat /\ pickTimestampMs(e) # Missing
                   /\ pickDurationMs(e) \in Nat \cup {Missing}
  BY TimesAre
<1>2. StampsIn(E) \subseteq Nat
  BY <1>1 DEF StampsIn
<1>3. \A e \in E : Missing \notin {e.time, pickDurationMs(e)} =>
         /\ pickTimestampMs(e) \in StampsIn(E) /\ pickTimestampMs(e) + pickDurationMs(e) \in Nat
  BY <1>1 DEF StampsIn
<1> QED
  BY <1>2, <1>3 DEF EndsIn

\* An empty bucket holds what no events tell.
LEMMA NoTraceBears == Bears(NoTrace, {})
BY DEF Bears, NoTrace, StampsIn

\* What one more event adds to the times.
LEMMA StampsGrow ==
    ASSUME NEW E \in SUBSET TraceRecords, NEW e \in TraceRecords
    PROVE  LET time == pickTimestampMs(e)
               lasted == pickDurationMs(e)
               F == E \cup {e}
           IN  /\ e.time = Missing => StampsIn(F) = StampsIn(E) /\ EndsIn(F) = EndsIn(E)
               /\ e.time # Missing => StampsIn(F) = StampsIn(E) \cup {time}
               /\ e.time # Missing /\ lasted = Missing => EndsIn(F) = EndsIn(E) \cup {time}
               /\ e.time # Missing /\ lasted # Missing => EndsIn(F) = EndsIn(E) \cup {time, time + lasted}
<1> DEFINE time == pickTimestampMs(e)
           lasted == pickDurationMs(e)
           F == E \cup {e}
           Lasting(G) == {x \in G : Missing \notin {x.time, pickDurationMs(x)}}
           EndsOf(G) == {pickTimestampMs(x) + pickDurationMs(x) : x \in Lasting(G)}
<1>1. /\ e.time = Missing => time = Missing
      /\ e.time # Missing => time # Missing
  BY TimesAre
<1>2. StampsIn(F) = StampsIn(E) \cup ({time} \ {Missing})
  BY DEF StampsIn
<1>3. \A G : EndsIn(G) = StampsIn(G) \cup EndsOf(G)
  BY DEF EndsIn
<1>4. Lasting(F) = Lasting(E) \cup (IF Missing \in {e.time, lasted} THEN {} ELSE {e})
  OBVIOUS
<1> HIDE DEF Lasting
<1>5. EndsOf(F) = EndsOf(E) \cup (IF Missing \in {e.time, lasted} THEN {} ELSE {time + lasted})
  BY <1>4
<1> HIDE DEF EndsOf, F, time, lasted
<1>6. e.time = Missing => StampsIn(F) = StampsIn(E) /\ EndsIn(F) = EndsIn(E)
  BY <1>1, <1>2, <1>3, <1>5
<1>7. e.time # Missing => StampsIn(F) = StampsIn(E) \cup {time}
  BY <1>1, <1>2
<1>8. e.time # Missing /\ lasted = Missing => EndsIn(F) = EndsIn(E) \cup {time}
  BY <1>3, <1>5, <1>7
<1>9. e.time # Missing /\ lasted # Missing => EndsIn(F) = EndsIn(E) \cup {time, time + lasted}
  BY <1>3, <1>5, <1>7
<1> QED
  BY <1>6, <1>7, <1>8, <1>9 DEF F, time, lasted

\* An event failed or did not, and overflowed or did not.
LEMMA CategoriesAre ==
    ASSUME NEW e
    PROVE  /\ isFailedEvent(e) \in BOOLEAN /\ hasContextOverflow(e) \in BOOLEAN
BY DEF isFailedEvent, hasContextOverflow

\* A bucket with the first time and the last end holds what one more event tells.
LEMMA GrownBears ==
    ASSUME NEW E \in SUBSET TraceRecords, NEW e \in TraceRecords, NEW b, Bears(b, E),
           NEW started, NEW ended,
           LET F == E \cup {e}
           IN  /\ StampsIn(F) = {} => started = Missing /\ ended = Missing
               /\ StampsIn(F) # {} => /\ started \in StampsIn(F) /\ \A x \in StampsIn(F) : started <= x
                                      /\ ended \in EndsIn(F) /\ \A x \in EndsIn(F) : x <= ended
    PROVE  Bears(Grown(b, e, started, ended), E \cup {e})
<1> DEFINE g == Grown(b, e, started, ended)
           F == E \cup {e}
           lasted == pickDurationMs(e)
           more == (IF isFailedEvent(e) THEN classifyErrorCategory(e) ELSE {})
                      \cup (IF hasContextOverflow(e) THEN {"context_overflow"} ELSE {})
<1>1. /\ g.started = started /\ g.ended = ended
      /\ g.fallback = IF e.time # Missing \/ lasted = Missing THEN b.fallback
                      ELSE Greatest(b.fallback, lasted)
      /\ g.failed = (b.failed \/ isFailedEvent(e))
      /\ g.overflow = (b.overflow \/ hasContextOverflow(e))
      /\ g.categories = b.categories \cup more
  BY DEF Grown
<1> HIDE DEF g
<1>2. /\ b.failed <=> \E x \in E : isFailedEvent(x)
      /\ b.overflow <=> \E x \in E : hasContextOverflow(x)
      /\ b.overflow => "context_overflow" \in b.categories
      /\ b.categories # {} => b.failed \/ b.overflow
      /\ b.fallback \in Nat \cup {Missing}
  BY DEF Bears
<1>3. (g.failed <=> \E x \in F : isFailedEvent(x)) /\ (g.overflow <=> \E x \in F : hasContextOverflow(x))
  BY <1>1, <1>2
<1>4. g.overflow => "context_overflow" \in g.categories
  BY <1>1, <1>2
<1>5. g.categories # {} => g.failed \/ g.overflow
  <2>1. more # {} => isFailedEvent(e) \/ hasContextOverflow(e)
    OBVIOUS
  <2> HIDE DEF more
  <2> QED
    BY <1>1, <1>2, <2>1
<1>6. {g.failed, g.overflow} \subseteq BOOLEAN
  BY <1>1
<1>7. g.fallback \in Nat \cup {Missing}
  <2>1. lasted \in Nat \cup {Missing}
    BY TimesAre
  <2> HIDE DEF lasted
  <2> QED
    BY <1>1, <1>2, <2>1 DEF Greatest
<1> QED
  BY <1>1, <1>3, <1>4, <1>5, <1>6, <1>7 DEF Bears, g

\* Gather takes the least of the times and the greatest of the ends, which never sinks.
LEMMA GatherBears ==
    ASSUME NEW E \in SUBSET TraceRecords, NEW e \in TraceRecords, NEW b, Bears(b, E)
    PROVE  /\ Bears(Gather(b, e), E \cup {e})
           /\ b.ended \in Nat => Gather(b, e).ended \in Nat /\ b.ended <= Gather(b, e).ended
           /\ e.time # Missing => /\ Gather(b, e).ended \in Nat
                                  /\ pickTimestampMs(e) <= Gather(b, e).ended
<1> DEFINE F == E \cup {e}
           time == pickTimestampMs(e)
           lasted == pickDurationMs(e)
<1>1. /\ StampsIn(E) = {} => b.started = Missing /\ b.ended = Missing
      /\ StampsIn(E) # {} => /\ b.started \in StampsIn(E) /\ \A x \in StampsIn(E) : b.started <= x
                             /\ b.ended \in EndsIn(E) /\ \A x \in EndsIn(E) : x <= b.ended
  BY DEF Bears
<1>2. /\ StampsIn(E) \subseteq EndsIn(E) /\ EndsIn(E) \subseteq Nat
      /\ StampsIn(E) = {} => EndsIn(E) = {}
  BY StampsAre
<1>3. /\ e.time = Missing => time = Missing
      /\ e.time # Missing => time \in Nat /\ time # Missing
      /\ lasted \in Nat \cup {Missing}
  BY TimesAre
<1>4. /\ e.time = Missing => StampsIn(F) = StampsIn(E) /\ EndsIn(F) = EndsIn(E)
      /\ e.time # Missing => StampsIn(F) = StampsIn(E) \cup {time}
      /\ e.time # Missing /\ lasted = Missing => EndsIn(F) = EndsIn(E) \cup {time}
      /\ e.time # Missing /\ lasted # Missing => EndsIn(F) = EndsIn(E) \cup {time, time + lasted}
  BY StampsGrow
<1>5. CASE e.time = Missing
  <2>1. Gather(b, e) = Grown(b, e, b.started, b.ended)
    BY <1>5 DEF Gather
  <2>2. Grown(b, e, b.started, b.ended).ended = b.ended
    BY DEF Grown
  <2>3. Bears(Grown(b, e, b.started, b.ended), F)
    <3> HIDE DEF F
    <3>1. /\ StampsIn(F) = {} => b.started = Missing /\ b.ended = Missing
          /\ StampsIn(F) # {} => /\ b.started \in StampsIn(F) /\ \A x \in StampsIn(F) : b.started <= x
                                 /\ b.ended \in EndsIn(F) /\ \A x \in EndsIn(F) : x <= b.ended
      BY <1>1, <1>4, <1>5
    <3> QED
      BY <3>1, GrownBears DEF F
  <2> QED
    BY <1>5, <2>1, <2>2, <2>3
<1>6. CASE e.time # Missing
  <2> DEFINE end == IF lasted = Missing THEN time ELSE time + lasted
             started == Least(b.started, time)
             ended == Greatest(b.ended, end)
  <2>1. Gather(b, e) = Grown(b, e, started, ended)
    BY <1>6 DEF Gather
  <2>2. Grown(b, e, started, ended).ended = ended
    BY DEF Grown
  <2>3. end \in Nat /\ time <= end /\ time \in Nat /\ time \in StampsIn(F) /\ end \in EndsIn(F)
        /\ \A x \in EndsIn(F) : x \in EndsIn(E) \/ x <= end
    <3>1. CASE lasted = Missing
      BY <1>3, <1>4, <1>6, <3>1
    <3>2. CASE lasted # Missing
      <4>1. lasted \in Nat /\ time \in Nat
        BY <1>3, <1>6, <3>2
      <4>2. end = time + lasted /\ time <= end /\ end \in Nat
        BY <3>2, <4>1
      <4>3. StampsIn(F) = StampsIn(E) \cup {time} /\ EndsIn(F) = EndsIn(E) \cup {time, end}
        BY <1>4, <1>6, <3>2, <4>2
      <4> HIDE DEF F, end, time
      <4>4. \A x \in EndsIn(F) : x \in EndsIn(E) \/ x <= end
        <5> SUFFICES ASSUME NEW x \in EndsIn(F), x \notin EndsIn(E) PROVE x <= end
          OBVIOUS
        <5>1. x = time \/ x = end
          BY <4>3
        <5> QED
          BY <4>1, <4>2, <5>1
      <4> QED
        BY <4>1, <4>2, <4>3, <4>4
    <3> QED
      BY <3>1, <3>2
  <2> HIDE DEF end
  <2>4. /\ StampsIn(E) \subseteq StampsIn(F) /\ EndsIn(E) \subseteq EndsIn(F)
        /\ \A x \in StampsIn(F) : x \in StampsIn(E) \/ x = time
    BY <1>4, <1>6
  <2> HIDE DEF F, time
  <2>5. /\ started \in StampsIn(F) /\ \A x \in StampsIn(F) : started <= x
        /\ ended \in EndsIn(F) /\ \A x \in EndsIn(F) : x <= ended
        /\ ended \in Nat /\ time <= ended /\ (b.ended \in Nat => b.ended <= ended)
    <3>1. CASE StampsIn(E) = {}
      <4>1. b.started = Missing /\ b.ended = Missing
        BY <1>1, <3>1
      <4>2. started = time /\ ended = end
        BY <4>1 DEF Least, Greatest
      <4>3. EndsIn(E) = {} /\ b.ended \notin Nat
        BY <1>2, <3>1, <4>1, StatsAssumption
      <4> QED
        BY <2>3, <2>4, <3>1, <4>2, <4>3
    <3>2. CASE StampsIn(E) # {}
      <4>1. /\ b.started \in StampsIn(E) /\ \A x \in StampsIn(E) : b.started <= x
            /\ b.ended \in EndsIn(E) /\ \A x \in EndsIn(E) : x <= b.ended
            /\ b.started \in Nat /\ b.ended \in Nat /\ b.started # Missing /\ b.ended # Missing
        BY <1>1, <1>2, <3>2, StatsAssumption
      <4>2. started = (IF time < b.started THEN time ELSE b.started)
            /\ ended = (IF end > b.ended THEN end ELSE b.ended)
        BY <4>1 DEF Least, Greatest
      <4>3. started \in StampsIn(F) /\ ended \in EndsIn(F)
        BY <2>3, <2>4, <4>1, <4>2
      <4>4. \A x \in StampsIn(F) : started <= x
        <5> SUFFICES ASSUME NEW x \in StampsIn(F) PROVE started <= x
          OBVIOUS
        <5>1. CASE x \in StampsIn(E)
          <6>1. b.started <= x /\ x \in Nat
            BY <1>2, <4>1, <5>1
          <6> QED
            BY <2>3, <4>1, <4>2, <6>1
        <5>2. CASE x = time
          BY <2>3, <4>1, <4>2, <5>2
        <5> QED
          BY <2>4, <5>1, <5>2
      <4>5. \A x \in EndsIn(F) : x <= ended
        <5> SUFFICES ASSUME NEW x \in EndsIn(F) PROVE x <= ended
          OBVIOUS
        <5>0. x \in Nat
          <6>1. F \in SUBSET TraceRecords
            BY DEF F
          <6> QED
            BY <6>1, StampsAre
        <5>1. CASE x \in EndsIn(E)
          <6>1. x <= b.ended
            BY <4>1, <5>1
          <6> QED
            BY <2>3, <4>1, <4>2, <5>0, <6>1
        <5>2. CASE x <= end
          BY <2>3, <4>1, <4>2, <5>0, <5>2
        <5> QED
          BY <2>3, <5>1, <5>2
      <4>6. ended \in Nat /\ time <= ended /\ b.ended <= ended
        BY <2>3, <4>1, <4>2
      <4> QED
        BY <4>3, <4>4, <4>5, <4>6
    <3> QED
      BY <3>1, <3>2
  <2> HIDE DEF started, ended
  <2>6. Bears(Grown(b, e, started, ended), F)
    <3>1. StampsIn(F) # {}
      BY <2>3
    <3> QED
      BY <2>5, <3>1, GrownBears DEF F
  <2> QED
    BY <2>1, <2>2, <2>5, <2>6 DEF F, time
<1> QED
  BY <1>5, <1>6

\* The events of a trace are records of it.
LEMMA EventsAre ==
    ASSUME readLines \in Seq(TraceLines), NEW t
    PROVE  /\ EventsOf(t) \in SUBSET TraceRecords
           /\ \A e \in EventsOf(t) : ~Skips(e) /\ e.trace = t
<1>1. \A i \in DOMAIN readLines : readLines[i] \in TraceLines
  OBVIOUS
<1> QED
  BY <1>1 DEF EventsOf, Skips, TraceRecords

LEMMA LineKnown ==
    ASSUME NEW line \in TraceLines, ~Skips(line)
    PROVE  line \in TraceRecords /\ line.trace \in TraceIds
BY DEF Skips, TraceRecords, TraceIds

\* A line adds itself to the events of its trace.
LEMMA EventsGrow ==
    ASSUME readLines \in Seq(TraceLines), NEW line \in TraceLines, readLines' = Append(readLines, line),
           NEW t
    PROVE  EventsOf(t)' = EventsOf(t) \cup (IF ~Skips(line) /\ line.trace = t THEN {line} ELSE {})
<1> DEFINE n == Len(readLines)
           Of(e) == ~Skips(e) /\ e.trace = t
<1>1. /\ n \in Nat /\ DOMAIN readLines = 1 .. n /\ DOMAIN readLines' = 1 .. n + 1
      /\ \A i \in 1 .. n : readLines'[i] = readLines[i]
      /\ readLines'[n + 1] = line
  OBVIOUS
<1>2. EventsOf(t) = {readLines[i] : i \in {j \in 1 .. n : Of(readLines[j])}}
  BY <1>1 DEF EventsOf
<1>3. EventsOf(t)' = {readLines'[i] : i \in {j \in 1 .. n + 1 : Of(readLines'[j])}}
  BY <1>1 DEF EventsOf, Skips
<1> HIDE DEF Of
<1>4. {j \in 1 .. n + 1 : Of(readLines'[j])}
         = {j \in 1 .. n : Of(readLines[j])} \cup (IF Of(line) THEN {n + 1} ELSE {})
  <2> HIDE DEF n
  <2>1. 1 .. n + 1 = (1 .. n) \cup {n + 1}
    BY <1>1
  <2> QED
    BY <1>1, <2>1
<1> DEFINE J == {j \in 1 .. n : Of(readLines[j])}
<1>5. \A i \in J : readLines'[i] = readLines[i]
  BY <1>1
<1> HIDE DEF J, n
<1>6. EventsOf(t)' = {readLines[i] : i \in J} \cup (IF Of(line) THEN {line} ELSE {})
  BY <1>1, <1>3, <1>4, <1>5 DEF J
<1> QED
  BY <1>2, <1>6 DEF Of, J

\* The inductive invariant: buckets hold what the events of their traces tell, and what the
\* counters of the tools tell was told to a bucket too.
StatsInd ==
    /\ readLines \in Seq(TraceLines)
    /\ IsFiniteSet(DOMAIN traces)
    /\ DOMAIN traces = {t \in TraceIds : EventsOf(t) # {}}
    /\ \A t \in DOMAIN traces : Bears(traces[t], EventsOf(t))
    /\ tools.failed \in [ToolNames -> Nat]
    /\ tools.last \in [TraceIds -> Nat \cup {Missing}]
    /\ \A n \in ToolNames : tools.failed[n] > 0 => \E t \in DOMAIN traces : traces[t].failed
    /\ \A t \in TraceIds : tools.last[t] # Missing =>
          t \in DOMAIN traces /\ traces[t].ended \in Nat /\ tools.last[t] <= traces[t].ended

LEMMA StatsStarts == StatsInit => StatsInd
<1> SUFFICES ASSUME StatsInit PROVE StatsInd
  OBVIOUS
<1>1. readLines = <<>> /\ DOMAIN traces = {}
  BY DEF StatsInit
<1>2. \A t : EventsOf(t) = {}
  BY <1>1 DEF EventsOf
<1>3. readLines \in Seq(TraceLines)
  BY <1>1
<1>4. IsFiniteSet(DOMAIN traces)
  BY <1>1, FS_EmptySet
<1>5. /\ tools.failed = [n \in ToolNames |-> 0] /\ tools.last = [t \in TraceIds |-> Missing]
  BY DEF StatsInit
<1> QED
  BY <1>1, <1>2, <1>3, <1>4, <1>5 DEF StatsInd

\* What CountTool leaves of failures and of the last times.
LEMMA ToolsCounted ==
    ASSUME NEW e
    PROVE  LET counted == ~(e.tool = Missing \/ ~isToolEvent(e))
               time == pickTimestampMs(e)
               more == IF isFailedEvent(e) /\ e.type # "tool_start" THEN 1 ELSE 0
           IN  /\ CountTool(e).failed = IF counted THEN [tools.failed EXCEPT ![e.tool] = @ + more]
                                        ELSE tools.failed
               /\ CountTool(e).last = IF counted /\ time # Missing
                                         THEN [tools.last EXCEPT ![e.trace] = Greatest(@, time)]
                                         ELSE tools.last
<1> DEFINE time == pickTimestampMs(e)
           more == IF isFailedEvent(e) /\ e.type # "tool_start" THEN 1 ELSE 0
           began == [tools.used EXCEPT ![e.tool] = @ + (IF e.type \in {"tool_start", ""} THEN 1 ELSE 0)]
           fails == [tools.failed EXCEPT ![e.tool] = @ + more]
           lasts == IF time = Missing THEN tools.last
                    ELSE [tools.last EXCEPT ![e.trace] = Greatest(@, time)]
<1>1. CountTool(e) = IF e.tool = Missing \/ ~isToolEvent(e) THEN tools
                     ELSE [used |-> began, failed |-> fails, last |-> lasts]
  BY DEF CountTool
<1> HIDE DEF began, fails, lasts
<1>2. /\ CountTool(e).failed = IF e.tool = Missing \/ ~isToolEvent(e) THEN tools.failed ELSE fails
      /\ CountTool(e).last = IF e.tool = Missing \/ ~isToolEvent(e) THEN tools.last ELSE lasts
  BY <1>1
<1> QED
  BY <1>2 DEF fails, lasts

\* A line of a trace keeps the invariant.
LEMMA LineKeeps ==
    ASSUME StatsInd, NEW line \in TraceLines, readLines' = Append(readLines, line), ~Skips(line),
           traces' = [t \in DOMAIN traces \cup {line.trace} |->
                         IF t = line.trace THEN Gather(BucketOf(t), line) ELSE traces[t]],
           tools' = CountTool(line)
    PROVE  StatsInd'
<1> DEFINE o == line.trace
<1>1. line \in TraceRecords /\ o \in TraceIds
  BY LineKnown
<1>2. /\ readLines \in Seq(TraceLines) /\ IsFiniteSet(DOMAIN traces)
      /\ DOMAIN traces = {t \in TraceIds : EventsOf(t) # {}}
      /\ \A t \in DOMAIN traces : Bears(traces[t], EventsOf(t))
  BY DEF StatsInd
<1>3. /\ tools.failed \in [ToolNames -> Nat]
      /\ tools.last \in [TraceIds -> Nat \cup {Missing}]
      /\ \A n \in ToolNames : tools.failed[n] > 0 => \E t \in DOMAIN traces : traces[t].failed
      /\ \A t \in TraceIds : tools.last[t] # Missing =>
            t \in DOMAIN traces /\ traces[t].ended \in Nat /\ tools.last[t] <= traces[t].ended
  BY DEF StatsInd
<1>4. \A t : EventsOf(t)' = EventsOf(t) \cup (IF t = o THEN {line} ELSE {})
  BY <1>2, EventsGrow
<1>5. readLines' \in Seq(TraceLines)
  BY <1>2
<1>6. DOMAIN traces' = DOMAIN traces \cup {o} /\ IsFiniteSet(DOMAIN traces')
  <2>1. DOMAIN traces' = DOMAIN traces \cup {o}
    OBVIOUS
  <2>2. IsFiniteSet(DOMAIN traces \cup {o})
    BY <1>2, FS_AddElement
  <2> QED
    BY <2>1, <2>2
<1>7. DOMAIN traces' = {t \in TraceIds : EventsOf(t)' # {}}
  BY <1>1, <1>2, <1>4, <1>6
<1>8. traces'[o] = Gather(BucketOf(o), line) /\ \A t \in DOMAIN traces : t # o => traces'[t] = traces[t]
  OBVIOUS
<1>9. Bears(BucketOf(o), EventsOf(o)) /\ EventsOf(o) \in SUBSET TraceRecords
  <2>1. CASE o \in DOMAIN traces
    BY <1>2, <2>1, EventsAre DEF BucketOf
  <2>2. CASE o \notin DOMAIN traces
    <3>1. EventsOf(o) = {} /\ BucketOf(o) = NoTrace
      BY <1>1, <1>2, <2>2 DEF BucketOf
    <3> QED
      BY <3>1, NoTraceBears
  <2> QED
    BY <2>1, <2>2
<1>10. /\ Bears(traces'[o], EventsOf(o)')
       /\ BucketOf(o).ended \in Nat => traces'[o].ended \in Nat /\ BucketOf(o).ended <= traces'[o].ended
       /\ line.time # Missing => traces'[o].ended \in Nat /\ pickTimestampMs(line) <= traces'[o].ended
  <2> DEFINE b == BucketOf(o)
             E == EventsOf(o)
  <2>1. EventsOf(o)' = E \cup {line}
    BY <1>4
  <2>2. Bears(b, E) /\ E \in SUBSET TraceRecords
    BY <1>9
  <2> HIDE DEF b, E
  <2>3. /\ Bears(Gather(b, line), E \cup {line})
        /\ b.ended \in Nat => Gather(b, line).ended \in Nat /\ b.ended <= Gather(b, line).ended
        /\ line.time # Missing => /\ Gather(b, line).ended \in Nat
                                  /\ pickTimestampMs(line) <= Gather(b, line).ended
    BY <1>1, <2>2, GatherBears
  <2> QED
    BY <1>8, <2>1, <2>3 DEF b
<1>11. \A t \in DOMAIN traces' : Bears(traces'[t], EventsOf(t)')
  <2> SUFFICES ASSUME NEW t \in DOMAIN traces' PROVE Bears(traces'[t], EventsOf(t)')
    OBVIOUS
  <2>1. CASE t = o
    BY <1>10, <2>1
  <2>2. CASE t # o
    <3>1. traces'[t] = traces[t] /\ EventsOf(t)' = EventsOf(t) /\ t \in DOMAIN traces
      BY <1>4, <1>6, <1>8, <2>2
    <3> QED
      BY <1>2, <3>1
  <2> QED
    BY <2>1, <2>2
<1>12. \A t \in DOMAIN traces : traces[t].failed => t \in DOMAIN traces' /\ traces'[t].failed
  <2> SUFFICES ASSUME NEW t \in DOMAIN traces, traces[t].failed PROVE t \in DOMAIN traces' /\ traces'[t].failed
    OBVIOUS
  <2>1. \E e \in EventsOf(t) : isFailedEvent(e)
    BY <1>2 DEF Bears
  <2>2. \E e \in EventsOf(t)' : isFailedEvent(e)
    BY <1>4, <2>1
  <2> QED
    BY <1>6, <1>11, <2>2 DEF Bears
<1>13. isFailedEvent(line) => o \in DOMAIN traces' /\ traces'[o].failed
  <2>1. line \in EventsOf(o)'
    BY <1>4
  <2> QED
    BY <1>6, <1>10, <2>1 DEF Bears
<1>14. /\ tools'.failed \in [ToolNames -> Nat]
       /\ \A n \in ToolNames : tools'.failed[n] > 0 => tools.failed[n] > 0 \/ isFailedEvent(line)
  <2>1. CASE line.tool = Missing \/ ~isToolEvent(line)
    BY <1>3, <2>1, ToolsCounted
  <2>2. CASE ~(line.tool = Missing \/ ~isToolEvent(line))
    <3>1. line.tool \in ToolNames
      BY <1>1, <2>2 DEF ToolNames
    <3>2. tools'.failed = [tools.failed EXCEPT ![line.tool] =
                             @ + (IF isFailedEvent(line) /\ line.type # "tool_start" THEN 1 ELSE 0)]
      BY <2>2, ToolsCounted
    <3> DEFINE f == tools.failed
    <3>3. f \in [ToolNames -> Nat]
      BY <1>3
    <3> HIDE DEF f
    <3> QED
      BY <3>1, <3>2, <3>3 DEF f
  <2> QED
    BY <2>1, <2>2
<1>15. \A n \in ToolNames : tools'.failed[n] > 0 => \E t \in DOMAIN traces' : traces'[t].failed
  BY <1>3, <1>12, <1>13, <1>14
<1>16. /\ tools'.last \in [TraceIds -> Nat \cup {Missing}]
       /\ \A t \in TraceIds : tools'.last[t] = tools.last[t]
                              \/ (t = o /\ line.time # Missing /\ tools'.last[t] = pickTimestampMs(line))
  <2> DEFINE time == pickTimestampMs(line)
             l == tools.last
  <2>0. /\ line.time = Missing => time = Missing
        /\ line.time # Missing => time \in Nat /\ time # Missing
    BY <1>1, TimesAre
  <2>1. CASE line.tool = Missing \/ ~isToolEvent(line) \/ time = Missing
    <3>1. tools'.last = tools.last
      BY <2>1, ToolsCounted
    <3> QED
      BY <1>3, <3>1
  <2>2. CASE ~(line.tool = Missing \/ ~isToolEvent(line) \/ time = Missing)
    <3>1. tools'.last = [l EXCEPT ![o] = Greatest(@, time)]
      BY <2>2, ToolsCounted
    <3>2. l \in [TraceIds -> Nat \cup {Missing}] /\ time \in Nat /\ line.time # Missing
      BY <1>3, <2>0, <2>2
    <3> HIDE DEF l, time
    <3>3. Greatest(l[o], time) \in {l[o], time}
      BY DEF Greatest
    <3> DEFINE new == Greatest(l[o], time)
    <3>4. new \in {l[o], time} /\ tools'.last = [l EXCEPT ![o] = new]
      BY <3>1, <3>3
    <3> HIDE DEF new
    <3>5. tools'.last \in [TraceIds -> Nat \cup {Missing}]
      BY <1>1, <3>2, <3>4
    <3>6. \A t \in TraceIds : tools'.last[t] = IF t = o THEN new ELSE l[t]
      BY <3>2, <3>4
    <3> QED
      BY <3>2, <3>4, <3>5, <3>6 DEF l, time
  <2> QED
    BY <2>1, <2>2
<1>17. \A t \in TraceIds : tools'.last[t] # Missing =>
          t \in DOMAIN traces' /\ traces'[t].ended \in Nat /\ tools'.last[t] <= traces'[t].ended
  <2> SUFFICES ASSUME NEW t \in TraceIds, tools'.last[t] # Missing
               PROVE  t \in DOMAIN traces' /\ traces'[t].ended \in Nat /\ tools'.last[t] <= traces'[t].ended
    OBVIOUS
  <2>1. CASE t = o /\ line.time # Missing /\ tools'.last[t] = pickTimestampMs(line)
    BY <1>6, <1>10, <2>1
  <2>2. CASE t = o /\ tools'.last[t] = tools.last[t]
    <3>1. /\ o \in DOMAIN traces /\ BucketOf(o) = traces[o] /\ traces[o].ended \in Nat
          /\ tools.last[o] <= traces[o].ended
      BY <1>3, <2>2 DEF BucketOf
    <3>2. traces'[o].ended \in Nat /\ traces[o].ended <= traces'[o].ended
      BY <1>10, <3>1
    <3> DEFINE x == tools.last[o]
               y == traces[o].ended
               z == traces'[o].ended
    <3>3. x \in Nat
      BY <1>3, <2>2
    <3>4. x <= y /\ y <= z /\ y \in Nat /\ z \in Nat
      BY <3>1, <3>2
    <3> HIDE DEF x, y, z
    <3>5. x <= z
      BY <3>3, <3>4
    <3> QED
      BY <1>6, <2>2, <3>2, <3>5 DEF x, z
  <2>3. CASE t # o
    <3>1. tools'.last[t] = tools.last[t]
      BY <1>16, <2>3
    <3>2. t \in DOMAIN traces /\ traces[t].ended \in Nat /\ tools.last[t] <= traces[t].ended
      BY <1>3, <3>1
    <3>3. traces'[t] = traces[t]
      BY <1>8, <2>3, <3>2
    <3> QED
      BY <1>6, <3>1, <3>2, <3>3
  <2> QED
    BY <1>16, <2>1, <2>2, <2>3
<1> QED
  BY <1>5, <1>6, <1>7, <1>11, <1>14, <1>15, <1>16, <1>17 DEF StatsInd

LEMMA StatsStep == StatsInd /\ [StatsNext]_statsVars => StatsInd'
<1> SUFFICES ASSUME StatsInd, [StatsNext]_statsVars PROVE StatsInd'
  OBVIOUS
<1>1. CASE UNCHANGED statsVars
  <2>1. /\ readLines' = readLines /\ traces' = traces /\ tools' = tools
        /\ \A t : EventsOf(t)' = EventsOf(t)
    BY <1>1 DEF statsVars, EventsOf, Skips
  <2> QED
    BY <2>1 DEF StatsInd
<1>2. ASSUME NEW line \in TraceLines, readLines' = Append(readLines, line), Skips(line),
             UNCHANGED <<traces, tools>>
      PROVE  StatsInd'
  <2>1. readLines \in Seq(TraceLines) /\ readLines' \in Seq(TraceLines)
    BY <1>2 DEF StatsInd
  <2>2. \A t : EventsOf(t)' = EventsOf(t)
    BY <1>2, <2>1, EventsGrow
  <2> QED
    BY <1>2, <2>1, <2>2 DEF StatsInd
<1>3. ASSUME NEW line \in TraceLines, readLines' = Append(readLines, line), ~Skips(line),
             traces' = [t \in DOMAIN traces \cup {line.trace} |->
                           IF t = line.trace THEN Gather(BucketOf(t), line) ELSE traces[t]],
             tools' = CountTool(line)
      PROVE  StatsInd'
  BY <1>3, LineKeeps
<1>4. CASE StatsNext
  BY <1>2, <1>3, <1>4 DEF StatsNext, ReadLine
<1> QED
  BY <1>1, <1>4

\* What is an upper bound of a set and in it is its greatest element.
LEMMA GreatestIs ==
    ASSUME NEW S, NEW m \in S, S \subseteq Int, \A x \in S : x <= m
    PROVE  Max(S) = m
<1>1. \A x \in S : m >= x
  OBVIOUS
<1>2. \A n \in S : (\A x \in S : n >= x) => n = m
  <2> SUFFICES ASSUME NEW n \in S, \A x \in S : n >= x PROVE n = m
    OBVIOUS
  <2>1. n >= m /\ m >= n /\ n \in Int /\ m \in Int
    BY <1>1
  <2> QED
    BY <2>1
<1> QED
  BY <1>1, <1>2 DEF Max

\* What the statistics need of the buckets.
TracesBear ==
    /\ IsFiniteSet(DOMAIN traces)
    /\ \A t \in DOMAIN traces :
          /\ {traces[t].failed, traces[t].overflow} \subseteq BOOLEAN
          /\ traces[t].started \in Nat => traces[t].ended \in Nat /\ traces[t].started <= traces[t].ended
          /\ traces[t].started \in Nat \cup {Missing}
          /\ traces[t].fallback \in Nat \cup {Missing}
          /\ traces[t].overflow => "context_overflow" \in traces[t].categories
    /\ Missing \notin Int

\* What DashboardAddsUp says of how long a trace lasted.
DurationFits(t) ==
    /\ \A s, n \in TimesOf(t) : duration(traces[t]) >= s - n
    /\ \A e \in EventsOf(t), n \in TimesOf(t) : Missing \notin {e.time, e.lasted} =>
          duration(traces[t]) >= pickTimestampMs(e) + e.lasted - n
    /\ TimesOf(t) # {} =>
          \E s, n \in TimesOf(t), d \in LastsOf(t) \cup {0} : duration(traces[t]) <= s - n + d

\* The buckets are those of the events: started, ended and failed as these say.
LEMMA BucketsAre ==
    ASSUME StatsInd
    PROVE  /\ TracesBear
           /\ \A t \in DOMAIN traces :
                /\ traces[t].failed = \E e \in EventsOf(t) : isFailedEvent(e)
                /\ DurationFits(t)
                /\ traces[t].categories # {} => traces[t].failed \/ traces[t].overflow
<1>1. ASSUME NEW t \in DOMAIN traces
      PROVE  /\ traces[t].failed = \E e \in EventsOf(t) : isFailedEvent(e)
             /\ DurationFits(t)
             /\ traces[t].categories # {} => traces[t].failed \/ traces[t].overflow
             /\ {traces[t].failed, traces[t].overflow} \subseteq BOOLEAN
             /\ traces[t].started \in Nat => traces[t].ended \in Nat /\ traces[t].started <= traces[t].ended
             /\ traces[t].started \in Nat \cup {Missing}
             /\ traces[t].fallback \in Nat \cup {Missing}
             /\ traces[t].overflow => "context_overflow" \in traces[t].categories
  <2> DEFINE b == traces[t]
             E == EventsOf(t)
             T == StampsIn(E)
             S == EndsIn(E)
  <2>1. Bears(b, E) /\ E \in SUBSET TraceRecords
    BY EventsAre DEF StatsInd
  <2>2. /\ b.failed <=> \E e \in E : isFailedEvent(e)
        /\ b.overflow => "context_overflow" \in b.categories
        /\ b.categories # {} => b.failed \/ b.overflow
        /\ {b.failed, b.overflow} \subseteq BOOLEAN
        /\ b.fallback \in Nat \cup {Missing}
    BY <2>1 DEF Bears
  <2>3. /\ T = {} => b.started = Missing /\ b.ended = Missing
        /\ T # {} => /\ b.started \in T /\ \A x \in T : b.started <= x
                     /\ b.ended \in S /\ \A x \in S : x <= b.ended
    BY <2>1 DEF Bears
  <2>4. TimesOf(t) = T
    BY DEF TimesOf, StampsIn
  <2>5. T \subseteq S /\ S \subseteq Nat
    BY <2>1, StampsAre
  <2>6. b.failed = \E e \in E : isFailedEvent(e)
    BY <2>2
  <2> HIDE DEF b, E, T, S
  <2>7. CASE T = {}
    <3>1. b.started = Missing /\ b.started \notin Nat
      BY <2>3, <2>7, StatsAssumption
    <3>2. DurationFits(t)
      BY <2>4, <2>7 DEF DurationFits
    <3> QED
      BY <2>2, <2>6, <3>1, <3>2 DEF b, E
  <2>8. CASE T # {}
    <3>1. /\ b.started \in T /\ b.ended \in S /\ b.started \in Nat /\ b.ended \in Nat
          /\ b.started <= b.ended /\ b.started # Missing
      <4>1. b.started \in T /\ b.ended \in S /\ b.started \in S /\ b.started \in Nat /\ b.ended \in Nat
        BY <2>3, <2>5, <2>8
      <4>2. b.started <= b.ended
        BY <2>3, <2>8, <4>1
      <4> QED
        BY <4>1, <4>2, StatsAssumption
    <3>2. duration(b) = b.ended - b.started /\ T \subseteq Nat
      BY <2>5, <3>1 DEF duration
    <3>3. /\ \A n \in T : b.started <= n
          /\ \A x \in S : x <= b.ended
      BY <2>3, <2>8
    <3>4. DurationFits(t)
      <4>1. \A s, n \in T : duration(b) >= s - n
        <5>1. \A s, n \in T : s <= b.ended /\ b.started <= n /\ s \in Nat /\ n \in Nat
          BY <2>5, <3>2, <3>3
        <5> QED
          BY <3>1, <3>2, <5>1
      <4>2. \A e \in E, n \in T : Missing \notin {e.time, e.lasted} =>
               duration(b) >= pickTimestampMs(e) + e.lasted - n
        <5> SUFFICES ASSUME NEW e \in E, NEW n \in T, Missing \notin {e.time, e.lasted}
                     PROVE  duration(b) >= pickTimestampMs(e) + e.lasted - n
          OBVIOUS
        <5>1. pickDurationMs(e) = e.lasted
          BY DEF pickDurationMs
        <5>2. pickTimestampMs(e) + pickDurationMs(e) \in S
          BY <5>1 DEF S, EndsIn
        <5>3. pickTimestampMs(e) \in Nat /\ e.lasted \in Nat
          BY <2>1, <5>1, TimesAre
        <5>4. pickTimestampMs(e) + e.lasted <= b.ended /\ b.started <= n /\ n \in Nat
          BY <3>2, <3>3, <5>1, <5>2
        <5> QED
          BY <3>1, <3>2, <5>3, <5>4
      <4>3. \E s, n \in T, d \in LastsOf(t) \cup {0} : duration(b) <= s - n + d
        <5>1. CASE b.ended \in T
          <6>1. duration(b) <= b.ended - b.started + 0
            BY <3>1, <3>2
          <6> QED
            BY <3>1, <5>1, <6>1
        <5>2. CASE b.ended \notin T
          <6>1. PICK e \in E : /\ Missing \notin {e.time, pickDurationMs(e)}
                               /\ b.ended = pickTimestampMs(e) + pickDurationMs(e)
            BY <3>1, <5>2 DEF S, T, EndsIn
          <6>2. /\ pickTimestampMs(e) \in Nat /\ pickTimestampMs(e) # Missing
                /\ pickDurationMs(e) \in Nat
            BY <2>1, <6>1, TimesAre
          <6>3. pickTimestampMs(e) \in T
            BY <6>2 DEF T, StampsIn
          <6>4. pickDurationMs(e) \in LastsOf(t)
            BY <6>1 DEF LastsOf, E
          <6>5. duration(b) <= pickTimestampMs(e) - b.started + pickDurationMs(e)
            BY <3>1, <3>2, <6>1, <6>2
          <6> QED
            BY <3>1, <6>3, <6>4, <6>5
        <5> QED
          BY <5>1, <5>2
      <4> QED
        BY <2>4, <4>1, <4>2, <4>3 DEF DurationFits, b, E
    <3> QED
      BY <2>2, <2>6, <3>1, <3>4 DEF b, E
  <2> QED
    BY <2>7, <2>8
<1>2. IsFiniteSet(DOMAIN traces) /\ Missing \notin Int
  BY StatsAssumption DEF StatsInd
<1>3. TracesBear
  BY <1>1, <1>2 DEF TracesBear
<1> QED
  BY <1>1, <1>3

\* A failed request, an overflow and the time of the file: what is counted is there.
LEMMA CountsAre ==
    ASSUME StatsInd
    PROVE  /\ \A n \in ToolNames : tools.failed[n] > 0 => failedRequests > 0
           /\ {t \in DOMAIN traces : traces[t].overflow} # {} =>
                 errorCategories["context_overflow"]
                    >= Cardinality({t \in DOMAIN traces : traces[t].overflow})
           /\ counters.processed > 0 /\ DOMAIN traces = {} => parityStatus = "warning"
<1>0. /\ IsFiniteSet(DOMAIN traces)
      /\ \A t \in DOMAIN traces : traces[t].overflow => "context_overflow" \in traces[t].categories
  BY BucketsAre DEF TracesBear
<1>1. ASSUME NEW n \in ToolNames, tools.failed[n] > 0 PROVE failedRequests > 0
  <2> DEFINE F == {t \in DOMAIN traces : traces[t].failed}
  <2>1. F # {}
    BY <1>1 DEF StatsInd
  <2>2. IsFiniteSet(F)
    BY <1>0, FS_Subset
  <2> HIDE DEF F
  <2>3. Cardinality(F) # 0 /\ Cardinality(F) \in Nat
    BY <2>1, <2>2, FS_EmptySet, FS_CardinalityType
  <2>4. Cardinality(F) > 0
    BY <2>3
  <2> QED
    BY <2>4 DEF failedRequests, F
<1>2. ASSUME {t \in DOMAIN traces : traces[t].overflow} # {}
      PROVE  errorCategories["context_overflow"]
                >= Cardinality({t \in DOMAIN traces : traces[t].overflow})
  <2> DEFINE c == "context_overflow"
             O == {t \in DOMAIN traces : traces[t].overflow}
             C == {t \in DOMAIN traces : c \in traces[t].categories}
  <2>1. O \in SUBSET C /\ C \in SUBSET DOMAIN traces
    BY <1>0
  <2>2. c \in Categories
    BY <1>0, <1>2 DEF Categories
  <2>3. errorCategories[c] = Cardinality(C)
    BY <2>2 DEF errorCategories
  <2> HIDE DEF O, C
  <2>4. IsFiniteSet(C)
    BY <1>0, <2>1, FS_Subset
  <2>5. Cardinality(O) <= Cardinality(C) /\ Cardinality(O) \in Nat /\ Cardinality(C) \in Nat
    BY <2>1, <2>4, FS_Subset, FS_CardinalityType
  <2>6. Cardinality(C) >= Cardinality(O)
    BY <2>5
  <2> QED
    BY <2>3, <2>6 DEF O
<1>3. ASSUME counters.processed > 0, DOMAIN traces = {} PROVE parityStatus = "warning"
  <2>1. Cardinality({}) = 0
    BY FS_EmptySet
  <2> QED
    BY <1>3, <2>1 DEF parityStatus, requests
<1> QED
  BY <1>1, <1>2, <1>3

\* Whoever called a tool in the window was there in the window.
LEMMA ParityHolds ==
    ASSUME StatsInd, Stamps # {}
    PROVE  recentToolEvents <= recentRuns
<1> DEFINE J == {j \in DOMAIN readLines : ~Skips(readLines[j]) /\ pickTimestampMs(readLines[j]) # Missing}
           f == [j \in J |-> pickTimestampMs(readLines[j])]
<1>1. readLines \in Seq(TraceLines) /\ \A i \in DOMAIN readLines : readLines[i] \in TraceLines
  BY DEF StatsInd
<1>2. \A j \in J : f[j] \in Nat
  <2> SUFFICES ASSUME NEW j \in J PROVE f[j] \in Nat
    OBVIOUS
  <2>1. readLines[j] \in TraceRecords
    BY <1>1 DEF Skips, TraceRecords
  <2> QED
    BY <2>1, TimesAre
<1>3. IsFiniteSet(J)
  <2>1. DOMAIN readLines = 1 .. Len(readLines) /\ Len(readLines) \in Nat
    BY <1>1
  <2>2. IsFiniteSet(1 .. Len(readLines))
    BY <2>1, FS_Interval
  <2>3. J \in SUBSET (1 .. Len(readLines))
    BY <2>1
  <2> QED
    BY <2>2, <2>3, FS_Subset
<1>4. Stamps = {f[j] : j \in J}
  BY DEF Stamps
<1> HIDE DEF f, J
<1>5. J # {} /\ \A j \in J : f[j] \in Int
  BY <1>2, <1>4
<1>6. PICK j \in J : \A i \in J : f[i] <= f[j]
  BY <1>3, <1>5, HasGreatest
<1>7. Max(Stamps) = f[j]
  <2>1. Stamps \subseteq Int /\ f[j] \in Stamps /\ \A x \in Stamps : x <= f[j]
    BY <1>4, <1>5, <1>6
  <2> QED
    BY <2>1, GreatestIs
<1>8. threshold \in Int
  <2>1. Window \in Nat /\ f[j] \in Int
    BY <1>5, StatsAssumption
  <2> QED
    BY <1>7, <2>1 DEF threshold
<1> DEFINE W == threshold
           R == {t \in DOMAIN traces : traces[t].ended # Missing /\ traces[t].ended >= W}
           C == {t \in TraceIds : tools.last[t] # Missing /\ tools.last[t] >= W}
<1> HIDE DEF W
<1>9. C \in SUBSET R
  <2> SUFFICES ASSUME NEW t \in C PROVE t \in R
    OBVIOUS
  <2>1. /\ t \in TraceIds /\ tools.last[t] # Missing /\ tools.last[t] >= W
        /\ tools.last[t] \in Nat \cup {Missing}
    BY DEF StatsInd
  <2>2. t \in DOMAIN traces /\ traces[t].ended \in Nat /\ tools.last[t] <= traces[t].ended
    BY <2>1 DEF StatsInd
  <2> DEFINE x == tools.last[t]
             y == traces[t].ended
  <2>3. x \in Nat /\ y \in Nat /\ x <= y /\ x >= W /\ W \in Int
    BY <1>8, <2>1, <2>2 DEF W
  <2>4. y # Missing
    BY <2>2, StatsAssumption
  <2> HIDE DEF x, y
  <2>5. y >= W
    BY <2>3
  <2> QED
    BY <2>2, <2>4, <2>5 DEF y
<1>10. IsFiniteSet(R)
  <2>1. R \in SUBSET DOMAIN traces /\ IsFiniteSet(DOMAIN traces)
    BY DEF StatsInd
  <2> QED
    BY <2>1, FS_Subset
<1>11. recentRuns = Cardinality(R) /\ recentToolEvents = Cardinality(C)
  BY DEF recentRuns, recentToolEvents, W
<1> HIDE DEF R, C
<1> QED
  BY <1>9, <1>10, <1>11, FS_Subset

----------------------------------------------------------------------------
\* The percentiles are durations in order, and half of all are not above the 50th.
LEMMA PercentilesHold ==
    ASSUME TracesBear, durations # <<>>
    PROVE  /\ percentile(durations, 50) <= percentile(durations, 95)
           /\ Cardinality({i \in DOMAIN durations : durations[i] <= percentile(durations, 50)})
                 * 2 >= Len(durations)
<1> DEFINE S == {t \in DOMAIN traces : duration(traces[t]) # Missing}
           times == [t \in S |-> duration(traces[t])]
           order == Ranked(S, times)
           k == Cardinality(S)
           d == [i \in 1 .. k |-> times[order[i]]]
           at(p) == IF Ceil(p * k, 100) = 0 THEN 1 ELSE Ceil(p * k, 100)
<1>1. durations = d
  BY DEF durations
<1>2. IsFiniteSet(S) /\ k \in Nat
  <2>1. S \in SUBSET DOMAIN traces /\ IsFiniteSet(DOMAIN traces)
    BY DEF TracesBear
  <2>2. IsFiniteSet(S)
    BY <2>1, FS_Subset
  <2> QED
    BY <2>2, FS_CardinalityType
<1>3. \A t \in S : times[t] \in Int
  <2> SUFFICES ASSUME NEW t \in S PROVE duration(traces[t]) \in Int
    OBVIOUS
  <2> DEFINE b == traces[t]
  <2>1. /\ b.started \in Nat \cup {Missing} /\ b.fallback \in Nat \cup {Missing}
        /\ b.started \in Nat => b.ended \in Nat
        /\ duration(b) # Missing
    BY DEF TracesBear
  <2> HIDE DEF b
  <2>2. duration(b) \in Int
    BY <2>1 DEF duration
  <2> QED
    BY <2>2 DEF b
<1> HIDE DEF S, times, order
<1>4. IsRanking(order, S, times)
  BY <1>2, <1>3, RankedIs DEF order
<1>5. /\ order \in [1 .. k -> S]
      /\ \A i, j \in 1 .. k : i < j => times[order[i]] <= times[order[j]]
  BY <1>4 DEF IsRanking
<1> HIDE DEF k
<1>6. d \in [1 .. k -> Int] /\ \A i, j \in 1 .. k : i < j => d[i] <= d[j]
  <2>1. \A i \in 1 .. k : d[i] = times[order[i]] /\ order[i] \in S
    BY <1>5
  <2>2. \A i \in 1 .. k : times[order[i]] \in Int
    BY <1>3, <2>1
  <2> QED
    BY <1>5, <2>1, <2>2
<1> HIDE DEF d
<1>7. \A i, j \in 1 .. k : i <= j => d[i] <= d[j]
  <2> SUFFICES ASSUME NEW i \in 1 .. k, NEW j \in 1 .. k, i <= j PROVE d[i] <= d[j]
    OBVIOUS
  <2>1. CASE i = j
    <3>1. d[i] \in Int
      BY <1>6
    <3> QED
      BY <2>1, <3>1
  <2>2. CASE i < j
    BY <1>6, <2>2
  <2> QED
    BY <1>2, <2>1, <2>2
<1>8. d \in Seq(Int) /\ Len(d) = k /\ DOMAIN d = 1 .. k /\ k > 0
  <2>1. d \in Seq(Int) /\ Len(d) = k /\ DOMAIN d = 1 .. k
    BY <1>2, <1>6
  <2>2. d # <<>>
    BY <1>1
  <2>3. k # 0
    BY <2>1, <2>2
  <2> QED
    BY <1>2, <2>1, <2>3
<1>9. /\ at(50) \in 1 .. k /\ at(95) \in 1 .. k /\ at(50) <= at(95) /\ at(50) * 2 >= k
  BY <1>2, <1>8 DEF Ceil
<1>10. \A p : percentile(d, p) = d[at(p)]
  BY <1>1, <1>8 DEF percentile
<1> DEFINE h == at(50)
           n == at(95)
           half == {i \in 1 .. k : d[i] <= d[h]}
<1>11. percentile(d, 50) = d[h] /\ percentile(d, 95) = d[n]
  BY <1>10
<1>12. h \in 1 .. k /\ n \in 1 .. k /\ h <= n /\ h * 2 >= k
  BY <1>9
<1> HIDE DEF h, n, at
<1>13. (1 .. h) \in SUBSET half
  <2> SUFFICES ASSUME NEW i \in 1 .. h PROVE i \in half
    OBVIOUS
  <2>1. i \in 1 .. k /\ i <= h
    BY <1>2, <1>12
  <2> QED
    BY <1>7, <1>12, <2>1
<1>14. IsFiniteSet(half) /\ Cardinality(1 .. h) = h
  <2>1. half \in SUBSET (1 .. k)
    OBVIOUS
  <2>2. h \in Int /\ h >= 1
    BY <1>2, <1>12
  <2>3. IsFiniteSet(1 .. k) /\ Cardinality(1 .. h) = IF 1 > h THEN 0 ELSE h - 1 + 1
    BY <1>2, <2>2, FS_Interval
  <2>4. (IF 1 > h THEN 0 ELSE h - 1 + 1) = h
    BY <2>2
  <2> QED
    BY <2>1, <2>3, <2>4, FS_Subset
<1> HIDE DEF half
<1>15. h <= Cardinality(half) /\ Cardinality(half) \in Nat
  BY <1>13, <1>14, FS_Subset, FS_CardinalityType
<1>16. Cardinality(half) * 2 >= k
  BY <1>2, <1>12, <1>15
<1>17. d[h] <= d[n]
  BY <1>7, <1>12
<1>18. {i \in DOMAIN d : d[i] <= percentile(d, 50)} = half
  BY <1>8, <1>11 DEF half
<1> QED
  BY <1>1, <1>8, <1>11, <1>16, <1>17, <1>18

\* The time of a trace that has one falls into one of the buckets.
LEMMA IndexFits ==
    ASSUME TracesBear, Cardinality(Timed) >= 3
    PROVE  /\ IsFiniteSet(Timed) /\ bucketCount \in Nat /\ bucketCount > 0
           /\ \A t \in Timed : BucketIndex(t) \in 0 .. bucketCount - 1
<1> DEFINE f == [t \in Timed |-> traces[t].ended]
           B == {traces[t].started : t \in Timed}
           n == Cardinality(Timed)
<1>1. \A t \in Timed : traces[t].started \in Nat /\ traces[t].ended \in Nat
                       /\ traces[t].started <= traces[t].ended
  BY DEF TracesBear, Timed
<1>2. IsFiniteSet(Timed) /\ n \in Nat
  <2>1. Timed \in SUBSET DOMAIN traces /\ IsFiniteSet(DOMAIN traces)
    BY DEF Timed, TracesBear
  <2>2. IsFiniteSet(Timed)
    BY <2>1, FS_Subset
  <2> QED
    BY <2>2, FS_CardinalityType
<1>3. Timed # {}
  <2>1. Cardinality({}) = 0
    BY FS_EmptySet
  <2> QED
    BY <2>1
<1>4. trendStart \in B /\ \A t \in Timed : trendStart <= traces[t].started
  <2>1. B \in SUBSET Nat /\ B # {}
    BY <1>1, <1>3
  <2>2. \E m \in B : \A k \in B : m <= k
    BY <2>1, HasMin
  <2>3. \E m \in B : \A t \in Timed : m <= traces[t].started
    BY <2>2
  <2> QED
    BY <2>3 DEF trendStart
<1>5. trendEnd \in {traces[t].ended : t \in Timed} /\ \A t \in Timed : trendEnd >= traces[t].ended
  <2>1. \A t \in Timed : f[t] \in Int
    BY <1>1
  <2> HIDE DEF f
  <2>2. PICK m \in Timed : \A t \in Timed : f[t] <= f[m]
    BY <1>2, <1>3, <2>1, HasGreatest
  <2>3. \A t \in Timed : traces[m].ended >= traces[t].ended
    <3> SUFFICES ASSUME NEW t \in Timed PROVE traces[m].ended >= traces[t].ended
      OBVIOUS
    <3> DEFINE x == traces[m].ended
               y == traces[t].ended
    <3>1. y <= x /\ x \in Nat /\ y \in Nat
      BY <1>1, <2>2 DEF f
    <3> HIDE DEF x, y
    <3>2. x >= y
      BY <3>1
    <3> QED
      BY <3>2 DEF x, y
  <2>4. \E m1 \in {traces[t].ended : t \in Timed} : \A t \in Timed : m1 >= traces[t].ended
    BY <2>3
  <2> QED
    BY <2>4 DEF trendEnd
<1> DEFINE s == trendStart
           e == trendEnd
           r == trendRange
           c == bucketCount
<1>6. s \in Nat /\ e \in Nat
  BY <1>1, <1>4, <1>5
<1>7. r = e - s
  BY DEF trendRange
<1>8. c \in Nat /\ c > 0
  BY <1>2, StatsAssumption DEF bucketCount
<1> HIDE DEF s, e, r, c
<1>9. ASSUME NEW t \in Timed PROVE BucketIndex(t) \in 0 .. c - 1
  <2> DEFINE x == traces[t].started
             y == traces[t].ended
             i == IF r = 0 THEN 0 ELSE ((x - s) * c) \div r
  <2>1. x \in Nat /\ y \in Nat /\ x <= y /\ s <= x /\ y <= e
    <3>1. s <= x
      BY <1>4 DEF s
    <3>2. e >= y
      BY <1>5 DEF e
    <3>3. x \in Nat /\ y \in Nat /\ x <= y
      BY <1>1
    <3> HIDE DEF x, y
    <3> QED
      BY <1>6, <3>1, <3>2, <3>3
  <2>2. BucketIndex(t) = IF i < c THEN i ELSE c - 1
    BY DEF BucketIndex, r, c, s
  <2> HIDE DEF x, y
  <2>3. i \in Nat
    <3>1. r \in Nat /\ x - s \in Nat
      BY <1>6, <1>7, <2>1
    <3> DEFINE a == (x - s) * c
    <3>2. a \in Nat
      BY <1>8, <3>1
    <3> HIDE DEF a
    <3>3. r # 0 => a \div r \in Nat
      BY <3>1, <3>2
    <3> QED
      BY <3>3 DEF a
  <2> HIDE DEF i
  <2> QED
    BY <1>8, <2>2, <2>3
<1> QED
  BY <1>2, <1>8, <1>9 DEF c

\* The buckets of the trend are parts of the requests that have a time, by their index.
LEMMA TrendHolds ==
    ASSUME TracesBear, Cardinality(Timed) >= 3
    PROVE  /\ SumOver([b \in trendBuckets |-> b.requests], trendBuckets) = Cardinality(Timed)
           /\ SumOver([b \in trendBuckets |-> b.failures], trendBuckets)
                 = Cardinality({t \in Timed : traces[t].failed})
<1> DEFINE In(i) == {t \in Timed : BucketIndex(t) = i}
           FailedIn(i) == {t \in Timed : BucketIndex(t) = i /\ traces[t].failed}
           I == 0 .. bucketCount - 1
           Bucket(i) == [index |-> i, requests |-> Cardinality(In(i)), failures |-> Cardinality(FailedIn(i))]
           all == {Bucket(i) : i \in I}
           B == {b \in all : b.requests > 0}
           failed == {t \in Timed : traces[t].failed}
           key == [b \in B |-> b.index]
           place == [t \in Timed |-> BucketIndex(t)]
<1>1. /\ IsFiniteSet(Timed) /\ bucketCount \in Nat /\ bucketCount > 0
      /\ \A t \in Timed : BucketIndex(t) \in I
  BY IndexFits
<1>2. trendBuckets = B
  <2>1. ~(Cardinality(Timed) < 3)
    <3>1. Cardinality(Timed) \in Nat
      BY <1>1, FS_CardinalityType
    <3> QED
      BY <3>1
  <2> QED
    BY <2>1 DEF trendBuckets
<1>3. IsFiniteSet(B)
  <2> DEFINE f == [i \in I |-> Bucket(i)]
  <2>1. IsFiniteSet(I)
    BY <1>1, FS_Interval
  <2> HIDE DEF Bucket, I
  <2>2. f \in Surjection(I, all)
    BY DEF Surjection
  <2> HIDE DEF f, all
  <2>3. IsFiniteSet(all)
    BY <2>1, <2>2, FS_Surjection
  <2>4. B \in SUBSET all
    OBVIOUS
  <2> HIDE DEF B
  <2> QED
    BY <2>3, <2>4, FS_Subset
<1>4. \A b \in B : b.index \in I /\ b = Bucket(b.index)
  <2> HIDE DEF I, In, FailedIn
  <2> QED
    OBVIOUS
<1>5. \A t \in Timed : Bucket(BucketIndex(t)) \in B
  <2> SUFFICES ASSUME NEW t \in Timed PROVE Bucket(BucketIndex(t)) \in B
    OBVIOUS
  <2> DEFINE i == BucketIndex(t)
             part == In(i)
  <2>1. i \in I
    BY <1>1
  <2>2. part # {} /\ part \in SUBSET Timed
    OBVIOUS
  <2> HIDE DEF i, part
  <2>3. IsFiniteSet(part)
    BY <1>1, <2>2, FS_Subset
  <2>4. Cardinality(part) # 0 /\ Cardinality(part) \in Nat
    BY <2>2, <2>3, FS_EmptySet, FS_CardinalityType
  <2>5. Bucket(i).requests > 0
    BY <2>4 DEF part
  <2>6. Bucket(i) \in all
    BY <2>1
  <2> HIDE DEF Bucket, all
  <2> QED
    BY <2>5, <2>6 DEF i
<1>6. \A b \in B : b.requests = Cardinality(In(b.index)) /\ b.failures = Cardinality(FailedIn(b.index))
  <2> HIDE DEF B, In, FailedIn
  <2> QED
    BY <1>4
<1>7. \A t \in Timed : Bucket(BucketIndex(t)).index = BucketIndex(t)
  OBVIOUS
<1>8. \A b, c \in B : key[b] = key[c] => b = c
  <2> HIDE DEF B, Bucket
  <2> QED
    BY <1>4
<1> HIDE DEF Bucket, all, I
<1>9. \A t \in Timed : \E b \in B : place[t] = key[b]
  <2> HIDE DEF B
  <2> QED
    BY <1>5, <1>7
<1>10. IsFiniteSet(failed) /\ failed \in SUBSET Timed
  BY <1>1, FS_Subset
<1>11. \A b \in B : key[b] = b.index
  OBVIOUS
<1> HIDE DEF B, key
<1>12. SumOver([b \in B |-> b.requests], B) = Cardinality(Timed)
  <2> DEFINE sizes == [b \in B |-> b.requests]
  <2>1. \A b \in B : sizes[b] = Cardinality({t \in Timed : place[t] = key[b]})
    <3> SUFFICES ASSUME NEW b \in B PROVE b.requests = Cardinality({t \in Timed : place[t] = key[b]})
      OBVIOUS
    <3>1. {t \in Timed : place[t] = key[b]} = In(b.index)
      BY <1>11
    <3> QED
      BY <1>6, <3>1
  <2> HIDE DEF sizes, place
  <2>2. Total(sizes, B) = Cardinality(Timed)
    <3>1. Parts(B, Timed, key, place, sizes)
      BY <1>8, <1>9, <2>1 DEF Parts
    <3> QED
      BY <1>1, <1>3, <3>1, PartsAddUp
  <2>3. SumOver(sizes, B) = Total(sizes, B)
    BY DEF SumOver, Total
  <2> QED
    BY <2>2, <2>3 DEF sizes
<1>13. SumOver([b \in B |-> b.failures], B) = Cardinality(failed)
  <2> DEFINE sizes == [b \in B |-> b.failures]
  <2>1. \A b \in B : sizes[b] = Cardinality({t \in failed : place[t] = key[b]})
    <3> SUFFICES ASSUME NEW b \in B PROVE b.failures = Cardinality({t \in failed : place[t] = key[b]})
      OBVIOUS
    <3>1. {t \in failed : place[t] = key[b]} = FailedIn(b.index)
      BY <1>11
    <3> QED
      BY <1>6, <3>1
  <2>2. \A t \in failed : \E b \in B : place[t] = key[b]
    BY <1>9, <1>10
  <2> HIDE DEF sizes, place, failed
  <2>3. Total(sizes, B) = Cardinality(failed)
    <3>1. Parts(B, failed, key, place, sizes)
      BY <1>8, <2>1, <2>2 DEF Parts
    <3> QED
      BY <1>3, <1>10, <3>1, PartsAddUp
  <2>4. SumOver(sizes, B) = Total(sizes, B)
    BY DEF SumOver, Total
  <2> QED
    BY <2>3, <2>4 DEF sizes
<1> QED
  BY <1>2, <1>12, <1>13

LEMMA StatsHold == StatsInd => DashboardAddsUp
<1> SUFFICES ASSUME StatsInd PROVE DashboardAddsUp
  OBVIOUS
<1>1. DOMAIN traces = {t \in TraceIds : EventsOf(t) # {}}
  BY DEF StatsInd
<1>2. /\ TracesBear
      /\ \A t \in DOMAIN traces :
           /\ traces[t].failed = \E e \in EventsOf(t) : isFailedEvent(e)
           /\ DurationFits(t)
           /\ traces[t].categories # {} => traces[t].failed \/ traces[t].overflow
  BY BucketsAre
<1>3. durations # <<>> =>
         /\ percentile(durations, 50) <= percentile(durations, 95)
         /\ Cardinality({i \in DOMAIN durations : durations[i] <= percentile(durations, 50)})
               * 2 >= Len(durations)
  BY <1>2, PercentilesHold
<1>4. Cardinality(Timed) >= 3 =>
         /\ SumOver([b \in trendBuckets |-> b.requests], trendBuckets) = Cardinality(Timed)
         /\ SumOver([b \in trendBuckets |-> b.failures], trendBuckets)
               = Cardinality({t \in Timed : traces[t].failed})
  BY <1>2, TrendHolds
<1>5. /\ \A n \in ToolNames : tools.failed[n] > 0 => failedRequests > 0
      /\ {t \in DOMAIN traces : traces[t].overflow} # {} =>
            errorCategories["context_overflow"]
               >= Cardinality({t \in DOMAIN traces : traces[t].overflow})
      /\ counters.processed > 0 /\ DOMAIN traces = {} => parityStatus = "warning"
  BY CountsAre
<1>6. Stamps # {} => recentToolEvents <= recentRuns
  BY ParityHolds
<1> QED
  BY <1>1, <1>2, <1>3, <1>4, <1>5, <1>6 DEF DashboardAddsUp, DurationFits

(* In whatever order the lines of a trace file were written, what computeTraceStats makes of
   it adds up: requests and failures are those of the events of each trace, a duration covers
   them and is too long by at most what one of them lasted, the percentiles are in order,
   the trend holds each request once, failures, categories and recent tool events belong to
   requests, and an unusable file is warned of. *)
THEOREM DashboardIsRight == StatsSpec => []DashboardAddsUp
<1>1. StatsInit => StatsInd
  BY StatsStarts
<1>2. StatsInd /\ [StatsNext]_statsVars => StatsInd'
  BY StatsStep
<1> QED
  BY <1>1, <1>2, StatsHold, PTL DEF StatsSpec
=============================================================================
