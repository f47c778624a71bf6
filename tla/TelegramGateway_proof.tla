----------------------- MODULE TelegramGateway_proof ------------------------
(***************************************************************************)
(* Theorems about TelegramGateway for any set of chats and updates and any *)
(* number of deliveries and restarts.  The lock theorems rest on LockInv:  *)
(* besides mutual exclusion itself it says that a lock is held exactly     *)
(* while some handler is inside it, and that a delivery which has not been *)
(* made yet has no handler, so that a new one can overwrite none.          *)
(***************************************************************************)
EXTENDS TelegramGateway, TLAPS

\* The handlers' part of GatewayTypeOK, all the lock theorems need.
Types ==
    /\ status \in [Updates -> {"unsent", "pending", "inflight", "done", "dropped"}]
    /\ tries \in [Updates -> 0 .. MaxDeliveries]
    /\ handler \in [Deliveries -> {"none", "over"} \cup Inside \cup Sending]
    /\ locked \in [Chats -> BOOLEAN]

NotYetDelivered == \A d \in Deliveries : tries[d[1]] < d[2] => handler[d] = "none"
InsideIsLocked  == \A d \in Deliveries : handler[d] \in Inside => locked[chatOf(d)]

LockInv == Types /\ NotYetDelivered /\ InsideIsLocked /\ OneRunPerChat /\ NoLeakedLock

----------------------------------------------------------------------------
\* The delivery Telegram makes next is one of Deliveries, and is u's.
LEMMA NewestIsDelivery ==
    ASSUME NEW u \in Updates, Types, tries[u] < MaxDeliveries
    PROVE  /\ newest(u) \in Deliveries
           /\ newest(u)[1] = u /\ newest(u)[2] = tries[u] + 1
           /\ chatOf(newest(u)) = ChatOf[u] /\ ChatOf[u] \in Chats
BY GatewayAssumption DEF Types, newest, Deliveries, chatOf, Chats

LEMMA DeliveryParts ==
    ASSUME NEW d \in Deliveries
    PROVE  d[1] \in Updates /\ d[2] \in 1 .. MaxDeliveries /\ chatOf(d) \in Chats
BY DEF Deliveries, chatOf, Chats

\* A handler that leaves frees its chat, which no other handler was inside.
LEMMA LeavingKeepsLocks ==
    ASSUME LockInv, NEW d \in Deliveries, handler[d] # "none", Leaves(d),
           UNCHANGED tries, Types'
    PROVE  LockInv'
<1>1. \A e \in Deliveries : handler'[e] = IF e = d THEN "over" ELSE handler[e]
  BY DEF LockInv, Leaves, Types
<1>2. "over" \notin Inside
  BY DEF Inside
<1>3. \A c \in Chats : locked'[c] = IF handler[d] \in Inside /\ c = chatOf(d)
                                     THEN FALSE ELSE locked[c]
  BY DeliveryParts DEF LockInv, Leaves, Types
<1>4. NotYetDelivered'
  BY <1>1 DEF LockInv, NotYetDelivered
<1>5. InsideIsLocked'
  <2> SUFFICES ASSUME NEW e \in Deliveries, handler'[e] \in Inside PROVE locked'[chatOf(e)]
    BY DEF InsideIsLocked, chatOf, Inside
  <2>1. e # d /\ handler[e] \in Inside /\ locked[chatOf(e)]
    BY <1>1, <1>2 DEF LockInv, InsideIsLocked
  <2>2. ~(handler[d] \in Inside /\ chatOf(e) = chatOf(d))
    BY <2>1 DEF LockInv, OneRunPerChat
  <2> QED BY <2>1, <2>2, <1>3, DeliveryParts
<1>6. OneRunPerChat'
  BY <1>1, <1>2 DEF LockInv, OneRunPerChat, chatOf, Inside
<1>7. NoLeakedLock'
  <2> SUFFICES ASSUME NEW c \in Chats, locked'[c]
               PROVE  \E e \in Deliveries : chatOf(e) = c /\ handler'[e] \in Inside
    BY DEF NoLeakedLock, chatOf, Inside, Chats
  <2>1. locked[c] /\ ~(handler[d] \in Inside /\ c = chatOf(d))
    BY <1>3
  <2>2. PICK e \in Deliveries : chatOf(e) = c /\ handler[e] \in Inside
    BY <2>1 DEF LockInv, NoLeakedLock
  <2> QED BY <2>1, <2>2, <1>1
<1> QED BY <1>4, <1>5, <1>6, <1>7 DEF LockInv

\* A step that leaves the lock alone keeps LockInv when it only moves handlers
\* around outside of the lock, or around inside of it.
LEMMA OutsideKeepsLocks ==
    ASSUME LockInv, UNCHANGED locked, Types', NotYetDelivered',
           \A e \in Deliveries : handler'[e] \in Inside <=> handler[e] \in Inside
    PROVE  LockInv'
<1>1. InsideIsLocked'
  BY DEF LockInv, InsideIsLocked, chatOf, Inside
<1>2. OneRunPerChat'
  BY DEF LockInv, OneRunPerChat, chatOf, Inside
<1>3. NoLeakedLock'
  BY DEF LockInv, NoLeakedLock, chatOf, Inside, Chats
<1> QED BY <1>1, <1>2, <1>3 DEF LockInv

\* Delivering u to a handler that ends up in state h.
LEMMA PostingKeepsTypes ==
    ASSUME LockInv, NEW u \in Updates, Posts(u),
           NEW h \in {"over"} \cup Inside \cup Sending,
           handler' = [handler EXCEPT ![newest(u)] = h]
    PROVE  /\ tries' \in [Updates -> 0 .. MaxDeliveries]
           /\ handler' \in [Deliveries -> {"none", "over"} \cup Inside \cup Sending]
           /\ NotYetDelivered'
           /\ newest(u) \in Deliveries /\ chatOf(newest(u)) = ChatOf[u]
           /\ handler[newest(u)] = "none"
           /\ \A e \in Deliveries : handler'[e] = IF e = newest(u) THEN h ELSE handler[e]
<1>1. /\ newest(u) \in Deliveries
      /\ newest(u)[1] = u /\ newest(u)[2] = tries[u] + 1
      /\ chatOf(newest(u)) = ChatOf[u]
  BY NewestIsDelivery DEF LockInv, Posts
<1>2. tries[u] \in 0 .. MaxDeliveries /\ tries[u] < MaxDeliveries /\ MaxDeliveries \in Nat
  BY GatewayAssumption DEF LockInv, Types, Posts
<1>3. handler[newest(u)] = "none"
  BY <1>1, <1>2 DEF LockInv, NotYetDelivered
<1>4. tries' \in [Updates -> 0 .. MaxDeliveries]
  BY <1>2 DEF LockInv, Types, Posts
<1>5. handler' \in [Deliveries -> {"none", "over"} \cup Inside \cup Sending]
  BY <1>1 DEF LockInv, Types
<1>6. \A e \in Deliveries : handler'[e] = IF e = newest(u) THEN h ELSE handler[e]
  BY <1>1 DEF LockInv, Types
<1>7. NotYetDelivered'
  <2> SUFFICES ASSUME NEW e \in Deliveries, tries'[e[1]] < e[2] PROVE handler'[e] = "none"
    BY DEF NotYetDelivered
  <2>1. e[1] \in Updates /\ e[2] \in Nat /\ tries[e[1]] \in Nat
    BY DeliveryParts DEF LockInv, Types
  <2>2. tries'[e[1]] = IF e[1] = u THEN tries[u] + 1 ELSE tries[e[1]]
    BY <2>1 DEF LockInv, Types, Posts
  <2>3. tries[e[1]] < e[2] /\ e # newest(u)
    BY <2>1, <2>2, <1>1
  <2> QED BY <2>3, <1>6 DEF LockInv, NotYetDelivered
<1> QED BY <1>1, <1>3, <1>4, <1>5, <1>6, <1>7

----------------------------------------------------------------------------
LEMMA InitLocks == GatewayInit => LockInv
<1> SUFFICES ASSUME GatewayInit PROVE LockInv
  OBVIOUS
<1>1. Types
  BY GatewayAssumption DEF GatewayInit, Types
<1>2. NotYetDelivered /\ InsideIsLocked /\ OneRunPerChat /\ NoLeakedLock
  BY DEF GatewayInit, NotYetDelivered, InsideIsLocked, OneRunPerChat, NoLeakedLock, Inside
<1> QED BY <1>1, <1>2 DEF LockInv

LEMMA StepLocks == LockInv /\ [GatewayNext]_gatewayVars => LockInv'
<1> SUFFICES ASSUME LockInv, [GatewayNext]_gatewayVars PROVE LockInv'
  OBVIOUS
<1>0. Types /\ NotYetDelivered
  BY DEF LockInv
<1>1. ASSUME NEW u \in Updates, HandleIgnored(u) \/ HandleReset(u) \/ HandleBusy(u)
      PROVE  LockInv'
  <2>1. PICK h \in {"over", "resetting", "refusing"} :
           /\ Posts(u) /\ UNCHANGED locked
           /\ handler' = [handler EXCEPT ![newest(u)] = h]
    BY <1>1 DEF HandleIgnored, HandleReset, HandleBusy
  <2>2. h \in {"over"} \cup Inside \cup Sending /\ h \notin Inside /\ "none" \notin Inside
    BY DEF Inside, Sending
  <2>3. status' \in [Updates -> {"unsent", "pending", "inflight", "done", "dropped"}]
    BY <1>0, <1>1 DEF HandleIgnored, HandleReset, HandleBusy, Types
  <2>4. Types' /\ NotYetDelivered'
    BY <1>0, <2>1, <2>2, <2>3, PostingKeepsTypes DEF Types, Inside, Sending, Deliveries, Chats
  <2>5. \A e \in Deliveries : handler'[e] \in Inside <=> handler[e] \in Inside
    <3>1. /\ handler[newest(u)] = "none"
          /\ \A e \in Deliveries : handler'[e] = IF e = newest(u) THEN h ELSE handler[e]
      BY <2>1, <2>2, PostingKeepsTypes
    <3> QED BY <3>1, <2>2
  <2> QED BY <2>1, <2>4, <2>5, OutsideKeepsLocks
<1>2. ASSUME NEW u \in Updates, HandlePrompt(u) PROVE LockInv'
  <2> DEFINE c == ChatOf[u]
             n == newest(u)
  <2>1. PICK h \in Inside : Posts(u) /\ handler' = [handler EXCEPT ![n] = h]
    BY <1>2 DEF HandlePrompt, Inside
  <2>2. /\ tries' \in [Updates -> 0 .. MaxDeliveries]
        /\ handler' \in [Deliveries -> {"none", "over"} \cup Inside \cup Sending]
        /\ NotYetDelivered'
        /\ n \in Deliveries /\ chatOf(n) = c /\ c \in Chats
        /\ handler[n] = "none"
        /\ \A e \in Deliveries : handler'[e] = IF e = n THEN h ELSE handler[e]
    <3>1. h \in {"over"} \cup Inside \cup Sending
      BY <2>1
    <3>2. n \in Deliveries /\ chatOf(n) = c
      BY <2>1, <3>1, PostingKeepsTypes
    <3>3. c \in Chats
      BY <3>2, DeliveryParts
    <3> QED BY <2>1, <3>1, <3>2, <3>3, PostingKeepsTypes
  <2>3. ~locked[c] /\ locked' = [locked EXCEPT ![c] = TRUE]
    BY <1>2 DEF HandlePrompt
  <2>4. Types'
    BY <1>0, <1>2, <2>2, <2>3 DEF HandlePrompt, Types, Inside, Sending, Deliveries, Chats
  <2>5. \A e \in Deliveries : e # n /\ handler'[e] \in Inside =>
                                 locked[chatOf(e)] /\ chatOf(e) # c
    BY <2>2, <2>3 DEF LockInv, InsideIsLocked
  <2>6. InsideIsLocked'
    BY <1>0, <2>2, <2>3, <2>5, DeliveryParts DEF InsideIsLocked, Types, chatOf
  <2>7. OneRunPerChat'
    <3> SUFFICES ASSUME NEW d \in Deliveries, NEW e \in Deliveries,
                        handler'[d] \in Inside, handler'[e] \in Inside, chatOf(d) = chatOf(e)
                 PROVE  d = e
      BY DEF OneRunPerChat, chatOf, Inside
    <3>1. (d = n /\ e = n) \/ (d # n /\ e # n)
      BY <2>2, <2>5
    <3> QED BY <3>1, <2>2 DEF LockInv, OneRunPerChat
  <2>8. NoLeakedLock'
    <3> SUFFICES ASSUME NEW k \in Chats, locked'[k]
                 PROVE  \E e \in Deliveries : chatOf(e) = k /\ handler'[e] \in Inside
      BY DEF NoLeakedLock, chatOf, Inside, Chats
    <3>1. CASE k = c
      BY <2>1, <2>2, <3>1
    <3>2. CASE k # c
      <4>1. locked[k]
        BY <1>0, <2>2, <2>3, <3>2 DEF Types
      <4>2. PICK e \in Deliveries : chatOf(e) = k /\ handler[e] \in Inside
        BY <4>1 DEF LockInv, NoLeakedLock
      <4> QED BY <2>2, <3>2, <4>2
    <3> QED BY <3>1, <3>2
  <2> QED BY <2>2, <2>4, <2>6, <2>7, <2>8 DEF LockInv
<1>3. ASSUME NEW d \in Deliveries, RunEnds(d) PROVE LockInv'
  <2>1. Types'
    BY <1>0, <1>3 DEF RunEnds, Types, Inside, Sending, Deliveries, Chats
  <2>2. NotYetDelivered'
    BY <1>0, <1>3 DEF RunEnds, Types, NotYetDelivered
  <2>3. \A e \in Deliveries : handler'[e] \in Inside <=> handler[e] \in Inside
    BY <1>0, <1>3 DEF RunEnds, Types, Inside
  <2> QED BY <1>3, <2>1, <2>2, <2>3, OutsideKeepsLocks DEF RunEnds
<1>4. ASSUME NEW d \in Deliveries, RunFails(d) \/ SendEnds(d) \/ SendFails(d) PROVE LockInv'
  <2>1. PICK v \in {"done", "pending"} : Leaves(d) /\ Answers(d, v) /\ UNCHANGED tries
    BY <1>4 DEF RunFails, SendEnds, SendFails
  <2>2. handler[d] # "none"
    BY <1>4 DEF RunFails, SendEnds, SendFails, Sending
  <2>3. status' \in [Updates -> {"unsent", "pending", "inflight", "done", "dropped"}]
    BY <1>0, <2>1 DEF Answers, Types
  <2>4. /\ handler' \in [Deliveries -> {"none", "over"} \cup Inside \cup Sending]
        /\ locked' \in [Chats -> BOOLEAN]
    BY <1>0, <2>1, DeliveryParts DEF Leaves, Types
  <2>5. Types'
    BY <1>0, <2>1, <2>3, <2>4 DEF Types, Inside, Sending, Deliveries, Chats
  <2> QED BY <2>1, <2>2, <2>5, LeavingKeepsLocks
<1>5. ASSUME NEW u \in Updates, TimesOut(u) \/ Drops(u) PROVE LockInv'
  <2>1. Types'
    BY <1>0, <1>5 DEF TimesOut, Drops, Types, Inside, Sending, Deliveries, Chats
  <2>2. handler' = handler /\ tries' = tries /\ locked' = locked
    BY <1>5 DEF TimesOut, Drops
  <2>3. NotYetDelivered'
    BY <1>0, <2>2 DEF NotYetDelivered
  <2> QED BY <2>1, <2>2, <2>3, OutsideKeepsLocks
<1>6. CASE Restart
  <2>1. Types'
    BY <1>0, <1>6 DEF Restart, Types, Inside, Sending, Deliveries, Chats
  <2>2. \A d \in Deliveries : handler'[d] \notin Inside
    BY <1>6 DEF Restart, Inside
  <2>3. NotYetDelivered'
    BY <1>0, <1>6 DEF Restart, NotYetDelivered
  <2>4. \A c \in Chats : ~locked'[c]
    BY <1>6 DEF Restart
  <2> QED BY <2>1, <2>2, <2>3, <2>4
          DEF LockInv, InsideIsLocked, OneRunPerChat, NoLeakedLock, Inside, Chats
<1>7. CASE UNCHANGED gatewayVars
  <2>1. Types' /\ NotYetDelivered' /\ UNCHANGED <<handler, locked>>
    BY <1>0, <1>7 DEF gatewayVars, Types, NotYetDelivered, Inside, Sending, Deliveries, Chats
  <2> QED BY <2>1, OutsideKeepsLocks
<1> QED BY <1>1, <1>2, <1>3, <1>4, <1>5, <1>6, <1>7 DEF GatewayNext, Handles, Proceeds

THEOREM LockInvariant == GatewaySpec => []LockInv
BY InitLocks, StepLocks, PTL DEF GatewaySpec

\* At most one agent request per chat is in flight, whatever Telegram redelivers
\* and whatever fails.
THEOREM MutualExclusion == GatewaySpec => []OneRunPerChat
<1>1. LockInv => OneRunPerChat
  BY DEF LockInv
<1> QED BY <1>1, LockInvariant, PTL

\* No failure of a run or of a send, no timeout and no restart leaves a chat
\* locked with nobody working for it.
THEOREM LocksAreReleased == GatewaySpec => []NoLeakedLock
<1>1. LockInv => NoLeakedLock
  BY DEF LockInv
<1> QED BY <1>1, LockInvariant, PTL

----------------------------------------------------------------------------
\* Telegram is answered 200 only once the chat has heard about the update.
ToldInv == Types /\ ForgottenWhenTold

LEMMA StepTold == LockInv /\ LockInv' /\ ToldInv /\ [GatewayNext]_gatewayVars => ToldInv'
<1> SUFFICES ASSUME LockInv', ToldInv, [GatewayNext]_gatewayVars PROVE ForgottenWhenTold'
  BY DEF LockInv, ToldInv
<1> SUFFICES ASSUME NEW v \in Updates, status'[v] = "done", KindOf[v] # "ignored"
             PROVE  v \in told'
  BY DEF ForgottenWhenTold
<1>0. Types /\ (status[v] = "done" => v \in told)
  BY DEF ToldInv, ForgottenWhenTold
<1>1. told \subseteq told'
  BY DEF GatewayNext, Handles, Proceeds, HandleIgnored, HandleReset, HandleBusy, HandlePrompt, Posts,
     RunEnds, RunFails, SendEnds, SendFails, TimesOut, Drops, Restart, gatewayVars
<1>2. ASSUME NEW u \in Updates, Handles(u) \/ TimesOut(u) \/ Drops(u)
      PROVE  status[v] = "done"
  BY <1>0, <1>2 DEF Handles, HandleIgnored, HandleReset, HandleBusy, HandlePrompt,
     TimesOut, Drops, Types
<1>3. ASSUME NEW d \in Deliveries, Proceeds(d) PROVE status[v] = "done" \/ v \in told'
  <2>1. CASE SendEnds(d)
    BY <1>0, <2>1, DeliveryParts DEF SendEnds, Answers, Types
  <2>2. CASE RunEnds(d) \/ RunFails(d) \/ SendFails(d)
    BY <1>0, <2>2, DeliveryParts DEF RunEnds, RunFails, SendFails, Answers, Types
  <2> QED BY <1>3, <2>1, <2>2 DEF Proceeds
<1>4. CASE Restart
  BY <1>0, <1>4 DEF Restart, Types
<1>5. CASE UNCHANGED gatewayVars
  BY <1>5, <1>0, <1>1 DEF gatewayVars
<1> QED BY <1>0, <1>1, <1>2, <1>3, <1>4, <1>5 DEF GatewayNext

\* No update is forgotten in silence: an answer, a busy message or a reset
\* confirmation was sent for every one Telegram drops as delivered.
THEOREM NothingForgottenInSilence == GatewaySpec => []ForgottenWhenTold
<1>1. GatewayInit => ToldInv
  <2> SUFFICES ASSUME GatewayInit PROVE ForgottenWhenTold
    BY InitLocks DEF ToldInv, LockInv
  <2> QED BY DEF GatewayInit, ForgottenWhenTold
<1>2. ToldInv => ForgottenWhenTold
  BY DEF ToldInv
<1> QED BY <1>1, <1>2, StepTold, LockInvariant, PTL DEF GatewaySpec

----------------------------------------------------------------------------
\* The session a chat worked in last is the one its next run will get.
SessionInv ==
    /\ latest \in [Chats -> Nat] /\ override \in [Chats -> Nat]
    /\ latest = override
    /\ crashes \in Nat

LEMMA StepSession ==
    ASSUME SessionInv, [GatewayNext]_gatewayVars
    PROVE  /\ SessionInv'
           /\ \A c \in Chats : crashes' = crashes => latest[c] <= latest'[c]
<1>1. ASSUME NEW u \in Updates, HandleReset(u)
      PROVE  /\ SessionInv'
             /\ \A c \in Chats : latest[c] <= latest'[c]
  <2>1. ChatOf[u] \in Chats
    BY DEF Chats
  <2>2. /\ override' = [override EXCEPT ![ChatOf[u]] = override[ChatOf[u]] + 1]
        /\ latest' = [latest EXCEPT ![ChatOf[u]] = override'[ChatOf[u]]]
        /\ crashes' = crashes
    BY <1>1 DEF HandleReset, Posts
  <2>3. override' \in [Chats -> Nat] /\ override'[ChatOf[u]] = latest[ChatOf[u]] + 1
    BY <2>1, <2>2 DEF SessionInv
  <2>4. latest' \in [Chats -> Nat] /\ latest' = override'
    BY <2>1, <2>2, <2>3 DEF SessionInv
  <2>5. \A c \in Chats : latest[c] <= latest'[c]
    BY <2>1, <2>2, <2>3 DEF SessionInv
  <2> QED BY <2>2, <2>3, <2>4, <2>5 DEF SessionInv, Chats
<1>2. ASSUME NEW u \in Updates, HandlePrompt(u)
      PROVE  SessionInv' /\ latest' = latest
  <2>1. ChatOf[u] \in Chats
    BY DEF Chats
  <2> QED BY <1>2, <2>1 DEF HandlePrompt, Posts, SessionInv, Chats
<1>3. ASSUME UNCHANGED <<latest, override, crashes>>
      PROVE  SessionInv' /\ latest' = latest
  BY <1>3 DEF SessionInv, Chats
<1>4. CASE Restart
  BY <1>4, GatewayAssumption DEF Restart, SessionInv, Chats
<1>5. \/ UNCHANGED <<latest, override, crashes>> \/ Restart
      \/ \E u \in Updates : HandleReset(u) \/ HandlePrompt(u)
  BY DEF GatewayNext, Handles, Proceeds, HandleIgnored, HandleBusy, Posts,
     RunEnds, RunFails, SendEnds, SendFails, TimesOut, Drops, gatewayVars
<1>6. SessionInv => \A c \in Chats : latest[c] <= latest[c]
  BY DEF SessionInv
<1> QED BY <1>1, <1>2, <1>3, <1>4, <1>5, <1>6

\* While the process lives, no run works in a session older than one that a
\* reset or an earlier run of its chat established.
THEOREM SessionsNeverGoBack == GatewaySpec => SessionsAdvance
<1>1. GatewayInit => SessionInv
  BY DEF GatewayInit, SessionInv
<1>2. SessionInv /\ [GatewayNext]_gatewayVars => SessionInv'
  BY StepSession
<1>3. SessionInv /\ [GatewayNext]_gatewayVars =>
        [\A c \in Chats : crashes' = crashes => latest[c] <= latest'[c]]_gatewayVars
  BY StepSession
<1> QED BY <1>1, <1>2, <1>3, PTL DEF GatewaySpec, SessionsAdvance
=============================================================================
