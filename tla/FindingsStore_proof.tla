------------------------ MODULE FindingsStore_proof ------------------------
(***************************************************************************)
(* Theorems about FindingsStore for any findings, askers, questions and    *)
(* breaker settings.  An answer is complete because of what holds at the   *)
(* await of the embedder: what an asker is owed stays within what is saved *)
(* and so within the collection the search will see, and every answer in   *)
(* the cache holds what is saved but for the findings it is known to lack. *)
(***************************************************************************)
EXTENDS FindingsStore, TLAPS

CacheHolds == \A k \in Keys : cache[k] # None => saved \subseteq cache[k] \cup lacks[k]
Durable    == saved \subseteq stored /\ (~collection => stored = {})
Waiting    == \A a \in asking : known[a] \subseteq saved /\ heard[a] = None

Ind == StoreTypeOK /\ CacheHolds /\ Durable /\ Waiting /\ AnswersHoldWhatWasSaved

----------------------------------------------------------------------------
\* The breaker's variables stay in their ranges.
LEMMA FailureTypes ==
    ASSUME StoreTypeOK, RecordFailure
    PROVE  failures' \in 0 .. Threshold /\ wait' \in 0 .. Cooldown
BY FindingsAssumption DEF StoreTypeOK, RecordFailure

LEMMA SuccessTypes ==
    ASSUME RecordSuccess
    PROVE  failures' \in 0 .. Threshold /\ wait' \in 0 .. Cooldown
<1>1. failures' = 0 /\ wait' = 0
  BY DEF RecordSuccess
<1> QED BY <1>1, FindingsAssumption

\* Connecting never makes a collection disappear.
LEMMA ConnectTypes ==
    ASSUME StoreTypeOK, NEW t \in Tools, Connects(t) \/ ConnectFails(t)
    PROVE  /\ client' \in [Tools -> BOOLEAN] /\ collection' \in BOOLEAN
           /\ collection => collection'
BY DEF StoreTypeOK, Connects, ConnectFails

LEMMA RedisTypes ==
    ASSUME StoreTypeOK, TouchesRedis
    PROVE  redis' \in {"untested", "connected", "unavailable"}
BY DEF StoreTypeOK, TouchesRedis

LEMMA CacheTypes ==
    ASSUME StoreTypeOK, NEW cleared \in BOOLEAN, Invalidates(cleared)
    PROVE  /\ cache' \in [Keys -> {None} \cup SUBSET Findings]
           /\ \A k \in Keys : cache'[k] = None \/ cache'[k] = cache[k]
BY DEF StoreTypeOK, Invalidates

\* Steps that touch neither what was promised nor what was answered.
LEMMA QuietSteps ==
    ASSUME Ind, StoreTypeOK', UNCHANGED <<cache, promises, replies>>, asking' \subseteq asking,
           stored \subseteq stored', ~collection' => stored' = {}
    PROVE  Ind'
<1>1. CacheHolds'
  BY DEF Ind, CacheHolds, promises
<1>2. Durable'
  BY DEF Ind, Durable, promises
<1>3. Waiting'
  BY DEF Ind, Waiting, promises, replies
<1>4. AnswersHoldWhatWasSaved'
  BY DEF Ind, AnswersHoldWhatWasSaved, Waiting, replies, StoreTypeOK
<1> QED BY <1>1, <1>2, <1>3, <1>4 DEF Ind

\* Steps by which one asker, who was not waiting, is answered at once.
LEMMA AnswerSteps ==
    ASSUME Ind, StoreTypeOK', NEW a \in Askers, a \notin asking,
           UNCHANGED <<cache, promises, stored, asking>>, ~collection' => ~collection,
           NEW owed \in SUBSET Findings, NEW answer \in {None} \cup SUBSET Findings,
           known' = [known EXCEPT ![a] = owed], heard' = [heard EXCEPT ![a] = answer],
           answer # None => owed \subseteq answer
    PROVE  Ind'
<1>1. CacheHolds' /\ Durable'
  BY DEF Ind, CacheHolds, Durable, promises
<1>2. \A b \in Askers : b # a => known'[b] = known[b] /\ heard'[b] = heard[b]
  BY DEF Ind, StoreTypeOK
<1>3. known'[a] = owed /\ heard'[a] = answer
  BY DEF Ind, StoreTypeOK
<1>4. Waiting'
  BY <1>2 DEF Ind, StoreTypeOK, Waiting, promises
<1>5. AnswersHoldWhatWasSaved'
  BY <1>2, <1>3 DEF Ind, AnswersHoldWhatWasSaved
<1> QED BY <1>1, <1>4, <1>5 DEF Ind

----------------------------------------------------------------------------
LEMMA PersistKeepsInd ==
    ASSUME Ind, NEW f \in Findings, Persists(f)
    PROVE  Ind'
<1> USE DEF service, breaker, promises, replies
<1>0. StoreTypeOK /\ Durable /\ "persist" \in Tools
  BY DEF Ind, Tools
<1>1. CASE PersistStarts(f)
  <2>1. StoreTypeOK'
    BY <1>0, <1>1, ConnectTypes, RedisTypes DEF PersistStarts, StoreTypeOK
  <2>2. ~collection' => stored' = {}
    BY <1>0, <1>1, ConnectTypes DEF PersistStarts, Durable
  <2> QED BY <1>1, <2>1, <2>2, QuietSteps DEF PersistStarts
<1>2. CASE PersistRejected(f)
  <2>1. RecordFailure
    BY <1>2 DEF PersistRejected
  <2>2. client' \in [Tools -> BOOLEAN] /\ collection' \in BOOLEAN
        /\ (collection => collection')
    BY <1>0, <1>2, ConnectTypes DEF PersistRejected
  <2>3. StoreTypeOK'
    BY <1>0, <1>2, <2>1, <2>2, FailureTypes DEF PersistRejected, StoreTypeOK
  <2> QED BY <1>0, <1>2, <2>2, <2>3, QuietSteps DEF PersistRejected, Durable
<1>3. CASE PersistEnds(f)
  <2>1. PICK cleared \in BOOLEAN :
          /\ Invalidates(cleared)
          /\ lacks' = [k \in Keys |-> IF cache'[k] = None THEN {}
                                      ELSE lacks[k] \cup ({f} \ saved)]
    BY <1>3 DEF PersistEnds
  <2>2. /\ cache' \in [Keys -> {None} \cup SUBSET Findings]
        /\ \A k \in Keys : cache'[k] = None \/ cache'[k] = cache[k]
    BY <1>0, <2>1, CacheTypes
  <2>3. lacks' \in [Keys -> SUBSET Findings]
    BY <1>0, <2>1 DEF StoreTypeOK
  <2>4. StoreTypeOK'
    BY <1>0, <1>3, <2>2, <2>3, SuccessTypes DEF PersistEnds, StoreTypeOK
  <2>5. CacheHolds'
    <3> SUFFICES ASSUME NEW k \in Keys, cache'[k] # None
                 PROVE  saved' \subseteq cache'[k] \cup lacks'[k]
      BY DEF CacheHolds
    <3>1. cache'[k] = cache[k] /\ saved \subseteq cache[k] \cup lacks[k]
      BY <2>2 DEF Ind, CacheHolds
    <3>2. lacks'[k] = lacks[k] \cup ({f} \ saved)
      BY <2>1
    <3> QED BY <3>1, <3>2, <1>3 DEF PersistEnds
  <2>6. Durable'
    BY <1>0, <1>3 DEF PersistEnds, Durable
  <2>7. Waiting' /\ AnswersHoldWhatWasSaved'
    BY <1>3 DEF Ind, PersistEnds, Waiting, AnswersHoldWhatWasSaved
  <2> QED BY <2>4, <2>5, <2>6, <2>7 DEF Ind
<1>4. CASE EmbeddingFails(f)
  <2>1. StoreTypeOK'
    BY <1>0, <1>4, FailureTypes DEF EmbeddingFails, StoreTypeOK
  <2> QED BY <1>0, <1>4, <2>1, QuietSteps DEF EmbeddingFails, Durable
<1>5. CASE UpsertFails(f)
  <2>1. PICK cleared \in BOOLEAN :
          /\ Invalidates(cleared)
          /\ lacks' = [k \in Keys |-> IF cache'[k] = None THEN {} ELSE lacks[k]]
    BY <1>5 DEF UpsertFails
  <2>2. /\ cache' \in [Keys -> {None} \cup SUBSET Findings]
        /\ \A k \in Keys : cache'[k] = None \/ cache'[k] = cache[k]
    BY <1>0, <2>1, CacheTypes
  <2>3. lacks' \in [Keys -> SUBSET Findings]
    BY <1>0, <2>1 DEF StoreTypeOK
  <2>4. /\ stored \subseteq stored' /\ stored' \subseteq Findings
        /\ ~collection => stored' = stored
    BY <1>0, <1>5 DEF UpsertFails, StoreTypeOK
  <2>5. StoreTypeOK'
    BY <1>0, <1>5, <2>2, <2>3, <2>4, FailureTypes DEF UpsertFails, StoreTypeOK
  <2>6. CacheHolds'
    BY <1>5, <2>1, <2>2 DEF Ind, CacheHolds, UpsertFails
  <2>7. Durable'
    BY <1>0, <1>5, <2>4 DEF UpsertFails, Durable
  <2>8. Waiting' /\ AnswersHoldWhatWasSaved'
    BY <1>5 DEF Ind, UpsertFails, Waiting, AnswersHoldWhatWasSaved
  <2> QED BY <2>5, <2>6, <2>7, <2>8 DEF Ind
<1>6. CASE PersistCancelled(f)
  <2>1. StoreTypeOK'
    BY <1>0, <1>6 DEF PersistCancelled, StoreTypeOK
  <2> QED BY <1>0, <1>6, <2>1, QuietSteps DEF PersistCancelled, Durable
<1> QED BY <1>1, <1>2, <1>3, <1>4, <1>5, <1>6 DEF Persists

LEMMA QueryKeepsInd ==
    ASSUME Ind, NEW a \in Askers, Queries(a)
    PROVE  Ind'
<1> USE DEF service, breaker, promises, replies
<1>0. StoreTypeOK /\ Durable /\ "query" \in Tools /\ KeyOf[a] \in Keys
  BY FindingsAssumption DEF Ind, Tools
<1>1. CASE AskRefused(a)
  <2>1. StoreTypeOK'
    BY <1>0, <1>1 DEF AskRefused, StoreTypeOK
  <2>2. known' = [known EXCEPT ![a] = known[a]] /\ known[a] \in SUBSET Findings
    BY <1>0, <1>1 DEF AskRefused, StoreTypeOK
  <2> QED BY <1>1, <2>1, <2>2, AnswerSteps DEF AskRefused
<1>2. CASE AskCached(a)
  <2>1. cache[KeyOf[a]] \in {None} \cup SUBSET Findings /\ saved \ lacks[KeyOf[a]] \in SUBSET Findings
    BY <1>0 DEF StoreTypeOK
  <2>2. StoreTypeOK'
    BY <1>0, <1>2, <2>1, RedisTypes DEF AskCached, StoreTypeOK
  <2>3. saved \ lacks[KeyOf[a]] \subseteq cache[KeyOf[a]]
    BY <1>0, <1>2 DEF Ind, CacheHolds, AskCached
  <2> QED BY <1>2, <2>1, <2>2, <2>3, AnswerSteps DEF AskCached
<1>3. CASE AskStarts(a)
  <2>1. StoreTypeOK'
    BY <1>0, <1>3, ConnectTypes, RedisTypes DEF AskStarts, StoreTypeOK
  <2>2. CacheHolds' /\ Durable'
    BY <1>3 DEF Ind, CacheHolds, Durable, AskStarts
  <2>3. \A b \in Askers : b # a => known'[b] = known[b] /\ heard'[b] = heard[b]
    BY <1>0, <1>3 DEF AskStarts, StoreTypeOK
  <2>4. known'[a] = saved /\ heard'[a] = None
    BY <1>0, <1>3 DEF AskStarts, StoreTypeOK
  <2>5. Waiting'
    BY <1>0, <1>3, <2>3, <2>4 DEF Ind, StoreTypeOK, Waiting, AskStarts
  <2>6. AnswersHoldWhatWasSaved'
    BY <1>3, <2>3, <2>4 DEF Ind, AnswersHoldWhatWasSaved, AskStarts
  <2> QED BY <2>1, <2>2, <2>5, <2>6 DEF Ind
<1>4. CASE AskFindsNoCollection(a)
  <2>1. StoreTypeOK'
    BY <1>0, <1>4, ConnectTypes, RedisTypes DEF AskFindsNoCollection, StoreTypeOK
  <2>2. ~collection /\ saved = {}
    BY <1>0, <1>4, ConnectTypes DEF AskFindsNoCollection, Durable
  <2> QED BY <1>0, <1>4, <2>1, <2>2, AnswerSteps DEF AskFindsNoCollection, StoreTypeOK
<1>5. CASE AskFails(a)
  <2>1. /\ client' \in [Tools -> BOOLEAN] /\ collection' \in BOOLEAN
        /\ collection => collection'
    BY <1>0, <1>5, ConnectTypes DEF AskFails
  <2>2. StoreTypeOK'
    BY <1>0, <1>5, <2>1, FailureTypes, RedisTypes DEF AskFails, StoreTypeOK
  <2>3. known' = [known EXCEPT ![a] = known[a]] /\ known[a] \in SUBSET Findings
    BY <1>0, <1>5 DEF AskFails, StoreTypeOK
  <2> QED BY <1>5, <2>1, <2>2, <2>3, AnswerSteps DEF AskFails
<1>6. CASE SearchEnds(a)
  <2>1. /\ cache' \in [Keys -> {None} \cup SUBSET Findings]
        /\ lacks' \in [Keys -> SUBSET Findings]
        /\ \A k \in Keys : \/ cache'[k] = cache[k] /\ lacks'[k] = lacks[k]
                           \/ cache'[k] = stored
    BY <1>0, <1>6 DEF SearchEnds, StoreTypeOK
  <2>2. StoreTypeOK'
    BY <1>0, <1>6, <2>1, SuccessTypes DEF SearchEnds, StoreTypeOK
  <2>3. CacheHolds'
    BY <1>0, <1>6, <2>1 DEF Ind, CacheHolds, Durable, SearchEnds
  <2>4. Durable'
    BY <1>0, <1>6 DEF SearchEnds, Durable
  <2>5. \A b \in Askers : b # a => known'[b] = known[b] /\ heard'[b] = heard[b]
    BY <1>0, <1>6 DEF SearchEnds, StoreTypeOK
  <2>6. heard'[a] = stored /\ known'[a] \subseteq stored
    BY <1>0, <1>6 DEF Ind, SearchEnds, StoreTypeOK, Waiting, Durable
  <2>7. Waiting'
    BY <1>0, <1>6, <2>5 DEF Ind, StoreTypeOK, Waiting, SearchEnds
  <2>8. AnswersHoldWhatWasSaved'
    BY <1>6, <2>5, <2>6 DEF Ind, AnswersHoldWhatWasSaved, SearchEnds
  <2> QED BY <2>2, <2>3, <2>4, <2>7, <2>8 DEF Ind
<1>7. CASE SearchFails(a)
  <2>1. RecordFailure
    BY <1>7 DEF SearchFails
  <2>2. StoreTypeOK'
    BY <1>0, <1>7, <2>1, FailureTypes DEF SearchFails, StoreTypeOK
  <2> QED BY <1>0, <1>7, <2>2, QuietSteps DEF SearchFails, Durable
<1>8. CASE AskCancelled(a)
  <2>1. StoreTypeOK'
    BY <1>0, <1>8 DEF AskCancelled, StoreTypeOK
  <2> QED BY <1>0, <1>8, <2>1, QuietSteps DEF AskCancelled, Durable
<1> QED BY <1>1, <1>2, <1>3, <1>4, <1>5, <1>6, <1>7, <1>8 DEF Queries

LEMMA IndInvariant == StoreSpec => []Ind
<1> USE DEF service, breaker, promises, replies
<1>1. StoreInit => Ind
  <2> SUFFICES ASSUME StoreInit PROVE Ind
    OBVIOUS
  <2>1. failures \in 0 .. Threshold /\ wait \in 0 .. Cooldown
    BY FindingsAssumption DEF StoreInit
  <2>2. collection \in BOOLEAN /\ client \in [Tools -> BOOLEAN]
    BY DEF StoreInit
  <2>3. StoreTypeOK
    BY <2>1, <2>2 DEF StoreInit, StoreTypeOK
  <2> QED BY <2>3 DEF StoreInit, Ind, CacheHolds, Durable, Waiting, AnswersHoldWhatWasSaved
<1>2. Ind /\ [StoreNext]_storeVars => Ind'
  <2> SUFFICES ASSUME Ind, [StoreNext]_storeVars PROVE Ind'
    OBVIOUS
  <2>0. StoreTypeOK /\ Durable
    BY DEF Ind
  <2>1. CASE \E f \in Findings : Persists(f)
    BY <2>1, PersistKeepsInd
  <2>2. CASE \E a \in Askers : Queries(a)
    BY <2>2, QueryKeepsInd
  <2>3. ASSUME NEW k \in Keys, Expires(k) PROVE Ind'
    <3>1. StoreTypeOK'
      BY <2>0, <2>3 DEF Expires, StoreTypeOK
    <3>2. CacheHolds'
      BY <2>0, <2>3 DEF Ind, CacheHolds, Expires, StoreTypeOK
    <3>3. Durable' /\ Waiting' /\ AnswersHoldWhatWasSaved'
      BY <2>3 DEF Ind, Durable, Waiting, AnswersHoldWhatWasSaved, Expires
    <3> QED BY <3>1, <3>2, <3>3 DEF Ind
  <2>4. CASE CooldownTicks
    <3>1. StoreTypeOK'
      BY <2>0, <2>4, FindingsAssumption DEF CooldownTicks, StoreTypeOK
    <3> QED BY <2>0, <2>4, <3>1, QuietSteps DEF CooldownTicks, Durable
  <2>5. CASE StoreRestart
    <3>1. failures' \in 0 .. Threshold /\ wait' \in 0 .. Cooldown
      BY <2>5, FindingsAssumption DEF StoreRestart
    <3>2. client' \in [Tools -> BOOLEAN]
      BY <2>5 DEF StoreRestart
    <3>3. StoreTypeOK'
      BY <2>0, <2>5, <3>1, <3>2 DEF StoreRestart, StoreTypeOK
    <3> QED BY <2>0, <2>5, <3>3, QuietSteps DEF StoreRestart, Durable
  <2>6. CASE UNCHANGED storeVars
    BY <2>6 DEF storeVars, Ind, StoreTypeOK, CacheHolds, Durable, Waiting, AnswersHoldWhatWasSaved
  <2> QED BY <2>1, <2>2, <2>3, <2>4, <2>5, <2>6 DEF StoreNext
<1> QED BY <1>1, <1>2, PTL DEF StoreSpec

----------------------------------------------------------------------------
\* The state keeps its types, the breaker's counters within their bounds.
THEOREM TypeCorrect == StoreSpec => []StoreTypeOK
<1>1. Ind => StoreTypeOK
  BY DEF Ind
<1> QED BY <1>1, IndInvariant, PTL

\* Answers are complete: findings reported as persisted before a question are in
\* its answer, unless the answer was cached and Redis could not be cleared.
THEOREM AnswersAreComplete == StoreSpec => []AnswersHoldWhatWasSaved
<1>1. Ind => AnswersHoldWhatWasSaved
  BY DEF Ind
<1> QED BY <1>1, IndInvariant, PTL

\* Nothing that was reported as persisted is lost, whatever restarts or fails.
THEOREM SavedStaysStored == StoreSpec => [](saved \subseteq stored)
<1>1. Ind => saved \subseteq stored
  BY DEF Ind, Durable
<1> QED BY <1>1, IndInvariant, PTL
=============================================================================
