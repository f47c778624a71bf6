--------------------------- MODULE FindingsStore ---------------------------
(***************************************************************************)
(* The findings store (tools/findings_store.py, tools/cache.py): concurrent*)
(* calls of persist_findings and query_findings over one Milvus collection,*)
(* a query cache in Redis, and a circuit breaker the two tools share.  A   *)
(* call is atomic but for the await of the embedder.  Milvus and Redis are *)
(* external and outlive the process: any of their operations may fail.     *)
(***************************************************************************)
EXTENDS Integers, FiniteSets

CONSTANTS
    Findings,   \* what persist calls write, one finding each
    Askers,     \* callers of query_findings
    Keys,       \* query_cache_key of a question
    KeyOf,      \* the question an asker asks
    Threshold,  \* MILVUS_CIRCUIT_THRESHOLD
    Cooldown,   \* MILVUS_CIRCUIT_COOLDOWN_SECONDS, in ticks
    None        \* no cached answer, no answer

ASSUME FindingsAssumption ==
    /\ KeyOf \in [Askers -> Keys]
    /\ Threshold \in Nat \ {0} /\ Cooldown \in Nat \ {0}
    /\ \A S \in SUBSET Findings : S # None

Tools == {"persist", "query"}

VARIABLES
    stored,        \* findings in the collection
    collection,    \* the collection exists
    cache,         \* qr: keys in Redis; an answer is the content it ranks
    client,        \* client[t]: the tool has a Milvus client
    redis,         \* FindingsCache._available and _client
    failures,      \* _milvus_failure_count, which is only compared with Threshold
    wait,          \* ticks until _milvus_circuit_open_until
    writing,       \* persist calls that await the embedder
    asking,        \* query calls that await the embedder
    saved,         \* findings reported as persisted
    lacks,         \* findings saved since a cached answer was stored, when Redis
                   \* could not be cleared
    known, heard   \* per asker: what its answer owes it, and the answer, None if degraded

service  == <<stored, collection>>
breaker  == <<failures, wait>>
promises == <<saved, lacks>>
replies  == <<known, heard>>
storeVars == <<service, cache, client, redis, breaker, writing, asking, promises, replies>>

StoreInit ==
    /\ stored = {} /\ collection \in BOOLEAN
    /\ cache = [k \in Keys |-> None]
    /\ client = [t \in Tools |-> FALSE]
    /\ redis = "untested"
    /\ failures = 0 /\ wait = 0
    /\ writing = {} /\ asking = {}
    /\ saved = {} /\ lacks = [k \in Keys |-> {}]
    /\ known = [a \in Askers |-> {}] /\ heard = [a \in Askers |-> None]

----------------------------------------------------------------------------
CircuitOpen == failures >= Threshold /\ wait > 0

\* Every exception of a call is recorded, whatever raised it.
RecordFailure ==
    /\ failures' = IF failures < Threshold THEN failures + 1 ELSE failures
    /\ wait' = IF failures' >= Threshold THEN Cooldown ELSE wait

RecordSuccess == failures' = 0 /\ wait' = 0

\* A tool's first call creates its client and makes sure of the collection.
Connects(t) ==
    /\ client' = [client EXCEPT ![t] = TRUE]
    /\ collection' = (collection \/ ~client[t])

\* A client is kept although the check of the collection raised.
ConnectFails(t) ==
    /\ ~client[t]
    /\ client' \in {client, [client EXCEPT ![t] = TRUE]}
    /\ UNCHANGED collection

\* The first use of Redis decides whether this process ever uses it.
TouchesRedis == redis' \in IF redis = "untested" THEN {"connected", "unavailable"} ELSE {redis}

\* invalidate_query_cache: all replies go, or none when Redis fails.
Invalidates(cleared) ==
    /\ cleared => redis = "connected"
    /\ cache' = IF cleared THEN [k \in Keys |-> None] ELSE cache

----------------------------------------------------------------------------
\* A persist call that the open circuit refuses changes nothing.
PersistStarts(f) ==
    /\ f \notin writing /\ ~CircuitOpen
    /\ Connects("persist") /\ TouchesRedis
    /\ writing' = writing \cup {f}
    /\ UNCHANGED <<stored, cache, breaker, asking, promises, replies>>

\* Client, collection or findings_json at fault.
PersistRejected(f) ==
    /\ f \notin writing /\ ~CircuitOpen
    /\ ConnectFails("persist") \/ Connects("persist")
    /\ RecordFailure
    /\ UNCHANGED <<stored, cache, redis, writing, asking, promises, replies>>

\* Cache and collection change together: no await separates them.
MutantPersistEnds(f) ==  \* the cache is cleared before the embedder is awaited,
    /\ f \in writing     \* and may have been filled again
    /\ collection
    /\ stored' = stored \cup {f} /\ saved' = saved \cup {f}
    /\ RecordSuccess
    /\ writing' = writing \ {f}
    /\ UNCHANGED <<collection, cache, lacks, client, redis, asking, replies>>
PersistEnds(f) ==
    /\ f \in writing
    /\ collection
    /\ \E cleared \in BOOLEAN :
         /\ Invalidates(cleared)
         /\ lacks' = [k \in Keys |-> IF cache'[k] = None THEN {}
                                     ELSE lacks[k] \cup ({f} \ saved)]
    /\ stored' = stored \cup {f} /\ saved' = saved \cup {f}
    /\ RecordSuccess
    /\ writing' = writing \ {f}
    /\ UNCHANGED <<collection, client, redis, asking, replies>>

EmbeddingFails(f) ==
    /\ f \in writing
    /\ RecordFailure
    /\ writing' = writing \ {f}
    /\ UNCHANGED <<service, cache, client, redis, asking, promises, replies>>

\* The collection is missing, or Milvus fails or replies too late.
UpsertFails(f) ==
    /\ f \in writing
    /\ \E cleared \in BOOLEAN :
         /\ Invalidates(cleared)
         /\ lacks' = [k \in Keys |-> IF cache'[k] = None THEN {} ELSE lacks[k]]
    /\ stored' \in {stored} \cup (IF collection THEN {stored \cup {f}} ELSE {})
    /\ RecordFailure
    /\ writing' = writing \ {f}
    /\ UNCHANGED <<collection, client, redis, asking, saved, replies>>

\* The tool batch timed out: CancelledError is no Exception, nothing is recorded.
PersistCancelled(f) ==
    /\ f \in writing
    /\ writing' = writing \ {f}
    /\ UNCHANGED <<service, cache, client, redis, breaker, asking, promises, replies>>

----------------------------------------------------------------------------
AskRefused(a) ==
    /\ a \notin asking /\ CircuitOpen
    /\ heard' = [heard EXCEPT ![a] = None]
    /\ UNCHANGED <<service, cache, client, redis, breaker, writing, asking, promises, known>>

\* The answer in the cache owes the asker what was saved when it was stored, and
\* since, unless Redis was not to be cleared.
AskCached(a) ==
    /\ a \notin asking /\ ~CircuitOpen
    /\ cache[KeyOf[a]] # None
    /\ TouchesRedis /\ redis' = "connected"
    /\ known' = [known EXCEPT ![a] = saved \ lacks[KeyOf[a]]]
    /\ heard' = [heard EXCEPT ![a] = cache[KeyOf[a]]]
    /\ UNCHANGED <<service, cache, client, breaker, writing, asking, promises>>

\* Not in the cache, or Redis failed; an answer from Milvus owes everything saved.
AskStarts(a) ==
    /\ a \notin asking /\ ~CircuitOpen
    /\ TouchesRedis /\ Connects("query") /\ collection'
    /\ asking' = asking \cup {a}
    /\ known' = [known EXCEPT ![a] = saved]
    /\ heard' = [heard EXCEPT ![a] = None]
    /\ UNCHANGED <<stored, cache, breaker, writing, promises>>

\* Without a collection the answer is empty; it is not cached, and no success.
AskFindsNoCollection(a) ==
    /\ a \notin asking /\ ~CircuitOpen
    /\ TouchesRedis /\ Connects("query") /\ ~collection'
    /\ known' = [known EXCEPT ![a] = saved]
    /\ heard' = [heard EXCEPT ![a] = {}]
    /\ UNCHANGED <<stored, cache, breaker, writing, asking, promises>>

MutantAskFails(a) ==  \* queries do not look at the circuit
    /\ a \notin asking
    /\ TouchesRedis
    /\ ConnectFails("query") \/ Connects("query")
    /\ RecordFailure
    /\ heard' = [heard EXCEPT ![a] = None]
    /\ UNCHANGED <<stored, cache, writing, asking, promises, known>>
AskFails(a) ==
    /\ a \notin asking /\ ~CircuitOpen
    /\ TouchesRedis
    /\ ConnectFails("query") \/ Connects("query")
    /\ RecordFailure
    /\ heard' = [heard EXCEPT ![a] = None]
    /\ UNCHANGED <<stored, cache, writing, asking, promises, known>>

\* The answer is cached in the step that computes it, if Redis takes it.
SearchEnds(a) ==
    /\ a \in asking
    /\ heard' = [heard EXCEPT ![a] = stored]
    /\ asking' = asking \ {a}
    /\ RecordSuccess
    /\ \/ UNCHANGED <<cache, lacks>>
       \/ /\ redis = "connected"
          /\ cache' = [cache EXCEPT ![KeyOf[a]] = stored]
          /\ lacks' = [lacks EXCEPT ![KeyOf[a]] = {}]
    /\ UNCHANGED <<service, client, redis, writing, saved, known>>

SearchFails(a) ==
    /\ a \in asking
    /\ RecordFailure
    /\ asking' = asking \ {a}
    /\ UNCHANGED <<service, cache, client, redis, writing, promises, replies>>

AskCancelled(a) ==
    /\ a \in asking
    /\ asking' = asking \ {a}
    /\ UNCHANGED <<service, cache, client, redis, breaker, writing, promises, replies>>

----------------------------------------------------------------------------
\* QUERY_RESULT_TTL is over, or Redis has lost the key.
Expires(k) ==
    /\ cache[k] # None
    /\ cache' = [cache EXCEPT ![k] = None]
    /\ lacks' = [lacks EXCEPT ![k] = {}]
    /\ UNCHANGED <<service, client, redis, breaker, writing, asking, saved, replies>>

CooldownTicks ==
    /\ wait > 0
    /\ wait' = wait - 1
    /\ UNCHANGED <<service, cache, client, redis, failures, writing, asking, promises,
                   replies>>

\* Collection and cache stay; everything else is gone with the process.
StoreRestart ==
    /\ client' = [t \in Tools |-> FALSE]
    /\ redis' = "untested"
    /\ failures' = 0 /\ wait' = 0
    /\ writing' = {} /\ asking' = {}
    /\ UNCHANGED <<service, cache, promises, replies>>

Persists(f) == PersistStarts(f) \/ PersistRejected(f) \/ PersistEnds(f)
               \/ EmbeddingFails(f) \/ UpsertFails(f) \/ PersistCancelled(f)
Queries(a)  == AskRefused(a) \/ AskCached(a) \/ AskStarts(a) \/ AskFindsNoCollection(a)
               \/ AskFails(a) \/ SearchEnds(a) \/ SearchFails(a) \/ AskCancelled(a)

StoreNext ==
    \/ \E f \in Findings : Persists(f)
    \/ \E a \in Askers : Queries(a)
    \/ \E k \in Keys : Expires(k)
    \/ CooldownTicks
    \/ StoreRestart

StoreSpec == StoreInit /\ [][StoreNext]_storeVars

\* Time passes.  Nothing obliges anyone to call, or a service to answer.
StoreFairness == WF_storeVars(CooldownTicks)

FairStore == StoreSpec /\ StoreFairness

----------------------------------------------------------------------------
\* Types of the state.
StoreTypeOK ==
    /\ stored \subseteq Findings /\ collection \in BOOLEAN
    /\ cache \in [Keys -> {None} \cup SUBSET Findings]
    /\ client \in [Tools -> BOOLEAN]
    /\ redis \in {"untested", "connected", "unavailable"}
    /\ failures \in 0 .. Threshold /\ wait \in 0 .. Cooldown
    /\ writing \subseteq Findings /\ asking \subseteq Askers
    /\ saved \subseteq Findings /\ lacks \in [Keys -> SUBSET Findings]
    /\ known \in [Askers -> SUBSET Findings]
    /\ heard \in [Askers -> {None} \cup SUBSET Findings]

\* An answer that is not degraded holds every finding that was reported as persisted
\* before the question, however persists, queries, cache failures and restarts
\* interleave; only a cached answer may miss what was saved after it was stored, and
\* only when Redis could not be cleared then.
AnswersHoldWhatWasSaved == \A a \in Askers :
    (a \notin asking /\ heard[a] # None) => known[a] \subseteq heard[a]

\* The circuit does not stay open: no stream of calls, late failures of the calls
\* admitted before it opened included, extends the cooldown for ever.
CircuitCloses == CircuitOpen ~> ~CircuitOpen
=============================================================================
