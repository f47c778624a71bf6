---------------------------- MODULE SessionList -----------------------------
(***************************************************************************)
(* The list of sessions in the browser: hooks/use-sessions.ts, a cache and *)
(* one load under way shared by all sidebars of the page, and the rename   *)
(* and delete handlers of components/layout/sidebar.tsx, which load the    *)
(* list again when their request has succeeded.  The rows can be used      *)
(* until then, so that a sidebar may have several requests under way, and  *)
(* then several loads.  A list is the number of the server's change it was *)
(* read after; a load that failed gives the empty list.                    *)
(* hooks/use-mcp-servers.ts is the same hook for the list of MCP servers.  *)
(***************************************************************************)
EXTENDS Integers

CONSTANTS
    Sidebars,    \* those mounted: the desktop one, and the mobile one while open
    MaxLoads,    \* bound: loads of the list
    MaxChanges   \* bound: changes of the sessions that are asked for

Loads    == 1 .. MaxLoads
Changes  == 1 .. MaxChanges
Failed   == 0 - 1     \* an empty list, with an error
NoLoad   == 0
Nobody   == "nobody"

ASSUME ListAssumption == MaxLoads \in Nat /\ MaxChanges \in Nat /\ Nobody \notin Sidebars

VARIABLES
    changes,   \* changes of the sessions on the server
    cache,     \* sessionsCache and whether it is younger than its TTL
    inflight,  \* sessionsInflight: a load, or NoLoad
    load,      \* the loads: where each is and what it has read
    side,      \* per sidebar: whether it is mounted and its rows are there, and its list
    request,   \* the renames and deletions: where each is, whose, and which change it made
    awaits     \* the calls of refresh that await a load, and whose change each is to show

listVars == <<changes, cache, inflight, load, side, request, awaits>>

ListInit ==
    /\ changes = 0 /\ inflight = NoLoad /\ awaits = {}
    /\ cache = [list |-> 0, fresh |-> FALSE]
    /\ load = [l \in Loads |-> [at |-> "idle", list |-> 0]]
    /\ side = [b \in Sidebars |-> [at |-> "idle", shows |-> 0]]
    /\ request = [r \in Changes |-> [at |-> "idle", side |-> Nobody, change |-> 0]]

----------------------------------------------------------------------------
\* The loads and requests are taken in order.
IsNext(r, records) == records[r].at = "idle" /\ \A k \in 1 .. r - 1 : records[k].at # "idle"

RequestOver == [at |-> "over", side |-> Nobody, change |-> 0]

\* No rows are there while a sidebar loads its list, and every load replaces it.
NoRows(at) == [at |-> at, shows |-> 0]

Awaits(b, l, n) ==
    /\ side' = [c \in Sidebars |-> IF c = b THEN NoRows("loading") ELSE side[c]]
    /\ awaits' = awaits \cup (IF b = Nobody THEN {} ELSE {[side |-> b, load |-> l, change |-> n]})

ShowsCache(b) ==
    /\ side' = [side EXCEPT ![b] = [at |-> "ready", shows |-> cache.list]]
    /\ UNCHANGED <<inflight, load, awaits>>

\* refresh(force), by sidebar b (Nobody when it was unmounted) after change n (0 for none).
MutantRefresh(b, force, n) ==  \* a forced refresh joins the load under way
    IF ~force /\ cache.fresh THEN ShowsCache(b)
    ELSE \E l \in Loads :
           /\ IF inflight # NoLoad
                THEN l = inflight /\ UNCHANGED <<inflight, load>>
                ELSE IsNext(l, load) /\ load' = [load EXCEPT ![l].at = "asked"] /\ inflight' = l
           /\ Awaits(b, l, n)
Refresh(b, force, n) ==
    IF ~force /\ cache.fresh THEN ShowsCache(b)
    ELSE \E l \in Loads :
           /\ IF inflight # NoLoad /\ ~force
                THEN l = inflight /\ UNCHANGED <<inflight, load>>
                ELSE IsNext(l, load) /\ load' = [load EXCEPT ![l].at = "asked"] /\ inflight' = l
           /\ Awaits(b, l, n)

\* A sidebar that mounts shows the cache, if that is fresh, and refreshes.
Mounts(b) ==
    /\ side[b].at = "idle"
    /\ Refresh(b, FALSE, 0)
    /\ UNCHANGED <<changes, cache, request>>

\* Its requests and loads go on, for nobody.
Unmounts(b) ==
    /\ side[b].at # "idle"
    /\ side' = [side EXCEPT ![b] = NoRows("idle")]
    /\ awaits' = {e \in awaits : e.side # b}
    /\ request' = [r \in Changes |-> IF request[r].side = b THEN [request[r] EXCEPT !.side = Nobody]
                                     ELSE request[r]]
    /\ UNCHANGED <<changes, cache, inflight, load>>

\* renameConversation and deleteConversation, from a row that is there: the request ...
ChangeConversation(b) ==
    /\ side[b].at = "ready" /\ side[b].shows # Failed
    /\ \E r \in Changes :
          /\ IsNext(r, request)
          /\ request' = [request EXCEPT ![r] = [at |-> "sent", side |-> b, change |-> 0]]
    /\ UNCHANGED <<changes, cache, inflight, load, side, awaits>>

\* ... is carried out ...
ServerChanges(r) ==
    /\ request[r].at = "sent" /\ changes' = changes + 1
    /\ request' = [request EXCEPT ![r].at = "made", ![r].change = changes + 1]
    /\ UNCHANGED <<cache, inflight, load, side, awaits>>

\* ... and the list is loaded again, or, when it failed or its answer was lost, is not.
ChangeSucceeds(r) ==
    /\ request[r].at = "made" /\ request' = [request EXCEPT ![r] = RequestOver]
    /\ Refresh(request[r].side, TRUE, request[r].change)
    /\ UNCHANGED <<changes, cache>>
ChangeFails(r) ==
    /\ request[r].at \in {"sent", "made"} /\ request' = [request EXCEPT ![r] = RequestOver]
    /\ UNCHANGED <<changes, cache, inflight, load, side, awaits>>

\* Another browser, or the chat route, changes the sessions.
OthersChange ==
    /\ changes' = changes + 1
    /\ \E r \in Changes : IsNext(r, request) /\ request' = [request EXCEPT ![r] = RequestOver]
    /\ UNCHANGED <<cache, inflight, load, side, awaits>>

\* GET /api/sessions reads the sessions at some time between the two ends of a load.
Reads(l) ==
    /\ load[l].at = "asked"
    /\ \E list \in {changes, Failed} : load' = [load EXCEPT ![l] = [at |-> "read", list |-> list]]
    /\ UNCHANGED <<changes, cache, inflight, side, request, awaits>>

\* The load fills the cache and is no longer under way, also when a later one is; who
\* awaits it shows it, whatever it shows or awaits besides.
LoadReturns(l) ==
    /\ load[l].at = "read"
    /\ cache' = [list |-> load[l].list, fresh |-> TRUE]
    /\ inflight' = NoLoad
    /\ load' = [load EXCEPT ![l] = [at |-> "over", list |-> 0]]
    /\ side' = [b \in Sidebars |->
           IF \E e \in awaits : e.side = b /\ e.load = l
             THEN [at |-> "ready", shows |-> load[l].list] ELSE side[b]]
    /\ awaits' = {e \in awaits : e.load # l}
    /\ UNCHANGED <<changes, request>>

CacheExpires ==
    /\ cache.fresh /\ cache' = [cache EXCEPT !.fresh = FALSE]
    /\ UNCHANGED <<changes, inflight, load, side, request, awaits>>

ListNext ==
    \/ \E b \in Sidebars : Mounts(b) \/ Unmounts(b) \/ ChangeConversation(b)
    \/ \E r \in Changes : ServerChanges(r) \/ ChangeSucceeds(r) \/ ChangeFails(r)
    \/ \E l \in Loads : Reads(l) \/ LoadReturns(l)
    \/ OthersChange \/ CacheExpires

ListSpec == ListInit /\ [][ListNext]_listVars

----------------------------------------------------------------------------
(* The list a sidebar shows at the moment the refresh after one of its own renames or
   deletions returns was read after that change, unless the load failed, however many
   requests and loads it and the other sidebars have under way: no load begun earlier
   stands in for it.  It need not stay so: a load of the same sidebar that was begun
   earlier and returns later shows its older list over it, and leaves it in the cache. *)
RefreshShowsItsChange ==
    [][\A e \in awaits :
         e.change > 0 /\ e \notin awaits' /\ side'[e.side].at = "ready"
           => side'[e.side].shows = Failed \/ side'[e.side].shows >= e.change]_listVars
=============================================================================
