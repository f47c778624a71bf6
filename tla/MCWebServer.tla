---------------------------- MODULE MCWebServer -----------------------------
(***************************************************************************)
(* The servers of the two web UIs, and the views that poll them, for TLC.  *)
(* Their parts share no state: a behaviour is one of the part it begins    *)
(* with.  The chat route has two questions of one user in one session, and *)
(* a request of either user to a session route; or, as "sessions", one     *)
(* question and two requests to session routes, so that the session may be *)
(* created and removed by its creator, by another user and by neither.     *)
(***************************************************************************)
EXTENDS ChatRoute, CostGovernance, UserStore, ThinkParser, LineStreams, TraceStats, LegacyProxy,
        Polls, DataStreams, TLC

CONSTANTS k1, alice, root, c1, c2, r1, r2, t1, t2, t3, large, spare, unheard, alias

MCKeyOf   == [c \in {c1, c2} |-> k1]
MCAskedBy == [c \in {c1, c2} |-> alice]

\* A model production blocks, the fallback, called by another name than its key, and a name
\* nobody knows; as in the code every key has a price.  Two users share a session.
MCAliases  == [m \in {large, alias} |-> IF m = alias THEN spare ELSE m]
MCRegistry ==
    [m \in {large, spare} |->
        [policyTag |-> [e \in {"development", "production"} |->
                           IF m = spare THEN "allow" ELSE IF e = "production" THEN "block" ELSE "none"],
         riskLevel |-> IF m = large THEN "high" ELSE "medium",
         costCategory |-> "high"]]
MCPrice   == [m \in {large, spare} |-> IF m = large THEN 2 ELSE 1]
MCCallers == {[user |-> "u", session |-> "x"], [user |-> "v", session |-> "x"],
              [user |-> "u", session |-> "y"]}
Config(enabled, hard, action, key, env) ==
    [enabled |-> enabled, enforceSoftLimit |-> TRUE, enforceHardLimit |-> hard,
     hardLimitAction |-> action, fallbackModelKey |-> key, policyEnvironment |-> env]
MCConfigs ==
    {Config(TRUE, TRUE, "block", alias, "production"),
     Config(TRUE, TRUE, "fallback", alias, "development"),
     Config(TRUE, TRUE, "fallback", large, "production"),
     Config(TRUE, FALSE, "block", alias, "production"),
     Config(FALSE, TRUE, "block", alias, "production")}

\* Three traces: one that fails, one with events that have no time and an overflow, one
\* whose times are in seconds, with the span of its last event.
Event(t, time, lasted, type, tool, words) ==
    [trace |-> t, time |-> time, unit |-> "ms", lasted |-> lasted, since |-> Missing,
     type |-> type, tool |-> tool, words |-> words, state |-> "none"]
MCLines ==
    {Malformed, Event(Missing, 3, Missing, "", Missing, {}),
     Event(t1, 0, Missing, "llm", Missing, {"context window"}),
     Event(t1, 2, 3, "tool_start", "x", {}),
     Event(t1, 4, Missing, "tool_end", "x", {"timeout", "context window returned"}),
     [Event(t2, 5, Missing, "", "the_tool", {}) EXCEPT !.state = "failed"],
     Event(t2, Missing, 2, "llm", "x", {"context window", "fail"}),
     Event(t3, 1, Missing, "", "x", {}),
     [Event(t3, 4, Missing, "tool_end", "x", {}) EXCEPT !.unit = "s", !.since = 3]}

VARIABLE part

serverVars == <<vars, costVars, userVars, thinkVars, lineVars, statsVars, proxyVars, pollVars, streamVars,
                part>>

ServerInit ==
    /\ part \in {"chat", "sessions", "cost", "users", "think", "lines", "stats", "proxy", "polls", "streams"}
    /\ Init /\ CostInit /\ UsersInit /\ ThinkInit /\ LineInit /\ StatsInit /\ ProxyInit
    /\ PollsInit /\ StreamsInit
    /\ part = "cost" \/ ~config.enabled
    /\ part = "lines" \/ reader = "nat"
    /\ part = "polls" <=> panel # "none"
    /\ part = "streams" <=> view # "none"

Leave(p, v) == part # p => UNCHANGED v

ServerNext ==
    /\ UNCHANGED part
    /\ part \notin {"chat", "sessions"} => UNCHANGED vars
    /\ Leave("cost", costVars) /\ Leave("users", userVars) /\ Leave("think", thinkVars)
    /\ Leave("lines", lineVars) /\ Leave("stats", statsVars) /\ Leave("proxy", proxyVars)
    /\ Leave("polls", pollVars) /\ Leave("streams", streamVars)
    /\ \/ part = "chat" /\ Next /\ UNCHANGED task[r2]
       \/ part = "sessions" /\ Next /\ UNCHANGED phase[c2]
       \/ part = "cost" /\ CostNext
       \/ part = "users" /\ UsersNext
       \/ part = "think" /\ ThinkNext
       \/ part = "lines" /\ LineNext
       \/ part = "stats" /\ StatsNext
       \/ part = "proxy" /\ ProxyNext
       \/ part = "polls" /\ PollsNext
       \/ part = "streams" /\ StreamsNext

\* In the other parts nothing that a part's fairness speaks of is enabled.
ServerSpec ==
    /\ ServerInit /\ [][ServerNext]_serverVars
    /\ Fairness /\ PollsFairness /\ StreamsFairness
=============================================================================
