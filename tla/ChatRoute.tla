----------------------------- MODULE ChatRoute ------------------------------
(***************************************************************************)
(* POST /api/chat (app/api/chat/route.ts) and the backend stream of        *)
(* lib/nat-client.ts.  A request relays what the backend streams and, when *)
(* that is over, appends the exchange to its session, whether or not the   *)
(* browser still listens: the stream has no cancel().  The backend is      *)
(* external, and whether a request is let through is up to CostGovernance. *)
(***************************************************************************)
EXTENDS SessionStore

CONSTANT MaxWords  \* bound: tokens of one answer

ASSUME ChatAssumption == MaxWords \in Nat

VARIABLES
    phase,      \* what the handler of a chat request is at
    client,     \* the browser's end of the response: "open", "gone" or "closed"
    said,       \* assistantContent, in visible tokens
    given       \* visible tokens the backend has sent

chatVars == <<phase, client, said, given>>
vars == <<storeVars, chatVars>>

Init ==
    /\ StoreInit
    /\ phase = [c \in Chats |-> "idle"]
    /\ client = [c \in Chats |-> "open"]
    /\ said = [c \in Chats |-> 0]
    /\ given = [c \in Chats |-> 0]

----------------------------------------------------------------------------
\* Refused with 429, or relayed.
Post(c) ==
    /\ phase[c] = "idle"
    /\ \E next \in {"refused", "streaming"} : phase' = [phase EXCEPT ![c] = next]
    /\ UNCHANGED <<storeVars, client, said, given>>

\* The first enqueue after the browser has gone throws, and isClosed is set; what
\* the backend streams is collected all the same.
MutantEmitVisibleToken(c) ==  \* nothing is collected for a closed stream
    said' = IF client[c] = "open" THEN [said EXCEPT ![c] = @ + 1] ELSE said
EmitVisibleToken(c) == said' = [said EXCEPT ![c] = @ + 1]

\* onToken with a visible piece of text (ThinkParser finds which pieces are).
Token(c) ==
    /\ phase[c] = "streaming" /\ given[c] < MaxWords
    /\ EmitVisibleToken(c)
    /\ given' = [given EXCEPT ![c] = @ + 1]
    /\ UNCHANGED <<storeVars, phase, client>>

\* persistExchange reads the session.
Persist(c, failed) ==
    /\ AppendReads(c, Exchange(c, said[c], failed))
    /\ phase' = [phase EXCEPT ![c] = IF failed THEN "failing" ELSE "persisting"]
    /\ UNCHANGED <<client, said, given>>

BackendEnds(c)  == phase[c] = "streaming" /\ Persist(c, FALSE)
BackendFails(c) == phase[c] = "streaming" /\ Persist(c, TRUE)

\* The abort timer of the request covers the reading of the body.
MutantTimesOut(c) ==  \* the timer is cleared once the first token has come
    phase[c] = "streaming" /\ given[c] = 0 /\ Persist(c, TRUE)
TimesOut(c) == phase[c] = "streaming" /\ Persist(c, TRUE)

\* persistExchange does not throw, enqueue and close are guarded: the handler
\* says [DONE] and closes once.
Close(c) ==
    /\ phase[c] \in {"persisting", "failing"} /\ task[c].at = "over"
    /\ phase' = [phase EXCEPT ![c] = "closed"]
    /\ client' = [client EXCEPT ![c] = IF @ = "open" THEN "closed" ELSE @]
    /\ UNCHANGED <<storeVars, said, given>>

\* The user stops the answer, closes the tab or loses the connection.
ClientLeaves(c) ==
    /\ phase[c] \notin {"idle", "refused"} /\ client[c] = "open"
    /\ client' = [client EXCEPT ![c] = "gone"]
    /\ UNCHANGED <<storeVars, phase, said, given>>

Handles(c) ==
    \/ Post(c) \/ Token(c) \/ BackendEnds(c) \/ BackendFails(c)
    \/ TimesOut(c) \/ Close(c) \/ ClientLeaves(c)

Next ==
    \/ StoreNext /\ UNCHANGED chatVars
    \/ \E c \in Chats : Handles(c)

Spec == Init /\ [][Next]_vars

\* File operations return, and the abort timer of a stream fires.
Fairness ==
    /\ \A t \in Tasks : WF_vars(Writes(t) /\ UNCHANGED chatVars)
    /\ \A c \in Chats : WF_vars(TimesOut(c)) /\ WF_vars(Close(c))

FairSpec == Spec /\ Fairness

----------------------------------------------------------------------------
TypeOK ==
    /\ StoreTypeOK
    /\ phase \in [Chats -> {"idle", "refused", "streaming", "persisting", "failing", "closed"}]
    /\ client \in [Chats -> {"open", "gone", "closed"}]
    /\ said \in [Chats -> Nat] /\ given \in [Chats -> Nat]

(* However appends, renames and feedback interleave, and whatever of one another they
   overwrite, a session holds the exchange of a request once at most, and then all the
   backend said, failed or not, with the browser there to the end or gone before it. *)
StoredOnceWhole ==
    \A k \in Keys : file[k] \notin {Absent, Torn} =>
        \A i, j \in DOMAIN file[k].log :
            /\ file[k].log[i].chat = file[k].log[j].chat => i = j
            /\ file[k].log[i].words = given[file[k].log[i].chat]

(* Every stream a request opened is closed: a backend that hangs is timed out. *)
StreamCloses == \A c \in Chats : phase[c] = "streaming" ~> phase[c] = "closed"

(* A session that is on disk has the user who began it as its creator, as the
   session-ownership specification asks; the sidebar begins one with a key of its own
   and the first append writes it. *)
CreatorRecorded ==
    \A k \in Keys : file[k] \notin {Absent, Torn} => file[k].owner # System
=============================================================================
