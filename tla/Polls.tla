-------------------------------- MODULE Polls -------------------------------
(***************************************************************************)
(* The panels of the cognitive UI that ask the server again and again: the *)
(* gateway's status (components/chat/gateway-status.tsx), the ops          *)
(* dashboard (hooks/use-ops-status.ts, use-ops-jobs.ts, use-ops-notes.ts,  *)
(* use-ops-observability.ts, components/ops/cron-jobs-panel.tsx); and two  *)
(* that ask once and after their own changes: the sidebar's jobs           *)
(* (components/layout/cron-jobs.tsx) and the users                         *)
(* (components/admin/users-admin-panel.tsx).  The routes under app/api are *)
(* in the answers.                                                         *)
(***************************************************************************)
EXTENDS Integers

CONSTANTS
    Down,       \* the answer of a backend that is down
    Items,      \* containers, jobs, notes, or active users
    MaxAsks,    \* bound: requests of the panel that are under way at once
    MaxTurns    \* bound: changes of the items, and times the backend goes down or up

Polling == {"gateway", "status", "jobs", "notes", "summary", "crontable"}
Manual  == {"sidebar", "users"}
Asks    == 1 .. MaxAsks

VARIABLES
    panel,     \* the panel of this behaviour, or "none"
    up,        \* the backend answers
    items,     \* what it has
    turns,     \* times up or items changed without the panel
    ask,       \* the panel's requests
    latest,    \* requestIdRef of the gateway's status: the newest request
    deleting,  \* the sidebar's deletions that have not returned
    shown      \* what the panel shows: data, status, and whether it is busy

pollVars == <<panel, up, items, turns, ask, latest, deleting, shown>>

NoAsk == [at |-> "idle", poll |-> FALSE, got |-> Down]

\* The mount asks for the first time.
PollsInit ==
    /\ panel \in Polling \cup Manual \cup {"none"}
    /\ up = TRUE /\ items = {} /\ turns = 0 /\ deleting = {}
    /\ ask = [a \in Asks |-> IF a = 1 /\ panel # "none" THEN [NoAsk EXCEPT !.at = "asked", !.poll = TRUE] ELSE NoAsk]
    /\ latest = 1
    /\ shown = [data |-> {}, status |-> "loading", busy |-> TRUE]

----------------------------------------------------------------------------
\* A fetch begins: some panels take the error away first, some show that they load.
Begins(s, forced) ==
    [s EXCEPT !.busy   = @ \/ panel \in {"gateway", "status", "notes", "users"},
              !.status = IF \/ panel \in {"status", "notes"} /\ ~forced
                            \/ panel = "users"
                           THEN "ok"
                         ELSE IF panel = "gateway" /\ forced THEN "loading" ELSE @]

Fetch(forced) ==
    \E a \in Asks :
        /\ ask[a].at = "idle" /\ \A b \in 1 .. a - 1 : ask[b].at # "idle"
        /\ ask' = [ask EXCEPT ![a] = [at |-> "asked", poll |-> ~forced, got |-> Down]]
        /\ latest' = a
        /\ shown' = Begins(shown, forced)

\* The interval.  A health check takes at most 3 s of the gateway's 15: two of its polls
\* are never under way together.
Poll ==
    /\ panel \in Polling
    /\ panel = "gateway" => \A a \in Asks : ask[a].at = "idle" \/ ~ask[a].poll
    /\ Fetch(FALSE)
    /\ UNCHANGED <<panel, up, items, turns, deleting>>

\* handleRetryConnection, and the retry of the containers' table.
Retry ==
    /\ panel \in {"gateway", "status"} /\ shown.status = "error"
    /\ panel = "gateway" => ~shown.busy
    /\ Fetch(TRUE)
    /\ UNCHANGED <<panel, up, items, turns, deleting>>

\* What the routes answer: those of the notes and of the summary hide that the backend
\* is down, the users are the web server's own.
HealthAnswer  == IF up THEN {} ELSE Down
StatusAnswer  == IF up THEN items ELSE Down
JobsAnswer    == IF up THEN items ELSE Down
NotesAnswer   == IF up THEN items ELSE {}
SummaryAnswer == IF up THEN items ELSE {}
UsersAnswer   == items

Answer ==
    CASE panel = "gateway" -> HealthAnswer
      [] panel = "status"  -> StatusAnswer
      [] panel \in {"jobs", "crontable", "sidebar"} -> JobsAnswer
      [] panel = "notes"   -> NotesAnswer
      [] panel = "summary" -> SummaryAnswer
      [] panel = "users"   -> UsersAnswer

Answered(a) ==
    /\ ask[a].at = "asked"
    /\ ask' = [ask EXCEPT ![a].at = "answered", ![a].got = Answer]
    /\ UNCHANGED <<panel, up, items, turns, latest, deleting, shown>>

\* The handler of the response: what a failure leaves on the screen.
MutantReceives(s, got) ==  \* after a failure the old data stay
    IF got = Down THEN [s EXCEPT !.status = "error", !.busy = FALSE]
    ELSE [data |-> got, status |-> "ok", busy |-> FALSE]
Receives(s, got) ==
    IF got # Down THEN [data |-> got, status |-> "ok", busy |-> FALSE]
    ELSE IF panel \in {"crontable", "sidebar"} THEN [s EXCEPT !.busy = FALSE]
    ELSE IF panel = "users" THEN [s EXCEPT !.status = "error", !.busy = FALSE]
    ELSE [data |-> {}, status |-> "error", busy |-> FALSE]

\* Only the gateway's status ignores the answer to a request that is not the newest.
Returns(a) ==
    /\ ask[a].at = "answered"
    /\ shown' = IF panel = "gateway" /\ a # latest THEN shown ELSE Receives(shown, ask[a].got)
    /\ ask' = [ask EXCEPT ![a] = NoAsk]
    /\ UNCHANGED <<panel, up, items, turns, latest, deleting>>

\* deleteJob: the job leaves the list when the server says so; a 404 leaves the list alone.
DeleteJob(i) ==
    /\ panel = "sidebar" /\ up /\ i \in shown.data \cap items
    /\ items' = items \ {i} /\ deleting' = deleting \cup {i}
    /\ UNCHANGED <<panel, up, turns, ask, latest, shown>>

Deleted(i) ==
    /\ i \in deleting /\ deleting' = deleting \ {i}
    /\ shown' = [shown EXCEPT !.data = @ \ {i}]
    /\ UNCHANGED <<panel, up, items, turns, ask, latest>>

\* onCreateUser and onToggleUser: a success is followed by a fetch, a failure is shown.
ChangeUser(i) ==
    /\ panel = "users"
    /\ \/ /\ turns < MaxTurns /\ turns' = turns + 1
          /\ items' \in {items \cup {i}, items \ {i}} /\ items' # items
          /\ Fetch(FALSE)
       \/ shown' = [shown EXCEPT !.status = "error"] /\ UNCHANGED <<items, turns, ask, latest>>
    /\ UNCHANGED <<panel, up, deleting>>

\* The backend goes down or comes up, or its items change.
BackendTurns ==
    /\ turns < MaxTurns /\ turns' = turns + 1
    /\ \/ up' = ~up /\ UNCHANGED items
       \/ \E i \in Items : items' \in {items \cup {i}, items \ {i}} /\ UNCHANGED up
    /\ UNCHANGED <<panel, ask, latest, deleting, shown>>

PollsNext ==
    \/ Poll \/ Retry \/ BackendTurns
    \/ \E a \in Asks : Answered(a) \/ Returns(a)
    \/ \E i \in Items : DeleteJob(i) \/ Deleted(i) \/ ChangeUser(i)

\* The interval goes on, and every request returns: the routes' calls have timeouts,
\* their own of 3 or 4 s or, that for jobs, the one of fetch.
PollsFairness ==
    /\ WF_pollVars(Poll)
    /\ \A a \in Asks : WF_pollVars(Answered(a) \/ Returns(a))

----------------------------------------------------------------------------
(* When the backend has settled, a panel that polls shows in the end, and from then on,
   what the backend has, however its requests overlapped.  Of a backend that is down it
   shows nothing, or, the table of jobs, what it last had; and the gateway's light is
   never green while the gateway is down, nor red while it is up. *)
PanelsCatchUp ==
    panel \in Polling =>
        <>[](IF panel = "gateway" THEN shown.status # IF up THEN "error" ELSE "ok"
             ELSE IF up THEN shown.data = items
             ELSE panel = "crontable" \/ shown.data = {})
=============================================================================
