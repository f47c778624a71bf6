-------------------------- MODULE NewConversation ---------------------------
(***************************************************************************)
(* A new conversation in the browser: the button of the sidebars           *)
(* (components/layout/sidebar.tsx), locked until the route is there or six *)
(* seconds have passed, the command /new and the effects of the chat panel *)
(* (components/chat/chat-panel.tsx), and the milestones that               *)
(* lib/new-conversation-latency.ts emits of the attempt in sessionStorage. *)
(* Sessions are numbered as they are begun; 0 is another page.              *)
(***************************************************************************)
EXTENDS Integers, SequencesExt

CONSTANTS
    Rails,        \* the sidebars of the page
    MaxSessions,  \* bound: conversations begun
    MaxVisits     \* bound: navigations to a conversation by its link or by history

ASSUME NewConversationAssumption == MaxSessions \in Nat /\ MaxVisits \in Nat

Milestones == <<"create_click", "feedback_visible", "route_ready", "history_ready">>
NoAttempt  == [key |-> 0, emitted |-> <<>>]
Nowhere    == [key |-> 0, bootstrap |-> FALSE]

VARIABLES
    begun,        \* sessions begun
    visits,      \* navigations by links
    creating,    \* pendingSessionKey of each sidebar, 0 when its button is not locked
    going,       \* navigations that have begun: the newest is the one that arrives
    page,        \* the route: its session, and whether it says bootstrap=new
    attempt,     \* the pending attempt in sessionStorage
    historyOf,   \* the session whose history is being loaded, or 0
    emitted      \* the events so far of each attempt, whose id they carry

newVars == <<begun, visits, creating, going, page, attempt, historyOf, emitted>>

NewInit ==
    /\ begun = 0 /\ visits = 0
    /\ creating = [b \in Rails |-> 0]
    /\ going = <<>> /\ page = Nowhere
    /\ attempt = NoAttempt /\ historyOf = 0
    /\ emitted = [k \in 1 .. MaxSessions |-> <<>>]

----------------------------------------------------------------------------
\* tryEmit, for the attempt a: what it becomes, and the events.
MutantTryEmit(a, milestone) ==  \* also what was emitted is
    [attempt |-> [a EXCEPT !.emitted = Append(@, milestone)],
     events  |-> <<milestone>>]
TryEmit(a, milestone) ==
    IF milestone \in ToSet(a.emitted) THEN [attempt |-> a, events |-> <<>>]
    ELSE [attempt |-> [a EXCEPT !.emitted = Append(@, milestone)],
          events  |-> <<milestone>>]

\* beginNewConversationAttempt and markNewConversationFeedbackVisible.
Begins(k) ==
    LET click   == TryEmit([key |-> k, emitted |-> <<>>], "create_click")
        visible == TryEmit(click.attempt, "feedback_visible")
    IN  /\ begun' = k /\ k <= MaxSessions
        /\ attempt' = visible.attempt
        /\ emitted' = [emitted EXCEPT ![k] = click.events \o visible.events]
        /\ going' = <<[key |-> k, bootstrap |-> TRUE]>>

CreateConversation(b) ==
    /\ creating[b] = 0
    /\ Begins(begun + 1)
    /\ creating' = [creating EXCEPT ![b] = begun + 1]
    /\ UNCHANGED <<visits, page, historyOf>>

SlashNew ==
    /\ page.key # 0 /\ Begins(begun + 1)
    /\ UNCHANGED <<visits, creating, page, historyOf>>

\* A link of the list, or the browser's history, which also holds the routes of new
\* conversations.
Visits ==
    /\ visits < MaxVisits /\ visits' = visits + 1
    /\ \E k \in 0 .. begun, bootstrap \in BOOLEAN :
          going' = <<[key |-> k, bootstrap |-> bootstrap /\ k # 0]>>
    /\ UNCHANGED <<begun, creating, page, attempt, historyOf, emitted>>

\* The route arrives: the sidebars unlock, and the panel's effects, unless the route is
\* the one it had, mark it and load its history; an older load is aborted.
RouteReady(to) ==
    IF to.key # 0 /\ attempt.key = to.key
      THEN LET ready == TryEmit(attempt, "route_ready")
           IN  /\ emitted' = [emitted EXCEPT ![to.key] = @ \o ready.events]
               /\ attempt' = IF to.bootstrap THEN NoAttempt ELSE ready.attempt
      ELSE UNCHANGED <<attempt, emitted>>

RouteArrives ==
    /\ going # <<>> /\ going' = <<>> /\ page' = going[1]
    /\ creating' = [b \in Rails |-> IF creating[b] = page'.key THEN 0 ELSE creating[b]]
    /\ IF page' = page THEN UNCHANGED <<attempt, historyOf, emitted>>
       ELSE /\ RouteReady(page')
            /\ historyOf' = IF page'.bootstrap THEN 0 ELSE page'.key
    /\ UNCHANGED <<begun, visits>>

\* loadHistory returns, or fails.
HistoryReady ==
    /\ historyOf # 0 /\ historyOf' = 0
    /\ IF attempt.key = historyOf
         THEN /\ emitted' = [emitted EXCEPT ![historyOf] = @ \o TryEmit(attempt, "history_ready").events]
              /\ attempt' = NoAttempt
         ELSE UNCHANGED <<attempt, emitted>>
    /\ UNCHANGED <<begun, visits, creating, going, page>>

\* The timer of six seconds, which the navigation may take longer than.
ResetTimeout(b) ==
    /\ creating[b] # 0 /\ creating' = [creating EXCEPT ![b] = 0]
    /\ UNCHANGED <<begun, visits, going, page, attempt, historyOf, emitted>>

NewNext ==
    \/ \E b \in Rails : CreateConversation(b) \/ ResetTimeout(b)
    \/ SlashNew \/ Visits \/ RouteArrives \/ HistoryReady

NewSpec == NewInit /\ [][NewNext]_newVars

----------------------------------------------------------------------------
(* However often the user clicks again, leaves or comes back before a route or a history
   is there, the milestones of an attempt are emitted in their order and each once, and
   the pending attempt knows which were; and no sidebar is locked for the conversation
   that is on the page. *)
AttemptsInOrder ==
    /\ \A k \in 1 .. begun :
          /\ Len(emitted[k]) \in 2 .. Len(Milestones)
          /\ \A i \in DOMAIN emitted[k] : emitted[k][i] = Milestones[i]
    /\ attempt.key # 0 => attempt.emitted = emitted[attempt.key]
    /\ \A b \in Rails : creating[b] # 0 => creating[b] # page.key
=============================================================================
