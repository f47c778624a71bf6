------------------------------ MODULE Composer ------------------------------
(***************************************************************************)
(* The composer of the chat panel (components/chat/chat-panel.tsx): the    *)
(* draft and the commands offered while it is typed, the list of tools     *)
(* fetched for "/tools", the file attached to the next message, and the    *)
(* edit of an earlier message.  What a send does to the messages is        *)
(* ChatPanel's.                                                            *)
(***************************************************************************)
EXTENDS Integers, FiniteSets

CONSTANT MaxAttached   \* bound: files chosen

Files  == 1 .. MaxAttached
NoFile == 0
Drafts == {"", "text", "/", "/tools", "/tools ", "/tools x", "/help"}

VARIABLES
    draft,     \* input, isAutocompleteHidden, autocompleteIndex
    tools,     \* didLoadToolsRef, isToolsLoading, the options, and the fetch
    chosen,      \* per file chosen: where it is, and how often it was sent
    attached,  \* attachedFile
    refused,   \* attachError is shown
    edits,     \* editingMessageIndex is set
    busy       \* isSending

composerVars == <<draft, tools, chosen, attached, refused, edits, busy>>

ComposerInit ==
    /\ draft = [text |-> "", hidden |-> FALSE, index |-> 0]
    /\ tools = [asked |-> FALSE, loading |-> FALSE, options |-> 0, fetch |-> "none"]
    /\ chosen = [f \in Files |-> [at |-> "none", sent |-> 0]]
    /\ attached = NoFile /\ refused = FALSE /\ edits = FALSE /\ busy = FALSE

----------------------------------------------------------------------------
AsksForTools(text) == text \in {"/tools", "/tools ", "/tools x"}

\* autocompleteItems, as their number: "/tools " lists the tools, or that they load.
Items(text, t) ==
    CASE text \in {"", "text"}            -> 0
      [] text \in {"/tools ", "/tools x"} -> IF t.loading /\ t.options = 0 THEN 1 ELSE t.options
      [] text \in {"/tools", "/help"}     -> 1
      [] text = "/"                       -> 2
Offered == IF draft.hidden THEN 0 ELSE Items(draft.text, tools)

\* The effect of the tools: it runs again when the draft or isToolsLoading changes,
\* after the cleanup of its last run has aborted the fetch.
ToolsEffect(text, t) ==
    LET cleaned == [t EXCEPT !.fetch = IF @ = "flying" THEN "aborted" ELSE @]
    IN  IF AsksForTools(text) /\ ~t.asked /\ ~t.loading
          THEN [cleaned EXCEPT !.asked = TRUE, !.loading = TRUE, !.fetch = "begun"]
          ELSE cleaned

\* A draft, with what its effects do; the index is set back when the items change.
Shows(text, hidden) ==
    /\ draft' = [text |-> text, hidden |-> hidden, index |-> 0]
    /\ tools' = IF text = draft.text THEN tools ELSE ToolsEffect(text, tools)

\* handleInputChange, a quick action or a prompt of the help card.
HandleInputChange ==
    /\ \E text \in Drafts : Shows(text, FALSE)
    /\ UNCHANGED <<chosen, attached, refused, edits, busy>>
QuickAction ==
    /\ Shows("text", draft.hidden)
    /\ UNCHANGED <<chosen, attached, refused, edits, busy>>

\* The render after setIsToolsLoading(true) runs the effect again: its cleanup aborts
\* the fetch just begun, unless the answer is there before.
EffectRunsAgain ==
    /\ tools.fetch = "begun" /\ tools' = [tools EXCEPT !.fetch = "aborted"]
    /\ UNCHANGED <<draft, chosen, attached, refused, edits, busy>>
\* GET /api/tools: the names, or an error.
ToolsReturn ==
    /\ tools.fetch = "begun"
    /\ \E n \in {0, 2} : tools' = [tools EXCEPT !.fetch = "none", !.loading = FALSE, !.options = n]
    /\ draft' = [draft EXCEPT !.index = 0]
    /\ UNCHANGED <<chosen, attached, refused, edits, busy>>
\* The finally block leaves isToolsLoading alone when its signal is aborted.
AbortEnds ==
    /\ tools.fetch = "aborted" /\ tools' = [tools EXCEPT !.fetch = "none"]
    /\ UNCHANGED <<draft, chosen, attached, refused, edits, busy>>

----------------------------------------------------------------------------
\* handleInputKeyDown, while items are shown ...
Arrow ==
    /\ Offered > 0
    /\ \E step \in {1, Offered - 1} : draft' = [draft EXCEPT !.index = (@ + step) % Offered]
    /\ UNCHANGED <<tools, chosen, attached, refused, edits, busy>>

\* applyAutocomplete: the line that says the tools load is not applied.
ApplyAutocomplete ==
    /\ draft.index < Offered
    /\ IF AsksForTools(draft.text) /\ draft.text # "/tools"
         THEN IF tools.loading /\ tools.options = 0 THEN UNCHANGED <<draft, tools>>
              ELSE Shows("/tools x", TRUE)
         ELSE \E text \in {"/tools ", "/help"} :
                  /\ draft.text = "/tools" => text = "/tools "
                  /\ draft.text = "/help" => text = "/help"
                  /\ Shows(text, TRUE)
    /\ UNCHANGED <<chosen, attached, refused, edits, busy>>
Escape ==
    /\ Offered > 0 /\ draft' = [draft EXCEPT !.hidden = TRUE, !.index = 0]
    /\ UNCHANGED <<tools, chosen, attached, refused, edits, busy>>

\* ... and when none is.
CancelEdit ==
    /\ Offered = 0 /\ edits
    /\ edits' = FALSE /\ Shows("", draft.hidden)
    /\ UNCHANGED <<chosen, attached, refused, busy>>

BeginEdit ==
    /\ ~busy /\ edits' = TRUE
    /\ \E text \in Drafts \ {""} : Shows(text, draft.hidden)
    /\ UNCHANGED <<chosen, attached, refused, busy>>

\* onSubmit: the edit and the attachment are taken also when a send is under way, which
\* ignores the message; a command, with the file's content behind it or not, is run, any
\* other text is sent.  A "/" alone stays where it is.
Sent == ~busy /\ draft.text \in {"", "text"}
MutantOnSubmit ==  \* the attachment stays
    /\ Offered = 0 /\ (draft.text # "" \/ attached # NoFile)
    /\ edits' = FALSE
    /\ chosen' = IF attached = NoFile THEN chosen
               ELSE [chosen EXCEPT ![attached] = [at |-> "gone", sent |-> @.sent + IF Sent THEN 1 ELSE 0]]
    /\ IF draft.text \in {"", "text"}
         THEN /\ busy' = TRUE
              /\ IF busy THEN UNCHANGED <<draft, tools>> ELSE Shows("", draft.hidden)
         ELSE /\ Shows(IF draft.text = "/" THEN "/" ELSE "", draft.hidden)
              /\ UNCHANGED busy
    /\ UNCHANGED <<attached, refused>>
OnSubmit ==
    /\ Offered = 0 /\ (draft.text # "" \/ attached # NoFile)
    /\ edits' = FALSE /\ attached' = NoFile
    /\ chosen' = IF attached = NoFile THEN chosen
               ELSE [chosen EXCEPT ![attached] = [at |-> "gone", sent |-> @.sent + IF Sent THEN 1 ELSE 0]]
    /\ IF draft.text \in {"", "text"}
         THEN /\ busy' = TRUE
              /\ IF busy THEN UNCHANGED <<draft, tools>> ELSE Shows("", draft.hidden)
         ELSE /\ Shows(IF draft.text = "/" THEN "/" ELSE "", draft.hidden)
              /\ UNCHANGED busy
    /\ UNCHANGED refused

SendEnds ==
    /\ busy /\ busy' = FALSE
    /\ UNCHANGED <<draft, tools, chosen, attached, refused, edits>>

----------------------------------------------------------------------------
\* handleFileSelect, from the button, a drop (neither while sending) or a paste.
HandleFileSelect(f) ==
    /\ chosen[f].at = "none" /\ \A g \in 1 .. f - 1 : chosen[g].at # "none"
    /\ \E valid \in BOOLEAN :
          /\ refused' = ~valid
          /\ chosen' = [chosen EXCEPT ![f].at = IF valid THEN "reading" ELSE "gone"]
    /\ UNCHANGED <<draft, tools, attached, edits, busy>>

\* reader.onload, in the order the readings end: what was attached is replaced.
ReaderLoads(f) ==
    /\ chosen[f].at = "reading"
    /\ chosen' = [g \in Files |-> IF g = f THEN [chosen[g] EXCEPT !.at = "attached"]
                                ELSE IF g = attached THEN [chosen[g] EXCEPT !.at = "gone"]
                                ELSE chosen[g]]
    /\ attached' = f
    /\ UNCHANGED <<draft, tools, refused, edits, busy>>

RemoveFile ==
    /\ attached # NoFile /\ attached' = NoFile /\ refused' = FALSE
    /\ chosen' = [chosen EXCEPT ![attached].at = "gone"]
    /\ UNCHANGED <<draft, tools, edits, busy>>

ComposerNext ==
    \/ HandleInputChange \/ QuickAction \/ EffectRunsAgain \/ ToolsReturn \/ AbortEnds
    \/ Arrow \/ ApplyAutocomplete \/ Escape \/ CancelEdit \/ BeginEdit
    \/ OnSubmit \/ SendEnds \/ RemoveFile
    \/ \E f \in Files : HandleFileSelect(f) \/ ReaderLoads(f)

ComposerSpec == ComposerInit /\ [][ComposerNext]_composerVars

----------------------------------------------------------------------------
(* A file chosen goes with one message at most, and only the one attached does: a file
   that was sent, replaced or removed never comes back with a later message. *)
FileSentOnce ==
    \A f \in Files : chosen[f].sent <= 1 /\ (chosen[f].sent = 1 => chosen[f].at = "gone" /\ attached # f)
=============================================================================
