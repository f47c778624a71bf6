---------------------------- MODULE MCWebClients ----------------------------
(***************************************************************************)
(* What runs in the browser, for TLC: the panel with its composer, title   *)
(* and scroll position, the activity rows and the page around them, the    *)
(* typewriter and the session list of the cognitive UI, and the chat and   *)
(* the conversations of the legacy UI, its typewriter and its prompts.     *)
(* They share no state, but for the rows: a behaviour is one of the part   *)
(* it begins with.  The page is two parts: the rows of its answers with    *)
(* the panel as it is, and the panel, its tabs and new answers.            *)
(***************************************************************************)
EXTENDS ChatPanel, Composer, Attention, SessionLayout, Typewriter,
        SessionList, NewConversation, LegacyUI, StepTree, Library, TLC

CONSTANTS s1, s2, s3, s4

\* Three calls of one tool and one of another.
MCLabelOf == [s \in {s1, s2, s3, s4} |-> IF s = s3 THEN "b" ELSE "a"]

\* A step below a step below a step.
MCParentId == [s \in {s1, s2, s3} |-> CASE s = s1 -> NoParent [] s = s2 -> s1 [] s = s3 -> s2]

VARIABLE part

pageVars   == <<run, workspace, touched, history, layout>>
clientVars == <<panelVars, composerVars, attentionVars, layoutVars, typeVars, listVars, newVars,
                legacyVars, revealVars, promptVars, treeVars, libraryVars, part>>

ClientsInit ==
    /\ part \in {"panel", "composer", "attention", "activity", "layout", "sides", "type", "list", "new",
                 "legacy", "reveal", "prompts", "tree", "library"}
    /\ PanelInit /\ ComposerInit /\ AttentionInit /\ LayoutInit /\ TypeInit
    /\ ListInit /\ NewInit /\ LegacyInit /\ RevealInit /\ PromptInit /\ TreeInit /\ LibraryInit
    /\ part = "layout" \/ ~history
    /\ part = "tree" \/ override
    /\ part = "attention" \/ thumbs.from = "stream"
    /\ part = "panel" \/ pending = {}
    /\ part = "legacy" \/ mode = "http"

Leave(p, v) == part # p => UNCHANGED v

ClientsNext ==
    /\ UNCHANGED part
    /\ Leave("panel", panelVars) /\ Leave("composer", composerVars)
    /\ Leave("attention", attentionVars)
    /\ part \in {"activity", "layout"} \/ UNCHANGED activityVars
    /\ part \in {"layout", "sides"} \/ UNCHANGED pageVars
    /\ Leave("type", typeVars) /\ Leave("list", listVars) /\ Leave("new", newVars)
    /\ Leave("legacy", legacyVars) /\ Leave("reveal", revealVars) /\ Leave("prompts", promptVars)
    /\ Leave("tree", treeVars) /\ Leave("library", libraryVars)
    /\ \/ part = "panel" /\ PanelNext
       \/ part = "composer" /\ ComposerNext
       \/ part = "attention" /\ AttentionNext
       \/ part = "activity" /\ ActivityNext
       \/ part = "layout" /\ LayoutNext /\ UNCHANGED layout
       \/ part = "sides" /\ LayoutNext /\ UNCHANGED activityVars
       \/ part = "type" /\ TypeNext
       \/ part = "list" /\ ListNext
       \/ part = "new" /\ NewNext
       \/ part = "legacy" /\ LegacyNext
       \/ part = "reveal" /\ RevealNext
       \/ part = "prompts" /\ PromptNext
       \/ part = "tree" /\ TreeNext
       \/ part = "library" /\ LibraryNext

\* Of the other parts nothing that LegacyFairness speaks of is enabled.
ClientsSpec == ClientsInit /\ [][ClientsNext]_clientVars /\ LegacyFairness
=============================================================================
