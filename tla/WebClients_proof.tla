-------------------------- MODULE WebClients_proof --------------------------
(***************************************************************************)
(* Theorems about the page of the cognitive UI: the list of sessions, the  *)
(* draft and its files, the title, the milestones of a new conversation,   *)
(* the panel, the activity of its answers and the words they are shown in; *)
(* and, for the legacy UI, the tree of the steps of an answer and the list *)
(* of conversations.                                                       *)
(***************************************************************************)
EXTENDS Typewriter, ChatPanel, SessionList, Composer, Attention, NewConversation,
        SessionLayout, StepTree, Library, FunctionTheorems, FiniteSetTheorems, SequenceTheorems,
        WellFoundedInduction, TLAPS

----------------------------------------------------------------------------
(***************************************************************************)
(* RefreshShowsItsChange for any sidebars, loads and changes.  Who awaits  *)
(* a load that is to show a change awaits one that was begun after the     *)
(* change: what this load has read, or will read, holds it, whatever other *)
(* loads come and go, of this sidebar too, and fill the cache meanwhile.   *)
(***************************************************************************)

LoadRecords    == [at : {"idle", "asked", "read", "over"}, list : Int]
SideRecords    == [at : {"idle", "loading", "ready"}, shows : Int]
RequestRecords == [at : {"idle", "sent", "made", "over"}, side : Sidebars \cup {Nobody},
                   change : Nat]
AwaitRecords   == [side : Sidebars, load : Loads, change : Nat]

ListTypes ==
    /\ changes \in Nat
    /\ cache \in [list : Int, fresh : BOOLEAN]
    /\ load \in [Loads -> LoadRecords]
    /\ side \in [Sidebars -> SideRecords]
    /\ request \in [Changes -> RequestRecords]
    /\ awaits \in SUBSET AwaitRecords

\* The load d will show change n.
WillShow(d, n) ==
    /\ d.at \in {"asked", "read"}
    /\ d.at = "read" => d.list = Failed \/ d.list >= n

\* Every change that is reported was made, and who awaits a load to show it will see it.
ChangesWillShow ==
    /\ \A r \in Changes : request[r].change <= changes
    /\ \A e \in awaits : e.change > 0 => e.change <= changes /\ WillShow(load[e.load], e.change)

ListInd == ListTypes /\ ChangesWillShow

LEMMA ListStart == ListInit => ListInd
<1> SUFFICES ASSUME ListInit PROVE ListInd
  OBVIOUS
<1>1. ListTypes
  BY DEF ListInit, ListTypes, LoadRecords, SideRecords, RequestRecords
<1>2. ChangesWillShow
  BY DEF ListInit, ChangesWillShow
<1> QED
  BY <1>1, <1>2 DEF ListInd

\* What a refresh makes of the sidebars, of the loads and of who awaits them.
LEMMA Refreshes ==
    ASSUME ListInd, NEW b \in Sidebars \cup {Nobody}, NEW force \in BOOLEAN, NEW n \in Nat,
           b \in Sidebars \/ force, n > 0 => force, n <= changes, Refresh(b, force, n)
    PROVE  /\ load' \in [Loads -> LoadRecords] /\ side' \in [Sidebars -> SideRecords]
           /\ awaits' \in SUBSET AwaitRecords /\ awaits \in SUBSET awaits'
           /\ \A e \in awaits' : e.change > 0 =>
                 e.change <= changes /\ WillShow(load'[e.load], e.change)
<1>0. /\ load \in [Loads -> LoadRecords] /\ side \in [Sidebars -> SideRecords]
      /\ awaits \in SUBSET AwaitRecords /\ cache \in [list : Int, fresh : BOOLEAN]
      /\ \A e \in awaits : e.change > 0 =>
            e.change <= changes /\ WillShow(load[e.load], e.change)
  BY DEF ListInd, ListTypes, ChangesWillShow
<1>1. CASE ~force /\ cache.fresh
  <2>1. b \in Sidebars
    BY <1>1
  <2>2. UNCHANGED <<load, awaits>> /\ side' = [side EXCEPT ![b] = [at |-> "ready", shows |-> cache.list]]
    BY <1>1 DEF Refresh, ShowsCache
  <2>3. side' \in [Sidebars -> SideRecords]
    BY <1>0, <2>1, <2>2 DEF SideRecords
  <2> QED
    BY <1>0, <2>2, <2>3
<1>2. CASE force \/ ~cache.fresh
  <2>1. PICK l \in Loads :
           /\ IF inflight # NoLoad /\ ~force
                THEN l = inflight /\ UNCHANGED <<inflight, load>>
                ELSE /\ IsNext(l, load) /\ load' = [load EXCEPT ![l].at = "asked"]
                     /\ inflight' = l
           /\ Awaits(b, l, n)
    BY <1>2, Zenon DEF Refresh
  <2>2. load' \in [Loads -> LoadRecords]
    BY <1>0, <2>1 DEF LoadRecords
  <2>3. \A k \in Loads : load[k].at # "idle" => load'[k] = load[k]
    BY <1>0, <2>1 DEF IsNext
  <2>4. force => load'[l].at = "asked"
    BY <1>0, <2>1 DEF LoadRecords
  <2>5. side' \in [Sidebars -> SideRecords]
    BY <1>0, <2>1 DEF Awaits, NoRows, SideRecords
  <2>6. awaits' = awaits \cup (IF b = Nobody THEN {} ELSE {[side |-> b, load |-> l, change |-> n]})
    BY <2>1 DEF Awaits
  <2>7. awaits' \in SUBSET AwaitRecords /\ awaits \in SUBSET awaits'
    BY <1>0, <2>6 DEF AwaitRecords
  <2>8. ASSUME NEW e \in awaits', e.change > 0
        PROVE  e.change <= changes /\ WillShow(load'[e.load], e.change)
    <3>1. CASE e \in awaits
      <4>1. e.load \in Loads /\ e.change <= changes /\ WillShow(load[e.load], e.change)
        BY <1>0, <2>8, <3>1 DEF AwaitRecords
      <4>2. load[e.load].at # "idle"
        BY <4>1 DEF WillShow
      <4> QED
        BY <2>3, <4>1, <4>2
    <3>2. CASE e \notin awaits
      <4>1. e.load = l /\ e.change = n
        BY <2>6, <2>8, <3>2
      <4> QED
        BY <2>4, <2>8, <4>1 DEF WillShow
    <3> QED
      BY <3>1, <3>2
  <2> QED
    BY <2>2, <2>5, <2>7, <2>8
<1> QED
  BY <1>1, <1>2

LEMMA RequestStep ==
    ASSUME ListInd, NEW r \in Changes, ServerChanges(r) \/ ChangeSucceeds(r) \/ ChangeFails(r)
    PROVE  ListInd' /\ awaits \in SUBSET awaits'
<1>0. /\ changes \in Nat /\ request \in [Changes -> RequestRecords]
      /\ request[r].side \in Sidebars \cup {Nobody} /\ request[r].change \in Nat
      /\ \A k \in Changes : request[k] \in RequestRecords /\ request[k].change <= changes
      /\ awaits \in SUBSET AwaitRecords
  BY DEF ListInd, ListTypes, ChangesWillShow, RequestRecords
<1>1. CASE ServerChanges(r)
  <2>1. /\ changes' = changes + 1 /\ UNCHANGED <<cache, load, side, awaits>>
        /\ request' = [request EXCEPT ![r].at = "made", ![r].change = changes + 1]
    BY <1>1 DEF ServerChanges
  <2>2. request' \in [Changes -> RequestRecords]
    BY <1>0, <2>1 DEF RequestRecords
  <2>3. \A k \in Changes : request'[k].change <= changes'
    BY <1>0, <2>1 DEF RequestRecords
  <2>4. \A e \in awaits : e.change \in Nat
    BY <1>0 DEF AwaitRecords
  <2>5. ListTypes'
    BY <1>0, <2>1, <2>2 DEF ListInd, ListTypes
  <2>6. ChangesWillShow'
    BY <1>0, <2>1, <2>3, <2>4 DEF ListInd, ChangesWillShow
  <2> QED
    BY <2>1, <2>5, <2>6 DEF ListInd
<1>2. CASE ChangeSucceeds(r) \/ ChangeFails(r)
  <2>1. UNCHANGED <<changes, cache>> /\ request' = [request EXCEPT ![r] = RequestOver]
    BY <1>2 DEF ChangeSucceeds, ChangeFails
  <2>2. request' \in [Changes -> RequestRecords] /\ \A k \in Changes : request'[k].change <= changes
    BY <1>0, <2>1 DEF RequestRecords, RequestOver
  <2>3. CASE ChangeSucceeds(r)
    <3>1. Refresh(request[r].side, TRUE, request[r].change)
      BY <2>3 DEF ChangeSucceeds
    <3>2. /\ load' \in [Loads -> LoadRecords] /\ side' \in [Sidebars -> SideRecords]
          /\ awaits' \in SUBSET AwaitRecords /\ awaits \in SUBSET awaits'
          /\ \A e \in awaits' : e.change > 0 =>
                e.change <= changes /\ WillShow(load'[e.load], e.change)
      BY <1>0, <3>1, Refreshes
    <3> QED
      BY <2>1, <2>2, <3>2 DEF ListInd, ListTypes, ChangesWillShow
  <2>4. CASE ChangeFails(r)
    BY <2>1, <2>2, <2>4 DEF ChangeFails, ListInd, ListTypes, ChangesWillShow
  <2> QED
    BY <1>2, <2>3, <2>4
<1> QED
  BY <1>1, <1>2

LEMMA SidebarStep ==
    ASSUME ListInd, NEW b \in Sidebars, Mounts(b) \/ Unmounts(b) \/ ChangeConversation(b)
    PROVE  ListInd'
<1>0. request \in [Changes -> RequestRecords] /\ changes \in Nat
  BY DEF ListInd, ListTypes
<1>1. CASE Mounts(b)
  <2>1. UNCHANGED <<changes, cache, request>> /\ Refresh(b, FALSE, 0)
    BY <1>1 DEF Mounts
  <2>2. 0 \in Nat /\ 0 <= changes /\ ~(0 > 0)
    BY <1>0
  <2>3. /\ load' \in [Loads -> LoadRecords] /\ side' \in [Sidebars -> SideRecords]
        /\ awaits' \in SUBSET AwaitRecords
        /\ \A e \in awaits' : e.change > 0 =>
              e.change <= changes /\ WillShow(load'[e.load], e.change)
    BY <2>1, <2>2, Refreshes
  <2> QED
    BY <2>1, <2>3 DEF ListInd, ListTypes, ChangesWillShow
<1>2. CASE Unmounts(b)
  <2>1. /\ UNCHANGED <<changes, cache, load>> /\ awaits' \in SUBSET awaits
        /\ side' = [side EXCEPT ![b] = NoRows("idle")]
        /\ request' = [k \in Changes |-> IF request[k].side = b THEN [request[k] EXCEPT !.side = Nobody]
                                         ELSE request[k]]
    BY <1>2 DEF Unmounts
  <2>2. request' \in [Changes -> RequestRecords] /\ \A k \in Changes : request'[k].change = request[k].change
    BY <1>0, <2>1 DEF RequestRecords
  <2>3. side' \in [Sidebars -> SideRecords]
    BY <2>1 DEF ListInd, ListTypes, SideRecords, NoRows
  <2> QED
    BY <2>1, <2>2, <2>3 DEF ListInd, ListTypes, ChangesWillShow
<1>3. CASE ChangeConversation(b)
  <2>1. /\ UNCHANGED <<changes, cache, load, side, awaits>>
        /\ \E r \in Changes : request' = [request EXCEPT ![r] = [at |-> "sent", side |-> b, change |-> 0]]
    BY <1>3 DEF ChangeConversation
  <2>2. request' \in [Changes -> RequestRecords] /\ \A k \in Changes :
           request'[k].change = request[k].change \/ request'[k].change = 0
    BY <1>0, <2>1 DEF RequestRecords
  <2>3. \A k \in Changes : request'[k].change <= changes
    BY <1>0, <2>2 DEF ListInd, ChangesWillShow
  <2> QED
    BY <2>1, <2>2, <2>3 DEF ListInd, ListTypes, ChangesWillShow
<1> QED
  BY <1>1, <1>2, <1>3

\* Only the loads change: those who await one keep what they await.
LEMMA ReadsStep ==
    ASSUME ListInd, NEW l \in Loads, Reads(l)
    PROVE  ListInd'
<1>0. load \in [Loads -> LoadRecords] /\ changes \in Nat /\ awaits \in SUBSET AwaitRecords
  BY DEF ListInd, ListTypes
<1>1. PICK list \in {changes, Failed} : load' = [load EXCEPT ![l] = [at |-> "read", list |-> list]]
  BY DEF Reads
<1>2. list \in Int /\ (list = Failed \/ list = changes)
  BY <1>0 DEF Failed
<1>3. load' \in [Loads -> LoadRecords]
  BY <1>0, <1>1, <1>2 DEF LoadRecords
<1>4. ASSUME NEW e \in awaits, e.change > 0 PROVE WillShow(load'[e.load], e.change)
  <2>1. /\ e.load \in Loads /\ e.change \in Nat /\ e.change <= changes
        /\ WillShow(load[e.load], e.change)
    BY <1>0, <1>4 DEF ListInd, ChangesWillShow, AwaitRecords
  <2>2. CASE e.load = l
    BY <1>0, <1>1, <1>2, <2>1, <2>2 DEF WillShow
  <2>3. CASE e.load # l
    BY <1>0, <1>1, <2>1, <2>3
  <2> QED
    BY <2>2, <2>3
<1> QED
  BY <1>3, <1>4 DEF Reads, ListInd, ListTypes, ChangesWillShow

LEMMA LoadReturnsStep ==
    ASSUME ListInd, NEW l \in Loads, LoadReturns(l)
    PROVE  ListInd'
<1>0. /\ load \in [Loads -> LoadRecords] /\ side \in [Sidebars -> SideRecords]
      /\ awaits \in SUBSET AwaitRecords
  BY DEF ListInd, ListTypes
<1>1. load[l].list \in Int
  BY <1>0 DEF LoadRecords
<1>2. load' \in [Loads -> LoadRecords] /\ \A k \in Loads \ {l} : load'[k] = load[k]
  BY <1>0 DEF LoadReturns, LoadRecords
<1>3. side' \in [Sidebars -> SideRecords]
  BY <1>0, <1>1 DEF LoadReturns, SideRecords
<1>4. cache' \in [list : Int, fresh : BOOLEAN]
  BY <1>1 DEF LoadReturns
<1>5. awaits' \in SUBSET awaits /\ \A e \in awaits' : e.load # l
  BY DEF LoadReturns
<1>6. \A e \in awaits' : e.load \in Loads \ {l}
  BY <1>0, <1>5 DEF AwaitRecords
<1>7. UNCHANGED <<changes, request>>
  BY DEF LoadReturns
<1> QED
  BY <1>2, <1>3, <1>4, <1>5, <1>6, <1>7 DEF ListInd, ListTypes, ChangesWillShow

LEMMA ListStep == ListInd /\ [ListNext]_listVars => ListInd'
<1> SUFFICES ASSUME ListInd, [ListNext]_listVars PROVE ListInd'
  OBVIOUS
<1>1. CASE OthersChange
  <2>1. /\ changes \in Nat /\ awaits \in SUBSET AwaitRecords /\ request \in [Changes -> RequestRecords]
        /\ \A r \in Changes : request[r].change \in Nat
    BY DEF ListInd, ListTypes, RequestRecords
  <2>2. \A e \in awaits : e.change \in Nat
    BY <2>1 DEF AwaitRecords
  <2>3. PICK r \in Changes : request' = [request EXCEPT ![r] = RequestOver]
    BY <1>1 DEF OthersChange
  <2>4. changes' = changes + 1 /\ UNCHANGED <<cache, load, side, awaits>>
    BY <1>1 DEF OthersChange
  <2>5. request' \in [Changes -> RequestRecords] /\ \A k \in Changes :
           request'[k].change = request[k].change \/ request'[k].change = 0
    BY <2>1, <2>3 DEF RequestRecords, RequestOver
  <2>6. \A k \in Changes : request'[k].change <= changes'
    BY <2>1, <2>4, <2>5 DEF ListInd, ChangesWillShow
  <2> QED
    BY <2>1, <2>2, <2>4, <2>5, <2>6 DEF ListInd, ListTypes, ChangesWillShow
<1>2. CASE CacheExpires
  BY <1>2 DEF CacheExpires, ListInd, ListTypes, ChangesWillShow
<1>3. CASE UNCHANGED listVars
  BY <1>3 DEF listVars, ListInd, ListTypes, ChangesWillShow
<1> QED
  BY <1>1, <1>2, <1>3, SidebarStep, RequestStep, ReadsStep, LoadReturnsStep DEF ListNext

ShowsItsChange(e) ==
    e.change > 0 /\ e \notin awaits' /\ side'[e.side].at = "ready"
        => side'[e.side].shows = Failed \/ side'[e.side].shows >= e.change

\* Who awaits a load is answered by that load, or is unmounted, and by nothing else.
LEMMA OnlyItsLoad ==
    ASSUME ListInd, [ListNext]_listVars, NEW e \in awaits
    PROVE  ShowsItsChange(e)
<1> SUFFICES ASSUME e.change > 0, e \notin awaits', side'[e.side].at = "ready"
             PROVE  side'[e.side].shows = Failed \/ side'[e.side].shows >= e.change
  BY DEF ShowsItsChange
<1>0. /\ e.side \in Sidebars /\ side \in [Sidebars -> SideRecords]
      /\ WillShow(load[e.load], e.change)
  BY DEF ListInd, ListTypes, ChangesWillShow, AwaitRecords
<1>1. ASSUME NEW b \in Sidebars, Mounts(b) PROVE FALSE
  <2>1. 0 \in Nat /\ 0 <= changes /\ ~(0 > 0)
    BY DEF ListInd, ListTypes
  <2>2. Refresh(b, FALSE, 0)
    BY <1>1 DEF Mounts
  <2>3. awaits \in SUBSET awaits'
    BY <2>1, <2>2, Refreshes
  <2> QED
    BY <2>3
<1>2. ASSUME NEW b \in Sidebars, Unmounts(b) PROVE FALSE
  <2>1. e.side = b
    BY <1>2 DEF Unmounts
  <2>2. side'[b].at = "idle"
    BY <1>0, <1>2, <2>1 DEF Unmounts, NoRows
  <2> QED
    BY <2>1, <2>2
<1>3. ASSUME NEW b \in Sidebars, ChangeConversation(b) PROVE FALSE
  BY <1>3 DEF ChangeConversation
<1>4. ASSUME NEW r \in Changes, ServerChanges(r) \/ ChangeSucceeds(r) \/ ChangeFails(r) PROVE FALSE
  BY <1>4, RequestStep
<1>5. ASSUME NEW l \in Loads, Reads(l) PROVE FALSE
  BY <1>5 DEF Reads
<1>6. ASSUME NEW l \in Loads, LoadReturns(l)
      PROVE  side'[e.side].shows = Failed \/ side'[e.side].shows >= e.change
  <2>1. e.load = l /\ load[l].at = "read"
    BY <1>6 DEF LoadReturns
  <2>2. side'[e.side].shows = load[l].list
    BY <1>0, <1>6, <2>1 DEF LoadReturns
  <2> QED
    BY <1>0, <2>1, <2>2 DEF WillShow
<1>7. CASE OthersChange \/ CacheExpires \/ UNCHANGED listVars
  BY <1>7 DEF OthersChange, CacheExpires, listVars
<1> QED
  BY <1>1, <1>2, <1>3, <1>4, <1>5, <1>6, <1>7 DEF ListNext

(* RefreshShowsItsChange holds of every behaviour: a forced refresh never joins a load
   that was under way when its change was made, also when several requests and loads of
   one sidebar overlap. *)
THEOREM RefreshIsFresh == ListSpec => RefreshShowsItsChange
<1>1. ListInd /\ [ListNext]_listVars =>
         [\A e \in awaits :
            e.change > 0 /\ e \notin awaits' /\ side'[e.side].at = "ready"
              => side'[e.side].shows = Failed \/ side'[e.side].shows >= e.change]_listVars
  BY OnlyItsLoad DEF ShowsItsChange
<1> QED
  BY <1>1, ListStart, ListStep, PTL DEF ListSpec, RefreshShowsItsChange

----------------------------------------------------------------------------
\* The files of the composer: one is attached at most, and only what is gone was sent.
FileRecords == [at : {"none", "reading", "attached", "gone"}, sent : {0, 1}]

FilesInd ==
    /\ chosen \in [Files -> FileRecords] /\ attached \in Files \cup {NoFile}
    /\ \A f \in Files : /\ chosen[f].at = "attached" <=> attached = f
                        /\ chosen[f].sent = 1 => chosen[f].at = "gone"

LEMMA FilesAreNumbers == NoFile \notin Files
BY DEF NoFile, Files

LEMMA OnSubmitKeeps == ASSUME FilesInd, OnSubmit PROVE FilesInd'
<1>1. CASE attached = NoFile
  BY <1>1, FilesAreNumbers DEF FilesInd, OnSubmit
<1>2. CASE attached # NoFile
  <2>1. PICK n \in {0, 1} : chosen' = [chosen EXCEPT ![attached] = [at |-> "gone", sent |-> @.sent + n]]
    BY <1>2 DEF OnSubmit
  <2>2. attached \in Files /\ chosen[attached].sent = 0 /\ chosen[attached] \in FileRecords
    BY <1>2 DEF FilesInd, FileRecords
  <2>3. /\ chosen' \in [Files -> FileRecords] /\ chosen'[attached].at = "gone"
        /\ \A f \in Files : f # attached => chosen'[f] = chosen[f]
    BY <2>1, <2>2 DEF FilesInd, FileRecords
  <2>4. attached' = NoFile
    BY DEF OnSubmit
  <2> QED
    BY <2>2, <2>3, <2>4, FilesAreNumbers DEF FilesInd
<1> QED
  BY <1>1, <1>2

LEMMA FilesStart == ComposerInit => FilesInd
<1> SUFFICES ASSUME ComposerInit PROVE FilesInd
  OBVIOUS
<1>1. chosen = [f \in Files |-> [at |-> "none", sent |-> 0]] /\ attached = NoFile
  BY DEF ComposerInit
<1>2. [at |-> "none", sent |-> 0] \in FileRecords
  BY DEF FileRecords
<1> QED
  BY <1>1, <1>2, FilesAreNumbers DEF FilesInd

LEMMA FilesStep == FilesInd /\ [ComposerNext]_composerVars => FilesInd'
<1> SUFFICES ASSUME FilesInd, [ComposerNext]_composerVars PROVE FilesInd'
  OBVIOUS
<1>1. CASE UNCHANGED <<chosen, attached>>
  BY <1>1 DEF FilesInd
<1>2. CASE OnSubmit
  BY <1>2, OnSubmitKeeps
<1>3. CASE RemoveFile
  BY <1>3, FilesAreNumbers DEF FilesInd, FileRecords, RemoveFile
<1>4. ASSUME NEW f \in Files, HandleFileSelect(f) PROVE FilesInd'
  BY <1>4 DEF FilesInd, FileRecords, HandleFileSelect
<1>5. ASSUME NEW f \in Files, ReaderLoads(f) PROVE FilesInd'
  BY <1>5, FilesAreNumbers DEF FilesInd, FileRecords, ReaderLoads
<1> QED
  BY <1>1, <1>2, <1>3, <1>4, <1>5
     DEF ComposerNext, composerVars, HandleInputChange, QuickAction, EffectRunsAgain, ToolsReturn,
         AbortEnds, Arrow, ApplyAutocomplete, Escape, CancelEdit, BeginEdit, SendEnds

(* FileSentOnce is an invariant, for any files: a file goes with one message at most, and
   one that was sent, replaced or removed is not attached again by a FileReader that
   returns late (chat-composer's handleFileSelect). *)
THEOREM FilesGoOnce == ComposerSpec => []FileSentOnce
<1>1. FilesInd => FileSentOnce
  BY FilesAreNumbers DEF FilesInd, FileRecords, FileSentOnce
<1> QED
  BY <1>1, FilesStart, FilesStep, PTL DEF ComposerSpec

----------------------------------------------------------------------------
\* "[LISTO]" is in the title of a hidden tab only, with a timer set and the page's title saved.
TitleInd ==
    /\ tab.saved \in {Absent, Own}
    /\ tab.title = Own \/ (tab.title = Done /\ tab.hidden /\ tab.timer /\ tab.saved = Own)
    /\ tab \in [hidden : BOOLEAN, title : {Own, Done}, saved : {Absent, Own}, timer : BOOLEAN,
                notice : BOOLEAN]

LEMMA RestoredIsOwn ==
    ASSUME TitleInd, NEW t, t = [tab EXCEPT !.hidden = FALSE] \/ t = [tab EXCEPT !.notice = FALSE] \/ t = tab
    PROVE  /\ RestoredTitle(t).title = Own /\ RestoredTitle(t).saved = Absent
           /\ RestoredTitle(t) \in [hidden : BOOLEAN, title : {Own, Done}, saved : {Absent, Own},
                                    timer : BOOLEAN, notice : BOOLEAN]
BY DEF TitleInd, RestoredTitle, Own, Done, Absent

LEMMA RaisedIsSaved ==
    ASSUME TitleInd, NEW t, t = [tab EXCEPT !.notice = TRUE]
    PROVE  LET r == Raised(t)
           IN  /\ r.saved \in {Absent, Own}
               /\ r.title = Own \/ (r.title = Done /\ r.hidden /\ r.timer /\ r.saved = Own)
               /\ r \in [hidden : BOOLEAN, title : {Own, Done}, saved : {Absent, Own}, timer : BOOLEAN,
                         notice : BOOLEAN]
BY DEF TitleInd, Raised, Own, Done, Absent

LEMMA TitleStart == AttentionInit => TitleInd
BY DEF AttentionInit, TitleInd

LEMMA TitleStep == TitleInd /\ [AttentionNext]_attentionVars => TitleInd'
<1> SUFFICES ASSUME TitleInd, [AttentionNext]_attentionVars PROVE TitleInd'
  OBVIOUS
<1>1. CASE UNCHANGED tab
  BY <1>1 DEF TitleInd
<1>2. CASE AnswerEnds
  BY <1>1, <1>2, RaisedIsSaved DEF TitleInd, AnswerEnds
<1>3. CASE TitleTimerFires \/ PanelUnmounts
  BY <1>3, RestoredIsOwn DEF TitleInd, TitleTimerFires, PanelUnmounts
<1>4. CASE NoticeTimerFires
  BY <1>4 DEF TitleInd, NoticeTimerFires
<1>5. CASE HandleVisibilityChange
  <2>1. CASE tab.hidden
    BY <1>5, <2>1, RestoredIsOwn DEF TitleInd, HandleVisibilityChange
  <2>2. CASE ~tab.hidden
    BY <1>5, <2>2 DEF TitleInd, HandleVisibilityChange
  <2> QED
    BY <2>1, <2>2
<1> QED
  BY <1>1, <1>2, <1>3, <1>4, <1>5
     DEF AttentionNext, attentionVars, AnswerBegins, AnswerGrows, HandleMessagesContainerScroll,
         HandleScrollToLatest, HandleFeedback, FeedbackReturns, LoadHistory, HandleCopyMessage

(* TitleIsOwn is an invariant, for any number of answers: a page that is looked at, or whose
   timer is over, has its own title, however many answers end, each saving the title it
   finds, while the tab is hidden. *)
THEOREM TitleComesBack == AttentionSpec => []TitleIsOwn
<1>1. TitleInd => TitleIsOwn
  BY DEF TitleInd, TitleIsOwn
<1> QED
  BY <1>1, TitleStart, TitleStep, PTL DEF AttentionSpec

----------------------------------------------------------------------------
\* An attempt emits a beginning of the milestones: two of them when it begins, all of
\* them at most; a history is loaded of a session whose route was there.
Upto(n) == [i \in 1 .. n |-> Milestones[i]]

AttemptAt(k, n) == [key |-> k, emitted |-> Upto(n)]

NewTypes ==
    /\ begun \in Nat /\ begun <= MaxSessions
    /\ page.key \in 0 .. begun
    /\ going # <<>> => going[1].key \in 0 .. begun
    /\ creating \in [Rails -> 0 .. begun]
    /\ historyOf \in 0 .. begun
    /\ DOMAIN emitted = 1 .. MaxSessions

AttemptsInd ==
    /\ NewTypes
    /\ \A k \in 1 .. begun : \E n \in 2 .. 4 : emitted[k] = Upto(n)
    /\ attempt = NoAttempt
         \/ \E n \in 2 .. 3, k \in 1 .. begun :
               attempt = AttemptAt(k, n) /\ emitted[k] = Upto(n) /\ (historyOf = k => n = 3)
    /\ \A b \in Rails : creating[b] # 0 => creating[b] # page.key

MilestoneNames == {Milestones[i] : i \in 1 .. 4}

LEMMA MilestonesAre ==
    /\ Len(Milestones) = 4 /\ DOMAIN Milestones = 1 .. 4
    /\ \A i \in 1 .. 4 : Milestones[i] \in MilestoneNames
    /\ \A i, j \in 1 .. 4 : Milestones[i] = Milestones[j] => i = j
    /\ Milestones[1] = "create_click" /\ Milestones[2] = "feedback_visible"
    /\ Milestones[3] = "route_ready" /\ Milestones[4] = "history_ready"
<1>1. /\ Milestones[1] = "create_click" /\ Milestones[2] = "feedback_visible"
      /\ Milestones[3] = "route_ready" /\ Milestones[4] = "history_ready"
      /\ Len(Milestones) = 4 /\ DOMAIN Milestones = 1 .. 4
  BY DEF Milestones
<1>2. \A i \in 1 .. 4 : i \in {1, 2, 3, 4}
  OBVIOUS
<1>3. \A i \in 1 .. 4 : Milestones[i] \in MilestoneNames
  BY DEF MilestoneNames
<1>4. \A i, j \in 1 .. 4 : Milestones[i] = Milestones[j] => i = j
  <2>1. \A i, j \in {1, 2, 3, 4} : Milestones[i] = Milestones[j] => i = j
    BY <1>1
  <2> QED
    BY <1>2, <2>1
<1> QED
  BY <1>1, <1>3, <1>4

LEMMA UptoIs ==
    ASSUME NEW n \in 0 .. 4
    PROVE  /\ Upto(n) \in Seq(MilestoneNames) /\ Len(Upto(n)) = n /\ DOMAIN Upto(n) = 1 .. n
           /\ \A i \in 1 .. n : Upto(n)[i] = Milestones[i]
<1>1. Upto(n) \in [1 .. n -> MilestoneNames]
  BY MilestonesAre DEF Upto
<1> QED
  BY <1>1 DEF Upto

\* The next milestone is emitted, an earlier one is not.
LEMMA Emits ==
    ASSUME NEW n \in 0 .. 3, NEW k, NEW m, m = Milestones[n + 1]
    PROVE  /\ TryEmit(AttemptAt(k, n), m) = [attempt |-> AttemptAt(k, n + 1), events |-> <<m>>]
           /\ Upto(n) \o <<m>> = Upto(n + 1)
<1>1. n \in 0 .. 4 /\ n + 1 \in 1 .. 4 /\ n + 1 \in 0 .. 4 /\ m \in MilestoneNames
  BY MilestonesAre
<1>2. m \notin ToSet(Upto(n))
  <2>1. \A i \in 1 .. n : i \in 1 .. 4 /\ i # n + 1
    OBVIOUS
  <2>2. \A i \in 1 .. n : Milestones[i] # m
    BY <1>1, <2>1, MilestonesAre
  <2>3. \A i \in DOMAIN Upto(n) : Upto(n)[i] # m
    BY <1>1, <2>2, UptoIs
  <2> QED
    BY <2>3 DEF ToSet
<1>3. Append(Upto(n), m) = Upto(n + 1)
  <2>1. /\ Append(Upto(n), m) \in Seq(MilestoneNames) /\ Len(Append(Upto(n), m)) = n + 1
        /\ \A i \in 1 .. n : Append(Upto(n), m)[i] = Upto(n)[i]
        /\ Append(Upto(n), m)[n + 1] = m
    <3>1. Upto(n) \in Seq(MilestoneNames) /\ Len(Upto(n)) = n
      BY <1>1, UptoIs
    <3> QED
      BY <1>1, <3>1, AppendProperties
  <2>2. \A i \in 1 .. n + 1 : i \in 1 .. n \/ i = n + 1
    OBVIOUS
  <2>3. \A i \in 1 .. n + 1 : Append(Upto(n), m)[i] = Upto(n + 1)[i]
    BY <1>1, <2>1, <2>2, UptoIs
  <2> QED
    BY <1>1, <2>1, <2>3, UptoIs, SeqEqual
<1>4. Upto(n) \o <<m>> = Append(Upto(n), m)
  BY <1>1, UptoIs, AppendIsConcat
<1> QED
  BY <1>2, <1>3, <1>4 DEF TryEmit, AttemptAt

LEMMA EmitsReady ==
    ASSUME NEW k
    PROVE  /\ TryEmit(AttemptAt(k, 2), "route_ready") =
                  [attempt |-> AttemptAt(k, 3), events |-> <<"route_ready">>]
           /\ Upto(2) \o <<"route_ready">> = Upto(3)
           /\ TryEmit(AttemptAt(k, 3), "history_ready").events = <<"history_ready">>
           /\ Upto(3) \o <<"history_ready">> = Upto(4)
<1>1. /\ TryEmit(AttemptAt(k, 2), "route_ready") =
            [attempt |-> AttemptAt(k, 2 + 1), events |-> <<"route_ready">>]
      /\ Upto(2) \o <<"route_ready">> = Upto(2 + 1)
  <2>1. "route_ready" = Milestones[2 + 1]
    BY MilestonesAre
  <2> QED
    BY <2>1, Emits
<1>2. /\ TryEmit(AttemptAt(k, 3), "history_ready") =
            [attempt |-> AttemptAt(k, 3 + 1), events |-> <<"history_ready">>]
      /\ Upto(3) \o <<"history_ready">> = Upto(3 + 1)
  <2>1. "history_ready" = Milestones[3 + 1]
    BY MilestonesAre
  <2>2. TryEmit(AttemptAt(k, 3), Milestones[3 + 1]) =
            [attempt |-> AttemptAt(k, 3 + 1), events |-> <<Milestones[3 + 1]>>]
    BY Emits
  <2>3. Upto(3) \o <<Milestones[3 + 1]>> = Upto(3 + 1)
    BY Emits
  <2> QED
    BY <2>1, <2>2, <2>3
<1>3. 2 + 1 = 3 /\ 3 + 1 = 4
  OBVIOUS
<1> QED
  BY <1>1, <1>2, <1>3

LEMMA EmitsNot ==
    ASSUME NEW n \in 0 .. 4, NEW i \in 1 .. n, NEW k
    PROVE  /\ TryEmit(AttemptAt(k, n), Milestones[i]) = [attempt |-> AttemptAt(k, n), events |-> <<>>]
           /\ Upto(n) \o <<>> = Upto(n)
<1>1. Milestones[i] \in ToSet(Upto(n))
  BY UptoIs DEF ToSet
<1> QED
  BY <1>1, UptoIs, ConcatEmptySeq DEF TryEmit, AttemptAt

LEMMA AttemptIsBegun ==
    ASSUME NewTypes, NEW k \in 1 .. begun
    PROVE  k \in 1 .. MaxSessions
<1>1. begun \in Nat /\ MaxSessions \in Nat /\ begun <= MaxSessions
  BY NewConversationAssumption DEF NewTypes
<1> QED
  BY <1>1

LEMMA NewStarts == ASSUME NewInit PROVE AttemptsInd
BY NewConversationAssumption DEF NewInit, AttemptsInd, NewTypes, Nowhere, NoAttempt

LEMMA BeginsKeeps ==
    ASSUME AttemptsInd, Begins(begun + 1), UNCHANGED <<page, historyOf>>,
           creating' = creating \/ \E b \in Rails : creating' = [creating EXCEPT ![b] = begun + 1]
    PROVE  AttemptsInd'
<1> DEFINE k == begun + 1
           click == TryEmit([key |-> k, emitted |-> <<>>], "create_click")
           visible == TryEmit(click.attempt, "feedback_visible")
<1>1. Upto(0) = <<>> /\ Upto(1) = <<"create_click">>
  <2>1. Upto(0) = <<>>
    BY UptoIs, EmptySeq
  <2>2. <<>> \o <<"create_click">> = Upto(1)
    <3>1. Upto(0) \o <<Milestones[0 + 1]>> = Upto(0 + 1)
      BY Emits
    <3> QED
      BY <2>1, <3>1, MilestonesAre
  <2>3. <<>> \o <<"create_click">> = <<"create_click">>
    OBVIOUS
  <2> QED
    BY <2>1, <2>2, <2>3
<1>2. click = [attempt |-> AttemptAt(k, 1), events |-> <<"create_click">>]
  BY <1>1, Emits, MilestonesAre DEF AttemptAt
<1>3. visible = [attempt |-> AttemptAt(k, 2), events |-> <<"feedback_visible">>]
  BY <1>2, Emits, MilestonesAre
<1>4. click.events \o visible.events = Upto(2)
  <2>1. Upto(1) \o <<Milestones[1 + 1]>> = Upto(1 + 1)
    BY Emits
  <2>2. Upto(1) \o <<"feedback_visible">> = Upto(2)
    BY <2>1, MilestonesAre
  <2>3. click.events = Upto(1) /\ visible.events = <<"feedback_visible">>
    <3> HIDE DEF click, visible
    <3> QED
      BY <1>1, <1>2, <1>3
  <2> HIDE DEF click, visible
  <2> QED
    BY <2>2, <2>3
<1>5. /\ begun' = k /\ k <= MaxSessions /\ attempt' = AttemptAt(k, 2)
      /\ emitted' = [emitted EXCEPT ![k] = Upto(2)]
      /\ going' = <<[key |-> k, bootstrap |-> TRUE]>>
  <2>1. /\ begun' = k /\ k <= MaxSessions /\ attempt' = visible.attempt
        /\ emitted' = [emitted EXCEPT ![k] = click.events \o visible.events]
        /\ going' = <<[key |-> k, bootstrap |-> TRUE]>>
    BY DEF Begins
  <2> HIDE DEF click, visible
  <2> QED
    BY <1>3, <1>4, <2>1
<1> HIDE DEF click, visible
<1>6. \A j \in 0 .. begun : j \in 0 .. k /\ j # k
  BY DEF AttemptsInd, NewTypes
<1>7. NewTypes'
  BY <1>5, <1>6 DEF AttemptsInd, NewTypes
<1>8. \A j \in 1 .. k : j \in 1 .. begun \/ j = k
  BY DEF AttemptsInd, NewTypes
<1>9. \A j \in 1 .. begun' : \E n \in 2 .. 4 : emitted'[j] = Upto(n)
  BY <1>5, <1>8 DEF AttemptsInd, NewTypes
<1>10. attempt' = AttemptAt(k, 2) /\ emitted'[k] = Upto(2) /\ historyOf' # k /\ k \in 1 .. begun'
  BY <1>5, <1>6 DEF AttemptsInd, NewTypes
<1>11. \A b \in Rails : creating'[b] # 0 => creating'[b] # page'.key
  BY <1>5, <1>6 DEF AttemptsInd, NewTypes
<1> QED
  BY <1>7, <1>9, <1>10, <1>11 DEF AttemptsInd

LEMMA RouteArrivesKeeps == ASSUME AttemptsInd, RouteArrives PROVE AttemptsInd'
<1> DEFINE to == going[1]
<1>1. NewTypes /\ to.key \in 0 .. begun
  BY DEF AttemptsInd, NewTypes, RouteArrives
<1>2. page' = to /\ going' = <<>> /\ begun' = begun
  BY DEF RouteArrives
<1>3. \A b \in Rails : creating'[b] \in 0 .. begun /\ (creating'[b] # 0 => creating'[b] # to.key)
  BY <1>1, <1>2 DEF RouteArrives, NewTypes
<1>4. creating' \in [Rails -> 0 .. begun]
  BY <1>1, <1>3 DEF RouteArrives, NewTypes
<1>5. CASE page' = page
  <2>1. UNCHANGED <<attempt, historyOf, emitted>>
    BY <1>5 DEF RouteArrives
  <2> QED
    BY <1>1, <1>2, <1>3, <1>4, <2>1 DEF AttemptsInd, NewTypes
<1>6. CASE page' # page
  <2>1. RouteReady(to) /\ historyOf' = IF to.bootstrap THEN 0 ELSE to.key
    BY <1>2, <1>6 DEF RouteArrives
  <2>2. CASE ~(to.key # 0 /\ attempt.key = to.key)
    <3>1. UNCHANGED <<attempt, emitted>>
      BY <2>1, <2>2 DEF RouteReady
    <3>2. attempt = NoAttempt \/ (attempt.key # historyOf' /\ attempt.key \in 1 .. begun)
      BY <1>1, <2>1, <2>2 DEF AttemptsInd, AttemptAt, NewTypes
    <3> QED
      BY <1>1, <1>2, <1>3, <1>4, <2>1, <3>1, <3>2 DEF AttemptsInd, NewTypes, AttemptAt
  <2>3. CASE to.key # 0 /\ attempt.key = to.key
    <3> DEFINE k == to.key
    <3>1. k \in 1 .. begun /\ k \in 1 .. MaxSessions
      <4>1. begun \in Nat /\ k \in 0 .. begun /\ k # 0
        BY <1>1, <2>3 DEF NewTypes
      <4>2. k \in 1 .. begun
        BY <4>1
      <4> QED
        BY <1>1, <4>2, AttemptIsBegun
    <3>2. PICK n \in 2 .. 3 : attempt = AttemptAt(k, n) /\ emitted[k] = Upto(n)
      BY <2>3, <3>1 DEF AttemptsInd, AttemptAt, NoAttempt
    <3> DEFINE ready == TryEmit(attempt, "route_ready")
    <3>3. ready.attempt = AttemptAt(k, 3) /\ Upto(n) \o ready.events = Upto(3)
      <4>1. CASE n = 2
        <5>1. /\ TryEmit(AttemptAt(k, 2), "route_ready") =
                    [attempt |-> AttemptAt(k, 3), events |-> <<"route_ready">>]
              /\ Upto(2) \o <<"route_ready">> = Upto(3)
          BY EmitsReady
        <5>2. ready = [attempt |-> AttemptAt(k, 3), events |-> <<"route_ready">>]
          BY <3>2, <4>1, <5>1
        <5> HIDE DEF ready
        <5> QED
          BY <4>1, <5>1, <5>2
      <4>2. CASE n = 3
        <5>1. TryEmit(AttemptAt(k, 3), "route_ready") = [attempt |-> AttemptAt(k, 3), events |-> <<>>]
          BY EmitsNot, MilestonesAre
        <5>2. Upto(3) \o <<>> = Upto(3)
          BY UptoIs, ConcatEmptySeq
        <5>3. ready = [attempt |-> AttemptAt(k, 3), events |-> <<>>]
          BY <3>2, <4>2, <5>1
        <5> HIDE DEF ready
        <5> QED
          BY <4>2, <5>2, <5>3
      <4> QED
        BY <4>1, <4>2
    <3>4. /\ emitted' = [emitted EXCEPT ![k] = @ \o ready.events]
          /\ attempt' = IF to.bootstrap THEN NoAttempt ELSE ready.attempt
      BY <2>1, <2>3 DEF RouteReady
    <3> HIDE DEF ready
    <3>5. emitted' = [emitted EXCEPT ![k] = Upto(3)]
      BY <1>1, <3>1, <3>2, <3>3, <3>4 DEF NewTypes
    <3>6. NewTypes'
      BY <1>1, <1>2, <1>4, <2>1, <3>5 DEF NewTypes
    <3>7. \A j \in 1 .. begun' : \E m \in 2 .. 4 : emitted'[j] = Upto(m)
      BY <1>1, <1>2, <3>1, <3>5 DEF AttemptsInd, NewTypes
    <3>8. attempt' = NoAttempt \/ (attempt' = AttemptAt(k, 3) /\ emitted'[k] = Upto(3))
      BY <1>1, <3>1, <3>3, <3>4, <3>5 DEF NewTypes
    <3> QED
      BY <1>2, <1>3, <3>1, <3>6, <3>7, <3>8 DEF AttemptsInd
  <2> QED
    BY <2>2, <2>3
<1> QED
  BY <1>5, <1>6

LEMMA HistoryReadyKeeps == ASSUME AttemptsInd, HistoryReady PROVE AttemptsInd'
<1> DEFINE k == historyOf
<1>1. NewTypes /\ k \in 1 .. begun /\ k \in 1 .. MaxSessions
  <2>1. NewTypes /\ begun \in Nat /\ k \in 0 .. begun /\ k # 0
    BY DEF AttemptsInd, NewTypes, HistoryReady
  <2>2. k \in 1 .. begun
    BY <2>1
  <2> QED
    BY <2>1, <2>2, AttemptIsBegun
<1>2. historyOf' = 0 /\ UNCHANGED <<begun, going, page, creating>>
  BY DEF HistoryReady
<1>3. CASE attempt.key # k
  BY <1>1, <1>2, <1>3 DEF HistoryReady, AttemptsInd, NewTypes
<1>4. CASE attempt.key = k
  <2>1. attempt = AttemptAt(k, 3) /\ emitted[k] = Upto(3)
    BY <1>1, <1>4 DEF AttemptsInd, AttemptAt, NoAttempt
  <2>2. /\ TryEmit(AttemptAt(k, 3), "history_ready").events = <<"history_ready">>
        /\ Upto(3) \o <<"history_ready">> = Upto(4)
    BY EmitsReady
  <2>4. emitted' = [emitted EXCEPT ![k] = Upto(4)] /\ attempt' = NoAttempt
    <3>1. emitted' = [emitted EXCEPT ![k] = @ \o TryEmit(attempt, "history_ready").events]
          /\ attempt' = NoAttempt
      BY <1>4 DEF HistoryReady
    <3>2. TryEmit(attempt, "history_ready").events = <<"history_ready">>
      BY <2>1, <2>2
    <3>3. Upto(3) \o TryEmit(attempt, "history_ready").events = Upto(4)
      BY <2>2, <3>2
    <3> QED
      BY <1>1, <2>1, <3>1, <3>3 DEF NewTypes
  <2> QED
    BY <1>1, <1>2, <2>4 DEF AttemptsInd, NewTypes
<1> QED
  BY <1>3, <1>4

LEMMA AttemptsStep == AttemptsInd /\ [NewNext]_newVars => AttemptsInd'
<1> SUFFICES ASSUME AttemptsInd, [NewNext]_newVars PROVE AttemptsInd'
  OBVIOUS
<1>1. ASSUME NEW b \in Rails, CreateConversation(b) PROVE AttemptsInd'
  BY <1>1, BeginsKeeps DEF CreateConversation
<1>2. CASE SlashNew
  BY <1>2, BeginsKeeps DEF SlashNew
<1>3. CASE Visits
  BY <1>3 DEF Visits, AttemptsInd, NewTypes
<1>4. CASE RouteArrives
  BY <1>4, RouteArrivesKeeps
<1>5. CASE HistoryReady
  BY <1>5, HistoryReadyKeeps
<1>6. ASSUME NEW b \in Rails, ResetTimeout(b) PROVE AttemptsInd'
  BY <1>6 DEF ResetTimeout, AttemptsInd, NewTypes
<1>7. CASE UNCHANGED newVars
  BY <1>7 DEF newVars, AttemptsInd, NewTypes
<1> QED
  BY <1>1, <1>2, <1>3, <1>4, <1>5, <1>6, <1>7 DEF NewNext

(* AttemptsInOrder is an invariant, for any numbers of sessions and visits: the milestones of
   every attempt at a new conversation are emitted in their order, each once, whatever
   routes and histories arrive for earlier attempts. *)
THEOREM MilestonesInOrder == NewSpec => []AttemptsInOrder
<1>1. NewInit => AttemptsInd
  BY NewStarts
<1>2. AttemptsInd => AttemptsInOrder
  <2> SUFFICES ASSUME AttemptsInd PROVE AttemptsInOrder
    OBVIOUS
  <2>1. ASSUME NEW k \in 1 .. begun
        PROVE  /\ Len(emitted[k]) \in 2 .. Len(Milestones)
               /\ \A i \in DOMAIN emitted[k] : emitted[k][i] = Milestones[i]
    <3>1. PICK n \in 2 .. 4 : emitted[k] = Upto(n)
      BY DEF AttemptsInd
    <3>2. n \in 0 .. 4
      OBVIOUS
    <3> QED
      BY <3>1, <3>2, UptoIs, MilestonesAre
  <2>2. attempt.key # 0 => attempt.emitted = emitted[attempt.key]
    BY DEF AttemptsInd, NoAttempt, AttemptAt
  <2> QED
    BY <2>1, <2>2 DEF AttemptsInd, AttemptsInOrder
<1> QED
  BY <1>1, <1>2, AttemptsStep, PTL DEF NewSpec

----------------------------------------------------------------------------
(***************************************************************************)
(* The panel.  A send is alone as long as nothing else was written into    *)
(* the list while it streams; then the last message is its answer so far,  *)
(* and holds the tokens it has read, in order (Answering).                 *)
(***************************************************************************)

LEMMA ConcatIs ==
    ASSUME NEW S, NEW s \in Seq(S), NEW t \in Seq(S)
    PROVE  /\ s \o t \in Seq(S) /\ Len(s \o t) = Len(s) + Len(t)
           /\ \A i \in 1 .. Len(s) : (s \o t)[i] = s[i]
           /\ \A i \in 1 .. Len(t) : (s \o t)[Len(s) + i] = t[i]
<1>1. Len(s) \in Nat /\ Len(t) \in Nat
  BY LenProperties
<1> DEFINE c == s \o t
<1>2. /\ c \in Seq(S) /\ Len(c) = Len(s) + Len(t)
      /\ \A i \in 1 .. Len(s) + Len(t) : c[i] = IF i <= Len(s) THEN s[i] ELSE t[i - Len(s)]
  BY ConcatProperties
<1> HIDE DEF c
<1>3. ASSUME NEW i \in 1 .. Len(s) PROVE c[i] = s[i]
  <2>1. i \in 1 .. Len(s) + Len(t) /\ i <= Len(s)
    BY <1>1
  <2> QED
    BY <1>2, <2>1
<1>4. ASSUME NEW i \in 1 .. Len(t) PROVE c[Len(s) + i] = t[i]
  <2>1. /\ Len(s) + i \in 1 .. Len(s) + Len(t) /\ ~(Len(s) + i <= Len(s))
        /\ (Len(s) + i) - Len(s) = i
    BY <1>1
  <2> QED
    BY <1>2, <2>1
<1>5. /\ c \in Seq(S) /\ Len(c) = Len(s) + Len(t)
      /\ \A i \in 1 .. Len(s) : c[i] = s[i]
      /\ \A i \in 1 .. Len(t) : c[Len(s) + i] = t[i]
  BY <1>2, <1>3, <1>4
<1> QED
  BY <1>5 DEF c

Kinds == {"token", "typed", "reply", "error", "stopped", "history", "no answer"}
Pieces == Kinds \X Nat \X Nat

Messages == [role : {"user", "assistant"}, text : Seq(Pieces)]

Whereabouts == {"idle", "fetching", "reading", "registering", "fallback", "over"}

SendRecords ==
    [at : Whereabouts, aborted : BOOLEAN, failed : BOOLEAN, said : Nat, parts : Seq(Parts),
     alone : BOOLEAN]

\* The first n tokens of a send.
Said(s, n) == [k \in 1 .. n |-> Piece(s, k)]

\* A send into which nobody typed has its answer so far in the last message.
Answering(s, q, ms) ==
    /\ q.at = "idle" \/ q.at = "fallback" => q.said = 0
    /\ q.at \notin {"idle", "over"} /\ q.alone => Has(ms) /\ Final(ms) = Assistant(Said(s, q.said))

PanelInd ==
    /\ messages \in Seq(Messages) /\ abortRef \in Sends \cup {0}
    /\ send \in [Sends -> SendRecords]
    /\ \A s \in Sends : Answering(s, send[s], messages)

LEMMA SendsAre == 0 \notin Sends /\ \A s \in Sends : s \in Nat
BY PanelAssumption DEF Sends

LEMMA PiecesAre ==
    /\ \A s \in Sends, n \in Nat : Piece(s, n) \in Pieces
    /\ \A what \in Kinds : Note(what) \in Pieces
<1>1. \A a \in Kinds, b \in Nat, c \in Nat : <<a, b, c>> \in Kinds \X Nat \X Nat
  OBVIOUS
<1>2. "token" \in Kinds /\ 0 \in Nat
  BY DEF Kinds
<1> QED
  BY <1>1, <1>2, SendsAre DEF Piece, Note, Pieces

LEMMA SaidIs ==
    ASSUME NEW s \in Sends, NEW n \in Nat
    PROVE  Said(s, n) \in Seq(Pieces) /\ Len(Said(s, n)) = n
           /\ (n # 0 => Said(s, n) # <<>>) /\ Said(s, 0) = <<>>
<1>1. \A m \in Nat : Said(s, m) \in [1 .. m -> Pieces]
  BY PiecesAre DEF Said
<1>2. \A m \in Nat : Said(s, m) \in Seq(Pieces) /\ Len(Said(s, m)) = m
  <2> SUFFICES ASSUME NEW m \in Nat PROVE Said(s, m) \in Seq(Pieces) /\ Len(Said(s, m)) = m
    OBVIOUS
  <2>1. Said(s, m) \in [1 .. m -> Pieces]
    BY <1>1
  <2> QED
    BY <2>1 DEF Said
<1> QED
  BY <1>2, EmptySeq

LEMMA SaysMore ==
    ASSUME NEW s \in Sends, NEW n \in Nat, NEW m \in Nat
    PROVE  Said(s, n) \o [k \in 1 .. m |-> Piece(s, n + k)] = Said(s, n + m)
<1> DEFINE more == [k \in 1 .. m |-> Piece(s, n + k)]
           all == Said(s, n) \o more
<1>1. n + m \in Nat /\ \A k \in 1 .. m : n + k \in Nat /\ n + k \in 1 .. n + m
  OBVIOUS
<1>2. more \in [1 .. m -> Pieces]
  BY <1>1, PiecesAre
<1>3. more \in Seq(Pieces) /\ Len(more) = m /\ \A k \in 1 .. m : more[k] = Piece(s, n + k)
  BY <1>2
<1> HIDE DEF more
<1>4. Said(s, n) \in Seq(Pieces) /\ Len(Said(s, n)) = n
      /\ Said(s, n + m) \in Seq(Pieces) /\ Len(Said(s, n + m)) = n + m
  BY <1>1, SaidIs
<1>5. /\ all \in Seq(Pieces) /\ Len(all) = n + m
      /\ \A i \in 1 .. n : all[i] = Said(s, n)[i]
      /\ \A i \in 1 .. m : all[n + i] = more[i]
  <2>1. Said(s, n) \in Seq(Pieces) /\ more \in Seq(Pieces)
    BY <1>3, <1>4
  <2>2. /\ all \in Seq(Pieces) /\ Len(all) = Len(Said(s, n)) + Len(more)
        /\ \A i \in 1 .. Len(Said(s, n)) : all[i] = Said(s, n)[i]
        /\ \A i \in 1 .. Len(more) : all[Len(Said(s, n)) + i] = more[i]
    BY <2>1, ConcatIs
  <2> QED
    BY <1>3, <1>4, <2>2
<1> HIDE DEF all
<1>6. ASSUME NEW i \in 1 .. n + m PROVE all[i] = Said(s, n + m)[i]
  <2>1. Said(s, n + m)[i] = Piece(s, i)
    BY DEF Said
  <2>2. CASE i \in 1 .. n
    BY <1>5, <2>1, <2>2 DEF Said
  <2>3. CASE i \notin 1 .. n
    <3>1. i - n \in 1 .. m /\ n + (i - n) = i
      BY <2>3
    <3> QED
      BY <1>3, <1>5, <2>1, <3>1
  <2> QED
    BY <2>2, <2>3
<1>7. all = Said(s, n + m)
  BY <1>4, <1>5, <1>6, SeqEqual
<1> QED
  BY <1>7 DEF all, more

\* What the updaters make of a list.
LEMMA SetLastIs ==
    ASSUME NEW ms \in Seq(Messages), Has(ms), NEW m \in Messages
    PROVE  SetLast(ms, m) \in Seq(Messages) /\ Has(SetLast(ms, m)) /\ Final(SetLast(ms, m)) = m
           /\ Final(ms) \in Messages
<1>1. Len(ms) \in 1 .. Len(ms) /\ ms \in [1 .. Len(ms) -> Messages] /\ Len(ms) \in Nat
  BY EmptySeq, LenProperties DEF Has
<1>2. SetLast(ms, m) \in [1 .. Len(ms) -> Messages] /\ SetLast(ms, m)[Len(ms)] = m
  BY <1>1 DEF SetLast
<1>3. SetLast(ms, m) \in Seq(Messages) /\ Len(SetLast(ms, m)) = Len(ms)
  BY <1>1, <1>2
<1>4. SetLast(ms, m) # <<>>
  BY <1>1, <1>3, EmptySeq
<1> QED
  BY <1>1, <1>2, <1>3, <1>4 DEF Has, Final

LEMMA LastIs == ASSUME NEW ms \in Seq(Messages), Has(ms) PROVE Final(ms) \in Messages
<1>1. Len(ms) \in 1 .. Len(ms)
  BY EmptySeq, LenProperties DEF Has
<1> QED
  BY <1>1, ElementOfSeq DEF Final

LEMMA AppendedIs ==
    ASSUME NEW ms \in Seq(Messages), NEW m \in Messages
    PROVE  Append(ms, m) \in Seq(Messages) /\ Has(Append(ms, m)) /\ Final(Append(ms, m)) = m
BY AppendProperties DEF Has, Final

LEMMA WithTokensIs ==
    ASSUME PanelInd, NEW s \in Sends, NEW ms \in Seq(Messages), NEW n \in Nat
    PROVE  LET a == WithTokens(ms, s, n)
           IN  /\ a \in Seq(Messages)
               /\ ms = messages /\ InFlight(s) /\ send[s].alone =>
                     Has(a) /\ Final(a) = Assistant(Said(s, send[s].said + n))
<1> DEFINE d == send[s].said
           more == [k \in 1 .. n |-> Piece(s, d + k)]
<1>1. d \in Nat
  BY DEF PanelInd, SendRecords
<1>2. WithTokens(ms, s, n) = IF Answers(ms) THEN SetLast(ms, Assistant(Final(ms).text \o more)) ELSE ms
  BY DEF WithTokens, appendAssistantToken
<1>3. more \in Seq(Pieces)
  <2>1. \A k \in 1 .. n : d + k \in Nat
    BY <1>1
  <2>2. more \in [1 .. n -> Pieces]
    BY <2>1, PiecesAre
  <2> QED
    BY <2>2
<1>4. Said(s, d) \o more = Said(s, d + n)
  BY <1>1, SaysMore
<1> HIDE DEF more, d
<1>5. CASE Answers(ms)
  <2> DEFINE txt == Final(ms).text \o more
  <2>1. Has(ms) /\ Final(ms) \in Messages
    BY <1>5, LastIs DEF Answers
  <2>2. txt \in Seq(Pieces)
    BY <1>3, <2>1, ConcatIs DEF Messages
  <2>3. Assistant(txt) \in Messages
    BY <2>2 DEF Assistant, Messages
  <2>4. ms = messages /\ InFlight(s) /\ send[s].alone => txt = Said(s, d + n)
    <3> SUFFICES ASSUME ms = messages, InFlight(s), send[s].alone PROVE txt = Said(s, d + n)
      OBVIOUS
    <3>1. Final(ms) = Assistant(Said(s, d))
      BY DEF PanelInd, Answering, InFlight, d
    <3>2. Final(ms).text = Said(s, d)
      BY <3>1 DEF Assistant
    <3> QED
      BY <1>4, <3>2
  <2> HIDE DEF txt
  <2>5. WithTokens(ms, s, n) = SetLast(ms, Assistant(txt))
    BY <1>2, <1>5 DEF txt
  <2> QED
    BY <2>1, <2>3, <2>4, <2>5, SetLastIs DEF d
<1>6. CASE ~Answers(ms)
  <2>1. ~(ms = messages /\ InFlight(s) /\ send[s].alone)
    BY <1>6 DEF Answers, PanelInd, Answering, InFlight, Assistant
  <2> QED
    BY <1>2, <1>6, <2>1
<1> QED
  BY <1>5, <1>6

\* One send moves on, the others are disturbed.
LEMMA DisturbedIs ==
    ASSUME PanelInd, NEW s \in Sends \cup {0}, NEW ms
    PROVE  /\ Disturbed(s) \in [Sends -> SendRecords]
           /\ \A o \in Sends : /\ Disturbed(s)[o].at = send[o].at /\ Disturbed(s)[o].said = send[o].said
                               /\ Disturbed(s)[o].aborted = send[o].aborted
           /\ \A o \in Sends : o # s => Answering(o, Disturbed(s)[o], ms)
<1> DEFINE d == Disturbed(s)
<1>1. ASSUME NEW o \in Sends
      PROVE  /\ d[o] \in SendRecords /\ d[o].at = send[o].at /\ d[o].said = send[o].said
             /\ d[o].aborted = send[o].aborted
             /\ o # s => Answering(o, d[o], ms)
  <2>1. send[o] \in SendRecords /\ Answering(o, send[o], messages)
    BY DEF PanelInd
  <2>2. d[o] = IF o # s /\ InFlight(o) THEN [send[o] EXCEPT !.alone = FALSE] ELSE send[o]
    BY DEF Disturbed
  <2>3. CASE o # s /\ InFlight(o)
    <3>1. /\ d[o] \in SendRecords /\ d[o].at = send[o].at /\ d[o].said = send[o].said
          /\ d[o].aborted = send[o].aborted /\ ~d[o].alone
      BY <2>1, <2>2, <2>3 DEF SendRecords
    <3> QED
      BY <2>1, <3>1 DEF Answering
  <2>4. CASE ~(o # s /\ InFlight(o))
    BY <2>1, <2>2, <2>4 DEF Answering, InFlight
  <2> QED
    BY <2>3, <2>4
<1>2. d \in [Sends -> SendRecords]
  <2>1. d = [o \in Sends |-> d[o]]
    BY DEF Disturbed
  <2> HIDE DEF d
  <2> QED
    BY <1>1, <2>1
<1> QED
  BY <1>1, <1>2

LEMMA OneSend ==
    ASSUME PanelInd, NEW s \in Sends, NEW q \in SendRecords,
           messages' \in Seq(Messages), abortRef' \in Sends \cup {0},
           send' = [Disturbed(s) EXCEPT ![s] = q], Answering(s, q, messages')
    PROVE  PanelInd' /\ send'[s] = q
           /\ \A o \in Sends : o # s => send'[o].at = send[o].at
<1> DEFINE d == Disturbed(s)
<1>1. /\ d \in [Sends -> SendRecords]
      /\ \A o \in Sends : d[o].at = send[o].at
      /\ \A o \in Sends : o # s => Answering(o, d[o], messages')
  BY DisturbedIs
<1> HIDE DEF d
<1>2. send' = [d EXCEPT ![s] = q]
  BY DEF d
<1>3. /\ send' \in [Sends -> SendRecords] /\ send'[s] = q
      /\ \A o \in Sends : o # s => send'[o] = d[o]
  BY <1>1, <1>2
<1>4. ASSUME NEW o \in Sends PROVE Answering(o, send'[o], messages')
  BY <1>1, <1>3
<1> QED
  BY <1>1, <1>3, <1>4 DEF PanelInd

LEMMA NoSend ==
    ASSUME PanelInd, messages' \in Seq(Messages), abortRef' \in Sends \cup {0}, send' = Disturbed(0)
    PROVE  PanelInd' /\ \A o \in Sends : send'[o].at = send[o].at
<1>1. /\ Disturbed(0) \in [Sends -> SendRecords]
      /\ \A o \in Sends : Disturbed(0)[o].at = send[o].at
      /\ \A o \in Sends : o # 0 => Answering(o, Disturbed(0)[o], messages')
  BY DisturbedIs
<1>2. \A o \in Sends : Answering(o, send'[o], messages')
  BY <1>1, SendsAre
<1> QED
  BY <1>1, <1>2 DEF PanelInd

LEMMA NotesAre ==
    ASSUME NEW what \in Kinds
    PROVE  /\ <<Note(what)>> \in Seq(Pieces) /\ <<Note(what)>> # <<>>
           /\ Assistant(<<Note(what)>>) \in Messages /\ User(<<Note(what)>>) \in Messages
<1> DEFINE note == Note(what)
<1>1. note \in Pieces
  BY PiecesAre
<1> HIDE DEF note
<1>2. <<note>> \in Seq(Pieces) /\ <<note>> # <<>>
  BY <1>1
<1>3. /\ Assistant(<<note>>) \in Messages /\ User(<<note>>) \in Messages
  BY <1>2 DEF Assistant, User, Messages
<1> QED
  BY <1>2, <1>3 DEF note

LEMMA KeptIs == ASSUME PanelInd PROVE Kept \in Seq(Messages)
<1>1. CASE editing \notin DOMAIN messages
  BY <1>1 DEF Kept, PanelInd
<1>2. CASE editing \in DOMAIN messages
  <2>1. messages \in Seq(Messages) /\ editing \in 1 .. Len(messages) /\ Len(messages) \in Nat
    BY <1>2, LenProperties DEF PanelInd
  <2>2. editing - 1 \in Int /\ \A i \in 1 .. editing - 1 : i \in 1 .. Len(messages)
    BY <2>1
  <2>3. \A i \in 1 .. editing - 1 : messages[i] \in Messages
    BY <2>1, <2>2, ElementOfSeq
  <2>4. SubSeq(messages, 1, editing - 1) \in Seq(Messages)
    BY <2>2, <2>3, SubSeqProperties
  <2> QED
    BY <1>2, <2>4 DEF Kept
<1> QED
  BY <1>1, <1>2

LEMMA SetAssistantIs ==
    ASSUME NEW ms \in Seq(Messages), NEW what \in Kinds
    PROVE  LET a == setLastAssistantMessage(ms, Note(what))
           IN  /\ a \in Seq(Messages)
               /\ Answers(ms) => Answers(a) /\ Final(a).text = <<Note(what)>>
<1>1. CASE ~Has(ms)
  BY <1>1 DEF setLastAssistantMessage, Answers
<1>2. CASE Has(ms)
  <2> DEFINE m == [Final(ms) EXCEPT !.text = <<Note(what)>>]
  <2>1. Final(ms) \in Messages
    BY <1>2, LastIs
  <2>2. m \in Messages /\ m.text = <<Note(what)>> /\ m.role = Final(ms).role
    BY <2>1, NotesAre DEF Messages
  <2>3. setLastAssistantMessage(ms, Note(what)) = SetLast(ms, m)
    BY <1>2 DEF setLastAssistantMessage
  <2> HIDE DEF m
  <2> QED
    BY <1>2, <2>2, <2>3, SetLastIs DEF Answers
<1> QED
  BY <1>1, <1>2

LEMMA WithErrorIs ==
    ASSUME NEW ms \in Seq(Messages), NEW failed \in BOOLEAN
    PROVE  LET a == WithError(ms, failed)
           IN  /\ a \in Seq(Messages)
               /\ Answers(ms) => Answers(a)
               /\ a = ms \/ Final(a).text = <<Note("error")>>
<1>1. CASE failed /\ Answers(ms)
  <2>1. WithError(ms, failed) = SetLast(ms, Assistant(<<Note("error")>>)) /\ Has(ms)
    BY <1>1 DEF WithError, Answers
  <2> QED
    <3> DEFINE m == Assistant(<<Note("error")>>)
    <3>1. m \in Messages /\ m.role = "assistant" /\ m.text = <<Note("error")>>
      BY NotesAre DEF Kinds, Assistant
    <3> HIDE DEF m
    <3>2. WithError(ms, failed) = SetLast(ms, m) /\ Has(ms)
      BY <2>1 DEF m
    <3> QED
      BY <3>1, <3>2, SetLastIs DEF Answers
<1>2. CASE ~(failed /\ Answers(ms))
  BY <1>2 DEF WithError
<1> QED
  BY <1>1, <1>2

LEMMA CountsAre ==
    ASSUME NEW parts \in Seq(Parts)
    PROVE  /\ Cardinality(BeforeConfirm(parts)) \in Nat
           /\ Cardinality({i \in BeforeConfirm(parts) : parts[i] = "token"}) \in Nat
           /\ SubSeq(parts, Cardinality(BeforeConfirm(parts)) + 2, Len(parts)) \in Seq(Parts)
<1> DEFINE now == BeforeConfirm(parts)
           tokens == {i \in now : parts[i] = "token"}
<1>1. IsFiniteSet(DOMAIN parts) /\ Len(parts) \in Nat /\ DOMAIN parts = 1 .. Len(parts)
  BY LenProperties, FS_Interval
<1>2. now \subseteq DOMAIN parts /\ tokens \subseteq DOMAIN parts
  BY DEF BeforeConfirm
<1> HIDE DEF now, tokens
<1>3. IsFiniteSet(now) /\ IsFiniteSet(tokens)
  BY <1>1, <1>2, FS_Subset
<1>4. Cardinality(now) \in Nat /\ Cardinality(tokens) \in Nat
  BY <1>3, FS_CardinalityType
<1> DEFINE from == Cardinality(now) + 2
<1>5. from \in Int /\ \A i \in from .. Len(parts) : i \in 1 .. Len(parts)
  BY <1>1, <1>4
<1>6. \A i \in from .. Len(parts) : parts[i] \in Parts
  BY <1>5, ElementOfSeq
<1> HIDE DEF from
<1>7. SubSeq(parts, from, Len(parts)) \in Seq(Parts)
  BY <1>1, <1>5, <1>6, SubSeqProperties
<1> QED
  BY <1>4, <1>7 DEF now, tokens, from

LEMMA PanelStarts == PanelInit => PanelInd
<1> SUFFICES ASSUME PanelInit PROVE PanelInd
  OBVIOUS
<1>1. Unsent \in SendRecords /\ Unsent.said = 0 /\ Unsent.at = "idle"
  BY EmptySeq DEF Unsent, SendRecords, Whereabouts
<1> QED
  BY <1>1, EmptySeq DEF PanelInit, PanelInd, Answering

\* A question is sent after the messages ms.
LEMMA SendKeeps ==
    ASSUME PanelInd, NEW s \in Sends, NEW ms \in Seq(Messages), SendMessageToAgent(s, ms)
    PROVE  PanelInd' /\ \A o \in Sends : InFlight(o) => send'[o].at = send[o].at
<1> DEFINE asked == User(<<Note("typed")>>)
           answer == Assistant(<<>>)
           two == <<asked, answer>>
           q == [Unsent EXCEPT !.at = "fetching"]
<1>1. asked \in Messages /\ answer \in Messages
  BY NotesAre, EmptySeq DEF Messages, Assistant, Kinds
<1>2. answer = Assistant(Said(s, 0))
  BY SaidIs
<1> HIDE DEF asked, answer
<1>3. two \in Seq(Messages) /\ Len(two) = 2 /\ two[2] = answer
  BY <1>1
<1>4. /\ messages' = ms \o two /\ abortRef' = s /\ send' = [Disturbed(s) EXCEPT ![s] = q]
      /\ send[s].at = "idle"
  BY DEF SendMessageToAgent, asked, answer
<1> HIDE DEF two
<1>5. /\ messages' \in Seq(Messages) /\ Len(messages') = Len(ms) + 2
      /\ messages'[Len(ms) + 2] = answer
  <2>1. /\ ms \o two \in Seq(Messages) /\ Len(ms \o two) = Len(ms) + Len(two)
        /\ \A i \in 1 .. Len(two) : (ms \o two)[Len(ms) + i] = two[i]
    <3>1. two \in Seq(Messages)
      BY <1>3
    <3> QED
      BY <3>1, ConcatIs
  <2> QED
    BY <1>3, <1>4, <2>1
<1>6. Has(messages') /\ Final(messages') = answer
  <2>1. Len(ms) + 2 # 0
    BY LenProperties
  <2> QED
    BY <1>5, <2>1, EmptySeq DEF Has, Final
<1>7. q \in SendRecords /\ q.at = "fetching" /\ q.said = 0
  BY EmptySeq DEF Unsent, SendRecords, Whereabouts
<1> HIDE DEF q
<1>8. Answering(s, q, messages')
  BY <1>2, <1>6, <1>7 DEF Answering
<1>9. PanelInd' /\ \A o \in Sends : o # s => send'[o].at = send[o].at
  BY <1>4, <1>5, <1>7, <1>8, OneSend
<1> QED
  BY <1>4, <1>9 DEF InFlight

LEMMA ProcessKeeps ==
    ASSUME PanelInd, NEW s \in Sends, InFlight(s), NEW parts \in Seq(Parts),
           NEW ms \in Seq(Messages), Process(s, parts, ms)
    PROVE  PanelInd' /\ send'[s].at # "over" /\ \A o \in Sends : o # s => send'[o].at = send[o].at
<1> DEFINE now == BeforeConfirm(parts)
           n   == Cardinality({i \in now : parts[i] = "token"})
           left == SubSeq(parts, Cardinality(now) + 2, Len(parts))
           where == IF now = DOMAIN parts THEN "reading" ELSE "registering"
           error == \E i \in now : parts[i] = "error"
           q == [at      |-> where,
                 aborted |-> send[s].aborted,
                 failed  |-> send[s].failed \/ error,
                 said    |-> send[s].said + n,
                 parts   |-> left,
                 alone   |-> send[s].alone /\ ms = messages]
<1>1. /\ messages' = WithTokens(ms, s, n) /\ send' = [Disturbed(s) EXCEPT ![s] = q]
      /\ UNCHANGED abortRef
  BY DEF Process
<1>2. n \in Nat /\ left \in Seq(Parts)
  BY CountsAre
<1>3. where \in {"reading", "registering"} /\ error \in BOOLEAN /\ (ms = messages) \in BOOLEAN
  OBVIOUS
<1> HIDE DEF n, left, where, error
<1>4. /\ messages' \in Seq(Messages)
      /\ ms = messages /\ send[s].alone =>
            Has(messages') /\ Final(messages') = Assistant(Said(s, send[s].said + n))
  BY <1>1, <1>2, WithTokensIs
<1>5. send[s] \in SendRecords /\ send[s].said + n \in Nat
  BY <1>2 DEF PanelInd, SendRecords
<1>6. q \in SendRecords /\ q.at = where /\ q.said = send[s].said + n
      /\ (q.alone <=> send[s].alone /\ ms = messages)
  BY <1>2, <1>3, <1>5 DEF SendRecords, Whereabouts
<1> HIDE DEF q
<1>7. Answering(s, q, messages')
  BY <1>3, <1>4, <1>6 DEF Answering
<1>8. abortRef' \in Sends \cup {0}
  BY <1>1 DEF PanelInd
<1> QED
  BY <1>1, <1>3, <1>4, <1>6, <1>7, <1>8, OneSend

\* What a send leaves when it ends.
Left(s, said, ms) ==
    /\ Final(ms).role = "assistant" /\ Final(ms).text # <<>>
    /\ \/ Final(ms).text = Said(s, said)
       \/ send[s].aborted /\ Final(ms).text = <<Note("stopped")>> /\ said = 0
       \/ said = 0 /\ Final(ms).text \in {<<Note("history")>>, <<Note("no answer")>>}
       \/ Final(ms).text = <<Note("error")>>

LEMMA EndsKeeps ==
    ASSUME PanelInd, NEW s \in Sends, NEW said \in Nat, messages' \in Seq(Messages), Ends(s, said)
    PROVE  PanelInd' /\ send'[s].said = said /\ \A o \in Sends : o # s => send'[o].at = send[o].at
<1> DEFINE q == [Unsent EXCEPT !.at = "over", !.said = said]
<1>1. send' = [Disturbed(s) EXCEPT ![s] = q] /\ abortRef' \in Sends \cup {0}
  BY DEF Ends
<1>2. q \in SendRecords /\ q.at = "over" /\ q.said = said
  BY EmptySeq DEF Unsent, SendRecords, Whereabouts
<1> HIDE DEF q
<1>3. Answering(s, q, messages')
  BY <1>2 DEF Answering
<1> QED
  BY <1>1, <1>2, <1>3, OneSend

\* The answer of a send, shown in the last message while nobody typed into it.
LEMMA AloneIs ==
    ASSUME PanelInd, NEW s \in Sends, InFlight(s), send[s].alone
    PROVE  Answers(messages) /\ Final(messages).text = Said(s, send[s].said)
BY DEF PanelInd, Answering, InFlight, Answers, Assistant

\* A step of a stream: what it leaves when it ends the send.
StreamFine(s) ==
    /\ PanelInd'
    /\ \A o \in Sends : o # s => send'[o].at = send[o].at
    /\ send'[s].at = "over" /\ send[s].alone => Left(s, send'[s].said, messages')

LEMMA StreamEndsFine == ASSUME PanelInd, NEW s \in Sends, StreamEnds(s) PROVE StreamFine(s)
<1>1. PICK n \in 0 .. 1 :
         IF send[s].said + n = 0
           THEN /\ send' = [send EXCEPT ![s].at = "fallback"]
                /\ UNCHANGED <<messages, isSending, abortRef, editing, pending, inputs>>
           ELSE /\ messages' = WithError(WithTokens(messages, s, n), send[s].failed)
                /\ Ends(s, send[s].said + n)
  BY DEF StreamEnds
<1>2. /\ send[s] \in SendRecords /\ send[s].said \in Nat /\ n \in Nat /\ send[s].said + n \in Nat
      /\ send[s].failed \in BOOLEAN /\ InFlight(s) /\ messages \in Seq(Messages)
  BY DEF PanelInd, SendRecords, StreamEnds, InFlight
<1>3. CASE send[s].said + n = 0
  <2>1. send' = [send EXCEPT ![s].at = "fallback"] /\ UNCHANGED <<messages, abortRef>>
    BY <1>1, <1>3
  <2>2. send[s].said = 0
    BY <1>2, <1>3
  <2>3. /\ send' \in [Sends -> SendRecords] /\ send'[s].at = "fallback"
        /\ send'[s].said = send[s].said /\ send'[s].alone = send[s].alone
        /\ \A o \in Sends : o # s => send'[o] = send[o]
    BY <1>2, <2>1 DEF PanelInd, SendRecords, Whereabouts
  <2>4. Answering(s, send'[s], messages')
    BY <1>2, <2>1, <2>2, <2>3 DEF PanelInd, Answering, InFlight
  <2>5. PanelInd'
    BY <2>1, <2>3, <2>4 DEF PanelInd
  <2> QED
    BY <2>3, <2>5 DEF StreamFine
<1>4. CASE send[s].said + n # 0
  <2> DEFINE ms == WithTokens(messages, s, n)
             m  == send[s].said + n
  <2>1. /\ ms \in Seq(Messages)
        /\ send[s].alone => Has(ms) /\ Final(ms) = Assistant(Said(s, m))
    BY <1>2, WithTokensIs
  <2>2. messages' = WithError(ms, send[s].failed) /\ Ends(s, m) /\ m \in Nat /\ m # 0
    BY <1>1, <1>2, <1>4
  <2> HIDE DEF ms, m
  <2>3. /\ messages' \in Seq(Messages)
        /\ Answers(ms) => Answers(messages')
        /\ messages' = ms \/ Final(messages').text = <<Note("error")>>
    BY <1>2, <2>1, <2>2, WithErrorIs
  <2>4. PanelInd' /\ send'[s].said = m /\ \A o \in Sends : o # s => send'[o].at = send[o].at
    BY <2>2, <2>3, EndsKeeps
  <2>5. send[s].alone => Left(s, m, messages')
    <3> SUFFICES ASSUME send[s].alone PROVE Left(s, m, messages')
      OBVIOUS
    <3>1. Answers(ms) /\ Final(ms).text = Said(s, m) /\ Said(s, m) # <<>>
      BY <2>1, <2>2, SaidIs DEF Answers, Assistant
    <3>2. Final(messages').role = "assistant"
      BY <2>3, <3>1 DEF Answers
    <3> QED
      BY <2>3, <3>1, <3>2, NotesAre DEF Kinds, Left
  <2> QED
    BY <2>4, <2>5 DEF StreamFine
<1> QED
  BY <1>3, <1>4

LEMMA FallbackFine == ASSUME PanelInd, NEW s \in Sends, FallbackReturns(s) PROVE StreamFine(s)
<1>1. PICK found \in {"history", "no answer", "error"} :
          messages' = IF found = "error" THEN setLastAssistantMessage(messages, Note(found))
                      ELSE WithError(setLastAssistantMessage(messages, Note(found)), send[s].failed)
  BY DEF FallbackReturns
<1>2. /\ send[s] \in SendRecords /\ send[s].said = 0 /\ send[s].failed \in BOOLEAN /\ InFlight(s)
      /\ messages \in Seq(Messages) /\ Ends(s, 0)
  BY DEF PanelInd, SendRecords, FallbackReturns, InFlight, Answering
<1> DEFINE ms == setLastAssistantMessage(messages, Note(found))
<1>3. /\ ms \in Seq(Messages)
      /\ Answers(messages) => Answers(ms) /\ Final(ms).text = <<Note(found)>>
  BY <1>2, SetAssistantIs DEF Kinds
<1>4. (messages' = ms /\ found = "error") \/ messages' = WithError(ms, send[s].failed)
  BY <1>1
<1> HIDE DEF ms
<1>5. /\ messages' \in Seq(Messages)
      /\ Answers(ms) => Answers(messages')
      /\ messages' = ms \/ Final(messages').text = <<Note("error")>>
  BY <1>2, <1>3, <1>4, WithErrorIs
<1>6. PanelInd' /\ send'[s].said = 0 /\ \A o \in Sends : o # s => send'[o].at = send[o].at
  <2>1. 0 \in Nat
    OBVIOUS
  <2> QED
    BY <1>2, <1>5, <2>1, EndsKeeps
<1>7. send[s].alone => Left(s, 0, messages')
  <2> SUFFICES ASSUME send[s].alone PROVE Left(s, 0, messages')
    OBVIOUS
  <2>1. Answers(messages)
    BY <1>2, AloneIs
  <2>2. Final(messages').role = "assistant"
    BY <1>3, <1>5, <2>1 DEF Answers
  <2>3. Final(messages').text \in {<<Note("history")>>, <<Note("no answer")>>, <<Note("error")>>}
    BY <1>1, <1>3, <1>5, <2>1
  <2> QED
    BY <2>2, <2>3, NotesAre DEF Kinds, Left
<1> QED
  BY <1>6, <1>7 DEF StreamFine

LEMMA RequestFailsFine == ASSUME PanelInd, NEW s \in Sends, RequestFails(s) PROVE StreamFine(s)
<1>1. /\ send[s] \in SendRecords /\ send[s].said \in Nat /\ InFlight(s)
      /\ messages \in Seq(Messages) /\ Ends(s, send[s].said)
      /\ messages' = setLastAssistantMessage(messages, Note("error"))
  BY DEF PanelInd, SendRecords, RequestFails, InFlight
<1>2. /\ messages' \in Seq(Messages)
      /\ Answers(messages) => Answers(messages') /\ Final(messages').text = <<Note("error")>>
  BY <1>1, SetAssistantIs DEF Kinds
<1>3. PanelInd' /\ send'[s].said = send[s].said /\ \A o \in Sends : o # s => send'[o].at = send[o].at
  BY <1>1, <1>2, EndsKeeps
<1>4. send[s].alone => Left(s, send[s].said, messages')
  BY <1>1, <1>2, AloneIs, NotesAre DEF Kinds, Left, Answers
<1> QED
  BY <1>3, <1>4 DEF StreamFine

LEMMA AbortFine == ASSUME PanelInd, NEW s \in Sends, AbortReaches(s) PROVE StreamFine(s)
<1>1. /\ send[s] \in SendRecords /\ send[s].said \in Nat /\ InFlight(s) /\ send[s].aborted
      /\ messages \in Seq(Messages) /\ Ends(s, send[s].said)
      /\ messages' = IF Answers(messages) /\ Final(messages).text # <<>> THEN messages
                     ELSE setLastAssistantMessage(messages, Note("stopped"))
  BY DEF PanelInd, SendRecords, AbortReaches, InFlight
<1>2. CASE Answers(messages) /\ Final(messages).text # <<>>
  <2>1. messages' = messages
    BY <1>1, <1>2
  <2>2. PanelInd' /\ send'[s].said = send[s].said /\ \A o \in Sends : o # s => send'[o].at = send[o].at
    BY <1>1, <2>1, EndsKeeps
  <2>3. send[s].alone => Left(s, send[s].said, messages')
    BY <1>1, <1>2, <2>1, AloneIs DEF Left, Answers
  <2> QED
    BY <2>2, <2>3 DEF StreamFine
<1>3. CASE ~(Answers(messages) /\ Final(messages).text # <<>>)
  <2>1. messages' = setLastAssistantMessage(messages, Note("stopped"))
    BY <1>1, <1>3
  <2>2. /\ messages' \in Seq(Messages)
        /\ Answers(messages) => Answers(messages') /\ Final(messages').text = <<Note("stopped")>>
    BY <1>1, <2>1, SetAssistantIs DEF Kinds
  <2>3. PanelInd' /\ send'[s].said = send[s].said /\ \A o \in Sends : o # s => send'[o].at = send[o].at
    BY <1>1, <2>2, EndsKeeps
  <2>4. send[s].alone => Left(s, send[s].said, messages')
    <3> SUFFICES ASSUME send[s].alone PROVE Left(s, send[s].said, messages')
      OBVIOUS
    <3>1. Answers(messages) /\ Final(messages).text = Said(s, send[s].said)
      BY <1>1, AloneIs
    <3>2. send[s].said = 0
      BY <1>1, <1>3, <3>1, SaidIs
    <3> QED
      BY <1>1, <2>2, <3>1, <3>2, NotesAre DEF Kinds, Left, Answers
  <2> QED
    BY <2>3, <2>4 DEF StreamFine
<1> QED
  BY <1>2, <1>3

LEMMA ReadsFine ==
    ASSUME PanelInd, NEW s \in Sends, ReadChunk(s) \/ Registered(s) \/ NotRegistered(s)
    PROVE  StreamFine(s)
<1>1. messages \in Seq(Messages) /\ send[s].parts \in Seq(Parts) /\ InFlight(s)
  BY DEF PanelInd, SendRecords, ReadChunk, Registered, NotRegistered, InFlight
<1>2. Append(messages, Assistant(<<Note("reply")>>)) \in Seq(Messages)
  BY <1>1, NotesAre, AppendedIs DEF Kinds
<1>3. Chunks \subseteq Seq(Parts)
  <2> SUFFICES ASSUME NEW c \in Chunks PROVE c \in Seq(Parts)
    OBVIOUS
  <2>1. PICK n \in 1 .. 2 : c \in [1 .. n -> Parts]
    BY DEF Chunks
  <2>2. n \in Nat
    OBVIOUS
  <2> QED
    BY <2>1, <2>2, SeqDef
<1>4. \E parts \in Seq(Parts), ms \in Seq(Messages) : Process(s, parts, ms)
  BY <1>1, <1>2, <1>3 DEF ReadChunk, Registered, NotRegistered
<1> QED
  BY <1>1, <1>4, ProcessKeeps DEF StreamFine

LEMMA StreamsFine == ASSUME PanelInd, NEW s \in Sends, Streams(s) PROVE StreamFine(s)
BY ReadsFine, StreamEndsFine, FallbackFine, RequestFailsFine, AbortFine DEF Streams

\* Every other step ends no send.
Quiet == PanelInd' /\ \A o \in Sends : InFlight(o) => send'[o].at = send[o].at

LEMMA LocalIs ==
    ASSUME PanelInd, NEW texts \in Seq(Messages), Local(texts)
    PROVE  messages' \in Seq(Messages)
BY KeptIs, ConcatIs DEF Local

LEMMA TextsAre ==
    /\ <<Command, Reply>> \in Seq(Messages) /\ <<Command>> \in Seq(Messages) /\ Reply \in Messages
<1>1. Command \in Messages /\ Reply \in Messages
  BY NotesAre DEF Command, Reply, Kinds
<1> QED
  BY <1>1

\* A stop marks the send that the reference holds.
LEMMA StopKeeps ==
    ASSUME PanelInd, NEW from, NEW ms \in Seq(Messages),
           (from = send /\ ms = messages) \/ from = Disturbed(0),
           abortRef # 0, send' = [from EXCEPT ![abortRef].aborted = TRUE],
           messages' = ms, abortRef' \in Sends \cup {0}
    PROVE  Quiet
<1> DEFINE a == abortRef
<1>1. a \in Sends
  BY DEF PanelInd
<1>2. /\ from \in [Sends -> SendRecords]
      /\ \A o \in Sends : from[o].at = send[o].at /\ Answering(o, from[o], ms)
  <2>1. CASE from = send /\ ms = messages
    BY <2>1 DEF PanelInd
  <2>2. CASE from = Disturbed(0)
    BY <2>2, DisturbedIs, SendsAre
  <2> QED
    BY <2>1, <2>2
<1>3. ASSUME NEW o \in Sends
      PROVE  /\ send'[o] \in SendRecords /\ send'[o].at = from[o].at /\ send'[o].said = from[o].said
             /\ send'[o].alone = from[o].alone
  <2>1. CASE o = a
    <3>1. send'[o] = [from[o] EXCEPT !.aborted = TRUE] /\ from[o] \in SendRecords
      BY <1>1, <1>2, <2>1
    <3>2. \A r \in SendRecords :
             LET e == [r EXCEPT !.aborted = TRUE]
             IN  e \in SendRecords /\ e.at = r.at /\ e.said = r.said /\ e.alone = r.alone
      BY DEF SendRecords
    <3> QED
      BY <3>1, <3>2
  <2>2. CASE o # a
    BY <1>1, <1>2, <2>2
  <2> QED
    BY <2>1, <2>2
<1>4. send' \in [Sends -> SendRecords]
  <2>1. send' = [o \in Sends |-> send'[o]]
    BY <1>1, <1>2
  <2> QED
    BY <1>3, <2>1
<1>5. \A o \in Sends : Answering(o, send'[o], messages')
  BY <1>2, <1>3 DEF Answering
<1> QED
  BY <1>2, <1>3, <1>4, <1>5 DEF Quiet, PanelInd

LEMMA OtherSteps ==
    ASSUME PanelInd,
           \/ \E s \in Sends : Submit(s) \/ Regenerate(s)
           \/ SubmitWhileSending \/ HandleStopStreaming
           \/ LocalCommand \/ StopCommand \/ ResetCommand \/ AskCommand \/ AskReturns
           \/ RetryConnection \/ ModalCloses \/ HandleEditMessage \/ HistoryLoads
           \/ UNCHANGED panelVars
    PROVE  Quiet
<1> USE DEF Quiet
<1>1. ASSUME NEW s \in Sends, Submit(s) \/ Regenerate(s) PROVE Quiet
  <2>1. messages \in Seq(Messages)
    BY DEF PanelInd
  <2> QED
    BY <1>1, <2>1, KeptIs, SendKeeps DEF Submit, Regenerate
<1>2. CASE SubmitWhileSending
  BY <1>2, KeptIs, NoSend DEF SubmitWhileSending, PanelInd
<1>3. CASE HandleStopStreaming
  <2>1. messages \in Seq(Messages) /\ abortRef' \in Sends \cup {0}
    BY <1>3 DEF PanelInd, HandleStopStreaming
  <2> QED
    BY <1>3, <2>1, StopKeeps DEF HandleStopStreaming
<1>4. CASE LocalCommand \/ AskCommand
  <2>1. messages' \in Seq(Messages)
    BY <1>4, LocalIs, TextsAre DEF LocalCommand, AskCommand
  <2>2. send' = Disturbed(0) /\ abortRef' \in Sends \cup {0}
    BY <1>4 DEF LocalCommand, AskCommand, PanelInd
  <2> QED
    BY <2>1, <2>2, NoSend
<1>5. CASE StopCommand
  <2>1. messages' \in Seq(Messages) /\ abortRef' \in Sends \cup {0}
    BY <1>5, LocalIs, TextsAre DEF StopCommand
  <2>2. CASE abortRef = 0
    BY <1>5, <2>1, <2>2, NoSend DEF StopCommand
  <2>3. CASE abortRef # 0
    BY <1>5, <2>1, <2>3, StopKeeps DEF StopCommand
  <2> QED
    BY <2>2, <2>3
<1>6. CASE ResetCommand
  BY <1>6, NoSend, EmptySeq DEF ResetCommand, PanelInd
<1>7. CASE AskReturns \/ RetryConnection \/ ModalCloses
  <2>1. Pushes
    BY <1>7 DEF AskReturns, RetryConnection, ModalCloses
  <2>2. messages' \in Seq(Messages)
    BY <2>1, TextsAre, AppendedIs DEF Pushes, PanelInd
  <2> QED
    BY <2>1, <2>2, NoSend DEF Pushes, PanelInd
<1>8. CASE HandleEditMessage \/ UNCHANGED panelVars
  BY <1>8 DEF HandleEditMessage, panelVars, PanelInd
<1>9. CASE HistoryLoads
  <2> DEFINE old == <<User(<<Note("history")>>), Assistant(<<Note("history")>>)>>
  <2>1. old \in Seq(Messages)
    <3>1. \A u \in Messages, a \in Messages : <<u, a>> \in Seq(Messages)
      OBVIOUS
    <3>2. User(<<Note("history")>>) \in Messages /\ Assistant(<<Note("history")>>) \in Messages
      BY NotesAre DEF Kinds
    <3> QED
      BY <3>1, <3>2
  <2>2. messages' = <<>> \/ messages' = old
    BY <1>9 DEF HistoryLoads
  <2> HIDE DEF old
  <2>3. messages' \in Seq(Messages)
    BY <2>1, <2>2, EmptySeq
  <2> QED
    BY <1>9, <2>3, NoSend DEF HistoryLoads, PanelInd
<1> QED
  BY <1>1, <1>2, <1>3, <1>4, <1>5, <1>6, <1>7, <1>8, <1>9

LEMMA PanelSteps ==
    ASSUME PanelInd, [PanelNext]_panelVars
    PROVE  /\ PanelInd'
           /\ \A s \in Sends : InFlight(s) /\ send'[s].at = "over" /\ send[s].alone
                                  => Left(s, send'[s].said, messages')
<1>1. ASSUME NEW s \in Sends, Streams(s)
      PROVE  /\ PanelInd'
             /\ \A o \in Sends : InFlight(o) /\ send'[o].at = "over" /\ send[o].alone
                                  => Left(o, send'[o].said, messages')
  BY <1>1, StreamsFine DEF StreamFine, InFlight
<1>2. ASSUME Quiet
      PROVE  /\ PanelInd'
             /\ \A s \in Sends : InFlight(s) /\ send'[s].at = "over" /\ send[s].alone
                                  => Left(s, send'[s].said, messages')
  BY <1>2 DEF Quiet, InFlight
<1> QED
  BY <1>1, <1>2, OtherSteps DEF PanelNext

(* UndisturbedAnswer is an action property of the panel, for any numbers of sends and tokens:
   a send into whose stream nobody typed ends with an answer, and that answer is all of its
   own tokens, or one of the notes that sendMessageToAgent writes when there were none. *)
THEOREM AnswersAreTheirOwn == PanelSpec => UndisturbedAnswer
<1>1. PanelInd /\ [PanelNext]_panelVars => PanelInd'
  BY PanelSteps
<1>2. PanelInd /\ [PanelNext]_panelVars =>
         [\A s \in Sends :
            InFlight(s) /\ send'[s].at = "over" /\ send[s].alone =>
              LET last == Final(messages')
              IN  /\ last.role = "assistant" /\ last.text # <<>>
                  /\ \/ last.text = Tokens(s)
                     \/ send[s].aborted /\ last.text = <<Note("stopped")>> /\ send'[s].said = 0
                     \/ send'[s].said = 0 /\ last.text \in {<<Note("history")>>, <<Note("no answer")>>}
                     \/ last.text = <<Note("error")>> ]_panelVars
  <2>1. \A s \in Sends : Tokens(s) = Said(s, send'[s].said)
    BY DEF Tokens, Said
  <2> QED
    BY <2>1, PanelSteps DEF Left
<1> QED
  BY <1>1, <1>2, PanelStarts, PTL DEF PanelSpec, UndisturbedAnswer

----------------------------------------------------------------------------
\* A set of numbers has a least one, and one that is bounded a greatest.
Less == {ss \in Nat \X Nat : ss[1] < ss[2]}

LEMMA HasMin == ASSUME NEW S \in SUBSET Nat, S # {} PROVE \E m \in S : \A k \in S : m <= k
<1>1. IsWellFoundedOn(Less, Nat)
  BY NatLessThanWellFounded DEF OpToRel, Less
<1>2. PICK m \in S : \A k \in S : ~(<<k, m>> \in Less)
  BY <1>1, WFMin
<1>3. \A k, l \in Nat : k < l => <<k, l>> \in Less
  BY DEF Less
<1>4. \A k \in S : ~(k < m)
  BY <1>2, <1>3
<1>5. \A k \in S : m <= k
  <2>1. \A k, l \in Nat : ~(k < l) => l <= k
    OBVIOUS
  <2> QED
    BY <1>4, <2>1
<1> QED
  BY <1>5

LEMMA HasMax == ASSUME NEW n \in Nat, NEW S \in SUBSET (1 .. n), S # {} PROVE \E m \in S : \A k \in S : k <= m
<1> DEFINE R == {n - i : i \in S}
<1>1. \A i \in 1 .. n : n - i \in Nat /\ i \in Int
  OBVIOUS
<1>2. R \in SUBSET Nat /\ R # {}
  BY <1>1
<1>3. PICK r \in R : \A k \in R : r <= k
  BY <1>2, HasMin
<1>4. PICK m \in S : r = n - m
  OBVIOUS
<1>5. \A k \in S : n - k \in R
  OBVIOUS
<1> HIDE DEF R
<1>6. \A k \in S : n - m <= n - k
  BY <1>3, <1>4, <1>5
<1>7. \A a, b \in Int : n - a <= n - b => b <= a
  OBVIOUS
<1> QED
  BY <1>1, <1>6, <1>7

----------------------------------------------------------------------------
(***************************************************************************)
(* RowsCanBeTrusted for any steps, labels, answers and limit of the rows.  *)
(* Every unfinished step pays for one open row of its label: the row a     *)
(* begin adds is paid by the step that begins, and the end of a step       *)
(* closes a row of its label whenever there is one, be it another's.  Of   *)
(* the rows that show an outcome, an end that has it makes one more at     *)
(* most, and leaves one, while no row was dropped (Tells).  The rows of    *)
(* the conversation are kept by an id that no two events share, and an id  *)
(* that was touched is in the conversation.                                *)
(***************************************************************************)

Statuses   == Open \cup Terminal
RowRecords == [step : Steps, by : Statuses, status : Statuses]

SameLabel(t)  == {s \in Steps : LabelOf[s] = LabelOf[t]}
Unfinished(p) == {s \in Steps : p[s] \in Open}

\* An event was seen when its step was at least that far.
Heard(p, said) ==
    \A s \in Steps, status \in Statuses :
        <<s, status>> \in said => IF status \in Open THEN p[s] # "idle" ELSE p[s] \in Terminal

\* Every row was made by an event that was seen, and no two by the same.
Made(log, said) ==
    /\ \A i \in DOMAIN log : <<log[i].step, log[i].by>> \in said
    /\ \A i, j \in DOMAIN log : log[i].step = log[j].step /\ log[i].by = log[j].by => i = j

\* A label has no more open rows than unfinished steps.
Backed(log, p) ==
    \A t \in Steps : Cardinality(RowsOfLabel(log, t)) <= Cardinality(SameLabel(t) \cap Unfinished(p))

\* A label has no more rows of an outcome than steps that have it, and one if there is a step.
Ended(p, status) == {s \in Steps : p[s] = status}
Told(log, p) ==
    \A t \in Steps, status \in Terminal :
        Cardinality(RowsShowing(log, t, status)) <= Cardinality(SameLabel(t) \cap Ended(p, status))
StillShown(log, p) ==
    Len(log) < MaxRows => \A s \in Steps : p[s] \in Terminal => RowsShowing(log, s, p[s]) # {}

ActivityInd ==
    /\ progress \in [Steps -> {"idle"} \cup Statuses]
    /\ rows \in Seq(RowRecords)
    /\ Heard(progress, seen) /\ Made(rows, seen) /\ Backed(rows, progress)
    /\ Told(rows, progress) /\ StillShown(rows, progress)

LEMMA Fewer ==
    ASSUME NEW S, NEW T, IsFiniteSet(T), NEW f \in [S -> T],
           \A x, y \in S : f[x] = f[y] => x = y
    PROVE  IsFiniteSet(S) /\ Cardinality(S) <= Cardinality(T)
<1>1. f \in Injection(S, T)
  BY Fun_IsInj
<1> QED
  BY <1>1, FS_Injection

LEMMA OpenRowsAre ==
    ASSUME NEW log \in Seq(RowRecords), NEW t \in Steps
    PROVE  /\ IsFiniteSet(OpenRows(log)) /\ IsFiniteSet(RowsOfLabel(log, t))
           /\ Cardinality(OpenRows(log)) \in Nat /\ Cardinality(RowsOfLabel(log, t)) \in Nat
           /\ OpenRows(log) \subseteq DOMAIN log /\ RowsOfLabel(log, t) \subseteq OpenRows(log)
<1>1. IsFiniteSet(DOMAIN log)
  <2>1. DOMAIN log = 1 .. Len(log) /\ Len(log) \in Nat
    BY LenProperties
  <2>2. IsFiniteSet(1 .. Len(log))
    BY <2>1, FS_Interval
  <2> QED
    BY <2>1, <2>2
<1>2. OpenRows(log) \subseteq DOMAIN log /\ RowsOfLabel(log, t) \subseteq OpenRows(log)
  BY DEF OpenRows, RowsOfLabel
<1>3. IsFiniteSet(OpenRows(log))
  BY <1>1, <1>2, FS_Subset
<1>4. IsFiniteSet(RowsOfLabel(log, t))
  BY <1>2, <1>3, FS_Subset
<1> QED
  BY <1>2, <1>3, <1>4, FS_CardinalityType

LEMMA StepsAre ==
    ASSUME NEW t \in Steps, NEW p
    PROVE  /\ IsFiniteSet(SameLabel(t) \cap Unfinished(p)) /\ IsFiniteSet(Unfinished(p))
           /\ Cardinality(SameLabel(t) \cap Unfinished(p)) \in Nat
           /\ Cardinality(Unfinished(p)) \in Nat
<1>1. SameLabel(t) \cap Unfinished(p) \subseteq Steps /\ Unfinished(p) \subseteq Steps
  BY DEF Unfinished
<1>2. IsFiniteSet(SameLabel(t) \cap Unfinished(p)) /\ IsFiniteSet(Unfinished(p))
  BY <1>1, ActivityAssumption, FS_Subset
<1> QED
  BY <1>2, FS_CardinalityType

\* The latest rows of a log.
LEMMA LastMaxIs ==
    ASSUME NEW log \in Seq(RowRecords)
    PROVE  /\ LastMax(log) \in Seq(RowRecords)
           /\ \E d \in Nat : \A i \in DOMAIN LastMax(log) :
                 i + d \in DOMAIN log /\ LastMax(log)[i] = log[i + d]
<1>1. Len(log) \in Nat /\ DOMAIN log = 1 .. Len(log)
  BY LenProperties
<1>2. CASE Len(log) <= MaxRows
  <2>1. LastMax(log) = log
    BY <1>2 DEF LastMax
  <2>2. \A i \in DOMAIN log : i + 0 = i
    BY <1>1
  <2>3. 0 \in Nat
    OBVIOUS
  <2> QED
    BY <2>1, <2>2, <2>3
<1>3. CASE ~(Len(log) <= MaxRows)
  <2> DEFINE d == Len(log) - MaxRows
             part == SubSeq(log, d + 1, Len(log))
  <2>1. d \in Nat /\ d + 1 \in 1 .. Len(log) /\ Len(log) - (d + 1) + 1 = MaxRows
        /\ \A i \in d + 1 .. Len(log) : i \in 1 .. Len(log)
    BY <1>1, <1>3, ActivityAssumption
  <2>2. LastMax(log) = part
    BY <1>3 DEF LastMax
  <2>3. d + 1 \in Int /\ Len(log) \in Int /\ \A i \in d + 1 .. Len(log) : log[i] \in RowRecords
    BY <1>1, <2>1, ElementOfSeq
  <2> HIDE DEF d
  <2>4. /\ part \in Seq(RowRecords)
        /\ Len(part) = IF d + 1 <= Len(log) THEN Len(log) - (d + 1) + 1 ELSE 0
        /\ \A i \in 1 .. Len(log) - (d + 1) + 1 : part[i] = log[d + 1 + i - 1]
    BY <2>3, SubSeqProperties
  <2> HIDE DEF part
  <2>5. Len(part) = Len(log) - (d + 1) + 1 /\ DOMAIN part = 1 .. Len(part)
    BY <2>1, <2>4, LenProperties
  <2>6. \A i \in 1 .. Len(log) - (d + 1) + 1 : d + 1 + i - 1 = i + d /\ i + d \in 1 .. Len(log)
    BY <1>1, <2>1
  <2>7. \A i \in DOMAIN part : i + d \in DOMAIN log /\ part[i] = log[i + d]
    BY <1>1, <2>4, <2>5, <2>6
  <2> QED
    BY <2>1, <2>2, <2>4, <2>7
<1> QED
  BY <1>2, <1>3

\* A row is closed: one open row less of its label.
LEMMA ClosedIs ==
    ASSUME NEW log \in Seq(RowRecords), NEW i \in OpenRows(log), NEW status \in Terminal
    PROVE  LET l == Closed(log, i, status)
           IN  /\ l \in Seq(RowRecords) /\ DOMAIN l = DOMAIN log
               /\ \A j \in DOMAIN log : l[j].step = log[j].step /\ l[j].by = log[j].by
               /\ OpenRows(l) = OpenRows(log) \ {i}
               /\ Len(l) = Len(log) /\ l[i].status = status
               /\ \A j \in DOMAIN log : j # i => l[j] = log[j]
<1> DEFINE l == Closed(log, i, status)
           r == [log[i] EXCEPT !.status = status]
<1>1. Len(log) \in Nat /\ DOMAIN log = 1 .. Len(log) /\ i \in DOMAIN log
      /\ log \in [1 .. Len(log) -> RowRecords]
  BY LenProperties DEF OpenRows
<1>2. log[i] \in RowRecords
  BY <1>1
<1>3. r \in RowRecords /\ r.step = log[i].step /\ r.by = log[i].by /\ r.status = status
  BY <1>2 DEF RowRecords, Statuses
<1>4. l = [log EXCEPT ![i] = r]
  BY DEF Closed
<1> HIDE DEF l, r
<1>5. /\ l \in [1 .. Len(log) -> RowRecords] /\ l[i] = r
      /\ \A j \in DOMAIN log : j # i => l[j] = log[j]
  BY <1>1, <1>3, <1>4
<1>6. l \in Seq(RowRecords) /\ DOMAIN l = DOMAIN log
  BY <1>1, <1>5
<1>7. status \notin Open
  BY DEF Open, Terminal
<1>8. OpenRows(l) = OpenRows(log) \ {i}
  BY <1>3, <1>5, <1>6, <1>7 DEF OpenRows
<1>9. \A j \in DOMAIN log : l[j].step = log[j].step /\ l[j].by = log[j].by
  BY <1>3, <1>5
<1>10. /\ l \in Seq(RowRecords) /\ DOMAIN l = DOMAIN log
       /\ \A j \in DOMAIN log : l[j].step = log[j].step /\ l[j].by = log[j].by
       /\ OpenRows(l) = OpenRows(log) \ {i}
       /\ l[i].status = status /\ \A j \in DOMAIN log : j # i => l[j] = log[j]
  BY <1>3, <1>5, <1>6, <1>8, <1>9
<1>11. Len(l) = Len(log)
  BY <1>1, <1>5, <1>6, LenProperties
<1> QED
  BY <1>10, <1>11 DEF l

\* Every row of a log is one of an earlier log, or the new one.
ComesFrom(f, l, log, row) ==
    /\ f \in [DOMAIN l -> Nat]
    /\ \A i, j \in DOMAIN l : f[i] = f[j] => i = j
    /\ \A i \in DOMAIN l : \/ f[i] \in DOMAIN log /\ l[i] = log[f[i]]
                           \/ f[i] = 0 /\ l[i] = row

\* A row is added, and the earliest may go.
LEMMA AddedIs ==
    ASSUME NEW log \in Seq(RowRecords), NEW s \in Steps, NEW status \in Statuses,
           NEW l, l = Added(log, s, status),
           NEW row, row = [step |-> s, by |-> status, status |-> status]
    PROVE  l \in Seq(RowRecords) /\ \E f : ComesFrom(f, l, log, row)
<1> DEFINE more == Append(log, row)
<1>0. Len(log) \in Nat /\ DOMAIN log = 1 .. Len(log)
  BY LenProperties
<1>1. CASE SaysTheSame(log, s, status)
  <2>1. l = log
    BY <1>1 DEF Added
  <2> DEFINE f == [i \in DOMAIN log |-> i]
  <2>2. f \in [DOMAIN log -> Nat] /\ \A i \in DOMAIN log : f[i] = i
    BY <1>0
  <2> HIDE DEF f
  <2>3. /\ \A i, j \in DOMAIN log : f[i] = f[j] => i = j
        /\ \A i \in DOMAIN log : f[i] \in DOMAIN log /\ log[i] = log[f[i]]
    BY <2>2
  <2>4. l \in Seq(RowRecords) /\ f \in [DOMAIN l -> Nat]
        /\ (\A i, j \in DOMAIN l : f[i] = f[j] => i = j)
        /\ \A i \in DOMAIN l : f[i] \in DOMAIN log /\ l[i] = log[f[i]]
    BY <2>1, <2>2, <2>3
  <2> QED
    BY <2>4 DEF ComesFrom
<1>2. CASE ~SaysTheSame(log, s, status)
  <2>1. l = LastMax(more)
    BY <1>2 DEF Added
  <2>2. row \in RowRecords
    BY DEF RowRecords
  <2>3. /\ more \in Seq(RowRecords) /\ Len(more) = Len(log) + 1
        /\ \A i \in 1 .. Len(log) : more[i] = log[i]
        /\ more[Len(log) + 1] = row
    BY <2>2, AppendProperties
  <2> HIDE DEF more
  <2>4. DOMAIN more = 1 .. Len(log) + 1
    BY <2>3, LenProperties
  <2>5. PICK d \in Nat : \A i \in DOMAIN LastMax(more) :
           i + d \in DOMAIN more /\ LastMax(more)[i] = more[i + d]
    BY <2>3, LastMaxIs
  <2>6. LastMax(more) \in Seq(RowRecords)
    BY <2>3, LastMaxIs
  <2>7. l \in Seq(RowRecords) /\ Len(l) \in Nat /\ DOMAIN l = 1 .. Len(l)
        /\ \A i \in DOMAIN l : i + d \in 1 .. Len(log) + 1 /\ l[i] = more[i + d]
    BY <2>1, <2>4, <2>5, <2>6, LenProperties
  <2> DEFINE f == [i \in DOMAIN l |-> IF i + d = Len(log) + 1 THEN 0 ELSE i + d]
  <2>8. \A i \in DOMAIN l : /\ i \in Nat /\ i + d \in Nat \ {0} /\ i + d \in 1 .. Len(log) + 1
                            /\ i + d # Len(log) + 1 => i + d \in 1 .. Len(log)
    BY <1>0, <2>7
  <2>9. f \in [DOMAIN l -> Nat]
        /\ \A i \in DOMAIN l : f[i] = IF i + d = Len(log) + 1 THEN 0 ELSE i + d
    BY <2>8
  <2> HIDE DEF f
  <2>10. \A i, j \in DOMAIN l : f[i] = f[j] => i = j
    BY <1>0, <2>8, <2>9
  <2>11. \A i \in DOMAIN l : \/ f[i] \in DOMAIN log /\ l[i] = log[f[i]]
                             \/ f[i] = 0 /\ l[i] = row
    BY <1>0, <2>3, <2>7, <2>8, <2>9
  <2> QED
    BY <2>7, <2>9, <2>10, <2>11 DEF ComesFrom
<1> QED
  BY <1>1, <1>2

LEMMA LatestIs ==
    ASSUME NEW log \in Seq(RowRecords), NEW is \in SUBSET DOMAIN log, is # {}
    PROVE  Latest(is) \in is
<1>1. Len(log) \in Nat /\ DOMAIN log = 1 .. Len(log)
  BY LenProperties
<1>2. \E i \in is : \A j \in is : j <= i
  BY <1>1, HasMax
<1> QED
  BY <1>2 DEF Latest

\* How many open rows of a label there are then.
LEMMA AddedCount ==
    ASSUME NEW log \in Seq(RowRecords), NEW s \in Steps, NEW status \in Statuses, NEW t \in Steps
    PROVE  LET l == Added(log, s, status)
           IN  /\ Cardinality(RowsOfLabel(l, t)) <= Cardinality(RowsOfLabel(log, t)) + 1
               /\ LabelOf[s] # LabelOf[t] \/ status \notin Open =>
                     Cardinality(RowsOfLabel(l, t)) <= Cardinality(RowsOfLabel(log, t))
<1> DEFINE l == Added(log, s, status)
           row == [step |-> s, by |-> status, status |-> status]
           A == RowsOfLabel(l, t)
           B == RowsOfLabel(log, t)
<1>0. l = Added(log, s, status) /\ row = [step |-> s, by |-> status, status |-> status]
  OBVIOUS
<1> HIDE DEF l, row
<1>1. l \in Seq(RowRecords)
  BY <1>0, AddedIs
<1>2. PICK f : ComesFrom(f, l, log, row)
  BY <1>0, AddedIs
<1>3. IsFiniteSet(B) /\ Cardinality(B) \in Nat /\ B \subseteq DOMAIN log
  BY OpenRowsAre
<1>4. 0 \notin B
  BY <1>3, LenProperties
<1>5. IsFiniteSet(B \cup {0}) /\ Cardinality(B \cup {0}) = Cardinality(B) + 1
  BY <1>3, <1>4, FS_AddElement
<1>6. A \subseteq DOMAIN l
  BY <1>1, OpenRowsAre
<1>7. \A i \in A : f[i] \in B \/ (f[i] = 0 /\ l[i] = row)
  BY <1>2, <1>6 DEF RowsOfLabel, OpenRows, ComesFrom
<1>8. \A i \in A : l[i] = row => LabelOf[s] = LabelOf[t] /\ status \in Open
  BY <1>0 DEF RowsOfLabel, OpenRows
<1> DEFINE g == [i \in A |-> f[i]]
<1>9. \A i, j \in A : g[i] = g[j] => i = j
  BY <1>2, <1>6 DEF ComesFrom
<1>10. Cardinality(A) <= Cardinality(B) + 1
  <2>1. g \in [A -> B \cup {0}]
    BY <1>7 DEF g
  <2> HIDE DEF g, A, B
  <2> QED
    BY <1>5, <1>9, <2>1, Fewer
<1>11. LabelOf[s] # LabelOf[t] \/ status \notin Open => Cardinality(A) <= Cardinality(B)
  <2> SUFFICES ASSUME LabelOf[s] # LabelOf[t] \/ status \notin Open PROVE Cardinality(A) <= Cardinality(B)
    OBVIOUS
  <2>1. g \in [A -> B]
    BY <1>7, <1>8
  <2> HIDE DEF g, A, B
  <2> QED
    BY <1>3, <1>9, <2>1, Fewer
<1> QED
  BY <1>10, <1>11 DEF l

\* What one event does to the rows that show an outcome of a label.
Tells(l, log, s, status) ==
    /\ \A t \in Steps, st \in Terminal :
          /\ LabelOf[s] = LabelOf[t] /\ st = status =>
                Cardinality(RowsShowing(l, t, st)) <= Cardinality(RowsShowing(log, t, st)) + 1
          /\ LabelOf[s] # LabelOf[t] \/ st # status =>
                Cardinality(RowsShowing(l, t, st)) <= Cardinality(RowsShowing(log, t, st))
    /\ Len(l) < MaxRows =>
          /\ Len(log) < MaxRows
          /\ \A t \in Steps, st \in Terminal : RowsShowing(log, t, st) \subseteq RowsShowing(l, t, st)
          /\ RowsShowing(l, s, status) # {}

LEMMA ShowingAre ==
    ASSUME NEW log \in Seq(RowRecords), NEW t, NEW status
    PROVE  /\ IsFiniteSet(RowsShowing(log, t, status)) /\ Cardinality(RowsShowing(log, t, status)) \in Nat
           /\ RowsShowing(log, t, status) \subseteq DOMAIN log
<1>1. IsFiniteSet(DOMAIN log)
  <2>1. DOMAIN log = 1 .. Len(log) /\ Len(log) \in Nat
    BY LenProperties
  <2>2. IsFiniteSet(1 .. Len(log))
    BY <2>1, FS_Interval
  <2> QED
    BY <2>1, <2>2
<1>2. RowsShowing(log, t, status) \subseteq DOMAIN log
  BY DEF RowsShowing
<1>3. IsFiniteSet(RowsShowing(log, t, status))
  BY <1>1, <1>2, FS_Subset
<1> QED
  BY <1>2, <1>3, FS_CardinalityType

\* A row is closed: one more shows the outcome.
LEMMA ClosedTells ==
    ASSUME NEW log \in Seq(RowRecords), NEW s \in Steps, NEW i \in RowsOfLabel(log, s),
           NEW status \in Terminal, NEW l, l = Closed(log, i, status)
    PROVE  Tells(l, log, s, status)
<1>1. /\ i \in OpenRows(log) /\ LabelOf[log[i].step] = LabelOf[s]
      /\ i \in DOMAIN log /\ log[i].status \in Open
  BY DEF RowsOfLabel, OpenRows
<1>2. /\ l \in Seq(RowRecords) /\ DOMAIN l = DOMAIN log
      /\ \A j \in DOMAIN log : l[j].step = log[j].step
      /\ Len(l) = Len(log) /\ l[i].status = status
      /\ \A j \in DOMAIN log : j # i => l[j] = log[j]
  BY <1>1, ClosedIs
<1>3. \A st \in Terminal : st \notin Open
  BY DEF Open, Terminal
<1>4. ASSUME NEW t \in Steps, NEW st \in Terminal
      PROVE  /\ LabelOf[s] = LabelOf[t] /\ st = status =>
                    Cardinality(RowsShowing(l, t, st)) <= Cardinality(RowsShowing(log, t, st)) + 1
             /\ LabelOf[s] # LabelOf[t] \/ st # status =>
                    Cardinality(RowsShowing(l, t, st)) <= Cardinality(RowsShowing(log, t, st))
             /\ RowsShowing(log, t, st) \subseteq RowsShowing(l, t, st)
  <2> DEFINE A == RowsShowing(l, t, st)
             B == RowsShowing(log, t, st)
  <2>1. i \notin B /\ B \subseteq A
    BY <1>1, <1>2, <1>3 DEF RowsShowing
  <2>2. LabelOf[s] = LabelOf[t] /\ st = status => A = B \cup {i}
    BY <1>1, <1>2 DEF RowsShowing
  <2>3. LabelOf[s] # LabelOf[t] \/ st # status => A = B
    BY <1>1, <1>2, <2>1 DEF RowsShowing
  <2>4. IsFiniteSet(B) /\ Cardinality(B) \in Nat
    BY ShowingAre
  <2> HIDE DEF A, B
  <2>5. Cardinality(B \cup {i}) = Cardinality(B) + 1
    BY <2>1, <2>4, FS_AddElement
  <2>6. /\ LabelOf[s] = LabelOf[t] /\ st = status => Cardinality(A) <= Cardinality(B) + 1
        /\ LabelOf[s] # LabelOf[t] \/ st # status => Cardinality(A) <= Cardinality(B)
    <3>1. Cardinality(B \cup {i}) <= Cardinality(B) + 1 /\ Cardinality(B) <= Cardinality(B)
      BY <2>4, <2>5
    <3>2. ASSUME LabelOf[s] = LabelOf[t], st = status PROVE Cardinality(A) <= Cardinality(B) + 1
      BY <2>2, <3>1, <3>2
    <3>3. ASSUME LabelOf[s] # LabelOf[t] \/ st # status PROVE Cardinality(A) <= Cardinality(B)
      BY <2>3, <3>1, <3>3
    <3> QED
      BY <3>2, <3>3
  <2> QED
    BY <2>1, <2>6 DEF A, B
<1>5. RowsShowing(l, s, status) # {}
  BY <1>1, <1>2 DEF RowsShowing
<1> QED
  BY <1>2, <1>4, <1>5 DEF Tells

\* A row is added, or its like is there: one more at most.
LEMMA AddedTells ==
    ASSUME NEW log \in Seq(RowRecords), NEW s \in Steps, NEW status \in Statuses,
           NEW l, l = Added(log, s, status)
    PROVE  Tells(l, log, s, status)
<1> DEFINE row == [step |-> s, by |-> status, status |-> status]
           more == Append(log, row)
<1>0. /\ row = [step |-> s, by |-> status, status |-> status] /\ row \in RowRecords
      /\ row.step = s /\ row.status = status
  BY DEF RowRecords
<1>1. l = IF SaysTheSame(log, s, status) THEN log ELSE LastMax(more)
  BY DEF Added
<1> HIDE DEF row
<1>2. l \in Seq(RowRecords)
  BY <1>0, AddedIs
<1>3. PICK f : ComesFrom(f, l, log, row)
  BY <1>0, AddedIs
<1>4. ASSUME NEW t \in Steps, NEW st \in Terminal
      PROVE  /\ LabelOf[s] = LabelOf[t] /\ st = status =>
                    Cardinality(RowsShowing(l, t, st)) <= Cardinality(RowsShowing(log, t, st)) + 1
             /\ LabelOf[s] # LabelOf[t] \/ st # status =>
                    Cardinality(RowsShowing(l, t, st)) <= Cardinality(RowsShowing(log, t, st))
  <2> DEFINE A == RowsShowing(l, t, st)
             B == RowsShowing(log, t, st)
             g == [i \in A |-> f[i]]
  <2>1. IsFiniteSet(B) /\ Cardinality(B) \in Nat /\ B \subseteq DOMAIN log /\ A \subseteq DOMAIN l
    BY <1>2, ShowingAre
  <2>2. 0 \notin B
    BY <2>1, LenProperties
  <2>3. IsFiniteSet(B \cup {0}) /\ Cardinality(B \cup {0}) = Cardinality(B) + 1
    BY <2>1, <2>2, FS_AddElement
  <2>4. \A i \in A : f[i] \in B \/ (f[i] = 0 /\ l[i] = row)
    BY <1>3, <2>1 DEF RowsShowing, ComesFrom
  <2>5. \A i \in A : l[i] = row => LabelOf[s] = LabelOf[t] /\ st = status
    BY <1>0 DEF RowsShowing
  <2>6. \A i, j \in A : g[i] = g[j] => i = j
    BY <1>3, <2>1 DEF ComesFrom
  <2>7. Cardinality(A) <= Cardinality(B) + 1
    <3>1. g \in [A -> B \cup {0}]
      BY <2>4 DEF g
    <3> HIDE DEF g, A, B
    <3> QED
      BY <2>3, <2>6, <3>1, Fewer
  <2>8. LabelOf[s] # LabelOf[t] \/ st # status => Cardinality(A) <= Cardinality(B)
    <3> SUFFICES ASSUME LabelOf[s] # LabelOf[t] \/ st # status PROVE Cardinality(A) <= Cardinality(B)
      OBVIOUS
    <3>1. g \in [A -> B]
      BY <2>4, <2>5
    <3> HIDE DEF g, A, B
    <3> QED
      BY <2>1, <2>6, <3>1, Fewer
  <2> QED
    BY <2>7, <2>8 DEF A, B
<1>5. ASSUME Len(l) < MaxRows
      PROVE  /\ Len(log) < MaxRows
             /\ \A t \in Steps, st \in Terminal : RowsShowing(log, t, st) \subseteq RowsShowing(l, t, st)
             /\ RowsShowing(l, s, status) # {}
  <2>1. CASE SaysTheSame(log, s, status)
    <3>1. l = log
      BY <1>1, <2>1
    <3>2. Len(log) \in DOMAIN log
      <4>1. log # <<>> /\ Len(log) \in Nat /\ DOMAIN log = 1 .. Len(log)
        BY <2>1, LenProperties DEF SaysTheSame
      <4>2. Len(log) # 0
        BY <4>1, EmptySeq
      <4> QED
        BY <4>1, <4>2
    <3>3. Len(log) \in RowsShowing(log, s, status)
      BY <2>1, <3>2 DEF SaysTheSame, RowsShowing
    <3> QED
      BY <1>5, <3>1, <3>3
  <2>2. CASE ~SaysTheSame(log, s, status)
    <3>1. /\ more \in Seq(RowRecords) /\ Len(more) = Len(log) + 1
          /\ \A i \in 1 .. Len(log) : more[i] = log[i]
          /\ more[Len(log) + 1] = row
          /\ Len(log) \in Nat /\ DOMAIN log = 1 .. Len(log)
      BY <1>0, AppendProperties, LenProperties
    <3> HIDE DEF more
    <3>2. DOMAIN more = 1 .. Len(log) + 1
      BY <3>1, LenProperties
    <3>3. l = more
      <4>1. CASE Len(more) <= MaxRows
        BY <1>1, <2>2, <4>1 DEF LastMax
      <4>2. CASE ~(Len(more) <= MaxRows)
        <5> DEFINE d == Len(more) - MaxRows + 1
        <5>1. l = SubSeq(more, d, Len(more))
          BY <1>1, <2>2, <4>2 DEF LastMax
        <5>2. /\ d \in Int /\ Len(more) \in Int /\ \A i \in d .. Len(more) : i \in DOMAIN more
              /\ d <= Len(more) /\ Len(more) - d + 1 = MaxRows
          BY <3>1, <3>2, <4>2, ActivityAssumption
        <5> HIDE DEF d
        <5>3. \A i \in d .. Len(more) : more[i] \in RowRecords
          BY <3>1, <5>2, ElementOfSeq, LenProperties
        <5>4. Len(SubSeq(more, d, Len(more))) = IF d <= Len(more) THEN Len(more) - d + 1 ELSE 0
          BY <5>2, <5>3, SubSeqProperties
        <5>5. Len(l) = MaxRows
          BY <5>1, <5>2, <5>4
        <5> QED
          BY <1>5, <5>5, ActivityAssumption
      <4> QED
        BY <4>1, <4>2
    <3>4. Len(log) < MaxRows
      BY <1>5, <3>1, <3>3, ActivityAssumption
    <3>5. \A i \in DOMAIN log : i \in DOMAIN l /\ l[i] = log[i]
      BY <3>1, <3>2, <3>3
    <3>6. Len(log) + 1 \in DOMAIN l /\ l[Len(log) + 1] = row
      BY <3>1, <3>2, <3>3
    <3>7. Len(log) + 1 \in RowsShowing(l, s, status)
      BY <1>0, <3>6 DEF RowsShowing
    <3> QED
      BY <3>4, <3>5, <3>7 DEF RowsShowing
  <2> QED
    BY <2>1, <2>2
<1> QED
  BY <1>4, <1>5 DEF Tells

\* What the rows tell of the steps stays so when an event of a step is told.
LEMMA TellsKeeps ==
    ASSUME NEW p \in [Steps -> {"idle"} \cup Statuses], NEW log \in Seq(RowRecords),
           Told(log, p), StillShown(log, p), NEW s \in Steps, p[s] \notin Terminal,
           NEW status \in Statuses, NEW q, q = [p EXCEPT ![s] = status],
           NEW l \in Seq(RowRecords), Tells(l, log, s, status)
    PROVE  Told(l, q) /\ StillShown(l, q)
<1>1. q[s] = status /\ \A o \in Steps : o # s => q[o] = p[o]
  OBVIOUS
<1>2. ASSUME NEW t \in Steps, NEW st \in Terminal
      PROVE  Cardinality(RowsShowing(l, t, st)) <= Cardinality(SameLabel(t) \cap Ended(q, st))
  <2> DEFINE U == SameLabel(t) \cap Ended(p, st)
             V == SameLabel(t) \cap Ended(q, st)
             a == Cardinality(RowsShowing(l, t, st))
             b == Cardinality(RowsShowing(log, t, st))
  <2>1. a \in Nat /\ b \in Nat /\ b <= Cardinality(U)
    BY ShowingAre DEF Told
  <2>2. IsFiniteSet(U) /\ IsFiniteSet(V)
    <3>1. U \in SUBSET Steps /\ V \in SUBSET Steps
      BY DEF Ended
    <3> QED
      BY <3>1, ActivityAssumption, FS_Subset
  <2>3. Cardinality(U) \in Nat /\ Cardinality(V) \in Nat
    BY <2>2, FS_CardinalityType
  <2>4. s \notin U
    BY DEF Ended
  <2>5. /\ LabelOf[s] = LabelOf[t] /\ st = status => V = U \cup {s}
        /\ LabelOf[s] # LabelOf[t] \/ st # status => V = U
    BY <1>1, <2>4 DEF Ended, SameLabel
  <2>6. /\ LabelOf[s] = LabelOf[t] /\ st = status => a <= b + 1
        /\ LabelOf[s] # LabelOf[t] \/ st # status => a <= b
    BY DEF Tells
  <2> HIDE DEF U, V, a, b
  <2>7. Cardinality(U \cup {s}) = Cardinality(U) + 1
    BY <2>2, <2>4, FS_AddElement
  <2>8. a <= Cardinality(V)
    <3>1. CASE LabelOf[s] = LabelOf[t] /\ st = status
      <4>1. V = U \cup {s} /\ a <= b + 1
        BY <2>5, <2>6, <3>1
      <4>2. Cardinality(V) = Cardinality(U) + 1
        BY <2>7, <4>1
      <4> QED
        BY <2>1, <2>3, <4>1, <4>2
    <3>2. CASE LabelOf[s] # LabelOf[t] \/ st # status
      <4>1. V = U /\ a <= b
        BY <2>5, <2>6, <3>2
      <4>2. Cardinality(V) = Cardinality(U)
        BY <4>1
      <4> QED
        BY <2>1, <2>3, <4>1, <4>2
    <3> QED
      BY <3>1, <3>2
  <2> QED
    BY <2>8 DEF a, V
<1>3. ASSUME Len(l) < MaxRows, NEW o \in Steps, q[o] \in Terminal
      PROVE  RowsShowing(l, o, q[o]) # {}
  <2>1. CASE o = s
    BY <1>1, <1>3, <2>1 DEF Tells
  <2>2. CASE o # s
    BY <1>1, <1>3, <2>2 DEF Tells, StillShown
  <2> QED
    BY <2>1, <2>2
<1> QED
  BY <1>2, <1>3 DEF Told, StillShown

LEMMA AddedMade ==
    ASSUME NEW log \in Seq(RowRecords), NEW said, Made(log, said), NEW s \in Steps,
           NEW status \in Statuses, <<s, status>> \notin said
    PROVE  Made(Added(log, s, status), said \cup {<<s, status>>})
<1> DEFINE l == Added(log, s, status)
           row == [step |-> s, by |-> status, status |-> status]
<1>0. l = Added(log, s, status) /\ row = [step |-> s, by |-> status, status |-> status]
  OBVIOUS
<1>2. row.step = s /\ row.by = status
  OBVIOUS
<1> HIDE DEF l, row
<1>1. PICK f : ComesFrom(f, l, log, row)
  BY <1>0, AddedIs
<1>3. \A i \in DOMAIN l : \/ f[i] \in DOMAIN log /\ l[i] = log[f[i]] /\ <<l[i].step, l[i].by>> \in said
                          \/ f[i] = 0 /\ l[i].step = s /\ l[i].by = status
  BY <1>1, <1>2 DEF Made, ComesFrom
<1>4. \A i \in DOMAIN l : <<l[i].step, l[i].by>> \in said \cup {<<s, status>>}
  BY <1>3
<1>5. ASSUME NEW i \in DOMAIN l, NEW j \in DOMAIN l, l[i].step = l[j].step, l[i].by = l[j].by
      PROVE  i = j
  <2>1. f[i] = f[j]
    <3>1. CASE f[i] = 0 /\ l[i].step = s /\ l[i].by = status
      BY <1>3, <1>5, <3>1
    <3>2. CASE f[j] = 0 /\ l[j].step = s /\ l[j].by = status
      BY <1>3, <1>5, <3>2
    <3>3. CASE f[i] \in DOMAIN log /\ l[i] = log[f[i]] /\ f[j] \in DOMAIN log /\ l[j] = log[f[j]]
      BY <1>5, <3>3 DEF Made
    <3> QED
      BY <1>3, <3>1, <3>2, <3>3
  <2> QED
    BY <1>1, <2>1 DEF ComesFrom
<1>6. Made(l, said \cup {<<s, status>>})
  BY <1>4, <1>5 DEF Made
<1> QED
  BY <1>6 DEF l

\* A step begins, which its label shows with a row more at most.
LEMMA BeginKeeps ==
    ASSUME ActivityInd, NEW s \in Steps, NEW status \in Open, StepBegins(s, status)
    PROVE  ActivityInd'
<1>1. /\ status \in Statuses /\ status \notin Terminal /\ status # "idle" /\ "idle" \notin Terminal
      /\ "idle" \notin Open
  BY DEF Statuses, Open, Terminal
<1>2. progress[s] = "idle" /\ progress' = [progress EXCEPT ![s] = status]
      /\ seen' = seen \cup {<<s, status>>}
  BY DEF StepBegins, ShowsEvent, DedupeKey
<1>3. \A st \in Statuses : <<s, st>> \notin seen
  BY <1>1, <1>2 DEF ActivityInd, Heard, Statuses
<1>4. rows' = Added(rows, s, status)
  BY <1>1, <1>3 DEF StepBegins, ShowsEvent, DedupeKey, mergeActivityEntry
<1>5. rows' \in Seq(RowRecords) /\ Made(rows', seen')
  <2>1. rows \in Seq(RowRecords) /\ Made(rows, seen) /\ <<s, status>> \notin seen
    BY <1>1, <1>3 DEF ActivityInd
  <2> QED
    BY <1>1, <1>2, <1>4, <2>1, AddedIs, AddedMade
<1>6. progress' \in [Steps -> {"idle"} \cup Statuses] /\ progress'[s] = status
      /\ \A o \in Steps : o # s => progress'[o] = progress[o]
  BY <1>1, <1>2 DEF ActivityInd
<1>7. Heard(progress', seen')
  <2> SUFFICES ASSUME NEW o \in Steps, NEW st \in Statuses, <<o, st>> \in seen'
               PROVE  IF st \in Open THEN progress'[o] # "idle" ELSE progress'[o] \in Terminal
    BY DEF Heard
  <2>1. CASE o = s
    <3>1. st = status
      BY <1>2, <1>3, <2>1
    <3> QED
      BY <1>1, <1>6, <2>1, <3>1
  <2>2. CASE o # s
    <3>1. <<o, st>> \in seen
      BY <1>2, <2>2
    <3> QED
      BY <1>6, <2>2, <3>1 DEF ActivityInd, Heard
  <2> QED
    BY <2>1, <2>2
<1>8. ASSUME NEW t \in Steps
      PROVE  Cardinality(RowsOfLabel(rows', t)) <= Cardinality(SameLabel(t) \cap Unfinished(progress'))
  <2> DEFINE U == SameLabel(t) \cap Unfinished(progress)
             V == SameLabel(t) \cap Unfinished(progress')
  <2>1. /\ Cardinality(RowsOfLabel(rows, t)) <= Cardinality(U)
        /\ Cardinality(RowsOfLabel(rows, t)) \in Nat /\ Cardinality(RowsOfLabel(rows', t)) \in Nat
    BY <1>5, OpenRowsAre DEF ActivityInd, Backed
  <2>2. IsFiniteSet(U) /\ Cardinality(U) \in Nat /\ IsFiniteSet(V)
    BY StepsAre
  <2>3. CASE LabelOf[s] = LabelOf[t]
    <3>1. V = U \cup {s} /\ s \notin U
      BY <1>1, <1>2, <1>6, <2>3 DEF SameLabel, Unfinished
    <3> HIDE DEF U, V
    <3>2. Cardinality(V) = Cardinality(U) + 1
      BY <2>2, <3>1, FS_AddElement
    <3>3. Cardinality(RowsOfLabel(rows', t)) <= Cardinality(RowsOfLabel(rows, t)) + 1
      BY <1>1, <1>4, AddedCount DEF ActivityInd
    <3>4. Cardinality(RowsOfLabel(rows', t)) <= Cardinality(V)
      BY <2>1, <2>2, <3>2, <3>3
    <3> QED
      BY <3>4 DEF V
  <2>4. CASE LabelOf[s] # LabelOf[t]
    <3>1. V = U
      BY <1>6, <2>4 DEF SameLabel, Unfinished
    <3>2. Cardinality(RowsOfLabel(rows', t)) <= Cardinality(RowsOfLabel(rows, t))
      BY <1>1, <1>4, <2>4, AddedCount DEF ActivityInd
    <3> HIDE DEF U, V
    <3>3. Cardinality(RowsOfLabel(rows', t)) <= Cardinality(V)
      BY <2>1, <2>2, <3>1, <3>2
    <3> QED
      BY <3>3 DEF V
  <2> QED
    BY <2>3, <2>4
<1>9. Told(rows', progress') /\ StillShown(rows', progress')
  <2>1. Tells(rows', rows, s, status)
    BY <1>1, <1>4, AddedTells DEF ActivityInd
  <2>2. progress[s] \notin Terminal
    BY <1>1, <1>2
  <2> QED
    BY <1>1, <1>2, <1>5, <2>1, <2>2, TellsKeeps DEF ActivityInd
<1> QED
  BY <1>5, <1>6, <1>7, <1>8, <1>9 DEF ActivityInd, Backed

\* A step ends: an open row of its label is closed, or there was none.
LEMMA EndsRows ==
    ASSUME NEW log \in Seq(RowRecords), NEW said, Made(log, said), NEW s \in Steps,
           NEW status \in Terminal, <<s, status>> \notin said
    PROVE  LET l == mergeActivityEntry(log, s, status)
           IN  /\ l \in Seq(RowRecords) /\ Made(l, said \cup {<<s, status>>})
               /\ Tells(l, log, s, status)
               /\ \/ \E i \in RowsOfLabel(log, s) :
                        \A t \in Steps : RowsOfLabel(l, t) = RowsOfLabel(log, t) \ {i}
                  \/ /\ RowsOfLabel(log, s) = {}
                     /\ \A t \in Steps :
                           Cardinality(RowsOfLabel(l, t)) <= Cardinality(RowsOfLabel(log, t))
<1>1. status \in Statuses /\ status \notin Open
  BY DEF Statuses, Open, Terminal
<1> DEFINE l == mergeActivityEntry(log, s, status)
<1>2. ASSUME NEW i \in RowsOfLabel(log, s), l = Closed(log, i, status)
      PROVE  /\ l \in Seq(RowRecords) /\ Made(l, said \cup {<<s, status>>})
             /\ Tells(l, log, s, status)
             /\ \A t \in Steps : RowsOfLabel(l, t) = RowsOfLabel(log, t) \ {i}
  <2>1. i \in OpenRows(log)
    BY <1>2 DEF RowsOfLabel
  <2>2. /\ l \in Seq(RowRecords) /\ DOMAIN l = DOMAIN log
        /\ \A j \in DOMAIN log : l[j].step = log[j].step /\ l[j].by = log[j].by
        /\ OpenRows(l) = OpenRows(log) \ {i} /\ OpenRows(log) \subseteq DOMAIN log
    BY <1>2, <2>1, ClosedIs, OpenRowsAre
  <2> HIDE DEF l
  <2>3. Made(l, said \cup {<<s, status>>})
    BY <2>2 DEF Made
  <2>4. \A t \in Steps : RowsOfLabel(l, t) = RowsOfLabel(log, t) \ {i}
    BY <2>2 DEF RowsOfLabel
  <2>5. Tells(l, log, s, status)
    BY <1>2, ClosedTells
  <2> QED
    BY <2>2, <2>3, <2>4, <2>5
<1>3. CASE RowsOfStep(log, s) # {}
  <2>1. l = Closed(log, Latest(RowsOfStep(log, s)), status)
    BY <1>3 DEF mergeActivityEntry
  <2>2. RowsOfStep(log, s) \subseteq DOMAIN log /\ RowsOfStep(log, s) \subseteq RowsOfLabel(log, s)
    BY DEF RowsOfStep, RowsOfLabel, OpenRows
  <2>3. Latest(RowsOfStep(log, s)) \in RowsOfLabel(log, s)
    BY <1>3, <2>2, LatestIs
  <2> HIDE DEF l
  <2>4. /\ l \in Seq(RowRecords) /\ Made(l, said \cup {<<s, status>>})
        /\ Tells(l, log, s, status)
        /\ \E i \in RowsOfLabel(log, s) :
              \A t \in Steps : RowsOfLabel(l, t) = RowsOfLabel(log, t) \ {i}
    BY <1>2, <2>1, <2>3
  <2> QED
    BY <2>4 DEF l
<1>4. CASE RowsOfStep(log, s) = {} /\ RowsOfLabel(log, s) # {}
  <2>1. l = Closed(log, Latest(RowsOfLabel(log, s)), status)
    BY <1>4 DEF mergeActivityEntry
  <2>2. RowsOfLabel(log, s) \subseteq DOMAIN log
    BY DEF RowsOfLabel, OpenRows
  <2>3. Latest(RowsOfLabel(log, s)) \in RowsOfLabel(log, s)
    BY <1>4, <2>2, LatestIs
  <2> HIDE DEF l
  <2>4. /\ l \in Seq(RowRecords) /\ Made(l, said \cup {<<s, status>>})
        /\ Tells(l, log, s, status)
        /\ \E i \in RowsOfLabel(log, s) :
              \A t \in Steps : RowsOfLabel(l, t) = RowsOfLabel(log, t) \ {i}
    BY <1>2, <2>1, <2>3
  <2> QED
    BY <2>4 DEF l
<1>5. CASE RowsOfStep(log, s) = {} /\ RowsOfLabel(log, s) = {}
  <2>1. l = Added(log, s, status)
    BY <1>5 DEF mergeActivityEntry
  <2> HIDE DEF l
  <2>2. l \in Seq(RowRecords) /\ Made(l, said \cup {<<s, status>>}) /\ Tells(l, log, s, status)
    BY <1>1, <2>1, AddedIs, AddedMade, AddedTells
  <2>3. \A t \in Steps : Cardinality(RowsOfLabel(l, t)) <= Cardinality(RowsOfLabel(log, t))
    BY <1>1, <2>1, AddedCount
  <2> QED
    BY <1>5, <2>2, <2>3 DEF l
<1> QED
  BY <1>3, <1>4, <1>5

LEMMA EndKeeps ==
    ASSUME ActivityInd, NEW s \in Steps, NEW status \in Terminal, StepEnds(s, status)
    PROVE  ActivityInd'
<1>1. status \in Statuses /\ status \notin Open /\ status # "idle" /\ \A o \in Open : o \notin Terminal
  BY DEF Statuses, Open, Terminal
<1>2. progress[s] \in Open /\ progress' = [progress EXCEPT ![s] = status]
      /\ seen' = seen \cup {<<s, status>>}
  BY DEF StepEnds, ShowsEvent, DedupeKey
<1>3. <<s, status>> \notin seen
  BY <1>1, <1>2 DEF ActivityInd, Heard
<1>4. rows' = mergeActivityEntry(rows, s, status)
  BY <1>3 DEF StepEnds, ShowsEvent, DedupeKey
<1>5. /\ rows' \in Seq(RowRecords) /\ Made(rows', seen') /\ Tells(rows', rows, s, status)
      /\ \/ \E i \in RowsOfLabel(rows, s) :
               \A t \in Steps : RowsOfLabel(rows', t) = RowsOfLabel(rows, t) \ {i}
         \/ /\ RowsOfLabel(rows, s) = {}
            /\ \A t \in Steps : Cardinality(RowsOfLabel(rows', t)) <= Cardinality(RowsOfLabel(rows, t))
  <2>1. rows \in Seq(RowRecords) /\ Made(rows, seen)
    BY DEF ActivityInd
  <2> QED
    BY <1>2, <1>3, <1>4, <2>1, EndsRows
<1>6. progress' \in [Steps -> {"idle"} \cup Statuses] /\ progress'[s] = status
      /\ \A o \in Steps : o # s => progress'[o] = progress[o]
  BY <1>1, <1>2 DEF ActivityInd
<1>7. Heard(progress', seen')
  <2> SUFFICES ASSUME NEW o \in Steps, NEW st \in Statuses, <<o, st>> \in seen'
               PROVE  IF st \in Open THEN progress'[o] # "idle" ELSE progress'[o] \in Terminal
    BY DEF Heard
  <2>1. CASE o = s
    BY <1>1, <1>6, <2>1
  <2>2. CASE o # s
    <3>1. <<o, st>> \in seen
      BY <1>2, <2>2
    <3> QED
      BY <1>6, <2>2, <3>1 DEF ActivityInd, Heard
  <2> QED
    BY <2>1, <2>2
<1>8. ASSUME NEW t \in Steps
      PROVE  Cardinality(RowsOfLabel(rows', t)) <= Cardinality(SameLabel(t) \cap Unfinished(progress'))
  <2> DEFINE U == SameLabel(t) \cap Unfinished(progress)
             V == SameLabel(t) \cap Unfinished(progress')
             A == RowsOfLabel(rows, t)
             B == RowsOfLabel(rows', t)
  <2>1. /\ Cardinality(A) <= Cardinality(U) /\ IsFiniteSet(A)
        /\ Cardinality(A) \in Nat /\ Cardinality(B) \in Nat
    BY <1>5, OpenRowsAre DEF ActivityInd, Backed
  <2>2. /\ IsFiniteSet(U) /\ Cardinality(U) \in Nat /\ IsFiniteSet(V)
        /\ Cardinality(V) \in Nat
    BY StepsAre
  <2>3. CASE LabelOf[s] = LabelOf[t]
    <3>1. V = U \ {s} /\ s \in U
      BY <1>1, <1>2, <1>6, <2>3 DEF SameLabel, Unfinished
    <3>2. A = RowsOfLabel(rows, s)
      BY <2>3 DEF RowsOfLabel
    <3> HIDE DEF U, V
    <3>3. Cardinality(V) = Cardinality(U) - 1
      BY <2>2, <3>1, FS_RemoveElement
    <3>4. (\E i \in A : B = A \ {i}) \/ (A = {} /\ Cardinality(B) <= Cardinality(A))
      BY <1>5, <3>2
    <3> HIDE DEF A, B
    <3>5. ASSUME NEW i \in A, B = A \ {i} PROVE Cardinality(B) <= Cardinality(V)
      <4>1. Cardinality(B) = Cardinality(A) - 1
        BY <2>1, <3>5, FS_RemoveElement
      <4> QED
        BY <2>1, <2>2, <3>3, <4>1
    <3>6. ASSUME A = {}, Cardinality(B) <= Cardinality(A) PROVE Cardinality(B) <= Cardinality(V)
      <4>1. Cardinality(A) = 0
        BY <3>6, FS_EmptySet
      <4> QED
        BY <2>1, <2>2, <3>6, <4>1
    <3>7. Cardinality(B) <= Cardinality(V)
      BY <3>4, <3>5, <3>6
    <3> QED
      BY <3>7 DEF V, B
  <2>4. CASE LabelOf[s] # LabelOf[t]
    <3>1. V = U
      BY <1>6, <2>4 DEF SameLabel, Unfinished
    <3>2. Cardinality(B) <= Cardinality(A)
      <4>1. B \in SUBSET A \/ Cardinality(B) <= Cardinality(A)
        BY <1>5
      <4> HIDE DEF A, B
      <4> QED
        BY <2>1, <4>1, FS_Subset
    <3> HIDE DEF U, V, A, B
    <3>3. Cardinality(B) <= Cardinality(V)
      BY <2>1, <2>2, <3>1, <3>2
    <3> QED
      BY <3>3 DEF V, B
  <2> QED
    BY <2>3, <2>4
<1>9. Told(rows', progress') /\ StillShown(rows', progress')
  <2>1. progress[s] \notin Terminal
    BY <1>1, <1>2
  <2> QED
    BY <1>1, <1>2, <1>5, <2>1, TellsKeeps DEF ActivityInd
<1> QED
  BY <1>5, <1>6, <1>7, <1>8, <1>9 DEF ActivityInd, Backed

LEMMA ReportsKeep == ASSUME ActivityInd, NEW s \in Steps, StepReports(s) PROVE ActivityInd'
<1>1. ASSUME NEW status \in Open \cup Terminal, Repeated(s, status) PROVE ActivityInd'
  <2>1. rows' = rows /\ seen' = seen /\ progress' = progress
    BY <1>1 DEF Repeated, ShowsEvent
  <2> QED
    BY <2>1 DEF ActivityInd
<1> QED
  BY <1>1, BeginKeeps, EndKeeps DEF StepReports

LEMMA TwoOf == ASSUME NEW S, IsFiniteSet(S), Cardinality(S) >= 2 PROVE \E x, y \in S : x # y
<1>1. S # {}
  BY FS_EmptySet
<1>2. PICK x \in S : TRUE
  BY <1>1
<1>3. IsFiniteSet(S \ {x}) /\ Cardinality(S \ {x}) = Cardinality(S) - 1
  BY <1>2, FS_RemoveElement
<1>4. S \ {x} # {}
  <2>1. Cardinality(S) \in Nat
    BY FS_CardinalityType
  <2>2. Cardinality(S \ {x}) # 0
    BY <1>3, <2>1
  <2> QED
    BY <2>2, FS_EmptySet
<1> QED
  BY <1>4

LEMMA AtLeastTwo ==
    ASSUME NEW S, IsFiniteSet(S), NEW x \in S, NEW y \in S, x # y PROVE Cardinality(S) >= 2
<1>1. IsFiniteSet({x}) /\ Cardinality({x}) = 1
  BY FS_Singleton
<1>2. y \notin {x}
  OBVIOUS
<1>3. IsFiniteSet({x} \cup {y}) /\ Cardinality({x} \cup {y}) = Cardinality({x}) + 1
  BY <1>1, <1>2, FS_AddElement
<1>4. {x} \cup {y} \in SUBSET S
  OBVIOUS
<1>5. Cardinality({x} \cup {y}) <= Cardinality(S)
  BY <1>4, FS_Subset
<1>6. Cardinality(S) \in Nat
  BY FS_CardinalityType
<1> QED
  BY <1>1, <1>3, <1>5, <1>6

\* The panel is agitated over two steps or more.
LEMMA AgitatedOverTwo ==
    ASSUME ActivityInd, resolveStreamingMood(rows) = "agitated"
    PROVE  Cardinality(Unfinished(progress)) >= 2
<1>0. rows \in Seq(RowRecords) /\ IsFiniteSet(Unfinished(progress))
  <2>1. CASE Steps = {}
    <3>1. Unfinished(progress) = {}
      BY <2>1 DEF Unfinished
    <3> QED
      BY <3>1, FS_EmptySet DEF ActivityInd
  <2>2. CASE Steps # {}
    BY <2>2, StepsAre DEF ActivityInd
  <2> QED
    BY <2>1, <2>2
<1>1. DOMAIN rows = 1 .. Len(rows) /\ \A i \in DOMAIN rows : rows[i].step \in Steps
  <2>1. DOMAIN rows = 1 .. Len(rows)
    BY <1>0, LenProperties
  <2>2. \A i \in DOMAIN rows : rows[i] \in RowRecords
    BY <1>0, <2>1, ElementOfSeq
  <2> QED
    BY <2>1, <2>2 DEF RowRecords
<1>2. IsFiniteSet(OpenRows(rows)) /\ OpenRows(rows) \subseteq DOMAIN rows
  <2>1. OpenRows(rows) \subseteq DOMAIN rows
    BY DEF OpenRows
  <2>2. Len(rows) \in Nat
    BY <1>0, LenProperties
  <2>3. IsFiniteSet(1 .. Len(rows))
    BY <2>2, FS_Interval
  <2> QED
    BY <1>1, <2>1, <2>3, FS_Subset
<1>3. Cardinality(OpenRows(rows)) >= 2
  BY DEF resolveStreamingMood
<1>4. PICK i \in OpenRows(rows), j \in OpenRows(rows) : i # j
  BY <1>2, <1>3, TwoOf
<1> DEFINE s == rows[i].step
           t == rows[j].step
<1>5. s \in Steps /\ t \in Steps /\ i \in RowsOfLabel(rows, s) /\ j \in RowsOfLabel(rows, t)
  BY <1>1, <1>2, <1>4 DEF RowsOfLabel
<1>6. CASE LabelOf[s] = LabelOf[t]
  <2>1. j \in RowsOfLabel(rows, s)
    BY <1>6 DEF RowsOfLabel
  <2> HIDE DEF s, t
  <2>2. IsFiniteSet(RowsOfLabel(rows, s)) /\ Cardinality(RowsOfLabel(rows, s)) \in Nat
    BY <1>0, <1>5, OpenRowsAre
  <2>3. Cardinality(RowsOfLabel(rows, s)) >= 2
    BY <1>4, <1>5, <2>1, <2>2, AtLeastTwo
  <2>4. Cardinality(RowsOfLabel(rows, s)) <= Cardinality(SameLabel(s) \cap Unfinished(progress))
    BY <1>5 DEF ActivityInd, Backed
  <2>5. SameLabel(s) \cap Unfinished(progress) \in SUBSET Unfinished(progress)
    OBVIOUS
  <2>6. Cardinality(SameLabel(s) \cap Unfinished(progress)) <= Cardinality(Unfinished(progress))
    BY <1>0, <2>5, FS_Subset
  <2>7. Cardinality(SameLabel(s) \cap Unfinished(progress)) \in Nat /\ Cardinality(Unfinished(progress)) \in Nat
    BY <1>5, StepsAre
  <2> QED
    BY <2>2, <2>3, <2>4, <2>6, <2>7
<1>7. CASE LabelOf[s] # LabelOf[t]
  <2> HIDE DEF s, t
  <2>1. ASSUME NEW u \in Steps, NEW r \in RowsOfLabel(rows, u)
        PROVE  \E o \in Unfinished(progress) : LabelOf[o] = LabelOf[u]
    <3>1. /\ IsFiniteSet(RowsOfLabel(rows, u)) /\ Cardinality(RowsOfLabel(rows, u)) \in Nat
          /\ Cardinality(SameLabel(u) \cap Unfinished(progress)) \in Nat
          /\ IsFiniteSet(SameLabel(u) \cap Unfinished(progress))
      BY <1>0, OpenRowsAre, StepsAre
    <3>2. Cardinality(RowsOfLabel(rows, u)) # 0
      BY <2>1, <3>1, FS_EmptySet
    <3>3. Cardinality(RowsOfLabel(rows, u)) <= Cardinality(SameLabel(u) \cap Unfinished(progress))
      BY <2>1 DEF ActivityInd, Backed
    <3>4. Cardinality(SameLabel(u) \cap Unfinished(progress)) # 0
      BY <3>1, <3>2, <3>3
    <3>5. SameLabel(u) \cap Unfinished(progress) # {}
      BY <3>4, FS_EmptySet
    <3> QED
      BY <3>5 DEF SameLabel
  <2>2. PICK x \in Unfinished(progress) : LabelOf[x] = LabelOf[s]
    BY <1>5, <2>1
  <2>3. PICK y \in Unfinished(progress) : LabelOf[y] = LabelOf[t]
    BY <1>5, <2>1
  <2>4. x # y
    BY <1>7, <2>2, <2>3
  <2> QED
    BY <1>0, <2>4, AtLeastTwo
<1> QED
  BY <1>6, <1>7

LEMMA RowsTrusted == ActivityInd => RowsMatchCalls
<1> SUFFICES ASSUME ActivityInd PROVE RowsMatchCalls
  OBVIOUS
<1>1. {s \in Steps : progress[s] \in Open} = Unfinished(progress)
  BY DEF Unfinished
<1>2. \A t \in Steps : /\ CallsAt(t, Open) = SameLabel(t) \cap Unfinished(progress)
                       /\ \A st \in Terminal : CallsAt(t, {st}) = SameLabel(t) \cap Ended(progress, st)
  BY DEF CallsAt, SameLabel, Unfinished, Ended
<1>3. /\ Backed(rows, progress) /\ Told(rows, progress) /\ StillShown(rows, progress)
      /\ progress \in [Steps -> {"idle"} \cup Statuses]
  BY DEF ActivityInd
<1>4. \A t \in Steps :
         /\ Cardinality(RowsOfLabel(rows, t)) <= Cardinality(CallsAt(t, Open))
         /\ \A st \in Terminal : Cardinality(RowsShowing(rows, t, st)) <= Cardinality(CallsAt(t, {st}))
  BY <1>2, <1>3 DEF Backed, Told
<1>5. resolveStreamingMood(rows) = "agitated" => Cardinality(Unfinished(progress)) >= 2
  BY AgitatedOverTwo
<1> QED
  BY <1>1, <1>3, <1>4, <1>5 DEF RowsMatchCalls, StillShown

\* Nothing has happened in an answer yet.
LEMMA FreshActivity ==
    ASSUME NEW p, p = [s \in Steps |-> "idle"], NEW log, log = <<>>, NEW said, said = {}
    PROVE  /\ p \in [Steps -> {"idle"} \cup Statuses] /\ log \in Seq(RowRecords)
           /\ DOMAIN log = {} /\ Heard(p, said) /\ Made(log, said) /\ Backed(log, p)
           /\ Told(log, p) /\ StillShown(log, p)
<1> DEFINE none == <<>>
<1>1. none \in Seq(RowRecords) /\ DOMAIN none = {}
  OBVIOUS
<1>2. log = none
  OBVIOUS
<1> HIDE DEF none
<1>3. \A t \in Steps : RowsOfLabel(log, t) = {}
  BY <1>1, <1>2 DEF RowsOfLabel, OpenRows
<1>4. ASSUME NEW t \in Steps
      PROVE  Cardinality(RowsOfLabel(log, t)) <= Cardinality(SameLabel(t) \cap Unfinished(p))
  <2>1. Cardinality(RowsOfLabel(log, t)) = 0
    BY <1>3, FS_EmptySet
  <2>2. Cardinality(SameLabel(t) \cap Unfinished(p)) \in Nat
    BY StepsAre
  <2> QED
    BY <2>1, <2>2
<1>5. p \in [Steps -> {"idle"} \cup Statuses]
  OBVIOUS
<1>6. Heard(p, said) /\ Made(log, said)
  BY <1>1, <1>2 DEF Heard, Made
<1>7. Told(log, p)
  <2> SUFFICES ASSUME NEW t \in Steps, NEW st \in Terminal
               PROVE  Cardinality(RowsShowing(log, t, st)) <= Cardinality(SameLabel(t) \cap Ended(p, st))
    BY DEF Told
  <2>1. RowsShowing(log, t, st) = {}
    BY <1>1, <1>2 DEF RowsShowing
  <2>2. Cardinality(RowsShowing(log, t, st)) = 0
    BY <2>1, FS_EmptySet
  <2>3. SameLabel(t) \cap Ended(p, st) \in SUBSET Steps
    BY DEF Ended
  <2>4. Cardinality(SameLabel(t) \cap Ended(p, st)) \in Nat
    BY <2>3, ActivityAssumption, FS_Subset, FS_CardinalityType
  <2> QED
    BY <2>2, <2>4
<1>8. StillShown(log, p)
  BY DEF StillShown, Terminal
<1> QED
  BY <1>1, <1>2, <1>4, <1>5, <1>6, <1>7, <1>8 DEF Backed

\* The rows of the conversation have ids of their own, and hold those last shown.
UniqueIds(entries) == \A p, q \in entries : Id(p) = Id(q) => p = q

WorkspaceInd ==
    /\ UniqueIds(workspace) /\ IsFiniteSet(touched)
    /\ \A id \in touched : \E row \in workspace : Id(row) = id
    /\ \A row \in InRun(rows) : Id(row) \in touched => row \in workspace

LayoutInd == ActivityInd /\ WorkspaceInd

\* The rows of an answer, merged into those of the conversation.
LEMMA MergeIs ==
    ASSUME NEW log \in Seq(RowRecords), NEW said, Made(log, said), WorkspaceInd,
           NEW merged, merged = MergeWorkspaceEntries(workspace, InRun(log)),
           NEW ids, ids = touched \cup {Id(row) : row \in InRun(log)}
    PROVE  /\ UniqueIds(merged) /\ IsFiniteSet(ids)
           /\ \A id \in ids : \E row \in merged : Id(row) = id
           /\ InRun(log) \subseteq merged
<1>1. UniqueIds(InRun(log))
  <2> SUFFICES ASSUME NEW p \in InRun(log), NEW q \in InRun(log), Id(p) = Id(q) PROVE p = q
    BY DEF UniqueIds
  <2>1. PICK i \in DOMAIN log :
           p = [run |-> run, step |-> log[i].step, by |-> log[i].by, status |-> log[i].status]
    BY DEF InRun
  <2>2. PICK j \in DOMAIN log :
           q = [run |-> run, step |-> log[j].step, by |-> log[j].by, status |-> log[j].status]
    BY DEF InRun
  <2>3. log[i].step = log[j].step /\ log[i].by = log[j].by
    BY <2>1, <2>2 DEF Id
  <2>4. i = j
    BY <2>3 DEF Made
  <2> QED
    BY <2>1, <2>2, <2>4
<1>2. UniqueIds(merged)
  <2> SUFFICES ASSUME NEW p \in merged, NEW q \in merged, Id(p) = Id(q) PROVE p = q
    BY DEF UniqueIds
  <2>1. \A r \in merged : \/ r \in InRun(log)
                          \/ r \in workspace /\ \A n \in InRun(log) : Id(n) # Id(r)
    BY DEF MergeWorkspaceEntries
  <2>2. \/ p \in InRun(log) /\ q \in InRun(log)
        \/ p \in workspace /\ q \in workspace
    BY <2>1
  <2> QED
    BY <1>1, <2>2 DEF UniqueIds, WorkspaceInd
<1>3. IsFiniteSet({Id(row) : row \in InRun(log)})
  <2> DEFINE T == {Id(row) : row \in InRun(log)}
             f == [i \in DOMAIN log |-> <<run, log[i].step, log[i].by>>]
  <2>1. ASSUME NEW i \in DOMAIN log PROVE f[i] \in T
    <3>1. [run |-> run, step |-> log[i].step, by |-> log[i].by, status |-> log[i].status] \in InRun(log)
      BY DEF InRun
    <3>2. Id([run |-> run, step |-> log[i].step, by |-> log[i].by, status |-> log[i].status]) = f[i]
      BY DEF Id
    <3> QED
      BY <3>1, <3>2
  <2>2. \A id \in T : \E i \in DOMAIN log : f[i] = id
    BY DEF InRun, Id
  <2>3. f \in [DOMAIN log -> T]
    BY <2>1
  <2>4. f \in Surjection(DOMAIN log, T)
    BY <2>2, <2>3, Fun_IsSurj
  <2>5. IsFiniteSet(DOMAIN log)
    <3>1. DOMAIN log = 1 .. Len(log) /\ Len(log) \in Nat
      BY LenProperties
    <3>2. IsFiniteSet(1 .. Len(log))
      BY <3>1, FS_Interval
    <3> QED
      BY <3>1, <3>2
  <2> HIDE DEF f, T
  <2>6. IsFiniteSet(T)
    BY <2>4, <2>5, FS_Surjection
  <2> QED
    BY <2>6 DEF T
<1>4. IsFiniteSet(ids)
  BY <1>3, FS_Union DEF WorkspaceInd
<1>5. InRun(log) \subseteq merged
  BY DEF MergeWorkspaceEntries
<1>6. ASSUME NEW id \in ids PROVE \E row \in merged : Id(row) = id
  <2>1. CASE \E row \in InRun(log) : Id(row) = id
    BY <1>5, <2>1
  <2>2. CASE ~\E row \in InRun(log) : Id(row) = id
    <3>1. PICK row \in workspace : Id(row) = id
      BY <1>6, <2>2 DEF WorkspaceInd
    <3>2. row \in merged
      BY <2>2, <3>1 DEF MergeWorkspaceEntries
    <3> QED
      BY <3>1, <3>2
  <2> QED
    BY <2>1, <2>2
<1> QED
  BY <1>2, <1>4, <1>5, <1>6

LEMMA LayoutStarts == LayoutInit => LayoutInd
<1> SUFFICES ASSUME LayoutInit PROVE LayoutInd
  OBVIOUS
<1>1. ActivityInd
  <2>1. progress = [s \in Steps |-> "idle"] /\ rows = <<>> /\ seen = {}
    BY DEF LayoutInit, ActivityInit
  <2> QED
    BY <2>1, FreshActivity DEF ActivityInd
<1>2. WorkspaceInd
  BY FS_EmptySet DEF LayoutInit, WorkspaceInd, UniqueIds
<1> QED
  BY <1>1, <1>2 DEF LayoutInd

LEMMA UpdatesKeep == ASSUME LayoutInd, Updates PROVE LayoutInd'
<1>1. ActivityInd'
  BY ReportsKeep, LayoutAssumption DEF LayoutInd, Updates
<1>2. rows' \in Seq(RowRecords) /\ Made(rows', seen') /\ WorkspaceInd
  BY <1>1 DEF ActivityInd, LayoutInd
<1>3. /\ UniqueIds(workspace') /\ IsFiniteSet(touched')
      /\ \A id \in touched' : \E row \in workspace' : Id(row) = id
      /\ InRun(rows') \subseteq workspace'
  <2>1. /\ workspace' = MergeWorkspaceEntries(workspace, InRun(rows'))
        /\ touched' = touched \cup {Id(row) : row \in InRun(rows')}
    BY DEF Updates
  <2> QED
    BY <1>2, <2>1, MergeIs
<1>4. InRun(rows)' = InRun(rows')
  BY DEF Updates, InRun
<1>5. WorkspaceInd'
  BY <1>3, <1>4 DEF WorkspaceInd, UniqueIds, Id
<1> QED
  BY <1>1, <1>5 DEF LayoutInd

LEMMA NewAnswerKeeps == ASSUME LayoutInd, NewAnswer PROVE LayoutInd'
<1>1. ActivityInd'
  <2>1. progress' = [s \in Steps |-> "idle"] /\ rows' = <<>> /\ seen' = {}
    BY DEF NewAnswer
  <2> QED
    BY <2>1, FreshActivity DEF ActivityInd
<1>2. rows \in Seq(RowRecords) /\ Made(rows, seen) /\ WorkspaceInd
  BY DEF ActivityInd, LayoutInd
<1>3. /\ UniqueIds(workspace') /\ IsFiniteSet(touched')
      /\ \A id \in touched' : \E row \in workspace' : Id(row) = id
  <2>1. /\ workspace' = MergeWorkspaceEntries(workspace, InRun(rows))
        /\ touched' = touched \cup {Id(row) : row \in InRun(rows)}
    BY DEF NewAnswer
  <2> QED
    BY <1>2, <2>1, MergeIs
<1>4. InRun(rows)' = {}
  <2>1. progress' = [s \in Steps |-> "idle"] /\ rows' = <<>> /\ seen' = {}
    BY DEF NewAnswer
  <2>2. DOMAIN rows' = {}
    BY <2>1, FreshActivity
  <2> QED
    BY <2>2 DEF InRun
<1>5. WorkspaceInd'
  BY <1>3, <1>4 DEF WorkspaceInd, UniqueIds, Id
<1> QED
  BY <1>1, <1>5 DEF LayoutInd

LEMMA HistoryKeeps == ASSUME LayoutInd, HandleHistoryLoaded PROVE LayoutInd'
<1>1. ActivityInd' /\ rows' = rows /\ run' = run
  BY DEF HandleHistoryLoaded, LayoutInd, ActivityInd, activityVars
<1>2. CASE UNCHANGED <<workspace, touched>>
  BY <1>1, <1>2 DEF LayoutInd, WorkspaceInd, UniqueIds, Id, InRun
<1>3. CASE /\ workspace' = {[run |-> 0, step |-> s, by |-> "history", status |-> "completed"] : s \in ToolSteps}
           /\ touched' = {}
  <2>1. UniqueIds(workspace')
    BY <1>3 DEF UniqueIds, Id
  <2>2. IsFiniteSet(touched')
    BY <1>3, FS_EmptySet
  <2> QED
    BY <1>1, <1>3, <2>1, <2>2 DEF LayoutInd, WorkspaceInd, UniqueIds, Id
<1> QED
  BY <1>2, <1>3 DEF HandleHistoryLoaded

LEMMA LayoutKeeps == ASSUME LayoutInd, [LayoutNext]_layoutVars PROVE LayoutInd'
<1>1. ASSUME UNCHANGED <<activityVars, run, workspace, touched>> PROVE LayoutInd'
  BY <1>1 DEF LayoutInd, ActivityInd, WorkspaceInd, UniqueIds, Id, InRun, activityVars
<1>2. ASSUME HandleToggleActivity \/ HandleOpenHistorical \/ BackToLive \/ OtherTabToggles \/ StorageEvent
      PROVE  LayoutInd'
  BY <1>1, <1>2 DEF HandleToggleActivity, HandleOpenHistorical, BackToLive, OtherTabToggles, StorageEvent
<1>3. ASSUME UNCHANGED layoutVars PROVE LayoutInd'
  BY <1>1, <1>3 DEF layoutVars
<1> QED
  BY <1>2, <1>3, UpdatesKeep, NewAnswerKeeps, HistoryKeeps DEF LayoutNext

\* What is counted of the conversation is what was last shown of it.
LEMMA WorkspaceIsUpToDate == WorkspaceInd => WorkspaceUpToDate
<1> SUFFICES ASSUME WorkspaceInd PROVE WorkspaceUpToDate
  OBVIOUS
<1> DEFINE W == {row \in workspace : Id(row) \in touched}
           f == [row \in W |-> Id(row)]
<1>1. f \in Bijection(W, touched)
  BY DEF WorkspaceInd, UniqueIds, Bijection, Injection, Surjection, IsInjective
<1>2. Cardinality(W) = Cardinality(touched)
  <2>1. f \in Injection(W, touched) /\ f \in Surjection(W, touched)
    BY <1>1 DEF Bijection
  <2>2. IsFiniteSet(touched)
    BY DEF WorkspaceInd
  <2> HIDE DEF f, W
  <2>3. IsFiniteSet(W)
    BY <2>1, <2>2, FS_Injection
  <2> QED
    BY <2>1, <2>3, FS_Surjection
<1>3. {<<row.run, row.step>> : row \in W} = {<<id[1], id[2]>> : id \in touched}
  <2>1. \A row : Id(row)[1] = row.run /\ Id(row)[2] = row.step
    BY DEF Id
  <2>2. \A id \in touched : \E row \in W : Id(row) = id
    BY DEF WorkspaceInd
  <2> QED
    BY <2>1, <2>2
<1>4. /\ deriveOpsSnapshot(W).logsFetched = Cardinality(touched)
      /\ deriveOpsSnapshot(W).containersReferenced = {<<id[1], id[2]>> : id \in touched}
  BY <1>2, <1>3 DEF deriveOpsSnapshot
<1> HIDE DEF f
<1> QED
  BY <1>4 DEF WorkspaceUpToDate, WorkspaceInd

\* What the panel shows of the activity can be trusted, for any number of steps, labels and
\* answers: of no tool does mergeActivityEntry leave more rows running, completed or failed
\* than it has steps that are, and mergeWorkspaceEntries keeps every row as last shown, once.
THEOREM RowsAreTrusted == LayoutSpec => []RowsCanBeTrusted
<1>1. LayoutInd => RowsCanBeTrusted
  BY RowsTrusted, WorkspaceIsUpToDate DEF LayoutInd, RowsCanBeTrusted
<1> QED
  BY <1>1, LayoutStarts, LayoutKeeps, PTL DEF LayoutSpec

----------------------------------------------------------------------------
(***************************************************************************)
(* NoStepLost for any steps, parents and messages of the legacy UI.  The   *)
(* tree is changed by one splice: the rows from one on, up to another,     *)
(* make way for the row of the message, none of them less deep than it,    *)
(* and so no row that stays loses its parent.  The rows below a row are    *)
(* of steps below its step, by the least of them that would not be.        *)
(***************************************************************************)

StepRecords == [id : StepIds, name : StepNames, nth : Nat]
TreeRows    == [id : StepIds, name : StepNames, nth : Nat, depth : Nat]

\* Row j is the parent of row i, with only rows below it between them.
ParentRow(t, j, i) ==
    /\ t[j].id = ParentId[t[i].id] /\ t[j].depth = t[i].depth - 1
    /\ \A k \in j + 1 .. i : t[k].depth > t[j].depth

WellPlaced(t) == \A i \in DOMAIN t : t[i].depth > 0 => \E j \in 1 .. i - 1 : ParentRow(t, j, i)

\* A message is in the tree, or replaced, or was below a step that was replaced.
Accounted(n) ==
    Shown(n) \/ \E k \in n + 1 .. Len(heard) :
                   /\ Repeats(k)
                   /\ SameStep(heard[k], heard[n]) \/ Above(heard[n].id, heard[k].id)

TreeInd ==
    /\ heard \in Seq(StepRecords) /\ tree \in Seq(TreeRows)
    /\ \A i \in DOMAIN tree : tree[i].nth \in DOMAIN heard /\ SameStep(heard[tree[i].nth], tree[i])
    /\ \A n \in DOMAIN heard : Accounted(n)
    /\ WellPlaced(tree)

LEMMA TreeRowsAre ==
    ASSUME NEW t \in Seq(TreeRows)
    PROVE  /\ Len(t) \in Nat /\ DOMAIN t = 1 .. Len(t)
           /\ \A i \in 1 .. Len(t) : t[i] \in TreeRows /\ t[i].id \in StepIds
                                       /\ t[i].depth \in Nat
<1>1. Len(t) \in Nat /\ DOMAIN t = 1 .. Len(t)
  BY LenProperties
<1>2. \A i \in 1 .. Len(t) : t[i] \in TreeRows
  BY ElementOfSeq
<1> QED
  BY <1>1, <1>2 DEF TreeRows

\* The rows below a row go as far as Bottom says.
LEMMA BottomIs ==
    ASSUME NEW t \in Seq(TreeRows), NEW i \in 1 .. Len(t)
    PROVE  /\ Bottom(t, i) \in i .. Len(t)
           /\ \A k \in i + 1 .. Bottom(t, i) : t[k].depth > t[i].depth
           /\ Bottom(t, i) = Len(t) \/ t[Bottom(t, i) + 1].depth <= t[i].depth
<1> DEFINE P(j) == /\ \A k \in i + 1 .. j : t[k].depth > t[i].depth
                   /\ j = Len(t) \/ t[j + 1].depth <= t[i].depth
           S == {k \in i + 1 .. Len(t) : t[k].depth <= t[i].depth}
<1>1. Len(t) \in Nat /\ \A k \in 1 .. Len(t) : t[k].depth \in Nat
  BY TreeRowsAre
<1>2. \E j \in i .. Len(t) : P(j)
  <2>1. CASE S = {}
    <3>1. \A k \in i + 1 .. Len(t) : t[k].depth > t[i].depth
      BY <1>1, <2>1
    <3>2. Len(t) \in i .. Len(t)
      BY <1>1
    <3> QED
      BY <3>1, <3>2
  <2>2. CASE S # {}
    <3>1. S \in SUBSET Nat
      BY <1>1
    <3>2. PICK m \in S : \A k \in S : m <= k
      BY <2>2, <3>1, HasMin
    <3>3. m \in i + 1 .. Len(t) /\ t[m].depth <= t[i].depth
      BY <3>2
    <3>4. \A k \in i + 1 .. m - 1 : k \in i + 1 .. Len(t) /\ ~(m <= k)
      BY <1>1, <3>3
    <3>5. \A k \in i + 1 .. m - 1 : ~(t[k].depth <= t[i].depth)
      BY <3>2, <3>4
    <3>6. \A k \in i + 1 .. m - 1 : t[k].depth > t[i].depth
      BY <1>1, <3>4, <3>5
    <3>7. m - 1 \in i .. Len(t) /\ (m - 1) + 1 = m
      BY <1>1, <3>3
    <3>8. P(m - 1)
      BY <3>3, <3>6, <3>7
    <3> QED
      BY <3>7, <3>8
  <2> QED
    BY <2>1, <2>2
<1>3. Bottom(t, i) = CHOOSE j \in i .. Len(t) : P(j)
  BY DEF Bottom
<1> HIDE DEF P
<1>4. Bottom(t, i) \in i .. Len(t) /\ P(Bottom(t, i))
  BY <1>2, <1>3
<1> QED
  BY <1>4 DEF P

\* The rows from a on, up to b, make way for a row r.
Spliced(t, a, r, b) == SubSeq(t, 1, a - 1) \o <<r>> \o SubSeq(t, b, Len(t))
IsSpliced(u, t, a, r, b) ==
    /\ u \in Seq(TreeRows) /\ Len(u) = Len(t) + a - b + 1 /\ DOMAIN u = 1 .. Len(u)
    /\ \A i \in 1 .. a - 1 : u[i] = t[i]
    /\ u[a] = r
    /\ \A i \in a + 1 .. Len(u) : u[i] = t[i + b - a - 1]

LEMMA SpliceIs ==
    ASSUME NEW t \in Seq(TreeRows), NEW a \in 1 .. Len(t) + 1, NEW b \in a .. Len(t) + 1,
           NEW r \in TreeRows, NEW u, u = Spliced(t, a, r, b)
    PROVE  IsSpliced(u, t, a, r, b)
<1> DEFINE p == SubSeq(t, 1, a - 1)
           q == SubSeq(t, b, Len(t))
           o == <<r>>
           l == Len(t)
<1>1. l \in Nat /\ \A i \in 1 .. l : t[i] \in TreeRows
  BY TreeRowsAre
<1>2. a \in Int /\ b \in Int /\ a - 1 \in Int /\ l \in Int /\ 1 \in Int
  BY <1>1
<1>3. (\A i \in 1 .. a - 1 : t[i] \in TreeRows) /\ (\A i \in b .. l : t[i] \in TreeRows)
  BY <1>1
<1>4. /\ p \in Seq(TreeRows)
      /\ Len(p) = IF 1 <= a - 1 THEN a - 1 - 1 + 1 ELSE 0
      /\ \A i \in 1 .. a - 1 - 1 + 1 : p[i] = t[1 + i - 1]
  BY <1>2, <1>3, SubSeqProperties
<1>5. /\ q \in Seq(TreeRows)
      /\ Len(q) = IF b <= l THEN l - b + 1 ELSE 0
      /\ \A i \in 1 .. l - b + 1 : q[i] = t[b + i - 1]
  BY <1>2, <1>3, SubSeqProperties
<1>6. o \in Seq(TreeRows) /\ Len(o) = 1 /\ o[1] = r
  OBVIOUS
<1> HIDE DEF p, q, o
<1>7. Len(p) = a - 1 /\ \A i \in 1 .. a - 1 : p[i] = t[i]
  BY <1>1, <1>4
<1>8. Len(q) = l - b + 1
  BY <1>1, <1>5
<1> DEFINE v == p \o o
<1>9. v \in Seq(TreeRows) /\ Len(v) = Len(p) + Len(o)
      /\ \A i \in 1 .. Len(p) + Len(o) : v[i] = IF i <= Len(p) THEN p[i] ELSE o[i - Len(p)]
  BY <1>4, <1>6, ConcatProperties
<1>10. u = v \o q
  BY DEF p, q, o, Spliced
<1> HIDE DEF v
<1>11. u \in Seq(TreeRows) /\ Len(u) = Len(v) + Len(q)
       /\ \A i \in 1 .. Len(v) + Len(q) : u[i] = IF i <= Len(v) THEN v[i] ELSE q[i - Len(v)]
  <2>1. v \in Seq(TreeRows) /\ q \in Seq(TreeRows)
    BY <1>5, <1>9
  <2>2. /\ v \o q \in Seq(TreeRows) /\ Len(v \o q) = Len(v) + Len(q)
        /\ \A i \in 1 .. Len(v) + Len(q) : (v \o q)[i] = IF i <= Len(v) THEN v[i] ELSE q[i - Len(v)]
    BY <2>1, ConcatProperties
  <2> QED
    BY <1>10, <2>2
<1>12. Len(v) = a
  BY <1>6, <1>7, <1>9
<1>13. Len(u) = l + a - b + 1 /\ Len(u) \in Nat
  <2>1. Len(u) = a + (l - b + 1) /\ l \in Nat
    BY <1>1, <1>8, <1>11, <1>12
  <2>2. Len(u) \in Nat
    BY <1>11, LenProperties
  <2> HIDE DEF l
  <2> QED
    BY <1>2, <2>1, <2>2
<1>14. DOMAIN u = 1 .. Len(u)
  BY <1>11, LenProperties
<1>15. \A i \in 1 .. a - 1 : u[i] = t[i]
  <2>1. \A i \in 1 .. a - 1 : i \in 1 .. Len(v) + Len(q) /\ i <= Len(v) /\ i \in 1 .. Len(p) + Len(o)
                              /\ i <= Len(p)
    BY <1>1, <1>6, <1>7, <1>8, <1>12
  <2> QED
    BY <1>7, <1>9, <1>11, <2>1
<1>16. u[a] = r
  <2>1. a \in 1 .. Len(v) + Len(q) /\ a <= Len(v) /\ a \in 1 .. Len(p) + Len(o) /\ ~(a <= Len(p))
        /\ a - Len(p) = 1
    BY <1>1, <1>6, <1>7, <1>8, <1>12
  <2> QED
    BY <1>6, <1>9, <1>11, <2>1
<1>17. ASSUME NEW i \in a + 1 .. Len(u) PROVE u[i] = t[i + b - a - 1]
  <2>1. i \in 1 .. Len(v) + Len(q) /\ ~(i <= Len(v)) /\ i - Len(v) \in 1 .. l - b + 1
        /\ b + (i - Len(v)) - 1 = i + b - a - 1
    <3>1. l \in Nat /\ Len(q) = l - b + 1 /\ Len(v) = a /\ Len(u) = l + a - b + 1
      BY <1>1, <1>8, <1>12, <1>13
    <3> HIDE DEF l
    <3> QED
      BY <1>2, <3>1
  <2>2. u[i] = q[i - Len(v)]
    BY <1>11, <2>1
  <2>3. q[i - Len(v)] = t[b + (i - Len(v)) - 1]
    BY <1>5, <2>1
  <2> QED
    BY <2>1, <2>2, <2>3
<1> HIDE DEF l
<1> QED
  BY <1>11, <1>13, <1>14, <1>15, <1>16, <1>17 DEF l, IsSpliced

\* The tree stays well placed when r is, and is no deeper than what made way for it.
LEMMA SpliceKeeps ==
    ASSUME NEW t \in Seq(TreeRows), WellPlaced(t),
           NEW a \in 1 .. Len(t) + 1, NEW b \in a .. Len(t) + 1, NEW r \in TreeRows,
           NEW u, u = Spliced(t, a, r, b),
           \A k \in a .. b - 1 : t[k].depth >= r.depth,
           b <= Len(t) => t[b].depth <= r.depth,
           r.depth > 0 => \E j \in 1 .. a - 1 :
                             /\ t[j].id = ParentId[r.id] /\ t[j].depth = r.depth - 1
                             /\ \A k \in j + 1 .. a - 1 : t[k].depth > t[j].depth
    PROVE  WellPlaced(u)
<1>1. /\ u \in Seq(TreeRows) /\ Len(u) = Len(t) + a - b + 1 /\ DOMAIN u = 1 .. Len(u)
      /\ \A i \in 1 .. a - 1 : u[i] = t[i]
      /\ u[a] = r
      /\ \A i \in a + 1 .. Len(u) : u[i] = t[i + b - a - 1]
  <2>1. IsSpliced(u, t, a, r, b)
    BY SpliceIs
  <2> QED
    BY <2>1 DEF IsSpliced
<1>2. /\ Len(t) \in Nat /\ DOMAIN t = 1 .. Len(t)
      /\ \A i \in 1 .. Len(t) : t[i].depth \in Nat
  BY TreeRowsAre
<1>3. r.depth \in Nat
  BY DEF TreeRows
<1> SUFFICES ASSUME NEW i \in 1 .. Len(u), u[i].depth > 0
             PROVE  \E j \in 1 .. i - 1 : ParentRow(u, j, i)
  BY <1>1 DEF WellPlaced
<1>4. CASE i < a
  <2>1. i \in 1 .. a - 1 /\ i \in 1 .. Len(t)
    BY <1>2, <1>4
  <2>2. u[i] = t[i]
    BY <1>1, <2>1
  <2>3. PICK j \in 1 .. i - 1 : ParentRow(t, j, i)
    BY <1>2, <2>1, <2>2 DEF WellPlaced
  <2>4. j \in 1 .. a - 1 /\ \A k \in j + 1 .. i : k \in 1 .. a - 1
    BY <2>1
  <2>5. u[j] = t[j] /\ \A k \in j + 1 .. i : u[k] = t[k]
    BY <1>1, <2>4
  <2>6. ParentRow(u, j, i)
    BY <2>2, <2>3, <2>5 DEF ParentRow
  <2> QED
    BY <2>6
<1>5. CASE i = a
  <2>1. PICK j \in 1 .. a - 1 : /\ t[j].id = ParentId[r.id] /\ t[j].depth = r.depth - 1
                                /\ \A k \in j + 1 .. a - 1 : t[k].depth > t[j].depth
    BY <1>1, <1>5
  <2>2. u[j] = t[j] /\ u[i] = r
    BY <1>1, <1>5
  <2>3. ASSUME NEW k \in j + 1 .. i PROVE u[k].depth > u[j].depth
    <3>1. CASE k = a
      <4>1. t[j].depth \in Nat
        BY <1>2
      <4> QED
        <5>1. u[k] = r /\ u[j] = t[j] /\ t[j].depth = r.depth - 1
          BY <1>1, <2>1, <2>2, <3>1
        <5> QED
          BY <1>3, <4>1, <5>1
    <3>2. CASE k # a
      <4>1. k \in j + 1 .. a - 1 /\ k \in 1 .. a - 1
        BY <1>5, <3>2
      <4> QED
        BY <1>1, <2>1, <2>2, <4>1
    <3> QED
      BY <3>1, <3>2
  <2>4. ParentRow(u, j, i)
    BY <2>1, <2>2, <2>3 DEF ParentRow
  <2> QED
    BY <1>5, <2>4
<1>6. CASE i > a
  <2> DEFINE x == i + b - a - 1
  <2>1. i \in a + 1 .. Len(u) /\ x \in b .. Len(t) /\ x \in 1 .. Len(t) /\ b <= Len(t) /\ b \in 1 .. Len(t)
        /\ b <= x
    <3>1. \A n \in Nat : \A c \in 1 .. n + 1 : \A d \in c .. n + 1 : \A y \in 1 .. n + c - d + 1 :
             y > c => /\ y \in c + 1 .. n + c - d + 1 /\ y + d - c - 1 \in d .. n
                      /\ y + d - c - 1 \in 1 .. n /\ d <= n /\ d \in 1 .. n /\ d <= y + d - c - 1
      OBVIOUS
    <3> QED
      BY <1>1, <1>2, <1>6, <3>1
  <2>2. u[i] = t[x]
    BY <1>1, <2>1
  <2> HIDE DEF x
  <2>3. PICK j \in 1 .. x - 1 : ParentRow(t, j, x)
    BY <1>2, <2>1, <2>2 DEF WellPlaced
  <2>4. t[j].depth \in Nat /\ t[b].depth \in Nat /\ t[b].depth <= r.depth
    BY <1>2, <2>1
  <2>5. CASE j >= b
    <3> DEFINE h == j + a + 1 - b
    <3>1. h \in a + 1 .. Len(u) /\ h + b - a - 1 = j /\ h \in 1 .. i - 1
      <4>1. a \in Int /\ b \in Int /\ i \in Int /\ j \in Int /\ Len(u) \in Int
        BY <1>1, <1>2, <2>1 DEF x
      <4>2. a <= b /\ b <= j /\ 1 <= a /\ i <= Len(u)
        BY <1>1, <1>2, <2>1, <2>5
      <4>3. j <= i + b - a - 1 - 1
        BY <4>1 DEF x
      <4>4. h \in Int /\ h + b - a - 1 = j
        BY <4>1
      <4>5. a + 1 <= h /\ h <= i - 1
        BY <4>1, <4>2, <4>3
      <4> HIDE DEF h
      <4> QED
        BY <4>1, <4>2, <4>4, <4>5
    <3>2. u[h] = t[j]
      BY <1>1, <3>1
    <3>3. ASSUME NEW k \in h + 1 .. i PROVE u[k].depth > u[h].depth
      <4>1. k \in a + 1 .. Len(u) /\ k + b - a - 1 \in j + 1 .. x
        BY <1>1, <1>2, <2>1, <3>1 DEF x
      <4>2. u[k] = t[k + b - a - 1]
        BY <1>1, <4>1
      <4> QED
        BY <2>3, <3>2, <4>1, <4>2 DEF ParentRow
    <3> HIDE DEF h
    <3>4. ParentRow(u, h, i)
      BY <2>2, <2>3, <3>2, <3>3 DEF ParentRow
    <3> QED
      BY <3>1, <3>4
  <2>6. CASE j < b
    <3>1. b \in j + 1 .. x
      BY <2>1, <2>6
    <3>2. t[b].depth > t[j].depth
      BY <2>3, <3>1 DEF ParentRow
    <3>3. j < a
      <4>1. SUFFICES ASSUME j >= a PROVE FALSE
        OBVIOUS
      <4>2. j \in a .. b - 1
        BY <2>6, <4>1
      <4>3. t[j].depth >= r.depth
        BY <4>2
      <4> QED
        BY <1>3, <2>4, <3>2, <4>3
    <3>4. j \in 1 .. a - 1 /\ j \in 1 .. i - 1
      BY <1>6, <3>3
    <3>5. u[j] = t[j]
      BY <1>1, <3>4
    <3>6. ASSUME NEW k \in j + 1 .. i PROVE u[k].depth > u[j].depth
      <4>1. CASE k < a
        <5>1. k \in 1 .. a - 1 /\ k \in j + 1 .. x
          BY <2>1, <4>1
        <5> QED
          BY <1>1, <2>3, <3>5, <5>1 DEF ParentRow
      <4>2. CASE k = a
        <5>1. u[k] = r /\ u[j] = t[j]
          BY <1>1, <3>5, <4>2
        <5> QED
          BY <1>3, <2>4, <3>2, <5>1
      <4>3. CASE k > a
        <5>1. k \in a + 1 .. Len(u) /\ k + b - a - 1 \in j + 1 .. x
          BY <1>1, <1>2, <2>1, <3>3, <4>3 DEF x
        <5>2. u[k] = t[k + b - a - 1]
          BY <1>1, <5>1
        <5> QED
          BY <2>3, <3>5, <5>1, <5>2 DEF ParentRow
      <4> QED
        BY <4>1, <4>2, <4>3
    <3>7. ParentRow(u, j, i)
      BY <2>2, <2>3, <3>5, <3>6 DEF ParentRow
    <3> QED
      BY <3>4, <3>7
  <2> QED
    BY <2>5, <2>6
<1> QED
  BY <1>4, <1>5, <1>6

\* What is below a row is of a step below its step.
LEMMA BelowIsBelow ==
    ASSUME NEW t \in Seq(TreeRows), WellPlaced(t), NEW i \in 1 .. Len(t),
           NEW k \in i + 1 .. Bottom(t, i)
    PROVE  Above(t[k].id, t[i].id)
<1> DEFINE b == Bottom(t, i)
<1>1. /\ Len(t) \in Nat /\ DOMAIN t = 1 .. Len(t)
      /\ \A n \in 1 .. Len(t) : t[n].id \in StepIds /\ t[n].depth \in Nat
  BY TreeRowsAre
<1>2. b \in i .. Len(t) /\ \A n \in i + 1 .. b : t[n].depth > t[i].depth
  BY BottomIs
<1> HIDE DEF b
<1> SUFFICES ASSUME NEW up \in SUBSET StepIds, ParentId[t[k].id] \in up \cup {NoParent},
                    \A s \in up : ParentId[s] \in up \cup {NoParent}
             PROVE  t[i].id \in up
  BY DEF Above
<1> DEFINE S == {n \in i + 1 .. b : ParentId[t[n].id] \in up \cup {NoParent}}
<1>3. S \in SUBSET Nat /\ S # {}
  BY <1>1, <1>2 DEF b
<1>4. PICK m \in S : \A n \in S : m <= n
  BY <1>3, HasMin
<1>5. m \in i + 1 .. b /\ m \in 1 .. Len(t) /\ ParentId[t[m].id] \in up \cup {NoParent}
  BY <1>1, <1>2, <1>4
<1>6. t[m].depth > t[i].depth /\ t[m].depth \in Nat /\ t[i].depth \in Nat
  BY <1>1, <1>2, <1>5
<1>7. PICK j \in 1 .. m - 1 : ParentRow(t, j, m)
  BY <1>1, <1>5, <1>6 DEF WellPlaced
<1>8. j \in 1 .. Len(t) /\ t[j].depth \in Nat /\ t[j].id \in StepIds
  BY <1>1, <1>5
<1>9. t[j].id \in up
  BY <1>5, <1>7, <1>8, StepTreeAssumption DEF ParentRow
<1>10. CASE j < i
  <2>1. i \in j + 1 .. m
    BY <1>5, <1>10
  <2>2. t[i].depth > t[j].depth /\ t[j].depth = t[m].depth - 1
    BY <1>7, <2>1 DEF ParentRow
  <2> QED
    BY <1>6, <1>8, <2>2
<1>11. CASE j = i
  BY <1>9, <1>11
<1>12. CASE j > i
  <2>1. j \in i + 1 .. b /\ ~(m <= j)
    BY <1>1, <1>2, <1>5, <1>12
  <2>2. ParentId[t[j].id] \in up \cup {NoParent}
    BY <1>9
  <2>3. j \in S
    BY <2>1, <2>2
  <2> QED
    BY <1>4, <2>1, <2>3
<1> QED
  BY <1>10, <1>11, <1>12

\* A row of the tree stands for its message.
StandsFor(r, said) == r.nth \in DOMAIN said /\ SameStep(said[r.nth], r)

LEMMA FirstIs ==
    ASSUME NEW n \in Nat, NEW is \in SUBSET (1 .. n)
    PROVE  First(is) \in is \/ (First(is) = 0 /\ is = {})
<1>1. CASE is = {}
  BY <1>1 DEF First
<1>2. CASE is # {}
  <2>1. is \in SUBSET Nat
    OBVIOUS
  <2>2. \E m \in is : \A k \in is : m <= k
    BY <1>2, <2>1, HasMin
  <2> QED
    BY <1>2, <2>2 DEF First, Min
<1> QED
  BY <1>1, <1>2

\* A message goes to a place of its own, or takes that of the message of its step.
LEMMA MessageGoes ==
    ASSUME NEW t \in Seq(TreeRows), WellPlaced(t), NEW m \in StepRecords,
           NEW u, u = ProcessIntermediateMessage(t, m)
    PROVE  /\ WellPlaced(u)
           /\ \E a \in 1 .. Len(t) + 1, b \in 1 .. Len(t) + 1, r \in TreeRows :
                 /\ a <= b /\ IsSpliced(u, t, a, r, b)
                 /\ r.id = m.id /\ r.name = m.name /\ r.nth = m.nth
                 /\ \A k \in a .. b - 1 : SameStep(t[a], m) /\ (k = a \/ Above(t[k].id, t[a].id))
<1>1. /\ Len(t) \in Nat /\ DOMAIN t = 1 .. Len(t)
      /\ \A i \in 1 .. Len(t) : t[i] \in TreeRows /\ t[i].id \in StepIds /\ t[i].depth \in Nat
  BY TreeRowsAre
<1>2. \A d \in Nat : /\ Row(m, d) \in TreeRows /\ Row(m, d).depth = d
                     /\ Row(m, d).id = m.id /\ Row(m, d).name = m.name /\ Row(m, d).nth = m.nth
  BY DEF Row, StepRecords, TreeRows
<1> DEFINE i == IF override THEN First({j \in DOMAIN t : SameStep(t[j], m)}) ELSE 0
           p == First({j \in DOMAIN t : t[j].id = ParentId[m.id]})
<1>3. i = 0 \/ (i \in 1 .. Len(t) /\ SameStep(t[i], m))
  <2>1. {j \in DOMAIN t : SameStep(t[j], m)} \in SUBSET (1 .. Len(t))
    BY <1>1
  <2> QED
    BY <1>1, <2>1, FirstIs
<1>4. p = 0 \/ (p \in 1 .. Len(t) /\ t[p].id = ParentId[m.id])
  <2>1. {j \in DOMAIN t : t[j].id = ParentId[m.id]} \in SUBSET (1 .. Len(t))
    BY <1>1
  <2> QED
    BY <1>1, <2>1, FirstIs
<1>5. u = IF i # 0 THEN Overridden(t, i, m)
          ELSE IF p = 0 THEN Append(t, Row(m, 0))
          ELSE InsertAt(t, Bottom(t, p) + 1, Row(m, t[p].depth + 1))
  BY DEF ProcessIntermediateMessage, Placed
<1> HIDE DEF i, p
<1>6. CASE i # 0
  <2> DEFINE b == Bottom(t, i) + 1
             r == Row(m, t[i].depth)
  <2>1. i \in 1 .. Len(t) /\ SameStep(t[i], m)
    BY <1>3, <1>6
  <2>2. /\ Bottom(t, i) \in i .. Len(t)
        /\ \A k \in i + 1 .. Bottom(t, i) : t[k].depth > t[i].depth
        /\ Bottom(t, i) = Len(t) \/ t[Bottom(t, i) + 1].depth <= t[i].depth
    BY <2>1, BottomIs
  <2>3. r \in TreeRows /\ r.depth = t[i].depth
        /\ r.id = m.id /\ r.name = m.name /\ r.nth = m.nth /\ t[i].depth \in Nat
    BY <1>1, <1>2, <2>1
  <2>4. u = Spliced(t, i, r, b)
    BY <1>5, <1>6 DEF Overridden, Spliced
  <2>5. i \in 1 .. Len(t) + 1 /\ b \in i .. Len(t) + 1 /\ b \in 1 .. Len(t) + 1 /\ i <= b
    BY <1>1, <2>1, <2>2
  <2>6. IsSpliced(u, t, i, r, b)
    BY <2>3, <2>4, <2>5, SpliceIs
  <2>7. \A k \in i .. b - 1 : k = i \/ k \in i + 1 .. Bottom(t, i)
    BY <1>1, <2>1, <2>2
  <2>8. \A k \in i .. b - 1 : t[k].depth >= r.depth
    BY <1>1, <2>1, <2>2, <2>3, <2>7
  <2>9. b <= Len(t) => t[b].depth <= r.depth
    BY <1>1, <2>2, <2>3
  <2>10. r.depth > 0 => \E j \in 1 .. i - 1 :
            /\ t[j].id = ParentId[r.id] /\ t[j].depth = r.depth - 1
            /\ \A k \in j + 1 .. i - 1 : t[k].depth > t[j].depth
    <3>1. SUFFICES ASSUME r.depth > 0
                   PROVE  \E j \in 1 .. i - 1 :
                             /\ t[j].id = ParentId[r.id] /\ t[j].depth = r.depth - 1
                             /\ \A k \in j + 1 .. i - 1 : t[k].depth > t[j].depth
      OBVIOUS
    <3>2. PICK j \in 1 .. i - 1 : ParentRow(t, j, i)
      BY <1>1, <2>1, <2>3, <3>1 DEF WellPlaced
    <3>3. t[i].id = r.id
      BY <2>1, <2>3 DEF SameStep
    <3>4. \A k \in j + 1 .. i - 1 : k \in j + 1 .. i
      BY <2>1
    <3> QED
      BY <2>3, <3>2, <3>3, <3>4 DEF ParentRow
  <2> HIDE DEF b, r
  <2>11. WellPlaced(u)
    BY <2>3, <2>4, <2>5, <2>8, <2>9, <2>10, SpliceKeeps
  <2>12. \A k \in i .. b - 1 : SameStep(t[i], m) /\ (k = i \/ Above(t[k].id, t[i].id))
    BY <2>1, <2>7, BelowIsBelow
  <2> QED
    BY <2>3, <2>5, <2>6, <2>11, <2>12
<1>7. CASE i = 0 /\ p = 0
  <2> DEFINE e == Len(t) + 1
             r == Row(m, 0)
  <2>1. r \in TreeRows /\ r.depth = 0 /\ r.id = m.id /\ r.name = m.name /\ r.nth = m.nth
    BY <1>2
  <2>2. u = Append(t, r)
    BY <1>5, <1>7
  <2> HIDE DEF r
  <2>3. u = Spliced(t, e, r, e)
    <3>1. u = t \o <<r>>
      BY <2>1, <2>2, AppendIsConcat
    <3>2. SubSeq(t, 1, Len(t)) = t
      BY SubSeqFull
    <3>3. SubSeq(t, e, Len(t)) = <<>>
      BY <1>1, SubSeqEmpty
    <3>4. e - 1 = Len(t)
      BY <1>1
    <3>5. u \in Seq(TreeRows)
      BY <2>1, <2>2, AppendProperties
    <3>6. u \o <<>> = u
      BY <3>5, ConcatEmptySeq
    <3> HIDE DEF e
    <3> QED
      BY <3>1, <3>2, <3>3, <3>4, <3>6 DEF Spliced
  <2>4. e \in 1 .. Len(t) + 1 /\ e \in e .. Len(t) + 1 /\ e <= e /\ ~(e <= Len(t))
        /\ \A k \in e .. e - 1 : FALSE
    BY <1>1
  <2> HIDE DEF e
  <2>5. IsSpliced(u, t, e, r, e)
    BY <2>1, <2>3, <2>4, SpliceIs
  <2>6. ~(r.depth > 0)
    BY <2>1
  <2>7. WellPlaced(u)
    BY <2>1, <2>3, <2>4, <2>6, SpliceKeeps
  <2> QED
    BY <2>1, <2>4, <2>5, <2>7
<1>8. CASE i = 0 /\ p # 0
  <2> DEFINE b == Bottom(t, p) + 1
             r == Row(m, t[p].depth + 1)
  <2>1. p \in 1 .. Len(t) /\ t[p].id = ParentId[m.id] /\ t[p].depth \in Nat /\ t[p].depth + 1 \in Nat
    BY <1>1, <1>4, <1>8
  <2>2. /\ Bottom(t, p) \in p .. Len(t)
        /\ \A k \in p + 1 .. Bottom(t, p) : t[k].depth > t[p].depth
        /\ Bottom(t, p) = Len(t) \/ t[Bottom(t, p) + 1].depth <= t[p].depth
    BY <2>1, BottomIs
  <2>3. r \in TreeRows /\ r.depth = t[p].depth + 1
        /\ r.id = m.id /\ r.name = m.name /\ r.nth = m.nth
    BY <1>2, <2>1
  <2>4. u = Spliced(t, b, r, b)
    BY <1>5, <1>8 DEF InsertAt, Spliced
  <2>5. /\ b \in 1 .. Len(t) + 1 /\ b \in b .. Len(t) + 1 /\ b <= b /\ p \in 1 .. b - 1
        /\ \A k \in b .. b - 1 : FALSE
    BY <1>1, <2>1, <2>2
  <2>6. IsSpliced(u, t, b, r, b)
    BY <2>3, <2>4, <2>5, SpliceIs
  <2>7. b <= Len(t) => t[b].depth <= r.depth
    BY <1>1, <2>1, <2>2, <2>3
  <2>8. t[p].id = ParentId[r.id] /\ t[p].depth = r.depth - 1
        /\ \A k \in p + 1 .. b - 1 : t[k].depth > t[p].depth
    BY <1>1, <2>1, <2>2, <2>3
  <2> HIDE DEF b, r
  <2>9. WellPlaced(u)
    <3>1. \A k \in b .. b - 1 : t[k].depth >= r.depth
      BY <2>5
    <3>2. \E j \in 1 .. b - 1 : /\ t[j].id = ParentId[r.id] /\ t[j].depth = r.depth - 1
                                /\ \A k \in j + 1 .. b - 1 : t[k].depth > t[j].depth
      BY <2>5, <2>8
    <3> QED
      BY <2>3, <2>4, <2>5, <2>7, <3>1, <3>2, SpliceKeeps
  <2> QED
    BY <2>3, <2>5, <2>6, <2>9
<1> QED
  BY <1>6, <1>7, <1>8

LEMMA ArrivalKeeps == ASSUME TreeInd, StepArrives PROVE TreeInd'
<1> DEFINE l == Len(heard)
<1>1. l \in Nat /\ DOMAIN heard = 1 .. l /\ heard \in Seq(StepRecords) /\ tree \in Seq(TreeRows)
      /\ WellPlaced(tree)
  BY LenProperties DEF TreeInd
<1>2. PICK s \in StepIds, n \in StepNames :
         /\ heard' = Append(heard, [id |-> s, name |-> n, nth |-> l + 1])
         /\ tree' = ProcessIntermediateMessage(tree, [id |-> s, name |-> n, nth |-> l + 1])
  BY DEF StepArrives
<1> DEFINE m == [id |-> s, name |-> n, nth |-> l + 1]
<1>3. m \in StepRecords /\ m.nth = l + 1
  BY <1>1 DEF StepRecords
<1>4. heard' = Append(heard, m) /\ tree' = ProcessIntermediateMessage(tree, m)
  BY <1>2
<1> HIDE DEF m
<1>5. /\ heard' \in Seq(StepRecords) /\ Len(heard') = l + 1
      /\ \A i \in 1 .. l : heard'[i] = heard[i]
      /\ heard'[l + 1] = m
  BY <1>1, <1>3, <1>4, AppendProperties
<1>6. DOMAIN heard' = 1 .. l + 1
  BY <1>5, LenProperties
<1>7. WellPlaced(tree')
  BY <1>1, <1>3, <1>4, MessageGoes
<1>8. PICK a \in 1 .. Len(tree) + 1, b \in 1 .. Len(tree) + 1, r \in TreeRows :
         /\ a <= b /\ IsSpliced(tree', tree, a, r, b)
         /\ r.id = m.id /\ r.name = m.name /\ r.nth = m.nth
         /\ \A k \in a .. b - 1 : SameStep(tree[a], m) /\ (k = a \/ Above(tree[k].id, tree[a].id))
  BY <1>1, <1>3, <1>4, MessageGoes
<1>9. /\ tree' \in Seq(TreeRows) /\ Len(tree') = Len(tree) + a - b + 1 /\ DOMAIN tree' = 1 .. Len(tree')
      /\ \A i \in 1 .. a - 1 : tree'[i] = tree[i]
      /\ tree'[a] = r
      /\ \A i \in a + 1 .. Len(tree') : tree'[i] = tree[i + b - a - 1]
  BY <1>8 DEF IsSpliced
<1>10. /\ Len(tree) \in Nat /\ DOMAIN tree = 1 .. Len(tree)
       /\ \A i \in 1 .. Len(tree) : StandsFor(tree[i], heard)
  BY <1>1, LenProperties DEF TreeInd, StandsFor
<1> HIDE DEF l
<1>11. ASSUME NEW i \in DOMAIN tree' PROVE StandsFor(tree'[i], heard')
  <2>1. ASSUME NEW x \in 1 .. Len(tree) PROVE StandsFor(tree[x], heard')
    <3>1. tree[x].nth \in 1 .. l /\ SameStep(heard[tree[x].nth], tree[x])
      BY <1>1, <1>10 DEF StandsFor
    <3>2. tree[x].nth \in 1 .. l + 1 /\ heard'[tree[x].nth] = heard[tree[x].nth]
      BY <1>1, <1>5, <3>1
    <3> QED
      BY <1>6, <3>1, <3>2 DEF StandsFor
  <2>2. i \in 1 .. Len(tree')
    BY <1>9
  <2>3. CASE i < a
    <3>1. i \in 1 .. a - 1 /\ i \in 1 .. Len(tree)
      BY <1>10, <2>2, <2>3
    <3>2. tree'[i] = tree[i]
      BY <1>9, <3>1
    <3> QED
      BY <2>1, <3>1, <3>2
  <2>4. CASE i = a
    <3>1. tree'[i] = r /\ r.nth = l + 1 /\ l + 1 \in 1 .. l + 1
      BY <1>1, <1>3, <1>8, <1>9, <2>4
    <3> QED
      BY <1>5, <1>6, <1>8, <3>1 DEF StandsFor, SameStep
  <2>5. CASE i > a
    <3>1. \A c \in Nat : \A d \in 1 .. c + 1 : \A e \in 1 .. c + 1 : \A y \in 1 .. c + d - e + 1 :
             d <= e /\ y > d => y \in d + 1 .. c + d - e + 1 /\ y + e - d - 1 \in 1 .. c
      OBVIOUS
    <3>2. i \in a + 1 .. Len(tree') /\ i + b - a - 1 \in 1 .. Len(tree)
      BY <1>8, <1>9, <1>10, <2>2, <2>5, <3>1
    <3>3. tree'[i] = tree[i + b - a - 1]
      BY <1>9, <3>2
    <3> QED
      BY <2>1, <3>2, <3>3
  <2> QED
    BY <2>2, <2>3, <2>4, <2>5
<1>12. ASSUME NEW k \in DOMAIN heard' PROVE Accounted(k)'
  <2> DEFINE Later == \E x \in k + 1 .. Len(heard') :
                         /\ \E y \in 1 .. x - 1 : SameStep(heard'[y], heard'[x])
                         /\ SameStep(heard'[x], heard'[k]) \/ Above(heard'[k].id, heard'[x].id)
  <2>0. SUFFICES (\E x \in DOMAIN tree' : tree'[x].nth = k) \/ Later
    BY DEF Accounted, Shown, Repeats
  <2>1. CASE k = l + 1
    <3>1. a \in DOMAIN tree'
      BY <1>8, <1>9, <1>10
    <3> QED
      BY <1>3, <1>8, <1>9, <2>1, <3>1
  <2>2. CASE k # l + 1
    <3>1. k \in 1 .. l /\ Accounted(k)
      BY <1>1, <1>6, <2>2 DEF TreeInd
    <3>2. ASSUME NEW x \in k + 1 .. l,
                 Repeats(x), SameStep(heard[x], heard[k]) \/ Above(heard[k].id, heard[x].id)
          PROVE  Later
      <4>1. PICK y \in 1 .. x - 1 : SameStep(heard[y], heard[x])
        BY <3>2 DEF Repeats
      <4>2. x \in k + 1 .. Len(heard') /\ x \in 1 .. l /\ y \in 1 .. l
        BY <1>1, <1>5, <3>1
      <4>3. heard'[x] = heard[x] /\ heard'[y] = heard[y] /\ heard'[k] = heard[k]
        BY <1>5, <3>1, <4>2
      <4> QED
        BY <3>2, <4>1, <4>2, <4>3
    <3>3. ASSUME NEW x \in 1 .. Len(tree), tree[x].nth = k
          PROVE  (\E z \in DOMAIN tree' : tree'[z].nth = k) \/ Later
      <4>1. CASE x < a
        <5>1. x \in 1 .. a - 1 /\ x \in DOMAIN tree'
          BY <1>8, <1>9, <1>10, <4>1
        <5> QED
          BY <1>9, <3>3, <5>1
      <4>2. CASE x >= b
        <5>1. \A c \in Nat : \A d \in 1 .. c + 1 : \A e \in 1 .. c + 1 : \A y \in 1 .. c :
                 d <= e /\ y >= e => /\ y + d + 1 - e \in d + 1 .. c + d - e + 1
                                     /\ y + d + 1 - e \in 1 .. c + d - e + 1
                                     /\ y + d + 1 - e + e - d - 1 = y
          OBVIOUS
        <5>2. /\ x + a + 1 - b \in a + 1 .. Len(tree') /\ x + a + 1 - b \in DOMAIN tree'
              /\ x + a + 1 - b + b - a - 1 = x
          BY <1>8, <1>9, <1>10, <4>2, <5>1
        <5>3. tree'[x + a + 1 - b] = tree[x]
          BY <1>9, <5>2
        <5> QED
          BY <3>3, <5>2, <5>3
      <4>3. CASE x >= a /\ x < b
        <5>1. x \in a .. b - 1 /\ a \in 1 .. Len(tree)
          BY <1>10, <4>3
        <5>2. SameStep(tree[a], m) /\ (x = a \/ Above(tree[x].id, tree[a].id))
          BY <1>8, <5>1
        <5>3. /\ SameStep(heard[k], tree[x]) /\ tree[a].nth \in 1 .. l
              /\ SameStep(heard[tree[a].nth], tree[a])
          BY <1>1, <1>10, <3>3, <5>1 DEF StandsFor
        <5>4. /\ heard'[l + 1] = m /\ heard'[k] = heard[k] /\ heard'[tree[a].nth] = heard[tree[a].nth]
              /\ l + 1 \in k + 1 .. Len(heard') /\ tree[a].nth \in 1 .. (l + 1) - 1
          BY <1>1, <1>5, <3>1, <5>3
        <5>5. SameStep(heard'[tree[a].nth], heard'[l + 1])
          BY <5>2, <5>3, <5>4 DEF SameStep
        <5>6. SameStep(heard'[l + 1], heard'[k]) \/ Above(heard'[k].id, heard'[l + 1].id)
          <6>1. CASE x = a
            BY <5>2, <5>3, <5>4, <6>1 DEF SameStep
          <6>2. CASE Above(tree[x].id, tree[a].id)
            <7>1. heard'[k].id = tree[x].id /\ heard'[l + 1].id = tree[a].id
              BY <5>2, <5>3, <5>4 DEF SameStep
            <7> QED
              BY <6>2, <7>1
          <6> QED
            BY <5>2, <6>1, <6>2
        <5> QED
          BY <5>4, <5>5, <5>6
      <4> QED
        BY <1>8, <4>1, <4>2, <4>3
    <3> HIDE DEF Later
    <3>4. Shown(k) \/ \E x \in k + 1 .. Len(heard) :
             Repeats(x) /\ (SameStep(heard[x], heard[k]) \/ Above(heard[k].id, heard[x].id))
      BY <3>1 DEF Accounted
    <3> QED
      BY <1>10, <3>2, <3>3, <3>4 DEF Shown, l
  <2> QED
    BY <2>1, <2>2
<1> QED
  BY <1>5, <1>7, <1>9, <1>11, <1>12 DEF TreeInd, StandsFor

\* Whatever the steps, their parents and the order of their messages, a message is lost from
\* the tree of processIntermediateMessage only for a later one of its step, or with a step
\* above it, and the rows below a row are those of its children.
THEOREM StepsAreKept == StepTreeSpec => []NoStepLost
<1>1. TreeInd => NoStepLost
  BY DEF TreeInd, NoStepLost, Accounted, WellPlaced, ParentRow
<1>2. TreeInit => TreeInd
  <2> SUFFICES ASSUME TreeInit PROVE TreeInd
    OBVIOUS
  <2> DEFINE none == <<>>
  <2>1. none \in Seq(StepRecords) /\ none \in Seq(TreeRows) /\ DOMAIN none = {}
    OBVIOUS
  <2>2. heard = none /\ tree = none
    BY DEF TreeInit
  <2> HIDE DEF none
  <2> QED
    BY <2>1, <2>2 DEF TreeInd, WellPlaced
<1>3. TreeInd /\ [TreeNext]_treeVars => TreeInd'
  <2>1. ASSUME TreeInd, heard' = heard, tree' = tree PROVE TreeInd'
    BY <2>1 DEF TreeInd, Accounted, Shown, Repeats, WellPlaced, ParentRow
  <2> QED
    BY <2>1, ArrivalKeeps DEF TreeNext, SetOverride, treeVars
<1> QED
  BY <1>1, <1>2, <1>3, PTL DEF StepTreeSpec

----------------------------------------------------------------------------
(***************************************************************************)
(* NothingLost for any number of conversations, folders, exports and       *)
(* operations of the legacy UI.  What is stored is what is shown: the list *)
(* always, the selection when one is stored; a reload, which trusts the    *)
(* store, then shows the same, and an import, which puts what is stored    *)
(* before what the file holds, keeps the first entry of every id.  Where   *)
(* no selection is stored the list is empty, and so the homepage that the  *)
(* reload puts in its place replaces nothing.  An answer that streams      *)
(* keeps a list as it once was: its end writes what that list had, and     *)
(* nothing else.                                                           *)
(***************************************************************************)

\* Which position of the list an entry comes from.
ComesFromList(f, u, list, is) ==
    /\ f \in [DOMAIN u -> is]
    /\ \A m, n \in DOMAIN u : f[m] = f[n] => m = n
    /\ \A i \in is : \E n \in DOMAIN u : f[n] = i
    /\ \A n \in DOMAIN u : u[n] = list[f[n]]

\* The positions are taken in order, each once: their ranks are 1 to their number.
LEMMA PickedIs ==
    ASSUME NEW S, NEW list \in Seq(S), NEW is \in SUBSET DOMAIN list, NEW u, u = Picked(list, is)
    PROVE  u \in Seq(S) /\ \E f : ComesFromList(f, u, list, is)
<1> DEFINE N == Cardinality(is)
           upto(i) == {j \in is : j <= i}
           R == [i \in is |-> Cardinality(upto(i))]
<1>1. Len(list) \in Nat /\ DOMAIN list = 1 .. Len(list) /\ \A i \in 1 .. Len(list) : list[i] \in S
  BY LenProperties, ElementOfSeq
<1>2. IsFiniteSet(is) /\ N \in Nat
  <2>1. IsFiniteSet(1 .. Len(list))
    BY <1>1, FS_Interval
  <2>2. IsFiniteSet(is)
    BY <1>1, <2>1, FS_Subset
  <2> QED
    BY <2>2, FS_CardinalityType
<1>3. \A i \in is : i \in Int
  BY <1>1
<1>4. ASSUME NEW i \in is PROVE IsFiniteSet(upto(i)) /\ Cardinality(upto(i)) \in 1 .. N
  <2>1. upto(i) \in SUBSET is /\ i \in upto(i)
    BY <1>3
  <2> HIDE DEF upto
  <2>2. IsFiniteSet(upto(i)) /\ Cardinality(upto(i)) <= N
    BY <1>2, <2>1, FS_Subset
  <2>3. Cardinality(upto(i)) \in Nat /\ Cardinality(upto(i)) # 0
    BY <2>1, <2>2, FS_CardinalityType, FS_EmptySet
  <2> QED
    BY <1>2, <2>2, <2>3
<1>5. ASSUME NEW i \in is, NEW k \in is, i < k PROVE Cardinality(upto(i)) # Cardinality(upto(k))
  <2>1. upto(i) \in SUBSET upto(k) /\ k \in upto(k) /\ k \notin upto(i)
    BY <1>3, <1>5
  <2>2. IsFiniteSet(upto(k))
    BY <1>4
  <2> HIDE DEF upto
  <2> QED
    BY <2>1, <2>2, FS_Subset
<1>6. R \in [is -> 1 .. N] /\ \A i \in is : R[i] = Cardinality(upto(i))
  BY <1>4
<1>7. \A i, k \in is : R[i] = R[k] => i = k
  <2> SUFFICES ASSUME NEW i \in is, NEW k \in is, i # k PROVE R[i] # R[k]
    OBVIOUS
  <2>1. i < k \/ k < i
    BY <1>3
  <2> QED
    BY <1>5, <1>6, <2>1
<1>8. u = [n \in 1 .. N |-> list[CHOOSE i \in is : R[i] = n]]
  <2>1. u = [n \in 1 .. N |-> list[CHOOSE i \in is : Cardinality(upto(i)) = n]]
    BY DEF Picked
  <2> QED
    BY <1>6, <2>1
<1> HIDE DEF R, N, upto
<1>9. R \in Surjection(is, 1 .. N)
  <2>1. R \in Injection(is, 1 .. N)
    BY <1>6, <1>7, Fun_IsInj
  <2>2. IsFiniteSet(1 .. N) /\ Cardinality(1 .. N) = IF 1 > N THEN 0 ELSE N - 1 + 1
    BY <1>2, FS_Interval
  <2>3. Cardinality(1 .. N) = N
    BY <1>2, <2>2
  <2>4. Cardinality(is) = Cardinality(1 .. N)
    BY <2>3 DEF N
  <2> QED
    BY <2>1, <2>2, <2>4, FS_Injection
<1>10. \A n \in 1 .. N : \E i \in is : R[i] = n
  BY <1>9 DEF Surjection
<1> DEFINE f == [n \in 1 .. N |-> CHOOSE i \in is : R[i] = n]
<1>11. f \in [1 .. N -> is] /\ \A n \in 1 .. N : R[f[n]] = n
  BY <1>10
<1>12. \A n \in 1 .. N : u[n] = list[f[n]]
  BY <1>8
<1>13. DOMAIN u = 1 .. N
  BY <1>8
<1> HIDE DEF f
<1>14. \A n \in 1 .. N : u[n] \in S
  BY <1>1, <1>11, <1>12
<1>15. u \in [1 .. N -> S]
  BY <1>8, <1>13, <1>14
<1>16. u \in Seq(S)
  BY <1>2, <1>15, IsASeq
<1>17. \A i \in is : R[i] \in 1 .. N /\ f[R[i]] = i
  BY <1>6, <1>7, <1>11
<1>18. ComesFromList(f, u, list, is)
  BY <1>11, <1>12, <1>13, <1>17 DEF ComesFromList
<1> QED
  BY <1>16, <1>18

Entries      == [id : Int \ {None}, folder : Int, home : BOOLEAN]
LibraryFiles == [version : 1 .. 4, history : Seq(Entries), folders : Seq(Int)]
Storage      == [history : Seq(Entries), selected : Entries \cup {Nothing}, folders : Seq(Int)]

\* A list of conversations that were made, and of which no two have one id.
Listed(list, n) == list \in Seq(Entries) /\ \A i \in DOMAIN list : list[i].id <= n
Distinct(list)  == \A i, j \in DOMAIN list : list[i].id = list[j].id => i = j

\* What is stored is what is shown; without a stored selection nothing is.
LibraryInd ==
    /\ made \in Nat /\ folders \in Seq(Int)
    /\ Listed(conversationList, made) /\ Distinct(conversationList)
    /\ selectedConversation \in Entries /\ selectedConversation.id <= made
    /\ stored \in Storage /\ stored.history = conversationList
    /\ stored.selected \in Entries => stored.selected.id <= made
    /\ stored.selected = Nothing => Ids(conversationList) = {}
    /\ \A file \in files : file \in LibraryFiles /\ Listed(file.history, made)

LEMMA ListIs ==
    ASSUME NEW list \in Seq(Entries)
    PROVE  /\ Len(list) \in Nat /\ DOMAIN list = 1 .. Len(list)
           /\ \A i \in DOMAIN list : list[i] \in Entries /\ list[i].id \in Int
<1>1. Len(list) \in Nat /\ DOMAIN list = 1 .. Len(list)
  BY LenProperties
<1>2. \A i \in DOMAIN list : list[i] \in Entries
  BY <1>1, ElementOfSeq
<1> QED
  BY <1>1, <1>2 DEF Entries

LEMMA NoEntries ==
    /\ Listed(<<>>, 0) /\ Distinct(<<>>) /\ Ids(<<>>) = {}
    /\ \A n \in Nat : Listed(<<>>, n)
<1> DEFINE none == <<>>
<1>1. none \in Seq(Entries) /\ DOMAIN none = {}
  OBVIOUS
<1> HIDE DEF none
<1>2. Listed(none, 0) /\ Distinct(none) /\ Ids(none) = {} /\ \A n \in Nat : Listed(none, n)
  BY <1>1 DEF Listed, Distinct, Ids
<1> QED
  BY <1>2 DEF none

LEMMA OneEntry ==
    ASSUME NEW c \in Entries, NEW n \in Int, c.id <= n
    PROVE  Listed(<<c>>, n) /\ Distinct(<<c>>) /\ Ids(<<c>>) = {c.id}
<1> DEFINE one == <<c>>
<1>1. one \in Seq(Entries) /\ DOMAIN one = {1} /\ one[1] = c
  OBVIOUS
<1> HIDE DEF one
<1>2. Listed(one, n) /\ Distinct(one) /\ Ids(one) = {c.id}
  BY <1>1 DEF Listed, Distinct, Ids
<1> QED
  BY <1>2 DEF one

LEMMA StillListed ==
    ASSUME NEW n \in Int, NEW m \in Int, n <= m, NEW list, Listed(list, n)
    PROVE  Listed(list, m)
<1>1. \A i \in DOMAIN list : list[i].id \in Int
  BY ListIs DEF Listed
<1> QED
  BY <1>1 DEF Listed

LEMMA ReplacedIs ==
    ASSUME NEW n \in Int, NEW list, Listed(list, n), Distinct(list), NEW c \in Entries, c.id <= n
    PROVE  /\ Listed(Replaced(list, c), n) /\ Distinct(Replaced(list, c))
           /\ Ids(Replaced(list, c)) = Ids(list) /\ DOMAIN Replaced(list, c) = DOMAIN list
<1> DEFINE u == Replaced(list, c)
<1>1. list \in Seq(Entries) /\ \A i \in DOMAIN list : list[i].id <= n
  BY DEF Listed
<1>2. Len(list) \in Nat /\ DOMAIN list = 1 .. Len(list) /\ \A i \in DOMAIN list : list[i] \in Entries
  BY <1>1, ListIs
<1>3. u = [i \in 1 .. Len(list) |-> IF list[i].id = c.id THEN c ELSE list[i]]
  BY <1>2 DEF Replaced
<1> HIDE DEF u
<1>4. u \in [1 .. Len(list) -> Entries] /\ \A i \in DOMAIN list : u[i].id = list[i].id
  BY <1>2, <1>3
<1>5. u \in Seq(Entries) /\ DOMAIN u = DOMAIN list
  BY <1>2, <1>4
<1>6. Listed(u, n) /\ Distinct(u) /\ Ids(u) = Ids(list)
  BY <1>1, <1>4, <1>5 DEF Listed, Distinct, Ids
<1> QED
  BY <1>5, <1>6 DEF u

LEMMA EntryAddedIs ==
    ASSUME NEW n \in Int, NEW list, Listed(list, n), Distinct(list), NEW c \in Entries, c.id = n + 1
    PROVE  /\ Listed(Append(list, c), n + 1) /\ Distinct(Append(list, c))
           /\ Ids(list) \subseteq Ids(Append(list, c))
<1> DEFINE u == Append(list, c)
<1>1. list \in Seq(Entries) /\ \A i \in DOMAIN list : list[i].id <= n
  BY DEF Listed
<1>2. Len(list) \in Nat /\ DOMAIN list = 1 .. Len(list) /\ \A i \in DOMAIN list : list[i].id \in Int
  BY <1>1, ListIs
<1>3. /\ u \in Seq(Entries) /\ Len(u) = Len(list) + 1
      /\ \A i \in 1 .. Len(list) : u[i] = list[i]
      /\ u[Len(list) + 1] = c
  BY <1>1, AppendProperties
<1> HIDE DEF u
<1>4. DOMAIN u = 1 .. Len(list) + 1
  BY <1>3, LenProperties
<1>5. \A i \in DOMAIN u : (i \in DOMAIN list /\ u[i] = list[i]) \/ (i = Len(list) + 1 /\ u[i].id = n + 1)
  BY <1>2, <1>3, <1>4
<1>6. Listed(u, n + 1)
  BY <1>1, <1>2, <1>3, <1>5 DEF Listed
<1>7. Distinct(u)
  <2>1. \A i \in DOMAIN list : list[i].id # n + 1
    BY <1>1, <1>2
  <2> QED
    BY <1>5, <2>1 DEF Distinct
<1>8. Ids(list) \subseteq Ids(u)
  BY <1>2, <1>3, <1>4 DEF Ids
<1> QED
  BY <1>6, <1>7, <1>8 DEF u

LEMMA RemovedIs ==
    ASSUME NEW n \in Int, NEW list, Listed(list, n), Distinct(list), NEW i \in DOMAIN list
    PROVE  Listed(RemoveAt(list, i), n) /\ Distinct(RemoveAt(list, i))
<1> DEFINE l == Len(list)
           u == RemoveAt(list, i)
           p == SubSeq(list, 1, i - 1)
           q == SubSeq(list, i + 1, l)
<1>1. list \in Seq(Entries) /\ \A j \in DOMAIN list : list[j].id <= n
  BY DEF Listed
<1>2. l \in Nat /\ DOMAIN list = 1 .. l /\ (\A j \in 1 .. l : list[j] \in Entries) /\ i \in 1 .. l
  BY <1>1, ListIs
<1>3. (\A j \in 1 .. i - 1 : list[j] \in Entries) /\ (\A j \in i + 1 .. l : list[j] \in Entries)
      /\ i - 1 \in Int /\ i + 1 \in Int /\ l \in Int /\ 1 \in Int
  BY <1>2
<1> HIDE DEF l
<1>4. /\ p \in Seq(Entries) /\ Len(p) = IF 1 <= i - 1 THEN i - 1 - 1 + 1 ELSE 0
      /\ \A j \in 1 .. i - 1 - 1 + 1 : p[j] = list[1 + j - 1]
  BY <1>3, SubSeqProperties
<1>5. /\ q \in Seq(Entries) /\ Len(q) = IF i + 1 <= l THEN l - (i + 1) + 1 ELSE 0
      /\ \A j \in 1 .. l - (i + 1) + 1 : q[j] = list[i + 1 + j - 1]
  BY <1>3, SubSeqProperties
<1>6. u = p \o q
  BY DEF RemoveAt, l
<1> HIDE DEF u, p, q
<1>7. /\ p \o q \in Seq(Entries) /\ Len(p \o q) = Len(p) + Len(q)
      /\ \A j \in 1 .. Len(p) + Len(q) : (p \o q)[j] = IF j <= Len(p) THEN p[j] ELSE q[j - Len(p)]
  BY <1>4, <1>5, ConcatProperties
<1>8. Len(p) = i - 1 /\ Len(q) = l - i
  BY <1>2, <1>4, <1>5
<1>9. u \in Seq(Entries) /\ DOMAIN u = 1 .. l - 1
  <2>1. u \in Seq(Entries) /\ Len(u) = l - 1
    BY <1>2, <1>6, <1>7, <1>8
  <2> QED
    BY <2>1, LenProperties
<1>10. ASSUME NEW j \in 1 .. l - 1
       PROVE  u[j] = list[IF j < i THEN j ELSE j + 1]
  <2>1. CASE j < i
    <3>1. j \in 1 .. Len(p) + Len(q) /\ j <= Len(p) /\ j \in 1 .. i - 1 - 1 + 1 /\ 1 + j - 1 = j
      BY <1>2, <1>8, <2>1
    <3> QED
      BY <1>4, <1>6, <1>7, <2>1, <3>1
  <2>2. CASE ~(j < i)
    <3>1. /\ j \in 1 .. Len(p) + Len(q) /\ ~(j <= Len(p)) /\ j - Len(p) \in 1 .. l - (i + 1) + 1
          /\ i + 1 + (j - Len(p)) - 1 = j + 1
      BY <1>2, <1>8, <2>2
    <3> QED
      BY <1>5, <1>6, <1>7, <2>2, <3>1
  <2> QED
    BY <2>1, <2>2
<1> DEFINE at(j) == IF j < i THEN j ELSE j + 1
<1>11. \A j \in DOMAIN u : at(j) \in DOMAIN list /\ u[j] = list[at(j)]
  BY <1>2, <1>9, <1>10
<1>12. \A j, k \in DOMAIN u : at(j) = at(k) => j = k
  BY <1>2, <1>9
<1> HIDE DEF at
<1>13. Listed(u, n) /\ Distinct(u)
  BY <1>1, <1>9, <1>11, <1>12 DEF Listed, Distinct
<1> QED
  BY <1>13 DEF u

\* What an import makes of two lists.
MergedList(list, more) ==
    LET both == list \o more IN Deduped(both, [i \in DOMAIN both |-> both[i].id])


\* Two lists become one, with the first of the entries of an id.
LEMMA MergedIs ==
    ASSUME NEW n \in Int, NEW list, Listed(list, n), NEW more, Listed(more, n),
           NEW u, u = MergedList(list, more)
    PROVE  Listed(u, n) /\ Distinct(u) /\ Ids(list) \subseteq Ids(u)
<1> DEFINE both == list \o more
           key  == [i \in DOMAIN both |-> both[i].id]
           is   == {i \in DOMAIN both : \A j \in 1 .. i - 1 : key[j] # key[i]}
<1>1. list \in Seq(Entries) /\ more \in Seq(Entries)
  BY DEF Listed
<1>2. /\ both \in Seq(Entries) /\ Len(both) = Len(list) + Len(more)
      /\ \A i \in 1 .. Len(list) + Len(more) :
            both[i] = IF i <= Len(list) THEN list[i] ELSE more[i - Len(list)]
  BY <1>1, ConcatProperties
<1>3. /\ Len(list) \in Nat /\ DOMAIN list = 1 .. Len(list)
      /\ Len(more) \in Nat /\ DOMAIN more = 1 .. Len(more)
      /\ DOMAIN both = 1 .. Len(both)
  BY <1>1, <1>2, ListIs
<1>4. \A i \in DOMAIN both : both[i].id <= n
  <2> SUFFICES ASSUME NEW i \in DOMAIN both PROVE both[i].id <= n
    OBVIOUS
  <2>1. CASE i <= Len(list)
    <3>1. both[i] = list[i] /\ i \in DOMAIN list
      BY <1>2, <1>3, <2>1
    <3> QED
      BY <3>1 DEF Listed
  <2>2. CASE ~(i <= Len(list))
    <3>1. both[i] = more[i - Len(list)] /\ i - Len(list) \in DOMAIN more
      BY <1>2, <1>3, <2>2
    <3> QED
      BY <3>1 DEF Listed
  <2> QED
    BY <2>1, <2>2
<1>5. u = Picked(both, is) /\ is \in SUBSET DOMAIN both
  BY DEF Deduped, MergedList
<1>6. \A i \in DOMAIN both : key[i] = both[i].id
  OBVIOUS
<1>7. \A i, j \in is : both[i].id = both[j].id => i = j
  <2> SUFFICES ASSUME NEW i \in is, NEW j \in is, i # j PROVE both[i].id # both[j].id
    OBVIOUS
  <2>1. i \in 1 .. Len(both) /\ j \in 1 .. Len(both)
    BY <1>3
  <2>2. j \in 1 .. i - 1 \/ i \in 1 .. j - 1
    BY <2>1
  <2> QED
    BY <1>3, <1>6, <2>1, <2>2
<1>8. ASSUME NEW i \in DOMAIN both PROVE \E j \in is : both[j].id = both[i].id
  <2> DEFINE same == {j \in DOMAIN both : both[j].id = both[i].id}
  <2>1. same \in SUBSET Nat /\ same # {}
    BY <1>2, <1>3
  <2>2. PICK m \in same : \A k \in same : m <= k
    BY <2>1, HasMin
  <2>3. \A j \in 1 .. m - 1 : j \in DOMAIN both /\ ~(m <= j)
    BY <1>2, <1>3
  <2>4. \A j \in 1 .. m - 1 : both[j].id # both[m].id
    BY <2>2, <2>3
  <2>5. m \in is
    BY <1>6, <2>3, <2>4
  <2> QED
    BY <2>5
<1> HIDE DEF is
<1>9. u \in Seq(Entries) /\ \E f : ComesFromList(f, u, both, is)
  BY <1>2, <1>5, PickedIs
<1>10. PICK f : ComesFromList(f, u, both, is)
  BY <1>9
<1>11. \A k \in DOMAIN u : f[k] \in is /\ f[k] \in DOMAIN both /\ u[k] = both[f[k]]
  BY <1>5, <1>10 DEF ComesFromList
<1>12. Listed(u, n)
  BY <1>4, <1>9, <1>11 DEF Listed
<1>13. Distinct(u)
  <2> SUFFICES ASSUME NEW j \in DOMAIN u, NEW k \in DOMAIN u, u[j].id = u[k].id PROVE j = k
    BY DEF Distinct
  <2>1. both[f[j]].id = both[f[k]].id
    BY <1>11
  <2>2. f[j] = f[k]
    BY <1>7, <1>11, <2>1
  <2> QED
    BY <1>10, <2>2 DEF ComesFromList
<1>14. Ids(list) \subseteq Ids(u)
  <2> SUFFICES ASSUME NEW i \in DOMAIN list PROVE list[i].id \in Ids(u)
    BY DEF Ids
  <2>1. i \in DOMAIN both /\ both[i] = list[i]
    BY <1>2, <1>3
  <2>2. PICK j \in is : both[j].id = list[i].id
    BY <1>8, <2>1
  <2>3. PICK k \in DOMAIN u : f[k] = j
    BY <1>10 DEF ComesFromList
  <2>4. u[k].id = list[i].id
    BY <1>11, <2>2, <2>3
  <2> QED
    BY <2>4 DEF Ids
<1> QED
  BY <1>12, <1>13, <1>14

LEMMA CountedOnce ==
    ASSUME NEW list, NEW n, Listed(list, n), Distinct(list)
    PROVE  Cardinality(Ids(list)) = Len(list)
<1> DEFINE f == [i \in 1 .. Len(list) |-> list[i].id]
<1>1. Len(list) \in Nat /\ DOMAIN list = 1 .. Len(list)
  BY ListIs DEF Listed
<1>2. \A i \in 1 .. Len(list) : f[i] \in Ids(list)
  BY <1>1 DEF Ids
<1>3. f \in [1 .. Len(list) -> Ids(list)]
  BY <1>2
<1>4. \A i, j \in 1 .. Len(list) : f[i] = f[j] => i = j
  BY <1>1 DEF Distinct
<1>5. \A id \in Ids(list) : \E i \in 1 .. Len(list) : f[i] = id
  BY <1>1 DEF Ids
<1> HIDE DEF f
<1>6. f \in Injection(1 .. Len(list), Ids(list)) /\ f \in Surjection(1 .. Len(list), Ids(list))
  BY <1>3, <1>4, <1>5, Fun_IsInj, Fun_IsSurj
<1>7. IsFiniteSet(1 .. Len(list))
      /\ Cardinality(1 .. Len(list)) = IF 1 > Len(list) THEN 0 ELSE Len(list) - 1 + 1
  BY <1>1, FS_Interval
<1>8. Cardinality(Ids(list)) = Cardinality(1 .. Len(list))
  BY <1>6, <1>7, FS_Surjection
<1> QED
  BY <1>1, <1>7, <1>8

\* An operation after which the conversations are still those of the library.
Keeps(ids) == LibraryInd' /\ ids \subseteq Ids(conversationList')

LEMMA Saving ==
    ASSUME LibraryInd, made' \in Nat, made <= made', folders' = folders, files' = files,
           NEW list, Listed(list, made'), Distinct(list),
           NEW one \in Entries, one.id <= made', Saves(list, one)
    PROVE  LibraryInd' /\ conversationList' = list
<1>1. /\ conversationList' = list /\ selectedConversation' = one
      /\ stored' = [stored EXCEPT !.history = list, !.selected = one]
  BY DEF Saves, Displays
<1>2. one # Nothing
  BY DEF Entries, Nothing
<1>3. stored \in Storage /\ list \in Seq(Entries)
  BY DEF LibraryInd, Listed
<1>4. stored' \in Storage /\ stored'.history = list /\ stored'.selected = one
  BY <1>1, <1>3 DEF Storage
<1>5. \A file \in files' : file \in LibraryFiles /\ Listed(file.history, made')
  BY StillListed DEF LibraryInd
<1> QED
  BY <1>1, <1>2, <1>4, <1>5 DEF LibraryInd

LEMMA SelectKeeps ==
    ASSUME LibraryInd, NEW i \in DOMAIN conversationList, HandleSelectConversation(i)
    PROVE  LibraryInd' /\ conversationList' = conversationList
<1> DEFINE c == conversationList[i]
<1>1. c \in Entries /\ c.id <= made
  BY ListIs DEF LibraryInd, Listed
<1>2. c # Nothing
  BY <1>1 DEF Entries, Nothing
<1>3. /\ selectedConversation' = c /\ stored' = [stored EXCEPT !.selected = c]
      /\ UNCHANGED <<conversationList, folders, files, made>>
  BY DEF HandleSelectConversation, Displays
<1> HIDE DEF c
<1>4. stored' \in Storage /\ stored'.history = stored.history /\ stored'.selected = c
  BY <1>1, <1>3 DEF Storage, LibraryInd
<1> QED
  BY <1>1, <1>2, <1>3, <1>4 DEF LibraryInd

LEMMA CreateFolderKeeps ==
    ASSUME LibraryInd, HandleCreateFolder
    PROVE  LibraryInd' /\ conversationList' = conversationList
<1>1. /\ made' = made + 1 /\ folders' = Append(folders, made')
      /\ stored' = [stored EXCEPT !.folders = folders']
      /\ UNCHANGED <<conversationList, selectedConversation, files>>
  BY DEF HandleCreateFolder, Makes
<1>2. made \in Nat /\ made' \in Nat /\ made <= made' /\ folders \in Seq(Int) /\ made' \in Int
  BY <1>1 DEF LibraryInd
<1>3. folders' \in Seq(Int)
  BY <1>1, <1>2, AppendProperties
<1>4. stored' \in Storage /\ stored'.history = stored.history /\ stored'.selected = stored.selected
  BY <1>1, <1>3 DEF Storage, LibraryInd
<1>5. Listed(conversationList, made') /\ \A file \in files : Listed(file.history, made')
  BY <1>2, StillListed DEF LibraryInd
<1>6. selectedConversation.id <= made' /\ (stored.selected \in Entries => stored.selected.id <= made')
  BY <1>2 DEF LibraryInd, Entries
<1> QED
  BY <1>1, <1>2, <1>3, <1>4, <1>5, <1>6 DEF LibraryInd

LEMMA DeleteFolderKeeps ==
    ASSUME LibraryInd, NEW f, HandleDeleteFolder(f)
    PROVE  LibraryInd' /\ Ids(conversationList) = Ids(conversationList')
<1> DEFINE list == conversationList
           u == conversationList'
<1>1. /\ folders' = Picked(folders, {i \in DOMAIN folders : folders[i] # f})
      /\ u = [i \in DOMAIN list |-> IF list[i].folder = f THEN [list[i] EXCEPT !.folder = None] ELSE list[i]]
      /\ stored' = [stored EXCEPT !.folders = folders', !.history = u]
      /\ UNCHANGED <<selectedConversation, files, made>>
  BY DEF HandleDeleteFolder
<1>2. list \in Seq(Entries) /\ folders \in Seq(Int) /\ (\A i \in DOMAIN list : list[i].id <= made)
      /\ Distinct(list)
  BY DEF LibraryInd, Listed
<1>3. folders' \in Seq(Int)
  <2>1. {i \in DOMAIN folders : folders[i] # f} \in SUBSET DOMAIN folders
    OBVIOUS
  <2> QED
    BY <1>1, <1>2, <2>1, PickedIs
<1>4. Len(list) \in Nat /\ DOMAIN list = 1 .. Len(list) /\ \A i \in DOMAIN list : list[i] \in Entries
  BY <1>2, ListIs
<1>5. \A c \in Entries : [c EXCEPT !.folder = None] \in Entries /\ [c EXCEPT !.folder = None].id = c.id
  BY DEF Entries, None
<1>6. u \in [1 .. Len(list) -> Entries] /\ \A i \in DOMAIN list : u[i].id = list[i].id
  BY <1>1, <1>4, <1>5
<1>7. u \in Seq(Entries) /\ DOMAIN u = DOMAIN list
  BY <1>4, <1>6
<1> HIDE DEF u, list
<1>8. Listed(u, made) /\ Distinct(u) /\ Ids(list) = Ids(u)
  BY <1>2, <1>6, <1>7 DEF Listed, Distinct, Ids
<1>9. stored' \in Storage /\ stored'.history = u /\ stored'.selected = stored.selected
  BY <1>1, <1>3, <1>7 DEF Storage, LibraryInd
<1> QED
  BY <1>1, <1>3, <1>8, <1>9 DEF LibraryInd, u, list

LEMMA NewConversationKeeps ==
    ASSUME LibraryInd, HandleNewConversation PROVE Keeps(Ids(conversationList))
<1>1. selectedConversation \in Entries /\ selectedConversation.id <= made /\ made \in Nat
      /\ Listed(conversationList, made) /\ Distinct(conversationList)
  BY DEF LibraryInd
<1>2. CASE selectedConversation.home
  <2> DEFINE c == [selectedConversation EXCEPT !.home = FALSE]
             list == Replaced(conversationList, c)
  <2>1. Saves(list, c) /\ UNCHANGED <<folders, files, made>>
    BY <1>2 DEF HandleNewConversation
  <2>2. c \in Entries /\ c.id <= made
    BY <1>1 DEF Entries
  <2> HIDE DEF c
  <2>3. Listed(list, made) /\ Distinct(list) /\ Ids(list) = Ids(conversationList)
    BY <1>1, <2>2, ReplacedIs
  <2> HIDE DEF list
  <2>4. made' \in Nat /\ made <= made' /\ made' = made
    BY <1>1, <2>1
  <2>5. LibraryInd' /\ conversationList' = list
    BY <2>1, <2>2, <2>3, <2>4, Saving
  <2> QED
    BY <2>3, <2>5 DEF Keeps
<1>3. CASE ~selectedConversation.home
  <2> DEFINE c == [id |-> made', folder |-> None, home |-> FALSE]
             list == Append(conversationList, c)
  <2>1. made' = made + 1 /\ Saves(list, c) /\ UNCHANGED <<folders, files>>
    BY <1>3 DEF HandleNewConversation, Makes
  <2>2. c \in Entries /\ c.id = made + 1
    BY <1>1, <2>1 DEF Entries, None
  <2> HIDE DEF c
  <2>3. Listed(list, made + 1) /\ Distinct(list) /\ Ids(conversationList) \subseteq Ids(list)
    BY <1>1, <2>2, EntryAddedIs
  <2> HIDE DEF list
  <2>4. made' \in Nat /\ made <= made' /\ c.id <= made'
    BY <1>1, <2>1, <2>2
  <2>5. LibraryInd' /\ conversationList' = list
    BY <2>1, <2>2, <2>3, <2>4, Saving
  <2> QED
    BY <2>3, <2>5 DEF Keeps
<1> QED
  BY <1>2, <1>3

LEMMA UpdateConversationKeeps ==
    ASSUME LibraryInd, NEW i \in DOMAIN conversationList, NEW f \in Int,
           HandleUpdateConversation(i, f)
    PROVE  Keeps(Ids(conversationList))
<1> DEFINE c == [conversationList[i] EXCEPT !.folder = f]
           list == Replaced(conversationList, c)
<1>1. made \in Nat /\ Listed(conversationList, made) /\ Distinct(conversationList)
      /\ conversationList[i] \in Entries /\ conversationList[i].id <= made
  BY ListIs DEF LibraryInd, Listed
<1>2. Saves(list, c) /\ UNCHANGED <<folders, files, made>>
  BY DEF HandleUpdateConversation
<1>3. c \in Entries /\ c.id <= made
  BY <1>1 DEF Entries
<1> HIDE DEF c
<1>4. Listed(list, made) /\ Distinct(list) /\ Ids(list) = Ids(conversationList)
  BY <1>1, <1>3, ReplacedIs
<1> HIDE DEF list
<1>5. made' \in Nat /\ made <= made' /\ made' = made
  BY <1>1, <1>2
<1>6. LibraryInd' /\ conversationList' = list
  BY <1>2, <1>3, <1>4, <1>5, Saving
<1> QED
  BY <1>4, <1>6 DEF Keeps

LEMMA SendOverSocketKeeps == ASSUME LibraryInd, SendOverSocket PROVE Keeps(Ids(conversationList))
<1> DEFINE c == [selectedConversation EXCEPT !.home = FALSE]
           list == Replaced(conversationList, c)
<1>1. made \in Nat /\ Listed(conversationList, made) /\ Distinct(conversationList)
      /\ selectedConversation \in Entries /\ selectedConversation.id <= made
  BY DEF LibraryInd
<1>2. Saves(list, c) /\ UNCHANGED <<folders, files, made>>
  BY DEF SendOverSocket
<1>3. c \in Entries /\ c.id <= made
  BY <1>1 DEF Entries
<1> HIDE DEF c
<1>4. Listed(list, made) /\ Distinct(list) /\ Ids(list) = Ids(conversationList)
  BY <1>1, <1>3, ReplacedIs
<1> HIDE DEF list
<1>5. made' \in Nat /\ made <= made' /\ made' = made
  BY <1>1, <1>2
<1>6. LibraryInd' /\ conversationList' = list
  BY <1>2, <1>3, <1>4, <1>5, Saving
<1> QED
  BY <1>4, <1>6 DEF Keeps

\* What a question over HTTP was sent with: the conversation it is answered in, and a list
\* of conversations that were made.
Coming(k) == stream[k].at \in {"fetching", "reading"}
HttpRecords == [at : {"idle", "fetching", "reading", "over"},
                conversation : Entries \cup {Nothing}, before : Seq(Entries)]
StreamsKnown ==
    /\ stream \in [HttpSends -> HttpRecords]
    /\ \A k \in HttpSends : Coming(k) =>
          /\ stream[k].conversation \in Entries /\ stream[k].conversation.id <= made
          /\ Listed(stream[k].before, made) /\ Distinct(stream[k].before)

LEMMA NoSends == NoStream \in HttpRecords /\ SendOver \in HttpRecords
<1> DEFINE none == <<>>
<1>1. none \in Seq(Entries)
  OBVIOUS
<1> HIDE DEF none
<1>2. [at |-> "idle", conversation |-> Nothing, before |-> none] \in HttpRecords
      /\ [at |-> "over", conversation |-> Nothing, before |-> none] \in HttpRecords
  BY <1>1 DEF HttpRecords
<1> QED
  BY <1>2 DEF NoStream, SendOver, none

LEMMA StreamsGoOn ==
    ASSUME StreamsKnown, made \in Nat, made' \in Nat, made <= made',
           stream' \in [HttpSends -> HttpRecords],
           \A k \in HttpSends : Coming(k)' => Coming(k) /\ stream'[k].conversation = stream[k].conversation
                                            /\ stream'[k].before = stream[k].before
    PROVE  StreamsKnown'
<1>1. made \in Int /\ made' \in Int
  OBVIOUS
<1>2. ASSUME NEW k \in HttpSends, Coming(k)'
      PROVE  /\ stream'[k].conversation \in Entries /\ stream'[k].conversation.id <= made'
             /\ Listed(stream'[k].before, made') /\ Distinct(stream'[k].before)
  <2>1. /\ stream[k].conversation \in Entries /\ stream[k].conversation.id <= made
        /\ Listed(stream[k].before, made) /\ Distinct(stream[k].before)
    BY <1>2 DEF StreamsKnown
  <2>2. Listed(stream[k].before, made')
    BY <1>1, <2>1, StillListed
  <2>3. stream[k].conversation.id <= made'
    BY <1>1, <2>1 DEF Entries
  <2> QED
    BY <1>2, <2>1, <2>2, <2>3
<1> QED
  BY <1>2 DEF StreamsKnown

LEMMA SendOverHttpKeeps ==
    ASSUME LibraryInd, StreamsKnown, NEW k \in HttpSends, SendOverHttp(k)
    PROVE  LibraryInd' /\ conversationList' = conversationList /\ StreamsKnown'
<1> DEFINE c == [selectedConversation EXCEPT !.home = FALSE]
<1>1. selectedConversation \in Entries /\ selectedConversation.id <= made
      /\ Listed(conversationList, made) /\ Distinct(conversationList)
  BY DEF LibraryInd
<1>2. c \in Entries /\ c.id <= made
  BY <1>1 DEF Entries
<1>3. /\ stream' = [stream EXCEPT ![k] =
            [at |-> "fetching", conversation |-> c, before |-> conversationList]]
      /\ selectedConversation' = c /\ UNCHANGED <<conversationList, folders, stored, files, made>>
  BY DEF SendOverHttp
<1> HIDE DEF c
<1>4. LibraryInd'
  BY <1>2, <1>3 DEF LibraryInd
<1>5. StreamsKnown'
  <2>1. stream' \in [HttpSends -> HttpRecords]
    BY <1>1, <1>2, <1>3 DEF StreamsKnown, HttpRecords, Listed
  <2>2. stream'[k].conversation = c /\ stream'[k].before = conversationList
        /\ \A j \in HttpSends \ {k} : stream'[j] = stream[j]
    BY <1>3 DEF StreamsKnown
  <2> QED
    BY <1>1, <1>2, <1>3, <2>1, <2>2 DEF StreamsKnown, Coming
<1> QED
  BY <1>3, <1>4, <1>5

\* Written over the list of now: what the list of then had is there.
LEMMA WritesKeep ==
    ASSUME LibraryInd, UNCHANGED <<folders, files, made>>,
           NEW list, Listed(list, made), Distinct(list), NEW c \in Entries, c.id <= made,
           Writes(list, c), selectedConversation' \in {selectedConversation, c}
    PROVE  LibraryInd'
<1>1. conversationList' = list /\ stored' = [stored EXCEPT !.history = list, !.selected = c]
  BY DEF Writes
<1>2. stored \in Storage /\ list \in Seq(Entries) /\ c # Nothing
  BY DEF LibraryInd, Listed, Entries, Nothing
<1>3. stored' \in Storage /\ stored'.history = list /\ stored'.selected = c
  BY <1>1, <1>2 DEF Storage
<1>4. selectedConversation' \in Entries /\ selectedConversation'.id <= made
  BY DEF LibraryInd
<1> QED
  BY <1>1, <1>2, <1>3, <1>4 DEF LibraryInd

AnswerStep(k) ==
    AnswerShows(k) \/ AnswerWritten(k) \/ AnswerIsError(k) \/ AnswerRefused(k) \/ AnswerBreaks(k)

LEMMA AnswerKeeps ==
    ASSUME LibraryInd, StreamsKnown, NEW k \in HttpSends, AnswerStep(k)
    PROVE  /\ LibraryInd' /\ StreamsKnown'
           /\ \/ conversationList' = conversationList
              \/ stream'[k] # stream[k] /\ Ids(stream[k].before) \subseteq Ids(conversationList')
<1> DEFINE c == stream[k].conversation
           before == stream[k].before
<1>1. Coming(k) /\ made' = made /\ made \in Nat /\ made \in Int /\ folders' = folders /\ files' = files
  BY DEF LibraryInd, AnswerStep, AnswerShows, AnswerWritten, AnswerIsError, AnswerRefused,
         AnswerBreaks, HttpSendEnds, Coming
<1>2. c \in Entries /\ c.id <= made /\ Listed(before, made) /\ Distinct(before)
  BY <1>1 DEF StreamsKnown
<1>3. \/ AnswerShows(k) /\ stream' = [stream EXCEPT ![k].at = "reading"]
      \/ stream' = [stream EXCEPT ![k] = SendOver]
  BY DEF AnswerStep, AnswerShows, AnswerWritten, AnswerIsError, AnswerRefused, AnswerBreaks,
         HttpSendEnds
<1>4. StreamsKnown'
  <2>1. stream' \in [HttpSends -> HttpRecords]
    <3>1. CASE stream' = [stream EXCEPT ![k] = SendOver]
      BY <3>1, NoSends DEF StreamsKnown
    <3>2. CASE stream' = [stream EXCEPT ![k].at = "reading"]
      BY <3>2 DEF StreamsKnown, HttpRecords
    <3> QED
      BY <1>3, <3>1, <3>2
  <2>2. CASE stream' = [stream EXCEPT ![k] = SendOver]
    <3>1. ~Coming(k)' /\ \A j \in HttpSends \ {k} : stream'[j] = stream[j]
      BY <2>2 DEF StreamsKnown, Coming, SendOver, NoStream
    <3>2. \A j \in HttpSends : Coming(j)' => Coming(j) /\ stream'[j].conversation = stream[j].conversation
                                                      /\ stream'[j].before = stream[j].before
      BY <3>1 DEF Coming
    <3> QED
      BY <1>1, <2>1, <3>2, StreamsGoOn
  <2>3. CASE stream' = [stream EXCEPT ![k].at = "reading"]
    <3>1. /\ stream'[k].conversation = stream[k].conversation /\ stream'[k].before = stream[k].before
          /\ \A j \in HttpSends \ {k} : stream'[j] = stream[j]
      BY <2>3 DEF StreamsKnown, HttpRecords
    <3>2. \A j \in HttpSends : Coming(j)' => Coming(j) /\ stream'[j].conversation = stream[j].conversation
                                                      /\ stream'[j].before = stream[j].before
      BY <1>1, <3>1 DEF Coming
    <3> QED
      BY <1>1, <2>1, <3>2, StreamsGoOn
  <2> QED
    BY <1>3, <2>2, <2>3
<1>5. stream' = [stream EXCEPT ![k] = SendOver] => stream'[k] # stream[k]
  BY <1>1 DEF StreamsKnown, Coming, SendOver, NoStream
<1>6. Listed(Replaced(before, c), made) /\ Distinct(Replaced(before, c))
      /\ Ids(Replaced(before, c)) = Ids(before)
  BY <1>1, <1>2, ReplacedIs
<1>7. CASE AnswerShows(k)
  <2>1. selectedConversation' = c /\ UNCHANGED <<conversationList, folders, stored, files, made>>
    BY <1>7 DEF AnswerShows, Displays
  <2> HIDE DEF c
  <2>2. LibraryInd'
    BY <1>2, <2>1 DEF LibraryInd
  <2> QED
    BY <1>4, <2>1, <2>2
<1>8. CASE AnswerWritten(k)
  <2> DEFINE one  == <<c>>
             list == IF before = <<>> THEN one ELSE Replaced(before, c)
  <2>1. Writes(list, c) /\ selectedConversation' = selectedConversation
        /\ stream' = [stream EXCEPT ![k] = SendOver]
    BY <1>8 DEF AnswerWritten, HttpSendEnds
  <2>2. Listed(one, made) /\ Distinct(one)
    BY <1>1, <1>2, OneEntry
  <2>3. before = <<>> => Ids(before) = {}
    BY NoEntries
  <2> HIDE DEF one
  <2>4. Listed(list, made) /\ Distinct(list) /\ Ids(before) \subseteq Ids(list)
    BY <1>6, <2>2, <2>3
  <2> HIDE DEF list, c, before
  <2>5. conversationList' = list
    BY <2>1 DEF Writes
  <2>6. LibraryInd'
    BY <1>1, <1>2, <2>1, <2>4, WritesKeep
  <2> QED
    BY <1>4, <1>5, <2>1, <2>4, <2>5, <2>6 DEF before
<1>9. CASE AnswerIsError(k)
  <2> DEFINE list == Replaced(before, c)
  <2>1. Writes(list, c) /\ selectedConversation' = c /\ stream' = [stream EXCEPT ![k] = SendOver]
    BY <1>9 DEF AnswerIsError, HttpSendEnds
  <2>2. Listed(list, made) /\ Distinct(list) /\ Ids(before) \subseteq Ids(list)
    BY <1>6
  <2> HIDE DEF list, c, before
  <2>3. conversationList' = list
    BY <2>1 DEF Writes
  <2>4. LibraryInd'
    BY <1>1, <1>2, <2>1, <2>2, WritesKeep
  <2> QED
    BY <1>4, <1>5, <2>1, <2>2, <2>3, <2>4 DEF before
<1>10. CASE AnswerRefused(k)
  <2>1. UNCHANGED <<conversationList, selectedConversation, stored, folders, files, made>>
    BY <1>10 DEF AnswerRefused, HttpSendEnds
  <2>2. LibraryInd'
    BY <2>1 DEF LibraryInd
  <2> QED
    BY <1>4, <2>1, <2>2
<1>11. CASE AnswerBreaks(k)
  <2>1. /\ UNCHANGED <<conversationList, selectedConversation, folders, files, made>>
        /\ stored' = [stored EXCEPT !.selected = c]
    BY <1>11 DEF AnswerBreaks, HttpSendEnds
  <2> HIDE DEF c
  <2>2. c # Nothing
    BY <1>2 DEF Entries, Nothing
  <2>3. stored' \in Storage /\ stored'.history = stored.history /\ stored'.selected = c
    BY <1>2, <2>1 DEF LibraryInd, Storage
  <2>4. LibraryInd'
    BY <1>2, <2>1, <2>2, <2>3 DEF LibraryInd
  <2> QED
    BY <1>4, <2>1, <2>4
<1> QED
  BY <1>7, <1>8, <1>9, <1>10, <1>11 DEF AnswerStep

LEMMA ExportKeeps ==
    ASSUME LibraryInd, ExportData PROVE LibraryInd' /\ conversationList' = conversationList
<1> DEFINE file == [version |-> 4, history |-> stored.history, folders |-> stored.folders]
<1>1. /\ files' = files \cup {file}
      /\ UNCHANGED <<conversationList, selectedConversation, folders, stored, made>>
  BY DEF ExportData
<1>2. file \in LibraryFiles /\ Listed(file.history, made)
  BY DEF LibraryInd, Storage, LibraryFiles
<1> HIDE DEF file
<1> QED
  BY <1>1, <1>2 DEF LibraryInd

LEMMA ReloadKeeps == ASSUME LibraryInd, ReloadLibrary PROVE Keeps(Ids(conversationList))
<1>1. /\ made \in Nat /\ stored \in Storage /\ stored.history = conversationList
      /\ folders' = stored.folders /\ files' = files
  BY DEF LibraryInd, ReloadLibrary
<1>2. stored.folders \in Seq(Int) /\ stored.selected \in Entries \cup {Nothing}
  BY <1>1 DEF Storage
<1>3. CASE stored.selected # Nothing
  <2>1. /\ conversationList' = conversationList /\ selectedConversation' = stored.selected
        /\ stored' = stored /\ made' = made
    BY <1>1, <1>3 DEF ReloadLibrary
  <2> QED
    BY <1>1, <1>2, <1>3, <2>1 DEF LibraryInd, Keeps
<1>4. CASE stored.selected = Nothing
  <2> DEFINE c == Homepage(made')
             one == <<c>>
  <2>1. /\ conversationList' = one /\ selectedConversation' = c
        /\ stored' = [stored EXCEPT !.history = one, !.selected = c] /\ made' = made + 1
    BY <1>4 DEF ReloadLibrary, Makes, Writes
  <2>2. made' \in Nat /\ made <= made' /\ made' \in Int /\ made \in Int
    BY <1>1, <2>1
  <2>3. c \in Entries /\ c.id = made'
    BY <1>1, <2>1 DEF Homepage, Entries, None
  <2> HIDE DEF c
  <2>4. c # Nothing /\ c.id <= made'
    BY <2>2, <2>3 DEF Entries, Nothing
  <2>5. Listed(one, made') /\ Distinct(one)
    BY <2>2, <2>3, <2>4, OneEntry
  <2> HIDE DEF one
  <2>6. one \in Seq(Entries)
    BY <2>5 DEF Listed
  <2>7. stored' \in Storage /\ stored'.history = one /\ stored'.selected = c
    BY <1>1, <2>1, <2>3, <2>6 DEF Storage
  <2>8. \A file \in files' : file \in LibraryFiles /\ Listed(file.history, made')
    BY <1>1, <2>2, StillListed DEF LibraryInd
  <2>9. LibraryInd'
    BY <1>1, <1>2, <2>1, <2>2, <2>3, <2>4, <2>5, <2>7, <2>8 DEF LibraryInd
  <2>10. Ids(conversationList) = {}
    BY <1>4 DEF LibraryInd
  <2> QED
    BY <2>9, <2>10 DEF Keeps
<1> QED
  BY <1>3, <1>4

LEMMA FileIs ==
    ASSUME LibraryInd, NEW file \in files \cup OldFiles
    PROVE  /\ CleanData(file).history \in Seq(Entries) /\ CleanData(file).folders \in Seq(Int)
           /\ Listed(CleanData(file).history, made)
<1>1. file \in LibraryFiles /\ Listed(file.history, made)
  <2>1. CASE file \in files
    BY <2>1 DEF LibraryInd
  <2>2. CASE file \in OldFiles
    <3>1. made \in Int /\ 0 - 1 <= made
      BY DEF LibraryInd
    <3>2. \A f \in Int : OldConversation(f) \in Entries /\ OldConversation(f).id = 0 - 1
      BY DEF OldConversation, Entries, None
    <3>3. ASSUME NEW f \in Int PROVE Listed(<<OldConversation(f)>>, made)
      BY <3>1, <3>2, OneEntry
    <3>4. PICK f \in Int, v \in 1 .. 4, fs \in Seq(Int) :
             file = [version |-> v, history |-> <<OldConversation(f)>>, folders |-> fs]
      <4> DEFINE none == <<>>
                 two  == <<0 - 1>>
                 three == <<0 - 2>>
      <4>1. none \in Seq(Int) /\ two \in Seq(Int) /\ three \in Seq(Int)
        OBVIOUS
      <4>2. \/ file = [version |-> 1, history |-> <<OldConversation(None)>>, folders |-> none]
            \/ file = [version |-> 2, history |-> <<OldConversation(0 - 1)>>, folders |-> two]
            \/ file = [version |-> 3, history |-> <<OldConversation(0 - 2)>>, folders |-> three]
        BY <2>2 DEF OldFiles
      <4> HIDE DEF none, two, three
      <4>3. None \in Int /\ 0 - 1 \in Int /\ 0 - 2 \in Int /\ 1 \in 1 .. 4 /\ 2 \in 1 .. 4 /\ 3 \in 1 .. 4
        BY DEF None
      <4> QED
        BY <4>1, <4>2, <4>3
    <3> DEFINE h == <<OldConversation(f)>>
    <3>5. Listed(h, made)
      BY <3>3
    <3> HIDE DEF h
    <3>6. h \in Seq(Entries)
      BY <3>5 DEF Listed
    <3>7. file = [version |-> v, history |-> h, folders |-> fs]
      BY <3>4 DEF h
    <3> QED
      BY <3>5, <3>6, <3>7 DEF LibraryFiles
  <2> QED
    BY <2>1, <2>2
<1>2. CASE file.version = 2
  <2> DEFINE fs == [i \in DOMAIN file.folders |-> file.folders[i] - 1]
  <2>1. CleanData(file) = [file EXCEPT !.folders = fs]
    BY <1>2 DEF CleanData
  <2>2. file.folders \in Seq(Int)
    BY <1>1 DEF LibraryFiles
  <2>3. Len(file.folders) \in Nat /\ DOMAIN file.folders = 1 .. Len(file.folders)
        /\ \A i \in 1 .. Len(file.folders) : file.folders[i] \in Int
    BY <2>2, LenProperties, ElementOfSeq
  <2>4. fs \in [1 .. Len(file.folders) -> Int]
    BY <2>3
  <2>5. fs \in Seq(Int)
    BY <2>3, <2>4
  <2> HIDE DEF fs
  <2>6. CleanData(file).history = file.history /\ CleanData(file).folders = fs
    BY <1>1, <2>1 DEF LibraryFiles
  <2> QED
    BY <1>1, <2>5, <2>6 DEF LibraryFiles
<1>3. CASE file.version # 2
  <2>1. CleanData(file) = file
    BY <1>3 DEF CleanData
  <2> QED
    BY <1>1, <2>1 DEF LibraryFiles
<1> QED
  BY <1>2, <1>3

LEMMA ImportKeeps ==
    ASSUME LibraryInd, NEW file \in files \cup OldFiles, ImportData(file)
    PROVE  Keeps(Ids(conversationList))
<1> DEFINE data    == CleanData(file)
           both    == stored.history \o data.history
           key     == [i \in DOMAIN both |-> both[i].id]
           joined == Deduped(both, key)
           all     == stored.folders \o data.folders
           merged  == Deduped(all, all)
<1>1. /\ made \in Nat /\ made \in Int /\ stored \in Storage /\ stored.history = conversationList
      /\ Listed(stored.history, made)
  BY DEF LibraryInd
<1>2. Listed(data.history, made) /\ data.folders \in Seq(Int)
  BY FileIs
<1>3. /\ folders' = merged
      /\ IF joined # <<>>
           THEN /\ conversationList' = joined /\ selectedConversation' = Last(joined)
                /\ UNCHANGED made
           ELSE /\ made' = made + 1 /\ selectedConversation' = Homepage(made')
                /\ conversationList' = <<Homepage(made')>>
      /\ stored' = [history |-> conversationList', selected |-> selectedConversation', folders |-> merged]
      /\ files' = files
  BY DEF ImportData, Makes
<1>4. merged \in Seq(Int)
  <2>1. stored.folders \in Seq(Int)
    BY <1>1 DEF Storage
  <2> HIDE DEF data
  <2>2. all \in Seq(Int)
    BY <1>2, <2>1, ConcatProperties
  <2> DEFINE is == {i \in DOMAIN all : \A j \in 1 .. i - 1 : all[j] # all[i]}
  <2>3. merged = Picked(all, is) /\ is \in SUBSET DOMAIN all
    BY DEF Deduped
  <2> HIDE DEF merged, all, is
  <2> QED
    BY <2>2, <2>3, PickedIs
<1>5. Listed(joined, made) /\ Distinct(joined) /\ Ids(stored.history) \subseteq Ids(joined)
  <2> HIDE DEF data
  <2>1. joined = MergedList(stored.history, data.history)
    BY DEF MergedList
  <2> HIDE DEF joined, both, key
  <2> QED
    BY <1>1, <1>2, <2>1, MergedIs
<1> HIDE DEF data, both, joined, all, merged, key
<1>6. SUFFICES /\ made' \in Nat /\ made <= made'
               /\ Listed(conversationList', made') /\ Distinct(conversationList')
               /\ selectedConversation' \in Entries /\ selectedConversation'.id <= made'
               /\ Ids(conversationList) \subseteq Ids(conversationList')
  <2>1. ASSUME /\ made' \in Nat /\ made <= made'
               /\ Listed(conversationList', made') /\ Distinct(conversationList')
               /\ selectedConversation' \in Entries /\ selectedConversation'.id <= made'
        PROVE  LibraryInd'
    <3>1. stored' \in Storage /\ stored'.history = conversationList' /\ stored'.selected = selectedConversation'
      BY <1>3, <1>4, <2>1 DEF Storage, Listed
    <3>2. selectedConversation' # Nothing
      BY <2>1 DEF Entries, Nothing
    <3>3. \A f \in files' : f \in LibraryFiles /\ Listed(f.history, made')
      BY <1>1, <1>3, <2>1, StillListed DEF LibraryInd
    <3> QED
      BY <1>3, <1>4, <2>1, <3>1, <3>2, <3>3 DEF LibraryInd
  <2> QED
    BY <2>1 DEF Keeps
<1>7. CASE joined # <<>>
  <2>1. conversationList' = joined /\ selectedConversation' = Last(joined) /\ made' = made
    BY <1>3, <1>7
  <2>2. joined \in Seq(Entries)
    BY <1>5 DEF Listed
  <2>3. Len(joined) \in Nat /\ Len(joined) # 0 /\ DOMAIN joined = 1 .. Len(joined)
    BY <1>7, <2>2, LenProperties, EmptySeq
  <2>4. Len(joined) \in DOMAIN joined
    BY <2>3
  <2>5. Last(joined) \in Entries /\ Last(joined).id <= made
    BY <1>5, <2>2, <2>4, ListIs DEF Last, Listed
  <2> QED
    BY <1>1, <1>5, <2>1, <2>5
<1>8. CASE joined = <<>>
  <2> DEFINE c == Homepage(made')
             one == <<c>>
  <2>1. conversationList' = one /\ selectedConversation' = c /\ made' = made + 1
    BY <1>3, <1>8
  <2>2. made' \in Nat /\ made <= made' /\ made' \in Int
    BY <1>1, <2>1
  <2>3. c \in Entries /\ c.id = made'
    BY <1>1, <2>1 DEF Homepage, Entries, None
  <2> HIDE DEF c
  <2>4. c.id <= made'
    BY <2>2, <2>3
  <2>5. Listed(one, made') /\ Distinct(one)
    BY <2>2, <2>3, <2>4, OneEntry
  <2> HIDE DEF one
  <2>6. Ids(joined) = {}
    BY <1>8, NoEntries
  <2> QED
    BY <1>1, <1>5, <2>1, <2>2, <2>3, <2>4, <2>5, <2>6
<1> QED
  BY <1>7, <1>8

\* The conversation made when no other is left.
LEMMA FreshIs ==
    ASSUME NEW n \in Int, n # 0, NEW c, c = [Nothing EXCEPT !.id = n]
    PROVE  c \in Entries /\ c.id = n
<1>1. Nothing \in [id : Int, folder : Int, home : BOOLEAN] /\ Nothing.folder = None /\ Nothing.home = FALSE
  BY DEF Nothing, None
<1>2. c \in [id : Int, folder : Int, home : BOOLEAN] /\ c.id = n
  BY <1>1
<1> QED
  BY <1>2 DEF Entries, None

LEMMA DeleteKeeps ==
    ASSUME LibraryInd, NEW i \in DOMAIN conversationList, HandleDeleteConversation(i)
    PROVE  LibraryInd'
<1> DEFINE list == RemoveAt(conversationList, i)
<1>1. /\ made \in Nat /\ made \in Int /\ stored \in Storage /\ folders \in Seq(Int)
      /\ Listed(conversationList, made) /\ Distinct(conversationList)
  BY DEF LibraryInd
<1>2. /\ conversationList' = list /\ folders' = folders /\ files' = files
      /\ IF list # <<>>
           THEN /\ selectedConversation' = Last(list) /\ made' = made
                /\ stored' = [stored EXCEPT !.history = list, !.selected = Last(list)]
           ELSE /\ made' = made + 1 /\ selectedConversation' = [Nothing EXCEPT !.id = made']
                /\ stored' = [stored EXCEPT !.history = list, !.selected = Nothing]
  BY DEF HandleDeleteConversation, Makes, Displays
<1>3. Listed(list, made) /\ Distinct(list)
  BY <1>1, RemovedIs
<1> HIDE DEF list
<1>4. list \in Seq(Entries)
  BY <1>3 DEF Listed
<1>5. CASE list # <<>>
  <2> DEFINE c == Last(list)
  <2>1. Len(list) \in Nat /\ Len(list) # 0 /\ DOMAIN list = 1 .. Len(list)
    BY <1>4, <1>5, LenProperties, EmptySeq
  <2>2. Len(list) \in DOMAIN list
    BY <2>1
  <2>3. c \in Entries /\ c.id <= made
    BY <1>3, <1>4, <2>2, ListIs DEF Last, Listed
  <2>4. selectedConversation' = c /\ made' = made
        /\ stored' = [stored EXCEPT !.history = list, !.selected = c]
    BY <1>2, <1>5
  <2> HIDE DEF c
  <2>5. stored' \in Storage /\ stored'.history = list /\ stored'.selected = c /\ c # Nothing
    <3>1. c # Nothing
      BY <2>3 DEF Entries, Nothing
    <3> QED
      BY <1>1, <1>4, <2>3, <2>4, <3>1 DEF Storage
  <2> QED
    BY <1>1, <1>2, <1>3, <2>3, <2>4, <2>5 DEF LibraryInd
<1>6. CASE list = <<>>
  <2> DEFINE c == [Nothing EXCEPT !.id = made']
  <2>1. selectedConversation' = c /\ made' = made + 1
        /\ stored' = [stored EXCEPT !.history = list, !.selected = Nothing]
    BY <1>2, <1>6
  <2>2. made' \in Nat /\ made <= made' /\ made' \in Int /\ made' # 0
    BY <1>1, <2>1
  <2>3. c = [Nothing EXCEPT !.id = made']
    OBVIOUS
  <2> HIDE DEF c
  <2>8. c \in Entries /\ c.id = made'
    BY <2>2, <2>3, FreshIs
  <2>4. stored' \in Storage /\ stored'.history = list /\ stored'.selected = Nothing
    BY <1>1, <1>4, <2>1 DEF Storage
  <2>5. Nothing \notin Entries
    BY DEF Nothing, Entries
  <2>6. Listed(list, made') /\ Ids(list) = {} /\ \A f \in files' : f \in LibraryFiles /\ Listed(f.history, made')
    BY <1>1, <1>2, <1>3, <1>6, <2>2, StillListed, NoEntries DEF LibraryInd
  <2>7. c.id <= made'
    BY <2>2, <2>8
  <2> QED
    BY <1>1, <1>2, <1>3, <2>1, <2>2, <2>8, <2>4, <2>5, <2>6, <2>7 DEF LibraryInd
<1> QED
  BY <1>5, <1>6

LEMMA ClearKeeps == ASSUME LibraryInd, HandleClearConversations PROVE LibraryInd'
<1> DEFINE c == [Nothing EXCEPT !.id = made']
           none == <<>>
<1>1. /\ made \in Nat /\ made \in Int /\ made' = made + 1 /\ conversationList' = none
      /\ selectedConversation' = c /\ folders' = none /\ files' = files
      /\ stored' = [history |-> none, selected |-> Nothing, folders |-> none]
  BY DEF HandleClearConversations, Makes, Displays, LibraryInd
<1>2. none \in Seq(Entries) /\ none \in Seq(Int)
  OBVIOUS
<1>3. made' \in Nat /\ made <= made' /\ made' \in Int /\ made' # 0
  BY <1>1
<1>4. c \in Entries /\ c.id = made'
  <2>1. c = [Nothing EXCEPT !.id = made']
    OBVIOUS
  <2> HIDE DEF c
  <2> QED
    BY <1>3, <2>1, FreshIs
<1>5. Listed(none, made') /\ Distinct(none) /\ Ids(none) = {}
  BY <1>3, NoEntries
<1> HIDE DEF c, none
<1>6. stored' \in Storage /\ stored'.history = none /\ stored'.selected = Nothing
  BY <1>1, <1>2 DEF Storage
<1>7. Nothing \notin Entries
  BY DEF Nothing, Entries
<1>8. \A f \in files' : f \in LibraryFiles /\ Listed(f.history, made')
  BY <1>1, <1>3, StillListed DEF LibraryInd
<1>9. c.id <= made'
  BY <1>3, <1>4
<1> QED
  BY <1>1, <1>2, <1>3, <1>4, <1>5, <1>6, <1>7, <1>8, <1>9 DEF LibraryInd

UserStep ==
    \/ HandleCreateFolder \/ HandleNewConversation \/ SendOverSocket \/ ExportData \/ ReloadLibrary
    \/ \E i \in DOMAIN folders : HandleDeleteFolder(folders[i])
    \/ \E i \in DOMAIN conversationList :
          \/ HandleSelectConversation(i)
          \/ HandleRename(i)
          \/ \E f \in {None} \cup Range(folders) : HandleDrop(i, f)
    \/ \E file \in files \cup OldFiles : ImportData(file)
RemovalStep == HandleClearConversations \/ \E i \in DOMAIN conversationList : HandleDeleteConversation(i)

\* Of the answers that stream, the user's steps end all or leave them.
Leaves == (stream' = stream \/ PageLoads) /\ (made' = made \/ made' = made + 1)

LEMMA UserLeaves == ASSUME UserStep \/ RemovalStep PROVE Leaves
<1>1. CASE HandleCreateFolder \/ ExportData
  BY <1>1 DEF HandleCreateFolder, ExportData, Makes, streamVars, Leaves
<1>2. CASE HandleNewConversation \/ SendOverSocket
  BY <1>2 DEF HandleNewConversation, SendOverSocket, Makes, Leaves
<1>3. CASE ReloadLibrary
  BY <1>3 DEF ReloadLibrary, Makes, Leaves
<1>4. ASSUME NEW i, HandleDeleteFolder(folders[i]) \/ HandleSelectConversation(i) PROVE Leaves
  BY <1>4 DEF HandleDeleteFolder, HandleSelectConversation, streamVars, Leaves
<1>5. ASSUME NEW i, NEW f, HandleRename(i) \/ HandleDrop(i, f) PROVE Leaves
  BY <1>5 DEF HandleRename, HandleDrop, HandleUpdateConversation, Leaves
<1>6. ASSUME NEW file, ImportData(file) PROVE Leaves
  <2>1. PageLoads /\ (made' = made \/ Makes)
    BY <1>6 DEF ImportData
  <2> QED
    BY <2>1 DEF Makes, Leaves
<1>7. ASSUME NEW i, HandleDeleteConversation(i) PROVE Leaves
  <2>1. stream' = stream /\ (made' = made \/ Makes)
    BY <1>7 DEF HandleDeleteConversation
  <2> QED
    BY <2>1 DEF Makes, Leaves
<1>8. CASE HandleClearConversations
  BY <1>8 DEF HandleClearConversations, Makes, Leaves
<1> QED
  BY <1>1, <1>2, <1>3, <1>4, <1>5, <1>6, <1>7, <1>8 DEF UserStep, RemovalStep

LEMMA UserStreamsKnown ==
    ASSUME StreamsKnown, made \in Nat, UserStep \/ RemovalStep
    PROVE  StreamsKnown'
<1>1. made' \in Nat /\ made <= made'
  BY UserLeaves DEF Leaves
<1>2. CASE stream' = stream
  <2>1. stream' \in [HttpSends -> HttpRecords]
    BY <1>2 DEF StreamsKnown
  <2>2. \A k \in HttpSends : Coming(k)' => Coming(k) /\ stream'[k].conversation = stream[k].conversation
                                                    /\ stream'[k].before = stream[k].before
    BY <1>2 DEF Coming
  <2> QED
    BY <1>1, <2>1, <2>2, StreamsGoOn
<1>3. CASE PageLoads
  <2>1. stream' = [k \in HttpSends |-> IF stream[k].at = "idle" THEN NoStream ELSE SendOver]
    BY <1>3 DEF PageLoads
  <2>2. stream' \in [HttpSends -> HttpRecords]
    BY <2>1, NoSends
  <2>3. \A k \in HttpSends : ~Coming(k)'
    BY <2>1 DEF Coming, NoStream, SendOver
  <2> QED
    BY <1>1, <2>2, <2>3, StreamsGoOn
<1> QED
  BY <1>2, <1>3, UserLeaves DEF Leaves

LEMMA UserKeeps == ASSUME LibraryInd, UserStep PROVE Keeps(Ids(conversationList))
<1>1. /\ \A i \in DOMAIN conversationList : conversationList[i].folder \in Int
      /\ {None} \cup Range(folders) \subseteq Int
  <2>1. \A i \in DOMAIN conversationList : conversationList[i] \in Entries
    BY ListIs DEF LibraryInd, Listed
  <2>2. \A i \in DOMAIN folders : folders[i] \in Int
    <3>1. folders \in Seq(Int)
      BY DEF LibraryInd
    <3> QED
      BY <3>1, LenProperties, ElementOfSeq
  <2> QED
    BY <2>1, <2>2 DEF Entries, None, Range
<1>2. ASSUME NEW i \in DOMAIN conversationList, NEW f \in {None} \cup Range(folders), HandleDrop(i, f)
      PROVE  Keeps(Ids(conversationList))
  BY <1>1, <1>2, UpdateConversationKeeps DEF HandleDrop
<1>3. ASSUME NEW i \in DOMAIN conversationList, HandleRename(i) PROVE Keeps(Ids(conversationList))
  BY <1>1, <1>3, UpdateConversationKeeps DEF HandleRename
<1>4. ASSUME NEW i \in DOMAIN conversationList, HandleSelectConversation(i)
      PROVE  Keeps(Ids(conversationList))
  BY <1>4, SelectKeeps DEF Keeps
<1>5. ASSUME NEW i \in DOMAIN folders, HandleDeleteFolder(folders[i]) PROVE Keeps(Ids(conversationList))
  BY <1>5, DeleteFolderKeeps DEF Keeps
<1>6. ASSUME HandleCreateFolder \/ ExportData PROVE Keeps(Ids(conversationList))
  BY <1>6, CreateFolderKeeps, ExportKeeps DEF Keeps
<1> QED
  BY <1>2, <1>3, <1>4, <1>5, <1>6, NewConversationKeeps, SendOverSocketKeeps, ReloadKeeps,
     ImportKeeps DEF UserStep

Allowed ==
    \/ GoneIds = {} \/ lastStep' = "removal"
    \/ /\ lastStep' = "answer"
       /\ \E k \in HttpSends : stream'[k] # stream[k] /\ GoneIds \cap Ids(stream[k].before) = {}

LEMMA LibraryKeeps ==
    ASSUME LibraryInd, StreamsKnown, LibraryNext
    PROVE  LibraryInd' /\ StreamsKnown' /\ Allowed
<1>0. made \in Nat
  BY DEF LibraryInd
<1>1. CASE UserStep
  <2>1. Keeps(Ids(conversationList)) /\ StreamsKnown'
    BY <1>0, <1>1, UserKeeps, UserStreamsKnown
  <2> QED
    BY <2>1 DEF Keeps, Allowed, GoneIds
<1>2. CASE \E k \in HttpSends : SendOverHttp(k)
  <2>1. LibraryInd' /\ StreamsKnown' /\ conversationList' = conversationList
    BY <1>2, SendOverHttpKeeps
  <2> QED
    BY <2>1 DEF Allowed, GoneIds
<1>3. CASE lastStep' = "removal" /\ RemovalStep
  <2>1. LibraryInd' /\ StreamsKnown'
    BY <1>0, <1>3, ClearKeeps, DeleteKeeps, UserStreamsKnown DEF RemovalStep
  <2> QED
    BY <1>3, <2>1 DEF Allowed
<1>4. ASSUME NEW k \in HttpSends, AnswerStep(k), lastStep' = "answer"
      PROVE  LibraryInd' /\ StreamsKnown' /\ Allowed
  <2>1. /\ LibraryInd' /\ StreamsKnown'
        /\ \/ conversationList' = conversationList
           \/ stream'[k] # stream[k] /\ Ids(stream[k].before) \subseteq Ids(conversationList')
    BY <1>4, AnswerKeeps
  <2>2. Allowed
    BY <1>4, <2>1 DEF Allowed, GoneIds
  <2> QED
    BY <2>1, <2>2
<1>5. \/ UserStep \/ (\E k \in HttpSends : SendOverHttp(k)) \/ (lastStep' = "removal" /\ RemovalStep)
      \/ \E k \in HttpSends : AnswerStep(k) /\ lastStep' = "answer"
  BY DEF LibraryNext, UserStep, RemovalStep, AnswerStep
<1> QED
  BY <1>1, <1>2, <1>3, <1>4, <1>5

(* Of the conversations of the legacy UI only a deletion, of one or of all, takes any out *)
(* of the list, or the end of an answer over HTTP one that was begun after its question,  *)
(* and none is in it twice (NothingLost): a reload, which takes what sessionStorage       *)
(* holds, and an import, which joins it with what a file holds, keep them all, for any    *)
(* number of conversations, folders, exports, operations and answers under way.           *)
THEOREM ConversationsAreKept == LibrarySpec => NothingLost
<1>1. LibraryInit => LibraryInd
  <2> SUFFICES ASSUME LibraryInit PROVE LibraryInd
    OBVIOUS
  <2> DEFINE c == Homepage(1)
             one == <<c>>
             none == <<>>
  <2>1. c \in Entries /\ c.id = 1 /\ c.id <= 1 /\ 1 \in Int
    BY DEF Homepage, Entries, None
  <2>2. /\ conversationList = one /\ selectedConversation = c /\ folders = none /\ files = {} /\ made = 1
        /\ stored = [history |-> one, selected |-> c, folders |-> none]
    BY DEF LibraryInit
  <2>3. none \in Seq(Int)
    OBVIOUS
  <2> HIDE DEF c, none
  <2>4. Listed(one, 1) /\ Distinct(one)
    BY <2>1, OneEntry
  <2> HIDE DEF one
  <2>5. stored \in Storage /\ stored.history = one /\ stored.selected = c /\ c # Nothing
    BY <2>1, <2>2, <2>3, <2>4 DEF Storage, Listed, Entries, Nothing
  <2> QED
    BY <2>1, <2>2, <2>3, <2>4, <2>5 DEF LibraryInd
<1>2. LibraryInit => StreamsKnown
  BY NoSends DEF LibraryInit, StreamsKnown, Coming, NoStream
<1>3. LibraryInd /\ StreamsKnown /\ [LibraryNext]_libraryVars => LibraryInd' /\ StreamsKnown'
  <2>1. ASSUME LibraryInd, StreamsKnown, UNCHANGED libraryVars PROVE LibraryInd' /\ StreamsKnown'
    <3>1. LibraryInd'
      BY <2>1 DEF LibraryInd, Ids, libraryVars
    <3>2. StreamsKnown'
      BY <2>1 DEF StreamsKnown, Coming, libraryVars, streamVars
    <3> QED
      BY <3>1, <3>2
  <2> QED
    BY <2>1, LibraryKeeps
<1>4. LibraryInd /\ StreamsKnown /\ LibraryInd' /\ [LibraryNext]_libraryVars
         => [/\ \/ GoneIds = {} \/ lastStep' = "removal"
                \/ /\ lastStep' = "answer"
                   /\ \E k \in HttpSends : stream'[k] # stream[k] /\ GoneIds \cap Ids(stream[k].before) = {}
             /\ Cardinality(Ids(conversationList')) = Len(conversationList')]_libraryVars
  <2>1. LibraryInd' => Cardinality(Ids(conversationList')) = Len(conversationList')
    BY CountedOnce DEF LibraryInd
  <2> QED
    BY <2>1, LibraryKeeps DEF Allowed
<1> QED
  BY <1>1, <1>2, <1>3, <1>4, PTL DEF LibrarySpec, NothingLost

----------------------------------------------------------------------------
(***************************************************************************)
(* EveryPieceOnce for answers of any length, contents replaced any number  *)
(* of times and any limit of the bypass.  What is shown, what is queued    *)
(* and the remainder are three parts of the text that was consumed (Whole):*)
(* a frame moves the head of the queue, the end of the stream the          *)
(* remainder, and new text goes behind the remainder, to what is shown or  *)
(* to the queue, so that lengths and pieces of the parts always add up.    *)
(***************************************************************************)

Text == Nat \X Nat \X BOOLEAN

Hooks == [shown : Seq(Text), drained : BOOLEAN, queue : Seq(Text), remainder : Seq(Text),
          consumed : Seq(Text)]

\* The lengths of three parts of a text, and its length.
Lengths(a, b, c, t) == a \in Nat /\ b \in Nat /\ c \in Nat /\ a + b + c = t

Whole(h) ==
    /\ h \in Hooks
    /\ Lengths(Len(h.shown), Len(h.queue), Len(h.remainder), Len(h.consumed))
    /\ ToSet(h.shown) \cup ToSet(h.queue) \cup ToSet(h.remainder) = ToSet(h.consumed)

TypeInd ==
    /\ content \in Seq(Text) /\ generation \in Nat
    /\ Whole(hook)

\* Lengths of three parts and their sum, when the head of the second goes to the first, the
\* third to the second, and when d more come to the first or to the others.
LEMMA HeadMoves ==
    ASSUME NEW a, NEW b, NEW c, NEW t, Lengths(a, b, c, t), NEW m \in Nat, NEW w \in Nat, m + w = b
    PROVE  Lengths(a + m, w, c, t)
BY DEF Lengths

LEMMA RestMoves ==
    ASSUME NEW a, NEW b, NEW c, NEW t, Lengths(a, b, c, t)
    PROVE  Lengths(a, b + c, 0, t)
BY DEF Lengths

LEMMA MoreToFirst ==
    ASSUME NEW a, NEW b, NEW c, NEW t, Lengths(a, b, c, t), NEW d \in Nat
    PROVE  Lengths(a + (c + d), b, 0, t + d)
BY DEF Lengths

LEMMA MoreToOthers ==
    ASSUME NEW a, NEW b, NEW c, NEW t, Lengths(a, b, c, t), NEW d \in Nat,
           NEW m \in Nat, NEW w \in Nat, m + w = c + d
    PROVE  Lengths(a, b + m, w, t + d)
BY DEF Lengths

\* The pieces of two texts that are joined.
LEMMA JoinedPieces ==
    ASSUME NEW s \in Seq(Text), NEW t \in Seq(Text)
    PROVE  /\ s \o t \in Seq(Text) /\ Len(s \o t) = Len(s) + Len(t)
           /\ ToSet(s \o t) = ToSet(s) \cup ToSet(t)
<1>1. s \o t \in Seq(Text) /\ Len(s \o t) = Len(s) + Len(t)
  OBVIOUS
<1>2. ToSet(s) = Range(s) /\ ToSet(t) = Range(t) /\ ToSet(s \o t) = Range(s \o t)
  BY DEF ToSet, Range
<1>3. Range(s \o t) = Range(s) \cup Range(t)
  BY RangeConcatenation
<1> QED
  BY <1>1, <1>2, <1>3

\* A text that is cut at a place has the pieces of both parts.
LEMMA CutText ==
    ASSUME NEW s \in Seq(Text), NEW k \in 0 .. Len(s)
    PROVE  LET head == SubSeq(s, 1, k)  tail == SubSeq(s, k + 1, Len(s))
           IN  /\ head \in Seq(Text) /\ tail \in Seq(Text)
               /\ Len(head) + Len(tail) = Len(s)
               /\ ToSet(head) \cup ToSet(tail) = ToSet(s)
<1> DEFINE head == SubSeq(s, 1, k)
           tail == SubSeq(s, k + 1, Len(s))
<1>1. head \in Seq(Text) /\ tail \in Seq(Text)
  <2>1. \A i \in 1 .. Len(s) : s[i] \in Text
    OBVIOUS
  <2>2. (\A i \in 1 .. k : s[i] \in Text) /\ (\A i \in k + 1 .. Len(s) : s[i] \in Text)
    BY <2>1
  <2>3. k \in Int /\ k + 1 \in Int /\ Len(s) \in Int /\ 1 \in Int
    OBVIOUS
  <2> QED
    BY <2>2, <2>3, SubSeqProperties
<1>2. head \o tail = s
  <2>1. /\ 1 \in 1 .. Len(s) + 1 /\ k \in 1 - 1 .. Len(s) /\ Len(s) \in k .. Len(s)
    OBVIOUS
  <2>2. head \o tail = SubSeq(s, 1, Len(s))
    BY <2>1, ConcatAdjacentSubSeq
  <2>3. SubSeq(s, 1, Len(s)) = s
    BY SubSeqFull
  <2> QED
    BY <2>2, <2>3
<1> HIDE DEF head, tail
<1>3. ToSet(s) = ToSet(head) \cup ToSet(tail) /\ Len(s) = Len(head) + Len(tail)
  BY <1>1, <1>2, JoinedPieces
<1> QED
  BY <1>1, <1>3 DEF head, tail

\* The last space of a text is one of its places, or 0.
LEMMA LastSpaceIs ==
    ASSUME NEW s \in Seq(Text)
    PROVE  SelectLastInSeq(s, EndsWord) \in 0 .. Len(s)
<1> DEFINE I == {i \in 1 .. Len(s) : EndsWord(s[i])}
<1>1. SelectLastInSeq(s, EndsWord) = IF I # {} THEN Max(I) ELSE 0
  BY DEF SelectLastInSeq
<1>2. ASSUME I # {} PROVE Max(I) \in 1 .. Len(s)
  <2> HIDE DEF I
  <2>0. I \in SUBSET (1 .. Len(s)) /\ Len(s) \in Nat
    BY DEF I
  <2>1. PICK m \in I : \A k \in I : k <= m
    BY <1>2, <2>0, HasMax
  <2>2. \A k \in I : m >= k
    BY <2>0, <2>1
  <2>3. Max(I) \in I
    BY <2>2 DEF Max
  <2> QED
    BY <2>0, <2>3
<1> HIDE DEF I
<1> QED
  BY <1>1, <1>2

LEMMA ClearedIsWhole == Whole(Cleared)
<1>1. <<>> \in Seq(Text) /\ Len(<<>>) = 0
  OBVIOUS
<1>2. Lengths(0, 0, 0, 0)
  BY DEF Lengths
<1> QED
  BY <1>1, <1>2 DEF Whole, Cleared, Hooks

\* A new content is consumed whole, by whichever way.
LEMMA ContentIsWhole ==
    ASSUME NEW h, Whole(h), NEW c \in Seq(Text), NEW s \in BOOLEAN
    PROVE  Whole(ContentEffect(h, c, s))
<1> DEFINE g     == IF IsPrefix(h.consumed, c) THEN h ELSE Cleared
           delta == SubSeq(c, Len(g.consumed) + 1, Len(c))
           text  == g.remainder \o delta
           split == splitQueuedWords(text)
<1>1. Whole(g)
  BY ClearedIsWhole
<1>2. g \in Hooks
  BY <1>1 DEF Whole
<1>3. IsPrefix(g.consumed, c)
  BY DEF Cleared, IsPrefix
<1>4. /\ delta \in Seq(Text) /\ Len(c) = Len(g.consumed) + Len(delta)
      /\ ToSet(c) = ToSet(g.consumed) \cup ToSet(delta)
  <2> DEFINE n == Len(g.consumed)
  <2>1. g.consumed \in Seq(Text)
    BY <1>2 DEF Hooks
  <2> HIDE DEF g
  <2>2. n \in 0 .. Len(c) /\ SubSeq(c, 1, n) = g.consumed
    BY <2>1, <1>3 DEF IsPrefix
  <2> QED
    BY <2>1, <2>2, CutText
<1>5. /\ text \in Seq(Text) /\ Len(text) = Len(g.remainder) + Len(delta)
      /\ ToSet(text) = ToSet(g.remainder) \cup ToSet(delta)
  <2>1. g.remainder \in Seq(Text)
    BY <1>2 DEF Hooks
  <2> HIDE DEF g, delta
  <2> QED
    BY <2>1, <1>4, JoinedPieces
<1>6. /\ split.words \in Seq(Text) /\ split.remainder \in Seq(Text)
      /\ Len(split.words) + Len(split.remainder) = Len(text)
      /\ ToSet(split.words) \cup ToSet(split.remainder) = ToSet(text)
  <2> HIDE DEF text
  <2>1. SelectLastInSeq(text, EndsWord) \in 0 .. Len(text)
    BY <1>5, LastSpaceIs
  <2> QED
    BY <1>5, <2>1, CutText DEF splitQueuedWords
<1>7. ContentEffect(h, c, s) =
        IF c = <<>> THEN Cleared
        ELSE IF delta = <<>> THEN g
        ELSE IF s /\ Len(delta) <= BypassLength
             THEN [g EXCEPT !.consumed = c, !.shown = @ \o text, !.remainder = <<>>,
                            !.drained = FALSE]
        ELSE [g EXCEPT !.consumed = c, !.drained = FALSE,
                       !.queue = @ \o (IF s THEN split.words ELSE text),
                       !.remainder = IF s THEN split.remainder ELSE <<>>]
  BY DEF ContentEffect
<1> HIDE DEF g, delta, text, split
<1>8. /\ g.shown \in Seq(Text) /\ g.queue \in Seq(Text) /\ g.remainder \in Seq(Text)
      /\ g.consumed \in Seq(Text) /\ g.drained \in BOOLEAN
      /\ Lengths(Len(g.shown), Len(g.queue), Len(g.remainder), Len(g.consumed))
      /\ ToSet(g.shown) \cup ToSet(g.queue) \cup ToSet(g.remainder) = ToSet(g.consumed)
  BY <1>1 DEF Whole, Hooks
<1>9. <<>> \in Seq(Text) /\ Len(<<>>) = 0 /\ ToSet(<<>>) = {}
  BY DEF ToSet
<1>10. /\ Len(g.shown) \in Nat /\ Len(g.queue) \in Nat /\ Len(g.remainder) \in Nat
       /\ Len(g.consumed) \in Nat /\ Len(delta) \in Nat /\ Len(text) \in Nat
  BY <1>4, <1>5, <1>8
<1>11. ASSUME NEW a \in Seq(Text), NEW q \in Seq(Text), NEW r \in Seq(Text),
              Lengths(Len(a), Len(q), Len(r), Len(c)), ToSet(a) \cup ToSet(q) \cup ToSet(r) = ToSet(c)
       PROVE  Whole([g EXCEPT !.consumed = c, !.shown = a, !.queue = q, !.remainder = r,
                              !.drained = FALSE])
  BY <1>2, <1>11 DEF Whole, Hooks
<1>12. CASE c = <<>> \/ delta = <<>>
  BY <1>7, <1>1, <1>12, ClearedIsWhole
<1>13. CASE c # <<>> /\ delta # <<>> /\ s /\ Len(delta) <= BypassLength
  <2> DEFINE a == g.shown \o text
  <2>1. a \in Seq(Text) /\ Len(a) = Len(g.shown) + Len(text) /\ ToSet(a) = ToSet(g.shown) \cup ToSet(text)
    BY <1>5, <1>8, JoinedPieces
  <2>2. ContentEffect(h, c, s) = [g EXCEPT !.consumed = c, !.shown = a, !.queue = g.queue,
                                           !.remainder = <<>>, !.drained = FALSE]
    BY <1>2, <1>7, <1>13 DEF Hooks
  <2> HIDE DEF a
  <2>0. Len(a) \in Nat
    BY <2>1
  <2>3. Lengths(Len(a), Len(g.queue), Len(<<>>), Len(c))
    <3>1. Lengths(Len(g.shown) + (Len(g.remainder) + Len(delta)), Len(g.queue), 0,
                Len(g.consumed) + Len(delta))
      BY <1>8, <1>10, MoreToFirst
    <3>2. Len(a) = Len(g.shown) + (Len(g.remainder) + Len(delta))
      BY <1>5, <2>1
    <3>3. Len(c) = Len(g.consumed) + Len(delta) /\ Len(<<>>) = 0
      BY <1>4
    <3> QED
      BY <3>1, <3>2, <3>3
  <2>4. ToSet(a) \cup ToSet(g.queue) \cup ToSet(<<>>) = ToSet(c)
    BY <1>4, <1>5, <1>8, <1>9, <2>1
  <2>5. Whole([g EXCEPT !.consumed = c, !.shown = a, !.queue = g.queue, !.remainder = <<>>,
                        !.drained = FALSE])
    BY <1>8, <1>9, <1>11, <2>1, <2>3, <2>4
  <2> QED
    BY <2>2, <2>5
<1>14. CASE c # <<>> /\ delta # <<>> /\ ~(s /\ Len(delta) <= BypassLength)
  <2> DEFINE w == IF s THEN split.words ELSE text
             r == IF s THEN split.remainder ELSE <<>>
             q == g.queue \o w
  <2>1. /\ w \in Seq(Text) /\ r \in Seq(Text) /\ Len(w) + Len(r) = Len(text)
        /\ ToSet(w) \cup ToSet(r) = ToSet(text)
    <3>1. CASE s
      BY <1>6, <3>1
    <3>2. CASE ~s
      <4>1. w = text /\ r = <<>>
        BY <3>2
      <4> HIDE DEF w, r
      <4>2. Len(w) = Len(text) /\ Len(r) = 0
        BY <4>1, <1>9
      <4>3. Len(w) + Len(r) = Len(text)
        BY <4>2, <1>10
      <4> QED
        BY <1>5, <1>9, <4>1, <4>3
    <3> QED
      BY <3>1, <3>2
  <2>2. ContentEffect(h, c, s) = [g EXCEPT !.consumed = c, !.shown = g.shown, !.queue = q,
                                           !.remainder = r, !.drained = FALSE]
    BY <1>2, <1>7, <1>14 DEF Hooks
  <2> HIDE DEF w, r
  <2>3. q \in Seq(Text) /\ Len(q) = Len(g.queue) + Len(w) /\ ToSet(q) = ToSet(g.queue) \cup ToSet(w)
    BY <2>1, <1>8, JoinedPieces
  <2> HIDE DEF q
  <2>4. Lengths(Len(g.shown), Len(q), Len(r), Len(c))
    <3>1. Len(w) \in Nat /\ Len(r) \in Nat /\ Len(w) + Len(r) = Len(g.remainder) + Len(delta)
      BY <1>5, <2>1
    <3>2. Lengths(Len(g.shown), Len(g.queue) + Len(w), Len(r), Len(g.consumed) + Len(delta))
      BY <1>8, <1>10, <3>1, MoreToOthers
    <3>3. Len(q) = Len(g.queue) + Len(w) /\ Len(c) = Len(g.consumed) + Len(delta)
      BY <1>4, <2>3
    <3> QED
      BY <3>2, <3>3
  <2>5. ToSet(g.shown) \cup ToSet(q) \cup ToSet(r) = ToSet(c)
    BY <1>4, <1>5, <1>8, <2>1, <2>3
  <2>6. Whole([g EXCEPT !.consumed = c, !.shown = g.shown, !.queue = q, !.remainder = r,
                        !.drained = FALSE])
    BY <1>8, <1>11, <2>1, <2>3, <2>4, <2>5
  <2> QED
    BY <2>2, <2>6
<1> QED
  BY <1>12, <1>13, <1>14

LEMMA SettledIsWhole ==
    ASSUME NEW h, Whole(h), NEW c \in Seq(Text), NEW s \in BOOLEAN
    PROVE  Whole(Settled(h, c, s))
<1>1. Whole([h EXCEPT !.drained = (h.shown = c)])
  <2>1. (h.shown = c) \in BOOLEAN
    OBVIOUS
  <2> DEFINE d == (h.shown = c)
  <2> HIDE DEF d
  <2>2. Whole([h EXCEPT !.drained = d])
    BY <2>1 DEF Whole, Hooks, d
  <2> QED
    BY <2>2 DEF d
<1> QED
  BY <1>1 DEF Settled

LEMMA RenderedIsWhole ==
    ASSUME NEW h, Whole(h), NEW c \in Seq(Text), NEW s \in BOOLEAN
    PROVE  Whole(Rendered(h, c, s))
<1>1. Whole(ContentEffect(h, c, s))
  BY ContentIsWhole
<1> QED
  BY <1>1, SettledIsWhole DEF Rendered

\* The end of the stream makes a word of what waits for a space.
LEMMA EndIsWhole ==
    ASSUME NEW h, Whole(h)
    PROVE  Whole(EndEffect(h, FALSE))
<1>1. CASE h.remainder = <<>>
  BY <1>1 DEF EndEffect
<1>2. CASE h.remainder # <<>>
  <2> DEFINE q == h.queue \o h.remainder
  <2>1. /\ h \in Hooks /\ h.shown \in Seq(Text) /\ h.queue \in Seq(Text) /\ h.remainder \in Seq(Text)
        /\ h.consumed \in Seq(Text)
    BY DEF Whole, Hooks
  <2>2. q \in Seq(Text) /\ Len(q) = Len(h.queue) + Len(h.remainder) /\ ToSet(q) = ToSet(h.queue) \cup ToSet(h.remainder)
    BY <2>1, JoinedPieces
  <2>3. EndEffect(h, FALSE) = [h EXCEPT !.queue = q, !.remainder = <<>>, !.drained = FALSE]
    BY <1>2, <2>1 DEF EndEffect, Hooks
  <2> HIDE DEF q
  <2>4. <<>> \in Seq(Text) /\ Len(<<>>) = 0 /\ ToSet(<<>>) = {}
    BY DEF ToSet
  <2>5. Lengths(Len(h.shown), Len(h.queue), Len(h.remainder), Len(h.consumed))
    BY DEF Whole
  <2>6. Lengths(Len(h.shown), Len(q), Len(<<>>), Len(h.consumed))
    <3>1. Len(q) = Len(h.queue) + Len(h.remainder) /\ Len(<<>>) = 0
      BY <2>2
    <3>2. Lengths(Len(h.shown), Len(h.queue) + Len(h.remainder), 0, Len(h.consumed))
      BY <2>5, RestMoves
    <3> QED
      BY <3>1, <3>2
  <2>7. ToSet(h.shown) \cup ToSet(q) \cup ToSet(<<>>) = ToSet(h.consumed)
    BY <2>2, <2>4 DEF Whole
  <2> QED
    BY <2>1, <2>2, <2>3, <2>4, <2>6, <2>7 DEF Whole, Hooks
<1> QED
  BY <1>1, <1>2

\* A frame moves words from the head of the queue to what is shown.
LEMMA DrainIsWhole ==
    ASSUME NEW h, Whole(h), NEW k \in DOMAIN h.queue
    PROVE  Whole([h EXCEPT !.shown = @ \o SubSeq(h.queue, 1, k),
                           !.queue = SubSeq(@, k + 1, Len(@)), !.drained = FALSE])
<1> DEFINE head == SubSeq(h.queue, 1, k)
           tail == SubSeq(h.queue, k + 1, Len(h.queue))
           a    == h.shown \o head
<1>1. /\ h \in Hooks /\ h.shown \in Seq(Text) /\ h.queue \in Seq(Text) /\ h.remainder \in Seq(Text)
      /\ h.consumed \in Seq(Text)
  BY DEF Whole, Hooks
<1>2. k \in 0 .. Len(h.queue)
  BY <1>1
<1>3. /\ head \in Seq(Text) /\ tail \in Seq(Text) /\ Len(head) + Len(tail) = Len(h.queue)
      /\ ToSet(head) \cup ToSet(tail) = ToSet(h.queue)
  BY <1>1, <1>2, CutText
<1> HIDE DEF head, tail
<1>4. a \in Seq(Text) /\ Len(a) = Len(h.shown) + Len(head) /\ ToSet(a) = ToSet(h.shown) \cup ToSet(head)
  BY <1>1, <1>3, JoinedPieces
<1>5. [h EXCEPT !.shown = @ \o SubSeq(h.queue, 1, k), !.queue = SubSeq(@, k + 1, Len(@)), !.drained = FALSE]
        = [h EXCEPT !.shown = a, !.queue = tail, !.drained = FALSE]
  BY <1>1 DEF head, tail, Hooks
<1> HIDE DEF a
<1>6. Lengths(Len(h.shown), Len(h.queue), Len(h.remainder), Len(h.consumed))
  BY DEF Whole
<1>7. Lengths(Len(a), Len(tail), Len(h.remainder), Len(h.consumed))
  <2>1. Len(head) \in Nat /\ Len(tail) \in Nat /\ Len(head) + Len(tail) = Len(h.queue)
    BY <1>3
  <2>2. Lengths(Len(h.shown) + Len(head), Len(tail), Len(h.remainder), Len(h.consumed))
    BY <1>6, <2>1, HeadMoves
  <2>3. Len(a) = Len(h.shown) + Len(head)
    BY <1>4
  <2> QED
    BY <2>2, <2>3
<1>8. ToSet(a) \cup ToSet(tail) \cup ToSet(h.remainder) = ToSet(h.consumed)
  BY <1>3, <1>4 DEF Whole
<1> QED
  BY <1>1, <1>3, <1>4, <1>5, <1>7, <1>8 DEF Whole, Hooks

LEMMA TypeStarts == TypeInit => TypeInd
BY ClearedIsWhole DEF TypeInit, TypeInd

LEMMA TypeSteps == TypeInd /\ isStreaming \in BOOLEAN /\ [TypeNext]_typeVars => TypeInd'
<1> SUFFICES ASSUME TypeInd, isStreaming \in BOOLEAN, [TypeNext]_typeVars PROVE TypeInd'
  OBVIOUS
<1>1. Whole(hook) /\ content \in Seq(Text) /\ generation \in Nat
  BY DEF TypeInd
<1>2. CASE StreamStarts
  <2>1. <<>> \in Seq(Text)
    OBVIOUS
  <2>2. Whole(ContentEffect(hook, <<>>, TRUE))
    BY <1>1, <2>1, ContentIsWhole
  <2>3. content' = <<>> /\ generation' = generation + 1 /\ hook' = ContentEffect(hook, <<>>, TRUE)
    BY <1>2 DEF StreamStarts
  <2>4. content' \in Seq(Text) /\ generation' \in Nat
    BY <1>1, <2>1, <2>3
  <2>5. Whole(hook)'
    BY <2>2, <2>3 DEF Whole
  <2> QED
    BY <2>4, <2>5 DEF TypeInd
<1>3. CASE ContentGrows
  <2>1. PICK n \in 1 .. MaxPieces - Len(content) : \E spaces \in [1 .. n -> BOOLEAN] :
          content' = content \o [i \in 1 .. n |-> <<generation, Len(content) + i, spaces[i]>>]
    BY <1>3 DEF ContentGrows
  <2>2. PICK spaces \in [1 .. n -> BOOLEAN] :
          content' = content \o [i \in 1 .. n |-> <<generation, Len(content) + i, spaces[i]>>]
    BY <2>1
  <2> DEFINE more == [i \in 1 .. n |-> <<generation, Len(content) + i, spaces[i]>>]
  <2>3. more \in Seq(Text)
    <3>1. Len(content) \in Nat /\ n \in Nat
      BY <1>1, TypewriterAssumption
    <3>2. \A i \in 1 .. n : <<generation, Len(content) + i, spaces[i]>> \in Text
      BY <1>1, <3>1 DEF Text
    <3>3. more \in [1 .. n -> Text]
      BY <3>2
    <3> QED
      BY <3>1, <3>3
  <2> HIDE DEF more
  <2>4. content' \in Seq(Text)
    BY <1>1, <2>2, <2>3, JoinedPieces DEF more
  <2>5. Whole(Rendered(hook, content', isStreaming))
    BY <1>1, <2>4, RenderedIsWhole
  <2> QED
    BY <1>1, <1>3, <2>4, <2>5 DEF ContentGrows, TypeInd
<1>4. CASE ContentReplaced
  <2> DEFINE other == [i \in DOMAIN content |-> <<generation + 1, i, TRUE>>]
  <2>1. other \in Seq(Text)
    <3>1. Len(content) \in Nat /\ DOMAIN content = 1 .. Len(content)
      BY <1>1
    <3>2. \A i \in 1 .. Len(content) : <<generation + 1, i, TRUE>> \in Text
      <4>1. generation + 1 \in Nat /\ TRUE \in BOOLEAN
        BY <1>1
      <4>2. \A i \in 1 .. Len(content) : i \in Nat
        BY <3>1
      <4>3. \A a, b : a \in Nat /\ b \in Nat => <<a, b, TRUE>> \in Nat \X Nat \X BOOLEAN
        OBVIOUS
      <4> QED
        BY <4>1, <4>2, <4>3 DEF Text
    <3>3. other \in [1 .. Len(content) -> Text]
      BY <3>1, <3>2
    <3> HIDE DEF other
    <3> QED
      BY <3>1, <3>3
  <2>2. content' = other
    BY <1>4 DEF ContentReplaced
  <2> HIDE DEF other
  <2>3. content' \in Seq(Text)
    BY <2>1, <2>2
  <2>4. Whole(Rendered(hook, content', isStreaming))
    BY <1>1, <2>3, RenderedIsWhole
  <2> QED
    BY <1>1, <1>4, <2>3, <2>4 DEF ContentReplaced, TypeInd
<1>5. CASE StreamOver
  <2>1. Whole(ContentEffect(hook, content, FALSE))
    BY <1>1, ContentIsWhole
  <2>2. Whole(EndEffect(ContentEffect(hook, content, FALSE), FALSE))
    BY <2>1, EndIsWhole
  <2>3. Whole(Settled(EndEffect(ContentEffect(hook, content, FALSE), FALSE), content, FALSE))
    BY <1>1, <2>2, SettledIsWhole
  <2> QED
    BY <1>1, <1>5, <2>3 DEF StreamOver, TypeInd
<1>6. CASE Frame
  <2>1. PICK last \in DOMAIN hook.queue :
          /\ hook' = Rendered([hook EXCEPT !.shown = @ \o SubSeq(hook.queue, 1, last),
                                           !.queue = SubSeq(@, last + 1, Len(@)), !.drained = FALSE],
                              content, isStreaming)
          /\ UNCHANGED <<content, generation, isStreaming>>
    BY <1>6 DEF Frame
  <2> DEFINE g == [hook EXCEPT !.shown = @ \o SubSeq(hook.queue, 1, last),
                               !.queue = SubSeq(@, last + 1, Len(@)), !.drained = FALSE]
  <2>2. Whole(g)
    BY <1>1, DrainIsWhole
  <2>3. hook' = Rendered(g, content, isStreaming)
    BY <2>1
  <2> HIDE DEF g
  <2>4. Whole(hook')
    BY <1>1, <2>2, <2>3, RenderedIsWhole
  <2> QED
    BY <1>1, <2>1, <2>4 DEF TypeInd
<1>7. CASE UNCHANGED typeVars
  BY <1>1, <1>7 DEF typeVars, TypeInd
<1> QED
  BY <1>2, <1>3, <1>4, <1>5, <1>6, <1>7 DEF TypeNext

LEMMA TypeSafe == TypeInd => EveryPieceOnce
<1> SUFFICES ASSUME TypeInd PROVE EveryPieceOnce
  OBVIOUS
<1> DEFINE most == hook.shown \o hook.queue
<1>1. Whole(hook)
  BY DEF TypeInd
<1>2. hook.shown \in Seq(Text) /\ hook.queue \in Seq(Text) /\ hook.remainder \in Seq(Text)
  BY <1>1 DEF Whole, Hooks
<1>3. /\ most \in Seq(Text) /\ Len(most) = Len(hook.shown) + Len(hook.queue)
      /\ ToSet(most) = ToSet(hook.shown) \cup ToSet(hook.queue)
  BY <1>2, JoinedPieces
<1> HIDE DEF most
<1>4. /\ Len(most \o hook.remainder) = Len(most) + Len(hook.remainder)
      /\ ToSet(most \o hook.remainder) = ToSet(most) \cup ToSet(hook.remainder)
  BY <1>2, <1>3, JoinedPieces
<1>5. Len(most \o hook.remainder) = Len(hook.consumed)
  BY <1>1, <1>3, <1>4 DEF Whole, Lengths
<1>6. ToSet(most \o hook.remainder) = ToSet(hook.consumed)
  BY <1>1, <1>3, <1>4 DEF Whole
<1> QED
  BY <1>5, <1>6 DEF EveryPieceOnce, most

(* EveryPieceOnce for any lengths and numbers of contents: whatever useTypewriter has consumed
   is shown or waits to be shown, once, whichever of the queue, the bypass, the flush at the
   end of the stream and the reset of a rewritten answer it went through. *)
THEOREM TextIsShownOnce == TypeSpec => []EveryPieceOnce
<1> DEFINE Inv == TypeInd /\ isStreaming \in BOOLEAN
<1>1. TypeInit => Inv
  BY TypeStarts DEF TypeInit
<1>2. Inv /\ [TypeNext]_typeVars => Inv'
  <2>1. isStreaming \in BOOLEAN /\ [TypeNext]_typeVars => isStreaming' \in BOOLEAN
    BY DEF TypeNext, typeVars, StreamStarts, ContentGrows, ContentReplaced, StreamOver, Frame
  <2> QED
    BY <2>1, TypeSteps
<1>3. Inv => EveryPieceOnce
  BY TypeSafe
<1> QED
  BY <1>1, <1>2, <1>3, PTL DEF TypeSpec
=============================================================================
