------------------------------- MODULE Library -------------------------------
(***************************************************************************)
(* The conversations and folders of the legacy UI (pages/api/home/home.tsx *)
(* and components/Chatbar): what the page shows, what sessionStorage keeps *)
(* of it for a reload, and files exported and imported                     *)
(* (utils/app/importExport.ts).  An answer over HTTP is written, at its    *)
(* end, into the list that was there when its question was sent; one over  *)
(* the WebSocket, which changes messages only, is one step with its        *)
(* question.  Names, messages, prompts and a storage that is full are left *)
(* out, and LegacyChat has what becomes of the messages.                   *)
(***************************************************************************)
EXTENDS Integers, SequencesExt

CONSTANTS
    MaxMade,    \* bound: conversations and folders made
    MaxFiles,   \* bound: exports
    MaxHttpSends, \* bound: questions sent over HTTP
    MaxSteps    \* bound: operations

HttpSends == 1 .. MaxHttpSends

None == 0
Nothing == [id |-> None, folder |-> None, home |-> FALSE]

\* Files of earlier versions: one conversation, in versions 2 and 3 in a folder, the
\* number -1, which version 2 writes as a number and version 3 as a string, -2 here.
OldConversation(f) == [id |-> 0 - 1, folder |-> f, home |-> FALSE]
OldFiles ==
    {[version |-> 1, history |-> <<OldConversation(None)>>, folders |-> <<>>],
     [version |-> 2, history |-> <<OldConversation(0 - 1)>>, folders |-> <<0 - 1>>],
     [version |-> 3, history |-> <<OldConversation(0 - 2)>>, folders |-> <<0 - 2>>]}

VARIABLES
    conversationList, selectedConversation, folders,   \* HomeContext: conversations, ...
    stored,     \* sessionStorage: history, selected, folders
    files,      \* what was exported
    stream,     \* calls of handleSend over HTTP: the conversation each answers in, and the
                \* list it was called with
    messageIsStreaming,
    made, steps,
    lastStep    \* what the last step was: a "removal", an "answer" that came, or another

streamVars     == <<stream, messageIsStreaming>>
libraryVars == <<conversationList, selectedConversation, folders, stored, files, streamVars, made,
                 steps, lastStep>>

Ids(list) == {list[i].id : i \in DOMAIN list}

NoStream  == [at |-> "idle", conversation |-> Nothing, before |-> <<>>]
SendOver == [NoStream EXCEPT !.at = "over"]

\* The page opens on a new sessionStorage.
Homepage(n) == [id |-> n, folder |-> None, home |-> TRUE]

LibraryInit ==
    /\ conversationList = <<Homepage(1)>> /\ selectedConversation = Homepage(1) /\ folders = <<>>
    /\ stored = [history |-> <<Homepage(1)>>, selected |-> Homepage(1), folders |-> <<>>]
    /\ files = {} /\ made = 1 /\ steps = 0 /\ lastStep = "other"
    /\ stream = [k \in HttpSends |-> NoStream] /\ messageIsStreaming = FALSE

----------------------------------------------------------------------------
Operation == steps < MaxSteps /\ steps' = steps + 1
Makes     == made < MaxMade /\ made' = made + 1

\* Another conversation that is selected, whatever it was, streams no more.
Displays(c) ==
    /\ selectedConversation' = c
    /\ messageIsStreaming' = (messageIsStreaming /\ c.id = selectedConversation.id)

\* conversations and selectedConversation change and are saved.
Saves(list, one) ==
    /\ conversationList' = list /\ Displays(one)
    /\ stored' = [stored EXCEPT !.history = list, !.selected = one]

Replaced(list, c) == [i \in DOMAIN list |-> IF list[i].id = c.id THEN c ELSE list[i]]

\* What the sidebar shows: in the list, or in one of the folders.
Visible(c) == ~c.home /\ (c.folder = None \/ c.folder \in Range(folders))

HandleSelectConversation(i) ==
    /\ Visible(conversationList[i]) /\ ~messageIsStreaming
    /\ Displays(conversationList[i])
    /\ stored' = [stored EXCEPT !.selected = conversationList[i]]
    /\ UNCHANGED <<conversationList, folders, files, stream, made>>

HandleCreateFolder ==
    /\ Makes
    /\ folders' = Append(folders, made')
    /\ stored' = [stored EXCEPT !.folders = folders']
    /\ UNCHANGED <<conversationList, selectedConversation, files, streamVars>>

\* The entries of a list at the positions is, in order.
Picked(list, is) ==
    [n \in 1 .. Cardinality(is) |-> list[CHOOSE i \in is : Cardinality({j \in is : j <= i}) = n]]

\* The conversations of the folder leave it; the selected one, a copy, stays in it.
HandleDeleteFolder(f) ==
    /\ folders' = Picked(folders, {i \in DOMAIN folders : folders[i] # f})
    /\ conversationList' = [i \in DOMAIN conversationList |->
           IF conversationList[i].folder = f THEN [conversationList[i] EXCEPT !.folder = None]
           ELSE conversationList[i]]
    /\ stored' = [stored EXCEPT !.folders = folders', !.history = conversationList']
    /\ UNCHANGED <<selectedConversation, files, streamVars, made>>

\* A homepage conversation without messages is used, if it is selected.
HandleNewConversation ==
    IF selectedConversation.home
      THEN LET c == [selectedConversation EXCEPT !.home = FALSE]
           IN  Saves(Replaced(conversationList, c), c) /\ UNCHANGED <<folders, files, stream, made>>
      ELSE /\ Makes
           /\ LET c == [id |-> made', folder |-> None, home |-> FALSE]
              IN  Saves(Append(conversationList, c), c)
           /\ UNCHANGED <<folders, files, stream>>

\* The conversation changes, in the list too, and is selected.
HandleUpdateConversation(i, f) ==
    /\ Visible(conversationList[i])
    /\ LET c == [conversationList[i] EXCEPT !.folder = f]
       IN  Saves(Replaced(conversationList, c), c)
    /\ UNCHANGED <<folders, files, stream, made>>

HandleDrop(i, f) == HandleUpdateConversation(i, f)   \* on a folder, or on the list
HandleRename(i)  == HandleUpdateConversation(i, conversationList[i].folder)

----------------------------------------------------------------------------
\* handleSend: over the WebSocket, which is open, in the list as it is ...
SendOverSocket ==
    LET c == [selectedConversation EXCEPT !.home = FALSE]
    IN  Saves(Replaced(conversationList, c), c) /\ UNCHANGED <<folders, files, stream, made>>

\* ... and over HTTP, by an edit also while another answer streams.
SendOverHttp(k) ==
    LET c == [selectedConversation EXCEPT !.home = FALSE]
    IN  /\ stream[k].at = "idle" /\ \A j \in 1 .. k - 1 : stream[j].at # "idle"
        /\ stream' = [stream EXCEPT ![k] =
              [at |-> "fetching", conversation |-> c, before |-> conversationList]]
        /\ selectedConversation' = c /\ messageIsStreaming' = TRUE
        /\ UNCHANGED <<conversationList, folders, stored, files, made>>

\* Every chunk shows the conversation it is written in, selected or not.
AnswerShows(k) ==
    /\ stream[k].at \in {"fetching", "reading"}
    /\ stream' = [stream EXCEPT ![k].at = "reading"]
    /\ Displays(stream[k].conversation)
    /\ UNCHANGED <<conversationList, folders, stored, files, made>>

HttpSendEnds(k) ==
    /\ stream' = [stream EXCEPT ![k] = SendOver] /\ messageIsStreaming' = FALSE
    /\ UNCHANGED <<folders, files, made>>

\* The list of before, with the conversation, is written over the list of now.
Writes(list, c) ==
    conversationList' = list /\ stored' = [stored EXCEPT !.history = list, !.selected = c]

\* With the timeout of 200 ms after the end.
AnswerWritten(k) ==
    LET c      == stream[k].conversation
        before == stream[k].before
    IN  /\ stream[k].at \in {"fetching", "reading"}
        /\ Writes(IF before = <<>> THEN <<c>> ELSE Replaced(before, c), c)
        /\ UNCHANGED selectedConversation /\ HttpSendEnds(k)

\* 422, an error of the workflow, which is shown as the answer.
AnswerIsError(k) ==
    LET c == stream[k].conversation
    IN  /\ stream[k].at = "fetching"
        /\ Writes(Replaced(stream[k].before, c), c)
        /\ selectedConversation' = c /\ HttpSendEnds(k)

\* Another status, or no body; a connection that breaks, or a stop, which saves what it has.
AnswerRefused(k) ==
    /\ stream[k].at = "fetching"
    /\ UNCHANGED <<conversationList, selectedConversation, stored>> /\ HttpSendEnds(k)
AnswerBreaks(k) ==
    /\ stream[k].at \in {"fetching", "reading"}
    /\ stored' = [stored EXCEPT !.selected = stream[k].conversation]
    /\ UNCHANGED <<conversationList, selectedConversation>> /\ HttpSendEnds(k)

----------------------------------------------------------------------------
\* Without another conversation an unsaved new one is selected.
MutantHandleDeleteConversation(i) ==  \* the saved selection is removed, not replaced
    LET list == RemoveAt(conversationList, i)
    IN  /\ Visible(conversationList[i])
        /\ conversationList' = list
        /\ IF list # <<>>
             THEN /\ Displays(Last(list)) /\ UNCHANGED made
                  /\ stored' = [stored EXCEPT !.history = list, !.selected = Nothing]
             ELSE /\ Makes /\ Displays([Nothing EXCEPT !.id = made'])
                  /\ stored' = [stored EXCEPT !.history = list, !.selected = Nothing]
        /\ UNCHANGED <<folders, files, stream>>
HandleDeleteConversation(i) ==
    LET list == RemoveAt(conversationList, i)
    IN  /\ Visible(conversationList[i])
        /\ conversationList' = list
        /\ IF list # <<>>
             THEN /\ Displays(Last(list)) /\ UNCHANGED made
                  /\ stored' = [stored EXCEPT !.history = list, !.selected = Last(list)]
             ELSE /\ Makes /\ Displays([Nothing EXCEPT !.id = made'])
                  /\ stored' = [stored EXCEPT !.history = list, !.selected = Nothing]
        /\ UNCHANGED <<folders, files, stream>>

\* All folders are of type 'chat'.
HandleClearConversations ==
    /\ Makes
    /\ conversationList' = <<>> /\ Displays([Nothing EXCEPT !.id = made'])
    /\ folders' = <<>>
    /\ stored' = [history |-> <<>>, selected |-> Nothing, folders |-> <<>>]
    /\ UNCHANGED <<files, stream>>

----------------------------------------------------------------------------
\* exportData: what is stored, as version 4.
ExportData ==
    /\ Cardinality(files) < MaxFiles
    /\ files' = files \cup {[version |-> 4, history |-> stored.history, folders |-> stored.folders]}
    /\ UNCHANGED <<conversationList, selectedConversation, folders, stored, streamVars, made>>

\* cleanData: version 2 loses the numbers of its folders, not of its conversations' folders.
CleanData(file) ==
    IF file.version = 2
      THEN [file EXCEPT !.folders = [i \in DOMAIN file.folders |-> file.folders[i] - 1]]
      ELSE file

\* The first of the entries with one id.
Deduped(list, key) == Picked(list, {i \in DOMAIN list : \A j \in 1 .. i - 1 : key[j] # key[i]})

\* The page is loaded again: what awaited an answer is gone.
PageLoads ==
    /\ stream' = [k \in HttpSends |-> IF stream[k].at = "idle" THEN NoStream ELSE SendOver]
    /\ messageIsStreaming' = FALSE

\* importData and the reload after it.
ImportData(file) ==
    LET data    == CleanData(file)
        both    == stored.history \o data.history
        history == Deduped(both, [i \in DOMAIN both |-> both[i].id])
        merged  == Deduped(stored.folders \o data.folders, stored.folders \o data.folders)
    IN  /\ folders' = merged
        /\ IF history # <<>>
             THEN /\ conversationList' = history /\ selectedConversation' = Last(history)
                  /\ UNCHANGED made
             ELSE /\ Makes /\ selectedConversation' = Homepage(made')
                  /\ conversationList' = <<Homepage(made')>>
        /\ stored' = [history |-> conversationList', selected |-> selectedConversation',
                      folders |-> merged]
        /\ PageLoads /\ UNCHANGED files

\* The mount: without a selected conversation it makes a homepage conversation, and takes
\* it, with the list of the first render, which is empty, for all there are.
ReloadLibrary ==
    /\ folders' = stored.folders
    /\ IF stored.selected # Nothing
         THEN /\ conversationList' = stored.history /\ selectedConversation' = stored.selected
              /\ UNCHANGED <<stored, made>>
         ELSE /\ Makes /\ Writes(<<Homepage(made')>>, Homepage(made'))
              /\ selectedConversation' = Homepage(made')
    /\ PageLoads /\ UNCHANGED files

LibraryNext ==
    \/ /\ Operation /\ lastStep' = "other"
       /\ \/ HandleCreateFolder \/ HandleNewConversation \/ SendOverSocket \/ ExportData \/ ReloadLibrary
          \/ \E k \in HttpSends : SendOverHttp(k)
          \/ \E i \in DOMAIN folders : HandleDeleteFolder(folders[i])
          \/ \E i \in DOMAIN conversationList :
                \/ HandleSelectConversation(i)
                \/ HandleRename(i)
                \/ \E f \in {None} \cup Range(folders) : HandleDrop(i, f)
          \/ \E file \in files \cup OldFiles : ImportData(file)
    \/ /\ Operation /\ lastStep' = "removal"
       /\ HandleClearConversations \/ \E i \in DOMAIN conversationList : HandleDeleteConversation(i)
    \/ /\ UNCHANGED steps /\ lastStep' = "answer"
       /\ \E k \in HttpSends : \/ AnswerShows(k) \/ AnswerWritten(k) \/ AnswerIsError(k)
                             \/ AnswerRefused(k) \/ AnswerBreaks(k)

LibrarySpec == LibraryInit /\ [][LibraryNext]_libraryVars

----------------------------------------------------------------------------
GoneIds == Ids(conversationList) \ Ids(conversationList')   \* what a step takes out

(* Only a deletion takes a conversation out of the list, or the end of an answer one that
   was begun after its question: a reload, which trusts what was stored, an import, a
   folder's deletion, a rename and an answer in the list as it was keep all of theirs, and
   none is there twice.  An answer may bring back one that was deleted. *)
NothingLost ==
    [][/\ \/ GoneIds = {} \/ lastStep' = "removal"
          \/ /\ lastStep' = "answer"
             /\ \E k \in HttpSends : stream'[k] # stream[k] /\ GoneIds \cap Ids(stream[k].before) = {}
       /\ Cardinality(Ids(conversationList')) = Len(conversationList')]_libraryVars

(* What a comment in handleSend says of its list of conversations, that it is not wiped by
   one that a closure kept: only a deletion takes a conversation out of it. *)
NoneWiped == [][GoneIds = {} \/ lastStep' = "removal"]_libraryVars
=============================================================================
