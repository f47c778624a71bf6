---------------------------- MODULE SessionStore ----------------------------
(***************************************************************************)
(* The chat sessions of the web UI (lib/sessions.ts and the routes under   *)
(* app/api/sessions): one JSON file per session, read whole and written    *)
(* whole by requests that share one event loop and no lock.  A request is  *)
(* atomic between two awaits.  fs.writeFile truncates the file, then fills *)
(* it: a reader in between finds no JSON, and takes the session for absent.*)
(***************************************************************************)
EXTENDS Integers, FiniteSets, Sequences

CONSTANTS
    Keys,     \* session keys
    Users,    \* users of the UI
    Admins,   \* those with role "admin"
    Calls,    \* requests to the session routes
    Chats,    \* requests to the chat route, each of which appends one exchange
    KeyOf,    \* the session of a chat request
    AskedBy,  \* the user of a chat request
    Reactions,  \* "up", "down"
    Absent,   \* no file, no session
    Torn      \* a file that holds no JSON text

Tasks == Calls \cup Chats

\* SYSTEM_CREATOR, also of a record without createdBy; the id of a user is a random UUID.
System == "system"

ASSUME SessionsAssumption ==
    /\ Admins \subseteq Users
    /\ Calls \cap Chats = {}
    /\ Reactions \subseteq {"up", "down"}
    /\ KeyOf \in [Chats -> Keys] /\ AskedBy \in [Chats -> Users]
    /\ System \notin Users

Titles == {"default", "asked", "given"}

VARIABLES
    file,   \* the file of a session: Absent, Torn or the record it holds
    task    \* what a request is at, on which session, for whom, the record it
            \* has read or will write, and the state of its file handle

storeVars == <<file, task>>

\* An exchange of the message log.  An empty answer is not a message: the next
\* read drops it.
Exchange(c, words, failed) ==
    [chat |-> c, words |-> words, failed |-> failed, answered |-> TRUE, liked |-> "no"]

Idle == [at |-> "idle", op |-> "none", key |-> "none", user |-> "none",
         record |-> Absent, handle |-> "none"]

StoreInit ==
    /\ file = [k \in Keys |-> Absent]
    /\ task = [t \in Tasks |-> Idle]

----------------------------------------------------------------------------
\* normalizeStoredSession: messages without content are not kept.
Kept(e) == [e EXCEPT !.answered = e.answered /\ (e.words > 0 \/ e.failed)]
Normalized(s) == [s EXCEPT !.log = [i \in DOMAIN s.log |-> Kept(s.log[i])]]

\* A missing file and a file that is no JSON are both no session.
Read(k) == IF file[k] \in {Absent, Torn} THEN Absent ELSE Normalized(file[k])

Blank(owner) == [owner |-> owner, title |-> "default", log |-> <<>>]

Appended(k, e) ==
    LET s == IF Read(k) = Absent THEN Blank(System) ELSE Read(k)
    IN  [owner |-> s.owner,
         title |-> IF s.title = "default" THEN "asked" ELSE s.title,
         log   |-> Append(s.log, e)]

Prepares(t, op, k, u, record) ==
    task' = [task EXCEPT ![t] = [at |-> "ready", op |-> op, key |-> k, user |-> u,
                                 record |-> record, handle |-> "none"]]
Ends(t, op, k, u) ==
    task' = [task EXCEPT ![t] = [at |-> "over", op |-> op, key |-> k, user |-> u,
                                 record |-> Absent, handle |-> "none"]]

\* POST /api/sessions: the key is a fresh random one.
CreateSession(t, k, u) ==
    /\ task[t].at = "idle"
    /\ file[k] = Absent /\ \A o \in Tasks : task[o].key # k
    /\ Prepares(t, "create", k, u, Blank(u))
    /\ UNCHANGED file

\* The end of a chat request: a session nobody created gets no creator.
AppendReads(c, e) ==
    /\ task[c].at = "idle"
    /\ Prepares(c, "append", KeyOf[c], AskedBy[c], Appended(KeyOf[c], e))
    /\ UNCHANGED file

\* PATCH: of a session that is not there, nothing; a blank title is the default.
RenameReads(t, k) ==
    /\ task[t].at = "idle"
    /\ IF Read(k) = Absent THEN Ends(t, "rename", k, "none")
       ELSE \E title \in {"given", "default"} :
                Prepares(t, "rename", k, "none", [Read(k) EXCEPT !.title = title])
    /\ UNCHANGED file

Liked(e, reaction) == [e EXCEPT !.liked = reaction]

\* POST feedback on the answer of chat c, if the session has it.
FeedbackReads(t, k, c) ==
    LET s == Read(k)
        Rated == {i \in DOMAIN s.log : s.log[i].chat = c /\ s.log[i].answered}
    IN  /\ task[t].at = "idle"
        /\ IF s = Absent \/ Rated = {} THEN Ends(t, "feedback", k, "none")
           ELSE \E reaction \in Reactions :
                    Prepares(t, "feedback", k, "none",
                             [s EXCEPT !.log = [i \in DOMAIN s.log |->
                                 IF i \in Rated THEN Liked(s.log[i], reaction) ELSE s.log[i]]])
        /\ UNCHANGED file

\* GET history, and each row of GET /api/sessions: what is read is the answer.
GetHistory(t, k) ==
    /\ task[t].at = "idle"
    /\ Ends(t, "history", k, "none")
    /\ UNCHANGED file

\* fs.writeFile opens the file and truncates it ...
OpenFile(t) ==
    LET k == task[t].key
    IN  /\ task[t].at = "ready" /\ task[t].op # "remove"
        /\ file' = [file EXCEPT ![k] = Torn]
        /\ task' = [o \in Tasks |->
               IF o = t THEN [task[t] EXCEPT !.at = "writing", !.handle = "empty"]
               ELSE IF task[o].key = k /\ task[o].handle = "filled"
                    THEN [task[o] EXCEPT !.handle = "empty"]
                    ELSE task[o]]

\* ... and writes its text.  Over the text of another writer of the same file, a
\* shorter one leaves the tail of the longer.  A file that was removed takes the
\* text with it.
WriteFile(t) ==
    LET k == task[t].key
    IN  /\ task[t].at = "writing"
        /\ CASE task[t].handle = "empty"   -> file' = [file EXCEPT ![k] = task[t].record]
             [] task[t].handle = "filled"  ->
                    \E left \in {task[t].record, Torn} : file' = [file EXCEPT ![k] = left]
             [] task[t].handle = "removed" -> file' = file
        /\ task' = [o \in Tasks |->
               IF o = t THEN [task[t] EXCEPT !.at = "over", !.record = Absent, !.handle = "none"]
               ELSE IF task[o].at = "writing" /\ task[o].key = k
                       /\ task[o].handle = "empty" /\ task[t].handle # "removed"
                    THEN [task[o] EXCEPT !.handle = "filled"]
                    ELSE task[o]]

\* DELETE: 404 for a session that is not read, 403 for anybody but its creator
\* and the administrators.
MutantRemoveChecks(t, k, u) ==  \* a session of the system is everybody's
    /\ task[t].at = "idle"
    /\ IF Read(k) # Absent /\ (Read(k).owner \in {u, System} \/ u \in Admins)
         THEN Prepares(t, "remove", k, u, Absent)
         ELSE Ends(t, "remove", k, u)
    /\ UNCHANGED file
RemoveChecks(t, k, u) ==
    /\ task[t].at = "idle"
    /\ IF Read(k) # Absent /\ (Read(k).owner = u \/ u \in Admins)
         THEN Prepares(t, "remove", k, u, Absent)
         ELSE Ends(t, "remove", k, u)
    /\ UNCHANGED file

\* fs.unlink: writers that have the file open go on in a file without a name.
Unlink(t) ==
    LET k == task[t].key
    IN  /\ task[t].at = "ready" /\ task[t].op = "remove"
        /\ file' = [file EXCEPT ![k] = Absent]
        /\ task' = [o \in Tasks |->
               IF o = t THEN [task[t] EXCEPT !.at = "over", !.record = Absent, !.handle = "none"]
               ELSE IF task[o].at = "writing" /\ task[o].key = k
                    THEN [task[o] EXCEPT !.handle = "removed"]
                    ELSE task[o]]

Writes(t) == OpenFile(t) \/ WriteFile(t)

SessionRoutes(t) == \E k \in Keys :
    \/ RenameReads(t, k)
    \/ \E c \in Chats : FeedbackReads(t, k, c)
    \/ GetHistory(t, k)
    \/ \E u \in Users : CreateSession(t, k, u) \/ RemoveChecks(t, k, u)

StoreNext ==
    \/ \E t \in Calls : SessionRoutes(t) \/ Unlink(t)
    \/ \E t \in Tasks : Writes(t)

----------------------------------------------------------------------------
Exchanges == [chat : Chats, words : Nat, failed : BOOLEAN, answered : BOOLEAN,
              liked : {"no", "up", "down"}]
Records == [owner : Users \cup {System}, title : Titles, log : Seq(Exchanges)]

StoreTypeOK ==
    /\ file \in [Keys -> {Absent, Torn} \cup Records]
    /\ task \in [Tasks ->
          [at : {"idle", "ready", "writing", "over"},
           op : {"none", "create", "append", "rename", "feedback", "history", "remove"},
           key : Keys \cup {"none"}, user : Users \cup {"none"},
           record : {Absent} \cup Records,
           handle : {"none", "empty", "filled", "removed"}]]

CreatedBy(k, u) == \E t \in Calls : task[t].op = "create" /\ task[t].key = k /\ task[t].user = u

(* A session file disappears only on the request of an administrator or of the user
   who created that session: whatever was rewritten between the ownership check and
   the unlink, a session that lost its creator is nobody's to delete. *)
RemovedByItsCreator ==
    [][\A t \in Calls : task[t].op = "remove" /\ task[t].at = "ready" /\ task'[t].at = "over"
           => task[t].user \in Admins \/ CreatedBy(task[t].key, task[t].user)]_storeVars

=============================================================================
