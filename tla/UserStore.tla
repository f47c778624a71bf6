------------------------------ MODULE UserStore -----------------------------
(***************************************************************************)
(* The users of the web UI (lib/users.ts and the routes under              *)
(* app/api/users): one JSON file, read whole and written whole, by         *)
(* requests of administrators and by logins.  A request is atomic between  *)
(* two awaits; a file that is being written is no JSON text.               *)
(***************************************************************************)
EXTENDS Integers, FiniteSets

CONSTANTS
    Requests,   \* requests to the routes
    Emails,     \* e-mail addresses, normalised
    Founder     \* the address of the administrator the file begins with

VARIABLES
    users,      \* the records of the file
    torn,       \* the file is being written, or was left without its end
    request     \* what a request is at, and the records it will write

userVars == <<users, torn, request>>

Admin == [id |-> 0, email |-> Founder, active |-> TRUE]

UsersInit ==
    /\ users = {Admin} /\ torn = FALSE
    /\ request = [r \in Requests |-> [at |-> "idle", writes |-> {}]]

----------------------------------------------------------------------------
\* requireAdmin of the routes looks at the session token, not at the file.  A file
\* that cannot be parsed fails the request.
RequestEnds(r)      == request' = [request EXCEPT ![r] = [at |-> "over", writes |-> {}]]
PreparesUsers(r, us) == request' = [request EXCEPT ![r] = [at |-> "ready", writes |-> us]]

Drawn == {u.id : u \in users} \cup {u.id : u \in UNION {request[r].writes : r \in Requests}}

\* createUser reads: an address that is taken is refused.
MutantCreateUser(r, email) ==  \* only the addresses of active users are taken
    /\ request[r].at = "idle"
    /\ IF torn \/ \E u \in users : u.active /\ u.email = email THEN RequestEnds(r)
       ELSE LET id == Cardinality(Drawn)
            IN  PreparesUsers(r, users \cup {[id |-> id, email |-> email, active |-> TRUE]})
    /\ UNCHANGED <<users, torn>>
CreateUser(r, email) ==
    /\ request[r].at = "idle"
    /\ IF torn \/ \E u \in users : u.email = email THEN RequestEnds(r)
       ELSE LET id == Cardinality(Drawn)
            IN  PreparesUsers(r, users \cup {[id |-> id, email |-> email, active |-> TRUE]})
    /\ UNCHANGED <<users, torn>>

\* setUserActive reads: the first user with that id; 404 without one.
SetUserActive(r, id, active) ==
    /\ request[r].at = "idle"
    /\ IF torn \/ \A u \in users : u.id # id THEN RequestEnds(r)
       ELSE PreparesUsers(r, {IF u.id = id THEN [u EXCEPT !.active = active] ELSE u : u \in users})
    /\ UNCHANGED <<users, torn>>

\* fs.writeFile: truncated, then written; over the text of another writer a shorter
\* text leaves the end of the longer one behind.
TruncatesUsers(r) ==
    /\ request[r].at = "ready"
    /\ request' = [o \in Requests |->
          IF o = r \/ request[o].at = "overwriting" THEN [request[o] EXCEPT !.at = "writing"]
          ELSE request[o]]
    /\ torn' = TRUE
    /\ UNCHANGED users

WritesUsers(r) ==
    /\ request[r].at \in {"writing", "overwriting"}
    /\ users' = request[r].writes
    /\ torn' \in (IF request[r].at = "writing" THEN {FALSE} ELSE BOOLEAN)
    /\ request' = [o \in Requests |->
          IF o = r THEN [at |-> "over", writes |-> {}]
          ELSE IF request[o].at = "writing" THEN [request[o] EXCEPT !.at = "overwriting"]
          ELSE request[o]]

UsersNext ==
    \E r \in Requests :
        \/ \E email \in Emails : CreateUser(r, email)
        \/ \E u \in users, active \in BOOLEAN : SetUserActive(r, u.id, active)
        \/ TruncatesUsers(r) \/ WritesUsers(r)

UsersSpec == UsersInit /\ [][UsersNext]_userVars

----------------------------------------------------------------------------
(* No address belongs to two users, in the file or in what is about to be written to
   it: of two requests that find an address free, the later write drops the user the
   earlier one added. *)
EmailsUnique ==
    \A us \in {users} \cup {request[r].writes : r \in Requests} :
        \A u, v \in us : u.email = v.email => u = v
=============================================================================
