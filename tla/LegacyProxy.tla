----------------------------- MODULE LegacyProxy ----------------------------
(***************************************************************************)
(* The gateway of the legacy UI (ui/proxy/server.js and                    *)
(* response-processors.js): each request is refused, passed on, or fetched *)
(* from the backend and its answer rewritten, and every await on the way   *)
(* may fail; each socket is proxied to the backend or to Next; a signal    *)
(* ends it all.  What a stream's lines become is in LineStreams.           *)
(***************************************************************************)
EXTENDS Integers

CONSTANTS
    Gets,       \* requests of the browser
    Upgrades,   \* its requests for a socket
    Dialogs     \* values of the conversation-id header

Routes == {"options", "forbidden", "stream", "whole", "rag", "passed"}

VARIABLES
    get,           \* what a request is at: its route and conversation
    reply,         \* its response: headers written, ended, and how often each
    initialized,   \* initializedCaRagConversations
    socket,        \* what a socket is at
    gateway        \* the server: up, closing, or its process ended

answerVars == <<get, reply, initialized>>
proxyVars  == <<answerVars, socket, gateway>>

ProxyInit ==
    /\ get = [g \in Gets |-> [at |-> "idle", route |-> "none", dialog |-> "none"]]
    /\ reply = [g \in Gets |-> [heads |-> 0, ends |-> 0, open |-> TRUE]]
    /\ initialized = {}
    /\ socket = [w \in Upgrades |-> "idle"]
    /\ gateway = "up"

----------------------------------------------------------------------------
At(g, where) == get' = [get EXCEPT ![g].at = where]

WriteHead(r)     == [r EXCEPT !.heads = @ + 1]
End(r)           == [r EXCEPT !.ends = @ + 1]
HeadUnlessSent(r) == IF r.heads = 0 THEN WriteHead(r) ELSE r

Replies(g, r) == reply' = [reply EXCEPT ![g] = r] /\ At(g, "over") /\ UNCHANGED initialized

\* The routing of createServer.
Arrives(g) ==
    \E route \in Routes, d \in Dialogs :
        /\ get[g].at = "idle"
        /\ get' = [get EXCEPT ![g] =
              [route |-> route, dialog |-> d,
               at |-> CASE route \in {"options", "forbidden"}     -> "over"
                        [] route = "passed"                       -> "passed"
                        [] route = "rag" /\ d \notin initialized  -> "init"
                        [] OTHER                                  -> "fetching"]]
        /\ reply' = IF route \in {"options", "forbidden"}
                      THEN [reply EXCEPT ![g] = End(WriteHead(@))] ELSE reply
        /\ UNCHANGED initialized

\* doCaRagWithInit: /init is awaited before /call, unless it was answered before.
InitReturns(g) ==
    /\ get[g].at = "init"
    /\ initialized' = initialized \cup {get[g].dialog}
    /\ At(g, "fetching") /\ UNCHANGED reply
InitRefused(g) == get[g].at = "init" /\ Replies(g, End(HeadUnlessSent(reply[g])))

\* The processors: the status of an error is passed on, and its body awaited; a stream
\* has its head at once, another answer when its body is there.
Fetched(g) ==
    /\ get[g].at = "fetching"
    /\ \E ok \in BOOLEAN :
          /\ At(g, IF ~ok THEN "error" ELSE IF get[g].route = "stream" THEN "piping" ELSE "body")
          /\ reply' = IF ok /\ get[g].route # "stream" THEN reply
                      ELSE [reply EXCEPT ![g] = WriteHead(@)]
    /\ UNCHANGED initialized

Body(g)  == get[g].at = "body" /\ Replies(g, End(WriteHead(reply[g])))
Error(g) == get[g].at = "error" /\ Replies(g, End(reply[g]))

\* [DONE], the end or the failure of the stream: finally ends the response; after
\* [DONE] it was ended already, and end() without data is nothing.
Piped(g) == get[g].at = "piping" /\ Replies(g, End(reply[g]))

\* Every await of a fetched route may throw into the same catch block.
MutantBadGateway(g) ==  \* headersSent is not looked at
    /\ get[g].at \in {"fetching", "body", "error"}
    /\ Replies(g, End(WriteHead(reply[g])))
BadGateway(g) ==
    /\ get[g].at \in {"fetching", "body", "error"}
    /\ Replies(g, End(HeadUnlessSent(reply[g])))

\* http-proxy: the head is passed on, then the body; the error handler comes at any
\* time, also when the response has ended.
PassedHead(g) ==
    /\ get[g].at = "passed" /\ reply[g].heads = 0
    /\ reply' = [reply EXCEPT ![g] = WriteHead(@)]
    /\ UNCHANGED <<get, initialized>>
PassedBody(g) ==
    /\ get[g].at = "passed" /\ reply[g].heads = 1 /\ reply[g].ends = 0
    /\ reply' = [reply EXCEPT ![g] = End(@)]
    /\ UNCHANGED <<get, initialized>>
ProxyError(g) ==
    /\ get[g].at = "passed"
    /\ Replies(g, IF reply[g].ends = 0 THEN End(HeadUnlessSent(reply[g])) ELSE reply[g])

\* The browser goes: nothing tells the backend, and what is written is dropped.
BrowserLeaves(g) ==
    /\ get[g].at # "idle" /\ reply[g].open
    /\ reply' = [reply EXCEPT ![g].open = FALSE]
    /\ UNCHANGED <<get, initialized>>

\* http-proxy's upgrade to the backend or to Next; an error is told to the browser of
\* a backend's socket only, and its end of the socket destroyed.
Upgrade(w) ==
    /\ gateway = "up" /\ socket[w] = "idle"
    /\ \E to \in {"backend", "next"} : socket' = [socket EXCEPT ![w] = to]
    /\ UNCHANGED <<answerVars, gateway>>
UpgradeFails(w) ==
    /\ socket[w] \in {"backend", "next"} /\ gateway # "ended"
    /\ socket' = [socket EXCEPT ![w] = IF @ = "backend" THEN "refused" ELSE "closed"]
    /\ UNCHANGED <<answerVars, gateway>>
Upgraded(w) ==
    /\ socket[w] \in {"backend", "next"} /\ socket' = [socket EXCEPT ![w] = "open"]
    /\ UNCHANGED <<answerVars, gateway>>
SocketEnds(w) ==
    /\ socket[w] = "open" /\ socket' = [socket EXCEPT ![w] = "closed"]
    /\ UNCHANGED <<answerVars, gateway>>

\* cleanExit: the server takes no more connections and closes those it has, but for
\* the upgraded ones; it ends when none is left, or after two seconds.
CleanExit ==
    /\ gateway = "up" /\ gateway' = "closing"
    /\ reply' = [g \in Gets |-> [reply[g] EXCEPT !.open = FALSE]]
    /\ UNCHANGED <<get, initialized, socket>>
Linked(w) == socket[w] \in {"backend", "next", "open"}
ServerCloses ==
    /\ gateway = "closing" /\ \A w \in Upgrades : ~Linked(w)
    /\ gateway' = "ended" /\ UNCHANGED <<answerVars, socket>>
ForceExit ==
    /\ gateway = "closing" /\ gateway' = "ended"
    /\ socket' = [w \in Upgrades |-> IF Linked(w) THEN "closed" ELSE socket[w]]
    /\ UNCHANGED answerVars

Proxies(g) ==
    \/ gateway = "up" /\ Arrives(g)
    \/ InitReturns(g) \/ InitRefused(g) \/ Fetched(g) \/ Body(g) \/ Error(g)
    \/ Piped(g) \/ BadGateway(g) \/ PassedHead(g) \/ PassedBody(g) \/ ProxyError(g)
    \/ BrowserLeaves(g)

ProxyNext ==
    \/ gateway # "ended" /\ UNCHANGED <<socket, gateway>> /\ \E g \in Gets : Proxies(g)
    \/ \E w \in Upgrades : Upgrade(w) \/ UpgradeFails(w) \/ Upgraded(w) \/ SocketEnds(w)
    \/ CleanExit \/ ServerCloses \/ ForceExit

ProxySpec == ProxyInit /\ [][ProxyNext]_proxyVars

----------------------------------------------------------------------------
(* However its fetch, its body or its stream fails, a request has one head and one end,
   the head first; and a conversation is called only after its initialisation was
   answered, by this request or by another. *)
AnsweredOnce ==
    \A g \in Gets :
        /\ reply[g].heads <= 1 /\ reply[g].ends <= reply[g].heads
        /\ get[g].at = "over" => reply[g].ends = 1
        /\ get[g].route = "rag" /\ get[g].at \in {"fetching", "body"}
              => get[g].dialog \in initialized
=============================================================================
