----------------------------- MODULE DataStreams -----------------------------
(***************************************************************************)
(* The live text streams of the legacy UI: pages/api/update-data-stream.ts *)
(* keeps the live text of every stream and the finalized entries in the    *)
(* process; the chat page discovers the streams (DataStreamManager.tsx)    *)
(* and polls the text and the last entry of the selected one               *)
(* (DataStreamDisplay.tsx), pages/database-updates.tsx polls the entries.  *)
(* A text is the number of the post it came with, 0 the empty one; stream  *)
(* 0 is 'default', the one of a post that names none.                      *)
(***************************************************************************)
EXTENDS Integers, SequencesExt

CONSTANTS
    KnownStreams, \* the streams, with 0, in the order of their names
    Uuids,       \* the ids the backend gives to finalized entries
    Times,       \* the times of finalized entries
    MaxEvents,   \* bound: posts, confirmations, restarts of the server and failed polls
    MaxPicks,    \* bound: times the user picks a stream
    MaxPolls     \* bound: polls under way at once

Views  == {"text", "last", "page", "none"}   \* "none": no page that polls is open
NoText == 0 - 1      \* the stream is not known
Unset   == 0 - 2
NoPoll   == [at |-> "idle", stream |-> 0, got |-> Unset]

VARIABLES
    streamTexts, finalizedEntries,   \* the server's
    events, picks,
    dataStreams,                     \* the streams the browser has discovered
    discovery,                       \* the streams a discovery has read, or Unset
    selectedStream,                  \* of the conversation, or Unset
    view,                            \* which poll this behaviour follows
    poll,                            \* the polls of the view
    viewed                           \* what the view shows: a text, a time, or the entries

streamVars == <<streamTexts, finalizedEntries, events, picks, dataStreams, discovery,
                selectedStream, view, poll, viewed>>

StreamsInit ==
    /\ streamTexts = [s \in KnownStreams |-> NoText] /\ finalizedEntries = <<>>
    /\ events = 0 /\ picks = 0
    /\ dataStreams = {} /\ discovery = {Unset} /\ selectedStream = Unset
    /\ view \in Views
    /\ poll = [p \in 1 .. MaxPolls |-> NoPoll]
    /\ viewed = IF view = "page" THEN <<>> ELSE IF view = "last" THEN Unset ELSE 0

----------------------------------------------------------------------------
\* POST: a live text replaces the stream's; a finalized one becomes an entry, in the
\* order of streams and times, and empties the live text.
Sorted(entries, e) ==
    LET before == {i \in DOMAIN entries :
                     \/ entries[i].stream < e.stream
                     \/ entries[i].stream = e.stream /\ entries[i].time <= e.time}
    IN  InsertAt(entries, Cardinality(before) + 1, e)

PostText(s, finalized) ==
    IF ~finalized
      THEN /\ streamTexts' = [streamTexts EXCEPT ![s] = events + 1]
           /\ UNCHANGED finalizedEntries
      ELSE /\ \E t \in Times, u \in Uuids :
                finalizedEntries' = Sorted(finalizedEntries,
                    [stream |-> s, time |-> t, uuid |-> u, pending |-> TRUE])
           /\ streamTexts' = [streamTexts EXCEPT ![s] = IF @ = NoText THEN NoText ELSE 0]

\* PATCH: the first entry with the uuid; 404 without one.
Patch(u, unconfirmed) ==
    \E i \in DOMAIN finalizedEntries :
        /\ finalizedEntries[i].uuid = u
        /\ \A j \in 1 .. i - 1 : finalizedEntries[j].uuid # u
        /\ finalizedEntries' = [finalizedEntries EXCEPT ![i].pending = unconfirmed]
        /\ UNCHANGED streamTexts

ServerRestarts ==
    /\ streamTexts' = [s \in KnownStreams |-> NoText] /\ finalizedEntries' = <<>>

BackendCalls ==
    /\ events < MaxEvents /\ events' = events + 1
    /\ \/ \E s \in KnownStreams, finalized \in BOOLEAN : PostText(s, finalized)
       \/ \E u \in Uuids, unconfirmed \in BOOLEAN : Patch(u, unconfirmed)
       \/ ServerRestarts
    /\ UNCHANGED <<picks, dataStreams, discovery, selectedStream, view, poll, viewed>>

----------------------------------------------------------------------------
\* DataStreamManager: the streams the server knows, every 2 s.
Discover ==
    /\ view \in {"text", "last"} /\ discovery = {Unset}
    /\ discovery' = {s \in KnownStreams : streamTexts[s] # NoText}
    /\ UNCHANGED <<streamTexts, finalizedEntries, events, picks, dataStreams, selectedStream,
                   view, poll, viewed>>

Discovered ==
    /\ discovery # {Unset}
    /\ dataStreams' = discovery /\ discovery' = {Unset}
    /\ UNCHANGED <<streamTexts, finalizedEntries, events, picks, selectedStream, view, poll, viewed>>

\* The stream of the display: the conversation's, else the first one, else 'default'.
Selected(picked, known) ==
    IF picked # Unset THEN picked
    ELSE IF known = {} THEN 0 ELSE CHOOSE s \in known : \A t \in known : s <= t

\* handleDataStreamChange: the text of the old stream stays until a poll returns.
HandleDataStreamChange ==
    /\ picks < MaxPicks /\ picks' = picks + 1
    /\ selectedStream' \in dataStreams
    /\ UNCHANGED <<streamTexts, finalizedEntries, events, dataStreams, discovery, view, poll, viewed>>

\* The interval of the view: an effect of the selected stream; the page asks for all.
MutantPolled == dataStreams \cup {0}  \* the interval keeps a stream that was selected once
Polled == {Selected(selectedStream, dataStreams)}

PollView ==
    /\ view # "none"
    /\ \E p \in DOMAIN poll, s \in Polled :
        /\ poll[p] = NoPoll /\ \A q \in 1 .. p - 1 : poll[q] # NoPoll
        /\ poll' = [poll EXCEPT ![p] = [at |-> "asked", stream |-> s, got |-> Unset]]
    /\ UNCHANGED <<streamTexts, finalizedEntries, events, picks, dataStreams, discovery,
                   selectedStream, view, viewed>>

\* GET with ?stream, with ?type=finalized and ?stream, or with ?type=finalized.
LastUpdate(entries, s) ==
    LET times == {entries[i].time : i \in {j \in DOMAIN entries : entries[j].stream = s}}
    IN  IF times = {} THEN Unset ELSE CHOOSE t \in times : \A u \in times : u <= t

Get(v, s) ==
    CASE v = "text" -> IF streamTexts[s] = NoText THEN 0 ELSE streamTexts[s]
      [] v = "last" -> LastUpdate(finalizedEntries, s)
      [] v = "page" -> finalizedEntries
      [] v = "none" -> 0

RouteServes(p) ==
    /\ poll[p].at = "asked"
    /\ poll' = [poll EXCEPT ![p].at = "answered", ![p].got = Get(view, poll[p].stream)]
    /\ UNCHANGED <<streamTexts, finalizedEntries, events, picks, dataStreams, discovery,
                   selectedStream, view, viewed>>

\* Also the answer to a poll of a stream that is not selected any more is shown.
ViewReceives(p) ==
    /\ poll[p].at = "answered"
    /\ viewed' = poll[p].got
    /\ poll' = [poll EXCEPT ![p] = NoPoll]
    /\ UNCHANGED <<streamTexts, finalizedEntries, events, picks, dataStreams, discovery,
                   selectedStream, view>>

\* A poll that fails leaves the text and the page as they are, and takes the time away.
PollFails(p) ==
    /\ poll[p].at = "asked" /\ events < MaxEvents /\ events' = events + 1
    /\ viewed' = IF view = "last" THEN Unset ELSE viewed
    /\ poll' = [poll EXCEPT ![p] = NoPoll]
    /\ UNCHANGED <<streamTexts, finalizedEntries, picks, dataStreams, discovery,
                   selectedStream, view>>

StreamsNext ==
    \/ BackendCalls \/ Discover \/ Discovered \/ HandleDataStreamChange \/ PollView
    \/ \E p \in DOMAIN poll : RouteServes(p) \/ ViewReceives(p) \/ PollFails(p)

\* The intervals go on, and every request returns.
StreamsFairness ==
    /\ WF_streamVars(Discover \/ Discovered) /\ WF_streamVars(PollView)
    /\ \A p \in 1 .. MaxPolls : WF_streamVars(RouteServes(p) \/ ViewReceives(p))

----------------------------------------------------------------------------
(* When posts and picks have ceased, the display shows in the end, and from then on, the
   live text, or the last entry's time, of the selected stream, and the page the entries:
   no late answer of another stream, or from before a restart, stays on the screen. *)
ViewsCatchUp ==
    view # "none" => <>[](viewed = Get(view, Selected(selectedStream, dataStreams)))
=============================================================================
