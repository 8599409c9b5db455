------------------------------- MODULE EventDb -------------------------------
(***************************************************************************)
(* Events from the client that sends one to the client that listens:       *)
(* EDatabaseManager, the requests 11 (get), 12 (set), 13 (listen) of the   *)
(* dispatcher, the responser's queues of events and of new listeners that  *)
(* the epoll thread empties once a turn, and the listening client with the *)
(* time_cache that gathers events until they are dispatched.               *)
(*                                                                         *)
(* An event with a header (type > 0) replaces the one stored under it, and *)
(* only the header is announced: the listener asks for the value.  Events  *)
(* of the other kind are kept for Ttl seconds and announced whole.  Events *)
(* are numbered; hdr = NoHeader marks the second kind.  One listener, which *)
(* can lose its connection; its descriptor is not given to another client  *)
(* (EpollServer has that).                                                 *)
(***************************************************************************)
EXTENDS Integers, Sequences, FiniteSets

CONSTANTS
  Headers, NoHeader,
  Writers,       \* workers that carry out requests to set an event
  Ttl,           \* seconds an event of the second kind is kept
  Past,          \* read_past_data_sec
  MaxEvents,     \* bound: events
  MaxSecs,       \* bound: seconds
  MaxLosses      \* bound: connections lost

ASSUME EventAssumption == NoHeader \notin Headers /\ {Ttl, Past} \subseteq Nat

VARIABLES
  clock,
  storage,     \* eventStorage: of a header, the event [id, at]
  queue,       \* eventQueue: events [id, at]
  count,       \* events so far
  writer,      \* of a writer: the event it has stored and not yet announced
  posted,      \* responser::events
  turn,        \* the epoll thread: about to take "listeners" or "events"
  toListen,    \* to_add_events_fd has the listener
  listening,   \* events_clients has it
  up,          \* it is connected
  req,         \* its request: "none", "slept" since registered, "done"
  mid,         \* the epoll thread took the listeners before req, and not the events
  chan,        \* messages on their way to it
  asked,       \* headers it asks the value of
  items,       \* event_items: headers gathered and not yet dispatched
  losses,
  \* history
  got,         \* events it was given
  tooOld,      \* events that its last fetch was too late for
  merged       \* headers of which an announcement met an item not yet dispatched

serverVars == <<storage, queue, writer, posted>>
clientVars == <<up, req, chan, asked, items, got, merged>>
eventVars == <<clock, count, losses, serverVars, turn, toListen, listening, mid, tooOld, clientVars>>

NoEvent == [id |-> 0, at |-> 0, hdr |-> NoHeader]

EventInit ==
  /\ clock = 0 /\ count = 0 /\ losses = 0
  /\ storage = [h \in Headers |-> NoEvent] /\ queue = {}
  /\ writer = [w \in Writers |-> NoEvent] /\ posted = <<>>
  /\ turn = "listeners" /\ toListen = FALSE /\ listening = FALSE /\ mid = FALSE
  /\ up = TRUE /\ req = "none" /\ chan = <<>> /\ asked = {} /\ items = {}
  /\ got = {} /\ tooOld = {} /\ merged = {}

Second ==
  /\ clock < MaxSecs /\ clock' = clock + 1
  /\ UNCHANGED <<count, losses, serverVars, turn, toListen, listening, mid, tooOld, clientVars>>

(***************************************************************************)
(* The server's workers                                                    *)
(***************************************************************************)
\* EDatabaseManager::insert ...
Insert(w, h) ==
  LET e == [id |-> count + 1, at |-> clock, hdr |-> h]
  IN  /\ writer[w].id = 0 /\ count < MaxEvents
      /\ count' = count + 1
      /\ IF h \in Headers THEN storage' = [storage EXCEPT ![h] = e] /\ UNCHANGED queue
         ELSE queue' = queue \cup {e} /\ UNCHANGED storage
      /\ writer' = [writer EXCEPT ![w] = e]
      /\ UNCHANGED <<clock, losses, posted, turn, toListen, listening, mid, tooOld, clientVars>>

\* ... and responser::add_event.
Announce(w) ==
  /\ writer[w].id # 0
  /\ posted' = Append(posted, writer[w])
  /\ writer' = [writer EXCEPT ![w] = NoEvent]
  /\ UNCHANGED <<clock, count, losses, storage, queue, turn, toListen, listening, mid, tooOld,
                 clientVars>>

\* EDatabaseManager::reset, called by the checker.
Reset ==
  /\ \E e \in queue : e.at < clock - Ttl
  /\ queue' = {e \in queue : e.at >= clock - Ttl}
  /\ UNCHANGED <<clock, count, losses, storage, writer, posted, turn, toListen, listening, mid,
                 tooOld, clientVars>>

\* Request 13: listen_events, then 100 ms of sleep.
Listen ==
  /\ up /\ req = "none" /\ req' = "slept"
  /\ toListen' = TRUE
  /\ mid' = (turn = "events")
  /\ UNCHANGED <<clock, count, losses, serverVars, turn, listening, tooOld, up, chan, asked, items,
                 got, merged>>

Stored == queue \cup {storage[h] : h \in {j \in Headers : storage[j].id # 0}}
Recent(e) == clock - e.at < Past

\* A message for each of the events, one after the other.
ValuesOf(E) ==
  LET M == {[what |-> "value", ev |-> e] : e \in E}
  IN  CHOOSE s \in [1 .. Cardinality(M) -> M] : \A m \in M : \E i \in DOMAIN s : s[i] = m

\* Mutant: there is no sleep.
FetchAtOnce ==
  /\ up /\ req = "slept" /\ req' = "done"
  /\ chan' = chan \o ValuesOf({e \in Stored : Recent(e)})
  /\ tooOld' = 1 .. count \ {e.id : e \in {e \in Stored : Recent(e)}}
  /\ UNCHANGED <<clock, count, losses, serverVars, turn, toListen, listening, mid, up, asked,
                 items, got, merged>>

\* fetchEvents and its answers.  The epoll thread takes the events right after the
\* listeners: it is taken to need less than the sleep for that.
Fetch ==
  /\ up /\ req = "slept" /\ ~mid /\ req' = "done"
  /\ chan' = chan \o ValuesOf({e \in Stored : Recent(e)})
  /\ tooOld' = 1 .. count \ {e.id : e \in {e \in Stored : Recent(e)}}
  /\ UNCHANGED <<clock, count, losses, serverVars, turn, toListen, listening, mid, up, asked,
                 items, got, merged>>

\* Request 11: retrieve.
Answer(h) ==
  /\ up /\ h \in asked
  /\ asked' = asked \ {h}
  /\ chan' = Append(chan, [what |-> "value", ev |-> storage[h]])
  /\ UNCHANGED <<clock, count, losses, serverVars, turn, toListen, listening, mid, tooOld, up, req,
                 items, got, merged>>

(***************************************************************************)
(* The epoll thread                                                        *)
(***************************************************************************)
TakeListeners ==
  /\ turn = "listeners" /\ turn' = "events"
  /\ listening' = (listening \/ (toListen /\ up))
  /\ toListen' = FALSE
  /\ UNCHANGED <<clock, count, losses, serverVars, mid, tooOld, clientVars>>

Announcement(e) == [what |-> IF e.hdr \in Headers THEN "header" ELSE "value", ev |-> e]

TakeEvents ==
  /\ turn = "events" /\ turn' = "listeners"
  /\ mid' = FALSE
  /\ chan' = IF listening THEN chan \o [i \in DOMAIN posted |-> Announcement(posted[i])] ELSE chan
  /\ posted' = <<>>
  /\ UNCHANGED <<clock, count, losses, storage, queue, writer, toListen, listening, tooOld, up, req,
                 asked, items, got, merged>>

(***************************************************************************)
(* The listening client                                                    *)
(***************************************************************************)
\* time_cache::update_or_add, and what get_old_events_and_clear leaves.
UpdateOrAdd(h) == items' = items \cup {h}
TakeOld(h) == items' = items \ {h}

\* The read callback for an announced header: for a new item it asks for the value.
Handle(h) ==
  /\ UpdateOrAdd(h)
  /\ IF h \in items THEN merged' = merged \cup {h} /\ UNCHANGED asked
     ELSE asked' = asked \cup {h} /\ merged' = merged \ {h}

ReceiveEvent ==
  LET m == Head(chan)
  IN  /\ up /\ chan # <<>>
      /\ chan' = Tail(chan)
      /\ IF m.what = "header" THEN Handle(m.ev.hdr) /\ UNCHANGED got
         ELSE got' = got \cup {m.ev.id} /\ UNCHANGED <<items, asked, merged>>
      /\ UNCHANGED <<clock, count, losses, serverVars, turn, toListen, listening, mid, tooOld, up,
                     req>>

\* dispatch_events hands an item to the callback and clears it.
Dispatch(h) ==
  /\ h \in items /\ TakeOld(h)
  /\ UNCHANGED <<clock, count, losses, serverVars, turn, toListen, listening, mid, tooOld, up, req,
                 chan, asked, got, merged>>

\* The connection is lost, with what is on its way; the client connects again and
\* its set_event_listener sends request 13 anew.
Lose ==
  /\ up /\ losses < MaxLosses /\ losses' = losses + 1
  /\ up' = FALSE /\ listening' = FALSE /\ req' = "none"
  /\ chan' = <<>> /\ asked' = {} /\ mid' = FALSE
  /\ UNCHANGED <<clock, count, serverVars, turn, toListen, tooOld, items, got, merged>>

ConnectAgain ==
  /\ ~up /\ up' = TRUE
  /\ UNCHANGED <<clock, count, losses, serverVars, turn, toListen, listening, mid, tooOld, req, chan,
                 asked, items, got, merged>>

EventNext ==
  \/ Second \/ Reset \/ Listen \/ Fetch \/ TakeListeners \/ TakeEvents \/ ReceiveEvent
  \/ Lose \/ ConnectAgain
  \/ \E w \in Writers : Announce(w) \/ \E h \in Headers \cup {NoHeader} : Insert(w, h)
  \/ \E h \in Headers : Answer(h) \/ Dispatch(h)

EventSpec == EventInit /\ [][EventNext]_eventVars

(***************************************************************************)
(* Properties                                                              *)
(***************************************************************************)
OnTheWay(e) ==
  \/ \E w \in Writers : writer[w] = e
  \/ \E i \in DOMAIN posted : posted[i] = e
  \/ \E i \in DOMAIN chan : chan[i].ev.id = e.id

\* An event that is kept reaches a listener that has made its request and stays
\* connected: by the fetch or by the announcement, whichever way the request, the
\* insertion and the turns of the epoll thread meet, and after a new connection too;
\* only what the fetch was too late for is missed.  The value last stored under a
\* header reaches it as well, or an announcement or a request is still on its way;
\* unless the announcement met one of the same header that was not yet dispatched,
\* for which the value is not asked again.
EventsReachListener ==
  up /\ req = "done" =>
    /\ \A e \in queue : e.id \in got \cup tooOld \/ OnTheWay(e)
    /\ \A h \in Headers : LET e == storage[h]
                          IN  \/ e.id \in got \cup tooOld \cup {0}
                              \/ OnTheWay(e) \/ h \in asked \cup merged
==============================================================================
