----------------------------- MODULE HttpServer -----------------------------
(***************************************************************************)
(* The HTTP server that replication runs on (SimpleWeb::Server<HTTP>, as   *)
(* hstf_server uses it: no on_error, no on_upgrade).  A connection is a    *)
(* chain of asynchronous operations; each handler runs as one step, on any *)
(* thread of the io_service, and so do the handlers of the timers.  stop() *)
(* and the resource function run beside them.                              *)
(*                                                                         *)
(* The bytes of a request are tokens: the header with its blank line, the  *)
(* units of the content, the size line of a chunk, and the two bytes of    *)
(* the line end after a chunk.  A read that goes on until a mark is met    *)
(* takes all that has come by then; clients send token by token, so every  *)
(* cut is possible.                                                        *)
(***************************************************************************)
EXTENDS Integers, Sequences, FiniteSets, SequencesExt

CONSTANTS
  Conns,      \* connections that are made, each once
  Scripts,    \* what a client may send on a connection: sequences of requests
              \* [kind, parts, known, close]
  MaxBody,    \* streambuf.max_size()
  MaxSends    \* bound: calls of Response::send for one response

VARIABLES
  conn,       \* the connections
  http,       \* the server: init, listen, closing, clearing, ended or threw
  stopping    \* hstf_server::stop: no, early (it found no acceptor), called or joined

httpVars == <<conn, http, stopping>>

(***************************************************************************)
(* Requests                                                                *)
(***************************************************************************)
Header(i) == [t |-> "header", i |-> i, n |-> 0]
Unit(i) == [t |-> "unit", i |-> i, n |-> 0]
Size(i, n) == [t |-> "size", i |-> i, n |-> n]
CR == [t |-> "cr", i |-> 0, n |-> 0]
LF == [t |-> "lf", i |-> 0, n |-> 0]

Units(i, n) == [k \in 1 .. n |-> Unit(i)]
ChunkTokens(i, n) == <<Size(i, n)>> \o Units(i, IF n < 0 THEN 0 ELSE n) \o <<CR, LF>>

\* The size of the content; the sizes of the chunks that are sent are req.parts
Total(req) == FoldLeft(LAMBDA a, n : a + n, 0, req.parts)

Tokens(req, i) ==
  <<Header(i)>> \o (IF req.kind = "chunked"
                    THEN FlattenSeq([k \in 1 .. Len(req.parts) |-> ChunkTokens(i, req.parts[k])]) \o ChunkTokens(i, 0)
                    ELSE Units(i, Total(req)))

Has(s, t) == \E k \in DOMAIN s : s[k].t = t
Rest(s, n) == SubSeq(s, n + 1, Len(s))

(***************************************************************************)
(* State of a connection                                                   *)
(***************************************************************************)
NoConn == [script |-> <<>>, begun |-> 0, out |-> <<>>, wire |-> <<>>, peer |-> TRUE,
           ph |-> "none", buf |-> <<>>, body |-> <<>>, cur |-> 0, need |-> 0,
           timer |-> "off", late |-> FALSE, shut |-> FALSE,
           sends |-> 0, queue |-> 0, held |-> FALSE, writes |-> 0,
           handled |-> <<>>, answered |-> 0, excuse |-> {}]

HttpInit ==
  /\ conn \in [Conns -> {[NoConn EXCEPT !.script = s] : s \in Scripts}]
  /\ http = "init"
  /\ stopping = "no"

Running == http \in {"listen", "closing", "clearing"}
Req(d) == d.script[d.cur]

\* Connection::set_timeout: the old timer is destroyed; if it has expired already its
\* handler is queued and will still close the connection
SetTimeout(d) == [d EXCEPT !.late = @ \/ d.timer = "due", !.timer = "armed"]

\* Connection::cancel_timeout
CancelTimeout(d) == [d EXCEPT !.late = @ \/ d.timer = "due", !.timer = "off"]

\* The last reference to the session goes, and the connection with it
Drop(d, why) == [d EXCEPT !.ph = "gone", !.buf = <<>>, !.body = <<>>, !.timer = "off", !.late = FALSE,
                          !.wire = <<>>, !.out = <<>>, !.excuse = @ \cup why]

\* read(): a new session with an empty buffer
Read(d) == [SetTimeout(d) EXCEPT !.ph = "header", !.buf = <<>>, !.body = <<>>, !.cur = 0, !.sends = 0]

\* find_resource and write(): the resource function is called with the request
FindResource(d, content) ==
  IF Req(d).known
  THEN [d EXCEPT !.ph = "resource", !.buf = <<>>, !.body = <<>>, !.held = TRUE,
                 !.handled = Append(@, [i |-> d.cur, content |-> content])]
  ELSE Drop(d, {"unknown"})

(***************************************************************************)
(* The client (external)                                                   *)
(***************************************************************************)
Dial(c) ==
  /\ Running
  /\ conn[c].ph = "none"
  /\ conn' = [conn EXCEPT ![c] = Read(@)]
  /\ UNCHANGED <<http, stopping>>

\* A client that does not wait for the answer before the next request is excused
Begin(c) ==
  LET d == conn[c] IN
  /\ d.ph \notin {"none", "gone"} /\ d.peer /\ d.out = <<>>
  /\ d.begun < Len(d.script)
  /\ d.begun > 0 => ~d.script[d.begun].close
  /\ conn' = [conn EXCEPT ![c].begun = @ + 1,
                          ![c].out = Tokens(d.script[d.begun + 1], d.begun + 1),
                          ![c].excuse = IF d.answered < d.begun THEN @ \cup {"early"} ELSE @]
  /\ UNCHANGED <<http, stopping>>

SendToken(c) ==
  /\ conn[c].out # <<>> /\ conn[c].peer
  /\ conn' = [conn EXCEPT ![c].wire = Append(@, Head(conn[c].out)), ![c].out = Tail(@)]
  /\ UNCHANGED <<http, stopping>>

PeerCloses(c) ==
  /\ conn[c].peer /\ conn[c].ph \notin {"none", "gone"}
  /\ conn' = [conn EXCEPT ![c].peer = FALSE, ![c].excuse = @ \cup {"peer"}]
  /\ UNCHANGED <<http, stopping>>

(***************************************************************************)
(* The handlers                                                            *)
(***************************************************************************)
Becomes(c, d) == Running /\ conn' = [conn EXCEPT ![c] = d] /\ UNCHANGED <<http, stopping>>

\* The bytes a reading operation waits for have come
Come(d) == CASE d.ph = "header"    -> Has(d.wire, "header")
             [] d.ph = "chunkhead" -> Has(d.buf \o d.wire, "size")
             [] d.ph \in {"content", "chunkdata", "chunkend"} -> Len(d.wire) >= d.need
             [] OTHER              -> FALSE

\* The handler of async_read_until in read().  What came before the header makes the
\* request line unreadable; what comes after it is taken for the content.
OnHeader(c) ==
  LET d == SetTimeout(conn[c])
      more == Tail(d.wire)
      req == d.script[Head(d.wire).i]
      e == [d EXCEPT !.cur = Head(d.wire).i, !.wire = <<>>]
  IN /\ d.ph = "header" /\ Come(d)
     /\ Becomes(c, CASE Head(d.wire).t # "header" -> Drop(d, {"garbage"})
                     [] Head(d.wire).t = "header" /\ req.kind = "bad" -> Drop(d, {"bad"})
                     [] Head(d.wire).t = "header" /\ req.kind = "length" ->
                          IF Total(req) > MaxBody THEN Drop(d, {"large"})
                          ELSE IF Total(req) > Len(more)
                               THEN [e EXCEPT !.ph = "content", !.body = more, !.need = Total(req) - Len(more)]
                               ELSE FindResource(e, more)
                     [] Head(d.wire).t = "header" /\ req.kind = "chunked" ->
                          [e EXCEPT !.ph = "chunkhead", !.buf = more]
                     [] OTHER -> FindResource(e, more))

OnContent(c) ==
  LET d == conn[c] IN
  /\ d.ph = "content" /\ Come(d)
  /\ Becomes(c, FindResource([d EXCEPT !.wire = Rest(@, d.need)],
                             d.body \o SubSeq(d.wire, 1, d.need)))

\* Mutant: the line end of a chunk that is partly read is skipped as if it were not.
OnChunkHeadSkips(c) ==
  LET d == conn[c]
      all == IF Has(d.buf, "size") THEN d.buf ELSE d.buf \o d.wire
      n == Head(all).n
      more == Tail(all)
      moved == IF n < Len(more) THEN n ELSE Len(more)
      e == [d EXCEPT !.wire = IF Has(d.buf, "size") THEN @ ELSE <<>>,
                     !.body = @ \o SubSeq(more, 1, moved), !.buf = Rest(more, moved)]
  IN /\ d.ph = "chunkhead" /\ Come(d)
     /\ Becomes(c, CASE n < 0 -> Drop(d, {"bad"})
                     [] n = 0 -> FindResource([e EXCEPT !.excuse = IF Len(more) < 2 THEN @ \cup {"trailer"} ELSE @], d.body)
                     [] n > 0 /\ n + Len(d.body) > MaxBody -> Drop(d, {"large"})
                     [] n > 0 /\ n + Len(d.body) <= MaxBody /\ n > Len(more) ->
                          [e EXCEPT !.ph = "chunkdata", !.need = n - Len(more)]
                     [] n > 0 /\ n + Len(d.body) <= MaxBody /\ n <= Len(more) /\ n + 2 > Len(more) ->
                          [e EXCEPT !.ph = "chunkend", !.need = n + 2 - Len(more)]
                     [] OTHER -> [e EXCEPT !.buf = Rest(@, 2)])

\* The handler of read_chunked_transfer_encoded: the size line, then as much of the chunk
\* and of its line end as has been read with it.  The chunk of size 0 ends the request;
\* the line end after it is not read.
OnChunkHead(c) ==
  LET d == conn[c]
      all == IF Has(d.buf, "size") THEN d.buf ELSE d.buf \o d.wire
      n == Head(all).n
      more == Tail(all)
      moved == IF n < Len(more) THEN n ELSE Len(more)
      e == [d EXCEPT !.wire = IF Has(d.buf, "size") THEN @ ELSE <<>>,
                     !.body = @ \o SubSeq(more, 1, moved), !.buf = Rest(more, moved)]
  IN /\ d.ph = "chunkhead" /\ Come(d)
     /\ Becomes(c, CASE n < 0 -> Drop(d, {"bad"})
                     [] n = 0 -> FindResource([e EXCEPT !.excuse = IF Len(more) < 2 THEN @ \cup {"trailer"} ELSE @], d.body)
                     [] n > 0 /\ n + Len(d.body) > MaxBody -> Drop(d, {"large"})
                     [] n > 0 /\ n + Len(d.body) <= MaxBody /\ n > Len(more) ->
                          [e EXCEPT !.ph = "chunkdata", !.need = n - Len(more)]
                     [] n > 0 /\ n + Len(d.body) <= MaxBody /\ n <= Len(more) /\ n + 2 > Len(more) ->
                          [e EXCEPT !.ph = "chunkend", !.need = n + 2 - Len(more),
                                    !.buf = IF n + 2 - Len(more) = 1 THEN Tail(@) ELSE @]
                     [] OTHER -> [e EXCEPT !.buf = Rest(@, 2)])

OnChunkData(c) ==
  LET d == conn[c] IN
  /\ d.ph = "chunkdata" /\ Come(d)
  /\ Becomes(c, [d EXCEPT !.ph = "chunkend", !.need = 2, !.body = @ \o SubSeq(d.wire, 1, d.need),
                          !.wire = Rest(@, d.need)])

OnChunkEnd(c) ==
  LET d == conn[c] IN
  /\ d.ph = "chunkend" /\ Come(d)
  /\ Becomes(c, [d EXCEPT !.ph = "chunkhead", !.wire = Rest(@, d.need)])

\* A reading operation ends with an error: it was cancelled, or the peer has closed and
\* what came is not enough.  No on_error is set: the session ends.  Where the line end
\* of a chunk is read the code calls on_error without looking whether it is set, and
\* the exception leaves the io_service.
OnError(c) ==
  LET d == conn[c] IN
  /\ d.ph \in {"header", "content", "chunkhead", "chunkdata", "chunkend"}
  /\ d.shut \/ (~d.peer /\ ~Come(d))
  /\ Running
  /\ conn' = [conn EXCEPT ![c] = Drop(d, {})]
  /\ http' = IF d.ph = "chunkend" THEN "threw" ELSE http
  /\ UNCHANGED stopping

(***************************************************************************)
(* The response                                                            *)
(***************************************************************************)
\* The custom deleter: when the resource function has let go of the response and no
\* operation of its queue refers to it any more, send_on_delete writes the rest
Deleted(d) == IF ~d.held /\ d.queue = 0
              THEN [d EXCEPT !.ph = "write", !.writes = @ + 1] ELSE d

\* Response::send, from the resource function or a thread that it has started
Send(c) ==
  LET d == conn[c] IN
  /\ d.ph = "resource" /\ d.held /\ d.sends < MaxSends
  /\ conn' = [conn EXCEPT ![c].sends = @ + 1, ![c].queue = @ + 1,
                          ![c].writes = IF d.queue = 0 THEN @ + 1 ELSE @]
  /\ UNCHANGED <<http, stopping>>

\* The resource function lets go of the response, or throws
Release(c) ==
  LET d == conn[c] IN
  /\ d.ph = "resource" /\ d.held
  /\ conn' = [conn EXCEPT ![c] = Deleted([d EXCEPT !.held = FALSE])]
  /\ UNCHANGED <<http, stopping>>

\* Mutant: the last part of the queue does not let go of the response.
OnSentKeeps(c) ==
  LET d == conn[c]
      e == [d EXCEPT !.queue = @ - 1, !.writes = IF d.queue > 1 THEN @ ELSE @ - 1]
  IN /\ d.ph = "resource" /\ d.queue > 0
     /\ \/ ~d.shut /\ Becomes(c, e)
        \/ (d.shut \/ ~d.peer) /\ Becomes(c, Deleted([d EXCEPT !.queue = 0, !.writes = @ - 1]))

\* The handler of send_from_queue: the next part is written, or all are given up
OnSent(c) ==
  LET d == conn[c]
      e == [d EXCEPT !.queue = @ - 1, !.writes = IF d.queue > 1 THEN @ ELSE @ - 1]
  IN /\ d.ph = "resource" /\ d.queue > 0
     /\ \/ ~d.shut /\ Becomes(c, Deleted(e))
        \/ (d.shut \/ ~d.peer) /\ Becomes(c, Deleted([d EXCEPT !.queue = 0, !.writes = @ - 1]))

\* The callback of send_on_delete: the connection is kept for the next request or let go
OnWritten(c) ==
  LET d == CancelTimeout([conn[c] EXCEPT !.writes = @ - 1])
      e == [d EXCEPT !.answered = @ + 1]
  IN /\ d.ph = "write"
     /\ \/ ~d.shut /\ Becomes(c, IF Req(d).close THEN Drop(e, {}) ELSE Read(e))
        \/ (d.shut \/ ~d.peer) /\ Becomes(c, Drop(d, {}))

(***************************************************************************)
(* Timers and stop                                                         *)
(***************************************************************************)
Expire(c) ==
  /\ conn[c].timer = "armed"
  /\ Becomes(c, [conn[c] EXCEPT !.timer = "due"])

\* The handler of a timer that has expired, be it the current one or an earlier one
OnTimer(c) ==
  LET d == [conn[c] EXCEPT !.shut = TRUE, !.excuse = @ \cup {"timer"}] IN
  \/ conn[c].timer = "due" /\ Becomes(c, [d EXCEPT !.timer = "off"])
  \/ conn[c].late /\ Becomes(c, [d EXCEPT !.late = FALSE])

\* hstf_server::init starts the thread; ServerBase::start sets the acceptor
Start ==
  /\ http = "init"
  /\ http' = "listen"
  /\ UNCHANGED <<conn, stopping>>

\* ServerBase::stop: the acceptor is closed
StopHttp ==
  /\ stopping = "no" /\ http \in {"init", "listen"}
  /\ stopping' = IF http = "init" THEN "early" ELSE "called"
  /\ http' = IF http = "init" THEN http ELSE "closing"
  /\ UNCHANGED conn

\* then every connection of the set, under its mutex
StopConnections ==
  /\ http = "closing"
  /\ conn' = [c \in Conns |->
       IF conn[c].ph \in {"none", "gone"} THEN conn[c]
       ELSE [conn[c] EXCEPT !.shut = TRUE, !.excuse = @ \cup {"stop"}]]
  /\ http' = "clearing"
  /\ UNCHANGED stopping

\* then the io_service: no handler runs any more and start() returns
StopService ==
  /\ http = "clearing"
  /\ http' = "ended"
  /\ conn' = [c \in Conns |-> IF conn[c].ph = "none" THEN conn[c] ELSE Drop(conn[c], {"stop"})]
  /\ UNCHANGED stopping

Join ==
  /\ stopping \in {"early", "called"} /\ http = "ended"
  /\ stopping' = "joined"
  /\ UNCHANGED <<conn, http>>

Handler(c) == \/ OnHeader(c) \/ OnContent(c) \/ OnChunkHead(c) \/ OnChunkData(c) \/ OnChunkEnd(c)
              \/ OnError(c) \/ OnSent(c) \/ OnWritten(c)

HttpNext ==
  \/ \E c \in Conns : \/ Dial(c) \/ Begin(c) \/ SendToken(c) \/ PeerCloses(c)
                      \/ Handler(c) \/ Send(c) \/ Release(c) \/ Expire(c) \/ OnTimer(c)
  \/ Start \/ StopHttp \/ StopConnections \/ StopService \/ Join

\* The threads of the io_service run what is queued, the resource function returns, and
\* stop() and its caller go on.  Timers may expire or not: a request must not need one.
HttpFairness ==
  /\ \A c \in Conns : WF_httpVars(Handler(c)) /\ WF_httpVars(Release(c)) /\ WF_httpVars(OnTimer(c))
  /\ WF_httpVars(StopConnections) /\ WF_httpVars(StopService) /\ WF_httpVars(Join)

HttpSpec == HttpInit /\ [][HttpNext]_httpVars /\ HttpFairness

(***************************************************************************)
(* Properties                                                              *)
(***************************************************************************)
\* What the resource function is called with are the requests of the client, one after
\* the other and each with its own content, however the stream was cut; a request is
\* answered only when it was handled, and a socket has at most one write under way.  A
\* client that begins a request before the last answer is the exception: what was read
\* with the request before is lost, or taken for its content.
HandledAsSent ==
  \A c \in Conns : LET d == conn[c] IN
    /\ d.writes <= 1
    /\ d.answered <= Len(d.handled)
    /\ "early" \notin d.excuse =>
         \A k \in DOMAIN d.handled :
            d.handled[k] = [i |-> k, content |-> Units(k, Total(d.script[k]))]

\* A request that has come is answered, unless a timer expired, the peer closed, the server
\* was stopped, the request cannot be read or has no resource, or the line end after the
\* last chunk of the request before came late and spoiled it.
HttpAnswered ==
  \A c \in Conns : \A k \in 1 .. 2 :
    (conn[c].begun >= k /\ conn[c].out = <<>>) ~> (\/ conn[c].answered >= k \/ http = "threw"
       \/ conn[c].excuse \ {"trailer"} # {} \/ (k > 1 /\ "trailer" \in conn[c].excuse))
=============================================================================
