----------------------------- MODULE EpollServer -----------------------------
(***************************************************************************)
(* epoll_v2 and the dispatcher of ClientTCPHandler: one thread turns the   *)
(* epoll loop and owns the tables of connections; the threads of t_pool    *)
(* read from and write to descriptors and post what is to be done next in  *)
(* `actions`; the threads of the worker pool carry out requests and hand   *)
(* their answers to the responser; clients connect, send, read and go.     *)
(*                                                                         *)
(* A connection is its count_accepted_on, a number never used again; its   *)
(* descriptor is used again as soon as it is closed.  Messages are framed  *)
(* and keys exchanged elsewhere (Framing, TcpClient): here a message is a  *)
(* record, and two units on the wire so that it can be sent in part; the   *)
(* first one stands for the key exchange too.  The time limits of          *)
(* epoll_wait make the loop turn in any case; the eventfd only makes it    *)
(* sooner.  Of the clock the model knows what an hour does to a connection *)
(* that is not read from (epoll_v2_control_activity).                      *)
(***************************************************************************)
EXTENDS Integers, Sequences, FiniteSets, SequencesExt

CONSTANTS
  Fds,            \* descriptors
  Kinds,          \* what clients send beside the password: requests that are answered
                  \* ("ask"), that are not ("tell"), and to get events, by a task
                  \* ("listen", query 13) or at once ("06")
  MaxConns,       \* bound: connections
  MaxSends,       \* bound: messages of a client, the authorization first
  MaxEvents,      \* bound: events
  MaxPings        \* bound: echo messages

ASSUME KindsKnown == Kinds \subseteq {"ask", "tell", "listen", "06"}
ASSUME BoundsAreNat == {MaxConns, MaxSends, MaxEvents, MaxPings} \subseteq Nat

VARIABLES
  \* the kernel and the clients
  life,       \* of a connection: "none", "queued" for accept, "open", "gone"
  peer,       \* its client: "up", "closed", "reset", "dead" once the error is read
  inbox,      \* messages sent and not yet read
  outbox,     \* units that were sent to it
  room,       \* whether its socket takes more units
  sent,       \* how many messages the client has sent
  sock,       \* connection of an open descriptor, 0 for one that is closed
  reg,        \* what a descriptor is registered for, {} if it is not
  ready,      \* the edges that epoll_wait has still to report
  \* the epoll thread
  pc, evs, srv, acts,
  client,     \* authorized_clients: the connection of a descriptor, or 0
  auth,       \* descriptors with is_authorized
  crypt,      \* descriptors with encryption_data
  listeners,  \* events_clients
  wq,         \* awaiting_for_write
  waiting,    \* is_on_waiting_epollout of the first in wq
  inproc,     \* fd_in_process
  check,      \* fd_check_data_incoming
  idle,       \* what the inactivity control will find in this turn: descriptors whose
              \* last_activity is more than an hour ago
  \* shared with the other threads
  actions, jobs, works, resp, toListen, events,
  \* bounds and history
  pings, raised,
  pushed,     \* messages pushed to a connection
  asked,      \* connections that asked to listen
  inherited   \* connections accepted on a descriptor that was in process

kernelVars == <<life, peer, inbox, outbox, room, sent, sock, reg, ready>>
tableVars == <<client, auth, crypt, listeners, wq, waiting, inproc, check, idle>>
sharedVars == <<actions, jobs, works, resp, toListen, events>>
boundVars == <<pings, raised>>
historyVars == <<pushed, asked, inherited>>
loopVars == <<pc, evs, srv, acts>>
epollVars == <<kernelVars, loopVars, tableVars, sharedVars, boundVars, historyVars>>

Conns == 1 .. MaxConns
NoAct == [st |-> "none", msgs |-> <<>>, w |-> [u |-> <<>>, sent |-> 0]]
Act(st) == [NoAct EXCEPT !.st = st]
Units(m) == <<<<m, 1>>, <<m, 2>>>>
Write(m) == [u |-> Units(m), sent |-> 0]
Rest(w) == SubSeq(w.u, w.sent + 1, Len(w.u))
UnitsOf(ms) == FlattenSeq([i \in DOMAIN ms |-> Units(ms[i])])

EpollInit ==
  /\ life = [c \in Conns |-> "none"] /\ peer = [c \in Conns |-> "up"]
  /\ inbox = [c \in Conns |-> <<>>] /\ outbox = [c \in Conns |-> <<>>]
  /\ room = [c \in Conns |-> TRUE] /\ sent = [c \in Conns |-> 0]
  /\ sock = [f \in Fds |-> 0] /\ reg = [f \in Fds |-> {}] /\ ready = [f \in Fds |-> {}]
  /\ pc = "wait" /\ evs = [f \in Fds |-> {}] /\ srv = FALSE /\ acts = [f \in Fds |-> NoAct]
  /\ client = [f \in Fds |-> 0] /\ auth = {} /\ crypt = {} /\ listeners = {}
  /\ wq = [f \in Fds |-> <<>>] /\ waiting = [f \in Fds |-> FALSE]
  /\ inproc = {} /\ check = {} /\ idle = {}
  /\ actions = [f \in Fds |-> NoAct] /\ jobs = {} /\ works = {} /\ resp = <<>>
  /\ toListen = {} /\ events = <<>>
  /\ pings = 0 /\ raised = 0
  /\ pushed = [c \in Conns |-> <<>>] /\ asked = {} /\ inherited = {}

(***************************************************************************)
(* The clients                                                             *)
(***************************************************************************)
FdsOf(c) == {f \in Fds : sock[f] = c}

\* What a descriptor of connection c, registered for r, has to report.
Edges(c, r) ==
  {e \in r : \/ e = "in" /\ (inbox[c] # <<>> \/ peer[c] # "up")
             \/ e = "out" /\ room[c]}
  \cup (IF peer[c] \in {"reset", "dead"} /\ r # {} THEN {"err"} ELSE {})

Notify(c, e) ==
  ready' = [f \in Fds |-> IF f \in FdsOf(c) /\ (e \in reg[f] \/ (e = "err" /\ reg[f] # {}))
                          THEN ready[f] \cup {e} ELSE ready[f]]

Connect(c) ==
  /\ life[c] = "none"
  /\ \A d \in 1 .. c - 1 : life[d] # "none"
  /\ Cardinality({d \in Conns : life[d] \in {"queued", "open"}}) < Cardinality(Fds)
  /\ life' = [life EXCEPT ![c] = "queued"]
  /\ UNCHANGED <<peer, inbox, outbox, room, sent, sock, reg, ready, loopVars, tableVars,
                 sharedVars, boundVars, historyVars>>

Send(c) ==
  /\ life[c] \in {"queued", "open"} /\ peer[c] = "up" /\ sent[c] < MaxSends
  /\ \E k \in Kinds \cup {"auth"} :
       /\ k = "auth" => sent[c] = 0
       /\ inbox' = [inbox EXCEPT ![c] = Append(@, [c |-> c, n |-> sent[c], kind |-> k])]
       /\ asked' = IF k \in {"listen", "06"} THEN asked \cup {c} ELSE asked
  /\ sent' = [sent EXCEPT ![c] = @ + 1]
  /\ Notify(c, "in")
  /\ UNCHANGED <<life, peer, outbox, room, sock, reg, loopVars, tableVars, sharedVars,
                 boundVars, pushed, inherited>>

\* The client closes, or its connection is reset and what it sent is lost.
Leave(c) ==
  /\ life[c] \in {"queued", "open"}
  /\ \/ peer[c] = "up" /\ UNCHANGED inbox
        /\ peer' = [peer EXCEPT ![c] = "closed"] /\ Notify(c, "in")
     \/ peer[c] \in {"up", "closed"} /\ peer' = [peer EXCEPT ![c] = "reset"] /\ Notify(c, "err")
        /\ inbox' = [inbox EXCEPT ![c] = <<>>]
  /\ UNCHANGED <<life, outbox, room, sent, sock, reg, loopVars, tableVars, sharedVars,
                 boundVars, historyVars>>

Drain(c) ==
  /\ life[c] = "open" /\ peer[c] = "up" /\ ~room[c]
  /\ room' = [room EXCEPT ![c] = TRUE]
  /\ Notify(c, "out")
  /\ UNCHANGED <<life, peer, inbox, outbox, sent, sock, reg, loopVars, tableVars, sharedVars,
                 boundVars, historyVars>>

(***************************************************************************)
(* The tables of the epoll thread                                          *)
(***************************************************************************)
\* Mutant: the tables of the descriptor stay.
RemoveFdsShallow(S) ==
  /\ wq' = [f \in Fds |-> IF f \in S THEN <<>> ELSE wq[f]]
  /\ waiting' = [f \in Fds |-> f \notin S /\ waiting[f]]
  /\ client' = [f \in Fds |-> IF f \in S THEN 0 ELSE client[f]]
  /\ UNCHANGED <<auth, crypt, listeners>>
  /\ idle' = idle \ S
  /\ actions' = [f \in Fds |-> IF f \in S THEN NoAct ELSE actions[f]]
  /\ reg' = [f \in Fds |-> IF f \in S THEN {} ELSE reg[f]]
  /\ ready' = [f \in Fds |-> IF f \in S THEN {} ELSE ready[f]]
  /\ sock' = [f \in Fds |-> IF f \in S THEN 0 ELSE sock[f]]
  /\ life' = [c \in Conns |-> IF \E f \in S : sock[f] = c THEN "gone" ELSE life[c]]

\* remove() of the descriptors of S; fd_in_process is left as it is.  (messages,
\* the beginning of a message that is not all there, is not modelled.)
RemoveFds(S) ==
  /\ wq' = [f \in Fds |-> IF f \in S THEN <<>> ELSE wq[f]]
  /\ waiting' = [f \in Fds |-> f \notin S /\ waiting[f]]
  /\ client' = [f \in Fds |-> IF f \in S THEN 0 ELSE client[f]]
  /\ auth' = auth \ S
  /\ crypt' = crypt \ S
  /\ listeners' = listeners \ S
  /\ idle' = idle \ S
  /\ actions' = [f \in Fds |-> IF f \in S THEN NoAct ELSE actions[f]]
  /\ reg' = [f \in Fds |-> IF f \in S THEN {} ELSE reg[f]]
  /\ ready' = [f \in Fds |-> IF f \in S THEN {} ELSE ready[f]]
  /\ sock' = [f \in Fds |-> IF f \in S THEN 0 ELSE sock[f]]
  /\ life' = [c \in Conns |-> IF \E f \in S : sock[f] = c THEN "gone" ELSE life[c]]

\* add_to_process() of the descriptors of S: where EPOLL_CTL_DEL fails, the
\* descriptor is to be removed.  (fd_check_data_incoming is empty whenever it
\* is called.)
AddToProcess(S) ==
  LET registered == {f \in S : reg[f] # {}}
  IN  /\ reg' = [f \in Fds |-> IF f \in S THEN {} ELSE reg[f]]
      /\ ready' = [f \in Fds |-> IF f \in S THEN {} ELSE ready[f]]
      /\ inproc' = inproc \cup registered
      /\ actions' = [f \in Fds |-> IF f \in S \ registered THEN Act("remove") ELSE actions[f]]

ReadJob(f) == [kind |-> "read", fd |-> f, c |-> sock[f], w |-> NoAct.w]
WriteJob(f, w) == [kind |-> "write", fd |-> f, c |-> sock[f], w |-> w]

\* f_mt_read of the descriptors of S.
StartRead(S) ==
  LET free == S \ inproc
  IN  /\ AddToProcess(free)
      /\ jobs' = jobs \cup {ReadJob(f) : f \in {g \in free : reg[g] # {}}}

\* push_message: answers, events and echoes, in the order of ms[f], for every f.
Push(ms) ==
  /\ wq' = [f \in Fds |-> IF client[f] = 0 THEN wq[f]
                          ELSE wq[f] \o [i \in DOMAIN ms[f] |-> Write(ms[f][i])]]
  /\ pushed' = [c \in Conns |-> IF \E f \in Fds : client[f] = c
                                 THEN pushed[c] \o ms[CHOOSE f \in Fds : client[f] = c]
                                 ELSE pushed[c]]

(***************************************************************************)
(* A turn of the loop of listen()                                          *)
(***************************************************************************)
\* Whether an hour can have passed without a read from f: a job does not take
\* that long, and without authorization only a descriptor that stays in process
\* is still there.
CanIdle(f) ==
  /\ client[f] # 0 /\ \A j \in jobs : j.fd # f
  /\ f \in auth \/ (f \in inproc /\ actions[f].st = "none")

\* epoll_wait reports the edges; get_actions takes what was posted; t_now is read.
EpollWait(I) ==
  /\ pc = "wait" /\ pc' = "acts"
  /\ idle' = I /\ \A f \in I : CanIdle(f)
  /\ evs' = ready /\ ready' = [f \in Fds |-> {}]
  /\ srv' = \E c \in Conns : life[c] = "queued"
  /\ acts' = actions /\ actions' = [f \in Fds |-> NoAct]
  /\ UNCHANGED <<life, peer, inbox, outbox, room, sent, sock, reg, client, auth,
                 crypt, listeners, wq, waiting, inproc, check, jobs, works, resp, toListen,
                 events, boundVars, historyVars>>

\* on_message of each message read: until one is the password they are dropped,
\* from there on they become tasks of the worker pool, or register a listener.
OnMessages(f, msgs) ==
  LET heard == {i \in DOMAIN msgs : f \in auth \/ \E j \in 1 .. i - 1 : msgs[j].kind = "auth"}
  IN  /\ auth' = IF \E i \in DOMAIN msgs : msgs[i].kind = "auth" THEN auth \cup {f} ELSE auth
      /\ works' = works \cup {[fd |-> f, gen |-> client[f], m |-> msgs[i]] :
                               i \in {j \in heard : msgs[j].kind # "06"}}
      /\ toListen' = IF \E i \in heard : msgs[i].kind = "06" THEN toListen \cup {f} ELSE toListen

\* Mutant: EPOLL_CTL_MOD of a descriptor that EPOLL_CTL_DEL has taken out.
RegisterModifies(f, r) ==
  /\ reg' = [reg EXCEPT ![f] = IF @ = {} THEN {} ELSE r]
  /\ ready' = [ready EXCEPT ![f] = IF reg[f] = {} THEN {} ELSE Edges(sock[f], r)]

\* EPOLL_CTL_ADD of f for r.
Register(f, r) ==
  /\ reg' = [reg EXCEPT ![f] = r]
  /\ ready' = [ready EXCEPT ![f] = Edges(sock[f], r)]

HandleAction(f) ==
  LET a == acts[f]
      addFails == sock[f] = 0 \/ reg[f] # {}
  IN  /\ pc = "acts" /\ a.st # "none"
      /\ acts' = [acts EXCEPT ![f] = NoAct]
      /\ inproc' = inproc \ {f}
      /\ check' = check \cup {f}
      /\ \/ /\ a.st = "remove" \/ addFails
            /\ RemoveFds({f})
            /\ UNCHANGED <<works, toListen>>
         \/ /\ a.st \in {"ok", "read"} /\ ~addFails
            /\ Register(f, IF wq[f] = <<>> THEN {"in"} ELSE {"in", "out"})
            /\ IF a.st = "read" /\ client[f] # 0
               THEN /\ OnMessages(f, a.msgs)
                    /\ crypt' = crypt \cup {f}
                    /\ idle' = idle \ {f}
               ELSE UNCHANGED <<auth, crypt, works, toListen, idle>>
            /\ UNCHANGED <<wq, waiting, client, listeners, actions, sock, life>>
         \/ /\ a.st = "out" /\ ~addFails
            /\ wq' = [wq EXCEPT ![f] = <<a.w>> \o @]
            /\ waiting' = [waiting EXCEPT ![f] = TRUE]
            /\ Register(f, {"out"})
            /\ UNCHANGED <<client, auth, crypt, listeners, actions, sock, life, works, toListen, idle>>
      /\ UNCHANGED <<peer, inbox, outbox, room, sent, pc, evs, srv, jobs, resp, events,
                     boundVars, historyVars>>

\* What came in while a job had the descriptor is read without an event; recv
\* takes the pending error of a socket.
CheckIncoming ==
  /\ pc = "acts" /\ \A f \in Fds : acts[f].st = "none"
  /\ pc' = "events"
  /\ check' = {}
  /\ StartRead({f \in check : sock[f] # 0 /\ inbox[sock[f]] # <<>>})
  /\ peer' = [c \in Conns |-> IF peer[c] = "reset" /\ FdsOf(c) \cap check # {} THEN "dead" ELSE peer[c]]
  /\ UNCHANGED <<life, inbox, outbox, room, sent, sock, evs, srv, acts, client, auth, crypt,
                 listeners, wq, waiting, idle, works, resp, toListen, events, boundVars, historyVars>>

SocketCheck(f) == sock[f] # 0 /\ peer[sock[f]] # "reset"

\* The event whose EPOLLIN was handled and whose EPOLLOUT comes next.
HalfDone == {f \in Fds : "half" \in evs[f]}

\* EPOLLERR or EPOLLHUP.
EventError(f) ==
  /\ pc = "events" /\ "err" \in evs[f] /\ HalfDone = {}
  /\ evs' = [evs EXCEPT ![f] = {}]
  /\ RemoveFds({f})
  /\ UNCHANGED <<peer, inbox, outbox, room, sent, pc, srv, acts, inproc, check, jobs, works,
                 resp, toListen, events, boundVars, historyVars>>

EventIn(f) ==
  /\ pc = "events" /\ "in" \in evs[f] /\ "err" \notin evs[f] /\ HalfDone = {}
  /\ evs' = [evs EXCEPT ![f] = IF "out" \in @ THEN {"out", "half"} ELSE {}]
  /\ \/ ~SocketCheck(f) /\ RemoveFds({f}) /\ UNCHANGED <<inproc, jobs>>
     \/ SocketCheck(f) /\ StartRead({f})
        /\ UNCHANGED <<wq, waiting, client, auth, crypt, listeners, idle, sock, life>>
  /\ UNCHANGED <<peer, inbox, outbox, room, sent, pc, srv, acts, check, works, resp, toListen,
                 events, boundVars, historyVars>>

\* EPOLLOUT: the first of the queue no longer waits, and EPOLL_CTL_MOD goes
\* back to EPOLLIN, or fails when the descriptor has just been given to a job.
EventOut(f) ==
  /\ pc = "events" /\ evs[f] \in {{"out"}, {"out", "half"}} /\ HalfDone \subseteq {f}
  /\ evs' = [evs EXCEPT ![f] = {}]
  /\ \/ ~SocketCheck(f) /\ RemoveFds({f})
     \/ /\ SocketCheck(f)
        /\ IF wq[f] = <<>> THEN UNCHANGED waiting ELSE waiting' = [waiting EXCEPT ![f] = FALSE]
        /\ IF wq[f] # <<>> /\ reg[f] # {} THEN Register(f, {"in"}) ELSE UNCHANGED <<reg, ready>>
        /\ UNCHANGED <<wq, client, auth, crypt, listeners, idle, actions, sock, life>>
  /\ UNCHANGED <<peer, inbox, outbox, room, sent, pc, srv, acts, inproc, check, jobs, works,
                 resp, toListen, events, boundVars, historyVars>>

\* accept4: count_accepted numbers the connections.
Accept(f) ==
  /\ pc = "events" /\ srv /\ HalfDone = {} /\ sock[f] = 0
  /\ \E c \in Conns :
       /\ life[c] = "queued" /\ \A d \in 1 .. c - 1 : life[d] # "queued"
       /\ life' = [life EXCEPT ![c] = "open"]
       /\ sock' = [sock EXCEPT ![f] = c]
       /\ client' = [client EXCEPT ![f] = c]
       /\ reg' = [reg EXCEPT ![f] = {"in"}]
       /\ ready' = [ready EXCEPT ![f] = Edges(c, {"in"})]
       /\ inherited' = IF f \in inproc THEN inherited \cup {c} ELSE inherited
  /\ UNCHANGED <<peer, inbox, outbox, room, sent, loopVars, auth, crypt, listeners, wq,
                 waiting, inproc, check, idle, sharedVars, boundVars, pushed, asked>>

\* All events are handled; the new listeners are taken over.
NewListeners ==
  /\ pc = "events" /\ \A f \in Fds : evs[f] = {}
  /\ srv => \A c \in Conns : life[c] # "queued"
  /\ pc' = "fire" /\ srv' = FALSE
  /\ listeners' = listeners \cup {f \in toListen : client[f] # 0}
  /\ toListen' = {}
  /\ UNCHANGED <<kernelVars, evs, acts, client, auth, crypt, wq, waiting, inproc, check, idle, actions,
                 jobs, works, resp, events, boundVars, historyVars>>

SendEvents ==
  /\ pc = "fire" /\ pc' = "answer"
  /\ Push([f \in Fds |-> IF f \in listeners THEN events ELSE <<>>])
  /\ events' = <<>>
  /\ UNCHANGED <<kernelVars, evs, srv, acts, client, auth, crypt, listeners, waiting, inproc, check,
                 idle, actions, jobs, works, resp, toListen, boundVars, asked, inherited>>

\* Mutant: the number of the connection is not compared.
ResponsesForAnyone(f) ==
  LET own == SelectSeq(resp, LAMBDA r : r.fd = f)
  IN  [i \in DOMAIN own |-> own[i].m]

\* The answers kept for f that are for the connection it has now.
ResponsesFor(f) ==
  LET own == SelectSeq(resp, LAMBDA r : r.fd = f /\ r.gen = client[f])
  IN  [i \in DOMAIN own |-> own[i].m]

SendResponses ==
  /\ pc = "answer" /\ pc' = "kick"
  /\ Push([f \in Fds |-> ResponsesFor(f)])
  /\ resp' = <<>>
  /\ UNCHANGED <<kernelVars, evs, srv, acts, client, auth, crypt, listeners, waiting, inproc, check,
                 idle, actions, jobs, works, toListen, events, boundVars, asked, inherited>>

\* time_to_auth of the connections of K has run out.
KickUnauthorized(K) ==
  /\ pc = "kick" /\ pc' = "echo"
  /\ K \subseteq {f \in Fds \ inproc : client[f] # 0 /\ f \notin auth}
  /\ RemoveFds(K)
  /\ UNCHANGED <<peer, inbox, outbox, room, sent, evs, srv, acts, inproc, check, jobs, works,
                 resp, toListen, events, boundVars, historyVars>>

Ping == [c |-> 0, n |-> 0, kind |-> "ping"]

EchoService(E) ==
  /\ pc = "echo" /\ pc' = "write"
  /\ E \subseteq {f \in Fds \ inproc : client[f] # 0 /\ wq[f] = <<>>}
  /\ pings + Cardinality(E) <= MaxPings
  /\ pings' = pings + Cardinality(E)
  /\ Push([f \in Fds |-> IF f \in E THEN <<Ping>> ELSE <<>>])
  /\ UNCHANGED <<kernelVars, evs, srv, acts, client, auth, crypt, listeners, waiting, inproc, check,
                 idle, sharedVars, raised, asked, inherited>>

\* split_short_messages: what was not sent in part goes into one m_write.
Merged(q) ==
  LET fresh == {i \in DOMAIN q : \A j \in 1 .. i : q[j].sent = 0}
      n == Cardinality(fresh)
  IN  IF n <= 1 THEN q
      ELSE <<[u |-> FlattenSeq([i \in 1 .. n |-> q[i].u]), sent |-> 0]>> \o SubSeq(q, n + 1, Len(q))

\* write_to_fd of every descriptor that is not with a job and does not wait
\* for EPOLLOUT; long messages are not merged.
WriteAll(short) ==
  LET W == {f \in Fds \ inproc : client[f] # 0 /\ wq[f] # <<>> /\ ~waiting[f]}
      q(f) == IF short THEN Merged(wq[f]) ELSE wq[f]
      ok == {f \in W : reg[f] # {}}
  IN  /\ pc = "write" /\ pc' = "control"
      /\ AddToProcess(W)
      /\ jobs' = jobs \cup {WriteJob(f, Head(q(f))) : f \in ok}
      /\ wq' = [f \in Fds |-> CASE f \in ok -> Tail(q(f))
                                [] f \in W \ ok -> q(f)
                                [] f \notin W -> wq[f]]
      /\ UNCHANGED <<life, peer, inbox, outbox, room, sent, sock, evs, srv, acts, client, auth, crypt,
                     listeners, waiting, check, idle, works, resp, toListen, events, boundVars,
                     historyVars>>

\* epoll_v2_control_activity: what is idle is removed, in process or not.
ControlActivity ==
  /\ pc = "control" /\ pc' = "wait"
  /\ RemoveFds(idle)
  /\ UNCHANGED <<peer, inbox, outbox, room, sent, evs, srv, acts, inproc, check, jobs, works,
                 resp, toListen, events, boundVars, historyVars>>

(***************************************************************************)
(* The jobs of t_pool and the tasks of the worker pool                     *)
(***************************************************************************)
\* process_finished: an action that is there stays, unless the new one removes.
ProcessFinished(f, a) ==
  actions' = IF a.st = "remove" \/ actions[f].st = "none" THEN [actions EXCEPT ![f] = a] ELSE actions

ReadError(c) == peer' = IF peer[c] = "reset" THEN [peer EXCEPT ![c] = "dead"] ELSE peer

\* read() until EAGAIN, end of file (what was read is dropped) or an error.
Read(j) ==
  LET c == sock[j.fd]
  IN  /\ j \in jobs /\ j.kind = "read"
      /\ jobs' = jobs \ {j}
      /\ IF c = 0
         THEN ProcessFinished(j.fd, Act("remove")) /\ UNCHANGED <<inbox, peer>>
         ELSE /\ inbox' = [inbox EXCEPT ![c] = <<>>]
              /\ ReadError(c)
              /\ ProcessFinished(j.fd, IF peer[c] = "up" THEN [Act("read") EXCEPT !.msgs = inbox[c]]
                                       ELSE Act("remove"))
      /\ UNCHANGED <<life, outbox, room, sent, sock, reg, ready, loopVars, tableVars, works, resp,
                     toListen, events, boundVars, historyVars>>

\* Mutant: the cursor is not moved.
SendJobRestarts(j) ==
  LET c == sock[j.fd]
      rest == Rest(j.w)
  IN  /\ j \in jobs /\ j.kind = "write"
      /\ jobs' = jobs \ {j}
      /\ \/ /\ c # 0 => peer[c] \in {"reset", "dead"}
            /\ IF c = 0 THEN UNCHANGED peer ELSE ReadError(c)
            /\ ProcessFinished(j.fd, Act("remove"))
            /\ UNCHANGED <<outbox, room>>
         \/ /\ c # 0 /\ peer[c] \in {"up", "closed"}
            /\ \E n \in IF room[c] THEN 1 .. Len(rest) ELSE {0} :
                 /\ outbox' = [outbox EXCEPT ![c] = @ \o SubSeq(rest, 1, n)]
                 /\ room' = [room EXCEPT ![c] = n = Len(rest)]
                 /\ ProcessFinished(j.fd, IF n = Len(rest) THEN Act("ok")
                                          ELSE [Act("out") EXCEPT !.w = [j.w EXCEPT !.sent = 0]])
            /\ UNCHANGED peer
      /\ UNCHANGED <<life, inbox, sent, sock, reg, ready, loopVars, tableVars, works, resp,
                     toListen, events, boundVars, historyVars>>

\* send() takes all of the rest or a part of it, or nothing when there is no room.
SendJob(j) ==
  LET c == sock[j.fd]
      rest == Rest(j.w)
  IN  /\ j \in jobs /\ j.kind = "write"
      /\ jobs' = jobs \ {j}
      /\ \/ /\ c # 0 => peer[c] \in {"reset", "dead"}
            /\ IF c = 0 THEN UNCHANGED peer ELSE ReadError(c)
            /\ ProcessFinished(j.fd, Act("remove"))
            /\ UNCHANGED <<outbox, room>>
         \/ /\ c # 0 /\ peer[c] \in {"up", "closed"}
            /\ \E n \in IF room[c] THEN 1 .. Len(rest) ELSE {0} :
                 /\ outbox' = [outbox EXCEPT ![c] = @ \o SubSeq(rest, 1, n)]
                 /\ room' = [room EXCEPT ![c] = n = Len(rest)]
                 /\ ProcessFinished(j.fd, IF n = Len(rest) THEN Act("ok")
                                          ELSE [Act("out") EXCEPT !.w = [j.w EXCEPT !.sent = @ + n]])
            /\ UNCHANGED peer
      /\ UNCHANGED <<life, inbox, sent, sock, reg, ready, loopVars, tableVars, works, resp,
                     toListen, events, boundVars, historyVars>>

\* A task of the worker pool: the dispatcher's switch seen from here either
\* answers, or registers its client as a listener (query 13), or does neither
\* (queries 22, 25, 33, unknown ones, and 03 when there is room for the file).
Work(t) ==
  /\ t \in works
  /\ works' = works \ {t}
  /\ resp' = IF t.m.kind = "ask" THEN Append(resp, t) ELSE resp
  /\ toListen' = IF t.m.kind = "listen" THEN toListen \cup {t.fd} ELSE toListen
  /\ UNCHANGED <<kernelVars, loopVars, tableVars, actions, jobs, events, boundVars, historyVars>>

\* responser::add_event, by a task with query 12 or 22 of any connection.
AddEvent ==
  /\ raised < MaxEvents
  /\ raised' = raised + 1
  /\ events' = Append(events, [c |-> 0, n |-> raised, kind |-> "event"])
  /\ UNCHANGED <<kernelVars, loopVars, tableVars, actions, jobs, works, resp, toListen, pings,
                 historyVars>>

LoopStep ==
  \/ \E I \in SUBSET Fds : EpollWait(I)
  \/ CheckIncoming \/ NewListeners \/ SendEvents \/ SendResponses \/ ControlActivity
  \/ \E f \in Fds : HandleAction(f) \/ EventError(f) \/ EventIn(f) \/ EventOut(f) \/ Accept(f)
  \/ \E K \in SUBSET Fds : KickUnauthorized(K)
  \/ \E E \in SUBSET Fds : EchoService(E)
  \/ \E short \in BOOLEAN : WriteAll(short)

EpollNext ==
  \/ LoopStep
  \/ \E j \in jobs : Read(j) \/ SendJob(j)
  \/ \E t \in works : Work(t)
  \/ AddEvent
  \/ \E c \in Conns : Connect(c) \/ Send(c) \/ Leave(c) \/ Drain(c)

EpollSpec == EpollInit /\ [][EpollNext]_epollVars

\* The loop turns, pools run what is queued, clients read what they are sent,
\* and time_to_auth, which every turn lowers, runs out.
EpollFairness ==
  /\ WF_epollVars(LoopStep)
  /\ \A f \in Fds :
       /\ WF_epollVars(\E j \in jobs : j.fd = f /\ (Read(j) \/ SendJob(j)))
       /\ WF_epollVars(\E t \in works : t.fd = f /\ Work(t))
       /\ SF_epollVars(\E K \in SUBSET Fds : f \in K /\ KickUnauthorized(K))
  /\ \A c \in Conns : WF_epollVars(Drain(c))

EpollFairSpec == EpollSpec /\ EpollFairness

(***************************************************************************)
(* Properties                                                              *)
(***************************************************************************)

\* An answer is pushed to the connection that asked and to no other, however late
\* it comes: the descriptor may be another client's by then, count_accepted_on
\* is not.
AnswersReachTheAsker ==
  \A c \in Conns : \A i \in DOMAIN pushed[c] : pushed[c][i].kind = "ask" => pushed[c][i].c = c

\* What a write job of connection c, or what it posted, still has to send.
InFlight(c) ==
  LET fs == FdsOf(c)
      ws == {j.w : j \in {k \in jobs : k.kind = "write" /\ k.c = c}}
            \cup {actions[f].w : f \in {g \in fs : actions[g].st = "out"}}
            \cup {acts[f].w : f \in {g \in fs : acts[g].st = "out"}}
  IN  IF ws = {} THEN <<>> ELSE Rest(CHOOSE w \in ws : TRUE)

\* The stream of a connection is what was pushed to it, whole and in order:
\* what was sent, what a job has in hand and what waits are, together, the
\* messages pushed, through partial sends, merging and reads in between.  Of a
\* connection that is lost, what was sent is the beginning of that stream.  This
\* is for connections whose descriptor was not in process when they were
\* accepted: to another the job of the connection before it, which the inactivity
\* control removes without asking is_in_process, can still send.
StreamIntact ==
  \A c \in Conns \ inherited :
    IF life[c] = "open" /\ peer[c] \in {"up", "closed"}
    THEN \A f \in FdsOf(c) :
           outbox[c] \o InFlight(c) \o FlattenSeq([i \in DOMAIN wq[f] |-> Rest(wq[f][i])]) = UnitsOf(pushed[c])
    ELSE IsPrefix(outbox[c], UnitsOf(pushed[c]))

\* Nothing of a closed connection is left for the next one on its descriptor in
\* the tables of the epoll thread: no queue, no authorization, no key, no place
\* among the listeners or the idle.  (fd_in_process is not among them.)
NothingLeftBehind ==
  \A f \in Fds : client[f] = 0 =>
    /\ wq[f] = <<>> /\ ~waiting[f] /\ reg[f] = {}
    /\ f \notin auth \cup crypt \cup listeners \cup idle

\* "client are still connected": who gets events is a connection that asked for
\* them and has not been closed since.
ListenersAsked == \A f \in listeners : client[f] \in asked

Ask(c, n) == [c |-> c, n |-> n, kind |-> "ask"]

\* Every request is answered, unless the client goes or its connection is
\* closed: no edge is lost while a job has the descriptor, and no rest of a
\* message waits for ever.
RequestsAnswered ==
  \A c \in Conns : \A n \in 1 .. MaxSends - 1 :
    Ask(c, n) \in Range(inbox[c]) ~>
      \/ <<Ask(c, n), 2>> \in Range(outbox[c])
      \/ peer[c] # "up" \/ life[c] = "gone" \/ c \in inherited

\* "kick unautorized": who has not given the password when time_to_auth runs out
\* is closed then, so that no one without authorization is still there after an
\* hour.
UnauthorizedKicked == idle \subseteq auth
==============================================================================
