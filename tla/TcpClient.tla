----------------------------- MODULE TcpClient -----------------------------
(***************************************************************************)
(* libs/network/tcp_client: one connection of the client library. The read *)
(* thread connects, does the key exchange, reads and connects again; the   *)
(* async thread sends the items of deque_async_send; callers queue items   *)
(* and take their callbacks back; one thread may stop and start it all.    *)
(*                                                                         *)
(* On the wire a message is delimiter, text, delimiter. A message of the   *)
(* key exchange is one piece; items and answers are cut in two, the head   *)
(* with the first delimiter and the tail with the second, since ::send and *)
(* ::recv may stop anywhere. How a stream is cut into messages is module   *)
(* Framing. A connection is the value of connection_cnt it was made at, so *)
(* is the key agreed on it.                                                *)
(***************************************************************************)
EXTENDS Integers, Sequences, FiniteSets, SequencesExt

CONSTANTS
    Items,        \* the asynchronous messages and the calls that wait for them
    MaxFaults,    \* how often the network or a server fails
    MaxRestarts,  \* how often restart() or listen_events() is called
    MaxConn,      \* more connections than these faults can cost
    Room          \* pieces a socket takes before ::send returns EAGAIN

VARIABLES
    is_aes,       \* the client encrypts (the pool always does)
    listener,     \* is_event_listener
    running,      \* is_running
    rd,           \* where the read thread is
    st,           \* sock_sts
    fd,           \* the descriptor: the connection it belongs to, 0 if none
    cnt,          \* connection_cnt
    key,          \* cl.aes_key_iv: NoKey, BadKey or a connection
    enc,          \* cl.is_aes
    m,            \* the thread_local buffer of read_bytes: a head, or Nothing
    sp,           \* where the async thread is
    queue,        \* deque_async_send
    job,          \* the item being sent: con0 is con_cnt, left the pieces to go
    lock_send,    \* who holds it
    awaiting,     \* async_send_item::awaiting_send
    cb,           \* items whose send callback is set
    rcb,          \* items whose read callback is registered
    op,           \* where the call of an item is
    res,          \* what its send callback was told
    answered,     \* items whose answer reached the read callback
    telling,      \* items whose read callbacks the read thread is running
    up, in, out, srv, half,   \* the connections, at the server (external)
    faults, restarts,
    stopper,      \* where the thread that calls stop() is
    put,          \* history: the pieces of an item put on the wire
    slipped,      \* history: items whose state check was of an older connection
    garbled       \* history: text was given to the callbacks that nobody sent

reader == <<rd, st, fd, cnt, key, enc, m>>
sender == <<sp, queue, job, put, slipped>>
calls  == <<awaiting, cb, rcb, op, res, answered>>
net    == <<up, in, out, srv, half>>
ctl    == <<is_aes, listener, running, restarts, stopper>>
vars   == <<reader, sender, calls, net, ctl, lock_send, faults, garbled, telling>>

Conns   == 1 .. MaxConn
Nothing == "nothing"
NoKey   == -1
BadKey  == 0
Plain   == -2
NoJob   == [item |-> Nothing, con0 |-> 0, left |-> 0, key |-> Plain]

TcpInit ==
    /\ is_aes \in BOOLEAN /\ listener = FALSE /\ running = TRUE
    /\ rd = "connect" /\ st = "not_connected" /\ fd = 0 /\ cnt = 0
    /\ key = NoKey /\ enc = FALSE /\ m = Nothing
    /\ sp = "idle" /\ queue = <<>> /\ job = NoJob /\ lock_send = "free"
    /\ awaiting = Items /\ cb = {} /\ rcb = {} /\ answered = {}
    /\ op = [i \in Items |-> "new"] /\ res = [i \in Items |-> "none"]
    /\ up = {} /\ in = [c \in Conns |-> <<>>] /\ out = [c \in Conns |-> <<>>]
    /\ srv = [c \in Conns |-> IF is_aes THEN "dh" ELSE "auth"]
    /\ half = [c \in Conns |-> Nothing]
    /\ faults = 0 /\ restarts = 0 /\ stopper = "no"
    /\ put = [i \in Items |-> <<>>] /\ slipped = {} /\ garbled = FALSE /\ telling = {}

\* close(fd): the descriptor is given up with what was in flight
Gone(q, c) == [k \in Conns |-> IF k = c THEN <<>> ELSE q[k]]
CloseFd ==
    /\ fd' = 0 /\ up' = up \ {fd} /\ in' = Gone(in, fd) /\ out' = Gone(out, fd)
    /\ srv' = [c \in Conns |-> IF c = fd THEN "closed" ELSE srv[c]]
    /\ half' = [c \in Conns |-> IF c = fd THEN Nothing ELSE half[c]]

----------------------------------------------------------------------------
(***************************************************************************)
(* Sending. A message of the key exchange is sent by the read thread in    *)
(* one step that waits for lock_send; it fails when the peer is gone.      *)
(***************************************************************************)
Whole(id, k) == <<[id |-> id, part |-> "whole", key |-> k]>>

\* Pieces written to an open descriptor; once the peer is gone they are lost
Written(pieces) ==
    out' = IF fd \in up THEN [out EXCEPT ![fd] = @ \o pieces] ELSE out

\* send(msg, aes_en, false) by the read thread
ReaderSends(id, k) == lock_send = "free" /\ fd # 0 /\ Written(Whole(id, k))

ReaderCannotSend == lock_send = "free" /\ fd \notin up

\* The key send() would encrypt with: cl.is_aes is read without a lock
SendKey == IF enc THEN key ELSE Plain

\* set_event_listener follows every transition to connected
Connected ==
    /\ st' = "connected"
    /\ rd' = IF listener THEN "listen" ELSE "read"

----------------------------------------------------------------------------
(***************************************************************************)
(* connect(), in the read thread. Each step can be seen by a sender.       *)
(***************************************************************************)
ConnectState ==
    /\ rd = "connect"
    /\ st' = "not_connected" /\ rd' = "close"
    /\ UNCHANGED <<fd, cnt, key, enc, m, sender, calls, net, ctl, lock_send,
                   faults, garbled, telling>>

\* ::close gives the connection up
ConnectClose ==
    /\ rd = "close"
    /\ CloseFd /\ rd' = "count"
    /\ UNCHANGED <<st, cnt, key, enc, m, sender, calls, ctl, lock_send, faults,
                   garbled, telling>>

\* ++connection_cnt and cl.clear(true); the buffer m of read_bytes stays
ConnectCount ==
    /\ rd = "count"
    /\ cnt' = cnt + 1 /\ key' = NoKey /\ enc' = FALSE /\ rd' = "socket"
    /\ UNCHANGED <<st, fd, m, sender, calls, net, ctl, lock_send, faults,
                   garbled, telling>>

ConnectSocket ==
    /\ rd = "socket"
    /\ \/ /\ up' = up \cup {cnt} /\ fd' = cnt
          /\ rd' = IF is_aes THEN "dh" ELSE "auth"
          /\ faults' = faults
       \/ /\ faults < MaxFaults /\ faults' = faults + 1
          /\ rd' = "read" /\ UNCHANGED <<up, fd>>
    /\ UNCHANGED <<st, cnt, key, enc, m, sender, calls, in, out, srv, half,
                   ctl, lock_send, garbled, telling>>

ConnectSendDh ==
    /\ rd = "dh"
    /\ \/ ReaderSends("dh", Plain) /\ st' = "waiting_for_encryption_established"
       \/ ReaderCannotSend /\ UNCHANGED <<st, out>>
    /\ rd' = "read"
    /\ UNCHANGED <<fd, cnt, key, enc, m, sender, calls, up, in, srv, half, ctl,
                   lock_send, faults, garbled, telling>>

\* The authorization; from connect() a failure is left to the next recv, from
\* read_bytes the descriptor is closed
SendAuth ==
    /\ rd = "auth"
    /\ \/ ReaderSends("auth", SendKey) /\ Connected /\ UNCHANGED <<fd, up, in, srv, half>>
       \/ /\ ReaderCannotSend /\ rd' = "read" /\ st' = st
          /\ IF is_aes THEN CloseFd ELSE UNCHANGED <<fd, net>>
    /\ UNCHANGED <<cnt, key, enc, m, sender, calls, ctl, lock_send, faults,
                   garbled, telling>>

\* set_event_listener: when it fails stop() joins the thread it runs in, which
\* std::thread refuses with an exception nobody catches
SendListen ==
    /\ rd = "listen"
    /\ \/ ReaderSends("listen", SendKey) /\ rd' = "read"
       \/ ReaderCannotSend /\ rd' = "dead" /\ out' = out
    /\ UNCHANGED <<st, fd, cnt, key, enc, m, sender, calls, up, in, srv, half,
                   ctl, lock_send, faults, garbled, telling>>

----------------------------------------------------------------------------
(***************************************************************************)
(* read(): the loop of the read thread.                                    *)
(***************************************************************************)
ReaderReads == rd = "read" /\ running

\* The echo guard: nothing was heard for a minute. The state stays connected.
EchoClose ==
    /\ ReaderReads /\ fd # 0
    /\ faults < MaxFaults /\ faults' = faults + 1
    /\ CloseFd
    /\ UNCHANGED <<rd, st, cnt, key, enc, m, sender, calls, ctl, lock_send,
                   garbled, telling>>

\* RecvFails that does not take an end of file for a failure
RecvFailsError ==
    /\ ReaderReads /\ fd = 0
    /\ rd' = "connect"
    /\ UNCHANGED <<st, fd, cnt, key, enc, m, sender, calls, net, ctl, lock_send,
                   faults, garbled, telling>>

\* recv fails or returns 0: connect again (a descriptor 0 is no socket)
RecvFails ==
    /\ ReaderReads
    /\ fd \notin {c \in Conns : c \in up \/ in[c] # <<>>}
    /\ rd' = "connect"
    /\ UNCHANGED <<st, fd, cnt, key, enc, m, sender, calls, net, ctl, lock_send,
                   faults, garbled, telling>>

\* What the head or tail p makes of the buffer: a complete text, or Nothing.
\* The delimiter before a head ends what the buffer still holds.
Ends(p) == p.part # "head" \/ m # Nothing
Text(p) ==
    CASE m # Nothing /\ p.part = "tail" /\ p.id = m -> m
      [] m = Nothing /\ p.part = "whole"             -> p.id
      [] OTHER                                       -> "garbage"
\* A head or a whole message is read again once the rest before it is gone
Consumes(p) == ~(m # Nothing /\ p.part # "tail")
Buffer(p) == IF p.part = "head" /\ m = Nothing THEN p.id ELSE Nothing

\* The lambda pr for a complete text t while the keys are being exchanged:
\* uncompress_number takes any text for the peer's number
ExchangeKeys(t) ==
    \/ key = NoKey /\ key' = (IF t = "dh" THEN fd ELSE BadKey)
       /\ enc' = enc /\ rd' = "ok_aes"
    \/ key # NoKey /\ t = "ok_aes" /\ key = fd
       /\ enc' = TRUE /\ rd' = "auth" /\ key' = key

\* ... and anything but ok_aes under that key closes the connection
ExchangeFails(t) == key # NoKey /\ ~(t = "ok_aes" /\ key = fd)

\* The buffer after the piece, which is read again if only the delimiter before
\* it was needed
Received(p) ==
    /\ m' = Buffer(p)
    /\ in' = IF Consumes(p) THEN [in EXCEPT ![fd] = Tail(@)] ELSE in

\* All read callbacks are given the text t, under lock_read_callback
Deliver(t) ==
    /\ rd' = "deliver" /\ telling' = rcb /\ answered' = answered \cup ({t} \cap rcb)
    /\ garbled' = (garbled \/ t = "garbage")

\* read_bytes, one piece at a time
RecvPiece ==
    /\ ReaderReads /\ fd # 0 /\ in[fd] # <<>>
    /\ LET p == Head(in[fd])
           exchange == Ends(p) /\ is_aes /\ ~enc
       IN  \/ /\ ~Ends(p) /\ Received(p)
              /\ UNCHANGED <<rd, key, enc, fd, up, out, srv, half, answered, garbled,
                             telling>>
           \/ /\ Ends(p) /\ ~exchange /\ Received(p) /\ Deliver(Text(p))
              /\ UNCHANGED <<key, enc, fd, up, out, srv, half>>
           \/ /\ exchange /\ Received(p) /\ ExchangeKeys(Text(p))
              /\ UNCHANGED <<fd, up, out, srv, half, answered, garbled, telling>>
           \/ /\ exchange /\ ExchangeFails(Text(p)) /\ CloseFd
              /\ rd' = rd /\ m' = Buffer(p)
              /\ UNCHANGED <<key, enc, answered, garbled, telling>>
    /\ UNCHANGED <<st, cnt, sender, awaiting, cb, rcb, op, res, ctl, lock_send,
                   faults>>

\* send("ok_aes") after the peer's number; its result is not looked at
SendOkAes ==
    /\ rd = "ok_aes"
    /\ ReaderSends("ok_aes", key) \/ (ReaderCannotSend /\ out' = out)
    /\ rd' = "read"
    /\ UNCHANGED <<st, fd, cnt, key, enc, m, sender, calls, up, in, srv, half,
                   ctl, lock_send, faults, garbled, telling>>

\* The read callbacks return; lock_read_callback was held from RecvPiece on
Delivered ==
    /\ rd = "deliver" /\ rd' = "read" /\ telling' = {}
    /\ UNCHANGED <<st, fd, cnt, key, enc, m, sender, calls, net, ctl, lock_send,
                   faults, garbled>>

ReaderEnds ==
    /\ rd = "read" /\ ~running
    /\ rd' = "off"
    /\ UNCHANGED <<st, fd, cnt, key, enc, m, sender, calls, net, ctl, lock_send,
                   faults, garbled, telling>>

----------------------------------------------------------------------------
(***************************************************************************)
(* send_async_() and send(): the async thread.                             *)
(***************************************************************************)
AsyncTake ==
    /\ sp = "idle" /\ running /\ queue # <<>>
    /\ queue' = Tail(queue)
    /\ IF Head(queue) \in awaiting
       THEN sp' = "check" /\ job' = [NoJob EXCEPT !.item = Head(queue)]
       ELSE UNCHANGED <<sp, job>>
    /\ UNCHANGED <<put, slipped, reader, calls, net, ctl, lock_send, faults,
                   garbled, telling>>

\* con0 holds the connection the state was seen on until SendLoad
SendCheck ==
    /\ sp = "check"
    /\ sp' = IF st = "connected" THEN "load" ELSE "failed"
    /\ job' = [job EXCEPT !.con0 = cnt]
    /\ UNCHANGED <<queue, put, slipped, reader, calls, net, ctl, lock_send,
                   faults, garbled, telling>>

SendLoad ==
    /\ sp = "load" /\ sp' = "lock"
    /\ slipped' = IF job.con0 # cnt THEN slipped \cup {job.item} ELSE slipped
    /\ job' = [job EXCEPT !.con0 = cnt]
    /\ UNCHANGED <<queue, put, reader, calls, net, ctl, lock_send, faults,
                   garbled, telling>>

\* The text is encrypted once, under lock_send
SendLock ==
    /\ sp = "lock" /\ lock_send = "free"
    /\ lock_send' = "async" /\ sp' = "send"
    /\ job' = [job EXCEPT !.left = 2, !.key = SendKey]
    /\ UNCHANGED <<queue, put, slipped, reader, calls, net, ctl, faults, garbled,
                   telling>>

Piece ==
    [id |-> job.item, part |-> IF job.left = 2 THEN "head" ELSE "tail",
     key |-> job.key]

\* One turn of f_send; fd is read again in every turn, and connect() does not
\* hold lock_send when it replaces it
SendPiece ==
    /\ sp = "send" /\ job.left > 0
    /\ fd # 0 /\ (fd \in up => Len(out[fd]) < Room)
    /\ Written(<<Piece>>)
    /\ put' = [put EXCEPT ![job.item] =
                  Append(@, [con |-> fd, part |-> Piece.part, key |-> job.key])]
    /\ job' = [job EXCEPT !.left = @ - 1]
    /\ UNCHANGED <<sp, queue, slipped, reader, calls, up, in, srv, half, ctl,
                   lock_send, faults, garbled, telling>>

\* SentOk without the second look at connection_cnt
SentOkUnchecked == job.left = 0

\* ok: everything was sent and no connect() was begun meanwhile
SentOk == job.left = 0 /\ job.con0 = cnt

SendReturns ==
    /\ sp = "send"
    /\ job.left = 0 \/ fd \notin up
    /\ lock_send' = "free"
    /\ sp' = IF SentOk THEN "sent" ELSE "failed"
    /\ UNCHANGED <<queue, job, put, slipped, reader, calls, net, ctl, faults,
                   garbled, telling>>

\* execute_callback takes the lock of the item; the call may have taken its
\* callback away meanwhile
CallbackBegins ==
    /\ sp \in {"sent", "failed"}
    /\ IF job.item \in awaiting /\ job.item \in cb
       THEN /\ sp' = "callback"
            /\ res' = [res EXCEPT ![job.item] = IF sp = "sent" THEN "ok" ELSE "error"]
            /\ job' = job
       ELSE sp' = "idle" /\ job' = NoJob /\ res' = res
    /\ UNCHANGED <<queue, put, slipped, reader, awaiting, cb, rcb, op, answered,
                   net, ctl, lock_send, faults, garbled, telling>>

CallbackEnds ==
    /\ sp = "callback"
    /\ sp' = "idle" /\ job' = NoJob
    /\ UNCHANGED <<queue, put, slipped, reader, calls, net, ctl, lock_send,
                   faults, garbled, telling>>

\* AsyncEnds that waits for the queue to be empty
AsyncEndsEmpty ==
    /\ sp = "idle" /\ ~running /\ queue = <<>>
    /\ sp' = "off"
    /\ UNCHANGED <<queue, job, put, slipped, reader, calls, net, ctl, lock_send,
                   faults, garbled, telling>>

AsyncEnds ==
    /\ sp = "idle" /\ ~running
    /\ sp' = "off"
    /\ UNCHANGED <<queue, job, put, slipped, reader, calls, net, ctl, lock_send,
                   faults, garbled, telling>>

----------------------------------------------------------------------------
(***************************************************************************)
(* The calls, as write_file, command and the others of the pool make them. *)
(* Their callbacks refer to variables on their stacks.                     *)
(***************************************************************************)
\* set_read_callback and send_async
Ask(i) ==
    /\ op[i] = "new" /\ rd # "deliver"
    /\ op' = [op EXCEPT ![i] = "wait"]
    /\ cb' = cb \cup {i} /\ rcb' = rcb \cup {i} /\ queue' = Append(queue, i)
    /\ UNCHANGED <<sp, job, put, slipped, reader, awaiting, res, answered, net,
                   ctl, lock_send, faults, garbled, telling>>

\* The wait is over, or has timed out: unset_awaiting_send
GiveUp(i) ==
    /\ op[i] = "wait"
    /\ op' = [op EXCEPT ![i] = "unset"] /\ awaiting' = awaiting \ {i}
    /\ UNCHANGED <<cb, rcb, res, answered, sender, reader, net, ctl, lock_send,
                   faults, garbled, telling>>

\* CallbackIdle of an item without a lock
CallbackAny(i) == TRUE

\* The lock of the item is free
CallbackIdle(i) == ~(sp = "callback" /\ job.item = i)

UnsetCallback(i) ==
    /\ op[i] = "unset" /\ CallbackIdle(i)
    /\ op' = [op EXCEPT ![i] = "unread"] /\ cb' = cb \ {i}
    /\ UNCHANGED <<awaiting, rcb, res, answered, sender, reader, net, ctl,
                   lock_send, faults, garbled, telling>>

UnsetReadCallback(i) ==
    /\ op[i] = "unread" /\ rd # "deliver"
    /\ op' = [op EXCEPT ![i] = "gone"] /\ rcb' = rcb \ {i}
    /\ UNCHANGED <<awaiting, cb, res, answered, sender, reader, net, ctl,
                   lock_send, faults, garbled, telling>>

----------------------------------------------------------------------------
(***************************************************************************)
(* stop(), start(), restart() and listen_events().                         *)
(***************************************************************************)
Stop ==
    /\ stopper = "no" /\ restarts < MaxRestarts
    /\ running' = FALSE /\ stopper' = "join_read" /\ restarts' = restarts + 1
    /\ UNCHANGED <<is_aes, listener, reader, sender, calls, net, lock_send,
                   faults, garbled, telling>>

StopJoinsRead ==
    /\ stopper = "join_read" /\ rd = "off" /\ stopper' = "join_async"
    /\ UNCHANGED <<is_aes, listener, running, restarts, reader, sender, calls,
                   net, lock_send, faults, garbled, telling>>

\* The state is not touched: it may stay connected with no descriptor
StopJoinsAsync ==
    /\ stopper = "join_async" /\ sp = "off" /\ stopper' = "stopped"
    /\ CloseFd
    /\ UNCHANGED <<is_aes, listener, running, restarts, rd, st, cnt, key, enc, m,
                   sender, calls, lock_send, faults, garbled, telling>>

\* New threads: the thread_local buffer is empty again
Start ==
    /\ stopper = "stopped" /\ stopper' = "no"
    /\ running' = TRUE /\ rd' = "connect" /\ sp' = "idle" /\ m' = Nothing
    /\ listener' \in {listener, TRUE}
    /\ UNCHANGED <<is_aes, restarts, st, fd, cnt, key, enc, queue, job, put,
                   slipped, calls, net, lock_send, faults, garbled, telling>>

----------------------------------------------------------------------------
(***************************************************************************)
(* The server, epoll_v2::process_message, and the network (external). The  *)
(* server ignores what it cannot read or does not expect. That its thread  *)
(* pool computes the keys, and that a message of an authorized client is   *)
(* handled and answered elsewhere, is one step here.                       *)
(***************************************************************************)
KeyOf(c) == IF is_aes /\ srv[c] # "dh" THEN c ELSE Plain

Answer(id) == <<[id |-> id, part |-> "head", key |-> Plain],
                [id |-> id, part |-> "tail", key |-> Plain]>>

ServerReads(c) ==
    /\ c \in up /\ out[c] # <<>>
    /\ LET p    == Head(out[c])
           full == p.part = "whole" \/ (p.part = "tail" /\ half[c] = p.id)
           good == full /\ p.key = KeyOf(c)
       IN  /\ half' = [half EXCEPT ![c] = IF p.part = "head" THEN p.id ELSE Nothing]
           /\ CASE good /\ srv[c] = "dh" /\ p.id = "dh" ->
                     srv' = [srv EXCEPT ![c] = "ok_aes"]
                     /\ in' = [in EXCEPT ![c] = @ \o Whole("dh", Plain)]
                [] good /\ srv[c] = "ok_aes" /\ p.id = "ok_aes" ->
                     srv' = [srv EXCEPT ![c] = "auth"]
                     /\ in' = [in EXCEPT ![c] = @ \o Whole("ok_aes", c)]
                [] good /\ srv[c] = "auth" /\ p.id = "auth" ->
                     srv' = [srv EXCEPT ![c] = "ready"] /\ in' = in
                [] good /\ srv[c] = "ready" /\ p.id \in Items ->
                     srv' = srv /\ in' = [in EXCEPT ![c] = @ \o Answer(p.id)]
                [] OTHER -> UNCHANGED <<srv, in>>
    /\ out' = [out EXCEPT ![c] = Tail(@)]
    /\ UNCHANGED <<up, reader, sender, calls, ctl, lock_send, faults, garbled, telling>>

\* The connection breaks; some of what was on its way still arrives
Break(c) ==
    /\ c \in up /\ faults < MaxFaults /\ faults' = faults + 1
    /\ up' = up \ {c} /\ out' = Gone(out, c)
    /\ \E n \in 0 .. Len(in[c]) : in' = [in EXCEPT ![c] = SubSeq(@, 1, n)]
    /\ UNCHANGED <<srv, half, reader, sender, calls, ctl, lock_send, garbled, telling>>

----------------------------------------------------------------------------
ConnectNext ==
    \/ ConnectState \/ ConnectClose \/ ConnectCount \/ ConnectSocket
    \/ ConnectSendDh \/ SendOkAes \/ SendAuth \/ SendListen

ReadNext == ConnectNext \/ RecvFails \/ RecvPiece \/ Delivered \/ ReaderEnds

AsyncNext ==
    \/ AsyncTake \/ SendCheck \/ SendLoad \/ SendLock \/ SendPiece \/ SendReturns
    \/ CallbackBegins \/ CallbackEnds \/ AsyncEnds

StopNext == StopJoinsRead \/ StopJoinsAsync \/ Start

CallNext(i) == UnsetCallback(i) \/ UnsetReadCallback(i)

\* std::terminate ends the process
TcpNext ==
    /\ rd # "dead"
    /\ \/ ReadNext \/ EchoClose
       \/ AsyncNext
       \/ Stop \/ StopNext
       \/ \E i \in Items : Ask(i) \/ GiveUp(i) \/ CallNext(i)
       \/ \E c \in Conns : ServerReads(c) \/ Break(c)

\* The threads run, the server reads what it is sent
TcpSpec ==
    /\ TcpInit /\ [][TcpNext]_vars
    /\ WF_vars(rd # "dead" /\ ReadNext)
    /\ WF_vars(rd # "dead" /\ AsyncNext)
    /\ WF_vars(rd # "dead" /\ StopNext)
    /\ \A i \in Items : WF_vars(rd # "dead" /\ CallNext(i))
    /\ \A c \in Conns : WF_vars(rd # "dead" /\ ServerReads(c))

----------------------------------------------------------------------------
(***************************************************************************)
(* Properties.                                                             *)
(***************************************************************************)
\* send() tells the async thread "ok" only of a message that was put on one
\* connection as a whole, encrypted with the key of that connection; the
\* exception are messages whose state check saw an older connection (the check
\* and the load of connection_cnt are two steps).
OkMeansWhole ==
    \A i \in Items : res[i] = "ok" =>
        /\ Len(put[i]) = 2 /\ put[i][1].con = put[i][2].con
        /\ i \in slipped \/ (is_aes => put[i][1].key = put[i][1].con)

\* Once a call returned none of its callbacks runs: they write to its stack.
\* With encryption none is ever given a text the server did not send, though
\* the buffer of read_bytes survives a connection: the rest of a broken message
\* is taken for a message of the key exchange, which then fails once.
CallbacksSound ==
    /\ is_aes => ~garbled
    /\ \A i \in Items : op[i] = "gone" =>
         ~(sp = "callback" /\ job.item = i) /\ i \notin telling

\* The read thread gets the connection back after any fault, unless it is
\* stopped or dies as set_event_listener does when its request cannot be sent.
Recovers ==
    <>[](\/ rd = "dead" \/ ~running
         \/ st = "connected" /\ fd \in up /\ srv[fd] = "ready")

\* stop() returns: neither thread waits for ever (if the server reads).
StopReturns == (stopper = "join_read") ~> (stopper = "stopped" \/ rd = "dead")
============================================================================
