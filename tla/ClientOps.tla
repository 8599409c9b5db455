----------------------------- MODULE ClientOps ------------------------------
(***************************************************************************)
(* client/rssdisk_pool.cpp: one call of rssdisk::client that asks several  *)
(* servers and waits. The calling thread, the async thread and the read    *)
(* thread of each tcp_client share the counters and sets on its stack.     *)
(*                                                                         *)
(*   write      write_file; cdb writes also send removers to the others    *)
(*   command    command(); newest is read_file_tms_newest                  *)
(*   statuses   get_servers_statuses, get_servers_ping                     *)
(*   read       the f_read of read_file, one server after another          *)
(*                                                                         *)
(* What a tcp_client does is module TcpClient; here a request is queued,   *)
(* sent (send() may be wrong about that in both directions), served and    *)
(* answered.                                                               *)
(***************************************************************************)
EXTENDS Integers, Sequences, FiniteSets, FiniteSetsExt, SequencesExt

CONSTANTS
    Servers,    \* the servers, numbered as in clients
    Group,      \* their network groups
    Modes,      \* the calls to look at, and whether they wait for answers
    Versions,   \* what the servers may hold when a read begins
    Want,       \* count_server_to_write, or count_parts of a command
    Parts,      \* count_parts of a write or a read
    Pref,       \* preffered_netwok_groups
    MaxFaults   \* messages for other calls and connections lost, for each kind

ASSUME WantAssumption == Want \in Nat \ {0} /\ Parts \in Nat \ {0}

VARIABLES
    kind, wait,     \* the call; _wait_responce
    pc, part, need, \* where it is, the part, need_to_send
    pool, used,     \* servers_pool_indexex, used_groups
    prefs,          \* the preferred groups still to be used in this part
    conn,           \* servers whose tcp_client is connected
    count,          \* count_awainting_responses
    count_ok, ips,  \* count_ok, ips_ok
    got,            \* indexex: the answers of command in the order they came
    res,            \* what statuses and read say of each server
    tset, blamed,   \* timeout_indexes; servers told timeout_detected
    item, rcb,      \* the async_send_items, the read callbacks
    req,            \* the request at the server
    rem,            \* the remover of a cdb write
    stored,         \* what the servers hold: a version, 0 if nothing
    disabled,       \* disabled_write_clients
    timedout,       \* the last wait ended by its timeout
    asked, paid,    \* servers asked in this part; those taken off count again
    stray, drops,   \* messages for other calls, lost connections so far
    extra           \* history: why count was taken from by nobody asked in this part

call    == <<kind, wait, blamed, timedout>>
turn    == <<pc, part, need, pool, used, prefs, asked>>
counter == <<count, paid, extra>>
results == <<count_ok, ips, got, res, tset, disabled>>
world   == <<conn, req, rem, stored, stray, drops>>
vars    == <<call, turn, counter, results, world, item, rcb>>

Write   == {"write", "cdb"}
Command == {"command", "newest"}
New     == 2    \* the version a write stores; reads find 0, 1 or 2

OpsInit ==
    /\ \E mode \in Modes : kind = mode[1] /\ wait = mode[2]
    /\ pc = "choose" /\ part = 1 /\ need = 0 /\ pool = {} /\ used = {}
    /\ prefs = <<>>
    /\ conn = Servers /\ count = 0 /\ count_ok = 0 /\ ips = {} /\ got = <<>>
    /\ res = [s \in Servers |-> "none"] /\ tset = {} /\ blamed = {}
    /\ item = [s \in Servers |-> "none"] /\ rcb = {}
    /\ req = [s \in Servers |-> "none"] /\ rem = [s \in Servers |-> "no"]
    /\ stored \in IF kind = "newest" THEN Versions
                                     ELSE {[s \in Servers |-> 0]}
    /\ disabled = {} /\ timedout = FALSE /\ asked = {} /\ paid = {}
    /\ stray = 0 /\ drops = 0 /\ extra = {}

----------------------------------------------------------------------------
(***************************************************************************)
(* The calling thread: choosing servers and asking them.                   *)
(***************************************************************************)
\* pop_index_rand: any server of the preferred group, else of a group not used
\* yet, else of any
Preferred == prefs # <<>> /\ \E s \in pool : Group[s] = Head(prefs)
PopFrom ==
    LET groups == {Group[s] : s \in pool}
        fresh  == groups \ used
        from   == IF Preferred THEN {Head(prefs)}
                  ELSE IF fresh # {} THEN fresh ELSE groups
    IN  {s \in pool : Group[s] \in from}

\* The eligible servers of a write, which is refused when they are too few; the
\* other calls look at each server when its turn comes
Choose ==
    /\ pc = "choose"
    /\ pool' = IF kind \in Write THEN conn ELSE Servers
    /\ need' = Want /\ prefs' = Pref
    /\ pc' = IF kind \in Write /\ Want > Cardinality(conn) THEN "done" ELSE "send"
    /\ UNCHANGED <<call, part, used, asked, counter, results, world, item, rcb>>

\* The loops over the servers go by their numbers
First(s, S) == s \in S /\ \A t \in S : s <= t

\* The read callback is set, the request is counted and queued
Ask(s) ==
    /\ asked' = asked \cup {s} /\ count' = count + 1
    /\ item' = [item EXCEPT ![s] = "queued"]
    /\ rcb' = IF wait THEN rcb \cup {s} ELSE rcb

\* One turn of f_send in write_file
SendWrite ==
    /\ pc = "send" /\ kind \in Write /\ need > 0
    /\ \E s \in PopFrom :
        /\ pool' = pool \ {s}
        /\ used' = IF Preferred THEN used ELSE used \cup {Group[s]}
        /\ prefs' = IF prefs = <<>> THEN prefs ELSE Tail(prefs)
        /\ IF s \in conn THEN Ask(s) /\ need' = need - 1
           ELSE UNCHANGED <<asked, count, item, rcb, need>>
    /\ UNCHANGED <<call, pc, part, paid, extra, results, world>>

\* One turn of the loop over clients in command and in get_servers_statuses
SendEach(s) ==
    /\ pc = "send" /\ kind \in Command \cup {"statuses"}
    /\ First(s, pool)
    /\ pool' = pool \ {s}
    /\ IF s \in conn THEN Ask(s) ELSE UNCHANGED <<asked, count, item, rcb>>
    /\ tset' = IF s \in conn /\ kind \in Command THEN tset \cup {s} ELSE tset
    /\ res' = IF s \notin conn /\ kind = "statuses"
              THEN [res EXCEPT ![s] = "connect"] ELSE res
    /\ UNCHANGED <<call, pc, part, need, used, prefs, paid, extra, count_ok, ips,
                   got, disabled, world>>

\* f_read of read_file asks one server, connected or not
SendRead(s) ==
    /\ pc = "send" /\ kind = "read" /\ asked = {} /\ s \in pool
    /\ pool' = pool \ {s} /\ Ask(s)
    /\ UNCHANGED <<call, pc, part, need, used, prefs, paid, extra, results, world>>

SendEnds ==
    /\ pc = "send"
    /\ pool = {} \/ (kind \in Write /\ need <= 0) \/ (kind = "read" /\ asked # {})
    /\ pc' = IF kind \in Command /\ asked = {} THEN "done" ELSE "wait"
    /\ UNCHANGED <<call, part, need, pool, used, prefs, asked, counter, results,
                   world, item, rcb>>

----------------------------------------------------------------------------
(***************************************************************************)
(* The calling thread: waiting and returning.                              *)
(***************************************************************************)
\* Enough that stops one answer early
EnoughButOne ==
    CASE kind \in Write     -> count <= 1
      [] kind = "command"   -> count <= 1 \/ Len(got) >= Want
      [] OTHER              -> count <= 1

\* count_parts_awaiting is unlimited for newest
Enough ==
    CASE kind \in Write     -> count <= 0
      [] kind = "command"   -> count = 0 \/ Len(got) >= Want
      [] OTHER              -> count = 0

WaitEnds ==
    /\ pc = "wait" /\ timedout' = ~Enough
    /\ pc' = CASE kind \in Write /\ count_ok < Want -> "next"
               [] kind = "cdb" /\ count_ok >= Want  -> "remove"
               [] kind \in Command                  -> "blame"
               [] OTHER                             -> "unset"
    /\ UNCHANGED <<kind, wait, blamed, part, need, pool, used, prefs, asked,
                   counter, results, world, item, rcb>>

\* The next part asks for what is still missing
NextPart ==
    /\ pc = "next"
    /\ IF part < Parts /\ pool # {}
       THEN /\ pc' = "send" /\ part' = part + 1 /\ need' = Want - count_ok
            /\ count' = 0 /\ asked' = {} /\ paid' = {} /\ extra' = {}
            /\ prefs' = SelectSeq(Pref, LAMBDA g : g \notin {Group[s] : s \in ips})
       ELSE /\ pc' = IF kind = "cdb" THEN "remove" ELSE "unset"
            /\ UNCHANGED <<part, need, prefs, asked, counter>>
    /\ UNCHANGED <<call, pool, used, results, world, item, rcb>>

\* command: servers that said nothing before the timeout
Blame ==
    /\ pc = "blame" /\ pc' = "unset"
    /\ blamed' = IF timedout THEN tset ELSE {}
    /\ UNCHANGED <<kind, wait, timedout, part, need, pool, used, prefs, asked,
                   counter, results, world, item, rcb>>

\* The removers: ips_ok is read without its lock, and while answers may come
SendRemover(s) ==
    /\ pc = "remove" /\ First(s, {t \in Servers : rem[t] = "no"})
    /\ rem' = [rem EXCEPT ![s] = IF s \in ips \/ s \notin conn THEN "skipped"
                                 ELSE "queued"]
    /\ UNCHANGED <<call, turn, counter, results, conn, req, stored, stray, drops,
                   item, rcb>>

RemoveEnds ==
    /\ pc = "remove" /\ \A s \in Servers : rem[s] # "no"
    /\ pc' = "unset"
    /\ UNCHANGED <<call, part, need, pool, used, prefs, asked, counter, results,
                   world, item, rcb>>

\* A send callback holds the lock of its item, a read callback lock_read_callback
CallbackSteps == {"ok1", "ok2", "ok3"}
SendIdle(s) == item[s] \notin CallbackSteps

ReadIdle(s) == req[s] \notin CallbackSteps

\* unset_awaiting_send and unset_callback
Unset(s) ==
    /\ pc = "unset" /\ SendIdle(s)
    /\ First(s, {t \in Servers : item[t] \notin {"none", "off"}})
    /\ item' = [item EXCEPT ![s] = "off"]
    /\ UNCHANGED <<call, turn, counter, results, world, rcb>>

ItemsUnset == \A s \in Servers : item[s] \in {"none", "off"}

UnsetRead(s) ==
    /\ pc = "unset" /\ ItemsUnset /\ First(s, rcb) /\ ReadIdle(s)
    /\ rcb' = rcb \ {s}
    /\ UNCHANGED <<call, turn, counter, results, world, item>>

\* read goes on with the next server and new counters
ReadNextServer ==
    /\ pc = "unset" /\ ItemsUnset /\ rcb = {}
    /\ kind = "read" /\ "ok" \notin Range(res) /\ part < Parts /\ pool # {}
    /\ pc' = "send" /\ part' = part + 1
    /\ count' = 0 /\ asked' = {} /\ paid' = {} /\ extra' = {}
    /\ UNCHANGED <<call, need, pool, used, prefs, results, world, item, rcb>>

\* The call returns; statuses sets timeout for the servers without a status
Return ==
    /\ pc = "unset" /\ ItemsUnset /\ rcb = {}
    /\ ~(kind = "read" /\ "ok" \notin Range(res) /\ part < Parts /\ pool # {})
    /\ pc' = "done"
    /\ res' = [s \in Servers |-> IF kind = "statuses" /\ res[s] = "none"
                                 THEN "timeout" ELSE res[s]]
    /\ UNCHANGED <<call, part, need, pool, used, prefs, asked, counter, count_ok,
                   ips, got, tset, disabled, world, item, rcb>>

----------------------------------------------------------------------------
(***************************************************************************)
(* The callbacks, in the async and the read threads.                       *)
(***************************************************************************)
\* --count_awainting_responses for the request to s
Pay(s) ==
    /\ count' = count - 1
    /\ paid' = paid \cup ({s} \cap asked)
    /\ extra' = extra \cup (CASE s \notin asked -> {"late"}
                               [] s \in paid     -> {"twice"}
                               [] OTHER          -> {})

\* send(): the request may have been delivered whatever is said of it. The send
\* callback of a write that waits for answers, or of one that failed, is empty.
AsyncSends(s) ==
    /\ item[s] = "queued"
    /\ \E delivered, ok \in BOOLEAN :
        /\ s \notin conn => ~delivered /\ ~ok
        /\ item' = [item EXCEPT ![s] = CASE kind \in Write /\ (wait \/ ~ok) -> "done"
                                         [] OTHER -> IF ok THEN "told_ok" ELSE "told_err"]
        /\ req' = [req EXCEPT ![s] = IF delivered THEN "out" ELSE "lost"]
    /\ UNCHANGED <<call, turn, counter, results, conn, rem, stored, stray, drops,
                   rcb>>

\* execute_callback
SendCallback(s) ==
    /\ item[s] \in {"told_ok", "told_err"}
    /\ LET failed == item[s] = "told_err" /\ kind \notin Write
       IN  /\ item' = [item EXCEPT ![s] =
                  IF @ = "told_ok" /\ kind \in Write /\ ~wait THEN "ok1" ELSE "done"]
           /\ IF failed THEN Pay(s) ELSE UNCHANGED counter
           /\ tset' = IF failed THEN tset \ {s} ELSE tset
           /\ res' = IF failed /\ kind = "statuses" /\ res[s] = "none"
                     THEN [res EXCEPT ![s] = "send"] ELSE res
    /\ UNCHANGED <<call, turn, count_ok, ips, got, disabled, world, rcb>>

\* A success of a write is counted in three steps: count_ok, ips_ok, count
Next3(at) == CASE at = "ok1" -> "ok2" [] at = "ok2" -> "ok3" [] OTHER -> "done"
OkStep(s, at) ==
    /\ count_ok' = IF at = "ok1" THEN count_ok + 1 ELSE count_ok
    /\ ips' = IF at = "ok2" THEN ips \cup {s} ELSE ips
    /\ IF at = "ok3" THEN Pay(s) ELSE UNCHANGED counter
    /\ UNCHANGED <<call, turn, got, res, tset, disabled, conn, rem, stored, stray,
                   drops, rcb>>

SendOkStep(s) ==
    /\ item[s] \in CallbackSteps /\ OkStep(s, item[s])
    /\ item' = [item EXCEPT ![s] = Next3(@)] /\ req' = req

ReadOkStep(s) ==
    /\ req[s] \in CallbackSteps /\ OkStep(s, req[s])
    /\ req' = [req EXCEPT ![s] = Next3(@)] /\ item' = item

\* WriteAnswer that does not look at the status
WriteAnswerAny(s, a) ==
    /\ req' = [req EXCEPT ![s] = "ok1"]
    /\ UNCHANGED <<counter, disabled, got, res, tset>>

\* The answer of s to a write; 03, 12 and 14 disable the server for a day
WriteAnswer(s, a) ==
    /\ disabled' = IF a = "full" THEN disabled \cup {s} ELSE disabled
    /\ req' = [req EXCEPT ![s] = IF a = "ok" THEN "ok1" ELSE "done"]
    /\ IF a = "ok" THEN UNCHANGED counter ELSE Pay(s)
    /\ UNCHANGED <<got, res, tset>>

\* ... to a command
CommandAnswer(s, a) ==
    /\ tset' = tset \ {s} /\ Pay(s)
    /\ got' = IF a = "ok" THEN Append(got, s) ELSE got
    /\ req' = [req EXCEPT ![s] = "done"]
    /\ UNCHANGED <<disabled, res>>

\* ... to statuses, where the first status stays, and to read
StatusAnswer(s, a) ==
    /\ Pay(s)
    /\ res' = IF res[s] = "none"
              THEN [res EXCEPT ![s] = IF a = "ok" THEN "ok" ELSE "error"] ELSE res
    /\ req' = [req EXCEPT ![s] = "done"]
    /\ UNCHANGED <<disabled, got, tset>>

ReadCallback(s) ==
    /\ req[s] \in {"ok", "full", "bad"} /\ s \in rcb
    /\ CASE kind \in Write   -> WriteAnswer(s, req[s])
         [] kind \in Command -> CommandAnswer(s, req[s])
         [] OTHER            -> StatusAnswer(s, req[s])
    /\ UNCHANGED <<call, turn, count_ok, ips, conn, rem, stored, stray, drops,
                   item, rcb>>

\* A message to some other call: write_file ignores it, command looks at its
\* identity but takes it for a sign of life, the others count it
Stray(s) ==
    /\ s \in rcb /\ kind \notin Write /\ stray + drops < MaxFaults[kind] /\ stray' = stray + 1 /\ ReadIdle(s)
    /\ tset' = tset \ {s}
    /\ IF kind \in {"statuses", "read"}
       THEN /\ count' = count - 1 /\ paid' = paid /\ extra' = extra \cup {"stray"}
            /\ res' = IF kind = "statuses" /\ res[s] = "none"
                      THEN [res EXCEPT ![s] = "error"] ELSE res
       ELSE UNCHANGED <<counter, res>>
    /\ UNCHANGED <<call, turn, count_ok, ips, got, disabled, conn, req, rem,
                   stored, drops, item, rcb>>

----------------------------------------------------------------------------
(***************************************************************************)
(* The servers, as far as a call can tell what their dispatcher does with  *)
(* a request, and the network (external). Requests of one connection are   *)
(* run by a pool of threads, in any order. An answer nobody waits for any  *)
(* more is left out unless it is to a write, which still changes the data. *)
(***************************************************************************)
Serve(s) ==
    /\ req[s] = "out" /\ (kind \in Write \/ s \in rcb)
    /\ \E a \in {"ok", IF kind \in Write THEN "full" ELSE "bad"} :
        /\ kind = "newest" => a = IF stored[s] > 0 THEN "ok" ELSE "bad"
        /\ req' = [req EXCEPT ![s] = IF wait THEN a ELSE "lost"]
        /\ stored' = IF kind \in Write /\ a = "ok" THEN [stored EXCEPT ![s] = New]
                     ELSE stored
    /\ UNCHANGED <<call, turn, counter, results, conn, rem, stray, drops, item, rcb>>

\* The remover leaves after the request queued before it, yet may be served
\* first
RemoverServed(s) ==
    /\ rem[s] = "queued" /\ item[s] # "queued"
    /\ rem' = [rem EXCEPT ![s] = "done"] /\ stored' = [stored EXCEPT ![s] = 0]
    /\ UNCHANGED <<call, turn, counter, results, conn, req, stray, drops, item, rcb>>

Drop(s) ==
    /\ s \in conn /\ stray + drops < MaxFaults[kind] /\ pc # "done"
    /\ conn' = conn \ {s} /\ drops' = drops + 1
    /\ UNCHANGED <<call, turn, counter, results, req, rem, stored, stray, item, rcb>>

----------------------------------------------------------------------------
Caller ==
    \/ Choose \/ SendWrite \/ SendEnds \/ WaitEnds \/ NextPart \/ Blame
    \/ RemoveEnds \/ ReadNextServer \/ Return
    \/ \E s \in Servers : \/ SendEach(s) \/ SendRead(s) \/ SendRemover(s) \/ Unset(s)
                          \/ UnsetRead(s)

OpsNext ==
    \/ Caller
    \/ \E s \in Servers :
        \/ AsyncSends(s) \/ SendCallback(s) \/ SendOkStep(s) \/ ReadOkStep(s)
        \/ ReadCallback(s) \/ Stray(s)
        \/ Serve(s) \/ RemoverServed(s) \/ Drop(s)

OpsSpec == OpsInit /\ [][OpsNext]_vars

----------------------------------------------------------------------------
(***************************************************************************)
(* Properties.                                                             *)
(***************************************************************************)
\* A write that waits for answers names only servers that stored the content,
\* whatever parts were timed out and asked again (a remover may have followed).
AckedIsStored ==
    wait => \A s \in ips : stored[s] = New \/ rem[s] = "done"

\* A wait that is not timed out has heard of every server it asked in this
\* part, except when somebody else took from its counter: a late answer to an
\* earlier part, a message to another call, or an answer to a request that
\* send() had called failed.
EarlyOnlyByStrangers ==
    (pc \in {"remove", "blame", "unset"} /\ ~timedout
        /\ ~(kind = "command" /\ Len(got) >= Want))
    => \/ asked \subseteq paid
       \/ extra # {} /\ extra \subseteq (CASE kind \in Write  -> IF part > 1 THEN {"late"} ELSE {}
                                           [] kind \in Command -> {"twice"}
                                           [] OTHER           -> {"twice", "stray"})

\* NewestOf that goes on counting when a newer version comes
NewestOfAll(seq) ==
    FoldLeft(LAMBDA acc, s :
                IF stored[s] >= acc.tms THEN [tms |-> stored[s], n |-> acc.n + 1]
                ELSE acc,
             [tms |-> 0, n |-> 0], seq)

\* The versions command compares for read_file_tms_newest
NewestOf(seq) ==
    FoldLeft(LAMBDA acc, s :
                CASE stored[s] > acc.tms -> [tms |-> stored[s], n |-> 1]
                  [] stored[s] = acc.tms -> [acc EXCEPT !.n = @ + 1]
                  [] OTHER               -> acc,
             [tms |-> 0, n |-> 0], seq)
NewestFound == NewestOf(got).n >= Want /\ NewestOf(got).tms > 0

\* What it returns is the newest version any of the asked servers holds, on as
\* many of them as required, if no server was given up.
NewestIsNewest ==
    (kind = "newest" /\ pc = "done" /\ NewestFound /\ ~timedout /\ extra = {})
    => LET held == {stored[s] : s \in {t \in asked : req[t] = "done"}}
       IN  /\ NewestOf(got).tms = Max(held)
           /\ Want <= Cardinality({s \in asked : stored[s] = Max(held)})
============================================================================
