-------------------------------- MODULE Hstf --------------------------------
(***************************************************************************)
(* Replication by oplog: a server (the origin) records every stamped write *)
(* in hstf::content and in the file h_file; the hstf_client thread of each *)
(* peer (a follower) polls it over HTTP with the number of the last record *)
(* it has seen, hands each new record to remove_file_by_tms and saves the  *)
(* new number in a file of its own.  Both sides may crash at any point and *)
(* an HTTP call may fail.                                                  *)
(*                                                                         *)
(* A record is its number and the identity of the write; records are 88    *)
(* bytes, so positions count records.  `content` and `p` change under the  *)
(* WriteLock, which spans the write to h_file: `writing` is that section.  *)
(***************************************************************************)
EXTENDS Integers, Sequences, FiniteSets, Functions

CONSTANTS
  Followers,
  Keep,           \* records that clear() leaves: oplog_size_bytes / 88, rounded up
  RoundedUp,      \* whether oplog_size_bytes is no multiple of 88
  CanFail,        \* whether opening a file to write it may fail
  MaxRecords,     \* bound: writes
  MaxCrashes,     \* bound: crashes of the origin
  MaxRestarts     \* bound: crashes of followers

ASSUME KeepNat == Keep \in Nat
ASSUME RecordsNat == MaxRecords \in Nat
ASSUME CrashesNat == MaxCrashes \in Nat /\ MaxRestarts \in Nat

VARIABLES
  content, p, hfile, writing, nextId, crashes,      \* the origin
  remote, saved, step, batch, up, restarts,         \* the followers
  done,     \* history: records that remove_file_by_tms has dealt with
  refused,  \* history: records that it gave up on (the file stayed busy)
  stale,    \* history: the follower's number is from before the origin lost records
  fresh,    \* history: the answer in hand is from after that
  passed,   \* history: records passed over because of a stale number
  trimmed   \* history: records that clear() has dropped

originVars == <<content, p, hfile, writing, nextId, crashes>>
followerVars == <<remote, saved, step, batch, up, restarts>>
historyVars == <<done, refused, stale, fresh, passed, trimmed>>
hstfVars == <<originVars, followerVars, historyVars>>

Record(n, id) == [n |-> n, id |-> id]
IdsOf(s) == {r.id : r \in Range(s)}

HstfInit ==
  /\ content = <<>> /\ p = 0 /\ hfile = <<>> /\ writing = "no"
  /\ nextId = 1 /\ crashes = 0
  /\ remote = [b \in Followers |-> 0]
  /\ saved = [b \in Followers |-> 0]
  /\ step = [b \in Followers |-> "sleep"]
  /\ batch = [b \in Followers |-> <<>>]
  /\ up = [b \in Followers |-> 0]
  /\ restarts = 0
  /\ done = [b \in Followers |-> {}]
  /\ refused = [b \in Followers |-> {}]
  /\ stale = [b \in Followers |-> FALSE]
  /\ fresh = [b \in Followers |-> TRUE]
  /\ passed = [b \in Followers |-> {}]
  /\ trimmed = {}

(***************************************************************************)
(* The origin                                                              *)
(***************************************************************************)
\* hstf::add, under the WriteLock: memory first, then h_file.
AddMemory ==
  /\ writing = "no"
  /\ nextId <= MaxRecords
  /\ p' = p + 1
  /\ content' = Append(content, Record(p + 1, nextId))
  /\ nextId' = nextId + 1
  /\ writing' = "add"
  /\ UNCHANGED <<hfile, crashes, followerVars, historyVars>>

AddFile ==
  /\ writing = "add"
  /\ \/ hfile' = Append(hfile, content[Len(content)])
     \/ CanFail /\ UNCHANGED hfile
  /\ writing' = "no"
  /\ UNCHANGED <<content, p, nextId, crashes, followerVars, historyVars>>

\* hstf::clear, once an hour: the oldest records go, h_file is rewritten.  It
\* compares bytes: with a size that is no multiple of 88, Keep records are more
\* than the size, none of them goes and h_file is rewritten all the same.
ClearMemory ==
  /\ writing = "no"
  /\ Len(content) > Keep \/ (RoundedUp /\ Keep > 0 /\ Len(content) = Keep)
  /\ content' = SubSeq(content, Len(content) - Keep + 1, Len(content))
  /\ trimmed' = trimmed \cup (IdsOf(content) \ IdsOf(content'))
  /\ writing' = "clear"
  /\ UNCHANGED <<p, hfile, nextId, crashes, followerVars, done, refused, stale, fresh, passed>>

ClearFile ==
  /\ writing = "clear"
  /\ \/ hfile' = content
     \/ CanFail /\ UNCHANGED hfile
  /\ writing' = "no"
  /\ UNCHANGED <<content, p, nextId, crashes, followerVars, historyVars>>

\* What a crash leaves in h_file: an append under way may be there, or not, or
\* in part, and then init removes the whole file; a rewrite under way leaves a
\* prefix of the new content, or a size that is no multiple of 88.
FilesLeft ==
  CASE writing = "no" -> {hfile}
    [] writing = "add" -> {hfile, Append(hfile, content[Len(content)]), <<>>}
    [] writing = "clear" -> {hfile} \cup {SubSeq(content, 1, k) : k \in 0 .. Len(content)}

\* The process dies; hstf::init reads h_file and takes p from its last record.
OriginRestart ==
  /\ crashes < MaxCrashes
  /\ crashes' = crashes + 1
  /\ \E left \in FilesLeft :
       LET q == IF left = <<>> THEN 0 ELSE left[Len(left)].n IN
       /\ hfile' = left
       /\ content' = left
       /\ p' = q
       /\ stale' = [b \in Followers |-> stale[b] \/ remote[b] > q \/ saved[b] > q
                                                \/ (step[b] # "sleep" /\ up[b] > q)]
       /\ fresh' = [b \in Followers |-> fresh[b] /\ ~(step[b] # "sleep" /\ up[b] > q)]
  /\ writing' = "no"
  /\ UNCHANGED <<nextId, followerVars, done, refused, passed, trimmed>>

(***************************************************************************)
(* A follower                                                              *)
(***************************************************************************)
\* Mutant: the position is counted from the front of content.
AnswerFromFront(c) ==
  SubSeq(content, c + 1, Len(content))

\* hstf::get: the last p - c records, or all there are.
Answer(c) ==
  IF c < p
  THEN SubSeq(content, IF Len(content) - (p - c) < 0 THEN 1 ELSE Len(content) - (p - c) + 1,
              Len(content))
  ELSE <<>>

\* The POST of the loop and its answer, computed under the ReadLock.
Poll(b) ==
  /\ step[b] = "sleep"
  /\ writing = "no"
  /\ batch' = [batch EXCEPT ![b] = Answer(remote[b])]
  /\ up' = [up EXCEPT ![b] = p]
  /\ fresh' = [fresh EXCEPT ![b] = TRUE]
  /\ step' = [step EXCEPT ![b] = "answer"]
  /\ UNCHANGED <<originVars, remote, saved, restarts, done, refused, stale, passed, trimmed>>

\* The answer does not arrive within 5 seconds, or does not parse.
AnswerLost(b) ==
  /\ step[b] = "answer"
  /\ step' = [step EXCEPT ![b] = "sleep"]
  /\ UNCHANGED <<originVars, remote, saved, batch, up, restarts, historyVars>>

AnswerArrives(b) ==
  /\ step[b] = "answer"
  /\ step' = [step EXCEPT ![b] = "process"]
  /\ UNCHANGED <<originVars, remote, saved, batch, up, restarts, historyVars>>

\* process(): remove_file_by_tms, whose result is not looked at.
Process(b) ==
  /\ step[b] = "process"
  /\ batch[b] # <<>>
  /\ LET id == Head(batch[b]).id IN
     \/ done' = [done EXCEPT ![b] = @ \cup {id}] /\ UNCHANGED refused
     \/ refused' = [refused EXCEPT ![b] = @ \cup {id}] /\ UNCHANGED done
  /\ batch' = [batch EXCEPT ![b] = Tail(@)]
  /\ UNCHANGED <<originVars, remote, saved, step, up, restarts, stale, fresh, passed, trimmed>>

\* Mutant: the new number is taken before the records are dealt with.
AdvanceEarly(b) ==
  /\ step[b] = "process"
  /\ up[b] # remote[b]
  /\ remote' = [remote EXCEPT ![b] = up[b]]
  /\ UNCHANGED <<originVars, saved, step, batch, up, restarts, historyVars>>

\* if (up != remote) remote = up; opening the file truncates it, or fails and
\* leaves the number that it holds, which no later turn writes again.
Advance(b) ==
  /\ step[b] = "process"
  /\ batch[b] = <<>>
  /\ remote' = [remote EXCEPT ![b] = up[b]]
  /\ \/ up[b] # remote[b] /\ step' = [step EXCEPT ![b] = "save"] /\ saved' = [saved EXCEPT ![b] = 0]
     \/ up[b] = remote[b] /\ step' = [step EXCEPT ![b] = "sleep"] /\ UNCHANGED saved
     \/ up[b] # remote[b] /\ CanFail /\ step' = [step EXCEPT ![b] = "sleep"] /\ UNCHANGED saved
  /\ stale' = [stale EXCEPT ![b] = ~fresh[b] \/ (@ /\ saved'[b] \notin {0, up[b]})]
  /\ passed' = IF stale[b]
               THEN [passed EXCEPT ![b] = @ \cup
                       ({r.id : r \in {q \in Range(content) : q.n <= up[b]}} \ (done[b] \cup refused[b]))]
               ELSE passed
  /\ UNCHANGED <<originVars, batch, up, restarts, done, refused, fresh, trimmed>>

Save(b) ==
  /\ step[b] = "save"
  /\ saved' = [saved EXCEPT ![b] = remote[b]]
  /\ step' = [step EXCEPT ![b] = "sleep"]
  /\ UNCHANGED <<originVars, remote, batch, up, restarts, historyVars>>

\* The follower's process dies and its thread starts from the saved number.
FollowerRestart(b) ==
  /\ restarts < MaxRestarts
  /\ restarts' = restarts + 1
  /\ remote' = [remote EXCEPT ![b] = saved[b]]
  /\ step' = [step EXCEPT ![b] = "sleep"]
  /\ batch' = [batch EXCEPT ![b] = <<>>]
  /\ UNCHANGED <<originVars, saved, up, historyVars>>

Follower(b) == Poll(b) \/ AnswerLost(b) \/ AnswerArrives(b) \/ Process(b) \/ Advance(b) \/ Save(b)

HstfNext ==
  \/ AddMemory \/ AddFile \/ ClearMemory \/ ClearFile \/ OriginRestart
  \/ \E b \in Followers : Follower(b) \/ FollowerRestart(b)

HstfSpec == HstfInit /\ [][HstfNext]_hstfVars

\* Both loops go on; a call that is tried again and again arrives in the end.
HstfFairness ==
  /\ WF_hstfVars(AddFile) /\ WF_hstfVars(ClearFile)
  /\ \A b \in Followers :
       /\ WF_hstfVars(Process(b)) /\ WF_hstfVars(Advance(b)) /\ WF_hstfVars(Save(b))
       /\ SF_hstfVars(Poll(b)) /\ SF_hstfVars(AnswerArrives(b))

HstfFairSpec == HstfSpec /\ HstfFairness

(***************************************************************************)
(* Properties                                                              *)
(***************************************************************************)
\* The follower b has dealt with the records up to the number n; those trimmed
\* by clear() may come back from h_file after a crash.
DealtWith(b, n) ==
  \A r \in Range(content) :
    r.n <= n => r.id \in done[b] \cup refused[b] \cup passed[b] \cup trimmed

\* At least once: no record of the origin is passed over by a follower, through
\* lost answers, trimming, failing writes and crashes of either side; unless
\* the follower's number is from before the origin lost the end of its oplog.
\* The number on its disk promises no more than that in memory: a follower that
\* starts again repeats records but omits none.
NothingPassedOver ==
  \A b \in Followers : ~stale[b] => DealtWith(b, remote[b]) /\ DealtWith(b, saved[b])

\* Every record reaches every follower, unless it is trimmed or lost first.
RecordsArrive ==
  \A b \in Followers : \A i \in 1 .. MaxRecords :
    (i \in IdsOf(content)) ~>
      (i \in done[b] \cup refused[b] \cup passed[b] \cup trimmed \/ i \notin IdsOf(content))
=============================================================================
