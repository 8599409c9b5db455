----------------------------- MODULE ThreadPool -----------------------------
(***************************************************************************)
(* thread_pool::thread_pool of libs/thread_worker.h: worker threads take   *)
(* jobs from a deque; callers push jobs, cut an input into chunks with     *)
(* in_parallel and wait() for count_works to come down to 0; others stop,  *)
(* clear, pause and unpause the pool at any time.                          *)
(*                                                                         *)
(* Every wait on a condition variable has a time limit and looks at its    *)
(* condition again after it, so a notification only makes it sooner: it is *)
(* the condition that guards the step here.  A job is the caller it comes  *)
(* from and the range [lo, hi] of the elements it is to handle.            *)
(***************************************************************************)
EXTENDS Integers, Sequences, FiniteSets

CONSTANTS
  Workers,    \* the threads of the pool
  Callers,    \* the threads that call in_parallel
  Sizes       \* sizes of the inputs

ASSUME WorkersFinite == IsFiniteSet(Workers) /\ Workers # {}
ASSUME CallersFinite == IsFiniteSet(Callers)
ASSUME SizesAreNat == Sizes \subseteq Nat

VARIABLES
  d,          \* the deque of jobs
  works,      \* count_works
  running, paused,
  wpc, job,   \* place of each worker and the job in its hands
  cpc,        \* place of each caller: outside, in the loop of in_parallel, in
              \* push_back (three places) or in wait()
  size, start, turn,  \* sz, start and i of in_parallel
  lost,       \* history: jobs that clear() has dropped
  refused,    \* history: a push_back of this call found the pool stopped
  handled     \* history: how often each element of this call was handled

queueVars == <<d, works, running, paused>>
workerVars == <<wpc, job>>
callVars == <<cpc, size, start, turn>>
historyVars == <<lost, refused, handled>>
workVars == <<queueVars, workerVars, callVars, historyVars>>

N == Cardinality(Workers)
NoJob == [c |-> "none", lo |-> 0, hi |-> 0]
Elements(c) == 0 .. size[c] - 1

WorkInit ==
  /\ d = <<>> /\ works = 0 /\ running = TRUE /\ paused = FALSE
  /\ wpc = [w \in Workers |-> "top"]
  /\ job = [w \in Workers |-> NoJob]
  /\ cpc = [c \in Callers |-> "idle"]
  /\ size = [c \in Callers |-> 0]
  /\ start = [c \in Callers |-> 0]
  /\ turn = [c \in Callers |-> 0]
  /\ lost = 0
  /\ refused = [c \in Callers |-> FALSE]
  /\ handled = [c \in Callers |-> <<>>]

(***************************************************************************)
(* The thread of a worker                                                  *)
(***************************************************************************)
\* while (isRunning)
Top(w) ==
  /\ wpc[w] = "top"
  /\ wpc' = [wpc EXCEPT ![w] = IF running THEN "gate" ELSE "exited"]
  /\ UNCHANGED <<queueVars, job, callVars, historyVars>>

\* while (paused) sleep; isRunning is not looked at here.
Gate(w) ==
  /\ wpc[w] = "gate"
  /\ ~paused
  /\ wpc' = [wpc EXCEPT ![w] = "wait"]
  /\ UNCHANGED <<queueVars, job, callVars, historyVars>>

\* cond.wait_for ends: the pool is stopped, there is a job, or time is up.
Take(w) ==
  /\ wpc[w] = "wait"
  /\ \/ /\ ~running
        /\ wpc' = [wpc EXCEPT ![w] = "exited"]
        /\ UNCHANGED <<d, job>>
     \/ /\ running /\ d = <<>>
        /\ wpc' = [wpc EXCEPT ![w] = "top"]
        /\ UNCHANGED <<d, job>>
     \/ /\ running /\ d # <<>>
        /\ job' = [job EXCEPT ![w] = Head(d)]
        /\ d' = Tail(d)
        /\ wpc' = [wpc EXCEPT ![w] = "run"]
  /\ UNCHANGED <<works, running, paused, callVars, historyVars>>

\* cc(): the elements of the chunk are handled.
Run(w) ==
  LET j == job[w] IN
  /\ wpc[w] = "run"
  /\ handled' = [handled EXCEPT ![j.c] =
                   [n \in DOMAIN @ |-> IF n \in j.lo .. j.hi THEN @[n] + 1 ELSE @[n]]]
  /\ wpc' = [wpc EXCEPT ![w] = "ran"]
  /\ UNCHANGED <<queueVars, job, callVars, lost, refused>>

\* Mutant: the job stays counted.
FinishUncounted(w) ==
  /\ wpc[w] = "ran"
  /\ job' = [job EXCEPT ![w] = NoJob]
  /\ wpc' = [wpc EXCEPT ![w] = "top"]
  /\ UNCHANGED <<queueVars, callVars, historyVars>>

\* count_works.fetch_sub(1)
Finish(w) ==
  /\ wpc[w] = "ran"
  /\ works' = works - 1
  /\ job' = [job EXCEPT ![w] = NoJob]
  /\ wpc' = [wpc EXCEPT ![w] = "top"]
  /\ UNCHANGED <<d, running, paused, callVars, historyVars>>

Worker(w) == Top(w) \/ Gate(w) \/ Take(w) \/ Run(w) \/ Finish(w)

(***************************************************************************)
(* in_parallel, push_back and wait                                         *)
(***************************************************************************)
Call(c) ==
  /\ cpc[c] \in {"idle", "returned"}
  /\ \E s \in Sizes :
       /\ size' = [size EXCEPT ![c] = s]
       /\ handled' = [handled EXCEPT ![c] = [n \in 0 .. s - 1 |-> 0]]
  /\ start' = [start EXCEPT ![c] = 0]
  /\ turn' = [turn EXCEPT ![c] = 0]
  /\ refused' = [refused EXCEPT ![c] = FALSE]
  /\ cpc' = [cpc EXCEPT ![c] = "split"]
  /\ UNCHANGED <<queueVars, workerVars, lost>>

PerThread(s) == IF s \div N = 0 THEN 1 ELSE s \div N

\* The end, inclusive, of the chunk of turn i that begins at from.
ChunkEnd(s, from, i) ==
  IF from + PerThread(s) >= s \/ i = N - 1 THEN s - 1 ELSE from + PerThread(s)

Chunk(c) == [c |-> c, lo |-> start[c], hi |-> ChunkEnd(size[c], start[c], turn[c])]

\* A turn of the loop: another chunk, or none is left.
Split(c) ==
  /\ cpc[c] = "split"
  /\ cpc' = [cpc EXCEPT ![c] =
               IF turn[c] = N \/ start[c] > Chunk(c).hi THEN "wait" ELSE "push"]
  /\ UNCHANGED <<queueVars, workerVars, size, start, turn, historyVars>>

\* Mutant: the next chunk begins where the last one ends.
NextTurnOverlaps(c) ==
  /\ start' = [start EXCEPT ![c] = Chunk(c).hi]
  /\ turn' = [turn EXCEPT ![c] = @ + 1]

NextTurn(c) ==
  /\ start' = [start EXCEPT ![c] = Chunk(c).hi + 1]
  /\ turn' = [turn EXCEPT ![c] = @ + 1]

\* push_back: if (isRunning) ...
Push(c) ==
  /\ cpc[c] = "push"
  /\ IF running
     THEN cpc' = [cpc EXCEPT ![c] = "count"] /\ UNCHANGED <<start, turn, refused>>
     ELSE /\ cpc' = [cpc EXCEPT ![c] = "split"]
          /\ refused' = [refused EXCEPT ![c] = TRUE]
          /\ NextTurn(c)
  /\ UNCHANGED <<queueVars, workerVars, size, lost, handled>>

\* count_works.fetch_add(1), then the job goes into the deque.
Count(c) ==
  /\ cpc[c] = "count"
  /\ works' = works + 1
  /\ cpc' = [cpc EXCEPT ![c] = "enqueue"]
  /\ UNCHANGED <<d, running, paused, workerVars, size, start, turn, historyVars>>

Enqueue(c) ==
  /\ cpc[c] = "enqueue"
  /\ d' = Append(d, Chunk(c))
  /\ NextTurn(c)
  /\ cpc' = [cpc EXCEPT ![c] = "split"]
  /\ UNCHANGED <<works, running, paused, workerVars, size, historyVars>>

\* Mutant: wait() looks at the deque and not at count_works.
WaitEmpty(c) ==
  /\ cpc[c] = "wait"
  /\ d = <<>>
  /\ cpc' = [cpc EXCEPT ![c] = "returned"]
  /\ UNCHANGED <<queueVars, workerVars, size, start, turn, historyVars>>

\* wait() sees count_works at 0; in_parallel returns.
Wait(c) ==
  /\ cpc[c] = "wait"
  /\ works = 0
  /\ cpc' = [cpc EXCEPT ![c] = "returned"]
  /\ UNCHANGED <<queueVars, workerVars, size, start, turn, historyVars>>

Caller(c) == Split(c) \/ Push(c) \/ Count(c) \/ Enqueue(c) \/ Wait(c)

(***************************************************************************)
(* stop, clear, pause, unpause                                             *)
(***************************************************************************)
Stop ==
  /\ running' = FALSE
  /\ paused' = FALSE
  /\ UNCHANGED <<d, works, workerVars, callVars, historyVars>>

\* clear() empties the deque and leaves count_works as it is.
Clear ==
  /\ d # <<>>
  /\ d' = <<>>
  /\ lost' = lost + Len(d)
  /\ UNCHANGED <<works, running, paused, workerVars, callVars, refused, handled>>

Pause ==
  /\ ~paused
  /\ paused' = TRUE
  /\ UNCHANGED <<d, works, running, workerVars, callVars, historyVars>>

Unpause ==
  /\ paused
  /\ paused' = FALSE
  /\ UNCHANGED <<d, works, running, workerVars, callVars, historyVars>>

WorkNext ==
  \/ \E w \in Workers : Worker(w)
  \/ \E c \in Callers : Call(c) \/ Caller(c)
  \/ Stop \/ Clear \/ Pause \/ Unpause

WorkSpec == WorkInit /\ [][WorkNext]_workVars

\* Threads that can go on do so: time limits end every wait, jobs end.
WorkFairness ==
  /\ \A w \in Workers : WF_workVars(Worker(w))
  /\ \A c \in Callers : WF_workVars(Caller(c))

WorkFairSpec == WorkSpec /\ WorkFairness

(***************************************************************************)
(* Properties                                                              *)
(***************************************************************************)
Jobs == [c : Callers, lo : Int, hi : Int]
Busy == {w \in Workers : wpc[w] \in {"run", "ran"}}
Pushing == {c \in Callers : cpc[c] = "enqueue"}

\* Type invariant of the pool.
WorkTypeOK ==
  /\ d \in Seq(Jobs)
  /\ works \in Nat /\ lost \in Nat
  /\ running \in BOOLEAN /\ paused \in BOOLEAN
  /\ wpc \in [Workers -> {"top", "gate", "wait", "run", "ran", "exited"}]
  /\ cpc \in [Callers -> {"idle", "split", "push", "count", "enqueue", "wait", "returned"}]
  /\ job \in [Workers -> Jobs \cup {NoJob}]
  /\ \A w \in Workers : wpc[w] \in {"run", "ran"} => job[w] \in Jobs
  /\ size \in [Callers -> Nat] /\ start \in [Callers -> Int] /\ turn \in [Callers -> Nat]

\* count_works is the number of jobs in the deque, in the hands of workers, or
\* about to be put in the deque, and of those that clear() has dropped.
WorksCountsJobs ==
  works = Len(d) + Cardinality(Busy) + Cardinality(Pushing) + lost

\* The jobs of in_parallel hold references to its locals: no job is left, in
\* the deque or in a worker, when it has returned; whatever other callers push
\* meanwhile, and with stop() and clear() at any moment.
NoJobOutlivesCall ==
  /\ \A i \in 1 .. Len(d) : cpc[d[i].c] \notin {"idle", "returned"}
  /\ \A w \in Workers : wpc[w] = "run" => cpc[job[w].c] \notin {"idle", "returned"}

\* When in_parallel returns, every element of its input was handled exactly
\* once, for every size and number of threads (sizes that the threads do not
\* divide, and fewer elements than threads, included); unless the pool was
\* stopped when it pushed.
ReturnedMeansHandled ==
  \A c \in Callers :
    cpc[c] = "returned" /\ ~refused[c] => \A n \in Elements(c) : handled[c][n] = 1

\* wait() returns, unless the pool is stopped, paused or cleared before, or
\* other callers hand in jobs again and again: wait() is for the jobs of all.
WaitReturns ==
  \A c \in Callers :
    cpc[c] = "wait" ~>
      (cpc[c] # "wait" \/ ~running \/ paused \/ lost > 0 \/ Pushing # {})
=============================================================================
