-------------------------- MODULE ThreadPool_proofs --------------------------
(***************************************************************************)
(* Proofs about ThreadPool for any number of workers, callers and elements. *)
(* That no job outlives the call that made it follows from count_works     *)
(* being right: wait() then returns only with an empty deque and no worker *)
(* inside a job.                                                           *)
(***************************************************************************)
EXTENDS ThreadPool, FiniteSetTheorems, TLAPS

WorkInv ==
  /\ WorkTypeOK
  /\ WorksCountsJobs
  /\ NoJobOutlivesCall

\* The two sets that WorksCountsJobs counts are finite.
LEMMA CountsNat ==
  /\ IsFiniteSet(Busy) /\ Cardinality(Busy) \in Nat
  /\ IsFiniteSet(Pushing) /\ Cardinality(Pushing) \in Nat
  /\ N \in Nat \ {0}
<1>1. Busy \subseteq Workers /\ Pushing \subseteq Callers
  BY Zenon DEF Busy, Pushing
<1>2. IsFiniteSet(Busy) /\ IsFiniteSet(Pushing) /\ IsFiniteSet(Workers)
  BY Zenon, <1>1, WorkersFinite, CallersFinite, FS_Subset
<1>3. N # 0
  BY Zenon, <1>2, WorkersFinite, FS_EmptySet DEF N
<1> QED
  BY Zenon, <1>2, <1>3, FS_CardinalityType DEF N

LEMMA WorkInitInv == WorkInit => WorkInv
<1> SUFFICES ASSUME WorkInit PROVE WorkInv
  BY Zenon
<1>1. WorkTypeOK
  <2>1. running \in BOOLEAN /\ paused \in BOOLEAN
    BY Zenon DEF WorkInit
  <2>2. d \in Seq(Jobs) /\ works \in Nat /\ lost \in Nat
    BY DEF WorkInit
  <2>3. job \in [Workers -> Jobs \cup {NoJob}]
    BY Zenon DEF WorkInit
  <2> QED
    BY <2>1, <2>2, <2>3 DEF WorkInit, WorkTypeOK
<1>2. Busy = {} /\ Pushing = {}
  BY Zenon DEF WorkInit, Busy, Pushing
<1>3. Cardinality(Busy) = 0 /\ Cardinality(Pushing) = 0
  BY Zenon, <1>2, FS_EmptySet
<1>4. WorksCountsJobs
  BY <1>3 DEF WorkInit, WorksCountsJobs
<1>5. NoJobOutlivesCall
  BY DEF WorkInit, NoJobOutlivesCall
<1> QED
  BY Zenon, <1>1, <1>4, <1>5 DEF WorkInv

\* A chunk is a job.
LEMMA ChunkIsJob ==
  ASSUME WorkTypeOK, NEW c \in Callers
  PROVE  Chunk(c) \in Jobs
<1>1. size[c] \in Nat /\ start[c] \in Int /\ turn[c] \in Nat
  BY Zenon DEF WorkTypeOK
<1>2. N \in Nat \ {0}
  BY Zenon, CountsNat
<1>3. PerThread(size[c]) \in Int
  BY <1>1, <1>2 DEF PerThread
<1>4. ChunkEnd(size[c], start[c], turn[c]) \in Int
  BY <1>1, <1>3 DEF ChunkEnd
<1> QED
  BY Zenon, <1>1, <1>4 DEF Chunk, Jobs

\* Steps of a worker that neither take a job nor finish one.
LEMMA TopInv ==
  ASSUME WorkInv, NEW w \in Workers, Top(w) \/ Gate(w) \/ Run(w)
  PROVE  WorkInv'
<1> USE DEF WorkInv
<1>1. WorkTypeOK'
  <2>1. /\ d' = d /\ works' = works /\ running' = running /\ paused' = paused /\ lost' = lost
        /\ job' = job /\ cpc' = cpc /\ size' = size /\ start' = start /\ turn' = turn
    BY Zenon DEF Top, Gate, Run, queueVars, callVars, historyVars
  <2>2. /\ wpc' \in [Workers -> {"top", "gate", "wait", "run", "ran", "exited"}]
        /\ \A v \in Workers : wpc'[v] \in {"run", "ran"} => wpc[v] \in {"run", "ran"}
    BY Zenon DEF WorkTypeOK, Top, Gate, Run
  <2> QED
    BY Zenon, <2>1, <2>2 DEF WorkTypeOK
<1>2. Busy' = Busy /\ Pushing' = Pushing
  BY Zenon DEF WorkTypeOK, Top, Gate, Run, queueVars, callVars, Busy, Pushing
<1>3. WorksCountsJobs'
  BY Zenon, <1>2 DEF WorksCountsJobs, Top, Gate, Run, queueVars, historyVars
<1>4. NoJobOutlivesCall'
  BY Zenon DEF WorkTypeOK, NoJobOutlivesCall, Top, Gate, Run, queueVars, callVars
<1> QED
  BY Zenon, <1>1, <1>3, <1>4

LEMMA TakeInv ==
  ASSUME WorkInv, NEW w \in Workers, Take(w)
  PROVE  WorkInv'
<1> USE DEF WorkInv
<1>0. Pushing' = Pushing /\ works' = works /\ lost' = lost
  BY Zenon DEF Take, Pushing, callVars, historyVars
<1>1. CASE d' = d /\ wpc'[w] \notin {"run", "ran"} /\ job' = job
  <2>1. wpc[w] = "wait" /\ wpc' = [wpc EXCEPT ![w] = wpc'[w]] /\ wpc'[w] \in {"exited", "top"}
    BY Zenon, <1>1 DEF Take, WorkTypeOK
  <2>2. WorkTypeOK'
    BY Zenon, <1>1, <2>1 DEF WorkTypeOK, Take, callVars, historyVars
  <2>3. Busy' = Busy
    BY Zenon, <2>1 DEF Busy, WorkTypeOK
  <2>4. NoJobOutlivesCall'
    BY Zenon, <1>1, <2>1 DEF NoJobOutlivesCall, WorkTypeOK, Take, callVars
  <2> QED
    BY Zenon, <1>0, <1>1, <2>2, <2>3, <2>4 DEF WorksCountsJobs
<1>2. CASE d # <<>> /\ d' = Tail(d) /\ job' = [job EXCEPT ![w] = Head(d)]
            /\ wpc' = [wpc EXCEPT ![w] = "run"]
  <2>1. wpc[w] = "wait" /\ cpc' = cpc
    BY Zenon DEF Take, callVars
  <2>2. Head(d) = d[1] /\ Len(d) \in Nat \ {0} /\ Len(d') = Len(d) - 1 /\ d' \in Seq(Jobs)
    BY <1>2 DEF WorkTypeOK
  <2>3. \A i \in 1 .. Len(d') : d'[i] = d[i + 1] /\ i + 1 \in 1 .. Len(d)
    BY <1>2, <2>2 DEF WorkTypeOK
  <2>4. Head(d) \in Jobs
    BY <2>2 DEF WorkTypeOK
  <2>5. WorkTypeOK'
    <3>1. \A v \in Workers : wpc'[v] \in {"run", "ran"} => job'[v] \in Jobs
      <4> SUFFICES ASSUME NEW v \in Workers, wpc'[v] \in {"run", "ran"} PROVE job'[v] \in Jobs
        BY Zenon
      <4>1. CASE v = w
        BY Zenon, <4>1, <1>2, <2>4 DEF WorkTypeOK
      <4>2. CASE v # w
        BY Zenon, <4>2, <1>2 DEF WorkTypeOK
      <4> QED
        BY Zenon, <4>1, <4>2
    <3> QED
      BY Zenon, <1>2, <2>2, <3>1 DEF WorkTypeOK, Take, callVars, historyVars
  <2>6. Busy' = Busy \cup {w} /\ w \notin Busy
    BY Zenon, <1>2, <2>1 DEF Busy, WorkTypeOK
  <2>7. Cardinality(Busy') = Cardinality(Busy) + 1
    BY Zenon, <2>6, CountsNat, FS_AddElement
  <2>8. WorksCountsJobs'
    BY <1>0, <2>2, <2>7, CountsNat DEF WorksCountsJobs, WorkTypeOK
  <2>9. NoJobOutlivesCall'
    BY <1>2, <2>1, <2>2, <2>3 DEF NoJobOutlivesCall, WorkTypeOK
  <2> QED
    BY Zenon, <2>5, <2>8, <2>9
<1> QED
  BY Zenon, <1>1, <1>2 DEF Take, WorkTypeOK

LEMMA FinishInv ==
  ASSUME WorkInv, NEW w \in Workers, Finish(w)
  PROVE  WorkInv'
<1> USE DEF WorkInv
<1>1. w \in Busy /\ Busy' = Busy \ {w} /\ Pushing' = Pushing
  BY Zenon DEF Finish, Busy, Pushing, WorkTypeOK, callVars
<1>2. Cardinality(Busy') = Cardinality(Busy) - 1
  BY Zenon, <1>1, CountsNat, FS_RemoveElement
<1>3. works' = works - 1 /\ d' = d /\ lost' = lost /\ works \in Nat /\ lost \in Nat /\ Len(d) \in Nat
  BY DEF Finish, WorkTypeOK, historyVars
<1>4. Cardinality(Busy) # 0
  BY Zenon, <1>1, CountsNat, FS_EmptySet
<1>5. WorksCountsJobs'
  BY <1>1, <1>2, <1>3, <1>4, CountsNat DEF WorksCountsJobs
<1>6. works' \in Nat
  BY <1>3, <1>4, CountsNat DEF WorksCountsJobs
<1>7. WorkTypeOK'
  <2>1. /\ d' = d /\ running' = running /\ paused' = paused /\ lost' = lost
        /\ cpc' = cpc /\ size' = size /\ start' = start /\ turn' = turn
    BY Zenon DEF Finish, callVars, historyVars
  <2>2. /\ wpc' \in [Workers -> {"top", "gate", "wait", "run", "ran", "exited"}]
        /\ job' \in [Workers -> Jobs \cup {NoJob}]
        /\ \A v \in Workers : wpc'[v] \in {"run", "ran"} => job'[v] \in Jobs
    BY Zenon DEF Finish, WorkTypeOK
  <2> QED
    BY Zenon, <1>6, <2>1, <2>2 DEF WorkTypeOK
<1>8. NoJobOutlivesCall'
  BY Zenon DEF NoJobOutlivesCall, Finish, WorkTypeOK, callVars
<1> QED
  BY Zenon, <1>5, <1>7, <1>8

\* Steps of a caller that change neither count_works nor the deque.
LEMMA CallerInv ==
  ASSUME WorkInv, NEW c \in Callers, Call(c) \/ Split(c) \/ Push(c)
  PROVE  WorkInv'
<1> USE DEF WorkInv
<1>1. /\ d' = d /\ works' = works /\ running' = running /\ paused' = paused /\ lost' = lost
      /\ wpc' = wpc /\ job' = job
  BY Zenon DEF Call, Split, Push, queueVars, workerVars, historyVars
<1>2. cpc[c] # "enqueue" /\ cpc' = [cpc EXCEPT ![c] = cpc'[c]]
      /\ cpc'[c] \in {"split", "push", "count", "wait"}
  BY Zenon DEF Call, Split, Push, WorkTypeOK
<1>3. Pushing' = Pushing /\ Busy' = Busy
  BY Zenon, <1>1, <1>2 DEF Pushing, Busy, WorkTypeOK
<1>4. size' \in [Callers -> Nat] /\ start' \in [Callers -> Int] /\ turn' \in [Callers -> Nat]
  <2>1. Chunk(c).hi \in Int
    BY Zenon, ChunkIsJob DEF Jobs
  <2>2. CASE Call(c)
    BY <2>2, SizesAreNat DEF Call, WorkTypeOK
  <2>3. CASE Split(c)
    BY Zenon, <2>3 DEF Split, WorkTypeOK
  <2>4. CASE Push(c)
    <3>1. size' = size /\ (NextTurn(c) \/ UNCHANGED <<start, turn>>)
      BY Zenon, <2>4 DEF Push
    <3> QED
      BY <2>1, <3>1 DEF NextTurn, WorkTypeOK
  <2> QED
    BY Zenon, <2>2, <2>3, <2>4
<1>5. WorkTypeOK'
  BY Zenon, <1>1, <1>2, <1>4 DEF WorkTypeOK
<1>6. WorksCountsJobs'
  BY Zenon, <1>1, <1>3 DEF WorksCountsJobs
<1>7. NoJobOutlivesCall'
  <2>1. \A e \in Callers : cpc[e] \notin {"idle", "returned"} => cpc'[e] \notin {"idle", "returned"}
    BY Zenon, <1>2 DEF WorkTypeOK
  <2>2. \A i \in 1 .. Len(d) : d[i].c \in Callers
    <3>1. \A i \in 1 .. Len(d) : d[i] \in Jobs
      BY DEF WorkTypeOK
    <3> QED
      BY Zenon, <3>1 DEF Jobs
  <2>3. \A w \in Workers : wpc[w] = "run" => job[w].c \in Callers
    BY Zenon DEF WorkTypeOK, Jobs
  <2> QED
    BY Zenon, <1>1, <2>1, <2>2, <2>3 DEF NoJobOutlivesCall
<1> QED
  BY Zenon, <1>5, <1>6, <1>7

LEMMA CountInv ==
  ASSUME WorkInv, NEW c \in Callers, Count(c)
  PROVE  WorkInv'
<1> USE DEF WorkInv
<1>1. /\ d' = d /\ running' = running /\ paused' = paused /\ lost' = lost
      /\ wpc' = wpc /\ job' = job /\ size' = size /\ start' = start /\ turn' = turn
      /\ works' = works + 1 /\ cpc' = [cpc EXCEPT ![c] = "enqueue"] /\ cpc[c] = "count"
  BY Zenon DEF Count, workerVars, historyVars
<1>2. c \notin Pushing /\ Pushing' = Pushing \cup {c} /\ Busy' = Busy
  BY Zenon, <1>1 DEF Pushing, Busy, WorkTypeOK
<1>3. Cardinality(Pushing') = Cardinality(Pushing) + 1
  BY Zenon, <1>2, CountsNat, FS_AddElement
<1>4. WorksCountsJobs'
  <2>1. Len(d) \in Nat /\ lost \in Nat /\ works \in Nat
    BY DEF WorkTypeOK
  <2> QED
    BY <1>1, <1>2, <1>3, <2>1, CountsNat DEF WorksCountsJobs
<1>5. WorkTypeOK'
  BY <1>1 DEF WorkTypeOK
<1>6. NoJobOutlivesCall'
  BY <1>1 DEF NoJobOutlivesCall, WorkTypeOK
<1> QED
  BY Zenon, <1>4, <1>5, <1>6

LEMMA EnqueueInv ==
  ASSUME WorkInv, NEW c \in Callers, Enqueue(c)
  PROVE  WorkInv'
<1> USE DEF WorkInv
<1>1. /\ works' = works /\ running' = running /\ paused' = paused /\ lost' = lost
      /\ wpc' = wpc /\ job' = job /\ size' = size
      /\ cpc' = [cpc EXCEPT ![c] = "split"] /\ cpc[c] = "enqueue"
  BY Zenon DEF Enqueue, workerVars, historyVars
<1>2. Chunk(c) \in Jobs /\ Chunk(c).c = c /\ Chunk(c).hi \in Int
  BY Zenon, ChunkIsJob DEF Chunk, Jobs
<1>3. /\ d' \in Seq(Jobs) /\ Len(d') = Len(d) + 1 /\ Len(d) \in Nat
      /\ \A i \in 1 .. Len(d') : d'[i] = IF i = Len(d) + 1 THEN Chunk(c) ELSE d[i]
  BY <1>2 DEF Enqueue, WorkTypeOK
<1>4. c \in Pushing /\ Pushing' = Pushing \ {c} /\ Busy' = Busy
  BY Zenon, <1>1 DEF Pushing, Busy, WorkTypeOK
<1>5. Cardinality(Pushing') = Cardinality(Pushing) - 1
  BY Zenon, <1>4, CountsNat, FS_RemoveElement
<1>6. WorksCountsJobs'
  <2>1. lost \in Nat /\ works \in Nat
    BY Zenon DEF WorkTypeOK
  <2> QED
    BY <1>1, <1>3, <1>4, <1>5, <2>1, CountsNat DEF WorksCountsJobs
<1>7. start' \in [Callers -> Int] /\ turn' \in [Callers -> Nat]
  BY <1>2 DEF Enqueue, NextTurn, WorkTypeOK
<1>8. WorkTypeOK'
  BY Zenon, <1>1, <1>3, <1>7 DEF WorkTypeOK
<1>9. NoJobOutlivesCall'
  <2>1. \A i \in 1 .. Len(d') : cpc'[d'[i].c] \notin {"idle", "returned"}
    <3> SUFFICES ASSUME NEW i \in 1 .. Len(d') PROVE cpc'[d'[i].c] \notin {"idle", "returned"}
      BY Zenon
    <3>1. CASE i = Len(d) + 1
      BY Zenon, <1>1, <1>2, <1>3, <3>1 DEF WorkTypeOK
    <3>2. CASE i # Len(d) + 1
      <4>1. i \in 1 .. Len(d) /\ d'[i] = d[i]
        BY <1>3, <3>2
      <4>2. cpc[d[i].c] \notin {"idle", "returned"}
        BY Zenon, <4>1 DEF NoJobOutlivesCall
      <4> QED
        BY <1>1, <4>1, <4>2 DEF WorkTypeOK
    <3> QED
      BY Zenon, <3>1, <3>2
  <2>2. \A w \in Workers : wpc'[w] = "run" => cpc'[job'[w].c] \notin {"idle", "returned"}
    BY <1>1 DEF NoJobOutlivesCall, WorkTypeOK
  <2> QED
    BY Zenon, <2>1, <2>2 DEF NoJobOutlivesCall
<1> QED
  BY Zenon, <1>6, <1>8, <1>9

\* wait() returns only when no job is left anywhere.
LEMMA WaitInv ==
  ASSUME WorkInv, NEW c \in Callers, Wait(c)
  PROVE  WorkInv'
<1> USE DEF WorkInv
<1>1. /\ d' = d /\ works' = works /\ running' = running /\ paused' = paused /\ lost' = lost
      /\ wpc' = wpc /\ job' = job /\ size' = size /\ start' = start /\ turn' = turn
      /\ cpc' = [cpc EXCEPT ![c] = "returned"] /\ cpc[c] = "wait" /\ works = 0
  BY Zenon DEF Wait, queueVars, workerVars, historyVars
<1>2. Len(d) \in Nat /\ lost \in Nat
  BY DEF WorkTypeOK
<1>3. Len(d) = 0 /\ Cardinality(Busy) = 0
  BY <1>1, <1>2, CountsNat DEF WorksCountsJobs
<1>4. Busy = {}
  BY Zenon, <1>3, CountsNat, FS_EmptySet
<1>5. Busy' = Busy /\ Pushing' = Pushing
  BY Zenon, <1>1 DEF Busy, Pushing, WorkTypeOK
<1>6. WorkTypeOK'
  BY Zenon, <1>1 DEF WorkTypeOK
<1>7. NoJobOutlivesCall'
  BY <1>1, <1>3, <1>4 DEF NoJobOutlivesCall, Busy
<1> QED
  BY Zenon, <1>1, <1>5, <1>6, <1>7 DEF WorksCountsJobs

LEMMA ControlInv ==
  ASSUME WorkInv, Stop \/ Clear \/ Pause \/ Unpause
  PROVE  WorkInv'
<1> USE DEF WorkInv
<1>1. /\ wpc' = wpc /\ job' = job /\ cpc' = cpc /\ size' = size /\ start' = start /\ turn' = turn
      /\ works' = works
  BY Zenon DEF Stop, Clear, Pause, Unpause, workerVars, callVars
<1>2. Busy' = Busy /\ Pushing' = Pushing
  BY Zenon, <1>1 DEF Busy, Pushing
<1>3. running' \in BOOLEAN /\ paused' \in BOOLEAN
  BY Zenon DEF WorkTypeOK, Stop, Clear, Pause, Unpause
<1>4. \/ d' = d /\ lost' = lost
      \/ d' = <<>> /\ lost' = lost + Len(d)
  BY Zenon DEF Stop, Clear, Pause, Unpause, historyVars
<1>5. d' \in Seq(Jobs) /\ lost' \in Nat /\ Len(d') + lost' = Len(d) + lost
      /\ Len(d') \in Nat /\ Len(d) \in Nat /\ lost \in Nat
  <2>1. d \in Seq(Jobs) /\ Len(d) \in Nat /\ lost \in Nat
    BY DEF WorkTypeOK
  <2>2. CASE d' = d /\ lost' = lost
    BY Zenon, <2>1, <2>2
  <2>3. CASE d' = <<>> /\ lost' = lost + Len(d)
    <3>1. d' \in Seq(Jobs) /\ Len(d') = 0
      BY <2>3
    <3> QED
      BY <2>1, <2>3, <3>1
  <2> QED
    BY Zenon, <1>4, <2>2, <2>3
<1>6. WorkTypeOK'
  BY Zenon, <1>1, <1>3, <1>5 DEF WorkTypeOK
<1>7. WorksCountsJobs'
  BY <1>1, <1>2, <1>5, CountsNat DEF WorksCountsJobs
<1>8. NoJobOutlivesCall'
  BY <1>1, <1>4 DEF NoJobOutlivesCall
<1> QED
  BY Zenon, <1>6, <1>7, <1>8

LEMMA WorkNextInv == WorkInv /\ [WorkNext]_workVars => WorkInv'
<1> SUFFICES ASSUME WorkInv, [WorkNext]_workVars PROVE WorkInv'
  BY Zenon
<1>1. ASSUME NEW w \in Workers, Worker(w) PROVE WorkInv'
  BY Zenon, <1>1, TopInv, TakeInv, FinishInv DEF Worker
<1>2. ASSUME NEW c \in Callers, Call(c) \/ Caller(c) PROVE WorkInv'
  BY Zenon, <1>2, CallerInv, CountInv, EnqueueInv, WaitInv DEF Caller
<1>3. CASE Stop \/ Clear \/ Pause \/ Unpause
  BY Zenon, <1>3, ControlInv
<1>4. CASE UNCHANGED workVars
  BY Zenon, <1>4 DEF WorkInv, WorkTypeOK, WorksCountsJobs, NoJobOutlivesCall, Busy, Pushing, workVars,
              queueVars, workerVars, callVars, historyVars
<1> QED
  BY Zenon, <1>1, <1>2, <1>3, <1>4 DEF WorkNext

LEMMA WorkInvariant == WorkSpec => []WorkInv
BY WorkInitInv, WorkNextInv, PTL DEF WorkSpec

\* in_parallel leaves no job with references to its locals behind, whatever
\* other callers, stop() and clear() do: for any number of threads and callers
\* and inputs of any size.
THEOREM NoDanglingJobs == WorkSpec => []NoJobOutlivesCall
<1>1. WorkInv => NoJobOutlivesCall
  BY Zenon DEF WorkInv
<1> QED
  BY <1>1, WorkInvariant, PTL

\* count_works tells the jobs that are queued, in hand, about to be queued or
\* dropped by clear(), and the pool keeps its types.
THEOREM WorksAreCounted == WorkSpec => [](WorkTypeOK /\ WorksCountsJobs)
<1>1. WorkInv => WorkTypeOK /\ WorksCountsJobs
  BY Zenon DEF WorkInv
<1> QED
  BY <1>1, WorkInvariant, PTL

(***************************************************************************)
(* Every element once                                                      *)
(***************************************************************************)
Covers(j, c, n) == j.c = c /\ n \in j.lo .. j.hi
InCall(c) == cpc[c] \notin {"idle", "returned"}
Runs(w) == wpc[w] = "run"

\* An element is in one chunk at most of those that wait or are about to run; it is
\* then not handled yet, and before the next chunk.
ChunksApart ==
  \A c \in Callers : \A n \in Elements(c) :
    /\ \A i, k \in 1 .. Len(d) : Covers(d[i], c, n) /\ Covers(d[k], c, n) => i = k
    /\ \A w, v \in Workers :
         Runs(w) /\ Runs(v) /\ Covers(job[w], c, n) /\ Covers(job[v], c, n) => w = v
    /\ \A i \in 1 .. Len(d), w \in Workers :
         ~(Covers(d[i], c, n) /\ Runs(w) /\ Covers(job[w], c, n))
    /\ \A i \in 1 .. Len(d) : Covers(d[i], c, n) => handled[c][n] = 0 /\ n < start[c]
    /\ \A w \in Workers : Runs(w) /\ Covers(job[w], c, n) => handled[c][n] = 0 /\ n < start[c]

\* An element before the next chunk is handled or in a chunk, unless a chunk was
\* refused or dropped; an element behind is not handled.
NothingMissed ==
  \A c \in Callers : \A n \in Elements(c) :
    /\ handled[c][n] \in {0, 1}
    /\ n >= start[c] => handled[c][n] = 0
    /\ InCall(c) /\ ~refused[c] /\ lost = 0 /\ n < start[c] /\ handled[c][n] = 0 =>
         \/ \E i \in 1 .. Len(d) : Covers(d[i], c, n)
         \/ \E w \in Workers : Runs(w) /\ Covers(job[w], c, n)

\* The loop of in_parallel: a chunk is not empty, and the last one ends the input.
LoopOK ==
  \A c \in Callers :
    /\ turn[c] \in 0 .. N
    /\ turn[c] = N => start[c] >= size[c]
    /\ cpc[c] \in {"push", "count", "enqueue"} => turn[c] < N /\ start[c] <= Chunk(c).hi
    /\ cpc[c] \in {"wait", "returned"} => start[c] >= size[c]

OnceInv ==
  /\ DOMAIN handled = Callers /\ \A c \in Callers : DOMAIN handled[c] = Elements(c)
  /\ refused \in [Callers -> BOOLEAN]
  /\ LoopOK /\ ChunksApart /\ NothingMissed /\ ReturnedMeansHandled

\* What is left of a deque without its first job.
LEMMA TailIsRest ==
  ASSUME NEW S, NEW q \in Seq(S), q # <<>>
  PROVE  \A i \in 1 .. Len(Tail(q)) : Tail(q)[i] = q[i + 1] /\ i + 1 \in 1 .. Len(q)
OBVIOUS

\* What in_parallel makes of the input: a chunk begins at start and stays within
\* it; the last turn, and a turn that finds nothing, are at its end.
LEMMA ChunkBounds ==
  ASSUME WorkTypeOK, NEW c \in Callers
  PROVE  /\ Chunk(c).c = c /\ Chunk(c).lo = start[c]
         /\ Chunk(c).hi \in Int /\ Chunk(c).hi <= size[c] - 1
         /\ start[c] > Chunk(c).hi => start[c] >= size[c]
         /\ turn[c] = N - 1 => Chunk(c).hi = size[c] - 1
<1>1. size[c] \in Nat /\ start[c] \in Int /\ turn[c] \in Nat
  BY Zenon DEF WorkTypeOK
<1>2. N \in Nat \ {0}
  BY Zenon, CountsNat
<1>3. PerThread(size[c]) \in Nat
  BY <1>1, <1>2 DEF PerThread
<1>4. Chunk(c).c = c /\ Chunk(c).lo = start[c] /\ Chunk(c).hi = ChunkEnd(size[c], start[c], turn[c])
  BY Zenon DEF Chunk
<1> QED
  BY <1>1, <1>2, <1>3, <1>4 DEF ChunkEnd

\* What the chunks in the deque and in hands are.
LEMMA JobsTyped ==
  ASSUME WorkTypeOK
  PROVE  /\ Len(d) \in Nat
         /\ \A i \in 1 .. Len(d) : d[i].c \in Callers /\ d[i].lo \in Int /\ d[i].hi \in Int
         /\ \A w \in Workers : Runs(w) => job[w].c \in Callers /\ job[w].lo \in Int /\ job[w].hi \in Int
<1>1. \A i \in 1 .. Len(d) : d[i] \in Jobs
  BY DEF WorkTypeOK
<1>2. \A w \in Workers : Runs(w) => job[w] \in Jobs
  BY Zenon DEF WorkTypeOK, Runs
<1>3. \A j \in Jobs : j.c \in Callers /\ j.lo \in Int /\ j.hi \in Int
  BY Zenon DEF Jobs
<1>4. Len(d) \in Nat
  BY DEF WorkTypeOK
<1> QED
  BY Zenon, <1>1, <1>2, <1>3, <1>4

\* A step that leaves the chunks, the elements and the loop variables alone.
LEMMA QuietOnce ==
  ASSUME WorkInv, OnceInv,
         d' = d, handled' = handled, start' = start, size' = size, turn' = turn,
         refused' = refused, lost' = lost,
         \A w \in Workers : (Runs(w))' <=> Runs(w),
         \A w \in Workers : Runs(w) => job'[w] = job[w],
         \A c \in Callers : (InCall(c))' => InCall(c),
         LoopOK', ReturnedMeansHandled'
  PROVE  OnceInv'
<1>1. \A c \in Callers : Elements(c)' = Elements(c)
  BY Zenon DEF Elements
<1>2. ChunksApart'
  BY <1>1 DEF OnceInv, ChunksApart, Covers
<1>3. NothingMissed'
  BY <1>1 DEF OnceInv, NothingMissed, Covers
<1> QED
  BY Zenon, <1>1, <1>2, <1>3 DEF OnceInv

LEMMA WorkerOnce ==
  ASSUME WorkInv, OnceInv, NEW w \in Workers,
         Top(w) \/ Gate(w) \/ Finish(w) \/ (Take(w) /\ d' = d /\ job' = job)
  PROVE  OnceInv'
<1>1. /\ d' = d /\ handled' = handled /\ start' = start /\ size' = size /\ turn' = turn
      /\ refused' = refused /\ lost' = lost /\ cpc' = cpc
  BY Zenon DEF Top, Gate, Finish, Take, queueVars, callVars, historyVars
<1>2. \A v \in Workers : ((Runs(v))' <=> Runs(v)) /\ (Runs(v) => job'[v] = job[v])
  BY DEF Top, Gate, Finish, Take, Runs, WorkInv, WorkTypeOK
<1>3. LoopOK' /\ ReturnedMeansHandled'
  BY Zenon, <1>1 DEF OnceInv, LoopOK, Chunk, ReturnedMeansHandled, Elements
<1>4. \A c \in Callers : (InCall(c))' => InCall(c)
  BY Zenon, <1>1 DEF InCall
<1> QED
  BY Zenon, <1>1, <1>2, <1>3, <1>4, QuietOnce

\* The steps of a caller between its chunks.
LEMMA CallerOnce ==
  ASSUME WorkInv, OnceInv, NEW c \in Callers, Split(c) \/ Count(c) \/ (Push(c) /\ running)
  PROVE  OnceInv'
<1>1. /\ d' = d /\ handled' = handled /\ start' = start /\ size' = size /\ turn' = turn
      /\ refused' = refused /\ lost' = lost /\ wpc' = wpc /\ job' = job
  BY Zenon DEF Split, Count, Push, queueVars, workerVars, historyVars
<1>2. /\ cpc' = [cpc EXCEPT ![c] = cpc'[c]] /\ InCall(c) /\ cpc[c] \notin {"wait", "returned"}
      /\ cpc'[c] \in {"wait", "push", "count", "enqueue"}
  BY Zenon DEF Split, Count, Push, InCall, WorkInv, WorkTypeOK
<1>3. \A w \in Workers : ((Runs(w))' <=> Runs(w)) /\ (Runs(w) => job'[w] = job[w])
  BY Zenon, <1>1 DEF Runs
<1>4. \A e \in Callers : (InCall(e))' => InCall(e)
  BY Zenon, <1>2 DEF InCall, WorkInv, WorkTypeOK
<1>5. LoopOK'
  <2>1. \A e \in Callers : Chunk(e)' = Chunk(e)
    BY Zenon, <1>1 DEF Chunk
  <2>2. /\ cpc'[c] \in {"push", "count", "enqueue"} => turn[c] < N /\ start[c] <= Chunk(c).hi
        /\ cpc'[c] = "wait" => start[c] >= size[c]
    <3>1. turn[c] \in 0 .. N /\ N \in Nat /\ start[c] \in Int
      BY Zenon, CountsNat DEF OnceInv, LoopOK, WorkInv, WorkTypeOK
    <3>2. CASE Split(c)
      <4>1. cpc'[c] = IF turn[c] = N \/ start[c] > Chunk(c).hi THEN "wait" ELSE "push"
        BY Zenon, <3>2 DEF Split, WorkInv, WorkTypeOK
      <4> QED
        BY <3>1, <4>1, ChunkBounds DEF OnceInv, LoopOK, WorkInv
    <3>3. CASE Count(c) \/ (Push(c) /\ running)
      BY Zenon, <3>3 DEF Count, Push, OnceInv, LoopOK, WorkInv, WorkTypeOK
    <3> QED
      BY Zenon, <3>2, <3>3
  <2> QED
    BY Zenon, <1>1, <1>2, <2>1, <2>2 DEF OnceInv, LoopOK, WorkInv, WorkTypeOK
<1>6. ReturnedMeansHandled'
  <2>1. \A e \in Callers : cpc'[e] = "returned" => cpc[e] = "returned"
    BY Zenon, <1>2 DEF WorkInv, WorkTypeOK
  <2> QED
    BY Zenon, <1>1, <2>1 DEF OnceInv, ReturnedMeansHandled, Elements
<1> QED
  BY Zenon, <1>1, <1>3, <1>4, <1>5, <1>6, QuietOnce

\* wait() has seen count_works at 0: no chunk is left, so every element is handled.
LEMMA WaitOnce ==
  ASSUME WorkInv, OnceInv, NEW c \in Callers, Wait(c)
  PROVE  OnceInv'
<1>1. /\ d' = d /\ handled' = handled /\ start' = start /\ size' = size /\ turn' = turn
      /\ refused' = refused /\ lost' = lost /\ wpc' = wpc /\ job' = job
      /\ cpc' = [cpc EXCEPT ![c] = "returned"] /\ cpc[c] = "wait" /\ works = 0
  BY Zenon DEF Wait, queueVars, workerVars, historyVars
<1>2. Len(d) \in Nat /\ lost \in Nat
  BY DEF WorkInv, WorkTypeOK
<1>3. Len(d) = 0 /\ Cardinality(Busy) = 0 /\ lost = 0
  BY <1>1, <1>2, CountsNat DEF WorksCountsJobs, WorkInv
<1>4. Busy = {}
  BY Zenon, <1>3, CountsNat, FS_EmptySet
<1>5. \A w \in Workers : ~Runs(w)
  BY Zenon, <1>4 DEF Busy, Runs
<1>6. ~refused[c] => \A n \in Elements(c) : handled[c][n] = 1
  <2> SUFFICES ASSUME ~refused[c], NEW n \in Elements(c) PROVE handled[c][n] = 1
    BY Zenon
  <2>1. InCall(c) /\ start[c] >= size[c]
    BY Zenon, <1>1 DEF InCall, OnceInv, LoopOK
  <2>2. n < start[c]
    BY <2>1 DEF Elements, WorkInv, WorkTypeOK
  <2> QED
    BY <1>3, <1>5, <2>1, <2>2 DEF OnceInv, NothingMissed
<1>7. ReturnedMeansHandled'
  BY Zenon, <1>1, <1>6 DEF OnceInv, ReturnedMeansHandled, Elements, WorkInv, WorkTypeOK
<1>8. LoopOK'
  BY Zenon, <1>1 DEF OnceInv, LoopOK, Chunk, WorkInv, WorkTypeOK
<1>9. \A w \in Workers : ((Runs(w))' <=> Runs(w)) /\ (Runs(w) => job'[w] = job[w])
  BY Zenon, <1>1 DEF Runs
<1>10. \A e \in Callers : (InCall(e))' => InCall(e)
  BY Zenon, <1>1 DEF InCall, WorkInv, WorkTypeOK
<1> QED
  BY Zenon, <1>1, <1>7, <1>8, <1>9, <1>10, QuietOnce

\* stop(), pause() and unpause() leave the chunks alone; clear() drops those in the deque.
LEMMA ControlOnce ==
  ASSUME WorkInv, OnceInv, Stop \/ Clear \/ Pause \/ Unpause
  PROVE  OnceInv'
<1>1. /\ handled' = handled /\ start' = start /\ size' = size /\ turn' = turn
      /\ refused' = refused /\ wpc' = wpc /\ job' = job /\ cpc' = cpc
  BY Zenon DEF Stop, Clear, Pause, Unpause, workerVars, callVars, historyVars
<1>2. LoopOK' /\ ReturnedMeansHandled'
  BY Zenon, <1>1 DEF OnceInv, LoopOK, Chunk, ReturnedMeansHandled, Elements
<1>3. CASE d' = d /\ lost' = lost
  <2>1. \A w \in Workers : ((Runs(w))' <=> Runs(w)) /\ (Runs(w) => job'[w] = job[w])
    BY Zenon, <1>1 DEF Runs
  <2>2. \A e \in Callers : (InCall(e))' => InCall(e)
    BY Zenon, <1>1 DEF InCall
  <2> QED
    BY Zenon, <1>1, <1>2, <1>3, <2>1, <2>2, QuietOnce
<1>4. CASE Clear
  <2>1. Len(d') = 0 /\ lost' # 0
    <3>1. Len(d) \in Nat /\ Len(d) # 0 /\ lost \in Nat
      BY <1>4 DEF Clear, WorkInv, WorkTypeOK
    <3> QED
      BY <1>4, <3>1 DEF Clear
  <2>2. ChunksApart' /\ NothingMissed'
    BY SMTT(40), <1>1, <2>1 DEF OnceInv, ChunksApart, NothingMissed, Covers, Runs, Elements
  <2> QED
    BY Zenon, <1>1, <1>2, <2>2 DEF OnceInv, Elements
<1> QED
  BY Zenon, <1>3, <1>4 DEF Stop, Pause, Unpause, historyVars

\* A worker takes the first chunk of the deque into its hands.
LEMMA TakeOnce ==
  ASSUME WorkInv, OnceInv, NEW w \in Workers, Take(w), ~(d' = d /\ job' = job)
  PROVE  OnceInv'
<1>1. /\ handled' = handled /\ start' = start /\ size' = size /\ turn' = turn
      /\ refused' = refused /\ lost' = lost /\ cpc' = cpc /\ wpc[w] = "wait"
      /\ d # <<>> /\ d' = Tail(d) /\ job' = [job EXCEPT ![w] = Head(d)]
      /\ wpc' = [wpc EXCEPT ![w] = "run"]
  BY Zenon DEF Take, callVars, historyVars
<1>2. LoopOK' /\ ReturnedMeansHandled'
  BY Zenon, <1>1 DEF OnceInv, LoopOK, Chunk, ReturnedMeansHandled, Elements
<1>t. /\ d \in Seq(Jobs) /\ DOMAIN job = Workers
      /\ wpc \in [Workers -> {"top", "gate", "wait", "run", "ran", "exited"}]
  BY Zenon DEF WorkInv, WorkTypeOK
<1>3. Head(d) = d[1] /\ Len(d) \in Nat \ {0} /\ Len(d') = Len(d) - 1 /\ d' \in Seq(Jobs)
  BY <1>1, <1>t
<1>4. \A i \in 1 .. Len(d') : d'[i] = d[i + 1] /\ i + 1 \in 1 .. Len(d)
  BY Zenon, <1>1, <1>t, TailIsRest
<1>5. \A i \in 1 .. Len(d) : i = 1 \/ (i - 1 \in 1 .. Len(d') /\ d'[i - 1] = d[i])
  BY <1>3, <1>4
<1>6. /\ ~Runs(w) /\ (Runs(w))' /\ job'[w] = d[1] /\ 1 \in 1 .. Len(d)
      /\ \A v \in Workers : v # w => ((Runs(v))' <=> Runs(v)) /\ job'[v] = job[v]
  <2>1. job'[w] = d[1] /\ \A v \in Workers : v # w => job'[v] = job[v]
    BY Zenon, <1>1, <1>t, <1>3
  <2>2. ~Runs(w) /\ (Runs(w))' /\ \A v \in Workers : v # w => ((Runs(v))' <=> Runs(v))
    BY Zenon, <1>1, <1>t DEF Runs
  <2> QED
    BY <1>3, <2>1, <2>2
<1>7. ChunksApart'
  <2> SUFFICES ASSUME NEW c \in Callers, NEW n \in Elements(c)
      PROVE /\ \A i, k \in 1 .. Len(d') : Covers(d'[i], c, n) /\ Covers(d'[k], c, n) => i = k
            /\ \A u, v \in Workers :
                 (Runs(u))' /\ (Runs(v))' /\ Covers(job'[u], c, n) /\ Covers(job'[v], c, n) => u = v
            /\ \A i \in 1 .. Len(d'), v \in Workers :
                 ~(Covers(d'[i], c, n) /\ (Runs(v))' /\ Covers(job'[v], c, n))
            /\ \A i \in 1 .. Len(d') : Covers(d'[i], c, n) => handled[c][n] = 0 /\ n < start[c]
            /\ \A v \in Workers : (Runs(v))' /\ Covers(job'[v], c, n) => handled[c][n] = 0 /\ n < start[c]
    BY SMTT(60), <1>1 DEF ChunksApart, Elements, Covers
  <2> HIDE DEF Covers
  <2>1. /\ \A i, k \in 1 .. Len(d) : Covers(d[i], c, n) /\ Covers(d[k], c, n) => i = k
        /\ \A u, v \in Workers :
             Runs(u) /\ Runs(v) /\ Covers(job[u], c, n) /\ Covers(job[v], c, n) => u = v
        /\ \A i \in 1 .. Len(d), v \in Workers :
             ~(Covers(d[i], c, n) /\ Runs(v) /\ Covers(job[v], c, n))
        /\ \A i \in 1 .. Len(d) : Covers(d[i], c, n) => handled[c][n] = 0 /\ n < start[c]
        /\ \A v \in Workers : Runs(v) /\ Covers(job[v], c, n) => handled[c][n] = 0 /\ n < start[c]
    BY Zenon DEF OnceInv, ChunksApart
  <2>2. \A i, k \in 1 .. Len(d') : Covers(d'[i], c, n) /\ Covers(d'[k], c, n) => i = k
    BY <1>3, <1>4, <2>1
  <2>3. \A u, v \in Workers :
          (Runs(u))' /\ (Runs(v))' /\ Covers(job'[u], c, n) /\ Covers(job'[v], c, n) => u = v
    BY <1>6, <2>1
  <2>4. \A i \in 1 .. Len(d'), v \in Workers :
          ~(Covers(d'[i], c, n) /\ (Runs(v))' /\ Covers(job'[v], c, n))
    BY <1>3, <1>4, <1>6, <2>1
  <2>5. \A i \in 1 .. Len(d') : Covers(d'[i], c, n) => handled[c][n] = 0 /\ n < start[c]
    BY Zenon, <1>4, <2>1
  <2>6. \A v \in Workers : (Runs(v))' /\ Covers(job'[v], c, n) => handled[c][n] = 0 /\ n < start[c]
    BY Zenon, <1>6, <2>1
  <2> QED
    BY ZenonT(40), <2>2, <2>3, <2>4, <2>5, <2>6
<1>8. NothingMissed'
  <2>1. ASSUME NEW c \in Callers, NEW n \in Elements(c)
        PROVE  /\ (\E i \in 1 .. Len(d) : Covers(d[i], c, n))
                  => \/ \E i \in 1 .. Len(d') : Covers(d'[i], c, n)
                     \/ (Runs(w))' /\ Covers(job'[w], c, n)
               /\ \A v \in Workers : Runs(v) /\ Covers(job[v], c, n)
                    => (Runs(v))' /\ Covers(job'[v], c, n)
    BY Zenon, <1>5, <1>6
  <2>2. \A c \in Callers : Elements(c)' = Elements(c) /\ (InCall(c)' <=> InCall(c))
    BY Zenon, <1>1 DEF Elements, InCall
  <2>3. \A c \in Callers : \A n \in Elements(c) :
           (\/ \E i \in 1 .. Len(d) : Covers(d[i], c, n)
            \/ \E v \in Workers : Runs(v) /\ Covers(job[v], c, n))
        => (\/ \E i \in 1 .. Len(d') : Covers(d'[i], c, n)
            \/ \E v \in Workers : (Runs(v))' /\ Covers(job'[v], c, n))
    BY Zenon, <2>1
  <2> QED
    BY SMTT(60), <1>1, <2>2, <2>3 DEF OnceInv, NothingMissed, Covers
<1> QED
  BY Zenon, <1>1, <1>2, <1>7, <1>8 DEF OnceInv, Elements

\* The chunk in hand is handled: each of its elements for the first time.
LEMMA RunOnce ==
  ASSUME WorkInv, OnceInv, NEW w \in Workers, Run(w)
  PROVE  OnceInv'
<1> DEFINE j == job[w]
<1>1. /\ d' = d /\ start' = start /\ size' = size /\ turn' = turn /\ job' = job
      /\ refused' = refused /\ lost' = lost /\ cpc' = cpc /\ Runs(w)
      /\ wpc' = [wpc EXCEPT ![w] = "ran"]
  BY Zenon DEF Run, queueVars, callVars, Runs
<1>2. \A v \in Workers : (Runs(v))' <=> (Runs(v) /\ v # w)
  BY Zenon, <1>1 DEF Runs, WorkInv, WorkTypeOK
<1>3. /\ DOMAIN handled' = Callers
      /\ \A c \in Callers : DOMAIN handled'[c] = Elements(c)
      /\ \A c \in Callers : \A n \in Elements(c) :
           handled'[c][n] = IF Covers(j, c, n) THEN handled[c][n] + 1 ELSE handled[c][n]
  BY Zenon DEF Run, OnceInv, Covers
<1>4. \A c \in Callers : Elements(c)' = Elements(c) /\ (InCall(c)' <=> InCall(c))
  BY Zenon, <1>1 DEF Elements, InCall
<1>5. LoopOK'
  BY Zenon, <1>1 DEF OnceInv, LoopOK, Chunk
<1>6. ReturnedMeansHandled'
  <2> SUFFICES ASSUME NEW c \in Callers, cpc[c] = "returned", ~refused[c], NEW n \in Elements(c)
      PROVE  handled'[c][n] = 1
    BY Zenon, <1>1, <1>4 DEF ReturnedMeansHandled
  <2>1. j.c # c
    BY Zenon, <1>1 DEF WorkInv, NoJobOutlivesCall, Runs
  <2> QED
    BY <1>3, <2>1 DEF Covers, OnceInv, ReturnedMeansHandled
<1> HIDE DEF j
<1>7. ASSUME NEW c \in Callers, NEW n \in Elements(c)
      PROVE  /\ \A i, k \in 1 .. Len(d) : Covers(d[i], c, n) /\ Covers(d[k], c, n) => i = k
             /\ \A u, v \in Workers :
                  Runs(u) /\ Runs(v) /\ Covers(job[u], c, n) /\ Covers(job[v], c, n) => u = v
             /\ \A i \in 1 .. Len(d), v \in Workers :
                  ~(Covers(d[i], c, n) /\ Runs(v) /\ Covers(job[v], c, n))
             /\ \A i \in 1 .. Len(d) : Covers(d[i], c, n) => handled[c][n] = 0 /\ n < start[c]
             /\ \A v \in Workers : Runs(v) /\ Covers(job[v], c, n) => handled[c][n] = 0 /\ n < start[c]
  BY ZenonT(40), <1>7 DEF OnceInv, ChunksApart
<1>8. ChunksApart'
  <2>1. ASSUME NEW c \in Callers, NEW n \in Elements(c)
        PROVE /\ \A i, k \in 1 .. Len(d) : Covers(d[i], c, n) /\ Covers(d[k], c, n) => i = k
              /\ \A u, v \in Workers :
                   (Runs(u))' /\ (Runs(v))' /\ Covers(job[u], c, n) /\ Covers(job[v], c, n) => u = v
              /\ \A i \in 1 .. Len(d), v \in Workers :
                   ~(Covers(d[i], c, n) /\ (Runs(v))' /\ Covers(job[v], c, n))
              /\ \A i \in 1 .. Len(d) : Covers(d[i], c, n) => handled'[c][n] = 0 /\ n < start[c]
              /\ \A v \in Workers : (Runs(v))' /\ Covers(job[v], c, n) => handled'[c][n] = 0 /\ n < start[c]
    BY <1>1, <1>2, <1>3, <1>7, <2>1 DEF j
  <2> QED
    BY SMTT(60), <1>1, <1>4, <2>1 DEF ChunksApart, Covers
<1>9. NothingMissed'
  <2>1. ASSUME NEW c \in Callers, NEW n \in Elements(c)
        PROVE  /\ handled'[c][n] \in {0, 1}
               /\ n >= start[c] => handled'[c][n] = 0
               /\ InCall(c) /\ ~refused[c] /\ lost = 0 /\ n < start[c] /\ handled'[c][n] = 0 =>
                    \/ \E i \in 1 .. Len(d) : Covers(d[i], c, n)
                    \/ \E v \in Workers : (Runs(v))' /\ Covers(job[v], c, n)
    <3>1. /\ handled[c][n] \in {0, 1}
          /\ n >= start[c] => handled[c][n] = 0
          /\ InCall(c) /\ ~refused[c] /\ lost = 0 /\ n < start[c] /\ handled[c][n] = 0 =>
               \/ \E i \in 1 .. Len(d) : Covers(d[i], c, n)
               \/ \E v \in Workers : Runs(v) /\ Covers(job[v], c, n)
      BY Zenon, <2>1 DEF OnceInv, NothingMissed
    <3>2. n \in Int /\ start[c] \in Int
      BY <2>1 DEF Elements, WorkInv, WorkTypeOK
    <3>3. CASE Covers(j, c, n)
      <4>1. handled[c][n] = 0 /\ n < start[c] /\ handled'[c][n] = 1
        BY SMTT(60), <1>1, <1>3, <1>7, <2>1, <3>3 DEF j
      <4> QED
        BY SMTT(60), <3>2, <4>1
    <3>4. CASE ~Covers(j, c, n)
      BY Zenon, <1>2, <1>3, <2>1, <3>1, <3>4 DEF j
    <3> QED
      BY Zenon, <3>3, <3>4
  <2> QED
    BY SMTT(60), <1>1, <1>4, <2>1 DEF NothingMissed, Covers
<1> QED
  BY Zenon, <1>1, <1>3, <1>4, <1>5, <1>6, <1>8, <1>9 DEF OnceInv

\* A new call: nothing is left of the one before.
LEMMA CallOnce ==
  ASSUME WorkInv, OnceInv, NEW c \in Callers, Call(c)
  PROVE  OnceInv'
<1>1. /\ d' = d /\ wpc' = wpc /\ job' = job /\ lost' = lost
      /\ cpc[c] \in {"idle", "returned"} /\ cpc' = [cpc EXCEPT ![c] = "split"]
      /\ start' = [start EXCEPT ![c] = 0] /\ turn' = [turn EXCEPT ![c] = 0]
      /\ refused' = [refused EXCEPT ![c] = FALSE]
  BY Zenon DEF Call, queueVars, workerVars
<1>2. PICK s \in Sizes : /\ size' = [size EXCEPT ![c] = s]
                         /\ handled' = [handled EXCEPT ![c] = [n \in 0 .. s - 1 |-> 0]]
  BY Zenon DEF Call
<1>3. /\ size'[c] = s /\ start'[c] = 0 /\ turn'[c] = 0 /\ cpc'[c] = "split" /\ s \in Nat
      /\ \A e \in Callers : e # c => /\ size'[e] = size[e] /\ start'[e] = start[e]
                                     /\ turn'[e] = turn[e] /\ cpc'[e] = cpc[e]
  BY Zenon, <1>1, <1>2, SizesAreNat DEF WorkInv, WorkTypeOK
<1>4. /\ DOMAIN handled' = Callers /\ handled'[c] = [n \in 0 .. s - 1 |-> 0]
      /\ \A e \in Callers : e # c => handled'[e] = handled[e]
  BY Zenon, <1>2 DEF OnceInv
<1>5. refused' \in [Callers -> BOOLEAN] /\ \A e \in Callers : e # c => refused'[e] = refused[e]
  BY Zenon, <1>1 DEF OnceInv
<1>6. /\ Elements(c)' = 0 .. s - 1
      /\ \A e \in Callers : e # c => Elements(e)' = Elements(e) /\ Chunk(e)' = Chunk(e) /\ (InCall(e)' <=> InCall(e))
  BY Zenon, <1>3 DEF Elements, Chunk, InCall
<1>7. \A e \in Callers : DOMAIN handled'[e] = Elements(e)'
  BY Zenon, <1>4, <1>6 DEF OnceInv
<1>8. N \in Nat \ {0}
  BY Zenon, CountsNat
<1>9. LoopOK'
  BY SMTT(60), <1>3, <1>6, <1>8 DEF OnceInv, LoopOK
<1>10. ReturnedMeansHandled'
  BY SMTT(60), <1>3, <1>4, <1>5, <1>6 DEF OnceInv, ReturnedMeansHandled
<1>11. /\ \A i \in 1 .. Len(d), n \in Int : ~Covers(d[i], c, n)
       /\ \A w \in Workers, n \in Int : Runs(w) => ~Covers(job[w], c, n)
  BY Zenon, <1>1 DEF WorkInv, NoJobOutlivesCall, Covers, Runs
<1>12. \A w \in Workers : (Runs(w))' <=> Runs(w)
  BY Zenon, <1>1 DEF Runs
<1>13. \A n \in 0 .. s - 1 : n \in Int /\ handled'[c][n] = 0 /\ ~(n < start'[c])
  BY <1>3, <1>4
<1>14. ChunksApart'
  <2> SUFFICES ASSUME NEW e \in Callers, NEW n \in Elements(e)'
      PROVE /\ \A i, k \in 1 .. Len(d) : Covers(d[i], e, n) /\ Covers(d[k], e, n) => i = k
            /\ \A u, v \in Workers :
                 Runs(u) /\ Runs(v) /\ Covers(job[u], e, n) /\ Covers(job[v], e, n) => u = v
            /\ \A i \in 1 .. Len(d), v \in Workers :
                 ~(Covers(d[i], e, n) /\ Runs(v) /\ Covers(job[v], e, n))
            /\ \A i \in 1 .. Len(d) : Covers(d[i], e, n) => handled'[e][n] = 0 /\ n < start'[e]
            /\ \A v \in Workers : Runs(v) /\ Covers(job[v], e, n) => handled'[e][n] = 0 /\ n < start'[e]
    BY SMTT(60), <1>1, <1>12 DEF ChunksApart, Covers
  <2>1. CASE e = c
    BY Zenon, <1>6, <1>11, <1>13, <2>1
  <2>2. CASE e # c
    BY Zenon, <1>3, <1>4, <1>6, <2>2 DEF OnceInv, ChunksApart
  <2> QED
    BY Zenon, <2>1, <2>2
<1>15. NothingMissed'
  <2> SUFFICES ASSUME NEW e \in Callers, NEW n \in Elements(e)'
      PROVE  /\ handled'[e][n] \in {0, 1}
             /\ n >= start'[e] => handled'[e][n] = 0
             /\ (InCall(e))' /\ ~refused'[e] /\ lost = 0 /\ n < start'[e] /\ handled'[e][n] = 0 =>
                  \/ \E i \in 1 .. Len(d) : Covers(d[i], e, n)
                  \/ \E v \in Workers : Runs(v) /\ Covers(job[v], e, n)
    BY ZenonT(40), <1>1, <1>12 DEF NothingMissed, Covers
  <2>1. CASE e = c
    BY Zenon, <1>6, <1>13, <2>1
  <2>2. CASE e # c
    BY SMTT(60), <1>3, <1>4, <1>5, <1>6, <2>2 DEF OnceInv, NothingMissed
  <2> QED
    BY Zenon, <2>1, <2>2
<1> QED
  BY Zenon, <1>4, <1>5, <1>7, <1>9, <1>10, <1>14, <1>15 DEF OnceInv

\* A caller goes on behind its chunk: the chunk is in the deque now, or was refused.
LEMMA NextOnce ==
  ASSUME WorkInv, OnceInv, NEW c \in Callers, Enqueue(c) \/ (Push(c) /\ ~running)
  PROVE  OnceInv'
<1> DEFINE ch == Chunk(c)
<1>1. /\ wpc' = wpc /\ job' = job /\ lost' = lost /\ size' = size /\ handled' = handled
      /\ cpc[c] \in {"push", "enqueue"} /\ cpc' = [cpc EXCEPT ![c] = "split"]
      /\ start' = [start EXCEPT ![c] = ch.hi + 1] /\ turn' = [turn EXCEPT ![c] = @ + 1]
  BY Zenon DEF Enqueue, Push, NextTurn, workerVars, historyVars
<1>2. \/ d' = Append(d, ch) /\ refused' = refused
      \/ d' = d /\ refused' = [refused EXCEPT ![c] = TRUE]
  BY Zenon DEF Enqueue, Push, queueVars, historyVars
<1>3. /\ ch.c = c /\ ch.lo = start[c] /\ ch.hi \in Int /\ ch.hi <= size[c] - 1
      /\ start[c] <= ch.hi /\ turn[c] < N
      /\ turn[c] = N - 1 => ch.hi = size[c] - 1
  BY Zenon, <1>1, ChunkBounds DEF OnceInv, LoopOK, WorkInv
<1>t. /\ size[c] \in Nat /\ start[c] \in Int /\ turn[c] \in Nat /\ N \in Nat
      /\ d \in Seq(Jobs) /\ ch \in Jobs
  BY Zenon, CountsNat, ChunkIsJob DEF WorkInv, WorkTypeOK
<1>4. /\ start'[c] = ch.hi + 1 /\ turn'[c] = turn[c] + 1 /\ cpc'[c] = "split"
      /\ \A e \in Callers : e # c => /\ start'[e] = start[e] /\ turn'[e] = turn[e]
                                     /\ cpc'[e] = cpc[e] /\ Chunk(e)' = Chunk(e)
  BY Zenon, <1>1 DEF WorkInv, WorkTypeOK, Chunk
<1>5. \A e \in Callers : Elements(e)' = Elements(e) /\ (InCall(e)' <=> InCall(e))
  BY Zenon, <1>1, <1>4 DEF Elements, InCall
<1>6. LoopOK'
  BY SMTT(60), <1>1, <1>3, <1>t, <1>4 DEF OnceInv, LoopOK
<1>7. /\ refused' \in [Callers -> BOOLEAN]
      /\ \A e \in Callers : (~refused'[e] => ~refused[e]) /\ (e # c => refused'[e] = refused[e])
  <2>1. CASE refused' = refused
    BY Zenon, <2>1 DEF OnceInv
  <2>2. CASE refused' = [refused EXCEPT ![c] = TRUE]
    BY Zenon, <2>2 DEF OnceInv
  <2> QED
    BY Zenon, <1>2, <2>1, <2>2
<1>8. ReturnedMeansHandled'
  BY SMTT(40), <1>1, <1>4, <1>5, <1>7 DEF OnceInv, ReturnedMeansHandled
<1> HIDE DEF ch
<1>9. /\ Len(d) \in Nat /\ Len(d) <= Len(d')
      /\ Len(d') \in {Len(d), Len(d) + 1}
      /\ \A i \in 1 .. Len(d) : i \in 1 .. Len(d') /\ d'[i] = d[i]
      /\ \A i \in 1 .. Len(d') : i \in 1 .. Len(d) \/ (i = Len(d) + 1 /\ d'[i] = ch)
      /\ ~refused'[c] => Len(d) + 1 \in 1 .. Len(d') /\ d'[Len(d) + 1] = ch
  <2>1. CASE d' = Append(d, ch) /\ refused' = refused
    BY <1>t, <2>1
  <2>2. CASE d' = d /\ refused' = [refused EXCEPT ![c] = TRUE]
    <3>1. refused'[c] = TRUE
      BY Zenon, <2>2 DEF OnceInv
    <3>2. Len(d) \in Nat
      BY <1>t
    <3> QED
      BY <2>2, <3>1, <3>2
  <2> QED
    BY Zenon, <1>2, <2>1, <2>2
<1>10. \A w \in Workers : (Runs(w))' <=> Runs(w)
  BY Zenon, <1>1 DEF Runs
<1>11. ASSUME NEW e \in Callers, NEW n \in Elements(e), Covers(ch, e, n)
       PROVE  /\ e = c /\ n >= start[c] /\ n < start'[c] /\ handled[e][n] = 0
              /\ \A i \in 1 .. Len(d) : ~Covers(d[i], e, n)
              /\ \A w \in Workers : Runs(w) => ~Covers(job[w], e, n)
  <2>1. e = c /\ n >= start[c] /\ n < start'[c] /\ n \in Int
    BY SMTT(60), <1>3, <1>t, <1>4, <1>11 DEF Covers, Elements
  <2>2. handled[e][n] = 0 /\ ~(n < start[c])
    BY SMTT(60), <1>t, <2>1 DEF OnceInv, NothingMissed
  <2> QED
    BY Zenon, <2>1, <2>2 DEF OnceInv, ChunksApart
<1>12. \A e \in Callers, n \in Int : n < start[e] => n < start'[e]
  <2>1. \A n \in Int : n < start[c] => n < start'[c]
    BY <1>3, <1>t, <1>4
  <2> QED
    BY Zenon, <1>4, <2>1
<1>13. \A e \in Callers : \A n \in Elements(e) : n \in Int
  BY DEF Elements
<1>14. ChunksApart'
  <2>1. ASSUME NEW e \in Callers, NEW n \in Elements(e)
      PROVE /\ \A i, k \in 1 .. Len(d') : Covers(d'[i], e, n) /\ Covers(d'[k], e, n) => i = k
            /\ \A u, v \in Workers :
                 Runs(u) /\ Runs(v) /\ Covers(job[u], e, n) /\ Covers(job[v], e, n) => u = v
            /\ \A i \in 1 .. Len(d'), v \in Workers :
                 ~(Covers(d'[i], e, n) /\ Runs(v) /\ Covers(job[v], e, n))
            /\ \A i \in 1 .. Len(d') : Covers(d'[i], e, n) => handled[e][n] = 0 /\ n < start'[e]
            /\ \A v \in Workers : Runs(v) /\ Covers(job[v], e, n) => handled[e][n] = 0 /\ n < start'[e]
    <3>1. /\ \A i, k \in 1 .. Len(d) : Covers(d[i], e, n) /\ Covers(d[k], e, n) => i = k
          /\ \A u, v \in Workers :
               Runs(u) /\ Runs(v) /\ Covers(job[u], e, n) /\ Covers(job[v], e, n) => u = v
          /\ \A i \in 1 .. Len(d), v \in Workers :
               ~(Covers(d[i], e, n) /\ Runs(v) /\ Covers(job[v], e, n))
          /\ \A i \in 1 .. Len(d) : Covers(d[i], e, n) => handled[e][n] = 0 /\ n < start[e]
          /\ \A v \in Workers : Runs(v) /\ Covers(job[v], e, n) => handled[e][n] = 0 /\ n < start[e]
      BY Zenon, <2>1 DEF OnceInv, ChunksApart
    <3>2. \A i \in 1 .. Len(d') : (i \in 1 .. Len(d) /\ d'[i] = d[i]) \/ (i = Len(d) + 1 /\ d'[i] = ch)
      BY ZenonT(40), <1>9
    <3>3. \A i, k \in 1 .. Len(d') : Covers(d'[i], e, n) /\ Covers(d'[k], e, n) => i = k
      BY <1>11, <2>1, <3>1, <3>2
    <3>4. \A i \in 1 .. Len(d'), v \in Workers :
            ~(Covers(d'[i], e, n) /\ Runs(v) /\ Covers(job[v], e, n))
      BY Zenon, <1>11, <2>1, <3>1, <3>2
    <3>5. \A i \in 1 .. Len(d') : Covers(d'[i], e, n) => handled[e][n] = 0 /\ n < start'[e]
      BY Zenon, <1>11, <1>12, <1>13, <2>1, <3>1, <3>2
    <3>6. \A v \in Workers : Runs(v) /\ Covers(job[v], e, n) => handled[e][n] = 0 /\ n < start'[e]
      BY Zenon, <1>12, <1>13, <2>1, <3>1
    <3> QED
      BY Zenon, <3>1, <3>3, <3>4, <3>5, <3>6
  <2> QED
    BY SMTT(60), <1>1, <1>5, <1>10, <2>1 DEF ChunksApart, Covers
<1>15. NothingMissed'
  <2>1. ASSUME NEW e \in Callers, NEW n \in Elements(e)
      PROVE  /\ handled[e][n] \in {0, 1}
             /\ n >= start'[e] => handled[e][n] = 0
             /\ InCall(e) /\ ~refused'[e] /\ lost = 0 /\ n < start'[e] /\ handled[e][n] = 0 =>
                  \/ \E i \in 1 .. Len(d') : Covers(d'[i], e, n)
                  \/ \E v \in Workers : Runs(v) /\ Covers(job[v], e, n)
    <3>1. /\ handled[e][n] \in {0, 1}
          /\ n >= start[e] => handled[e][n] = 0
          /\ InCall(e) /\ ~refused[e] /\ lost = 0 /\ n < start[e] /\ handled[e][n] = 0 =>
               \/ \E i \in 1 .. Len(d) : Covers(d[i], e, n)
               \/ \E v \in Workers : Runs(v) /\ Covers(job[v], e, n)
      BY Zenon, <2>1 DEF OnceInv, NothingMissed
    <3>2. n \in Int /\ start[e] \in Int /\ start'[e] \in Int
      BY <1>13, <1>3, <1>4, <2>1 DEF WorkInv, WorkTypeOK
    <3>3. n >= start'[e] => n >= start[e]
      BY <1>12, <2>1, <3>2
    <3>4. ASSUME ~refused'[e], n < start'[e], ~(n < start[e])
          PROVE  \E i \in 1 .. Len(d') : Covers(d'[i], e, n)
      <4>1. e = c
        BY Zenon, <1>4, <3>4
      <4>2. Covers(ch, e, n)
        BY <1>3, <1>4, <3>2, <3>4, <4>1 DEF Covers
      <4> QED
        BY Zenon, <1>9, <3>4, <4>1, <4>2
    <3>5. (\E i \in 1 .. Len(d) : Covers(d[i], e, n)) => \E i \in 1 .. Len(d') : Covers(d'[i], e, n)
      BY Zenon, <1>9
    <3> QED
      BY Zenon, <1>7, <2>1, <3>1, <3>3, <3>4, <3>5
  <2> QED
    BY <1>1, <1>5, <1>10, <2>1 DEF NothingMissed, Covers
<1> QED
  BY Zenon, <1>1, <1>5, <1>6, <1>7, <1>8, <1>14, <1>15 DEF OnceInv

LEMMA OnceInit == WorkInit => OnceInv
<1> SUFFICES ASSUME WorkInit PROVE OnceInv
  BY Zenon
<1>1. \A c \in Callers : cpc[c] = "idle" /\ size[c] = 0 /\ start[c] = 0 /\ turn[c] = 0 /\ handled[c] = <<>>
  BY Zenon DEF WorkInit
<1>2. \A c \in Callers : Elements(c) = {}
  BY <1>1 DEF Elements
<1>3. ChunksApart /\ NothingMissed /\ ReturnedMeansHandled
  BY Zenon, <1>2 DEF ChunksApart, NothingMissed, ReturnedMeansHandled
<1>4. LoopOK
  BY SMTT(60), <1>1, CountsNat DEF LoopOK
<1>5. refused \in [Callers -> BOOLEAN]
  BY Zenon DEF WorkInit
<1>6. DOMAIN <<>> = {}
  OBVIOUS
<1>7. DOMAIN handled = Callers
  BY Zenon DEF WorkInit
<1> QED
  BY Zenon, <1>1, <1>2, <1>3, <1>4, <1>5, <1>6, <1>7 DEF OnceInv

LEMMA OnceNext == WorkInv /\ OnceInv /\ [WorkNext]_workVars => OnceInv'
<1> SUFFICES ASSUME WorkInv, OnceInv, [WorkNext]_workVars PROVE OnceInv'
  BY Zenon
<1>1. ASSUME NEW w \in Workers, Worker(w) PROVE OnceInv'
  BY Zenon, <1>1, WorkerOnce, TakeOnce, RunOnce DEF Worker
<1>2. ASSUME NEW c \in Callers, Call(c) \/ Caller(c) PROVE OnceInv'
  BY Zenon, <1>2, CallOnce, CallerOnce, NextOnce, WaitOnce DEF Caller
<1>3. CASE Stop \/ Clear \/ Pause \/ Unpause
  BY ZenonT(40), <1>3, ControlOnce
<1>4. CASE UNCHANGED workVars
  BY SMTT(60), <1>4 DEF OnceInv, LoopOK, ChunksApart, NothingMissed, ReturnedMeansHandled, Elements, Chunk,
              InCall, Runs, Covers, workVars, queueVars, workerVars, callVars, historyVars
<1> QED
  BY Zenon, <1>1, <1>2, <1>3, <1>4 DEF WorkNext

\* in_parallel cuts its input into chunks that neither overlap nor leave a gap, each
\* is run once, and it returns only when all were: every element is handled exactly
\* once, for any size, any number of threads and callers, with pause() and clear() at
\* any moment, unless the pool was stopped when the caller pushed.
THEOREM EveryElementOnce == WorkSpec => []ReturnedMeansHandled
<1>1. WorkInit => OnceInv
  BY Zenon, OnceInit
<1>2. WorkInv /\ OnceInv /\ [WorkNext]_workVars => OnceInv'
  BY Zenon, OnceNext
<1>3. OnceInv => ReturnedMeansHandled
  BY Zenon DEF OnceInv
<1> QED
  BY <1>1, <1>2, <1>3, WorkInvariant, PTL DEF WorkSpec
==============================================================================
