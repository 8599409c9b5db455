---------------------------- MODULE CacheDb_proofs ----------------------------
(***************************************************************************)
(* What holds of the cache database for any keys, values, workers and      *)
(* requests: a sweep takes all that has expired, and no value outlives the *)
(* time it was written for (CacheInv); and an answered write holds, for    *)
(* which AckInv adds what becomes of a key that one worker has had alone.  *)
(***************************************************************************)
EXTENDS CacheDb, WellFoundedInduction, TLAPS

\* Every entry has its record in `times`.
TimesCoverMap == \A k \in Keys : map[k].val # NoVal => <<map[k].until, k>> \in times

\* An entry, and a block of the file, is valid no longer than it was written for.
UntilIsWritten ==
  /\ \A k \in Keys : map[k].val # NoVal => map[k].until <= written[<<k, map[k].val>>]
  /\ \A x \in snap : x[3] <= written[<<x[1], x[2]>>]

CacheTyped ==
  /\ now \in Nat
  /\ map \in [Keys -> [val : Vals \cup {NoVal}, until : Nat]]
  /\ worker \in [Workers -> [req : Seq(Blocks), todo : Seq(Blocks), until : Nat \cup {-1},
                             began : Nat]]
  /\ sweep \in Nat \cup {-1}
  /\ snap \subseteq Keys \X Vals \X Nat
  /\ written \in [Keys \X Vals -> Nat \cup {-1}]

\* A value that is stamped is the content of a block.
StampedHasContent ==
  \A w \in Workers : worker[w].until # -1 =>
    worker[w].todo # <<>> /\ Head(worker[w].todo).val \in Vals

CacheInv == CacheTyped /\ StampedHasContent /\ TimesCoverMap /\ UntilIsWritten

\* steady_clock_to_time_t never makes an entry valid for longer.
LEMMA ToTimeTRoundsDown ==
  ASSUME NEW t \in Nat
  PROVE  ToTimeT(t) \in Nat /\ ToTimeT(t) <= t
  BY CacheAssumption, SMTT(30) DEF ToTimeT

\* The invariant holds when the server starts for the first time.
LEMMA CacheInvInit == CacheInit => CacheInv
  <1>. SUFFICES ASSUME CacheInit PROVE CacheInv
    BY Zenon
  <1>1. CacheTyped
    BY DEF CacheInit, CacheTyped, NoEntry, NoRequest
  <1>2. StampedHasContent /\ TimesCoverMap /\ UntilIsWritten
    BY Zenon DEF CacheInit, StampedHasContent, TimesCoverMap, UntilIsWritten, NoEntry, NoRequest
  <1>. QED BY Zenon, <1>1, <1>2 DEF CacheInv

\* Blocks of requests stay blocks while a worker goes through them.
LEMMA TailOfBlocks ==
  ASSUME NEW q \in Seq(Blocks), q # <<>>
  PROVE  /\ Tail(q) \in Seq(Blocks)
         /\ Head(q) \in Blocks
         /\ Head(q).key \in Keys /\ Head(q).val \in Vals \cup {NoVal} /\ Head(q).ttl \in Nat
  <1>1. Tail(q) \in Seq(Blocks) /\ Head(q) \in Blocks
    OBVIOUS
  <1>. QED BY Zenon, <1>1 DEF Blocks

\* When the memory is lost nothing is left to cover.
LEMMA LostMemory ==
  ASSUME CacheInv, MemoryLost, UNCHANGED <<now, written>>,
         snap' \subseteq Keys \X Vals \X Nat,
         \A x \in snap' : x[3] <= written[<<x[1], x[2]>>]
  PROVE  CacheInv'
  <1>1. CacheTyped'
    BY DEF CacheInv, CacheTyped, MemoryLost, NoEntry, NoRequest
  <1>2. StampedHasContent' /\ TimesCoverMap' /\ UntilIsWritten'
    BY Zenon DEF MemoryLost, StampedHasContent, TimesCoverMap, UntilIsWritten, NoEntry, NoRequest
  <1>. QED BY Zenon, <1>1, <1>2 DEF CacheInv

\* What serialize() writes is valid no longer than the entries it writes.
LEMMA SerializeKeepsTimes ==
  ASSUME CacheInv
  PROVE  /\ Serialize \subseteq Keys \X Vals \X Nat
         /\ \A x \in Serialize : x[3] <= written[<<x[1], x[2]>>]
  <1>. SUFFICES ASSUME NEW x \in Serialize
                PROVE  x \in Keys \X Vals \X Nat /\ x[3] <= written[<<x[1], x[2]>>]
    BY Zenon
  <1>1. PICK k \in Keys : map[k].val # NoVal /\ x = <<k, map[k].val, ToTimeT(map[k].until)>>
    BY Zenon DEF Serialize
  <1>2. map[k].val \in Vals /\ map[k].until \in Nat
    BY Zenon, <1>1 DEF CacheInv, CacheTyped
  <1>3. ToTimeT(map[k].until) \in Nat /\ ToTimeT(map[k].until) <= map[k].until
    BY Zenon, <1>2, ToTimeTRoundsDown
  <1>4. map[k].until <= written[<<k, map[k].val>>] /\ written[<<k, map[k].val>>] \in Nat \cup {-1}
    BY Zenon, <1>1, <1>2 DEF CacheInv, CacheTyped, UntilIsWritten
  <1>5. ToTimeT(map[k].until) <= written[<<k, map[k].val>>]
    BY <1>2, <1>3, <1>4
  <1>. QED BY Zenon, <1>1, <1>2, <1>3, <1>5

\* A load of the file enters each block into the map and into `times`.
LEMMA StartStep ==
  ASSUME CacheInv, Start
  PROVE  CacheInv'
  <1>. DEFINE live == {x \in snap : x[3] > now}
  <1>1. /\ map' = [k \in Keys |-> IF \E x \in live : x[1] = k
                                  THEN LET x == CHOOSE x \in live : x[1] = k
                                       IN  [val |-> x[2], until |-> x[3]]
                                  ELSE NoEntry]
        /\ times' = {<<x[3], x[1]>> : x \in live}
        /\ UNCHANGED <<now, worker, sweep, snap, written>>
    BY Zenon DEF Start
  <1>2. \A k \in Keys : \/ map'[k] = NoEntry
                        \/ \E x \in live : x[1] = k /\ map'[k] = [val |-> x[2], until |-> x[3]]
    BY Zenon, <1>1
  <1>3. \A x \in live : x[1] \in Keys /\ x[2] \in Vals /\ x[3] \in Nat
    BY Zenon DEF CacheInv, CacheTyped
  <1>4. CacheTyped'
    <2>1. map' \in [Keys -> [val : Vals \cup {NoVal}, until : Nat]]
      BY Zenon, <1>1, <1>2, <1>3 DEF NoEntry
    <2>. QED BY Zenon, <2>1, <1>1 DEF CacheInv, CacheTyped
  <1>5. StampedHasContent'
    BY Zenon, <1>1 DEF CacheInv, StampedHasContent
  <1>6. TimesCoverMap'
    BY <1>1, <1>2 DEF TimesCoverMap, NoEntry
  <1>7. UntilIsWritten'
    <2>1. ASSUME NEW k \in Keys, map'[k].val # NoVal
          PROVE  map'[k].until <= written[<<k, map'[k].val>>]
      <3>1. PICK x \in live : x[1] = k /\ map'[k] = [val |-> x[2], until |-> x[3]]
        BY <2>1, <1>2 DEF NoEntry
      <3>. QED BY <3>1 DEF CacheInv, UntilIsWritten
    <2>. QED BY Zenon, <2>1, <1>1 DEF CacheInv, UntilIsWritten
  <1>. QED BY Zenon, <1>4, <1>5, <1>6, <1>7 DEF CacheInv

\* Every step keeps the invariant.
LEMMA CacheInvStep == CacheInv /\ [CacheNext]_cacheVars => CacheInv'
  <1>. SUFFICES ASSUME CacheInv, [CacheNext]_cacheVars PROVE CacheInv'
    BY Zenon
  <1>. USE DEF CacheInv
  <1>1. CASE UNCHANGED cacheVars
    BY Zenon, <1>1 DEF cacheVars, CacheTyped, StampedHasContent, TimesCoverMap, UntilIsWritten
  <1>2. CASE Tick
    BY <1>2 DEF Tick, CacheTyped, StampedHasContent, TimesCoverMap, UntilIsWritten
  <1>3. ASSUME NEW w \in Workers, NEW r \in Requests, Receive(w, r) PROVE CacheInv'
    <2>1. r \in Seq(Blocks)
      BY Zenon, CacheAssumption
    <2>2. CacheTyped'
      BY Zenon, <1>3, <2>1 DEF Receive, CacheTyped
    <2>3. StampedHasContent' /\ TimesCoverMap' /\ UntilIsWritten'
      BY Zenon, <1>3 DEF Receive, CacheTyped, StampedHasContent, TimesCoverMap, UntilIsWritten
    <2>. QED BY Zenon, <2>2, <2>3
  <1>4. ASSUME NEW w \in Workers, EraseBlock(w) PROVE CacheInv'
    <2>. DEFINE b == Head(worker[w].todo)
    <2>1. worker[w].todo \in Seq(Blocks) /\ worker[w].todo # <<>>
      BY Zenon, <1>4 DEF EraseBlock, CacheTyped
    <2>2. Tail(worker[w].todo) \in Seq(Blocks) /\ b.key \in Keys
      BY Zenon, <2>1, TailOfBlocks
    <2>3. CacheTyped'
      BY ZenonT(40), <1>4, <2>2 DEF EraseBlock, CacheTyped, NoEntry
    <2>4. worker[w].until = -1
      BY Zenon, <1>4, CacheAssumption DEF EraseBlock, StampedHasContent, CacheTyped
    <2>5. StampedHasContent'
      BY <1>4, <2>4 DEF EraseBlock, CacheTyped, StampedHasContent
    <2>6. TimesCoverMap' /\ UntilIsWritten'
      BY Zenon, <1>4, <2>2 DEF EraseBlock, CacheTyped, TimesCoverMap, UntilIsWritten, NoEntry
    <2>. QED BY Zenon, <2>3, <2>5, <2>6
  <1>5. ASSUME NEW w \in Workers, Stamp(w) PROVE CacheInv'
    <2>. DEFINE b == Head(worker[w].todo)
                u == now + PerSec * b.ttl
    <2>1. worker[w].todo \in Seq(Blocks) /\ worker[w].todo # <<>>
      BY Zenon, <1>5 DEF Stamp, CacheTyped
    <2>2. b.val \in Vals /\ b.ttl \in Nat
      BY Zenon, <1>5, <2>1, TailOfBlocks DEF Stamp
    <2>3. u \in Nat
      <3>1. PerSec * b.ttl \in Nat
        <4>. HIDE DEF b
        <4>. QED BY <2>2, CacheAssumption
      <3>. QED BY <3>1 DEF CacheTyped
    <2>4. worker' = [worker EXCEPT ![w].until = u]
      BY Zenon, <1>5 DEF Stamp
    <2>. HIDE DEF u
    <2>5. CacheTyped'
      BY ZenonT(40), <1>5, <2>3, <2>4 DEF Stamp, CacheTyped
    <2>6. StampedHasContent'
      BY <1>5, <2>1, <2>2, <2>4 DEF CacheTyped, StampedHasContent
    <2>7. TimesCoverMap' /\ UntilIsWritten'
      BY Zenon, <1>5 DEF Stamp, TimesCoverMap, UntilIsWritten
    <2>. QED BY Zenon, <2>5, <2>6, <2>7
  <1>6. ASSUME NEW w \in Workers, InsertBlock(w) PROVE CacheInv'
    <2>. DEFINE b == Head(worker[w].todo)
                u == worker[w].until
    <2>1. worker[w].todo \in Seq(Blocks) /\ worker[w].todo # <<>> /\ u \in Nat
      BY Zenon, <1>6 DEF InsertBlock, CacheTyped
    <2>2. Tail(worker[w].todo) \in Seq(Blocks) /\ b.key \in Keys /\ b.val \in Vals
      BY Zenon, <1>6, <2>1, TailOfBlocks DEF InsertBlock, StampedHasContent
    <2>3. /\ map' = [map EXCEPT ![b.key] = [val |-> b.val, until |-> u]]
          /\ times' = times \cup {<<u, b.key>>}
          /\ worker' = [worker EXCEPT ![w].todo = Tail(@), ![w].until = -1]
          /\ written' = [written EXCEPT ![<<b.key, b.val>>] = IF u > @ THEN u ELSE @]
          /\ UNCHANGED <<now, sweep, snap>>
      BY Zenon, <1>6 DEF InsertBlock
    <2>4. CacheTyped'
      BY <2>1, <2>2, <2>3 DEF CacheTyped
    <2>5. StampedHasContent'
      BY <2>3 DEF CacheTyped, StampedHasContent
    <2>6. TimesCoverMap'
      BY Zenon, <2>2, <2>3 DEF CacheTyped, TimesCoverMap
    <2>7. ASSUME NEW k \in Keys, NEW v \in Vals PROVE written'[<<k, v>>] >= written[<<k, v>>]
      <3>1. written[<<k, v>>] \in Nat \cup {-1} /\ <<k, v>> \in Keys \X Vals
        BY Zenon DEF CacheTyped
      <3>2. written'[<<k, v>>] = IF <<k, v>> = <<b.key, b.val>> /\ u > written[<<k, v>>]
                                 THEN u ELSE written[<<k, v>>]
        BY Zenon, <3>1, <2>2, <2>3 DEF CacheTyped
      <3>. QED BY <3>1, <3>2, <2>1
    <2>8. written'[<<b.key, b.val>>] >= u
      BY <2>1, <2>2, <2>3 DEF CacheTyped
    <2>9. UntilIsWritten'
      <3>1. ASSUME NEW k \in Keys, map'[k].val # NoVal
            PROVE  map'[k].until <= written'[<<k, map'[k].val>>]
        <4>1. CASE k = b.key
          BY Zenon, <4>1, <2>1, <2>2, <2>3, <2>8 DEF CacheTyped
        <4>2. CASE k # b.key
          BY SMTT(60), <4>2, <3>1, <2>2, <2>3, <2>4, <2>7 DEF CacheTyped, UntilIsWritten
        <4>. QED BY Zenon, <4>1, <4>2
      <3>2. ASSUME NEW x \in snap PROVE x[3] <= written'[<<x[1], x[2]>>]
        <4>1. x[1] \in Keys /\ x[2] \in Vals /\ x[3] \in Nat
          BY Zenon DEF CacheTyped
        <4>2. written'[<<x[1], x[2]>>] >= written[<<x[1], x[2]>>]
          BY Zenon, <4>1, <2>7
        <4>3. written[<<x[1], x[2]>>] \in Int /\ written'[<<x[1], x[2]>>] \in Int
          BY SMTT(40), <4>1, <2>4 DEF CacheTyped
        <4>4. x[3] <= written[<<x[1], x[2]>>]
          BY Zenon DEF UntilIsWritten
        <4>. QED BY <4>1, <4>2, <4>3, <4>4
      <3>. QED BY Zenon, <3>1, <3>2, <2>3 DEF UntilIsWritten
    <2>. QED BY Zenon, <2>4, <2>5, <2>6, <2>9
  <1>7. ASSUME NEW w \in Workers, Reply(w) PROVE CacheInv'
    <2>1. NoRequest \in [req : Seq(Blocks), todo : Seq(Blocks), until : Nat \cup {-1}, began : Nat]
      BY DEF NoRequest
    <2>2. CacheTyped'
      BY Zenon, <1>7, <2>1 DEF Reply, CacheTyped
    <2>3. StampedHasContent'
      BY Zenon, <1>7 DEF Reply, CacheTyped, StampedHasContent, NoRequest
    <2>4. TimesCoverMap' /\ UntilIsWritten'
      BY Zenon, <1>7 DEF Reply, TimesCoverMap, UntilIsWritten
    <2>. QED BY Zenon, <2>2, <2>3, <2>4
  <1>8. CASE SweepStart
    BY Zenon, <1>8 DEF SweepStart, CacheTyped, StampedHasContent, TimesCoverMap, UntilIsWritten
  <1>9. CASE ClearTtl
    <2>. DEFINE due == {x \in times : x[1] < sweep}
    <2>1. /\ map' = [k \in Keys |-> IF map[k].until < sweep /\ \E x \in due : x[2] = k
                                    THEN NoEntry ELSE map[k]]
          /\ times' = times \ due /\ sweep' = -1
          /\ UNCHANGED <<now, worker, snap, written>>
      BY Zenon, <1>9 DEF ClearTtl
    <2>2. CacheTyped'
      BY Zenon, <2>1 DEF CacheTyped, NoEntry
    <2>3. StampedHasContent'
      BY Zenon, <2>1 DEF StampedHasContent
    <2>4. ASSUME NEW k \in Keys, map'[k].val # NoVal
          PROVE  map'[k] = map[k] /\ <<map[k].until, k>> \in times'
      <3>1. map'[k] = map[k] /\ ~(map[k].until < sweep /\ \E x \in due : x[2] = k)
        BY Zenon, <2>1, <2>4 DEF NoEntry
      <3>2. <<map[k].until, k>> \in times
        BY Zenon, <3>1, <2>4 DEF TimesCoverMap
      <3>. QED BY Zenon, <3>1, <3>2, <2>1
    <2>5. TimesCoverMap' /\ UntilIsWritten'
      BY Zenon, <2>4, <2>1 DEF TimesCoverMap, UntilIsWritten
    <2>. QED BY Zenon, <2>2, <2>3, <2>5
  <1>10. CASE StopBegin
    BY Zenon, <1>10 DEF StopBegin, CacheTyped, StampedHasContent, TimesCoverMap, UntilIsWritten
  <1>11. CASE StopEnd
    BY Zenon, <1>11, SerializeKeepsTimes, LostMemory DEF StopEnd
  <1>12. CASE Crash
    <2>1. \A x \in snap' : x \in snap \/ x \in Serialize
      BY Zenon, <1>12 DEF Crash
    <2>2. snap' \subseteq Keys \X Vals \X Nat /\ \A x \in snap' : x[3] <= written[<<x[1], x[2]>>]
      BY Zenon, <2>1, SerializeKeepsTimes DEF CacheTyped, UntilIsWritten
    <2>. QED BY Zenon, <1>12, <2>2, LostMemory DEF Crash
  <1>13. CASE Start
    BY Zenon, <1>13, StartStep
  <1>. QED
    BY Zenon, <1>1, <1>2, <1>3, <1>4, <1>5, <1>6, <1>7, <1>8, <1>9, <1>10, <1>11, <1>12, <1>13 DEF CacheNext

\* For any keys, values, workers and requests, no value is given out after the time
\* it was written for (map_time::get, serialize and deserialize).
THEOREM ValuesExpire == CacheSpec => []NothingOutlivesItsTtl
  <1>1. CacheInv => NothingOutlivesItsTtl
    <2>. SUFFICES ASSUME CacheInv, NEW k \in Keys, Retrieve(k) # NoVal
                  PROVE  written[<<k, Retrieve(k)>>] >= now
      BY Zenon DEF NothingOutlivesItsTtl
    <2>1. Retrieve(k) = map[k].val /\ map[k].val # NoVal /\ map[k].until >= now
      BY Zenon DEF Retrieve
    <2>2. map[k].until <= written[<<k, map[k].val>>] /\ map[k].until \in Nat /\ now \in Nat
          /\ written[<<k, map[k].val>>] \in Nat \cup {-1}
      BY Zenon, <2>1 DEF CacheInv, CacheTyped, UntilIsWritten
    <2>. QED BY <2>1, <2>2
  <1>. QED BY <1>1, CacheInvInit, CacheInvStep, PTL DEF CacheSpec

\* For any keys, values, workers and requests, clear_ttl leaves no entry that had
\* expired when it read the clock.
THEOREM SweepIsComplete == CacheSpec => SweepTakesAllExpired
  <1>. DEFINE Complete == sweep # -1 /\ sweep' = -1 =>
                            \A k \in Keys : map'[k].val # NoVal => map'[k].until >= sweep
  <1>1. CacheInv /\ [CacheNext]_cacheVars => [Complete]_cacheVars
    <2>. SUFFICES ASSUME CacheInv, CacheNext, sweep # -1, sweep' = -1,
                         NEW k \in Keys, map'[k].val # NoVal
                  PROVE  map'[k].until >= sweep
      BY Zenon DEF cacheVars
    <2>1. CASE ClearTtl
      <3>1. ~(map[k].until < sweep /\ \E x \in {x \in times : x[1] < sweep} : x[2] = k)
            /\ map'[k] = map[k]
        BY Zenon, <2>1 DEF ClearTtl, NoEntry
      <3>2. <<map[k].until, k>> \in times /\ map[k].until \in Nat /\ sweep \in Nat
        BY Zenon, <3>1 DEF CacheInv, CacheTyped, TimesCoverMap
      <3>. QED BY <3>1, <3>2
    <2>2. CASE StopEnd \/ Crash
      BY <2>2 DEF StopEnd, Crash, MemoryLost, NoEntry
    <2>3. CASE Tick \/ SweepStart \/ StopBegin \/ Start
      BY Zenon, <2>3 DEF Tick, SweepStart, StopBegin, Start, CacheInv, CacheTyped
    <2>4. ASSUME NEW w \in Workers,
                 (\E r \in Requests : Receive(w, r)) \/ EraseBlock(w) \/ Stamp(w)
                   \/ InsertBlock(w) \/ Reply(w)
          PROVE  FALSE
      BY Zenon, <2>4 DEF Receive, EraseBlock, Stamp, InsertBlock, Reply
    <2>. QED BY Zenon, <2>1, <2>2, <2>3, <2>4 DEF CacheNext
  <1>. QED BY <1>1, CacheInvInit, CacheInvStep, PTL DEF CacheSpec, SweepTakesAllExpired

(***************************************************************************)
(* What an answered write leaves                                           *)
(***************************************************************************)
\* The entry of a key is what a block with value v, due at d, leaves: it may have
\* gone, or have expired, but not a whole second before d.
Meets(k, v, d) ==
  IF v = NoVal THEN map[k].val = NoVal
  ELSE now >= ToTimeT(d) \/ (map[k].val = v /\ map[k].until >= ToTimeT(d))

\* The same of the file that a server which is down has left.
FileMeets(k, v, d) ==
  IF v = NoVal THEN \A x \in snap : x[1] # k
  ELSE now >= ToTimeT(d) \/ \E x \in snap : x[1] = k /\ x[2] = v /\ x[3] >= ToTimeT(d)

\* The number of blocks of its request a worker has done.
Done(w) == Len(worker[w].req) - Len(worker[w].todo)

\* Block i is the last one of a request with its key.
IsLast(r, i) == \A j \in DOMAIN r : r[j].key = r[i].key => j <= i

\* Workers do the blocks of their requests in order, and stamp a block no earlier
\* than the request began.
WorkInOrder ==
  \A w \in Workers :
    /\ Len(worker[w].todo) <= Len(worker[w].req)
    /\ \A j \in 1 .. Len(worker[w].todo) : worker[w].todo[j] = worker[w].req[Done(w) + j]
    /\ worker[w].began <= now
    /\ worker[w].until # -1 =>
         worker[w].until >= worker[w].began + PerSec * Head(worker[w].todo).ttl

\* A key that a worker has had alone is in its request and in no other's.
AloneIsAlone ==
  \A w \in Workers : \A k \in alone[w] :
    /\ k \in KeysOf(worker[w].req)
    /\ \A u \in Workers \ {w} : k \notin KeysOf(worker[u].req)

\* A key that a worker has had alone is as the last block for it left it, as soon
\* as that block is done.
DoneIsKept ==
  \A w \in Workers : \A i \in 1 .. Done(w) :
    LET b == worker[w].req[i]
    IN  b.key \in alone[w] /\ IsLast(worker[w].req, i)
          => Meets(b.key, b.val, worker[w].began + PerSec * b.ttl)

\* A promise is about a key that nobody is writing, and it is kept: by the map, or
\* by the file while the server is down.
PromisesKept ==
  \A k \in Keys : promise[k] # Unknown =>
    /\ promise[k].due \in Nat
    /\ \A w \in Workers : k \notin KeysOf(worker[w].req)
    /\ server # "down" => Meets(k, promise[k].val, promise[k].due)
    /\ server = "down" => FileMeets(k, promise[k].val, promise[k].due)

AckInv ==
  /\ promise \in [Keys -> [val : Vals \cup {NoVal}, due : Int]]
  /\ alone \in [Workers -> SUBSET Keys]
  /\ sweep <= now
  /\ server = "down" => \A w \in Workers : worker[w] = NoRequest
  /\ \A x, y \in snap : x[1] = y[1] => x = y
  /\ WorkInOrder /\ AloneIsAlone /\ DoneIsKept /\ PromisesKept

\* Every set of natural numbers that is not empty has a least element.
LEMMA LeastNatural ==
  ASSUME NEW T, T \subseteq Nat, T # {}
  PROVE  \E m \in T : \A n \in T : m <= n
  <1>1. PICK m \in T : \A n \in T : ~ (<<n, m>> \in OpToRel(<, Nat))
    BY Zenon, NatLessThanWellFounded, WFMin
  <1>2. \A n \in T : ~ (n < m)
    BY Zenon, <1>1 DEF OpToRel
  <1>. QED BY <1>2

\* A key of a request has a last block, and it is the one LastOf speaks of.
LEMMA LastBlock ==
  ASSUME NEW r \in Seq(Blocks), NEW k \in KeysOf(r), NEW t \in Nat
  PROVE  \E i \in DOMAIN r : /\ r[i].key = k /\ IsLast(r, i)
                             /\ LastOf(r, k, t) = [val |-> r[i].val, due |-> t + PerSec * r[i].ttl]
  <1>. DEFINE T == {n \in Nat : \E i \in DOMAIN r : r[i].key = k /\ n = Len(r) - i}
              P(i) == r[i].key = k /\ \A j \in DOMAIN r : r[j].key = k => j <= i
  <1>1. DOMAIN r = 1 .. Len(r) /\ Len(r) \in Nat
    OBVIOUS
  <1>2. PICK i \in DOMAIN r : r[i].key = k
    BY Zenon DEF KeysOf
  <1>3. Len(r) - i \in T
    BY <1>1, <1>2
  <1>4. PICK m \in T : \A n \in T : m <= n
    BY Zenon, <1>3, LeastNatural
  <1>5. PICK l \in DOMAIN r : r[l].key = k /\ m = Len(r) - l
    BY Zenon, <1>4
  <1>6. ASSUME NEW j \in DOMAIN r, r[j].key = k PROVE j <= l
    <2>1. Len(r) - j \in T
      BY <1>1, <1>6
    <2>. QED BY <2>1, <1>1, <1>4, <1>5
  <1>7. \E x \in DOMAIN r : P(x)
    BY Zenon, <1>5, <1>6
  <1>8. PICK c : c = CHOOSE x \in DOMAIN r : P(x)
    BY Zenon
  <1>9. c \in DOMAIN r /\ P(c)
    BY Zenon, <1>7, <1>8
  <1>10. LastOf(r, k, t) = [val |-> r[c].val, due |-> t + PerSec * r[c].ttl]
    BY Zenon, <1>8 DEF LastOf
  <1>. QED BY Zenon, <1>9, <1>10 DEF IsLast

\* A time that is no earlier than a whole second is none after it is cut to whole
\* seconds.
LEMMA ToTimeTKeepsSeconds ==
  ASSUME NEW a \in Nat, NEW d \in Nat, a >= ToTimeT(d)
  PROVE  ToTimeT(a) >= ToTimeT(d)
  <1>. DEFINE q == d \div PerSec
              r == a \div PerSec
  <1>1. q \in Nat /\ r \in Nat /\ PerSec \in Nat \ {0}
    BY CacheAssumption, SMTT(30)
  <1>2. a < PerSec * r + PerSec
    BY CacheAssumption, SMTT(30)
  <1>3. PerSec * q <= a
    BY Zenon DEF ToTimeT
  <1>. HIDE DEF q, r
  <1>4. PerSec * (r + 1) = PerSec * r + PerSec /\ PerSec * q \in Nat /\ PerSec * r \in Nat
    BY <1>1, SMTT(30)
  <1>5. q < r + 1
    <2>. SUFFICES ASSUME q >= r + 1 PROVE FALSE
      BY <1>1
    <2>1. PICK e \in Nat : q = (r + 1) + e
      <3>1. q - (r + 1) \in Nat /\ q = (r + 1) + (q - (r + 1))
        BY <1>1
      <3>. QED BY Zenon, <3>1
    <2>2. PerSec * q = PerSec * (r + 1) + PerSec * e /\ PerSec * e \in Nat
      BY <1>1, <2>1, SMTT(30)
    <2>. QED BY <1>1, <1>2, <1>3, <1>4, <2>2
  <1>6. PICK e \in Nat : r = q + e
    <2>1. r - q \in Nat /\ r = q + (r - q)
      BY <1>1, <1>5
    <2>. QED BY Zenon, <2>1
  <1>7. PerSec * r = PerSec * q + PerSec * e /\ PerSec * e \in Nat
    BY <1>1, <1>6, SMTT(30)
  <1>8. PerSec * r >= PerSec * q
    BY <1>4, <1>7
  <1>. QED BY Zenon, <1>8 DEF ToTimeT, q, r

\* Time passes over a promise.
LEMMA MeetsLater ==
  ASSUME CacheTyped, NEW k \in Keys, NEW v, NEW d \in Nat,
         map'[k] = map[k], now' \in Nat, now' >= now, Meets(k, v, d)
  PROVE  Meets(k, v, d)'
  <1>1. ToTimeT(d) \in Nat /\ now \in Nat
    BY Zenon, ToTimeTRoundsDown DEF CacheTyped
  <1>. QED BY <1>1 DEF Meets

\* The due time of a block of a request is a time.
LEMMA DueIsTime ==
  ASSUME NEW b \in Blocks, NEW t \in Nat
  PROVE  t + PerSec * b.ttl \in Nat
  <1>1. b.ttl \in Nat
    BY Zenon DEF Blocks
  <1>2. PerSec * b.ttl \in Nat
    BY <1>1, CacheAssumption
  <1>. QED BY <1>2

\* Done(w) counts blocks of the request.
LEMMA DoneIsCount ==
  ASSUME CacheTyped, WorkInOrder, NEW w \in Workers
  PROVE  /\ worker[w].req \in Seq(Blocks) /\ worker[w].todo \in Seq(Blocks)
         /\ worker[w].began \in Nat
         /\ Done(w) \in 0 .. Len(worker[w].req)
         /\ \A i \in 1 .. Done(w) : i \in DOMAIN worker[w].req /\ worker[w].req[i] \in Blocks
  <1>1. worker[w].req \in Seq(Blocks) /\ worker[w].todo \in Seq(Blocks) /\ worker[w].began \in Nat
    BY Zenon DEF CacheTyped
  <1>2. Len(worker[w].todo) <= Len(worker[w].req)
    BY Zenon DEF WorkInOrder
  <1>3. Len(worker[w].todo) \in Nat /\ Len(worker[w].req) \in Nat
    BY <1>1
  <1>4. Done(w) \in 0 .. Len(worker[w].req)
    <2>. DEFINE n == Len(worker[w].req)
                m == Len(worker[w].todo)
    <2>1. Done(w) = n - m /\ m <= n /\ m \in Nat /\ n \in Nat
      BY Zenon, <1>2, <1>3 DEF Done
    <2>. HIDE DEF n, m
    <2>2. Done(w) \in 0 .. n
      BY <2>1
    <2>. QED BY Zenon, <2>2 DEF n
  <1>5. ASSUME NEW i \in 1 .. Done(w)
        PROVE  i \in DOMAIN worker[w].req /\ worker[w].req[i] \in Blocks
    <2>1. i \in 1 .. Len(worker[w].req)
      BY <1>3, <1>4
    <2>. QED BY <2>1, <1>1
  <1>. QED BY Zenon, <1>1, <1>4, <1>5

\* A step that only lets time pass, sweeps or begins a stop.
LEMMA QuietStep ==
  ASSUME CacheTyped, AckInv, UNCHANGED <<worker, alone, promise, snap>>,
         server' = "down" <=> server = "down",
         now' \in Nat, now' >= now, sweep' <= now',
         \A k \in Keys, v \in Vals \cup {NoVal}, d \in Nat : Meets(k, v, d) => Meets(k, v, d)'
  PROVE  AckInv'
  <1>. USE DEF AckInv
  <1>1. now \in Nat
    BY Zenon DEF CacheTyped
  <1>2. \A w \in Workers : Done(w)' = Done(w)
    BY Zenon DEF Done
  <1>3. WorkInOrder'
    <2>1. \A w \in Workers : worker[w].began \in Nat
      BY Zenon DEF CacheTyped
    <2>. QED BY <1>1, <1>2, <2>1 DEF WorkInOrder
  <1>4. AloneIsAlone'
    BY DEF AloneIsAlone, KeysOf
  <1>5. DoneIsKept'
    <2>. SUFFICES ASSUME NEW w \in Workers, NEW i \in 1 .. Done(w), NEW b, NEW d,
                         b = worker[w].req[i], d = worker[w].began + PerSec * b.ttl,
                         b.key \in alone[w], IsLast(worker[w].req, i)
                  PROVE  Meets(b.key, b.val, d)'
      BY SMTT(60), <1>2 DEF DoneIsKept, Meets
    <2>1. b \in Blocks /\ worker[w].began \in Nat
      BY Zenon, DoneIsCount
    <2>2. d \in Nat /\ b.key \in Keys /\ b.val \in Vals \cup {NoVal}
      BY Zenon, <2>1, DueIsTime DEF Blocks
    <2>3. Meets(b.key, b.val, d)
      BY Zenon DEF DoneIsKept
    <2>. QED BY ZenonT(40), <2>2, <2>3
  <1>6. PromisesKept'
    <2>. SUFFICES ASSUME NEW k \in Keys, promise[k] # Unknown
                  PROVE  /\ server # "down" => Meets(k, promise[k].val, promise[k].due)'
                         /\ server = "down" => FileMeets(k, promise[k].val, promise[k].due)'
      BY Zenon DEF PromisesKept, Unknown
    <2>1. promise[k].due \in Nat /\ promise[k].val \in Vals \cup {NoVal}
      BY Zenon DEF PromisesKept
    <2>2. ToTimeT(promise[k].due) \in Nat
      BY Zenon, <2>1, ToTimeTRoundsDown
    <2>3. server = "down" => FileMeets(k, promise[k].val, promise[k].due)'
      BY <1>1, <2>2 DEF PromisesKept, FileMeets
    <2>4. server # "down" => Meets(k, promise[k].val, promise[k].due)'
      BY ZenonT(40), <2>1 DEF PromisesKept, Meets
    <2>. QED BY Zenon, <2>3, <2>4
  <1>. QED BY Zenon, <1>3, <1>4, <1>5, <1>6

\* A worker does the next block of its request: nobody else has been promised
\* anything of the block's key.
LEMMA BlockStep ==
  ASSUME CacheTyped, AckInv, NEW w \in Workers, NEW b, NEW d,
         worker[w].todo # <<>>, b = Head(worker[w].todo),
         d = worker[w].began + PerSec * b.ttl,
         worker' = [worker EXCEPT ![w].todo = Tail(@), ![w].until = -1],
         \A k \in Keys : k # b.key => map'[k] = map[k],
         Meets(b.key, b.val, d)',
         UNCHANGED <<now, sweep, alone, promise, snap, server>>
  PROVE  AckInv'
  <1>. USE DEF AckInv
  <1>1. /\ worker[w].req \in Seq(Blocks) /\ worker[w].todo \in Seq(Blocks)
        /\ Tail(worker[w].todo) \in Seq(Blocks)
        /\ Len(Tail(worker[w].todo)) = Len(worker[w].todo) - 1
        /\ Len(worker[w].todo) \in Nat \ {0} /\ Len(worker[w].req) \in Nat
    BY TailOfBlocks DEF CacheTyped
  <1>2. /\ worker'[w].req = worker[w].req /\ worker'[w].began = worker[w].began
        /\ worker'[w].todo = Tail(worker[w].todo) /\ worker'[w].until = -1
        /\ \A u \in Workers \ {w} : worker'[u] = worker[u]
        /\ \A u \in Workers : worker'[u].req = worker[u].req /\ worker'[u].began = worker[u].began
    BY DEF CacheTyped
  <1>3. /\ Done(w)' = Done(w) + 1 /\ Done(w) \in Nat /\ Done(w) + 1 <= Len(worker[w].req)
        /\ \A u \in Workers \ {w} : Done(u)' = Done(u)
    <2>1. Len(worker[w].todo) <= Len(worker[w].req)
      BY Zenon DEF WorkInOrder
    <2>. DEFINE n == Len(worker[w].req)
                m == Len(worker[w].todo)
    <2>2. Done(w) = n - m /\ Done(w)' = n - (m - 1) /\ m <= n /\ m \in Nat \ {0} /\ n \in Nat
      BY Zenon, <1>1, <1>2, <2>1 DEF Done
    <2>3. \A u \in Workers \ {w} : Done(u)' = Done(u)
      BY Zenon, <1>2 DEF Done
    <2>. HIDE DEF n, m
    <2>4. Done(w)' = Done(w) + 1 /\ Done(w) \in Nat /\ Done(w) + 1 <= n
      BY <2>2
    <2>. QED BY Zenon, <2>3, <2>4 DEF n
  <1>4. b = worker[w].req[Done(w) + 1] /\ b \in Blocks /\ b.key \in KeysOf(worker[w].req)
    <2>1. b = worker[w].todo[1] /\ 1 \in 1 .. Len(worker[w].todo)
      BY <1>1
    <2>2. b = worker[w].req[Done(w) + 1]
      BY Zenon, <2>1 DEF WorkInOrder
    <2>3. Done(w) + 1 \in DOMAIN worker[w].req
      BY <1>1, <1>3
    <2>. QED BY <1>1, <2>2, <2>3 DEF KeysOf
  <1>5. WorkInOrder'
    <2>. SUFFICES ASSUME NEW u \in Workers
                  PROVE  /\ Len(worker'[u].todo) <= Len(worker'[u].req)
                         /\ \A j \in 1 .. Len(worker'[u].todo) :
                              worker'[u].todo[j] = worker'[u].req[Done(u)' + j]
                         /\ worker'[u].began <= now
                         /\ worker'[u].until # -1 =>
                              worker'[u].until >= worker'[u].began + PerSec * Head(worker'[u].todo).ttl
      BY ZenonT(40) DEF WorkInOrder
    <2>1. CASE u # w
      <3>1. worker'[u] = worker[u] /\ Done(u)' = Done(u)
        BY Zenon, <2>1, <1>2, <1>3
      <3>2. /\ Len(worker[u].todo) <= Len(worker[u].req)
            /\ \A j \in 1 .. Len(worker[u].todo) : worker[u].todo[j] = worker[u].req[Done(u) + j]
            /\ worker[u].began <= now
            /\ worker[u].until # -1 =>
                 worker[u].until >= worker[u].began + PerSec * Head(worker[u].todo).ttl
        BY Zenon DEF WorkInOrder
      <3>. QED BY <3>1, <3>2, Zenon
    <2>2. CASE u = w
      <3>1. Len(worker[w].todo) <= Len(worker[w].req) /\ worker[w].began <= now
        BY Zenon DEF WorkInOrder
      <3>. DEFINE n == Len(worker[w].req)
                  m == Len(worker[w].todo)
                  l == Len(worker'[w].todo)
      <3>0. l = m - 1 /\ m \in Nat \ {0} /\ n \in Nat /\ m <= n /\ Len(worker'[w].req) = n
        BY Zenon, <1>1, <1>2, <3>1
      <3>. HIDE DEF n, m, l
      <3>2. l <= n
        BY <3>0
      <3>3. ASSUME NEW j \in 1 .. l
            PROVE  worker'[w].todo[j] = worker'[w].req[Done(w)' + j]
        <4>1. j \in 1 .. m - 1 /\ j + 1 \in 1 .. m
          BY <3>0
        <4>2. Tail(worker[w].todo)[j] = worker[w].todo[j + 1]
          BY <1>1, <4>1 DEF m
        <4>3. worker[w].todo[j + 1] = worker[w].req[Done(w) + (j + 1)]
          BY Zenon, <4>1 DEF WorkInOrder, m
        <4>4. Done(w) + (j + 1) = Done(w)' + j
          BY <1>3, <4>1
        <4>. QED BY Zenon, <1>2, <4>2, <4>3, <4>4
      <3>. QED BY ZenonT(40), <2>2, <1>2, <3>0, <3>1, <3>2, <3>3 DEF l
    <2>. QED BY ZenonT(40), <2>1, <2>2
  <1>6. AloneIsAlone'
    BY ZenonT(40), <1>2 DEF AloneIsAlone
  <1>7. \A u \in Workers \ {w} : b.key \notin alone[u]
    BY Zenon, <1>4 DEF AloneIsAlone
  <1>8. DoneIsKept'
    <2>. SUFFICES ASSUME NEW u \in Workers, NEW i \in 1 .. Done(u)', NEW c, NEW e,
                         c = worker[u].req[i], e = worker[u].began + PerSec * c.ttl,
                         c.key \in alone[u], IsLast(worker[u].req, i)
                  PROVE  Meets(c.key, c.val, e)'
      BY ZenonT(40), <1>2 DEF DoneIsKept, Meets
    <2>1. CASE u = w /\ i = Done(w) + 1
      BY Zenon, <2>1, <1>4
    <2>2. CASE i \in 1 .. Done(u) /\ c.key # b.key
      <3>1. c \in Blocks /\ worker[u].began \in Nat /\ now \in Nat
        BY Zenon, <2>2, DoneIsCount DEF CacheTyped
      <3>2. e \in Nat /\ c.key \in Keys
        BY Zenon, <3>1, DueIsTime DEF Blocks
      <3>3. Meets(c.key, c.val, e)
        BY Zenon, <2>2 DEF DoneIsKept
      <3>4. map'[c.key] = map[c.key]
        BY Zenon, <2>2, <3>2
      <3>. QED BY SMTT(40), <3>1, <3>2, <3>3, <3>4, MeetsLater
    <2>3. ASSUME u = w, i \in 1 .. Done(w), c.key = b.key PROVE FALSE
      <3>1. Done(w) + 1 \in DOMAIN worker[w].req
        BY <1>1, <1>3
      <3>2. Done(w) + 1 <= i
        BY Zenon, <2>3, <3>1, <1>4 DEF IsLast
      <3>. QED BY <3>2, <2>3, <1>3
    <2>4. u # w => c.key # b.key /\ i \in 1 .. Done(u)
      BY Zenon, <1>3, <1>7
    <2>5. u = w => i \in 1 .. Done(w) \/ i = Done(w) + 1
      BY <1>3
    <2>. QED BY Zenon, <2>1, <2>2, <2>3, <2>4, <2>5
  <1>9. PromisesKept'
    <2>. SUFFICES ASSUME NEW k \in Keys, promise[k] # Unknown
                  PROVE  /\ server # "down" => Meets(k, promise[k].val, promise[k].due)'
                         /\ server = "down" => FileMeets(k, promise[k].val, promise[k].due)'
      BY Zenon, <1>2 DEF PromisesKept, Unknown
    <2>1. promise[k].due \in Nat /\ k # b.key
      BY Zenon, <1>4 DEF PromisesKept
    <2>2. map'[k] = map[k]
      BY Zenon, <2>1
    <2>. QED BY Zenon, <2>2 DEF PromisesKept, Meets, FileMeets
  <1>10. server = "down" => \A u \in Workers : worker'[u] = NoRequest
    BY DEF NoRequest
  <1>. QED BY Zenon, <1>5, <1>6, <1>8, <1>9, <1>10

\* What a worker without a request has.
LEMMA NoRequestIs ==
  /\ NoRequest.req = <<>> /\ NoRequest.todo = <<>> /\ NoRequest.until = -1 /\ NoRequest.began = 0
  /\ KeysOf(NoRequest.req) = {}
BY DEF NoRequest, KeysOf

\* A worker takes a request: what was promised of its keys no longer is.
LEMMA ReceiveStep ==
  ASSUME CacheTyped, AckInv, NEW w \in Workers, NEW r \in Requests, Receive(w, r)
  PROVE  AckInv'
  <1>. USE DEF AckInv
  <1>0. r \in Seq(Blocks) /\ now \in Nat
    BY Zenon, CacheAssumption DEF CacheTyped
  <1>1. /\ worker' = [worker EXCEPT ![w] = [req |-> r, todo |-> r, until |-> -1, began |-> now]]
        /\ worker'[w] = [req |-> r, todo |-> r, until |-> -1, began |-> now]
        /\ \A u \in Workers \ {w} : worker'[u] = worker[u]
        /\ promise' = [k \in Keys |-> IF k \in KeysOf(r) THEN Unknown ELSE promise[k]]
        /\ server # "down" /\ worker[w].req = <<>>
        /\ UNCHANGED <<now, map, sweep, server, snap>>
    BY Zenon DEF Receive, CacheTyped, Busy
  <1>2. /\ alone'[w] = {k \in KeysOf(r) : \A u \in Workers \ {w} : k \notin KeysOf(worker[u].req)}
        /\ \A v \in Workers \ {w} : alone'[v] = alone[v] \ KeysOf(r)
        /\ alone' \in [Workers -> SUBSET Keys]
    <2>1. KeysOf(r) \subseteq Keys
      <3>1. \A i \in DOMAIN r : r[i] \in Blocks
        BY <1>0
      <3>. QED BY <3>1 DEF KeysOf, Blocks
    <2>. QED BY Zenon, <2>1 DEF Receive
  <1>3. /\ Done(w)' = 0 /\ \A u \in Workers \ {w} : Done(u)' = Done(u)
    BY <1>0, <1>1 DEF Done
  <1>4. WorkInOrder'
    <2>1. ASSUME NEW j \in 1 .. Len(r) PROVE r[j] = r[0 + j]
      OBVIOUS
    <2>. QED BY <1>0, <1>1, <1>3, <2>1 DEF WorkInOrder
  <1>5. AloneIsAlone'
    BY <1>1, <1>2 DEF AloneIsAlone
  <1>6. DoneIsKept'
    <2>1. ASSUME NEW u \in Workers, NEW i \in 1 .. Done(u)', NEW b, b = worker'[u].req[i],
                 b.key \in alone'[u], IsLast(worker'[u].req, i), NEW d, d = worker'[u].began + PerSec * b.ttl
          PROVE  Meets(b.key, b.val, d)'
      <3>1. u # w
        BY <1>3, <2>1
      <3>2. worker'[u] = worker[u] /\ Done(u)' = Done(u) /\ b.key \in alone[u]
        BY <1>1, <1>2, <1>3, <2>1, <3>1
      <3>3. Meets(b.key, b.val, d)
        BY Zenon, <2>1, <3>2 DEF DoneIsKept
      <3>. QED BY Zenon, <1>1, <2>1, <3>2, <3>3 DEF Meets
    <2>. QED BY Zenon, <2>1 DEF DoneIsKept
  <1>7. PromisesKept'
    <2>. SUFFICES ASSUME NEW k \in Keys, k \notin KeysOf(r), promise[k] # Unknown
                  PROVE  /\ promise[k].due \in Nat
                         /\ \A u \in Workers : k \notin KeysOf(worker'[u].req)
                         /\ Meets(k, promise[k].val, promise[k].due)
      BY Zenon, <1>1 DEF PromisesKept, Unknown, Meets
    <2>. QED BY <1>1 DEF PromisesKept
  <1>8. promise' \in [Keys -> [val : Vals \cup {NoVal}, due : Int]]
    BY <1>1 DEF Unknown
  <1>. QED BY Zenon, <1>1, <1>2, <1>4, <1>5, <1>6, <1>7, <1>8

\* A request is answered: all of its blocks are done, and what it had alone is as
\* the last block for it left it.
LEMMA ReplyStep ==
  ASSUME CacheTyped, AckInv, NEW w \in Workers, Reply(w)
  PROVE  AckInv'
  <1>. USE DEF AckInv
  <1>. DEFINE r == worker[w].req
              t == worker[w].began
  <1>1. /\ worker[w].todo = <<>> /\ r # <<>> /\ r \in Seq(Blocks) /\ t \in Nat
        /\ worker'[w] = NoRequest /\ \A u \in Workers \ {w} : worker'[u] = worker[u]
        /\ alone'[w] = {} /\ \A u \in Workers \ {w} : alone'[u] = alone[u]
        /\ alone' \in [Workers -> SUBSET Keys]
        /\ UNCHANGED <<now, map, sweep, server, snap>> /\ now \in Nat
    BY Zenon DEF Reply, CacheTyped, Busy
  <1>0. promise' = [k \in Keys |-> IF k \in alone[w] THEN LastOf(r, k, t) ELSE promise[k]]
    BY Zenon DEF Reply
  <1>2. server # "down"
    BY <1>1 DEF NoRequest
  <1>3. Done(w) = Len(r)
    BY <1>1 DEF Done
  <1>4. ASSUME NEW k \in alone[w]
        PROVE  /\ promise'[k].due \in Nat /\ promise'[k].val \in Vals \cup {NoVal}
               /\ promise'[k] \in [val : Vals \cup {NoVal}, due : Int]
               /\ \A u \in Workers : k \notin KeysOf(worker'[u].req)
               /\ Meets(k, promise'[k].val, promise'[k].due)
    <2>1. k \in KeysOf(r) /\ k \in Keys
      BY Zenon DEF AloneIsAlone
    <2>2. PICK i \in DOMAIN r :
            /\ r[i].key = k /\ IsLast(r, i)
            /\ LastOf(r, k, t) = [val |-> r[i].val, due |-> t + PerSec * r[i].ttl]
      <3>1. r \in Seq(Blocks) /\ k \in KeysOf(r)
        BY Zenon, <1>1, <2>1
      <3>2. t \in Nat
        BY Zenon, <1>1
      <3>. HIDE DEF r, t
      <3>. QED BY <3>1, <3>2, LastBlock, ZenonT(40)
    <2>3. i \in 1 .. Done(w) /\ r[i] \in Blocks
      BY <1>1, <1>3
    <2>4. t + PerSec * r[i].ttl \in Nat /\ r[i].val \in Vals \cup {NoVal}
      BY Zenon, <1>1, <2>3, DueIsTime DEF Blocks
    <2>5. Meets(k, r[i].val, t + PerSec * r[i].ttl)
      BY Zenon, <2>2, <2>3 DEF DoneIsKept
    <2>6. promise'[k] = [val |-> r[i].val, due |-> t + PerSec * r[i].ttl]
      BY Zenon, <1>0, <2>1, <2>2
    <2>7. \A u \in Workers : k \notin KeysOf(worker'[u].req)
      <3>1. KeysOf(worker'[w].req) = {}
        BY Zenon, <1>1, NoRequestIs
      <3>2. \A u \in Workers \ {w} : k \notin KeysOf(worker[u].req)
        BY Zenon DEF AloneIsAlone
      <3>. QED BY Zenon, <1>1, <3>1, <3>2
    <2>. QED BY SMTT(40), <2>4, <2>5, <2>6, <2>7
  <1>5. promise' \in [Keys -> [val : Vals \cup {NoVal}, due : Int]]
    BY Zenon, <1>0, <1>4
  <1>6. PromisesKept'
    <2>. SUFFICES ASSUME NEW k \in Keys, promise'[k] # Unknown
                  PROVE  /\ promise'[k].due \in Nat
                         /\ \A u \in Workers : k \notin KeysOf(worker'[u].req)
                         /\ Meets(k, promise'[k].val, promise'[k].due)
      BY Zenon, <1>1, <1>2 DEF PromisesKept, Unknown, Meets
    <2>1. CASE k \in alone[w]
      BY Zenon, <2>1, <1>4
    <2>2. CASE k \notin alone[w]
      <3>1. promise'[k] = promise[k]
        BY Zenon, <1>0, <2>2
      <3>2. \A u \in Workers : k \notin KeysOf(worker'[u].req)
        <4>1. KeysOf(worker'[w].req) = {}
          BY Zenon, <1>1, NoRequestIs
        <4>2. \A u \in Workers : k \notin KeysOf(worker[u].req)
          BY Zenon, <3>1 DEF PromisesKept
        <4>. QED BY Zenon, <1>1, <4>1, <4>2
      <3>. QED BY Zenon, <1>2, <3>1, <3>2 DEF PromisesKept
    <2>. QED BY Zenon, <2>1, <2>2
  <1>7. Done(w)' = 0 /\ \A u \in Workers \ {w} : Done(u)' = Done(u)
    <2>1. worker'[w].req = <<>> /\ worker'[w].todo = <<>>
      BY Zenon, <1>1, NoRequestIs
    <2>2. Done(w)' = 0
      BY <2>1 DEF Done
    <2>3. \A u \in Workers \ {w} : Done(u)' = Done(u)
      BY Zenon, <1>1 DEF Done
    <2>. QED BY Zenon, <2>2, <2>3
  <1>8. WorkInOrder'
    <2>1. /\ Len(worker'[w].todo) <= Len(worker'[w].req)
          /\ \A j \in 1 .. Len(worker'[w].todo) : worker'[w].todo[j] = worker'[w].req[Done(w)' + j]
          /\ worker'[w].began <= now' /\ worker'[w].until = -1
      BY <1>1, NoRequestIs
    <2>2. ASSUME NEW u \in Workers \ {w}
          PROVE  /\ Len(worker'[u].todo) <= Len(worker'[u].req)
                 /\ \A j \in 1 .. Len(worker'[u].todo) :
                      worker'[u].todo[j] = worker'[u].req[Done(u)' + j]
                 /\ worker'[u].began <= now'
                 /\ worker'[u].until # -1 =>
                      worker'[u].until >= worker'[u].began + PerSec * Head(worker'[u].todo).ttl
      <3>1. worker'[u] = worker[u] /\ Done(u)' = Done(u) /\ now' = now
        BY Zenon, <1>1, <1>7
      <3>2. /\ Len(worker[u].todo) <= Len(worker[u].req)
            /\ \A j \in 1 .. Len(worker[u].todo) : worker[u].todo[j] = worker[u].req[Done(u) + j]
            /\ worker[u].began <= now
            /\ worker[u].until # -1 =>
                 worker[u].until >= worker[u].began + PerSec * Head(worker[u].todo).ttl
        BY Zenon DEF WorkInOrder
      <3>. QED BY <3>1, <3>2, Zenon
    <2>. QED BY Zenon, <2>1, <2>2 DEF WorkInOrder
  <1>9. AloneIsAlone'
    <2>1. KeysOf(worker'[w].req) = {}
      BY Zenon, <1>1, NoRequestIs
    <2>. QED BY Zenon, <1>1, <2>1 DEF AloneIsAlone
  <1>10. DoneIsKept'
    <2>. SUFFICES ASSUME NEW u \in Workers, NEW i \in 1 .. Done(u)', NEW b, NEW d,
                         b = worker'[u].req[i], d = worker'[u].began + PerSec * b.ttl,
                         b.key \in alone'[u], IsLast(worker'[u].req, i)
                  PROVE  Meets(b.key, b.val, d)'
      BY DEF DoneIsKept, Meets
    <2>1. u # w
      BY Zenon, <1>1
    <2>2. worker'[u] = worker[u] /\ alone'[u] = alone[u] /\ i \in 1 .. Done(u)
      BY Zenon, <1>1, <1>7, <2>1
    <2>3. Meets(b.key, b.val, d)
      BY Zenon, <2>2 DEF DoneIsKept
    <2>. QED BY ZenonT(40), <1>1, <2>3 DEF Meets
  <1>. QED BY Zenon, <1>1, <1>2, <1>5, <1>6, <1>8, <1>9, <1>10

\* With the memory the requests are gone.
LEMMA LostRequests ==
  ASSUME CacheTyped, MemoryLost, now' = now
  PROVE  /\ WorkInOrder' /\ AloneIsAlone' /\ DoneIsKept' /\ alone' \in [Workers -> SUBSET Keys]
         /\ sweep' <= now' /\ \A w \in Workers : worker'[w] = NoRequest
  <1>1. /\ \A w \in Workers : worker'[w] = NoRequest /\ alone'[w] = {}
        /\ alone' \in [Workers -> SUBSET Keys] /\ sweep' = -1 /\ now' \in Nat
    BY Zenon DEF MemoryLost, CacheTyped
  <1>2. WorkInOrder'
    BY <1>1 DEF WorkInOrder, NoRequest
  <1>3. AloneIsAlone' /\ DoneIsKept'
    BY Zenon, <1>1 DEF AloneIsAlone, DoneIsKept
  <1>. QED BY <1>1, <1>2, <1>3

\* serialize() writes one block of a key.
LEMMA SerializeOnce ==
  ASSUME NEW x \in Serialize, NEW y \in Serialize, x[1] = y[1]
  PROVE  x = y
  BY DEF Serialize

\* A clean stop puts what is promised into the file.
LEMMA StopEndStep ==
  ASSUME CacheTyped, AckInv, StopEnd
  PROVE  AckInv'
  <1>. USE DEF AckInv
  <1>1. /\ server = "stopping" /\ server' = "down" /\ snap' = Serialize
        /\ MemoryLost /\ UNCHANGED <<now, promise>> /\ now \in Nat
    BY Zenon DEF StopEnd, CacheTyped
  <1>2. PromisesKept'
    <2>. SUFFICES ASSUME NEW k \in Keys, promise[k] # Unknown
                  PROVE  FileMeets(k, promise[k].val, promise[k].due)'
      <3>1. \A w \in Workers : KeysOf(worker'[w].req) = {}
        BY <1>1 DEF MemoryLost, NoRequest, KeysOf
      <3>. QED BY ZenonT(40), <1>1, <3>1 DEF PromisesKept, Unknown
    <2>2. promise[k].due \in Nat /\ Meets(k, promise[k].val, promise[k].due)
      BY Zenon, <1>1 DEF PromisesKept
    <2>3. CASE promise[k].val = NoVal
      BY <1>1, <2>2, <2>3 DEF Meets, FileMeets, Serialize
    <2>4. CASE promise[k].val # NoVal /\ now >= ToTimeT(promise[k].due)
      BY Zenon, <1>1, <2>4 DEF FileMeets
    <2>5. CASE /\ promise[k].val # NoVal /\ map[k].val = promise[k].val
               /\ map[k].until >= ToTimeT(promise[k].due)
      <3>1. map[k].until \in Nat
        BY Zenon DEF CacheTyped
      <3>2. ToTimeT(map[k].until) >= ToTimeT(promise[k].due)
        BY Zenon, <2>2, <2>5, <3>1, ToTimeTKeepsSeconds
      <3>3. <<k, map[k].val, ToTimeT(map[k].until)>> \in snap'
        BY Zenon, <1>1, <2>5 DEF Serialize
      <3>. QED BY Zenon, <1>1, <2>5, <3>2, <3>3 DEF FileMeets
    <2>. QED BY Zenon, <2>2, <2>3, <2>4, <2>5 DEF Meets
  <1>. QED BY Zenon, <1>1, <1>2, LostRequests, SerializeOnce

\* After a crash nothing is promised.
LEMMA CrashStep ==
  ASSUME CacheTyped, AckInv, Crash
  PROVE  AckInv'
  <1>. USE DEF AckInv
  <1>1. /\ server' = "down" /\ MemoryLost /\ UNCHANGED now
        /\ promise' = [k \in Keys |-> Unknown] /\ (snap' = snap \/ snap' \subseteq Serialize)
    BY Zenon DEF Crash
  <1>2. \A x, y \in snap' : x[1] = y[1] => x = y
    BY ZenonT(40), <1>1, SerializeOnce
  <1>3. PromisesKept' /\ promise' \in [Keys -> [val : Vals \cup {NoVal}, due : Int]]
    BY SMTT(40), <1>1 DEF PromisesKept, Unknown
  <1>. QED BY Zenon, <1>1, <1>2, <1>3, LostRequests

\* A start loads what is promised from the file, unless its time is over.
LEMMA LoadStep ==
  ASSUME CacheTyped, AckInv, Start
  PROVE  AckInv'
  <1>. USE DEF AckInv
  <1>. DEFINE live == {x \in snap : x[3] > now}
  <1>1. /\ map' = [k \in Keys |-> IF \E x \in live : x[1] = k
                                  THEN LET x == CHOOSE x \in live : x[1] = k
                                       IN  [val |-> x[2], until |-> x[3]]
                                  ELSE NoEntry]
        /\ server = "down" /\ server' = "up" /\ now \in Nat
        /\ \A w \in Workers : worker[w] = NoRequest
        /\ UNCHANGED <<now, worker, sweep, snap, alone, promise>>
    BY ZenonT(40) DEF Start, CacheTyped
  <1>2. \A w \in Workers : Done(w) = 0 /\ Done(w)' = 0
    BY <1>1 DEF Done, NoRequest
  <1>3. WorkInOrder' /\ AloneIsAlone' /\ DoneIsKept'
    <2>1. \A w \in Workers : 1 .. Done(w)' = {}
      BY <1>2
    <2>2. DoneIsKept'
      BY Zenon, <2>1 DEF DoneIsKept
    <2>3. WorkInOrder'
      BY Zenon, <1>1, <1>2 DEF WorkInOrder, Done
    <2>4. AloneIsAlone'
      BY Zenon, <1>1 DEF AloneIsAlone
    <2>. QED BY Zenon, <2>2, <2>3, <2>4
  <1>4. PromisesKept'
    <2>. SUFFICES ASSUME NEW k \in Keys, promise[k] # Unknown
                  PROVE  Meets(k, promise[k].val, promise[k].due)'
      BY Zenon, <1>1 DEF PromisesKept, Unknown
    <2>1. promise[k].due \in Nat /\ FileMeets(k, promise[k].val, promise[k].due)
      BY Zenon, <1>1 DEF PromisesKept
    <2>2. CASE promise[k].val = NoVal
      <3>1. map'[k] = NoEntry
        BY Zenon, <1>1, <2>1, <2>2 DEF FileMeets
      <3>. QED BY Zenon, <1>1, <2>2, <3>1 DEF Meets, NoEntry
    <2>3. CASE promise[k].val # NoVal /\ now >= ToTimeT(promise[k].due)
      BY Zenon, <1>1, <2>3 DEF Meets
    <2>4. CASE promise[k].val # NoVal /\ ~(now >= ToTimeT(promise[k].due))
      <3>1. PICK x \in snap : x[1] = k /\ x[2] = promise[k].val /\ x[3] >= ToTimeT(promise[k].due)
        BY Zenon, <2>1, <2>4 DEF FileMeets
      <3>2. ToTimeT(promise[k].due) \in Nat /\ x[3] \in Nat
        BY Zenon, <2>1, ToTimeTRoundsDown DEF CacheTyped
      <3>3. x \in live
        BY <1>1, <2>4, <3>1, <3>2
      <3>4. \A y \in live : y[1] = k => y = x
        BY Zenon, <3>1
      <3>5. (CHOOSE y \in live : y[1] = k) = x
        BY Zenon, <3>1, <3>3, <3>4
      <3>6. map'[k] = [val |-> x[2], until |-> x[3]]
        BY Zenon, <1>1, <3>1, <3>3, <3>5
      <3>. QED BY SMTT(40), <1>1, <2>4, <3>1, <3>6 DEF Meets
    <2>. QED BY Zenon, <2>2, <2>3, <2>4
  <1>. QED BY Zenon, <1>1, <1>3, <1>4

\* At the first start nothing is promised.
LEMMA AckInvInit == CacheInit => AckInv
  <1>. SUFFICES ASSUME CacheInit PROVE AckInv
    BY Zenon
  <1>1. /\ \A w \in Workers : worker[w] = NoRequest /\ alone[w] = {} /\ Done(w) = 0
        /\ now = 0 /\ sweep = -1 /\ snap = {} /\ server = "up"
        /\ promise = [k \in Keys |-> Unknown] /\ alone \in [Workers -> SUBSET Keys]
    BY DEF CacheInit, Done, NoRequest
  <1>2. WorkInOrder
    BY SMTT(40), <1>1 DEF WorkInOrder, NoRequest
  <1>3. AloneIsAlone /\ DoneIsKept
    BY Zenon, <1>1 DEF AloneIsAlone, DoneIsKept
  <1>4. PromisesKept /\ promise \in [Keys -> [val : Vals \cup {NoVal}, due : Int]]
    BY <1>1 DEF PromisesKept, Unknown
  <1>. QED BY <1>1, <1>2, <1>3, <1>4 DEF AckInv

\* Every step keeps what is promised.
LEMMA AckInvStep == CacheInv /\ AckInv /\ [CacheNext]_cacheVars => AckInv'
  <1>. SUFFICES ASSUME CacheInv, AckInv, [CacheNext]_cacheVars PROVE AckInv'
    BY Zenon
  <1>0. CacheTyped /\ StampedHasContent /\ now \in Nat /\ sweep <= now
    BY Zenon DEF CacheInv, CacheTyped, AckInv
  <1>1. CASE UNCHANGED cacheVars
    BY <1>0, <1>1, QuietStep DEF cacheVars, Meets
  <1>2. CASE Tick
    <2>1. now' = now + 1 /\ sweep' <= now'
      <3>1. sweep \in Int /\ sweep' = sweep /\ now' = now + 1
        BY <1>0, <1>2 DEF Tick, CacheTyped
      <3>. QED BY <1>0, <3>1
    <2>2. now' \in Nat /\ now' >= now
      BY <1>0, <2>1
    <2>3. \A k \in Keys, v \in Vals \cup {NoVal}, d \in Nat : Meets(k, v, d) => Meets(k, v, d)'
      BY Zenon, <1>0, <1>2, <2>2, MeetsLater DEF Tick
    <2>. QED BY Zenon, <1>0, <1>2, <2>1, <2>2, <2>3, QuietStep DEF Tick
  <1>3. ASSUME NEW w \in Workers, NEW r \in Requests, Receive(w, r) PROVE AckInv'
    BY Zenon, <1>0, <1>3, ReceiveStep
  <1>4. ASSUME NEW w \in Workers, EraseBlock(w) PROVE AckInv'
    <2>. DEFINE b == Head(worker[w].todo)
                d == worker[w].began + PerSec * b.ttl
    <2>1. worker[w].todo \in Seq(Blocks) /\ worker[w].todo # <<>> /\ b.val = NoVal
      BY Zenon, <1>0, <1>4 DEF EraseBlock, CacheTyped
    <2>2. b.key \in Keys
      BY Zenon, <2>1, TailOfBlocks
    <2>3. worker[w].until = -1
      BY Zenon, <1>0, <1>4, CacheAssumption DEF EraseBlock, StampedHasContent, CacheTyped
    <2>4. worker' = [worker EXCEPT ![w].todo = Tail(@), ![w].until = -1]
      BY Zenon, <1>0, <1>4, <2>3 DEF EraseBlock, CacheTyped
    <2>5. map' = [map EXCEPT ![b.key] = NoEntry] /\ map'[b.key].val = NoVal
      BY Zenon, <1>0, <1>4, <2>2 DEF EraseBlock, NoEntry, CacheTyped
    <2>6. PICK B, D : B = b /\ D = d
      BY Zenon
    <2>7. Meets(B.key, B.val, D)'
      BY Zenon, <2>1, <2>5, <2>6 DEF Meets
    <2>8. \A k \in Keys : k # B.key => map'[k] = map[k]
      BY Zenon, <1>0, <2>5, <2>6 DEF CacheTyped
    <2>9. D = worker[w].began + PerSec * B.ttl /\ B = Head(worker[w].todo)
      BY Zenon, <2>6
    <2>. HIDE DEF b, d
    <2>. QED BY ZenonT(40), <1>0, <1>4, <2>1, <2>4, <2>7, <2>8, <2>9, BlockStep DEF EraseBlock
  <1>5. ASSUME NEW w \in Workers, Stamp(w) PROVE AckInv'
    <2>. DEFINE b == Head(worker[w].todo)
                u == now + PerSec * b.ttl
    <2>. USE DEF AckInv
    <2>1. /\ worker' = [worker EXCEPT ![w].until = u]
          /\ UNCHANGED <<now, map, sweep, server, snap, alone, promise>>
          /\ worker[w].todo # <<>> /\ worker[w].todo \in Seq(Blocks)
      BY Zenon, <1>0, <1>5 DEF Stamp, CacheTyped
    <2>2. PerSec * b.ttl \in Nat
      <3>1. b.ttl \in Nat
        BY Zenon, <2>1, TailOfBlocks
      <3>. HIDE DEF b
      <3>. QED BY <3>1, CacheAssumption
    <2>. HIDE DEF u
    <2>3. /\ \A v \in Workers : /\ worker'[v].req = worker[v].req /\ worker'[v].todo = worker[v].todo
                                /\ worker'[v].began = worker[v].began
          /\ worker'[w].until = u /\ \A v \in Workers \ {w} : worker'[v].until = worker[v].until
      BY <1>0, <2>1 DEF CacheTyped
    <2>4. \A v \in Workers : Done(v)' = Done(v)
      BY Zenon, <2>3 DEF Done
    <2>5. WorkInOrder'
      <3>1. worker[w].began \in Nat /\ worker[w].began <= now
        BY Zenon, <1>0 DEF WorkInOrder, CacheTyped
      <3>2. u >= worker[w].began + PerSec * b.ttl
        BY <1>0, <2>2, <3>1 DEF u
      <3>. HIDE DEF b
      <3>3. ASSUME NEW v \in Workers
            PROVE  /\ Len(worker'[v].todo) <= Len(worker'[v].req)
                   /\ \A j \in 1 .. Len(worker'[v].todo) :
                        worker'[v].todo[j] = worker'[v].req[Done(v)' + j]
                   /\ worker'[v].began <= now'
        <4>1. /\ Len(worker[v].todo) <= Len(worker[v].req)
              /\ \A j \in 1 .. Len(worker[v].todo) : worker[v].todo[j] = worker[v].req[Done(v) + j]
              /\ worker[v].began <= now
          BY Zenon DEF WorkInOrder
        <4>2. /\ worker'[v].req = worker[v].req /\ worker'[v].todo = worker[v].todo
              /\ worker'[v].began = worker[v].began /\ Done(v)' = Done(v) /\ now' = now
          BY Zenon, <2>1, <2>3, <2>4
        <4>. QED BY <4>1, <4>2, Zenon
      <3>4. ASSUME NEW v \in Workers, worker'[v].until # -1
            PROVE  worker'[v].until >= worker'[v].began + PerSec * Head(worker'[v].todo).ttl
        <4>1. CASE v = w
          <5>1. Head(worker'[v].todo) = b /\ worker'[v].began = worker[w].began /\ worker'[v].until = u
            BY Zenon, <4>1, <2>3 DEF b
          <5>. QED BY Zenon, <5>1, <3>2
        <4>2. CASE v # w
          <5>1. /\ worker'[v].until = worker[v].until /\ worker'[v].began = worker[v].began
                /\ worker'[v].todo = worker[v].todo
            BY Zenon, <4>2, <2>3
          <5>2. worker[v].until >= worker[v].began + PerSec * Head(worker[v].todo).ttl
            BY Zenon, <5>1, <3>4 DEF WorkInOrder
          <5>. QED BY Zenon, <5>1, <5>2
        <4>. QED BY Zenon, <4>1, <4>2
      <3>. QED BY Zenon, <3>3, <3>4 DEF WorkInOrder
    <2>6. AloneIsAlone'
      BY <2>1, <2>3 DEF AloneIsAlone
    <2>7. DoneIsKept'
      <3>. SUFFICES ASSUME NEW v \in Workers, NEW i \in 1 .. Done(v)', NEW c, NEW e,
                           c = worker'[v].req[i], e = worker'[v].began + PerSec * c.ttl,
                           c.key \in alone'[v], IsLast(worker'[v].req, i)
                    PROVE  Meets(c.key, c.val, e)'
        BY Zenon DEF DoneIsKept, Meets
      <3>1. Meets(c.key, c.val, e)
        BY <2>1, <2>3, <2>4 DEF DoneIsKept
      <3>. QED BY Zenon, <2>1, <3>1 DEF Meets
    <2>8. PromisesKept'
      BY Zenon, <2>1, <2>3 DEF PromisesKept, Meets, FileMeets, Unknown
    <2>9. server # "down"
      BY <2>1 DEF NoRequest
    <2>. QED BY Zenon, <2>1, <2>5, <2>6, <2>7, <2>8, <2>9
  <1>6. ASSUME NEW w \in Workers, InsertBlock(w) PROVE AckInv'
    <2>. DEFINE b == Head(worker[w].todo)
                d == worker[w].began + PerSec * b.ttl
                u == worker[w].until
    <2>1. worker[w].todo \in Seq(Blocks) /\ worker[w].todo # <<>> /\ u \in Nat /\ u # -1
      BY Zenon, <1>0, <1>6 DEF InsertBlock, CacheTyped
    <2>2. b.key \in Keys /\ b \in Blocks /\ b.val # NoVal
      BY Zenon, <1>0, <2>1, TailOfBlocks, CacheAssumption DEF StampedHasContent
    <2>3. /\ map' = [map EXCEPT ![b.key] = [val |-> b.val, until |-> u]]
          /\ worker' = [worker EXCEPT ![w].todo = Tail(@), ![w].until = -1]
          /\ UNCHANGED <<now, sweep, snap, server, alone, promise>>
      BY Zenon, <1>6 DEF InsertBlock
    <2>4. u >= d
      BY Zenon, <2>1 DEF AckInv, WorkInOrder
    <2>5. d \in Nat
      <3>1. worker[w].began \in Nat
        BY Zenon, <1>0 DEF CacheTyped
      <3>. HIDE DEF b
      <3>. QED BY Zenon, <2>2, <3>1, DueIsTime
    <2>6. ToTimeT(d) \in Nat /\ ToTimeT(d) <= d
      <3>. HIDE DEF d
      <3>. QED BY Zenon, <2>5, ToTimeTRoundsDown
    <2>7. u >= ToTimeT(d)
      <3>. HIDE DEF d, u
      <3>. QED BY <2>1, <2>4, <2>5, <2>6
    <2>8. PICK B, D : B = b /\ D = d
      BY Zenon
    <2>9. map'[B.key].val = B.val /\ map'[B.key].until >= ToTimeT(D)
      BY Zenon, <1>0, <2>2, <2>3, <2>7, <2>8 DEF CacheTyped
    <2>10. Meets(B.key, B.val, D)'
      BY Zenon, <2>9, <2>2, <2>8 DEF Meets
    <2>11. \A k \in Keys : k # B.key => map'[k] = map[k]
      BY Zenon, <1>0, <2>3, <2>8 DEF CacheTyped
    <2>12. D = worker[w].began + PerSec * B.ttl /\ B = Head(worker[w].todo)
      BY Zenon, <2>8
    <2>. HIDE DEF b, d, u
    <2>. QED BY Zenon, <1>0, <2>1, <2>3, <2>10, <2>11, <2>12, BlockStep
  <1>7. ASSUME NEW w \in Workers, Reply(w) PROVE AckInv'
    BY Zenon, <1>0, <1>7, ReplyStep
  <1>8. CASE SweepStart
    BY <1>0, <1>8, QuietStep DEF SweepStart, Meets
  <1>9. CASE ClearTtl
    <2>1. /\ \A k \in Keys : map'[k] = map[k] \/ (map'[k] = NoEntry /\ map[k].until < sweep)
          /\ sweep' = -1 /\ UNCHANGED <<now, worker, server, snap, alone, promise>>
      BY Zenon, <1>9 DEF ClearTtl
    <2>2. ASSUME NEW k \in Keys, NEW v \in Vals \cup {NoVal}, NEW d \in Nat, Meets(k, v, d)
          PROVE  Meets(k, v, d)'
      <3>1. CASE map'[k] = map[k]
        BY Zenon, <3>1, <2>1, <2>2 DEF Meets
      <3>2. CASE map'[k] = NoEntry /\ map[k].until < sweep
        <4>1. ToTimeT(d) \in Nat /\ map[k].until \in Nat /\ sweep \in Int
          BY <1>0, ToTimeTRoundsDown DEF CacheTyped
        <4>2. map[k].until >= ToTimeT(d) => now >= ToTimeT(d)
          BY SMTT(40), <4>1, <3>2, <1>0
        <4>. QED BY <4>2, <3>2, <2>1, <2>2 DEF Meets, NoEntry
      <3>. QED BY Zenon, <3>1, <3>2, <2>1
    <2>3. sweep' <= now' /\ now' \in Nat /\ now' >= now
      BY SMTT(60), <1>0, <2>1
    <2>. QED BY Zenon, <1>0, <2>1, <2>2, <2>3, QuietStep
  <1>10. CASE StopBegin
    BY <1>0, <1>10, QuietStep DEF StopBegin, Meets
  <1>11. CASE StopEnd
    BY Zenon, <1>0, <1>11, StopEndStep
  <1>12. CASE Crash
    BY Zenon, <1>0, <1>12, CrashStep
  <1>13. CASE Start
    BY Zenon, <1>0, <1>13, LoadStep
  <1>. QED
    BY Zenon, <1>1, <1>2, <1>3, <1>4, <1>5, <1>6, <1>7, <1>8, <1>9, <1>10, <1>11, <1>12, <1>13 DEF CacheNext

\* For any keys, values, workers and requests, a write that was answered, and that
\* no other request for the key met or followed, is what retrieve() gives until a
\* second before its time is over, and an erasure stays: through sweeps, clean stops
\* and the starts that load their file (map_time, serialize and deserialize).
THEOREM AnsweredWritesHold == CacheSpec => []AckedWritesHold
  <1>1. CacheInv /\ AckInv => AckedWritesHold
    <2>. SUFFICES ASSUME CacheTyped, PromisesKept, NEW k \in Keys, server # "down",
                         promise[k] # Unknown
                  PROVE  \/ promise[k].val = NoVal /\ Retrieve(k) = NoVal
                         \/ /\ promise[k].val # NoVal
                            /\ now < ToTimeT(promise[k].due) => Retrieve(k) = promise[k].val
      BY Zenon DEF AckedWritesHold, CacheInv, AckInv
    <2>1. Meets(k, promise[k].val, promise[k].due) /\ promise[k].due \in Nat
      BY Zenon DEF PromisesKept
    <2>2. ToTimeT(promise[k].due) \in Nat /\ now \in Nat /\ map[k].until \in Nat
      BY Zenon, <2>1, ToTimeTRoundsDown DEF CacheTyped
    <2>. QED BY <2>1, <2>2 DEF Meets, Retrieve
  <1>2. CacheInv /\ AckInv /\ [CacheNext]_cacheVars => CacheInv' /\ AckInv'
    BY Zenon, CacheInvStep, AckInvStep
  <1>. QED BY <1>1, <1>2, CacheInvInit, AckInvInit, PTL DEF CacheSpec
=============================================================================
