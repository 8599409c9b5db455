------------------------------- MODULE CacheDb -------------------------------
(***************************************************************************)
(* The cache database: map_time (a map whose entries have a time of expiry *)
(* and the multimap `times` that the sweep walks), CDatabaseManager on top *)
(* of it, the workers that carry out "set" requests of several blocks, the *)
(* checker thread that sweeps, and the file _cdb_data that a server leaves *)
(* for the next one when it is stopped.                                    *)
(*                                                                         *)
(* Time is counted in ticks, PerSec of them in a second: the steady clock  *)
(* is finer than the time_t in the file.  The two clocks are taken to run  *)
(* together.  A block without content erases its key.                      *)
(***************************************************************************)
EXTENDS Integers, Sequences, FiniteSets

CONSTANTS
  Keys, Vals,
  Workers,
  Requests,     \* what clients send: sequences of blocks
  PerSec,       \* ticks in a second
  MaxTime,      \* bound: ticks
  MaxRequests,  \* bound: requests
  MaxStops,     \* bound: stops and crashes of the server
  NoVal         \* no content, and no entry

Blocks == [key : Keys, val : Vals \cup {NoVal}, ttl : Nat]

ASSUME CacheAssumption ==
  /\ NoVal \notin Vals
  /\ PerSec \in Nat \ {0}
  /\ Requests \subseteq Seq(Blocks)

VARIABLES
  now,
  map,        \* of a key: [val, until]; val = NoVal where there is no entry
  times,      \* the pairs <<until, key>> of the multimap
  worker,     \* of a worker: its request, the blocks still to be done, the
              \* valid_until it has computed (-1 for none), when it began
  sweep,      \* the time clear_ttl has read, -1 when it does not run
  server,     \* "up", "stopping", "down"
  snap,       \* the blocks of _cdb_data: <<key, value, until>>
  stops, taken,   \* so far: stops and crashes, requests
  \* history
  alone,      \* keys of a worker's request that no other request has had since
  promise,    \* what the last write of a key leaves, if it was alone: [val, due]
  written     \* the latest until a value was ever put into the map with, of <<key, value>>

cacheVars == <<now, map, times, worker, sweep, server, snap, stops, taken, alone, promise, written>>

NoEntry == [val |-> NoVal, until |-> 0]
NoRequest == [req |-> <<>>, todo |-> <<>>, until |-> -1, began |-> 0]
Unknown == [val |-> NoVal, due |-> -1]
Busy(w) == worker[w].req # <<>>

CacheInit ==
  /\ now = 0
  /\ map = [k \in Keys |-> NoEntry] /\ times = {}
  /\ worker = [w \in Workers |-> NoRequest]
  /\ sweep = -1 /\ server = "up" /\ snap = {} /\ stops = 0 /\ taken = 0
  /\ alone = [w \in Workers |-> {}]
  /\ promise = [k \in Keys |-> Unknown] /\ written = [x \in Keys \X Vals |-> -1]

Tick ==
  /\ now < MaxTime
  /\ now' = now + 1
  /\ UNCHANGED <<map, times, worker, sweep, server, snap, stops, taken, alone, promise, written>>

(***************************************************************************)
(* Requests                                                                *)
(***************************************************************************)
KeysOf(r) == {r[i].key : i \in DOMAIN r}

\* A worker takes a request from the queue of the pool.
Receive(w, r) ==
  /\ server # "down" /\ ~Busy(w) /\ taken < MaxRequests
  /\ taken' = taken + 1
  /\ worker' = [worker EXCEPT ![w] = [req |-> r, todo |-> r, until |-> -1, began |-> now]]
  /\ alone' = [v \in Workers |->
                 IF v # w THEN alone[v] \ KeysOf(r)
                 ELSE {k \in KeysOf(r) : \A u \in Workers \ {w} : k \notin KeysOf(worker[u].req)}]
  /\ promise' = [k \in Keys |-> IF k \in KeysOf(r) THEN Unknown ELSE promise[k]]
  /\ UNCHANGED <<now, map, times, sweep, server, snap, stops, written>>

\* CDatabaseManager::insert of a block without content: map_time::erase leaves `times`.
EraseBlock(w) ==
  /\ worker[w].todo # <<>> /\ Head(worker[w].todo).val = NoVal
  /\ map' = [map EXCEPT ![Head(worker[w].todo).key] = NoEntry]
  /\ worker' = [worker EXCEPT ![w].todo = Tail(@)]
  /\ UNCHANGED <<now, times, sweep, server, snap, stops, taken, alone, promise, written>>

\* map_time::insert reads the clock before it takes the lock ...
Stamp(w) ==
  /\ worker[w].todo # <<>> /\ Head(worker[w].todo).val # NoVal /\ worker[w].until = -1
  /\ worker' = [worker EXCEPT ![w].until = now + PerSec * Head(worker[w].todo).ttl]
  /\ UNCHANGED <<now, map, times, sweep, server, snap, stops, taken, alone, promise, written>>

\* ... and replaces the entry and adds to `times` under it.
InsertBlock(w) ==
  LET b == Head(worker[w].todo)
      u == worker[w].until
  IN  /\ worker[w].todo # <<>> /\ u # -1
      /\ map' = [map EXCEPT ![b.key] = [val |-> b.val, until |-> u]]
      /\ times' = times \cup {<<u, b.key>>}
      /\ worker' = [worker EXCEPT ![w].todo = Tail(@), ![w].until = -1]
      /\ written' = [written EXCEPT ![<<b.key, b.val>>] = IF u > @ THEN u ELSE @]
      /\ UNCHANGED <<now, sweep, server, snap, stops, taken, alone, promise>>

\* What a request that began at t leaves of key k.
LastOf(r, k, t) ==
  LET b == r[CHOOSE i \in DOMAIN r : r[i].key = k /\ \A j \in DOMAIN r : r[j].key = k => j <= i]
  IN  [val |-> b.val, due |-> t + PerSec * b.ttl]

\* The request is answered.
Reply(w) ==
  /\ Busy(w) /\ worker[w].todo = <<>>
  /\ promise' = [k \in Keys |-> IF k \in alone[w]
                                THEN LastOf(worker[w].req, k, worker[w].began) ELSE promise[k]]
  /\ worker' = [worker EXCEPT ![w] = NoRequest]
  /\ alone' = [alone EXCEPT ![w] = {}]
  /\ UNCHANGED <<now, map, times, sweep, server, snap, stops, taken, written>>

\* map_time::get, and so what CDatabaseManager::retrieve answers.
Retrieve(k) == IF map[k].val # NoVal /\ map[k].until >= now THEN map[k].val ELSE NoVal

(***************************************************************************)
(* The sweep                                                               *)
(***************************************************************************)
\* The checker calls clearAll: clear_ttl reads the clock ...
SweepStart ==
  /\ server = "up" /\ sweep = -1
  /\ sweep' = now
  /\ UNCHANGED <<now, map, times, worker, server, snap, stops, taken, alone, promise, written>>

\* Mutant: the entry of a due record goes, however long it is valid.
ClearTtlAny ==
  LET due == {x \in times : x[1] < sweep}
  IN  /\ sweep # -1 /\ sweep' = -1
      /\ map' = [k \in Keys |-> IF \E x \in due : x[2] = k THEN NoEntry ELSE map[k]]
      /\ times' = times \ due
      /\ UNCHANGED <<now, worker, server, snap, stops, taken, alone, promise, written>>

\* ... and under the lock walks `times` up to it; an entry that was written again
\* since stays.
ClearTtl ==
  LET due == {x \in times : x[1] < sweep}
  IN  /\ sweep # -1 /\ sweep' = -1
      /\ map' = [k \in Keys |-> IF map[k].until < sweep /\ \E x \in due : x[2] = k
                                THEN NoEntry ELSE map[k]]
      /\ times' = times \ due
      /\ UNCHANGED <<now, worker, server, snap, stops, taken, alone, promise, written>>

(***************************************************************************)
(* Stop, crash and start                                                   *)
(***************************************************************************)
\* Mutant: the time is rounded up.
ToTimeTUp(t) == PerSec * ((t + PerSec - 1) \div PerSec)

\* steady_clock_to_time_t: whole seconds.
ToTimeT(t) == PerSec * (t \div PerSec)

\* serialize(): all entries, expired ones too.
Serialize == {<<k, map[k].val, ToTimeT(map[k].until)>> : k \in {j \in Keys : map[j].val # NoVal}}

\* The signal; the checker ends its turn, the pool its tasks.
StopBegin ==
  /\ server = "up" /\ stops < MaxStops
  /\ server' = "stopping" /\ stops' = stops + 1
  /\ UNCHANGED <<now, map, times, worker, sweep, snap, taken, alone, promise, written>>

MemoryLost ==
  /\ map' = [k \in Keys |-> NoEntry] /\ times' = {}
  /\ worker' = [w \in Workers |-> NoRequest] /\ sweep' = -1
  /\ alone' = [w \in Workers |-> {}]

StopEnd ==
  /\ server = "stopping" /\ sweep = -1 /\ \A w \in Workers : ~Busy(w)
  /\ snap' = Serialize /\ server' = "down"
  /\ MemoryLost
  /\ UNCHANGED <<now, stops, taken, promise, written>>

\* The process ends: the file stays as the last stop left it, or is cut where it
\* was being written.
Crash ==
  /\ \/ server = "up" /\ stops < MaxStops /\ stops' = stops + 1 /\ UNCHANGED snap
     \/ server = "stopping" /\ UNCHANGED <<snap, stops>>
     \/ server = "stopping" /\ sweep = -1 /\ (\A w \in Workers : ~Busy(w))
        /\ snap' \in SUBSET Serialize /\ UNCHANGED stops
  /\ server' = "down"
  /\ MemoryLost
  /\ promise' = [k \in Keys |-> Unknown]
  /\ UNCHANGED <<now, taken, written>>

\* deserialize(): blocks that are still valid; the file is not removed.
Start ==
  LET live == {x \in snap : x[3] > now}
  IN  /\ server = "down" /\ server' = "up"
      /\ map' = [k \in Keys |-> IF \E x \in live : x[1] = k
                                THEN LET x == CHOOSE x \in live : x[1] = k
                                     IN  [val |-> x[2], until |-> x[3]]
                                ELSE NoEntry]
      /\ times' = {<<x[3], x[1]>> : x \in live}
      /\ UNCHANGED <<now, worker, sweep, snap, stops, taken, alone, promise, written>>

CacheNext ==
  \/ Tick
  \/ \E w \in Workers :
       \/ \E r \in Requests : Receive(w, r)
       \/ EraseBlock(w) \/ Stamp(w) \/ InsertBlock(w) \/ Reply(w)
  \/ SweepStart \/ ClearTtl
  \/ StopBegin \/ StopEnd \/ Crash \/ Start

CacheSpec == CacheInit /\ [][CacheNext]_cacheVars

(***************************************************************************)
(* Properties                                                              *)
(***************************************************************************)
\* A write that was answered and that no other request for the key met or followed
\* is what retrieve gives until a second before its ttl ends, an erasure for good:
\* through sweeps and through stops of the server, as long as it does not crash.
AckedWritesHold ==
  \A k \in Keys :
    server # "down" /\ promise[k] # Unknown =>
      \/ promise[k].val = NoVal /\ Retrieve(k) = NoVal
      \/ promise[k].val # NoVal /\ (now < ToTimeT(promise[k].due) => Retrieve(k) = promise[k].val)

\* No value is given out after the time it was written for, not by a server that
\* loads it from an old file either.
NothingOutlivesItsTtl ==
  \A k \in Keys : Retrieve(k) # NoVal => written[<<k, Retrieve(k)>>] >= now

\* A sweep leaves no entry that had expired when it began: each has its record in
\* `times`, through replacements, erasures, earlier sweeps and a load of the file.
SweepTakesAllExpired ==
  [][sweep # -1 /\ sweep' = -1 =>
       \A k \in Keys : map'[k].val # NoVal => map'[k].until >= sweep]_cacheVars
==============================================================================
