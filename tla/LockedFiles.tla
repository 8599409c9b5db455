----------------------------- MODULE LockedFiles -----------------------------
(***************************************************************************)
(* rssdisk::server::locked_files: the table of per-file reader/writer      *)
(* locks that every file operation of the disk server goes through.        *)
(*                                                                         *)
(* `files` (std::map<string, uint8_t>) is split in two: `present` is the   *)
(* set of keys that have an entry, `count` the 8-bit value of the entry    *)
(* (0 for a key without entry, which is what operator[] creates).          *)
(* `pending` is pending_update, with NoThread for a key without entry.     *)
(* mode/at say what each thread has obtained: they are the program point   *)
(* of the thread, not data of the table.  Everything between taking        *)
(* locked_files::lock and giving it back is one step.                      *)
(***************************************************************************)
EXTENDS Naturals, FiniteSets

CONSTANTS
  Threads,    \* the threads that call add() and erase()
  Keys,       \* the lock keys: "<segment>/<file name>"
  CountMod,   \* number of values of an entry of `files`: 256 for uint8_t
  NoThread,   \* no entry in pending_update
  NoKey       \* the thread is not inside the table

ASSUME ThreadsFinite == IsFiniteSet(Threads)
ASSUME CountModPositive == CountMod \in Nat \ {0}
ASSUME NoThreadIsNoThread == NoThread \notin Threads
ASSUME NoKeyIsNoKey == NoKey \notin Keys

\* The counter of an entry can tell apart as many holders as there are threads.
CounterWideEnough == Cardinality(Threads) <= CountMod

VARIABLES present, count, pending, mode, at

tableVars == <<present, count, pending>>
lockVars == <<present, count, pending, mode, at>>

Modes == {"out", "read", "wait", "write"}

\* ++files[k]
Increment(k) ==
  /\ present' = present \cup {k}
  /\ count' = [count EXCEPT ![k] = (@ + 1) % CountMod]

\* if (files has k) { --files[k]; if it is now 0, the entry goes }
Decrement(k) ==
  IF k \notin present
  THEN UNCHANGED <<present, count>>
  ELSE LET left == (count[k] + CountMod - 1) % CountMod
       IN  /\ count' = [count EXCEPT ![k] = left]
           /\ present' = IF left = 0 THEN present \ {k} ELSE present

Moves(t, m, k) ==
  /\ mode' = [mode EXCEPT ![t] = m]
  /\ at' = [at EXCEPT ![t] = k]

LockInit ==
  /\ present = {}
  /\ count = [k \in Keys |-> 0]
  /\ pending = [k \in Keys |-> NoThread]
  /\ mode = [t \in Threads |-> "out"]
  /\ at = [t \in Threads |-> NoKey]

\* add() returns false: somebody is updating the file, or waits to update it.
AddRefused(t, k) ==
  /\ mode[t] = "out"
  /\ pending[k] # NoThread
  /\ UNCHANGED lockVars

\* Mutant: a reader does not look at pending_update.
AddReaderOvertaking(t, k) ==
  /\ mode[t] = "out"
  /\ Increment(k)
  /\ UNCHANGED pending
  /\ Moves(t, "read", k)

\* add(k, false) returns true.
AddReader(t, k) ==
  /\ mode[t] = "out"
  /\ pending[k] = NoThread
  /\ Increment(k)
  /\ UNCHANGED pending
  /\ Moves(t, "read", k)

\* Mutant: a writer does not wait for the readers.
AddWriterNoWait(t, k) ==
  /\ mode[t] = "out"
  /\ pending[k] = NoThread
  /\ pending' = [pending EXCEPT ![k] = t]
  /\ Increment(k)
  /\ Moves(t, "write", k)

\* add(k, true) finds the file unused and returns true at once, or registers
\* the update and goes on to the waiting loop.
AddWriter(t, k) ==
  /\ mode[t] = "out"
  /\ pending[k] = NoThread
  /\ pending' = [pending EXCEPT ![k] = t]
  /\ IF k \notin present
     THEN Increment(k) /\ Moves(t, "write", k)
     ELSE UNCHANGED <<present, count>> /\ Moves(t, "wait", k)

\* A turn of the waiting loop of add() that finds the file left by everybody.
\* The other turns (sleep, look, sleep again) change nothing.
WriterEnters(t) ==
  /\ mode[t] = "wait"
  /\ at[t] \notin present
  /\ Increment(at[t])
  /\ UNCHANGED pending
  /\ Moves(t, "write", at[t])

\* Mutant: erase() does not compare the owner of the pending_update entry.
EraseAnyPending(t) ==
  /\ mode[t] \in {"read", "write"}
  /\ pending' = [pending EXCEPT ![at[t]] = NoThread]
  /\ Decrement(at[t])
  /\ Moves(t, "out", NoKey)

\* erase(), called by the destructor of locker_file.
Erase(t) ==
  /\ mode[t] \in {"read", "write"}
  /\ pending' = IF pending[at[t]] = t
                THEN [pending EXCEPT ![at[t]] = NoThread]
                ELSE pending
  /\ Decrement(at[t])
  /\ Moves(t, "out", NoKey)

LockNext ==
  \E t \in Threads :
    \/ \E k \in Keys : AddRefused(t, k) \/ AddReader(t, k) \/ AddWriter(t, k)
    \/ WriterEnters(t)
    \/ Erase(t)

LockSpec == LockInit /\ [][LockNext]_lockVars

\* A thread inside a file finishes its I/O and leaves, and a waiting thread
\* looks again every 30 ms.  Nobody is forced to call add().
LockFairness ==
  \A t \in Threads : WF_lockVars(WriterEnters(t)) /\ WF_lockVars(Erase(t))

LockFairSpec == LockSpec /\ LockFairness

(***************************************************************************)
(* Properties                                                              *)
(***************************************************************************)

Readers(k) == {t \in Threads : mode[t] = "read" /\ at[t] = k}
Writers(k) == {t \in Threads : mode[t] = "write" /\ at[t] = k}
Waiters(k) == {t \in Threads : mode[t] = "wait" /\ at[t] = k}
Holders(k) == Readers(k) \cup Writers(k)

\* Type invariant of the lock table and of the threads' places in it.
LockTypeOK ==
  /\ present \in SUBSET Keys
  /\ count \in [Keys -> 0 .. CountMod - 1]
  /\ pending \in [Keys -> Threads \cup {NoThread}]
  /\ mode \in [Threads -> Modes]
  /\ at \in [Threads -> Keys \cup {NoKey}]

\* "write protection the same name files" (accept_file): while a thread that
\* asked to write is inside a file, no other thread, reader or writer, is.
MutualExclusion ==
  \A k \in Keys : \A w \in Writers(k) : Holders(k) = {w}

\* At most one thread is writing or waiting to write a file, and it is the one
\* that pending_update names: erase() by anybody else leaves the entry alone.
OneUpdaterPerFile ==
  \A k \in Keys : \A t \in Threads :
    pending[k] = t <=> t \in Writers(k) \cup Waiters(k)

\* The entry of a file counts the threads inside the file, modulo its width,
\* and exists exactly as long as some thread is inside: no erase() is lost and
\* none is done twice, in whatever order add() and erase() interleave.
EntryCountsHolders ==
  \A k \in Keys :
    /\ k \in present <=> Holders(k) # {}
    /\ count[k] = Cardinality(Holders(k)) % CountMod

\* A thread that waits for readers to leave gets the file: because no reader
\* is let in past pending_update, it cannot be starved.
WaitingWriterEnters ==
  \A t \in Threads : mode[t] = "wait" ~> mode[t] = "write"

\* The lock that the callers of locked_files count on (module RWLock), in terms
\* of the threads that have obtained it.
RW == INSTANCE RWLock WITH
        inside <- [k \in Keys |-> Holders(k)],
        writing <- [k \in Keys |-> Writers(k)],
        reserved <- [k \in Keys |-> Writers(k) \cup Waiters(k)]

\* locked_files is a reader/writer lock with one reserved writer: every step of
\* its counters and of pending_update is a step of RWLock, or no step of it.
ImplementsRWLock == RW!RWSpec
=============================================================================
