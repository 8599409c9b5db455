------------------------------- MODULE RWLock -------------------------------
(***************************************************************************)
(* What locked_files promises to its callers: a reader/writer lock per     *)
(* key, with at most one reserved writer that new arrivals do not overtake.*)
(* There are no counters here, only who is inside and who has reserved.    *)
(***************************************************************************)
CONSTANTS Threads, Keys

VARIABLES inside, writing, reserved

rwVars == <<inside, writing, reserved>>

RWInit ==
  /\ inside = [k \in Keys |-> {}]
  /\ writing = [k \in Keys |-> {}]
  /\ reserved = [k \in Keys |-> {}]

Idle(t) == \A k \in Keys : t \notin inside[k] \cup reserved[k]

\* A reader comes in unless the file is reserved.
StartRead(t, k) ==
  /\ Idle(t)
  /\ reserved[k] = {}
  /\ inside' = [inside EXCEPT ![k] = @ \cup {t}]
  /\ UNCHANGED <<writing, reserved>>

\* A writer reserves the file; it may come in at once if nobody is inside.
Reserve(t, k) ==
  /\ Idle(t)
  /\ reserved[k] = {}
  /\ reserved' = [reserved EXCEPT ![k] = {t}]
  /\ \/ UNCHANGED <<inside, writing>>
     \/ /\ inside[k] = {}
        /\ inside' = [inside EXCEPT ![k] = {t}]
        /\ writing' = [writing EXCEPT ![k] = {t}]

\* The reserved writer comes in when the last thread has left.
StartWrite(t, k) ==
  /\ reserved[k] = {t}
  /\ inside[k] = {}
  /\ inside' = [inside EXCEPT ![k] = {t}]
  /\ writing' = [writing EXCEPT ![k] = {t}]
  /\ UNCHANGED reserved

\* A thread leaves, and takes its own reservation with it.
Leave(t, k) ==
  /\ t \in inside[k]
  /\ inside' = [inside EXCEPT ![k] = @ \ {t}]
  /\ writing' = [writing EXCEPT ![k] = @ \ {t}]
  /\ reserved' = [reserved EXCEPT ![k] = @ \ {t}]

RWNext ==
  \E t \in Threads, k \in Keys :
    StartRead(t, k) \/ Reserve(t, k) \/ StartWrite(t, k) \/ Leave(t, k)

RWSpec == RWInit /\ [][RWNext]_rwVars
=============================================================================
