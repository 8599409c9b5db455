----------------------------- MODULE MCServices -----------------------------
(***************************************************************************)
(* The lock table and the replication of removals share no state: one of   *)
(* them moves, the other stays as it began, and fairness is asked only of  *)
(* the one that moves.                                                     *)
(***************************************************************************)
EXTENDS LockedFiles, Hstf
VARIABLE active

MCInit == LockInit /\ HstfInit /\ active \in {"locks", "oplog"}
MCNext ==
  /\ UNCHANGED active
  /\ \/ active = "locks" /\ LockNext /\ UNCHANGED hstfVars
     \/ active = "oplog" /\ HstfNext /\ UNCHANGED lockVars

If(a, A) == active = a /\ A
MCFairness ==
  /\ \A t \in Threads : WF_lockVars(If("locks", WriterEnters(t))) /\ WF_lockVars(If("locks", Erase(t)))
  /\ WF_hstfVars(If("oplog", AddFile)) /\ WF_hstfVars(If("oplog", ClearFile))
  /\ \A b \in Followers :
       /\ WF_hstfVars(If("oplog", Process(b))) /\ WF_hstfVars(If("oplog", Advance(b)))
       /\ WF_hstfVars(If("oplog", Save(b)))
       /\ SF_hstfVars(If("oplog", Poll(b))) /\ SF_hstfVars(If("oplog", AnswerArrives(b)))

MCSpec == MCInit /\ [][MCNext]_<<active, lockVars, hstfVars>> /\ MCFairness
=============================================================================
