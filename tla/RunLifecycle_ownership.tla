----------------------- MODULE RunLifecycle_ownership -----------------------
(* Who may take a run from its owner, and who may end it.                  *)
EXTENDS RunLifecycle_proofs

-----------------------------------------------------------------------------
(* What any step may do to the owner of a run, and to its status while it  *)
(* has one.                                                                *)
OwnerMayChange(q) ==
    \/ run'[q].owner = run[q].owner
    \/ run[q].owner = NoOwner
    \/ run'[q].owner = NoOwner /\ ~WorkOutstanding(q)

OwnedRunMayEnd(q) ==
    \/ run'[q].status = run[q].status
    \/ run[q].status # "IN-PROGRESS"
    \/ run[q].owner = NoOwner
    \/ run'[q].status = "CANCELLED"
    \/ /\ supervises[run[q].owner] = q
       /\ verdict[run[q].owner] = run'[q].status

\* Every step changes ownership and endings in these ways only.
LEMMA OwnershipChanges ==
    ASSUME TypeOK, [Next]_vars, NEW q \in Runs
    PROVE  OwnerMayChange(q) /\ OwnedRunMayEnd(q)
<1> DEFINE Goal == OwnerMayChange(q) /\ OwnedRunMayEnd(q)
<1>1. ASSUME run'[q] = run[q] PROVE Goal
  BY <1>1 DEF OwnerMayChange, OwnedRunMayEnd
<1>2. ASSUME NEW r \in Runs, NEW row, run' = [run EXCEPT ![r] = row],
             \/ row.owner = run[r].owner
             \/ run[r].owner = NoOwner
             \/ row.owner = NoOwner /\ ~WorkOutstanding(r),
             \/ row.status = run[r].status
             \/ run[r].status # "IN-PROGRESS"
             \/ run[r].owner = NoOwner
             \/ row.status = "CANCELLED"
             \/ supervises[run[r].owner] = r /\ verdict[run[r].owner] = row.status
      PROVE  Goal
  <2>1. CASE q = r
    <3>1. run'[q] = row
      BY <1>2, <2>1 DEF TypeOK
    <3> QED
      BY <1>2, <2>1, <3>1 DEF OwnerMayChange, OwnedRunMayEnd
  <2>2. CASE q # r
    BY <1>1, <1>2, <2>2 DEF TypeOK
  <2> QED
    BY <2>1, <2>2
<1>3. ASSUME NEW r \in Runs, NEW status \in RunStatuses,
             run' = [run EXCEPT ![r].status = status],
             run[r].status # "IN-PROGRESS" \/ status = "CANCELLED"
      PROVE  Goal
  <2> DEFINE row == [run[r] EXCEPT !.status = status]
  <2>1. row.owner = run[r].owner /\ row.status = status
    BY DEF TypeOK, RunRows
  <2> QED
    BY <1>2, <1>3, <2>1
<1>4. ASSUME NEW r \in Runs, MayReopen(r), run' = [run EXCEPT ![r] = ReopenedRow(@)]
      PROVE  Goal
  BY <1>2, <1>4 DEF MayReopen
<1>5. ASSUME NEW r \in Runs, run' = [run EXCEPT ![r] = UnownedRow(@)], ~WorkOutstanding(r)
      PROVE  Goal
  <2>1. UnownedRow(run[r]).owner = NoOwner /\ UnownedRow(run[r]).status = run[r].status
    BY DEF UnownedRow, TypeOK, RunRows
  <2> QED
    BY <1>2, <1>5, <2>1
<1>6. CASE UNCHANGED vars
  BY <1>1, <1>6 DEF vars
<1>7. ASSUME NEW s \in Supervisors, SupervisorStep(s) PROVE Goal
  <2>1. ASSUME NEW r \in Runs, StartRun(s, r) PROVE Goal
    BY <1>2, <2>1 DEF StartRun
  <2>2. CASE FinishRun(s)
    <3> DEFINE r == supervises[s]
               row == EndedRow(run[r], verdict[s])
    <3>1. run' = [run EXCEPT ![r] = row] /\ run[r].owner = s
      BY <2>2 DEF FinishRun
    <3>2. CASE r \in Runs
      <4>1. row.owner = run[r].owner /\ row.status = verdict[s]
        BY <3>2 DEF EndedRow, TypeOK, RunRows
      <4> HIDE DEF row
      <4> QED
        BY <1>2, <3>1, <3>2, <4>1
    <3>3. CASE r \notin Runs
      BY <1>1, <3>1, <3>3 DEF TypeOK
    <3> QED
      BY <3>2, <3>3
  <2>3. CASE ReleaseRun(s)
    <3> DEFINE r == supervises[s]
    <3>1. r \in Runs
      BY <2>3 DEF ReleaseRun
    <3>2. CASE run[r].owner = s /\ ~WorkOutstanding(r)
      BY <1>5, <2>3, <3>1, <3>2 DEF ReleaseRun
    <3>3. CASE ~(run[r].owner = s /\ ~WorkOutstanding(r))
      BY <1>1, <2>3, <3>1, <3>3 DEF ReleaseRun, TypeOK
    <3> QED
      BY <3>2, <3>3
  <2> QED
    BY <1>1, <1>7, <2>1, <2>2, <2>3 DEF SupervisorStep, CheckIdle, JudgeRun, CrashSupervisor
<1>8. ASSUME NEW r \in Runs, RunStep(r) PROVE Goal
  <2>1. ASSUME NEW status \in OpenRunStatuses \cup {"SKIPPED"}, CreateRun(r, status)
        PROVE  Goal
    <3>1. status \in RunStatuses \ {"SUCCESS"} /\ run[r].status = "absent"
      BY <2>1 DEF CreateRun, OpenRunStatuses, RunStatuses, FinishedRunStatuses, MarkableStatuses
    <3> DEFINE row == CreatedRow(run[r], status)
    <3>2. row.owner = run[r].owner
      BY <3>1, CreatedRowType DEF TypeOK
    <3>3. run' = [run EXCEPT ![r] = row]
      BY <2>1 DEF CreateRun
    <3> HIDE DEF row
    <3> QED
      BY <1>2, <3>1, <3>2, <3>3
  <2>2. ASSUME NEW status \in {"IN-PROGRESS", "SKIPPED"}, AdmitRun(r, status) PROVE Goal
    BY <1>3, <2>2 DEF AdmitRun, OpenRunStatuses, RunStatuses, FinishedRunStatuses,
                      MarkableStatuses
  <2>3. CASE LapseRun(r)
    <3> DEFINE row == [run[r] EXCEPT !.lease = "expired"]
    <3>1. row.owner = run[r].owner /\ row.status = run[r].status
      BY DEF TypeOK, RunRows
    <3> QED
      BY <1>2, <2>3, <3>1 DEF LapseRun
  <2>4. CASE ReconcileRun(r)
    BY <1>5, <2>4 DEF ReconcileRun
  <2>5. ASSUME NEW status \in MarkableStatuses, MarkRun(r, status) PROVE Goal
    BY <1>2, <2>5 DEF MarkRun
  <2>6. CASE ReopenRun(r)
    BY <1>4, <2>6 DEF ReopenRun
  <2>7. CASE RefuseAdmission(r)
    BY <1>3, <2>7, StatusTypes DEF RefuseAdmission, MarkableStatuses
  <2> QED
    BY <1>8, <2>1, <2>2, <2>3, <2>4, <2>5, <2>6, <2>7 DEF RunStep
<1>9. ASSUME NEW r \in Runs, NEW t \in Tasks, TaskStep(r, t) PROVE Goal
  <2>1. ASSUME NEW status \in MarkableStatuses, MarkTask(r, t, status) PROVE Goal
    BY <1>1, <1>4, <2>1 DEF MarkTask
  <2> QED
    BY <1>1, <1>9, <2>1 DEF TaskStep, SkipTask, SettleHandedOff, ResetSkipped, QueueAttempt,
                            RetryAttempt, Enqueue
<1>10. ASSUME NEW r \in Runs, NEW t \in Tasks, NEW n \in Numbers, AttemptStep(r, t, n)
       PROVE  Goal
  BY <1>1, <1>10 DEF AttemptStep, BecomeDue, ClaimLocally, ClaimByAgent, StartAttempt,
                     FinishAttempt, CancelAttempt, LapseAttempt, LoseAttempt
<1>11. ASSUME NEW r \in Runs, NEW s \in ControlScopes, ControlStep(r, s) PROVE Goal
  <2>1. CASE AdvanceStop(r, s)
    <3>1. CASE s = WholeRun /\ run[r].status \in OpenRunStatuses /\ ~ScopeExecuting(r, s)
      <4>1. run' = [run EXCEPT ![r].status = "CANCELLED"]
        BY <2>1, <3>1 DEF AdvanceStop
      <4> QED
        BY <1>3, <4>1 DEF RunStatuses, FinishedRunStatuses
    <3>2. CASE ~(s = WholeRun /\ run[r].status \in OpenRunStatuses /\ ~ScopeExecuting(r, s))
      <4>1. run' = run \/ run' = [run EXCEPT ![r].status = run[r].status]
        BY <2>1, <3>2 DEF AdvanceStop
      <4>2. run' = run
        BY <4>1 DEF TypeOK, RunRows
      <4> QED
        BY <1>1, <4>2
    <3> QED
      BY <3>1, <3>2
  <2>2. CASE Recover(r, s)
    BY <1>1, <1>4, <2>2 DEF Recover
  <2> QED
    BY <1>1, <1>11, <2>1, <2>2 DEF ControlStep, Hold, Release, Stop
<1> QED
  BY <1>6, <1>7, <1>8, <1>9, <1>10, <1>11 DEF Next

-----------------------------------------------------------------------------
(* Ownership passes through NULL, and leaves a run only when nothing of it *)
(* can still execute: release_run_lease, expire_run_lease and reopen_run   *)
(* are the only statements that clear OWNER_ID.                            *)
THEOREM Yielding == Spec => OwnerYieldsOnlyIdleRuns
<1>1. TypeOK /\ [Next]_vars
        => [\A r \in Runs :
              run[r].owner # NoOwner /\ run'[r].owner # run[r].owner
                => run'[r].owner = NoOwner /\ ~WorkOutstanding(r)]_vars
  BY OwnershipChanges DEF OwnerMayChange
<1> QED
  BY <1>1, Typing, PTL DEF Spec, OwnerYieldsOnlyIdleRuns

(* A run in progress under an owner is ended only by that owner's judgement*)
(* or by a stop: no replaced supervisor, mark or reconciliation ends it.   *)
THEOREM OwnedEndings == Spec => OnlyTheOwnerEndsARun
<1>1. TypeOK /\ [Next]_vars
        => [\A r \in Runs :
              LET owner == run[r].owner
              IN  /\ run[r].status = "IN-PROGRESS"
                  /\ owner # NoOwner
                  /\ run'[r].status \notin {"IN-PROGRESS", "CANCELLED"}
                  => /\ supervises[owner] = r
                     /\ verdict[owner] = run'[r].status]_vars
  BY OwnershipChanges DEF OwnedRunMayEnd
<1> QED
  BY <1>1, Typing, PTL DEF Spec, OnlyTheOwnerEndsARun

-----------------------------------------------------------------------------
(* Publication.  What was published is older than the run's revision, or   *)
(* is that revision; then the run is either under repair, so that its next *)
(* success takes a new revision, or ended with no work done since.         *)
PublishedOnce(q) ==
    \/ published[q].revision < run[q].revision
    \/ published[q].revision = run[q].revision /\ run[q].repair
    \/ /\ published[q].revision = run[q].revision
       /\ run[q].status \in FinishedRunStatuses
       /\ ~published[q].rework

\* A step that publishes nothing, and the step that publishes.
PublishesNothing(q) ==
    /\ published'[q].revision = published[q].revision
    /\ published'[q].rework => published[q].rework \/ run[q].status = "IN-PROGRESS"
    /\ run'[q].revision = run[q].revision
    /\ run[q].repair => run'[q].repair
    /\ \/ run'[q].status = run[q].status
       \/ run[q].status \notin FinishedRunStatuses /\ run'[q].status # "SUCCESS"
       \/ run'[q].status \in FinishedRunStatuses \ {"SUCCESS"}
       \/ run'[q].repair /\ run'[q].status # "SUCCESS"

Publishes(q) ==
    /\ run'[q].status = "SUCCESS"
    /\ run'[q].revision = IF run[q].repair THEN run[q].revision + 1 ELSE run[q].revision
    /\ published'[q].revision = run'[q].revision
    /\ published'[q].rework = FALSE

\* Every step publishes the run, or leaves what was published behind it.
LEMMA RevisionChanges ==
    ASSUME TypeOK, [Next]_vars, NEW q \in Runs
    PROVE  PublishesNothing(q) \/ Publishes(q)
<1> DEFINE Goal == PublishesNothing(q) \/ Publishes(q)
<1>1. ASSUME run'[q] = run[q], published'[q] = published[q] PROVE Goal
  BY <1>1 DEF PublishesNothing
<1>2. ASSUME NEW r \in Runs, NEW row, run' = [run EXCEPT ![r] = row], UNCHANGED published,
             row.revision = run[r].revision,
             run[r].repair => row.repair,
             \/ row.status = run[r].status
             \/ run[r].status \notin FinishedRunStatuses /\ row.status # "SUCCESS"
             \/ row.status \in FinishedRunStatuses \ {"SUCCESS"}
             \/ row.repair /\ row.status # "SUCCESS"
      PROVE  Goal
  <2>1. CASE q = r
    <3>1. run'[q] = row
      BY <1>2, <2>1 DEF TypeOK
    <3> QED
      BY <1>2, <2>1, <3>1 DEF PublishesNothing
  <2>2. CASE q # r
    BY <1>1, <1>2, <2>2 DEF TypeOK
  <2> QED
    BY <2>1, <2>2
<1>3. ASSUME NEW r \in Runs, NEW status \in RunStatuses \ {"SUCCESS"}, UNCHANGED published,
             run' = [run EXCEPT ![r].status = status],
             run[r].status \notin FinishedRunStatuses \/ status \in FinishedRunStatuses
      PROVE  Goal
  <2> DEFINE row == [run[r] EXCEPT !.status = status]
  <2>1. /\ row.revision = run[r].revision
        /\ row.repair = run[r].repair
        /\ row.status = status
    BY DEF TypeOK, RunRows
  <2> QED
    BY <1>2, <1>3, <2>1
<1>4. ASSUME NEW r \in Runs, run' = [run EXCEPT ![r] = ReopenedRow(@)], UNCHANGED published
      PROVE  Goal
  <2>1. /\ ReopenedRow(run[r]).revision = run[r].revision
        /\ ReopenedRow(run[r]).repair
        /\ ReopenedRow(run[r]).status # "SUCCESS"
    BY DEF ReopenedRow, TypeOK, RunRows
  <2> QED
    BY <1>2, <1>4, <2>1
<1>5. ASSUME NEW r \in Runs, NEW s, UNCHANGED published,
             \/ run' = [run EXCEPT ![r] = UnownedRow(@)]
             \/ run' = [run EXCEPT ![r] = OwnedRow(@, s)]
      PROVE  Goal
  <2>1. ASSUME NEW row \in {UnownedRow(run[r]), OwnedRow(run[r], s)}
        PROVE  /\ row.revision = run[r].revision
               /\ row.repair = run[r].repair
               /\ row.status = run[r].status
    <3>1. run[r] \in RunRows
      BY DEF TypeOK
    <3>2. CASE row = UnownedRow(run[r])
      BY <3>1, <3>2 DEF UnownedRow, RunRows
    <3>3. CASE row = OwnedRow(run[r], s)
      BY <3>1, <3>3 DEF OwnedRow, RunRows
    <3> QED
      BY <2>1, <3>2, <3>3
  <2> QED
    BY <1>2, <1>5, <2>1
<1>6. ASSUME NEW r \in Runs, NEW status \in MarkableStatuses,
             run' = [run EXCEPT ![r] = EndedRow(@, status)], Publish(r, status)
      PROVE  Goal
  <2> DEFINE row == EndedRow(run[r], status)
  <2>1. /\ row.status = status
        /\ row.revision = IF status = "SUCCESS" /\ run[r].repair
                          THEN run[r].revision + 1 ELSE run[r].revision
        /\ status # "SUCCESS" => row.repair = run[r].repair
    <3> DEFINE revision == IF status = "SUCCESS" /\ run[r].repair
                           THEN run[r].revision + 1 ELSE run[r].revision
               repair == IF status = "SUCCESS" THEN FALSE ELSE run[r].repair
    <3>1. row = [run[r] EXCEPT !.status = status, !.revision = revision, !.repair = repair]
      BY DEF EndedRow
    <3>2. run[r] \in RunRows
      BY DEF TypeOK
    <3> HIDE DEF revision, repair, row
    <3>3. row.status = status /\ row.revision = revision /\ row.repair = repair
      BY <3>1, <3>2 DEF RunRows
    <3> QED
      BY <3>3 DEF revision, repair
  <2>2. /\ run'[q] = IF q = r THEN row ELSE run[q]
        /\ published'[q] = IF q = r /\ status = "SUCCESS"
                           THEN [revision |-> row.revision, rework |-> FALSE]
                           ELSE published[q]
    BY <1>6 DEF TypeOK, Publish
  <2> HIDE DEF row
  <2>3. CASE q # r
    BY <1>1, <2>2, <2>3
  <2>4. CASE q = r /\ status = "SUCCESS"
    BY <2>1, <2>2, <2>4 DEF Publishes
  <2>5. CASE q = r /\ status # "SUCCESS"
    <3>1. row.status \in FinishedRunStatuses \ {"SUCCESS"}
      BY <2>1, <2>5, StatusTypes
    <3> QED
      BY <2>1, <2>2, <2>5, <3>1 DEF PublishesNothing
  <2> QED
    BY <2>3, <2>4, <2>5
<1>7. CASE UNCHANGED vars
  BY <1>1, <1>7 DEF vars
<1>8. ASSUME NEW s \in Supervisors, SupervisorStep(s) PROVE Goal
  <2>1. CASE \E r \in Runs : StartRun(s, r)
    BY <1>5, <2>1 DEF StartRun
  <2>2. CASE FinishRun(s)
    <3>1. CASE supervises[s] \in Runs
      BY <1>6, <2>2, <3>1 DEF FinishRun
    <3>2. CASE supervises[s] \notin Runs
      BY <1>1, <2>2, <3>2 DEF FinishRun, Publish, TypeOK
    <3> QED
      BY <3>1, <3>2
  <2>3. CASE ReleaseRun(s)
    <3> DEFINE r == supervises[s]
    <3>1. r \in Runs /\ UNCHANGED published
      BY <2>3 DEF ReleaseRun
    <3>2. CASE run[r].owner = s /\ ~WorkOutstanding(r)
      BY <1>5, <2>3, <3>1, <3>2 DEF ReleaseRun
    <3>3. CASE ~(run[r].owner = s /\ ~WorkOutstanding(r))
      BY <1>1, <2>3, <3>1, <3>3 DEF ReleaseRun, TypeOK
    <3> QED
      BY <3>2, <3>3
  <2> QED
    BY <1>1, <1>8, <2>1, <2>2, <2>3 DEF SupervisorStep, CheckIdle, JudgeRun, CrashSupervisor
<1>9. ASSUME NEW r \in Runs, RunStep(r) PROVE Goal
  <2>1. ASSUME NEW status \in OpenRunStatuses \cup {"SKIPPED"}, CreateRun(r, status)
        PROVE  Goal
    <3>1. status \in RunStatuses \ {"SUCCESS"} /\ run[r].status = "absent"
      BY <2>1 DEF CreateRun, OpenRunStatuses, RunStatuses, FinishedRunStatuses, MarkableStatuses
    <3> DEFINE row == CreatedRow(run[r], status)
    <3>2. /\ row.revision = run[r].revision
          /\ row.repair = run[r].repair
          /\ row.status = status
      BY <3>1, CreatedRowType DEF TypeOK
    <3>3. run' = [run EXCEPT ![r] = row] /\ UNCHANGED published
      BY <2>1 DEF CreateRun
    <3>4. run[r].status \notin FinishedRunStatuses
      BY <3>1 DEF FinishedRunStatuses, MarkableStatuses
    <3> HIDE DEF row
    <3> QED
      BY <1>2, <3>1, <3>2, <3>3, <3>4
  <2>2. ASSUME NEW status \in {"IN-PROGRESS", "SKIPPED"}, AdmitRun(r, status) PROVE Goal
    BY <1>3, <2>2 DEF AdmitRun, OpenRunStatuses, RunStatuses, FinishedRunStatuses,
                      MarkableStatuses
  <2>3. CASE LapseRun(r)
    <3> DEFINE row == [run[r] EXCEPT !.lease = "expired"]
    <3>1. /\ row.revision = run[r].revision
          /\ row.repair = run[r].repair
          /\ row.status = run[r].status
      BY DEF TypeOK, RunRows
    <3> QED
      BY <1>2, <2>3, <3>1 DEF LapseRun
  <2>4. CASE ReconcileRun(r)
    BY <1>5, <2>4 DEF ReconcileRun
  <2>5. ASSUME NEW status \in MarkableStatuses, MarkRun(r, status) PROVE Goal
    BY <1>6, <2>5 DEF MarkRun
  <2>6. CASE ReopenRun(r)
    BY <1>4, <2>6 DEF ReopenRun
  <2>7. CASE RefuseAdmission(r)
    BY <1>3, <2>7, StatusTypes DEF RefuseAdmission, MarkableStatuses
  <2> QED
    BY <1>9, <2>1, <2>2, <2>3, <2>4, <2>5, <2>6, <2>7 DEF RunStep
<1>10. ASSUME NEW r \in Runs, NEW t \in Tasks, TaskStep(r, t) PROVE Goal
  <2>1. ASSUME NEW status \in MarkableStatuses, MarkTask(r, t, status) PROVE Goal
    BY <1>1, <1>4, <2>1 DEF MarkTask
  <2> QED
    BY <1>1, <1>10, <2>1 DEF TaskStep, SkipTask, SettleHandedOff, ResetSkipped, QueueAttempt,
                             RetryAttempt, Enqueue
<1>11. ASSUME NEW r \in Runs, NEW t \in Tasks, NEW n \in Numbers, AttemptStep(r, t, n)
       PROVE  Goal
  <2>1. ASSUME NEW outcome \in ReportedOutcomes, FinishAttempt(r, t, n, outcome) PROVE Goal
    <3> DEFINE rework == published[r].rework
                         \/ (outcome = "SUCCESS" /\ run[r].status = "IN-PROGRESS")
    <3>1. UNCHANGED run /\ published' = [published EXCEPT ![r].rework = rework]
      BY <2>1 DEF FinishAttempt
    <3>2. published'[q].revision = published[q].revision
      BY <3>1 DEF TypeOK
    <3>3. published'[q].rework = IF q = r THEN rework ELSE published[q].rework
      BY <3>1 DEF TypeOK
    <3> QED
      BY <3>1, <3>2, <3>3 DEF PublishesNothing
  <2> QED
    BY <1>1, <1>11, <2>1 DEF AttemptStep, BecomeDue, ClaimLocally, ClaimByAgent, StartAttempt,
                             CancelAttempt, LapseAttempt, LoseAttempt
<1>12. ASSUME NEW r \in Runs, NEW s \in ControlScopes, ControlStep(r, s) PROVE Goal
  <2>1. CASE AdvanceStop(r, s)
    <3>1. CASE s = WholeRun /\ run[r].status \in OpenRunStatuses /\ ~ScopeExecuting(r, s)
      <4>1. run' = [run EXCEPT ![r].status = "CANCELLED"] /\ UNCHANGED published
        BY <2>1, <3>1 DEF AdvanceStop
      <4> QED
        BY <1>3, <4>1 DEF RunStatuses, FinishedRunStatuses
    <3>2. CASE ~(s = WholeRun /\ run[r].status \in OpenRunStatuses /\ ~ScopeExecuting(r, s))
      <4>1. run' = run \/ run' = [run EXCEPT ![r].status = run[r].status]
        BY <2>1, <3>2 DEF AdvanceStop
      <4>2. run' = run /\ UNCHANGED published
        BY <2>1, <4>1 DEF TypeOK, RunRows, AdvanceStop
      <4> QED
        BY <1>1, <4>2
    <3> QED
      BY <3>1, <3>2
  <2>2. CASE Recover(r, s)
    BY <1>1, <1>4, <2>2 DEF Recover
  <2> QED
    BY <1>1, <1>12, <2>1, <2>2 DEF ControlStep, Hold, Release, Stop
<1> QED
  BY <1>7, <1>8, <1>9, <1>10, <1>11, <1>12 DEF Next

PublicationInv == \A q \in Runs : PublishedOnce(q)

\* A published revision stays behind, or names the output it was given to.
LEMMA PublicationStep == TypeOK /\ PublicationInv /\ [Next]_vars => PublicationInv'
<1> SUFFICES ASSUME TypeOK, PublicationInv, [Next]_vars, NEW q \in Runs
             PROVE  PublishedOnce(q)'
  BY DEF PublicationInv
<1>1. PublishedOnce(q)
  BY DEF PublicationInv
<1>2. CASE Publishes(q)
  BY <1>2, StatusTypes DEF Publishes, PublishedOnce, FinishedRunStatuses, MarkableStatuses
<1>3. CASE PublishesNothing(q)
  BY <1>1, <1>3, StatusTypes DEF PublishesNothing, PublishedOnce
<1> QED
  BY <1>2, <1>3, RevisionChanges

(* A run republished after a repair carries a later OUTPUT_REVISION: one   *)
(* revision never names two outputs (finish_run, mark_run, reopen_run).    *)
THEOREM Republishing == Spec => ReworkGetsNewRevision
<1>1. Init => PublicationInv
  BY DEF Init, PublicationInv, PublishedOnce
<1>2. ASSUME TypeOK, PublicationInv, [Next]_vars
      PROVE  [\A r \in Runs :
                run'[r].status = "SUCCESS" /\ run[r].status # "SUCCESS" /\ published[r].rework
                  => run'[r].revision > published[r].revision]_vars
  <2>1. ASSUME NEW r \in Runs, run'[r].status = "SUCCESS", run[r].status # "SUCCESS",
               published[r].rework
        PROVE  run'[r].revision > published[r].revision
    <3>1. Publishes(r)
      BY <1>2, <2>1, RevisionChanges DEF PublishesNothing
    <3>2. run[r].revision \in Nat /\ published[r].revision \in Nat
      BY <1>2 DEF TypeOK, RunRows
    <3>3. PublishedOnce(r)
      BY <1>2 DEF PublicationInv
    <3> QED
      BY <2>1, <3>1, <3>2, <3>3 DEF Publishes, PublishedOnce
  <2> QED
    BY <2>1
<1> QED
  BY <1>1, <1>2, PublicationStep, Typing, PTL DEF Spec, ReworkGetsNewRevision
=============================================================================
