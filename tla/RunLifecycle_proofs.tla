------------------------ MODULE RunLifecycle_proofs ------------------------
(* Proofs about RunLifecycle, for any runs, tasks, supervisors and bounds. *)
EXTENDS RunLifecycle, TLAPS

(* The task row takes one of its statuses from every written attempt.      *)
LEMMA SummaryType ==
    ASSUME NEW s \in AttemptStatuses \ {"absent"}
    PROVE  Summary(s) \in TaskStatuses \ {"absent"}
BY DEF Summary, AttemptStatuses, Active, Executing, Ended, ReportedOutcomes,
       TaskStatuses, FinishedRunStatuses, MarkableStatuses

(* Ending a run changes its status, repair flag and revision only.         *)
LEMMA EndedRowType ==
    ASSUME NEW row \in RunRows, NEW status \in RunStatuses
    PROVE  /\ EndedRow(row, status) \in RunRows
           /\ EndedRow(row, status).status = status
           /\ EndedRow(row, status).owner = row.owner
<1> DEFINE revision == IF status = "SUCCESS" /\ row.repair THEN row.revision + 1 ELSE row.revision
           repair == IF status = "SUCCESS" THEN FALSE ELSE row.repair
<1>1. revision \in Nat
  BY DEF RunRows
<1>2. repair \in BOOLEAN
  BY DEF RunRows
<1>3. EndedRow(row, status) =
        [row EXCEPT !.status = status, !.revision = revision, !.repair = repair]
  BY DEF EndedRow
<1> HIDE DEF revision, repair
<1> QED
  BY <1>1, <1>2, <1>3 DEF RunRows

\* Admitting or cancelling a run writes a row of its type.
LEMMA StatusRowType ==
    ASSUME NEW row \in RunRows, NEW status \in RunStatuses
    PROVE  /\ [row EXCEPT !.status = status] \in RunRows
           /\ [row EXCEPT !.status = status].status = status
BY DEF RunRows

\* So does its creation.
LEMMA CreatedRowType ==
    ASSUME NEW row \in RunRows, NEW status \in RunStatuses
    PROVE  /\ CreatedRow(row, status) \in RunRows
           /\ CreatedRow(row, status).status = status
           /\ CreatedRow(row, status).owner = row.owner
           /\ CreatedRow(row, status).lease = row.lease
           /\ CreatedRow(row, status).repair = row.repair
           /\ CreatedRow(row, status).revision = row.revision
<1>1. (status = "QUEUED") \in BOOLEAN
  OBVIOUS
<1> QED
  BY <1>1 DEF CreatedRow, RunRows

\* So does the lapse of its lease.
LEMMA LeaseRowType ==
    ASSUME NEW row \in RunRows, NEW lease \in Leases
    PROVE  /\ [row EXCEPT !.lease = lease] \in RunRows
           /\ [row EXCEPT !.lease = lease].status = row.status
BY DEF RunRows

\* A supervisor that takes a run leaves its status alone.
LEMMA OwnedRowType ==
    ASSUME NEW row \in RunRows, NEW s \in Supervisors
    PROVE  /\ OwnedRow(row, s) \in RunRows
           /\ OwnedRow(row, s).status = row.status
BY DEF OwnedRow, RunRows, Leases

(* Reopening and releasing a run write rows of its type.                   *)
LEMMA UnownedRowType ==
    ASSUME NEW row \in RunRows
    PROVE  /\ UnownedRow(row) \in RunRows
           /\ UnownedRow(row).status = row.status
BY DEF UnownedRow, RunRows, Leases

\* A reopened run is in progress.
LEMMA ReopenedRowType ==
    ASSUME NEW row \in RunRows
    PROVE  /\ ReopenedRow(row) \in RunRows
           /\ ReopenedRow(row).status = "IN-PROGRESS"
BY DEF ReopenedRow, RunRows, RunStatuses, OpenRunStatuses, Leases

(* Moving or claiming an attempt writes the status it names.               *)
LEMMA MovedRowType ==
    ASSUME NEW row \in AttemptRows, NEW to \in AttemptStatuses \ {"absent"}
    PROVE  /\ MovedRow(row, to) \in AttemptRows
           /\ MovedRow(row, to).status = to
<1>1. CASE to \in Ended
  BY <1>1 DEF MovedRow, NoAttempt, AttemptRows, Leases
<1>2. CASE to \notin Ended
  BY <1>2 DEF MovedRow, AttemptRows
<1> QED
  BY <1>1, <1>2

\* A task row brought in line with an attempt carries its status and number.
LEMMA SyncedRowType ==
    ASSUME NEW row \in TaskRows, NEW status \in TaskStatuses, NEW n \in Nat
    PROVE  /\ SyncedRow(row, status, n) \in TaskRows
           /\ SyncedRow(row, status, n).status = status
           /\ SyncedRow(row, status, n).count = n
BY DEF SyncedRow, TaskRows

\* A task that is settled or cancelled keeps its attempt count.
LEMMA TaskStatusRowType ==
    ASSUME NEW row \in TaskRows, NEW status \in TaskStatuses
    PROVE  /\ [row EXCEPT !.status = status] \in TaskRows
           /\ [row EXCEPT !.status = status].status = status
           /\ [row EXCEPT !.status = status].count = row.count
BY DEF TaskRows

\* A due time that passes leaves the attempt queued.
LEMMA DueRowType ==
    ASSUME NEW row \in AttemptRows
    PROVE  /\ [row EXCEPT !.due = "due"] \in AttemptRows
           /\ [row EXCEPT !.due = "due"].status = row.status
BY DEF AttemptRows

\* A lease that lapses leaves the attempt in its status.
LEMMA LapsedRowType ==
    ASSUME NEW row \in AttemptRows
    PROVE  /\ [row EXCEPT !.lease = "expired"] \in AttemptRows
           /\ [row EXCEPT !.lease = "expired"].status = row.status
BY DEF AttemptRows, Leases

\* A claim writes CLAIMED.
LEMMA ClaimedRowType ==
    ASSUME NEW row \in AttemptRows
    PROVE  /\ ClaimedRow(row) \in AttemptRows
           /\ ClaimedRow(row).status = "CLAIMED"
BY DEF ClaimedRow, AttemptRows, AttemptStatuses, Active, Executing, Leases

\* The publication history keeps its type when a run ends.
LEMMA PublishType ==
    ASSUME TypeOK, NEW r, NEW status \in RunStatuses, Publish(r, status)
    PROVE  published' \in [Runs -> [revision : Nat, rework : BOOLEAN]]
<1>1. r \in Runs => EndedRow(run[r], status).revision \in Nat
  BY EndedRowType DEF TypeOK, RunRows
<1> QED
  BY <1>1 DEF TypeOK, Publish

\* Moving an attempt keeps the ledger and the task rows typed.
LEMMA MoveAttemptType ==
    ASSUME TypeOK, NEW r \in Runs, NEW t \in Tasks, NEW n \in Numbers,
           NEW to \in AttemptStatuses \ {"absent"}, MoveAttempt(r, t, n, to)
    PROVE  /\ task' \in [Runs -> [Tasks -> TaskRows]]
           /\ attempt' \in [Runs -> [Tasks -> [Numbers -> AttemptRows]]]
<1>1. Summary(to) \in TaskStatuses
  BY SummaryType
<1>2. n \in Nat
  BY ConstantsAssumption DEF Numbers
<1>3. MovedRow(attempt[r][t][n], to) \in AttemptRows
  BY MovedRowType DEF TypeOK
<1>4. SyncedRow(task[r][t], Summary(to), n) \in TaskRows
  BY <1>1, <1>2, SyncedRowType DEF TypeOK
<1> QED
  BY <1>3, <1>4 DEF TypeOK, MoveAttempt

-----------------------------------------------------------------------------
(* The kinds of statuses, all of them typed.                               *)
LEMMA StatusTypes ==
    /\ MarkableStatuses \subseteq FinishedRunStatuses
    /\ FinishedRunStatuses \subseteq RunStatuses
    /\ FinishedRunStatuses \subseteq TaskStatuses
    /\ OpenRunStatuses \subseteq RunStatuses
    /\ ReportedOutcomes \cup {"LOST"} \subseteq Ended
    /\ Active \cup Ended \subseteq AttemptStatuses
    /\ "absent" \notin Active \cup Ended
    /\ Executing \subseteq Active
    /\ Active \cap Ended = {}
    /\ "IN-PROGRESS" \in RunStatuses \cap TaskStatuses \cap OpenRunStatuses
    /\ "IN-PROGRESS" \notin FinishedRunStatuses
    /\ "CANCELLED" \in FinishedRunStatuses \ MarkableStatuses
BY DEF MarkableStatuses, FinishedRunStatuses, RunStatuses, OpenRunStatuses,
       TaskStatuses, ReportedOutcomes, Ended, Active, Executing, AttemptStatuses

\* The empty tables are typed.
LEMMA TypeInit == Init => TypeOK
BY ConstantsAssumption
   DEF Init, TypeOK, RunRows, TaskRows, AttemptRows, NoTask, NoAttempt, RunStatuses,
       TaskStatuses, AttemptStatuses, Leases

\* Creation, admission, reconciliation, marks and reopening keep the types.
LEMMA RunStepType ==
    ASSUME TypeOK, NEW r \in Runs, RunStep(r)
    PROVE  TypeOK'
<1>1. ASSUME NEW status \in OpenRunStatuses \cup {"SKIPPED"}, CreateRun(r, status)
      PROVE  TypeOK'
  <2>1. status \in RunStatuses
    BY DEF OpenRunStatuses, RunStatuses, FinishedRunStatuses, MarkableStatuses
  <2> QED
    BY <1>1, <2>1, CreatedRowType DEF CreateRun, TypeOK
<1>2. ASSUME NEW status \in {"IN-PROGRESS", "SKIPPED"}, AdmitRun(r, status)
      PROVE  TypeOK'
  <2>1. status \in RunStatuses
    BY DEF OpenRunStatuses, RunStatuses, FinishedRunStatuses, MarkableStatuses
  <2> QED
    BY <1>2, <2>1, StatusRowType DEF AdmitRun, TypeOK
<1>3. ASSUME LapseRun(r) PROVE TypeOK'
  BY <1>3, LeaseRowType DEF LapseRun, TypeOK, Leases
<1>4. ASSUME ReconcileRun(r) PROVE TypeOK'
  BY <1>4, UnownedRowType DEF ReconcileRun, TypeOK
<1>5. ASSUME NEW status \in MarkableStatuses, MarkRun(r, status)
      PROVE  TypeOK'
  <2>1. status \in RunStatuses
    BY StatusTypes
  <2>2. published' \in [Runs -> [revision : Nat, rework : BOOLEAN]]
    BY <1>5, <2>1, PublishType DEF MarkRun
  <2>3. EndedRow(run[r], status) \in RunRows
    BY <2>1, EndedRowType DEF TypeOK
  <2> QED
    BY <1>5, <2>2, <2>3 DEF MarkRun, TypeOK
<1>6. ASSUME ReopenRun(r) PROVE TypeOK'
  BY <1>6, ReopenedRowType DEF ReopenRun, TypeOK
<1>7. ASSUME RefuseAdmission(r) PROVE TypeOK'
  BY <1>7, StatusTypes, StatusRowType DEF RefuseAdmission, TypeOK
<1> QED
  BY <1>1, <1>2, <1>3, <1>4, <1>5, <1>6, <1>7 DEF RunStep

\* So do the steps of a supervisor.
LEMMA SupervisorStepType ==
    ASSUME TypeOK, NEW s \in Supervisors, SupervisorStep(s)
    PROVE  TypeOK'
<1> DEFINE r == supervises[s]
<1>1. ASSUME NEW q \in Runs, StartRun(s, q) PROVE TypeOK'
  BY <1>1, OwnedRowType DEF StartRun, TypeOK
<1>2. ASSUME CheckIdle(s) PROVE TypeOK'
  BY <1>2 DEF CheckIdle, TypeOK
<1>3. ASSUME JudgeRun(s) PROVE TypeOK'
  <2>1. Judgement(r) \in MarkableStatuses
    BY DEF Judgement, MarkableStatuses
  <2> QED
    BY <1>3, <2>1 DEF JudgeRun, TypeOK
<1>4. ASSUME FinishRun(s) PROVE TypeOK'
  <2>1. verdict[s] \in RunStatuses
    BY <1>4, StatusTypes DEF FinishRun
  <2>2. published' \in [Runs -> [revision : Nat, rework : BOOLEAN]]
    BY <1>4, <2>1, PublishType DEF FinishRun
  <2>3. r \in Runs => EndedRow(run[r], verdict[s]) \in RunRows
    BY <2>1, EndedRowType DEF TypeOK
  <2> QED
    BY <1>4, <2>2, <2>3 DEF FinishRun, TypeOK
<1>5. ASSUME ReleaseRun(s) PROVE TypeOK'
  BY <1>5, UnownedRowType DEF ReleaseRun, TypeOK
<1>6. ASSUME CrashSupervisor(s) PROVE TypeOK'
  BY <1>6 DEF CrashSupervisor, TypeOK
<1> QED
  BY <1>1, <1>2, <1>3, <1>4, <1>5, <1>6 DEF SupervisorStep

\* Reserving a number and inserting a queued attempt keeps the types.
LEMMA EnqueueType ==
    ASSUME TypeOK, NEW r \in Runs, NEW t \in Tasks, NEW due \in {"none", "future"},
           Enqueue(r, t, due)
    PROVE  TypeOK'
<1> DEFINE n == NextNumber(r, t)
<1>1. n \in Numbers /\ n \in Nat
  BY ConstantsAssumption DEF Enqueue, Numbers
<1>2. [status |-> "QUEUED", lease |-> "none", due |-> due] \in AttemptRows
  BY DEF AttemptRows, AttemptStatuses, Active, Leases
<1>3. [status |-> "IN-PROGRESS", count |-> n, marked |-> FALSE] \in TaskRows
  BY <1>1 DEF TaskRows, TaskStatuses
<1> HIDE DEF n
<1>4. /\ attempt' = [attempt EXCEPT ![r][t][n] =
                         [status |-> "QUEUED", lease |-> "none", due |-> due]]
      /\ task' = [task EXCEPT ![r][t] =
                      [status |-> "IN-PROGRESS", count |-> n, marked |-> FALSE]]
      /\ UNCHANGED <<run, fence, supervises, verdict, published>>
  BY DEF Enqueue, n
<1> QED
  BY <1>1, <1>2, <1>3, <1>4 DEF TypeOK

\* So do skips, settlements, resets and marks of a task.
LEMMA TaskStepType ==
    ASSUME TypeOK, NEW r \in Runs, NEW t \in Tasks, TaskStep(r, t)
    PROVE  TypeOK'
<1>1. NoTask \in TaskRows
  BY DEF NoTask, TaskRows, TaskStatuses
<1>2. ASSUME SkipTask(r, t) PROVE TypeOK'
  <2>1. SyncedRow(task[r][t], "SKIPPED", 1) \in TaskRows
    BY SyncedRowType DEF TypeOK, TaskStatuses, FinishedRunStatuses, MarkableStatuses
  <2> QED
    BY <1>2, <2>1 DEF SkipTask, TypeOK
<1>3. ASSUME NEW status \in FinishedRunStatuses, SettleHandedOff(r, t, status)
      PROVE  TypeOK'
  <2>1. [task[r][t] EXCEPT !.status = status] \in TaskRows
    BY StatusTypes, TaskStatusRowType DEF TypeOK
  <2> QED
    BY <1>3, <2>1 DEF SettleHandedOff, TypeOK
<1>4. ASSUME ResetSkipped(r, t) PROVE TypeOK'
  BY <1>1, <1>4 DEF ResetSkipped, TypeOK
<1>5. ASSUME NEW status \in MarkableStatuses, MarkTask(r, t, status)
      PROVE  TypeOK'
  <2> DEFINE count == IF task[r][t].status = "absent" THEN 1 ELSE task[r][t].count
             marked == [status |-> status, marked |-> TRUE, count |-> count]
  <2>1. marked \in TaskRows
    BY StatusTypes DEF TypeOK, TaskRows
  <2>2. task' = [task EXCEPT ![r] = [u \in Tasks |->
            IF u = t THEN marked ELSE IF Resettable(r, u) THEN NoTask ELSE task[r][u]]]
    BY <1>5 DEF MarkTask
  <2> HIDE DEF marked
  <2>3. task' \in [Runs -> [Tasks -> TaskRows]]
    BY <1>1, <2>1, <2>2 DEF TypeOK
  <2>4. run' \in [Runs -> RunRows]
    <3>1. run' = run \/ run' = [run EXCEPT ![r] = ReopenedRow(run[r])]
      BY <1>5 DEF MarkTask
    <3>2. ReopenedRow(run[r]) \in RunRows
      BY ReopenedRowType DEF TypeOK
    <3> QED
      BY <3>1, <3>2 DEF TypeOK
  <2> QED
    BY <1>5, <2>3, <2>4 DEF MarkTask, TypeOK
<1>6. ASSUME QueueAttempt(r, t) PROVE TypeOK'
  BY <1>6, EnqueueType DEF QueueAttempt
<1>7. ASSUME RetryAttempt(r, t) PROVE TypeOK'
  BY <1>7, EnqueueType DEF RetryAttempt
<1> QED
  BY <1>2, <1>3, <1>4, <1>5, <1>6, <1>7 DEF TaskStep

\* So do the claims, reports, cancellations and losses of an attempt.
LEMMA AttemptStepType ==
    ASSUME TypeOK, NEW r \in Runs, NEW t \in Tasks, NEW n \in Numbers,
           AttemptStep(r, t, n)
    PROVE  TypeOK'
<1>1. n \in Nat
  BY ConstantsAssumption DEF Numbers
<1>2. ASSUME BecomeDue(r, t, n) PROVE TypeOK'
  <2>1. [attempt[r][t][n] EXCEPT !.due = "due"] \in AttemptRows
    BY DueRowType DEF TypeOK
  <2> QED
    BY <1>2, <2>1 DEF BecomeDue, TypeOK
<1>3. ASSUME ClaimLocally(r, t, n) PROVE TypeOK'
  <2>1. SyncedRow(task[r][t], Summary("CLAIMED"), n) \in TaskRows
    <3>1. Summary("CLAIMED") \in TaskStatuses
      BY SummaryType DEF AttemptStatuses, Active, Executing
    <3> QED
      BY <1>1, <3>1, SyncedRowType DEF TypeOK
  <2> QED
    BY <1>3, <2>1, ClaimedRowType DEF ClaimLocally, TypeOK
<1>4. ASSUME ClaimByAgent(r, t, n) PROVE TypeOK'
  BY <1>4, ClaimedRowType DEF ClaimByAgent, TypeOK
<1>5. ASSUME NEW to \in AttemptStatuses \ {"absent"}, MoveAttempt(r, t, n, to),
             UNCHANGED <<run, fence, supervises, verdict>>,
             published' \in [Runs -> [revision : Nat, rework : BOOLEAN]]
      PROVE  TypeOK'
  BY <1>5, MoveAttemptType DEF TypeOK
<1>6. ASSUME StartAttempt(r, t, n) PROVE TypeOK'
  <2>1. "RUNNING" \in AttemptStatuses \ {"absent"}
    BY DEF AttemptStatuses, Active, Executing
  <2> QED
    BY <1>5, <1>6, <2>1 DEF StartAttempt, TypeOK
<1>7. ASSUME NEW outcome \in ReportedOutcomes, FinishAttempt(r, t, n, outcome)
      PROVE  TypeOK'
  <2>1. outcome \in AttemptStatuses \ {"absent"}
    BY StatusTypes
  <2>2. PICK rework \in BOOLEAN :
          published' = [published EXCEPT ![r].rework = rework]
    BY <1>7 DEF FinishAttempt, TypeOK
  <2>3. published' \in [Runs -> [revision : Nat, rework : BOOLEAN]]
    BY <2>2 DEF TypeOK
  <2> QED
    BY <1>5, <1>7, <2>1, <2>3 DEF FinishAttempt
<1>8. ASSUME CancelAttempt(r, t, n) PROVE TypeOK'
  <2>1. "CANCELLED" \in AttemptStatuses \ {"absent"}
    BY DEF AttemptStatuses, Ended, ReportedOutcomes
  <2> QED
    BY <1>5, <1>8, <2>1 DEF CancelAttempt, TypeOK
<1>9. ASSUME LapseAttempt(r, t, n) PROVE TypeOK'
  <2>1. [attempt[r][t][n] EXCEPT !.lease = "expired"] \in AttemptRows
    BY LapsedRowType DEF TypeOK
  <2> QED
    BY <1>9, <2>1 DEF LapseAttempt, TypeOK
<1>10. ASSUME LoseAttempt(r, t, n) PROVE TypeOK'
  <2>1. "LOST" \in AttemptStatuses \ {"absent"}
    BY DEF AttemptStatuses, Ended
  <2> QED
    BY <1>5, <1>10, <2>1 DEF LoseAttempt, TypeOK
<1> QED
  BY <1>2, <1>3, <1>4, <1>6, <1>7, <1>8, <1>9, <1>10 DEF AttemptStep

\* So do controls and their completion.
LEMMA ControlStepType ==
    ASSUME TypeOK, NEW r \in Runs, NEW s \in ControlScopes, ControlStep(r, s)
    PROVE  TypeOK'
<1>1. s \in Scopes
  BY ConstantsAssumption DEF Scopes
<1>2. ASSUME Hold(r, s) \/ Release(r, s) \/ Stop(r, s) PROVE TypeOK'
  <2>1. PICK f \in {"none", "HOLD", "STOP"} : fence' = [fence EXCEPT ![r][s] = f]
    BY <1>2 DEF Hold, Release, Stop
  <2>2. fence' \in [Runs -> [Scopes -> {"none", "HOLD", "STOP", "STOPPED"}]]
    BY <1>1, <2>1 DEF TypeOK
  <2>3. UNCHANGED <<run, task, attempt, supervises, verdict, published>>
    BY <1>2 DEF Hold, Release, Stop
  <2> QED
    BY <2>2, <2>3 DEF TypeOK
<1>3. ASSUME AdvanceStop(r, s) PROVE TypeOK'
  <2> DEFINE queued(t) == {n \in Numbers : t \in InScope(s) /\ StatusOf(r, t, n) = "QUEUED"}
             row(t, n) == IF n \in queued(t) THEN MovedRow(attempt[r][t][n], "CANCELLED")
                          ELSE attempt[r][t][n]
             synced(t) == IF queued(t) # {}
                          THEN [task[r][t] EXCEPT !.status = Summary("CANCELLED")]
                          ELSE task[r][t]
  <2>1. "CANCELLED" \in AttemptStatuses \ {"absent"}
    BY DEF AttemptStatuses, Ended, ReportedOutcomes
  <2>2. \A t \in Tasks, n \in Numbers : row(t, n) \in AttemptRows
    BY <2>1, MovedRowType DEF TypeOK
  <2>3. \A t \in Tasks : synced(t) \in TaskRows
    <3>1. Summary("CANCELLED") \in TaskStatuses
      BY <2>1, SummaryType
    <3>2. ASSUME NEW t \in Tasks
          PROVE  [task[r][t] EXCEPT !.status = Summary("CANCELLED")] \in TaskRows
      BY <3>1, TaskStatusRowType DEF TypeOK
    <3> QED
      BY <3>2 DEF TypeOK
  <2>4. /\ attempt' = [attempt EXCEPT ![r] = [t \in Tasks |-> [n \in Numbers |-> row(t, n)]]]
        /\ task' = [task EXCEPT ![r] = [t \in Tasks |-> synced(t)]]
    BY <1>3 DEF AdvanceStop
  <2> HIDE DEF row, synced
  <2>5. /\ attempt' \in [Runs -> [Tasks -> [Numbers -> AttemptRows]]]
        /\ task' \in [Runs -> [Tasks -> TaskRows]]
    BY <2>2, <2>3, <2>4 DEF TypeOK
  <2>6. run' \in [Runs -> RunRows]
    <3> DEFINE status == IF s = WholeRun /\ run[r].status \in OpenRunStatuses
                         THEN "CANCELLED" ELSE run[r].status
    <3>1. status \in RunStatuses
      BY StatusTypes DEF TypeOK, RunRows
    <3>2. run' = run \/ run' = [run EXCEPT ![r].status = status]
      BY <1>3 DEF AdvanceStop
    <3> HIDE DEF status
    <3>3. [run[r] EXCEPT !.status = status] \in RunRows
      BY <3>1, StatusRowType DEF TypeOK
    <3> QED
      BY <3>2, <3>3 DEF TypeOK
  <2>7. fence' \in [Runs -> [Scopes -> {"none", "HOLD", "STOP", "STOPPED"}]]
    <3>1. fence' = fence \/ fence' = [fence EXCEPT ![r][s] = "STOPPED"]
      BY <1>3 DEF AdvanceStop
    <3>2. CASE fence' = fence
      BY <3>2 DEF TypeOK
    <3>3. CASE fence' = [fence EXCEPT ![r][s] = "STOPPED"]
      BY <1>1, <3>3 DEF TypeOK
    <3> QED
      BY <3>1, <3>2, <3>3
  <2>8. UNCHANGED <<supervises, verdict, published>>
    BY <1>3 DEF AdvanceStop
  <2> QED
    BY <2>5, <2>6, <2>7, <2>8 DEF TypeOK
<1>4. ASSUME Recover(r, s) PROVE TypeOK'
  <2>1. run' = run \/ run' = [run EXCEPT ![r] = ReopenedRow(run[r])]
    BY <1>4 DEF Recover
  <2>2. ReopenedRow(run[r]) \in RunRows
    BY ReopenedRowType DEF TypeOK
  <2>3. run' \in [Runs -> RunRows]
    BY <2>1, <2>2 DEF TypeOK
  <2>4. fence' \in [Runs -> [Scopes -> {"none", "HOLD", "STOP", "STOPPED"}]]
    BY <1>1, <1>4 DEF Recover, TypeOK
  <2> QED
    BY <1>4, <2>3, <2>4 DEF Recover, TypeOK
<1> QED
  BY <1>2, <1>3, <1>4 DEF ControlStep

\* Every step keeps the types.
LEMMA TypeStep == TypeOK /\ [Next]_vars => TypeOK'
<1> SUFFICES ASSUME TypeOK, [Next]_vars PROVE TypeOK'
  OBVIOUS
<1>1. CASE UNCHANGED vars
  BY <1>1 DEF vars, TypeOK
<1>2. CASE Next
  BY <1>2, RunStepType, SupervisorStepType, TaskStepType, AttemptStepType, ControlStepType
     DEF Next
<1> QED
  BY <1>1, <1>2

(* Every row of the Engine DB keeps its type, whatever the interleaving.   *)
THEOREM Typing == Spec => []TypeOK
BY TypeInit, TypeStep, PTL DEF Spec
=============================================================================
