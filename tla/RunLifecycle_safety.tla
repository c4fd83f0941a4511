------------------------ MODULE RunLifecycle_safety ------------------------
(* The safety of RunLifecycle, proved for any runs, tasks, supervisors and *)
(* bounds.  The first lemmas say what a step may do to an attempt, to a    *)
(* fence and to a run; the theorems follow from these and from TypeOK.     *)
EXTENDS RunLifecycle_proofs

(* A new attempt appears only unfenced, in a run in progress, and where no *)
(* other attempt of the task is active.                                    *)
Admitted(r, t, n) ==
    /\ StatusOf(r, t, n) = "absent"
    /\ attempt'[r][t][n].status = "QUEUED"
    /\ ~Fenced(r, t)
    /\ ~HasActive(r, t)
    /\ run[r].status = "IN-PROGRESS"
    /\ UNCHANGED <<run, fence>>

(* An attempt that exists changes only while it is active.                 *)
Moved(r, t, n) ==
    /\ StatusOf(r, t, n) \in Active
    /\ attempt'[r][t][n].status # "absent"

AttemptMayChange(r, t, n) ==
    attempt'[r][t][n] = attempt[r][t][n] \/ Moved(r, t, n) \/ Admitted(r, t, n)

\* A queued attempt appears only where there was none, in an unfenced task of a run in progress.
LEMMA EnqueueChanges ==
    ASSUME TypeOK, NEW r \in Runs, NEW t \in Tasks, NEW due \in {"none", "future"},
           Enqueue(r, t, due),
           NEW q \in Runs, NEW u \in Tasks, NEW m \in Numbers
    PROVE  AttemptMayChange(q, u, m)
<1> DEFINE n == NextNumber(r, t)
           row == [status |-> "QUEUED", lease |-> "none", due |-> due]
<1>1. /\ attempt' = [attempt EXCEPT ![r][t][n] = row]
      /\ n \in Numbers
      /\ StatusOf(r, t, n) = "absent"
      /\ ~Fenced(r, t)
      /\ ~HasActive(r, t)
      /\ run[r].status = "IN-PROGRESS"
      /\ UNCHANGED <<run, fence>>
  BY DEF Enqueue
<1>2. row.status = "QUEUED"
  OBVIOUS
<1> HIDE DEF n, row
<1>3. CASE q = r /\ u = t /\ m = n
  <2>1. attempt'[q][u][m] = row
    BY <1>1, <1>3 DEF TypeOK
  <2> QED
    BY <1>1, <1>2, <1>3, <2>1 DEF AttemptMayChange, Admitted
<1>4. CASE ~(q = r /\ u = t /\ m = n)
  <2>1. attempt'[q][u][m] = attempt[q][u][m]
    BY <1>1, <1>4 DEF TypeOK
  <2> QED
    BY <2>1 DEF AttemptMayChange
<1> QED
  BY <1>3, <1>4

\* The steps of one attempt change that attempt only, and never an ended one.
LEMMA AttemptStepChanges ==
    ASSUME TypeOK, NEW r \in Runs, NEW t \in Tasks, NEW n \in Numbers,
           AttemptStep(r, t, n),
           NEW q \in Runs, NEW u \in Tasks, NEW m \in Numbers
    PROVE  AttemptMayChange(q, u, m)
<1>1. ASSUME NEW row \in AttemptRows, row.status # "absent",
             attempt' = [attempt EXCEPT ![r][t][n] = row], StatusOf(r, t, n) \in Active
      PROVE  AttemptMayChange(q, u, m)
  <2>1. CASE q = r /\ u = t /\ m = n
    <3>1. attempt'[q][u][m] = row
      BY <1>1, <2>1 DEF TypeOK
    <3> QED
      BY <1>1, <2>1, <3>1 DEF AttemptMayChange, Moved
  <2>2. CASE ~(q = r /\ u = t /\ m = n)
    <3>1. attempt'[q][u][m] = attempt[q][u][m]
      BY <1>1, <2>2 DEF TypeOK
    <3> QED
      BY <3>1 DEF AttemptMayChange
  <2> QED
    BY <2>1, <2>2
<1>2. attempt[r][t][n] \in AttemptRows
  BY DEF TypeOK
<1>3. ASSUME BecomeDue(r, t, n) PROVE AttemptMayChange(q, u, m)
  <2>1. attempt' = [attempt EXCEPT ![r][t][n] = [attempt[r][t][n] EXCEPT !.due = "due"]]
    BY <1>3 DEF BecomeDue
  <2>2. StatusOf(r, t, n) \in Active /\ StatusOf(r, t, n) # "absent"
    BY <1>3 DEF BecomeDue, Active
  <2> QED
    BY <1>1, <1>2, <2>1, <2>2, DueRowType DEF StatusOf
<1>4. ASSUME LapseAttempt(r, t, n) PROVE AttemptMayChange(q, u, m)
  <2>1. attempt' = [attempt EXCEPT ![r][t][n] = [attempt[r][t][n] EXCEPT !.lease = "expired"]]
    BY <1>4 DEF LapseAttempt
  <2>2. StatusOf(r, t, n) \in Active /\ StatusOf(r, t, n) # "absent"
    BY <1>4 DEF LapseAttempt, Executing, Active
  <2> QED
    BY <1>1, <1>2, <2>1, <2>2, LapsedRowType DEF StatusOf
<1>5. ASSUME ClaimLocally(r, t, n) \/ ClaimByAgent(r, t, n) PROVE AttemptMayChange(q, u, m)
  <2>1. attempt' = [attempt EXCEPT ![r][t][n] = ClaimedRow(attempt[r][t][n])]
    BY <1>5 DEF ClaimLocally, ClaimByAgent
  <2>2. StatusOf(r, t, n) \in Active
    BY <1>5 DEF ClaimLocally, ClaimByAgent, Claimable, Active
  <2> QED
    BY <1>1, <1>2, <2>1, <2>2, ClaimedRowType
<1>6. ASSUME NEW to \in AttemptStatuses \ {"absent"}, MoveAttempt(r, t, n, to),
             StatusOf(r, t, n) \in Active
      PROVE  AttemptMayChange(q, u, m)
  <2>1. attempt' = [attempt EXCEPT ![r][t][n] = MovedRow(attempt[r][t][n], to)]
    BY <1>6 DEF MoveAttempt
  <2> QED
    BY <1>1, <1>2, <1>6, <2>1, MovedRowType
<1>7. ASSUME StartAttempt(r, t, n) PROVE AttemptMayChange(q, u, m)
  <2>1. "RUNNING" \in AttemptStatuses \ {"absent"} /\ "CLAIMED" \in Active
    BY DEF AttemptStatuses, Active, Executing
  <2> QED
    BY <1>6, <1>7, <2>1 DEF StartAttempt
<1>8. ASSUME NEW outcome \in ReportedOutcomes, FinishAttempt(r, t, n, outcome)
      PROVE  AttemptMayChange(q, u, m)
  <2>1. outcome \in AttemptStatuses \ {"absent"}
    BY StatusTypes
  <2> QED
    BY <1>6, <1>8, <2>1, StatusTypes DEF FinishAttempt
<1>9. ASSUME CancelAttempt(r, t, n) \/ LoseAttempt(r, t, n)
      PROVE  AttemptMayChange(q, u, m)
  <2>1. {"CANCELLED", "LOST"} \subseteq AttemptStatuses \ {"absent"}
    BY DEF AttemptStatuses, Ended, ReportedOutcomes
  <2> QED
    BY <1>6, <1>9, <2>1, StatusTypes DEF CancelAttempt, LoseAttempt
<1> QED
  BY <1>3, <1>4, <1>5, <1>7, <1>8, <1>9 DEF AttemptStep

OneCancelled(r, t) ==
    \E n \in Numbers :
        StatusOf(r, t, n) = "QUEUED" /\ attempt'[r][t][n].status = "CANCELLED"

\* An advancing stop only cancels queued attempts.
LEMMA AdvanceStopChanges ==
    ASSUME TypeOK, NEW r \in Runs, NEW s \in ControlScopes, AdvanceStop(r, s),
           NEW q \in Runs, NEW u \in Tasks, NEW m \in Numbers
    PROVE  /\ AttemptMayChange(q, u, m)
           /\ q = r /\ u \in InScope(s) => attempt'[q][u][m].status # "QUEUED"
           /\ attempt'[q][u][m].status \in {StatusOf(q, u, m), "CANCELLED"}
           /\ attempt'[q][u][m].status # StatusOf(q, u, m) =>
                /\ q = r /\ u \in InScope(s)
                /\ StatusOf(q, u, m) = "QUEUED"
                /\ attempt'[q][u][m].status = "CANCELLED"
                /\ task'[q][u] = [task[q][u] EXCEPT !.status = "CANCELLED"]
           /\ task'[q][u] # task[q][u] => OneCancelled(q, u)
<1> DEFINE queued(t) == {n \in Numbers : t \in InScope(s) /\ StatusOf(r, t, n) = "QUEUED"}
           row(t, n) == IF n \in queued(t) THEN MovedRow(attempt[r][t][n], "CANCELLED")
                        ELSE attempt[r][t][n]
           synced(t) == IF queued(t) # {}
                        THEN [task[r][t] EXCEPT !.status = Summary("CANCELLED")]
                        ELSE task[r][t]
<1>1. /\ attempt' = [attempt EXCEPT ![r] = [t \in Tasks |-> [n \in Numbers |-> row(t, n)]]]
      /\ task' = [task EXCEPT ![r] = [t \in Tasks |-> synced(t)]]
  BY DEF AdvanceStop
<1>2. CASE q # r
  <2>1. attempt'[q] = attempt[q] /\ task'[q] = task[q]
    BY <1>1, <1>2 DEF TypeOK
  <2> QED
    BY <1>2, <2>1 DEF AttemptMayChange, StatusOf
<1>3. CASE q = r
  <2> HIDE DEF row, synced
  <2>1. attempt'[q][u][m] = row(u, m) /\ task'[q][u] = synced(u)
    BY <1>1, <1>3 DEF TypeOK
  <2> USE DEF row, synced
  <2>2. CASE m \in queued(u)
    <3>1. MovedRow(attempt[r][u][m], "CANCELLED").status = "CANCELLED"
      BY MovedRowType DEF TypeOK, AttemptStatuses, Ended, ReportedOutcomes
    <3>2. Summary("CANCELLED") = "CANCELLED"
      BY DEF Summary, Active, Executing
    <3> QED
      BY <1>3, <2>1, <2>2, <3>1, <3>2 DEF AttemptMayChange, Moved, Active, OneCancelled
  <2>3. CASE m \notin queued(u)
    <3>1. attempt'[q][u][m] = attempt[q][u][m]
      BY <1>3, <2>1, <2>3
    <3>2. u \in InScope(s) => attempt'[q][u][m].status # "QUEUED"
      BY <1>3, <2>3, <3>1 DEF StatusOf
    <3>3. ASSUME queued(u) # {}
          PROVE  OneCancelled(q, u)
      <4>1. PICK n \in Numbers : n \in queued(u)
        BY <3>3
      <4>2. attempt'[q][u][n] = MovedRow(attempt[r][u][n], "CANCELLED")
        BY <1>1, <1>3, <4>1 DEF TypeOK
      <4>3. attempt'[q][u][n].status = "CANCELLED"
        BY <4>2, MovedRowType DEF TypeOK, AttemptStatuses, Ended, ReportedOutcomes
      <4> QED
        BY <1>3, <4>1, <4>3 DEF OneCancelled
    <3> QED
      BY <1>3, <2>1, <3>1, <3>2, <3>3 DEF AttemptMayChange, StatusOf
  <2> QED
    BY <2>2, <2>3
<1> QED
  BY <1>2, <1>3

(* What any step may do to an attempt.                                     *)
LEMMA AttemptChanges ==
    ASSUME TypeOK, [Next]_vars, NEW q \in Runs, NEW u \in Tasks, NEW m \in Numbers
    PROVE  AttemptMayChange(q, u, m)
<1>1. ASSUME UNCHANGED attempt PROVE AttemptMayChange(q, u, m)
  BY <1>1 DEF AttemptMayChange
<1>2. CASE UNCHANGED vars
  BY <1>1, <1>2 DEF vars
<1>3. ASSUME NEW s \in Supervisors, SupervisorStep(s) PROVE AttemptMayChange(q, u, m)
  BY <1>1, <1>3 DEF SupervisorStep, StartRun, CheckIdle, JudgeRun, FinishRun, ReleaseRun,
                    CrashSupervisor
<1>4. ASSUME NEW r \in Runs, RunStep(r) PROVE AttemptMayChange(q, u, m)
  BY <1>1, <1>4 DEF RunStep, CreateRun, AdmitRun, RefuseAdmission, LapseRun, ReconcileRun,
                    MarkRun, ReopenRun
<1>5. ASSUME NEW r \in Runs, NEW t \in Tasks, TaskStep(r, t) PROVE AttemptMayChange(q, u, m)
  <2>1. ASSUME QueueAttempt(r, t) \/ RetryAttempt(r, t) PROVE AttemptMayChange(q, u, m)
    BY <2>1, EnqueueChanges DEF QueueAttempt, RetryAttempt
  <2> QED
    BY <1>1, <1>5, <2>1 DEF TaskStep, SkipTask, SettleHandedOff, ResetSkipped, MarkTask
<1>6. ASSUME NEW r \in Runs, NEW t \in Tasks, NEW n \in Numbers, AttemptStep(r, t, n)
      PROVE  AttemptMayChange(q, u, m)
  BY <1>6, AttemptStepChanges
<1>7. ASSUME NEW r \in Runs, NEW s \in ControlScopes, ControlStep(r, s)
      PROVE  AttemptMayChange(q, u, m)
  <2>1. CASE AdvanceStop(r, s)
    BY <2>1, AdvanceStopChanges
  <2> QED
    BY <1>1, <1>7, <2>1 DEF ControlStep, Hold, Release, Stop, Recover
<1> QED
  BY <1>2, <1>3, <1>4, <1>5, <1>6, <1>7 DEF Next

(* A late report, a loss or a cancel never overwrites an ended attempt.    *)
THEOREM Freezing == Spec => EndedAttemptsAreFrozen
<1>1. ASSUME TypeOK, [Next]_vars
      PROVE  [\A r \in Runs, t \in Tasks, n \in Numbers :
                StatusOf(r, t, n) \in Ended => attempt'[r][t][n] = attempt[r][t][n]]_vars
  <2>1. ASSUME NEW r \in Runs, NEW t \in Tasks, NEW n \in Numbers, StatusOf(r, t, n) \in Ended
        PROVE  attempt'[r][t][n] = attempt[r][t][n]
    <3>1. StatusOf(r, t, n) \notin Active /\ StatusOf(r, t, n) # "absent"
      BY <2>1, StatusTypes
    <3> QED
      BY <1>1, <3>1, AttemptChanges DEF AttemptMayChange, Moved, Admitted
  <2> QED
    BY <2>1
<1> QED
  BY <1>1, Typing, PTL DEF Spec, EndedAttemptsAreFrozen

-----------------------------------------------------------------------------
(* What any step may do to a run: how it is ended and by whom it is owned. *)
RunMayChange(r) ==
    \/ run'[r].status = run[r].status
    \/ run[r].status = "absent" /\ run'[r].status \in {"QUEUED", "SKIPPED"}
    \/ /\ run'[r].status = "IN-PROGRESS"
       /\ MayActivate(r)
       /\ \A p \in Runs \ {r} : run'[p].status = run[p].status
    \/ run[r].status = "QUEUED" /\ run'[r].status = "SKIPPED" /\ UNCHANGED attempt
    \/ /\ run'[r].status \in MarkableStatuses
       /\ run[r].status # "QUEUED"
       /\ ~RunExecuting(r)
    \/ run'[r].status = "CANCELLED" /\ (~RunExecuting(r) \/ RefuseAdmission(r))

\* A stop that completes leaves its scope quiet.
LEMMA AdvanceStopQuiets ==
    ASSUME TypeOK, NEW r \in Runs, NEW s \in ControlScopes, AdvanceStop(r, s),
           ~ScopeExecuting(r, s)
    PROVE  /\ QuietScope(r, s)'
           /\ s = WholeRun => ~RunExecuting(r)
<1>1. InScope(s) \subseteq Tasks
  BY ConstantsAssumption DEF InScope
<1>2. ASSUME NEW u \in InScope(s), NEW m \in Numbers
      PROVE  attempt'[r][u][m].status \notin Active
  <2>1. StatusOf(r, u, m) \notin Executing
    BY <1>2 DEF ScopeExecuting
  <2>2. u \in Tasks
    BY <1>1, <1>2
  <2>3. attempt'[r][u][m].status # "QUEUED"
    <3>1. \A q \in Runs : q = r /\ u \in InScope(s) => attempt'[q][u][m].status # "QUEUED"
      BY <1>2, <2>2, AdvanceStopChanges
    <3> QED
      BY <1>2, <3>1
  <2>4. attempt'[r][u][m].status \in {StatusOf(r, u, m), "CANCELLED"}
    BY <1>2, <2>2, AdvanceStopChanges
  <2> QED
    BY <2>1, <2>3, <2>4 DEF Active, Executing
<1>3. QuietScope(r, s)'
  BY <1>2 DEF QuietScope, HasActive, StatusOf
<1>4. s = WholeRun => ~RunExecuting(r)
  BY DEF ScopeExecuting, RunExecuting, InScope
<1> QED
  BY <1>3, <1>4

\* What any step may do to the status of a run.
LEMMA RunChanges ==
    ASSUME TypeOK, [Next]_vars, NEW q \in Runs
    PROVE  RunMayChange(q)
<1>1. ASSUME run'[q].status = run[q].status PROVE RunMayChange(q)
  BY <1>1 DEF RunMayChange
<1>2. ASSUME NEW r \in Runs, NEW row \in RunRows,
             run' = [run EXCEPT ![r] = row],
             row.status = run[r].status \/ q # r
      PROVE  RunMayChange(q)
  <2>1. run'[q] = IF q = r THEN row ELSE run[q]
    BY <1>2 DEF TypeOK
  <2> QED
    BY <1>1, <1>2, <2>1
<1>3. ASSUME NEW r \in Runs, MayReopen(r), run' = [run EXCEPT ![r] = ReopenedRow(@)]
      PROVE  RunMayChange(q)
  <2>1. ReopenedRow(run[r]) \in RunRows /\ ReopenedRow(run[r]).status = "IN-PROGRESS"
    BY ReopenedRowType DEF TypeOK
  <2>2. CASE q = r
    BY <1>3, <2>1, <2>2 DEF TypeOK, MayReopen, RunMayChange
  <2>3. CASE q # r
    BY <1>2, <1>3, <2>1, <2>3
  <2> QED
    BY <2>2, <2>3
<1>4. ASSUME NEW r \in Runs, NEW status \in MarkableStatuses,
             run' = [run EXCEPT ![r] = EndedRow(@, status)],
             run[r].status # "QUEUED", ~RunExecuting(r)
      PROVE  RunMayChange(q)
  <2>1. EndedRow(run[r], status) \in RunRows /\ EndedRow(run[r], status).status = status
    BY EndedRowType, StatusTypes DEF TypeOK
  <2>2. CASE q = r
    BY <1>4, <2>1, <2>2 DEF TypeOK, RunMayChange
  <2>3. CASE q # r
    BY <1>2, <1>4, <2>1, <2>3
  <2> QED
    BY <2>2, <2>3
<1>5. CASE UNCHANGED vars
  BY <1>1, <1>5 DEF vars
<1>6. ASSUME NEW s \in Supervisors, SupervisorStep(s) PROVE RunMayChange(q)
  <2>1. CASE \E r \in Runs : StartRun(s, r)
    BY <1>2, <2>1, OwnedRowType DEF StartRun, TypeOK
  <2>2. CASE FinishRun(s)
    <3>1. CASE supervises[s] \in Runs
      BY <1>4, <2>2, <3>1 DEF FinishRun
    <3>2. CASE supervises[s] \notin Runs
      BY <1>1, <2>2, <3>2 DEF FinishRun, TypeOK
    <3> QED
      BY <3>1, <3>2
  <2>3. CASE ReleaseRun(s)
    <3> DEFINE r == supervises[s]
    <3>1. r \in Runs /\ (run' = run \/ run' = [run EXCEPT ![r] = UnownedRow(run[r])])
      BY <2>3 DEF ReleaseRun, TypeOK
    <3>2. UnownedRow(run[r]) \in RunRows /\ UnownedRow(run[r]).status = run[r].status
      BY <3>1, UnownedRowType DEF TypeOK
    <3> QED
      BY <1>1, <1>2, <3>1, <3>2
  <2> QED
    BY <1>1, <1>6, <2>1, <2>2, <2>3 DEF SupervisorStep, CheckIdle, JudgeRun, CrashSupervisor
<1>7. ASSUME NEW r \in Runs, RunStep(r) PROVE RunMayChange(q)
  <2>1. ASSUME NEW status \in RunStatuses, run' = [run EXCEPT ![r].status = status],
               \/ status = "IN-PROGRESS" /\ MayActivate(r)
               \/ run[r].status = "QUEUED" /\ status = "SKIPPED" /\ UNCHANGED attempt
        PROVE  RunMayChange(q)
    <3>1. [run[r] EXCEPT !.status = status] \in RunRows
          /\ [run[r] EXCEPT !.status = status].status = status
      BY StatusRowType DEF TypeOK
    <3>2. CASE q = r
      BY <2>1, <3>1, <3>2 DEF TypeOK, RunMayChange
    <3>3. CASE q # r
      BY <1>2, <2>1, <3>1, <3>3
    <3> QED
      BY <3>2, <3>3
  <2>2. ASSUME NEW status \in OpenRunStatuses \cup {"SKIPPED"}, CreateRun(r, status)
        PROVE  RunMayChange(q)
    <3>1. status \in {"QUEUED", "SKIPPED", "IN-PROGRESS"} /\ status \in RunStatuses
      BY <2>2 DEF OpenRunStatuses, RunStatuses, FinishedRunStatuses, MarkableStatuses
    <3>2. /\ CreatedRow(run[r], status) \in RunRows
          /\ CreatedRow(run[r], status).status = status
      BY <3>1, CreatedRowType DEF TypeOK
    <3>3. CASE q = r
      BY <2>2, <3>1, <3>2, <3>3 DEF CreateRun, TypeOK, RunMayChange
    <3>4. CASE q # r
      BY <1>2, <2>2, <3>2, <3>4 DEF CreateRun
    <3> QED
      BY <3>3, <3>4
  <2>3. ASSUME NEW status \in {"IN-PROGRESS", "SKIPPED"}, AdmitRun(r, status)
        PROVE  RunMayChange(q)
    BY <2>1, <2>3 DEF AdmitRun, OpenRunStatuses, RunStatuses, FinishedRunStatuses,
                      MarkableStatuses
  <2>4. CASE LapseRun(r)
    <3>1. [run[r] EXCEPT !.lease = "expired"] \in RunRows
          /\ [run[r] EXCEPT !.lease = "expired"].status = run[r].status
      BY LeaseRowType DEF TypeOK, Leases
    <3> QED
      BY <1>2, <2>4, <3>1 DEF LapseRun
  <2>5. CASE ReconcileRun(r)
    BY <1>2, <2>5, UnownedRowType DEF ReconcileRun, TypeOK
  <2>6. ASSUME NEW status \in MarkableStatuses, MarkRun(r, status) PROVE RunMayChange(q)
    BY <1>4, <2>6 DEF MarkRun, FinishedRunStatuses, MarkableStatuses
  <2>7. CASE ReopenRun(r)
    BY <1>3, <2>7 DEF ReopenRun
  <2>8. CASE RefuseAdmission(r)
    <3>1. [run[r] EXCEPT !.status = "CANCELLED"] \in RunRows
          /\ [run[r] EXCEPT !.status = "CANCELLED"].status = "CANCELLED"
      BY StatusTypes, StatusRowType DEF TypeOK
    <3>2. run' = [run EXCEPT ![r] = [run[r] EXCEPT !.status = "CANCELLED"]]
      BY <2>8 DEF RefuseAdmission
    <3>3. CASE q = r
      BY <2>8, <3>1, <3>2, <3>3 DEF TypeOK, RunMayChange
    <3>4. CASE q # r
      BY <1>2, <3>1, <3>2, <3>4
    <3> QED
      BY <3>3, <3>4
  <2> QED
    BY <1>7, <2>2, <2>3, <2>4, <2>5, <2>6, <2>7, <2>8 DEF RunStep
<1>8. ASSUME NEW r \in Runs, NEW t \in Tasks, TaskStep(r, t) PROVE RunMayChange(q)
  <2>1. ASSUME NEW status \in MarkableStatuses, MarkTask(r, t, status)
        PROVE  RunMayChange(q)
    BY <1>1, <1>3, <2>1 DEF MarkTask
  <2> QED
    BY <1>1, <1>8, <2>1 DEF TaskStep, SkipTask, SettleHandedOff, ResetSkipped, QueueAttempt,
                            RetryAttempt, Enqueue
<1>9. ASSUME NEW r \in Runs, NEW t \in Tasks, NEW n \in Numbers, AttemptStep(r, t, n)
      PROVE  RunMayChange(q)
  BY <1>1, <1>9 DEF AttemptStep, BecomeDue, ClaimLocally, ClaimByAgent, StartAttempt,
                    FinishAttempt, CancelAttempt, LapseAttempt, LoseAttempt
<1>10. ASSUME NEW r \in Runs, NEW s \in ControlScopes, ControlStep(r, s)
       PROVE  RunMayChange(q)
  <2>1. CASE AdvanceStop(r, s)
    <3>1. CASE q = r /\ run'[q].status # run[q].status
      <4>1. ~ScopeExecuting(r, s)
        BY <2>1, <3>1 DEF AdvanceStop
      <4>2. run' = [run EXCEPT ![r].status =
                      IF s = WholeRun /\ run[r].status \in OpenRunStatuses
                      THEN "CANCELLED" ELSE run[r].status]
        BY <2>1, <4>1 DEF AdvanceStop
      <4>3. s = WholeRun /\ run'[q].status = "CANCELLED"
        BY <3>1, <4>2 DEF TypeOK, RunRows
      <4> QED
        BY <2>1, <3>1, <4>1, <4>3, AdvanceStopQuiets DEF RunMayChange
    <3>2. CASE q # r
      BY <1>1, <2>1, <3>2 DEF AdvanceStop, TypeOK
    <3> QED
      BY <1>1, <3>1, <3>2
  <2>2. CASE Recover(r, s)
    BY <1>1, <1>3, <2>2 DEF Recover
  <2> QED
    BY <1>1, <1>10, <2>1, <2>2 DEF ControlStep, Hold, Release, Stop
<1> QED
  BY <1>5, <1>6, <1>7, <1>8, <1>9, <1>10 DEF Next

-----------------------------------------------------------------------------
(* What any step may do to a fence.                                        *)
LEMMA FenceChanges ==
    ASSUME TypeOK, [Next]_vars, NEW q \in Runs, NEW u \in Scopes,
           fence'[q][u] = "STOPPED", fence[q][u] # "STOPPED"
    PROVE  QuietScope(q, u)'
<1>1. fence' # fence
  OBVIOUS
<1>2. PICK r \in Runs, s \in ControlScopes : ControlStep(r, s)
  <2>1. ASSUME NEW s \in Supervisors, SupervisorStep(s) PROVE FALSE
    BY <1>1, <2>1 DEF SupervisorStep, StartRun, CheckIdle, JudgeRun, FinishRun, ReleaseRun,
                      CrashSupervisor
  <2>2. ASSUME NEW r \in Runs, RunStep(r) PROVE FALSE
    BY <1>1, <2>2 DEF RunStep, CreateRun, AdmitRun, RefuseAdmission, LapseRun, ReconcileRun,
                      MarkRun, ReopenRun
  <2>3. ASSUME NEW r \in Runs, NEW t \in Tasks, TaskStep(r, t) PROVE FALSE
    BY <1>1, <2>3 DEF TaskStep, SkipTask, SettleHandedOff, ResetSkipped, MarkTask, QueueAttempt,
                      RetryAttempt, Enqueue
  <2>4. ASSUME NEW r \in Runs, NEW t \in Tasks, NEW n \in Numbers, AttemptStep(r, t, n)
        PROVE  FALSE
    BY <1>1, <2>4 DEF AttemptStep, BecomeDue, ClaimLocally, ClaimByAgent, StartAttempt,
                      FinishAttempt, CancelAttempt, LapseAttempt, LoseAttempt
  <2> QED
    BY <1>1, <2>1, <2>2, <2>3, <2>4 DEF Next, vars
<1>3. s \in Scopes
  BY ConstantsAssumption DEF Scopes
<1>4. AdvanceStop(r, s)
  <2>1. ASSUME NEW f \in {"none", "HOLD", "STOP"}, fence' = [fence EXCEPT ![r][s] = f]
        PROVE  FALSE
    <3>1. fence'[q][u] \in {f, fence[q][u]}
      BY <2>1, <1>3 DEF TypeOK
    <3> QED
      BY <3>1
  <2> QED
    BY <1>2, <2>1 DEF ControlStep, Hold, Release, Stop, Recover
<1>5. ~ScopeExecuting(r, s) /\ fence' = [fence EXCEPT ![r][s] = "STOPPED"]
  BY <1>1, <1>4 DEF AdvanceStop
<1>6. q = r /\ u = s
  BY <1>3, <1>5 DEF TypeOK
<1> QED
  BY <1>4, <1>5, <1>6, AdvanceStopQuiets

(* A scope into which no attempt may be admitted stays quiet.              *)
LEMMA QuietStays ==
    ASSUME TypeOK, [Next]_vars, NEW r \in Runs, NEW s \in Scopes, QuietScope(r, s),
           run[r].status # "IN-PROGRESS" \/ \A t \in InScope(s) : Fenced(r, t)
    PROVE  QuietScope(r, s)'
<1>1. ASSUME NEW t \in InScope(s), NEW n \in Numbers
      PROVE  attempt'[r][t][n].status \notin Active
  <2>1. t \in Tasks
    BY <1>1 DEF InScope, Scopes
  <2>2. StatusOf(r, t, n) \notin Active
    BY <1>1 DEF QuietScope, HasActive
  <2>3. attempt'[r][t][n] = attempt[r][t][n]
    BY <1>1, <2>1, <2>2, AttemptChanges DEF AttemptMayChange, Moved, Admitted
  <2> QED
    BY <2>2, <2>3 DEF StatusOf
<1> QED
  BY <1>1 DEF QuietScope, HasActive, StatusOf

(* After a completed stop its scope runs nothing until the fence is        *)
(* released, whatever else happens to the run.                             *)
THEOREM Stopping == Spec => []StoppedScopeIsQuiet
<1>1. Init => StoppedScopeIsQuiet
  BY DEF Init, StoppedScopeIsQuiet
<1>2. ASSUME TypeOK, StoppedScopeIsQuiet, [Next]_vars PROVE StoppedScopeIsQuiet'
  <2>1. ASSUME NEW r \in Runs, NEW s \in Scopes, fence'[r][s] = "STOPPED"
        PROVE  QuietScope(r, s)'
    <3>1. CASE fence[r][s] = "STOPPED"
      <4>1. QuietScope(r, s)
        BY <1>2, <3>1 DEF StoppedScopeIsQuiet
      <4>2. \A t \in InScope(s) : Fenced(r, t)
        BY <3>1 DEF InScope, Fenced
      <4> QED
        BY <1>2, <4>1, <4>2, QuietStays
    <3> QED
      BY <1>2, <2>1, <3>1, FenceChanges
  <2> QED
    BY <2>1 DEF StoppedScopeIsQuiet
<1> QED
  BY <1>1, <1>2, Typing, PTL DEF Spec

-----------------------------------------------------------------------------
(* A run not yet in progress has no attempts: none is queued before.       *)
IdleUntilStarted ==
    \A r \in Runs :
        run[r].status \in {"absent", "QUEUED"} => \A t \in Tasks : ~HasAttempts(r, t)

\* Nothing is queued under a run that is not in progress.
LEMMA IdleStep == TypeOK /\ IdleUntilStarted /\ [Next]_vars => IdleUntilStarted'
<1> SUFFICES ASSUME TypeOK, IdleUntilStarted, [Next]_vars,
                    NEW r \in Runs, run'[r].status \in {"absent", "QUEUED"},
                    NEW t \in Tasks, NEW n \in Numbers
             PROVE  attempt'[r][t][n].status = "absent"
  BY DEF IdleUntilStarted, HasAttempts, StatusOf
<1>1. run[r].status \in {"absent", "QUEUED"}
  BY RunChanges, StatusTypes DEF RunMayChange, MarkableStatuses
<1>2. StatusOf(r, t, n) = "absent"
  BY <1>1 DEF IdleUntilStarted, HasAttempts
<1>3. attempt'[r][t][n] = attempt[r][t][n]
  BY <1>1, <1>2, AttemptChanges, StatusTypes DEF AttemptMayChange, Moved, Admitted
<1> QED
  BY <1>2, <1>3 DEF StatusOf

(* No run is ended over an attempt that is claimed or running, except by   *)
(* a refused admission that comes too late.                                *)
THEOREM IdleEndings == Spec => RunsEndIdle
<1>1. Init => IdleUntilStarted
  BY DEF Init, IdleUntilStarted, HasAttempts, StatusOf, NoAttempt
<1>2. ASSUME TypeOK, IdleUntilStarted, [Next]_vars
      PROVE  [\A r \in Runs :
                run[r].status \in OpenRunStatuses /\ run'[r].status \in FinishedRunStatuses
                  => ~RunExecuting(r) \/ RefuseAdmission(r)]_vars
  <2>1. ASSUME NEW r \in Runs, run[r].status \in OpenRunStatuses,
               run'[r].status \in FinishedRunStatuses
        PROVE  ~RunExecuting(r) \/ RefuseAdmission(r)
    <3>1. CASE run[r].status = "QUEUED"
      BY <1>2, <3>1, StatusTypes
         DEF IdleUntilStarted, HasAttempts, RunExecuting, Executing
    <3>2. CASE run[r].status = "IN-PROGRESS"
      BY <1>2, <2>1, <3>2, RunChanges, StatusTypes DEF RunMayChange
    <3> QED
      BY <2>1, <3>1, <3>2 DEF OpenRunStatuses
  <2> QED
    BY <2>1
<1> QED
  BY <1>1, <1>2, IdleStep, Typing, PTL DEF Spec, RunsEndIdle

(* However runs are created, admitted, reopened, recovered or marked, at   *)
(* most one exclusive run of the pipeline is in progress.                  *)
THEOREM Exclusion == Spec => []OneExclusiveRun
<1>1. Init => OneExclusiveRun
  BY ConstantsAssumption DEF Init, OneExclusiveRun
<1>2. ASSUME TypeOK, OneExclusiveRun, [Next]_vars PROVE OneExclusiveRun'
  <2>1. ASSUME NEW p \in ExclusiveRuns, NEW q \in ExclusiveRuns, p # q,
               run'[p].status = "IN-PROGRESS", run'[q].status = "IN-PROGRESS",
               run[p].status # "IN-PROGRESS"
        PROVE  FALSE
    <3>1. p \in Runs /\ q \in Runs
      BY ConstantsAssumption
    <3>2. MayActivate(p) /\ run'[q].status = run[q].status
      BY <1>2, <2>1, <3>1, RunChanges, StatusTypes DEF RunMayChange
    <3> QED
      BY <2>1, <3>2 DEF MayActivate
  <2> QED
    BY <1>2, <2>1 DEF OneExclusiveRun
<1> QED
  BY <1>1, <1>2, Typing, PTL DEF Spec

-----------------------------------------------------------------------------
(* The ledger of one task: what its row says of its attempts.              *)
Accounts(row, as) ==
    /\ row.status = "absent" => \A n \in Numbers : as[n].status = "absent"
    /\ \A n \in Numbers : as[n].status # "absent" => n <= row.count
    /\ \A n \in Numbers :
         as[n].status \in Active => row.status = "IN-PROGRESS" /\ row.count = n

LedgerInv == \A r \in Runs, t \in Tasks : Accounts(task[r][t], attempt[r][t])

\* The ledger of every task is the two invariants together.
LEMMA LedgerSuffices == LedgerInv <=> SummaryFollowsAttempt /\ LedgerIsOrdered
BY DEF LedgerInv, Accounts, SummaryFollowsAttempt, LedgerIsOrdered, HasAttempts, StatusOf

\* Attempt numbers are natural numbers.
LEMMA NumbersAreNatural == Numbers \subseteq Nat
BY ConstantsAssumption DEF Numbers

(* Attempt n, the newest and the only one active, takes another row.       *)
Replaces(as2, as, n) ==
    /\ \A m \in Numbers \ {n} : as2[m] = as[m] /\ as[m].status \notin Active
    /\ \A m \in Numbers : m > n => as[m].status = "absent"

(* The newest attempt is written and the row is brought in line with it.   *)
LEMMA SyncAccounts ==
    ASSUME NEW row \in TaskRows, NEW as \in [Numbers -> AttemptRows],
           NEW row2 \in TaskRows, NEW as2 \in [Numbers -> AttemptRows],
           NEW n \in Numbers, Accounts(row, as),
           row2.count = n, row2.status # "absent", as2[n].status # "absent",
           as2[n].status \notin Active \/ row2.status = "IN-PROGRESS",
           Replaces(as2, as, n)
    PROVE  Accounts(row2, as2)
<1>1. ASSUME NEW m \in Numbers, as2[m].status # "absent" PROVE m <= n
  <2>1. CASE m > n
    <3>1. m # n
      BY <2>1, NumbersAreNatural
    <3>2. as[m].status = "absent"
      BY <2>1 DEF Replaces
    <3> QED
      BY <1>1, <3>1, <3>2 DEF Replaces
  <2> QED
    BY <2>1, NumbersAreNatural
<1>2. ASSUME NEW m \in Numbers, as2[m].status \in Active
      PROVE  row2.status = "IN-PROGRESS" /\ m = n
  BY <1>2 DEF Replaces
<1> QED
  BY <1>1, <1>2 DEF Accounts

\* An active attempt is summarised as IN-PROGRESS.
LEMMA SummaryOfActive == \A s \in Active : Summary(s) = "IN-PROGRESS"
BY DEF Summary, Active, Executing

(* A step that writes one task's ledger only.                              *)
LEMMA OneLedger ==
    ASSUME TypeOK, LedgerInv, NEW r \in Runs, NEW t \in Tasks, NEW row, NEW as,
           task' = [task EXCEPT ![r][t] = row],
           attempt' = [attempt EXCEPT ![r][t] = as],
           Accounts(row, as)
    PROVE  LedgerInv'
<1>1. ASSUME NEW q \in Runs, NEW u \in Tasks PROVE Accounts(task'[q][u], attempt'[q][u])
  <2>1. CASE q = r /\ u = t
    <3>1. task'[q][u] = row /\ attempt'[q][u] = as
      BY <2>1 DEF TypeOK
    <3> QED
      BY <3>1
  <2>2. CASE ~(q = r /\ u = t)
    <3>1. task'[q][u] = task[q][u] /\ attempt'[q][u] = attempt[q][u]
      BY <2>2 DEF TypeOK
    <3> QED
      BY <3>1 DEF LedgerInv
  <2> QED
    BY <2>1, <2>2
<1> QED
  BY <1>1 DEF LedgerInv

\* An attempt that moves, and is the newest, leaves the ledger in order.
LEMMA MoveLedger ==
    ASSUME TypeOK, LedgerInv, NEW r \in Runs, NEW t \in Tasks, NEW n \in Numbers,
           StatusOf(r, t, n) \in Active, IsLatest(r, t, n),
           NEW row \in AttemptRows, row.status # "absent",
           attempt' = [attempt EXCEPT ![r][t][n] = row],
           task' = [task EXCEPT ![r][t] = SyncedRow(@, Summary(row.status), n)]
    PROVE  LedgerInv'
<1> DEFINE synced == SyncedRow(task[r][t], Summary(row.status), n)
           as == [attempt[r][t] EXCEPT ![n] = row]
<1>1. task[r][t] \in TaskRows /\ attempt[r][t] \in [Numbers -> AttemptRows]
  BY DEF TypeOK
<1>2. row.status \in AttemptStatuses \ {"absent"}
  BY DEF AttemptRows
<1>3. synced \in TaskRows /\ synced.count = n /\ synced.status = Summary(row.status)
  BY <1>1, <1>2, SummaryType, NumbersAreNatural, SyncedRowType
<1>4. Summary(row.status) # "absent"
  BY <1>2, SummaryType
<1>5. /\ as \in [Numbers -> AttemptRows]
      /\ as[n] = row
      /\ \A m \in Numbers \ {n} : as[m] = attempt[r][t][m]
  BY <1>1
<1>6. \A m \in Numbers \ {n} : attempt[r][t][m].status \notin Active
  BY DEF LedgerInv, Accounts, StatusOf
<1>7. \A m \in Numbers : m > n => attempt[r][t][m].status = "absent"
  BY DEF IsLatest, StatusOf
<1>8. Accounts(task[r][t], attempt[r][t])
  BY DEF LedgerInv
<1> HIDE DEF synced, as
<1>9. Accounts(synced, as)
  <2>1. Replaces(as, attempt[r][t], n)
    BY <1>5, <1>6, <1>7 DEF Replaces
  <2>2. as[n].status \notin Active \/ synced.status = "IN-PROGRESS"
    BY <1>3, <1>5, SummaryOfActive
  <2>3. as[n].status # "absent" /\ synced.status # "absent" /\ synced.count = n
    BY <1>3, <1>4, <1>5
  <2> QED
    BY <1>1, <1>3, <1>5, <1>8, <2>1, <2>2, <2>3, SyncAccounts
<1>10. attempt' = [attempt EXCEPT ![r][t] = as] /\ task' = [task EXCEPT ![r][t] = synced]
  BY DEF as, synced
<1> QED
  BY <1>9, <1>10, OneLedger

\* A reserved number is above every number of the ledger.
LEMMA EnqueueLedger ==
    ASSUME TypeOK, LedgerInv, NEW r \in Runs, NEW t \in Tasks, NEW due \in {"none", "future"},
           Enqueue(r, t, due)
    PROVE  LedgerInv'
<1> DEFINE n == NextNumber(r, t)
           row == [status |-> "QUEUED", lease |-> "none", due |-> due]
           synced == [status |-> "IN-PROGRESS", count |-> n, marked |-> FALSE]
           as == [attempt[r][t] EXCEPT ![n] = row]
<1>1. task[r][t] \in TaskRows /\ attempt[r][t] \in [Numbers -> AttemptRows]
  BY DEF TypeOK
<1>2. n \in Numbers /\ n \in Nat
  BY NumbersAreNatural DEF Enqueue
<1>3. synced \in TaskRows /\ synced.count = n /\ synced.status = "IN-PROGRESS"
  BY <1>2 DEF TaskRows, TaskStatuses
<1>4. row \in AttemptRows /\ row.status = "QUEUED"
  BY DEF AttemptRows, AttemptStatuses, Active, Leases
<1>5. Accounts(task[r][t], attempt[r][t])
  BY DEF LedgerInv
<1>6. ASSUME NEW m \in Numbers, m > n PROVE attempt[r][t][m].status = "absent"
  <2>1. CASE HasAttempts(r, t)
    <3>1. n = task[r][t].count + 1
      BY <2>1 DEF NextNumber
    <3>2. task[r][t].count \in Nat /\ m \in Nat
      BY <1>1, NumbersAreNatural DEF TaskRows
    <3>3. ~(m <= task[r][t].count)
      BY <1>2, <1>6, <3>1, <3>2
    <3> QED
      BY <1>5, <3>3 DEF Accounts
  <2>2. CASE ~HasAttempts(r, t)
    BY <2>2 DEF HasAttempts, StatusOf
  <2> QED
    BY <2>1, <2>2
<1>7. \A m \in Numbers : attempt[r][t][m].status \notin Active
  BY DEF Enqueue, HasActive, StatusOf
<1>8. /\ attempt' = [attempt EXCEPT ![r][t] = as]
      /\ task' = [task EXCEPT ![r][t] = synced]
  BY DEF Enqueue
<1> HIDE DEF n, row, synced
<1>9. as \in [Numbers -> AttemptRows] /\ as[n] = row
      /\ \A m \in Numbers \ {n} : as[m] = attempt[r][t][m]
  BY <1>1, <1>2, <1>4
<1> HIDE DEF as
<1>10. Replaces(as, attempt[r][t], n)
  BY <1>6, <1>7, <1>9 DEF Replaces
<1>11. Accounts(synced, as)
  <2>1. as[n].status # "absent" /\ synced.status # "absent"
    BY <1>3, <1>4, <1>9
  <2> QED
    BY <1>1, <1>2, <1>3, <1>5, <1>9, <1>10, <2>1, SyncAccounts
<1> QED
  BY <1>8, <1>11, OneLedger

(* A task row is rewritten that no attempt contradicts.                    *)
LEMMA TaskLedger ==
    ASSUME TypeOK, LedgerInv, NEW r \in Runs, NEW t \in Tasks, NEW row,
           task' = [task EXCEPT ![r][t] = row], attempt' = attempt,
           Accounts(row, attempt[r][t])
    PROVE  LedgerInv'
<1>1. attempt' = [attempt EXCEPT ![r][t] = attempt[r][t]]
  BY DEF TypeOK
<1> QED
  BY <1>1, OneLedger

(* An active attempt stays active and its task row as it is.               *)
LEMMA ActiveLedger ==
    ASSUME TypeOK, LedgerInv, NEW r \in Runs, NEW t \in Tasks, NEW n \in Numbers,
           NEW row \in AttemptRows, row.status \in Active, StatusOf(r, t, n) \in Active,
           attempt' = [attempt EXCEPT ![r][t][n] = row], task' = task
    PROVE  LedgerInv'
<1> DEFINE as == [attempt[r][t] EXCEPT ![n] = row]
<1>1. attempt[r][t] \in [Numbers -> AttemptRows]
  BY DEF TypeOK
<1>2. Accounts(task[r][t], attempt[r][t])
  BY DEF LedgerInv
<1>3. as[n] = row /\ \A m \in Numbers \ {n} : as[m] = attempt[r][t][m]
  BY <1>1
<1>4. attempt' = [attempt EXCEPT ![r][t] = as]
  OBVIOUS
<1>5. task' = [task EXCEPT ![r][t] = task[r][t]]
  BY DEF TypeOK
<1> HIDE DEF as
<1>6. "absent" \notin Active
  BY StatusTypes
<1>7. attempt[r][t][n].status \in Active
  BY DEF StatusOf
<1>8. Accounts(task[r][t], as)
  BY <1>2, <1>3, <1>6, <1>7 DEF Accounts
<1> QED
  BY <1>4, <1>5, <1>8, OneLedger

\* Skips, settlements, resets and marks leave the ledger in order.
LEMMA TaskStepLedger ==
    ASSUME TypeOK, LedgerInv, NEW r \in Runs, NEW t \in Tasks, TaskStep(r, t)
    PROVE  LedgerInv'
<1>1. task[r][t] \in TaskRows /\ Accounts(task[r][t], attempt[r][t])
  BY DEF TypeOK, LedgerInv
<1>2. CASE SkipTask(r, t)
  <2> DEFINE row == SyncedRow(task[r][t], "SKIPPED", 1)
  <2>1. row.status = "SKIPPED"
    <3>1. "SKIPPED" \in TaskStatuses /\ 1 \in Nat
      BY DEF TaskStatuses, FinishedRunStatuses, MarkableStatuses
    <3> QED
      BY <1>1, <3>1, SyncedRowType
  <2>2. \A n \in Numbers : attempt[r][t][n].status = "absent"
    BY <1>1, <1>2 DEF SkipTask, Accounts
  <2>3. task' = [task EXCEPT ![r][t] = row] /\ attempt' = attempt
    BY <1>2 DEF SkipTask
  <2> HIDE DEF row
  <2>4. Accounts(row, attempt[r][t])
    BY <2>1, <2>2, StatusTypes DEF Accounts
  <2> QED
    BY <2>3, <2>4, TaskLedger
<1>3. ASSUME NEW status \in FinishedRunStatuses, SettleHandedOff(r, t, status)
      PROVE  LedgerInv'
  <2> DEFINE row == [task[r][t] EXCEPT !.status = status]
  <2>1. row.status = status /\ row.count = task[r][t].count /\ status # "absent"
    BY <1>1, StatusTypes, TaskStatusRowType DEF FinishedRunStatuses, MarkableStatuses
  <2>2. PICK n \in Numbers : IsLatest(r, t, n) /\ StatusOf(r, t, n) = "HANDED_OFF"
    BY <1>3 DEF SettleHandedOff
  <2>3. n <= task[r][t].count
    BY <1>1, <2>2 DEF Accounts, StatusOf
  <2>4. task[r][t].count \in Nat
    BY <1>1 DEF TaskRows
  <2>5. ASSUME NEW m \in Numbers, attempt[r][t][m].status \in Active PROVE FALSE
    <3>1. m = task[r][t].count /\ m # n
      BY <1>1, <2>2, <2>5 DEF Accounts, StatusOf, Active, Executing
    <3>2. m > n
      BY <2>3, <2>4, <3>1, NumbersAreNatural
    <3> QED
      BY <2>2, <2>5, <3>2, StatusTypes DEF IsLatest, StatusOf
  <2>6. task' = [task EXCEPT ![r][t] = row] /\ attempt' = attempt
    BY <1>3 DEF SettleHandedOff
  <2> HIDE DEF row
  <2>7. Accounts(row, attempt[r][t])
    BY <1>1, <2>1, <2>5 DEF Accounts
  <2> QED
    BY <2>6, <2>7, TaskLedger
<1>4. ASSUME NEW u \in Tasks, Resettable(r, u)
      PROVE  Accounts(NoTask, attempt[r][u])
  <2>1. \A n \in Numbers : attempt[r][u][n].status = "absent"
    BY <1>4 DEF Resettable, HasAttempts, StatusOf
  <2> QED
    BY <2>1, StatusTypes DEF Accounts
<1>5. CASE ResetSkipped(r, t)
  BY <1>4, <1>5, TaskLedger DEF ResetSkipped
<1>6. ASSUME NEW status \in MarkableStatuses, MarkTask(r, t, status)
      PROVE  LedgerInv'
  <2> DEFINE marked == [status |-> status, marked |-> TRUE,
                        count |-> IF task[r][t].status = "absent" THEN 1 ELSE task[r][t].count]
             rows == [u \in Tasks |-> IF u = t THEN marked
                                      ELSE IF Resettable(r, u) THEN NoTask ELSE task[r][u]]
  <2>1. task' = [task EXCEPT ![r] = rows] /\ attempt' = attempt
    BY <1>6 DEF MarkTask
  <2>2. \A n \in Numbers : attempt[r][t][n].status \notin Active
    BY <1>6 DEF MarkTask, HasActive, StatusOf
  <2>3. /\ marked.status # "absent"
        /\ task[r][t].status # "absent" => marked.count = task[r][t].count
    BY DEF MarkableStatuses
  <2>4. Accounts(marked, attempt[r][t])
    <3> HIDE DEF marked
    <3> QED
      BY <1>1, <2>2, <2>3 DEF Accounts
  <2>5. ASSUME NEW u \in Tasks PROVE Accounts(rows[u], attempt[r][u])
    <3> HIDE DEF marked
    <3>1. Accounts(task[r][u], attempt[r][u])
      BY DEF LedgerInv
    <3> QED
      BY <1>4, <2>4, <3>1
  <2> HIDE DEF rows
  <2>6. ASSUME NEW q \in Runs, NEW u \in Tasks PROVE Accounts(task'[q][u], attempt'[q][u])
    <3>1. task'[q] = IF q = r THEN rows ELSE task[q]
      BY <2>1 DEF TypeOK
    <3> QED
      BY <2>1, <2>5, <3>1 DEF LedgerInv
  <2> QED
    BY <2>6 DEF LedgerInv
<1> QED
  BY <1>2, <1>3, <1>5, <1>6, EnqueueLedger DEF TaskStep, QueueAttempt, RetryAttempt

\* Claims, reports, cancellations and losses leave the ledger in order.
LEMMA AttemptStepLedger ==
    ASSUME TypeOK, LedgerInv, NEW r \in Runs, NEW t \in Tasks, NEW n \in Numbers,
           AttemptStep(r, t, n)
    PROVE  LedgerInv'
<1>1. attempt[r][t][n] \in AttemptRows
  BY DEF TypeOK
<1>2. CASE BecomeDue(r, t, n)
  <2>1. StatusOf(r, t, n) \in Active
    BY <1>2 DEF BecomeDue, Active
  <2> QED
    BY <1>1, <1>2, <2>1, DueRowType, ActiveLedger DEF BecomeDue, StatusOf
<1>3. CASE LapseAttempt(r, t, n)
  <2>1. StatusOf(r, t, n) \in Active
    BY <1>3, StatusTypes DEF LapseAttempt
  <2> QED
    BY <1>1, <1>3, <2>1, LapsedRowType, ActiveLedger DEF LapseAttempt, StatusOf
<1>4. CASE ClaimByAgent(r, t, n)
  <2>1. StatusOf(r, t, n) \in Active /\ "CLAIMED" \in Active
    BY <1>4 DEF ClaimByAgent, Claimable, Active, Executing
  <2> QED
    BY <1>1, <1>4, <2>1, ClaimedRowType, ActiveLedger DEF ClaimByAgent
<1>5. CASE ClaimLocally(r, t, n)
  <2>1. StatusOf(r, t, n) \in Active
    BY <1>5 DEF ClaimLocally, Claimable, Active
  <2> QED
    BY <1>1, <1>5, <2>1, ClaimedRowType, MoveLedger DEF ClaimLocally
<1>6. ASSUME NEW to \in AttemptStatuses \ {"absent"}, MoveAttempt(r, t, n, to),
             StatusOf(r, t, n) \in Active
      PROVE  LedgerInv'
  <2> DEFINE row == MovedRow(attempt[r][t][n], to)
  <2>1. row \in AttemptRows /\ row.status = to
    BY <1>1, MovedRowType
  <2>2. /\ IsLatest(r, t, n)
        /\ attempt' = [attempt EXCEPT ![r][t][n] = row]
        /\ task' = [task EXCEPT ![r][t] = SyncedRow(@, Summary(row.status), n)]
    BY <1>6, <2>1 DEF MoveAttempt
  <2> HIDE DEF row
  <2> QED
    BY <1>6, <2>1, <2>2, MoveLedger
<1>7. {"RUNNING", "CANCELLED", "LOST"} \cup ReportedOutcomes \subseteq AttemptStatuses \ {"absent"}
  BY DEF AttemptStatuses, Active, Executing, Ended, ReportedOutcomes
<1>8. CASE StartAttempt(r, t, n)
  BY <1>6, <1>7, <1>8 DEF StartAttempt, Active, Executing
<1>9. ASSUME NEW outcome \in ReportedOutcomes, FinishAttempt(r, t, n, outcome)
      PROVE  LedgerInv'
  BY <1>6, <1>7, <1>9, StatusTypes DEF FinishAttempt
<1>10. CASE CancelAttempt(r, t, n)
  BY <1>6, <1>7, <1>10 DEF CancelAttempt
<1>11. CASE LoseAttempt(r, t, n)
  BY <1>6, <1>7, <1>11, StatusTypes DEF LoseAttempt
<1> QED
  BY <1>2, <1>3, <1>4, <1>5, <1>8, <1>9, <1>10, <1>11 DEF AttemptStep

\* An advancing stop leaves the ledger in order.
LEMMA AdvanceStopLedger ==
    ASSUME TypeOK, LedgerInv, NEW r \in Runs, NEW s \in ControlScopes, AdvanceStop(r, s)
    PROVE  LedgerInv'
<1> SUFFICES ASSUME NEW q \in Runs, NEW u \in Tasks
             PROVE  Accounts(task'[q][u], attempt'[q][u])
  BY DEF LedgerInv
<1>1. task[q][u] \in TaskRows /\ Accounts(task[q][u], attempt[q][u])
  BY DEF TypeOK, LedgerInv
<1>2. ASSUME NEW m \in Numbers, attempt'[q][u][m].status # attempt[q][u][m].status
      PROVE  /\ attempt[q][u][m].status = "QUEUED"
             /\ attempt'[q][u][m].status = "CANCELLED"
             /\ task'[q][u] = [task[q][u] EXCEPT !.status = "CANCELLED"]
  <2>1. attempt'[q][u][m].status # StatusOf(q, u, m) =>
          /\ StatusOf(q, u, m) = "QUEUED"
          /\ attempt'[q][u][m].status = "CANCELLED"
          /\ task'[q][u] = [task[q][u] EXCEPT !.status = "CANCELLED"]
    BY AdvanceStopChanges
  <2> QED
    BY <1>2, <2>1 DEF StatusOf
<1>3. CASE \E n \in Numbers : attempt'[q][u][n].status # attempt[q][u][n].status
  <2>1. PICK n \in Numbers : attempt'[q][u][n].status # attempt[q][u][n].status
    BY <1>3
  <2>2. /\ attempt[q][u][n].status \in Active
        /\ attempt'[q][u][n].status = "CANCELLED"
        /\ task'[q][u].status = "CANCELLED"
        /\ task'[q][u].count = task[q][u].count
    <3>1. "CANCELLED" \in TaskStatuses /\ "QUEUED" \in Active
      BY StatusTypes DEF Active
    <3>2. /\ attempt[q][u][n].status = "QUEUED"
          /\ attempt'[q][u][n].status = "CANCELLED"
          /\ task'[q][u] = [task[q][u] EXCEPT !.status = "CANCELLED"]
      BY <1>2, <2>1
    <3>3. /\ [task[q][u] EXCEPT !.status = "CANCELLED"].status = "CANCELLED"
          /\ [task[q][u] EXCEPT !.status = "CANCELLED"].count = task[q][u].count
      BY <1>1, <3>1, TaskStatusRowType
    <3> QED
      BY <3>1, <3>2, <3>3
  <2>3. "CANCELLED" \notin Active
    BY DEF Active, Executing
  <2>4. ASSUME NEW m \in Numbers, attempt'[q][u][m].status \in Active PROVE FALSE
    <3>1. attempt[q][u][m].status \in Active /\ m # n
      BY <1>2, <2>2, <2>3, <2>4
    <3> QED
      BY <1>1, <2>2, <3>1 DEF Accounts
  <2>5. ASSUME NEW m \in Numbers, attempt'[q][u][m].status # "absent"
        PROVE  m <= task'[q][u].count
    BY <1>1, <1>2, <2>2, <2>5 DEF Accounts
  <2> QED
    BY <2>2, <2>4, <2>5 DEF Accounts
<1>4. CASE \A n \in Numbers : attempt'[q][u][n].status = attempt[q][u][n].status
  <2>1. CASE Numbers = {}
    BY <2>1 DEF Accounts
  <2>2. CASE Numbers # {}
    <3>1. PICK m \in Numbers : TRUE
      BY <2>2
    <3>2. task'[q][u] = task[q][u]
      <4>1. task'[q][u] # task[q][u] => OneCancelled(q, u)
        BY <3>1, AdvanceStopChanges
      <4> QED
        BY <1>4, <4>1 DEF OneCancelled, StatusOf
    <3> QED
      BY <1>1, <1>4, <3>2 DEF Accounts
  <2> QED
    BY <2>1, <2>2
<1> QED
  BY <1>3, <1>4

\* Every step leaves the ledger in order.
LEMMA LedgerStep == TypeOK /\ LedgerInv /\ [Next]_vars => LedgerInv'
<1> SUFFICES ASSUME TypeOK, LedgerInv, [Next]_vars PROVE LedgerInv'
  OBVIOUS
<1>1. ASSUME UNCHANGED <<task, attempt>> PROVE LedgerInv'
  BY <1>1 DEF LedgerInv
<1>2. CASE UNCHANGED vars
  BY <1>1, <1>2 DEF vars
<1>3. ASSUME NEW s \in Supervisors, SupervisorStep(s) PROVE LedgerInv'
  BY <1>1, <1>3 DEF SupervisorStep, StartRun, CheckIdle, JudgeRun, FinishRun, ReleaseRun,
                    CrashSupervisor
<1>4. ASSUME NEW r \in Runs, RunStep(r) PROVE LedgerInv'
  BY <1>1, <1>4 DEF RunStep, CreateRun, AdmitRun, RefuseAdmission, LapseRun, ReconcileRun,
                    MarkRun, ReopenRun
<1>5. ASSUME NEW r \in Runs, NEW s \in ControlScopes, ControlStep(r, s) PROVE LedgerInv'
  BY <1>1, <1>5, AdvanceStopLedger DEF ControlStep, Hold, Release, Stop, Recover
<1> QED
  BY <1>2, <1>3, <1>4, <1>5, TaskStepLedger, AttemptStepLedger DEF Next

\* The ledger is always in order.
LEMMA LedgerAlways == Spec => []LedgerInv
<1>1. Init => LedgerInv
  BY StatusTypes DEF Init, LedgerInv, Accounts, NoTask, NoAttempt
<1> QED
  BY <1>1, LedgerStep, Typing, PTL DEF Spec

(* An active attempt is its task's newest, its task is IN-PROGRESS, and no *)
(* task has two.                                                           *)
THEOREM Summaries == Spec => []SummaryFollowsAttempt
BY LedgerAlways, LedgerSuffices, PTL

(* A task row accounts for every attempt of its ledger, so that no attempt *)
(* number is given out twice.                                              *)
THEOREM Ordering == Spec => []LedgerIsOrdered
BY LedgerAlways, LedgerSuffices, PTL
=============================================================================
