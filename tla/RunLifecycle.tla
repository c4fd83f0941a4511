---------------------------- MODULE RunLifecycle ----------------------------
(***************************************************************************)
(* The guarded transitions of the Engine DB: pipeline runs, their task     *)
(* rows and the attempt ledger, as engine/transitions.py and its SQL       *)
(* statements commit them, with the callers that decide when each may be   *)
(* issued (execution/leases.py, reconcile.py, run_finish.py, retries.py,   *)
(* control_flow.py, interventions.py, services/operations/controls.py).    *)
(*                                                                         *)
(* One action is one committed transaction.  Every transition is refused   *)
(* (StaleTransitionError, nothing changes) unless its statement matches    *)
(* exactly one row, so a refused call is a step that is not enabled.       *)
(* All runs belong to one pipeline.  An attempt is claimed at most once,   *)
(* so its number names its owner and owner comparisons reduce to the       *)
(* status and the lease.                                                   *)
(***************************************************************************)
EXTENDS Integers, FiniteSets

CONSTANTS
    Runs,           \* run ids of one pipeline
    ExclusiveRuns,  \* those created with EXCLUSIVE_RUN = 'Y'
    Tasks,          \* the pipeline's tasks
    Supervisors,    \* owner ids: one per call of leases.supervise_run
    NoOwner,        \* OWNER_ID IS NULL
    WholeRun,       \* the control scope without a task (TASK_ID IS NULL)
    ControlScopes,  \* bound: the scopes operators issue controls for
    Cluster,        \* TRUE: agents claim attempts; FALSE: the local pool does
    MaxAttempts,    \* bound: attempt numbers of one task run
    MaxRevision     \* bound: output revisions of one run

ASSUME ConstantsAssumption ==
    /\ ExclusiveRuns \subseteq Runs
    /\ NoOwner \notin Supervisors
    /\ WholeRun \notin Tasks
    /\ ControlScopes \subseteq Tasks \cup {WholeRun}
    /\ Cluster \in BOOLEAN
    /\ MaxAttempts \in Nat
    /\ MaxRevision \in Nat
    /\ {"new", "ended"} \cap Runs = {}

VARIABLES
    run,        \* AUD_PIPELINES_RUN_LOG
    task,       \* AUD_TASK_RUN_LOG
    attempt,    \* AUD_TASK_ATTEMPTS, unique per (task run, attempt number)
    fence,      \* the latest control of each scope that bears on dispatch
    supervises, \* supervisor process: not started, its run, or gone
    verdict,    \* what a finalizing supervisor read, and then judged, of its run
    published   \* history: last published revision, and work done since

vars == <<run, task, attempt, fence, supervises, verdict, published>>

-----------------------------------------------------------------------------
Numbers == 1..MaxAttempts
Scopes == Tasks \cup {WholeRun}

MarkableStatuses == {"SUCCESS", "FAILED", "SKIPPED"}
FinishedRunStatuses == MarkableStatuses \cup {"CANCELLED"}
OpenRunStatuses == {"QUEUED", "IN-PROGRESS"}
RunStatuses == FinishedRunStatuses \cup OpenRunStatuses \cup {"absent"}
TaskStatuses == FinishedRunStatuses \cup {"IN-PROGRESS", "absent"}

Executing == {"CLAIMED", "RUNNING"}
Active == Executing \cup {"QUEUED"}
ReportedOutcomes == {"SUCCESS", "FAILED", "HANDED_OFF", "TIMED_OUT", "CANCELLED"}
Ended == ReportedOutcomes \cup {"LOST"}
AttemptStatuses == Active \cup Ended \cup {"absent"}

Leases == {"none", "live", "expired"}

RunRows == [status : RunStatuses, owner : Supervisors \cup {NoOwner}, lease : Leases,
            repair : BOOLEAN, revision : Nat, waited : BOOLEAN]
TaskRows == [status : TaskStatuses, count : Nat, marked : BOOLEAN]
AttemptRows == [status : AttemptStatuses, lease : Leases, due : {"none", "future", "due"}]

NoTask == [status |-> "absent", count |-> 0, marked |-> FALSE]
NoAttempt == [status |-> "absent", lease |-> "none", due |-> "none"]

\* Faulty Summary: LOST and TIMED_OUT reach the task row unmapped.
SummaryUnmapped(s) == IF s \in Active \cup {"HANDED_OFF"} THEN "IN-PROGRESS" ELSE s

\* The task status that summarises an attempt's status.
Summary(s) ==
    CASE s \in Active \cup {"HANDED_OFF"} -> "IN-PROGRESS"
      [] s \in {"LOST", "TIMED_OUT"} -> "FAILED"
      [] OTHER -> s

-----------------------------------------------------------------------------
(* Reads shared by the guards.                                             *)

StatusOf(r, t, n) == attempt[r][t][n].status
HasAttempts(r, t) == \E n \in Numbers : StatusOf(r, t, n) # "absent"
\* Faulty HasActive: forgets attempts still queued.
HasExecuting(r, t) == \E n \in Numbers : StatusOf(r, t, n) \in Executing

HasActive(r, t) == \E n \in Numbers : StatusOf(r, t, n) \in Active
IsLatest(r, t, n) == \A m \in Numbers : m > n => StatusOf(r, t, m) = "absent"

\* Attempts a finishing or marked run must not have: CLAIMED or RUNNING.
RunExecuting(r) == \E t \in Tasks, n \in Numbers : StatusOf(r, t, n) \in Executing

\* Work that keeps a run's owner: executing, or queued without a retry delay.
WorkOutstanding(r) ==
    \E t \in Tasks, n \in Numbers :
        \/ StatusOf(r, t, n) \in Executing
        \/ StatusOf(r, t, n) = "QUEUED" /\ attempt[r][t][n].due = "none"

\* Faulty MayActivate: compares only with runs that a supervisor owns.
MayActivateBesideUnowned(r) ==
    r \in ExclusiveRuns =>
        \A q \in ExclusiveRuns \ {r} :
            run[q].status = "IN-PROGRESS" => run[q].owner = NoOwner

\* No other exclusive run of the pipeline is in progress.
MayActivate(r) ==
    r \in ExclusiveRuns =>
        \A q \in ExclusiveRuns \ {r} : run[q].status # "IN-PROGRESS"

\* Faulty Fenced: a completed stop no longer fences.
FencedUntilComplete(r, t) == {fence[r][WholeRun], fence[r][t]} \cap {"HOLD", "STOP"} # {}

Fenced(r, t) == fence[r][WholeRun] # "none" \/ fence[r][t] # "none"

Unfenced(r) == \A s \in Scopes : fence[r][s] = "none"

\* Controls of a scope that have not completed; a run's scope covers its tasks.
Unfinished(r, s) ==
    \/ fence[r][s] = "STOP"
    \/ s = WholeRun /\ \E t \in Tasks : fence[r][t] = "STOP"
    \/ fence[r][WholeRun] = "STOP"

InScope(s) == IF s = WholeRun THEN Tasks ELSE {s}

QuietScope(r, s) == \A t \in InScope(s) : ~HasActive(r, t)

\* Faulty ScopeExecuting: forgets attempts claimed and not yet started.
ScopeRunning(r, s) == \E t \in InScope(s), n \in Numbers : StatusOf(r, t, n) = "RUNNING"

\* Faulty ScopeExecuting: one idle task passes for an idle scope.
ScopeAllExecuting(r, s) ==
    \A t \in InScope(s) : \E n \in Numbers : StatusOf(r, t, n) \in Executing

ScopeExecuting(r, s) ==
    \E t \in InScope(s), n \in Numbers : StatusOf(r, t, n) \in Executing

-----------------------------------------------------------------------------
(* Effects shared by several transitions.                                  *)

\* A published SUCCESS of a repaired run carries the next output revision.
EndedRow(row, status) ==
    [row EXCEPT !.status = status,
                !.revision = IF status = "SUCCESS" /\ row.repair THEN @ + 1 ELSE @,
                !.repair = IF status = "SUCCESS" THEN FALSE ELSE @]

Publish(r, status) ==
    published' = [published EXCEPT ![r] =
        IF status = "SUCCESS"
        THEN [revision |-> EndedRow(run[r], status).revision, rework |-> FALSE]
        ELSE @]

\* The row of a new run; one created QUEUED waits for its gate and admission.
CreatedRow(row, status) ==
    [row EXCEPT !.status = status, !.waited = (status = "QUEUED")]

OwnedRow(row, s) == [row EXCEPT !.owner = s, !.lease = "live"]

UnownedRow(row) == [row EXCEPT !.owner = NoOwner, !.lease = "none"]

\* Faulty ReopenedRow: the reopened run is not marked as a repair.
ReopenedWithoutRepair(row) ==
    [row EXCEPT !.status = "IN-PROGRESS", !.owner = NoOwner, !.lease = "none"]

ReopenedRow(row) ==
    [row EXCEPT !.status = "IN-PROGRESS", !.repair = TRUE,
                !.owner = NoOwner, !.lease = "none"]

MayReopen(r) ==
    /\ run[r].status \in FinishedRunStatuses
    /\ run[r].owner = NoOwner
    /\ run[r].revision < MaxRevision
    /\ MayActivate(r)

\* The new row of an attempt; an ended one's lease and due time are never
\* read again.
MovedRow(row, to) ==
    IF to \in Ended THEN [NoAttempt EXCEPT !.status = to] ELSE [row EXCEPT !.status = to]

\* A task row brought in line with its attempt number n.
SyncedRow(row, status, n) == [row EXCEPT !.status = status, !.count = n]

\* An attempt's new status, and its task row brought in line with it: refused
\* while a newer attempt exists.
MoveAttempt(r, t, n, to) ==
    /\ IsLatest(r, t, n)
    /\ attempt' = [attempt EXCEPT ![r][t][n] = MovedRow(@, to)]
    /\ task' = [task EXCEPT ![r][t] = SyncedRow(@, Summary(to), n)]

-----------------------------------------------------------------------------
Init ==
    /\ run = [r \in Runs |-> [status |-> "absent", owner |-> NoOwner, lease |-> "none",
                              repair |-> FALSE, revision |-> 1, waited |-> FALSE]]
    /\ task = [r \in Runs |-> [t \in Tasks |-> NoTask]]
    /\ attempt = [r \in Runs |-> [t \in Tasks |-> [n \in Numbers |-> NoAttempt]]]
    /\ fence = [r \in Runs |-> [s \in Scopes |-> "none"]]
    /\ supervises = [s \in Supervisors |-> "new"]
    /\ verdict = [s \in Supervisors |-> "none"]
    /\ published = [r \in Runs |-> [revision |-> 0, rework |-> FALSE]]

-----------------------------------------------------------------------------
(* Pipeline runs.                                                          *)

\* A manual or orchestrated run starts active, a scheduled or gated one queued
\* (and waits: starters may read it so), an overlapping or missed tick is
\* recorded SKIPPED.
CreateRun(r, status) ==
    /\ run[r].status = "absent"
    /\ status = "IN-PROGRESS" => MayActivate(r)
    /\ run' = [run EXCEPT ![r] = CreatedRow(@, status)]
    /\ UNCHANGED <<task, attempt, fence, supervises, verdict, published>>

\* A queued run is admitted; a refused gate ends it SKIPPED in the same
\* transaction.
AdmitRun(r, status) ==
    /\ run[r].status = "QUEUED"
    /\ run[r].owner = NoOwner
    /\ MayActivate(r)
    /\ run' = [run EXCEPT ![r].status = status]
    /\ UNCHANGED <<task, attempt, fence, supervises, verdict, published>>

\* A starter that read the run QUEUED finds its permission withdrawn, and
\* cancels it instead.  cancel_run wants no owner and reads no attempts: if
\* another starter has admitted the run meanwhile, it ends in progress.
RefuseAdmission(r) ==
    /\ run[r].waited
    /\ run[r].status \in OpenRunStatuses
    /\ run[r].owner = NoOwner
    /\ run' = [run EXCEPT ![r].status = "CANCELLED"]
    /\ UNCHANGED <<task, attempt, fence, supervises, verdict, published>>

\* leases.supervise_run: a new owner id takes an active, unowned run.
StartRun(s, r) ==
    /\ supervises[s] = "new"
    /\ run[r].status = "IN-PROGRESS"
    /\ run[r].owner = NoOwner
    /\ run' = [run EXCEPT ![r] = OwnedRow(@, s)]
    /\ supervises' = [supervises EXCEPT ![s] = r]
    /\ UNCHANGED <<task, attempt, fence, verdict, published>>

\* The outcome _judge_run derives from the task rows, without alert tasks.
Judgement(r) ==
    IF \E t \in Tasks : task[r][t].status \notin {"SUCCESS", "SKIPPED"} THEN "FAILED"
    ELSE IF \A t \in Tasks : task[r][t].status = "SKIPPED" THEN "SKIPPED"
    ELSE "SUCCESS"

\* finalize's first read: no task may be in progress in another process.
CheckIdle(s) ==
    LET r == supervises[s]
    IN  /\ r \in Runs
        /\ \A t \in Tasks : task[r][t].status # "IN-PROGRESS"
        /\ verdict' = [verdict EXCEPT ![s] = "idle"]
        /\ UNCHANGED <<run, task, attempt, fence, supervises, published>>

\* finalize's second read, a transaction of its own, judges the run.
JudgeRun(s) ==
    /\ verdict[s] = "idle"
    /\ verdict' = [verdict EXCEPT ![s] = Judgement(supervises[s])]
    /\ UNCHANGED <<run, task, attempt, fence, supervises, published>>

\* Faulty FinishRun: the statement does not compare owner and lease.
FinishAnyRun(s) ==
    LET r == supervises[s]
    IN  /\ verdict[s] \in MarkableStatuses
        /\ Unfenced(r)
        /\ run[r].status = "IN-PROGRESS"
        /\ ~RunExecuting(r)
        /\ run' = [run EXCEPT ![r] = EndedRow(@, verdict[s])]
        /\ Publish(r, verdict[s])
        /\ verdict' = [verdict EXCEPT ![s] = "none"]
        /\ UNCHANGED <<task, attempt, fence, supervises>>

\* finalize's last transaction: under the run lock, with no fence, the live
\* owner ends the run with the outcome judged before.
FinishRun(s) ==
    LET r == supervises[s]
    IN  /\ verdict[s] \in MarkableStatuses
        /\ Unfenced(r)
        /\ run[r].status = "IN-PROGRESS"
        /\ run[r].owner = s
        /\ run[r].lease = "live"
        /\ ~RunExecuting(r)
        /\ run' = [run EXCEPT ![r] = EndedRow(@, verdict[s])]
        /\ Publish(r, verdict[s])
        /\ verdict' = [verdict EXCEPT ![s] = "none"]
        /\ UNCHANGED <<task, attempt, fence, supervises>>

\* The end of leases.supervise_run: the owner leaves the run unless work is
\* outstanding; either way the process is done with it.
ReleaseRun(s) ==
    LET r == supervises[s]
    IN  /\ r \in Runs
        /\ supervises' = [supervises EXCEPT ![s] = "ended"]
        /\ verdict' = [verdict EXCEPT ![s] = "none"]
        /\ run' = [run EXCEPT ![r] = IF @.owner = s /\ ~WorkOutstanding(r)
                                     THEN UnownedRow(@)
                                     ELSE @]
        /\ UNCHANGED <<task, attempt, fence, published>>

\* The supervising process dies; nothing is written.
CrashSupervisor(s) ==
    /\ supervises[s] \in Runs
    /\ supervises' = [supervises EXCEPT ![s] = "ended"]
    /\ verdict' = [verdict EXCEPT ![s] = "none"]
    /\ UNCHANGED <<run, task, attempt, fence, published>>

\* Time passes without a renewal of the run's lease.
LapseRun(r) ==
    /\ run[r].lease = "live"
    /\ run' = [run EXCEPT ![r].lease = "expired"]
    /\ UNCHANGED <<task, attempt, fence, supervises, verdict, published>>

\* Faulty ReconcileRun: releases an expired run whatever it still runs.
ReconcileBusyRun(r) ==
    /\ run[r].status = "IN-PROGRESS"
    /\ run[r].owner # NoOwner
    /\ run[r].lease # "live"
    /\ run' = [run EXCEPT ![r] = UnownedRow(@)]
    /\ UNCHANGED <<task, attempt, fence, supervises, verdict, published>>

\* reconcile releases an expired run without outstanding work.
ReconcileRun(r) ==
    /\ run[r].status = "IN-PROGRESS"
    /\ run[r].owner # NoOwner
    /\ run[r].lease # "live"
    /\ ~WorkOutstanding(r)
    /\ run' = [run EXCEPT ![r] = UnownedRow(@)]
    /\ UNCHANGED <<task, attempt, fence, supervises, verdict, published>>

\* An operator sets the outcome of an unowned run none of whose tasks run.
MarkRun(r, status) ==
    /\ run[r].status \in (FinishedRunStatuses \cup {"IN-PROGRESS"}) \ {status}
    /\ \A t \in Tasks : task[r][t].status # "IN-PROGRESS"
    /\ run[r].owner = NoOwner
    /\ ~RunExecuting(r)
    /\ run' = [run EXCEPT ![r] = EndedRow(@, status)]
    /\ Publish(r, status)
    /\ UNCHANGED <<task, attempt, fence, supervises, verdict>>

\* An explicit rerun reopens an ended, unowned run as a repair.
ReopenRun(r) ==
    /\ MayReopen(r)
    /\ run' = [run EXCEPT ![r] = ReopenedRow(@)]
    /\ UNCHANGED <<task, attempt, fence, supervises, verdict, published>>

-----------------------------------------------------------------------------
(* Task rows.                                                              *)

\* A task never run is recorded SKIPPED: its dependencies cannot be met, or
\* its gate refused a direct run.
SkipTask(r, t) ==
    /\ run[r].status \notin {"absent", "QUEUED"}
    /\ task[r][t].status = "absent"
    /\ task' = [task EXCEPT ![r][t] = SyncedRow(@, "SKIPPED", 1)]
    /\ UNCHANGED <<run, attempt, fence, supervises, verdict, published>>

\* The controller ends a trigger task whose child run ended, unless the
\* first fence that covers the task is a hold.
SettleHandedOff(r, t, status) ==
    /\ task[r][t].status = "IN-PROGRESS"
    /\ fence[r][WholeRun] # "HOLD"
    /\ fence[r][WholeRun] = "none" => fence[r][t] # "HOLD"
    /\ \E n \in Numbers : IsLatest(r, t, n) /\ StatusOf(r, t, n) = "HANDED_OFF"
    /\ task' = [task EXCEPT ![r][t].status = status]
    /\ UNCHANGED <<run, attempt, fence, supervises, verdict, published>>

\* The tasks the engine skipped without running: reset with a mark or rerun.
\* Faulty Resettable: looks at the task row only.
ResettableByRow(r, t) == task[r][t].status = "SKIPPED" /\ ~task[r][t].marked

Resettable(r, t) ==
    task[r][t].status = "SKIPPED" /\ ~task[r][t].marked /\ ~HasAttempts(r, t)

ResetSkipped(r, t) ==
    /\ run[r].status = "IN-PROGRESS"
    /\ Resettable(r, t)
    /\ task' = [task EXCEPT ![r][t] = NoTask]
    /\ UNCHANGED <<run, attempt, fence, supervises, verdict, published>>

\* mark_task refuses the status the row has already, unless it comes with a
\* row count (SUCCESS) or after the loss of an attempt of the task.
NewsInMark(r, t, status) ==
    \/ task[r][t].status # status
    \/ status = "SUCCESS"
    \/ \E q \in Runs, n \in Numbers : StatusOf(q, t, n) = "LOST"

\* An operator sets a task's outcome; an ended run is reopened and skipped
\* tasks are reset in the same transaction.
MarkTask(r, t, status) ==
    /\ run[r].status # "absent"
    /\ NewsInMark(r, t, status)
    /\ task[r][t].status = "IN-PROGRESS" =>
           \E n \in Numbers : IsLatest(r, t, n) /\ StatusOf(r, t, n) = "HANDED_OFF"
    /\ ~HasActive(r, t)
    /\ task' = [task EXCEPT ![r] = [u \in Tasks |->
           IF u = t THEN [status |-> status, marked |-> TRUE,
                          count |-> IF @[t].status = "absent" THEN 1 ELSE @[t].count]
           ELSE IF Resettable(r, u) THEN NoTask ELSE @[u]]]
    /\ \/ /\ MayReopen(r)
          /\ run' = [run EXCEPT ![r] = ReopenedRow(@)]
       \/ /\ run[r].status \in OpenRunStatuses
          /\ UNCHANGED run
    /\ UNCHANGED <<attempt, fence, supervises, verdict, published>>

-----------------------------------------------------------------------------
(* Attempts.                                                               *)

\* The attempt number reserve_attempt writes on the task row.
NextNumber(r, t) ==
    IF task[r][t].status \in {"SUCCESS", "FAILED", "CANCELLED"} \/ HasAttempts(r, t)
    THEN task[r][t].count + 1
    ELSE 1

\* Reserve a number on the task row and insert the queued attempt; marks made
\* before it no longer count.
Enqueue(r, t, due) ==
    LET n == NextNumber(r, t)
    IN  /\ ~Fenced(r, t)
        /\ run[r].status = "IN-PROGRESS"
        /\ ~HasActive(r, t)
        /\ n \in Numbers
        /\ StatusOf(r, t, n) = "absent"
        /\ attempt' = [attempt EXCEPT ![r][t][n] =
                           [status |-> "QUEUED", lease |-> "none", due |-> due]]
        /\ task' = [task EXCEPT ![r][t] =
                        [status |-> "IN-PROGRESS", count |-> n, marked |-> FALSE]]
        /\ UNCHANGED <<run, fence, supervises, verdict, published>>

\* A scheduler or a direct task command admits the task's next attempt.
QueueAttempt(r, t) == Enqueue(r, t, "none")

\* A failed attempt, or one whose child run failed it after the handoff, as
\* long as no operator marked the task since.
Retryable(r, t, n) ==
    \/ StatusOf(r, t, n) \in {"FAILED", "TIMED_OUT", "LOST"}
    \/ /\ StatusOf(r, t, n) = "HANDED_OFF"
       /\ task[r][t].status = "FAILED"
       /\ ~task[r][t].marked

\* A run's supervisor persists a retry of the latest attempt.
RetryAttempt(r, t) ==
    /\ \E s \in Supervisors : supervises[s] = r
    /\ \E n \in Numbers : IsLatest(r, t, n) /\ Retryable(r, t, n)
    /\ Enqueue(r, t, "future")

\* NOT_BEFORE passes.
BecomeDue(r, t, n) ==
    /\ StatusOf(r, t, n) = "QUEUED"
    /\ attempt[r][t][n].due = "future"
    /\ attempt' = [attempt EXCEPT ![r][t][n].due = "due"]
    /\ UNCHANGED <<run, task, fence, supervises, verdict, published>>

ClaimedRow(row) == [row EXCEPT !.status = "CLAIMED", !.lease = "live"]

Claimable(r, t, n) == StatusOf(r, t, n) = "QUEUED" /\ attempt[r][t][n].due # "future"

\* The local pool's claim: fenced by the run's and the task's controls.
ClaimLocally(r, t, n) ==
    /\ ~Cluster
    /\ Claimable(r, t, n)
    /\ ~Fenced(r, t)
    /\ IsLatest(r, t, n)
    /\ attempt' = [attempt EXCEPT ![r][t][n] = ClaimedRow(@)]
    /\ task' = [task EXCEPT ![r][t] = SyncedRow(@, Summary("CLAIMED"), n)]
    /\ UNCHANGED <<run, fence, supervises, verdict, published>>

\* An agent's claim: no statement of it reads the controls or the run.
ClaimByAgent(r, t, n) ==
    /\ Cluster
    /\ Claimable(r, t, n)
    /\ attempt' = [attempt EXCEPT ![r][t][n] = ClaimedRow(@)]
    /\ UNCHANGED <<run, task, fence, supervises, verdict, published>>

StartAttempt(r, t, n) ==
    /\ StatusOf(r, t, n) = "CLAIMED"
    /\ attempt[r][t][n].lease = "live"
    /\ MoveAttempt(r, t, n, "RUNNING")
    /\ UNCHANGED <<run, fence, supervises, verdict, published>>

\* The owner reports an outcome under its live lease.
FinishAttempt(r, t, n, outcome) ==
    /\ StatusOf(r, t, n) \in Executing
    /\ attempt[r][t][n].lease = "live"
    /\ MoveAttempt(r, t, n, outcome)
    /\ published' = [published EXCEPT ![r].rework =
           @ \/ (outcome = "SUCCESS" /\ run[r].status = "IN-PROGRESS")]
    /\ UNCHANGED <<run, fence, supervises, verdict>>

\* Faulty CancelAttempt: does not ask whether the attempt is still active.
CancelAnyAttempt(r, t, n) ==
    /\ StatusOf(r, t, n) # "absent"
    /\ MoveAttempt(r, t, n, "CANCELLED")
    /\ UNCHANGED <<run, fence, supervises, verdict, published>>

\* An operator, a stop, or a refused start cancels an attempt; neither the
\* owner nor the lease is compared.
CancelAttempt(r, t, n) ==
    /\ StatusOf(r, t, n) \in Active
    /\ MoveAttempt(r, t, n, "CANCELLED")
    /\ UNCHANGED <<run, fence, supervises, verdict, published>>

\* Time passes without a renewal of the attempt's lease.
LapseAttempt(r, t, n) ==
    /\ StatusOf(r, t, n) \in Executing
    /\ attempt[r][t][n].lease = "live"
    /\ attempt' = [attempt EXCEPT ![r][t][n].lease = "expired"]
    /\ UNCHANGED <<run, task, fence, supervises, verdict, published>>

\* Faulty LoseAttempt: overlooks attempts that were claimed and never started.
LoseRunningAttempt(r, t, n) ==
    /\ StatusOf(r, t, n) = "RUNNING"
    /\ attempt[r][t][n].lease # "live"
    /\ MoveAttempt(r, t, n, "LOST")
    /\ UNCHANGED <<run, fence, supervises, verdict, published>>

\* reconcile records an attempt whose owner stopped renewing as LOST.
LoseAttempt(r, t, n) ==
    /\ StatusOf(r, t, n) \in Executing
    /\ attempt[r][t][n].lease # "live"
    /\ MoveAttempt(r, t, n, "LOST")
    /\ UNCHANGED <<run, fence, supervises, verdict, published>>

-----------------------------------------------------------------------------
(* Scoped controls.  STOP stands for STOP and ABORT, whose fences and      *)
(* completion agree; "STOPPED" is a completed one, which still fences.     *)

Hold(r, s) ==
    /\ run[r].status \in OpenRunStatuses
    /\ ~Unfinished(r, s)
    /\ fence[r][s] # "HOLD"
    /\ fence' = [fence EXCEPT ![r][s] = "HOLD"]
    /\ UNCHANGED <<run, task, attempt, supervises, verdict, published>>

Release(r, s) ==
    /\ run[r].status \in OpenRunStatuses
    /\ ~Unfinished(r, s)
    /\ fence[r][s] # "none"
    /\ fence' = [fence EXCEPT ![r][s] = "none"]
    /\ UNCHANGED <<run, task, attempt, supervises, verdict, published>>

Stop(r, s) ==
    /\ run[r].status \in OpenRunStatuses
    /\ fence[r][s] # "STOP"
    /\ fence' = [fence EXCEPT ![r][s] = "STOP"]
    /\ UNCHANGED <<run, task, attempt, supervises, verdict, published>>

\* control_flow.advance: the scope's queued attempts are cancelled; once none
\* of it executes the control completes, and a stopped run still open is
\* cancelled with it.
AdvanceStop(r, s) ==
    LET queued(t) == {n \in Numbers : t \in InScope(s) /\ StatusOf(r, t, n) = "QUEUED"}
    IN  /\ fence[r][s] = "STOP"
        /\ \A t \in Tasks : \A n \in queued(t) : IsLatest(r, t, n)
        /\ attempt' = [attempt EXCEPT ![r] = [t \in Tasks |-> [n \in Numbers |->
               IF n \in queued(t) THEN MovedRow(@[t][n], "CANCELLED") ELSE @[t][n]]]]
        /\ task' = [task EXCEPT ![r] = [t \in Tasks |->
               IF queued(t) # {} THEN [@[t] EXCEPT !.status = Summary("CANCELLED")] ELSE @[t]]]
        /\ IF ScopeExecuting(r, s)
           THEN UNCHANGED <<run, fence>>
           ELSE /\ fence' = [fence EXCEPT ![r][s] = "STOPPED"]
                /\ run' = [run EXCEPT ![r].status =
                       IF s = WholeRun /\ @ \in OpenRunStatuses THEN "CANCELLED" ELSE @]
        /\ UNCHANGED <<supervises, verdict, published>>

\* RECOVER clears its scope's fence and reopens an ended run.
Recover(r, s) ==
    /\ run[r].status \in {"FAILED", "CANCELLED", "IN-PROGRESS"}
    /\ run[r].owner = NoOwner
    /\ ~Unfinished(r, s)
    /\ QuietScope(r, s)
    /\ s # WholeRun => run[r].status = "IN-PROGRESS" /\ fence[r][WholeRun] = "none"
    /\ fence' = [fence EXCEPT ![r][s] = "none"]
    /\ \/ /\ MayReopen(r)
          /\ run' = [run EXCEPT ![r] = ReopenedRow(@)]
       \/ /\ run[r].status = "IN-PROGRESS"
          /\ fence[r][s] # "none"
          /\ UNCHANGED run
    /\ UNCHANGED <<task, attempt, supervises, verdict, published>>

-----------------------------------------------------------------------------
RunStep(r) ==
    \/ \E status \in OpenRunStatuses \cup {"SKIPPED"} : CreateRun(r, status)
    \/ \E status \in {"IN-PROGRESS", "SKIPPED"} : AdmitRun(r, status)
    \/ RefuseAdmission(r)
    \/ LapseRun(r)
    \/ ReconcileRun(r)
    \/ \E status \in MarkableStatuses : MarkRun(r, status)
    \/ ReopenRun(r)

SupervisorStep(s) ==
    \/ \E r \in Runs : StartRun(s, r)
    \/ CheckIdle(s)
    \/ JudgeRun(s)
    \/ FinishRun(s)
    \/ ReleaseRun(s)
    \/ CrashSupervisor(s)

TaskStep(r, t) ==
    \/ SkipTask(r, t)
    \/ \E status \in FinishedRunStatuses : SettleHandedOff(r, t, status)
    \/ ResetSkipped(r, t)
    \/ \E status \in MarkableStatuses : MarkTask(r, t, status)
    \/ QueueAttempt(r, t)
    \/ RetryAttempt(r, t)

AttemptStep(r, t, n) ==
    \/ BecomeDue(r, t, n)
    \/ ClaimLocally(r, t, n)
    \/ ClaimByAgent(r, t, n)
    \/ StartAttempt(r, t, n)
    \/ \E outcome \in ReportedOutcomes : FinishAttempt(r, t, n, outcome)
    \/ CancelAttempt(r, t, n)
    \/ LapseAttempt(r, t, n)
    \/ LoseAttempt(r, t, n)

ControlStep(r, s) ==
    \/ Hold(r, s)
    \/ Release(r, s)
    \/ Stop(r, s)
    \/ AdvanceStop(r, s)
    \/ Recover(r, s)

Next ==
    \/ \E s \in Supervisors : SupervisorStep(s)
    \/ \E r \in Runs :
        \/ RunStep(r)
        \/ \E t \in Tasks :
            \/ TaskStep(r, t)
            \/ \E n \in Numbers : AttemptStep(r, t, n)
        \/ \E s \in ControlScopes : ControlStep(r, s)

Spec == Init /\ [][Next]_vars

-----------------------------------------------------------------------------
(* Fairness: reconciliation runs on every controller tick, work that is    *)
(* executing ends or stops renewing, agents poll for work they may claim,  *)
(* a supervised local run offers its queued work to its own pool, and a    *)
(* supervisor leaves a run that is no longer in progress.  Operators and   *)
(* direct task commands owe nothing.                                       *)

OwnerGone(r) == run[r].owner # NoOwner /\ supervises[run[r].owner] = "ended"

Supervised(r) == \E s \in Supervisors : supervises[s] = r

EndOrLapse(r, t, n) ==
    \/ \E outcome \in ReportedOutcomes : FinishAttempt(r, t, n, outcome)
    \/ LapseAttempt(r, t, n)
    \/ LoseAttempt(r, t, n)

Fairness ==
    /\ \A r \in Runs :
        /\ WF_vars(OwnerGone(r) /\ LapseRun(r))
        /\ WF_vars(ReconcileRun(r))
        /\ \A t \in Tasks, n \in Numbers :
            /\ WF_vars(EndOrLapse(r, t, n))
            /\ WF_vars(BecomeDue(r, t, n))
            /\ WF_vars(ClaimByAgent(r, t, n))
            /\ WF_vars(Supervised(r) /\ ClaimLocally(r, t, n))
    /\ \A s \in Supervisors :
        WF_vars(/\ supervises[s] \in Runs
                /\ run[supervises[s]].status # "IN-PROGRESS"
                /\ ReleaseRun(s))

FairSpec == Spec /\ Fairness

-----------------------------------------------------------------------------
(* Type correctness of every row.                                          *)
TypeOK ==
    /\ run \in [Runs -> RunRows]
    /\ task \in [Runs -> [Tasks -> TaskRows]]
    /\ attempt \in [Runs -> [Tasks -> [Numbers -> AttemptRows]]]
    /\ fence \in [Runs -> [Scopes -> {"none", "HOLD", "STOP", "STOPPED"}]]
    /\ supervises \in [Supervisors -> Runs \cup {"new", "ended"}]
    /\ verdict \in [Supervisors -> MarkableStatuses \cup {"none", "idle"}]
    /\ published \in [Runs -> [revision : Nat, rework : BOOLEAN]]

(* The task row always reports its newest attempt: an active attempt is    *)
(* the one numbered ATTEMPT_COUNT, its task is IN-PROGRESS, and so a task  *)
(* never has two active attempts (sync_attempt_summary, reserve_attempt).  *)
SummaryFollowsAttempt ==
    \A r \in Runs, t \in Tasks, n \in Numbers :
        StatusOf(r, t, n) \in Active =>
            task[r][t].status = "IN-PROGRESS" /\ task[r][t].count = n

(* A task row accounts for its whole ledger: ATTEMPT_COUNT is at least     *)
(* every attempt's number, and a row that is reset (ResetSkipped, MarkTask)*)
(* or was never written has no attempts, so no number is given out twice.  *)
LedgerIsOrdered ==
    \A r \in Runs, t \in Tasks :
        /\ task[r][t].status = "absent" => ~HasAttempts(r, t)
        /\ \A n \in Numbers : StatusOf(r, t, n) # "absent" => n <= task[r][t].count

(* At most one exclusive run of the pipeline is in progress, however runs  *)
(* are created, admitted, reopened, recovered or marked.                   *)
OneExclusiveRun ==
    \A p, q \in ExclusiveRuns :
        run[p].status = "IN-PROGRESS" /\ run[q].status = "IN-PROGRESS" => p = q

(* A stop that completed leaves its scope without queued or running work   *)
(* until the fence is released, whatever ends, reopens or recovers the run.*)
StoppedScopeIsQuiet ==
    \A r \in Runs, s \in Scopes : fence[r][s] = "STOPPED" => QuietScope(r, s)

(* An ended attempt keeps its outcome: a late report, a loss or a cancel   *)
(* never overwrites it.                                                    *)
EndedAttemptsAreFrozen ==
    [][\A r \in Runs, t \in Tasks, n \in Numbers :
         StatusOf(r, t, n) \in Ended => attempt'[r][t][n] = attempt[r][t][n]]_vars

(* No step ends a run while one of its attempts is claimed or running,     *)
(* whichever of finalize, mark or a completed stop ends it.  The one       *)
(* exception is a refused admission that comes after another starter's     *)
(* admission of the same run (transition_cancel_run.sql).                  *)
RunsEndIdle ==
    [][\A r \in Runs :
         run[r].status \in OpenRunStatuses /\ run'[r].status \in FinishedRunStatuses
           => ~RunExecuting(r) \/ RefuseAdmission(r)]_vars

(* Ownership of a run passes only through NULL: an owner is never replaced *)
(* by another in one step, and loses a run in progress only when nothing   *)
(* it supervised can still execute.                                        *)
OwnerYieldsOnlyIdleRuns ==
    [][\A r \in Runs :
         run[r].owner # NoOwner /\ run'[r].owner # run[r].owner
           => run'[r].owner = NoOwner /\ ~WorkOutstanding(r)]_vars

(* A run in progress under an owner ends only by that owner's own          *)
(* judgement, taken while it still supervises the run, or by a stop: a     *)
(* supervisor that was slow, lost its lease and was replaced ends nothing  *)
(* (finish_run compares OWNER_ID and the lease; mark_run wants no owner).  *)
OnlyTheOwnerEndsARun ==
    [][\A r \in Runs :
         LET owner == run[r].owner
         IN  /\ run[r].status = "IN-PROGRESS"
             /\ owner # NoOwner
             /\ run'[r].status \notin {"IN-PROGRESS", "CANCELLED"}
             => /\ supervises[owner] = r
                /\ verdict[owner] = run'[r].status]_vars

(* Work done in a run after it was published is published under a later    *)
(* output revision, so a revision never names two different outputs.       *)
ReworkGetsNewRevision ==
    [][\A r \in Runs :
         run'[r].status = "SUCCESS" /\ run[r].status # "SUCCESS" /\ published[r].rework
           => run'[r].revision > published[r].revision]_vars

(* A run whose supervisor died is given up by it, so that another can      *)
(* adopt the run (reconcile after the leases expire).                      *)
CrashedRunIsAdoptable ==
    \A r \in Runs :
        run[r].status = "IN-PROGRESS" /\ OwnerGone(r)
          ~> run[r].owner = NoOwner \/ run[r].status # "IN-PROGRESS"

-----------------------------------------------------------------------------
(* What documents and comments of the repository say, and the code does    *)
(* not do.                                                                 *)

(* controls.guard_attempt: controls fence the queued-to-owned transition.  *)
ClaimsAreFenced ==
    [][\A r \in Runs, t \in Tasks, n \in Numbers :
         StatusOf(r, t, n) = "QUEUED" /\ attempt'[r][t][n].status = "CLAIMED"
           => ~Fenced(r, t)]_vars

(* run_finish._running_elsewhere: a run is not ended (with an outcome that *)
(* was judged) under a task that another process has in progress.          *)
EndedRunsAreQuiet ==
    \A r \in Runs :
        run[r].status \in MarkableStatuses => QuietScope(r, WholeRun)

(* recovery.check_recovery: the ownership a dead supervisor left behind on *)
(* an ended run is reconciled, so that the run can be recovered.           *)
EndedRunIsReopenable ==
    \A r \in Runs :
        run[r].status \in FinishedRunStatuses /\ OwnerGone(r)
          ~> run[r].owner = NoOwner
=============================================================================
