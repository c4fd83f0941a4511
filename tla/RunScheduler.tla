---------------------------- MODULE RunScheduler ----------------------------
(***************************************************************************)
(* One pipeline run driven by the controller: the passes of                *)
(* execution/scheduler.py, and what happens between their transactions:    *)
(* agents or the local pool claim and end attempts, child runs of trigger  *)
(* tasks and gates on other pipelines end, operators hold and release, the *)
(* supervisor dies or fails and another adopts the run.                    *)
(*                                                                         *)
(* The scheduler remembers nothing but the record sched.  Every step of a  *)
(* pass is one transaction or one read, in the order of _step.  Ownership, *)
(* leases and the other callers of the same transitions are the subject of *)
(* RunLifecycle; here an attempt is its task's latest one.                 *)
(***************************************************************************)
EXTENDS TaskGraph

CONSTANTS
    Retries,        \* policy.retries of each task
    TriggerTasks,   \* RUN_PIPELINE tasks: their attempts hand off to a child run
    RetryAny,       \* those of them with RETRY_ON = ANY
    Cluster,        \* TRUE: agents claim attempts; FALSE: the supervisor's pool does
    Slots,          \* attempts its pool takes; without a limit in a cluster
    WholeRun,       \* the control scope without a task
    HoldScopes,     \* bound: the scopes operators hold
    MaxHolds,       \* bound: holds requested
    MaxCrashes      \* bound: supervisors that die

ASSUME SchedulerAssumption ==
    /\ Acyclic
    /\ CountsFit
    /\ Retries \in [Tasks -> Nat]
    /\ RetryAny \subseteq TriggerTasks
    /\ TriggerTasks \subseteq Tasks
    /\ Cluster \in BOOLEAN
    /\ Slots \in Nat
    /\ WholeRun \notin Tasks
    /\ HoldScopes \subseteq Tasks \cup {WholeRun}
    /\ MaxHolds \in Nat
    /\ MaxCrashes \in Nat

VARIABLES
    run,        \* status of the run
    rows,       \* AUD_TASK_RUN_LOG: status and whether rows were written
    attempt,    \* the latest attempt of each task
    child,      \* the child run of each trigger task
    gate,       \* what each cross-pipeline gate would judge now
    held,       \* scopes under a hold
    sched,      \* the scheduler's memory and where it is in its pass
    holds,      \* bound: holds requested so far
    crashes     \* bound: supervisors dead so far

vars == <<run, rows, attempt, child, gate, held, sched, holds, crashes>>

-----------------------------------------------------------------------------
Scopes == Tasks \cup {WholeRun}

Endings == TerminalStatuses \ {"CANCELLED"}   \* no step here cancels
RunStatuses == Endings \cup {"IN-PROGRESS"}
TaskStatuses == RunStatuses \cup {"absent"}

Active == {"QUEUED", "RUNNING"}     \* RUNNING stands for CLAIMED and RUNNING
AttemptStatuses == Active \cup {"absent", "SUCCESS", "FAILED", "HANDED_OFF"}

\* Numbers above the budget are not told apart any further.
NumberCap(t) == Retries[t] + 2

Rows == [status : TaskStatuses, wrote : BOOLEAN]
Attempts == [number : Nat, status : AttemptStatuses, retryable : BOOLEAN,
             due : {"none", "future", "due"}]

NoRow == [status |-> "absent", wrote |-> FALSE]
NoAttempt == [number |-> 0, status |-> "absent", retryable |-> FALSE, due |-> "none"]

Steps == {"none", "harvest", "observe", "refresh", "settle", "skip", "plan", "wait",
          "dispatch", "admit", "refused", "stopped", "judge", "end"}

Memory ==
    [pc : Steps,
     jobs : SUBSET Tasks,       \* tasks with an attempt under observation
     broken : SUBSET Tasks,     \* jobs whose claim was refused
     attempted : SUBSET Tasks,  \* not to be considered again
     final : BOOLEAN,           \* failures_final
     seen : SUBSET Scopes,      \* fences read in this pass
     basis : SUBSET Scopes,     \* fences read with the doomed tasks
     doomed : SUBSET Tasks,     \* still to be recorded SKIPPED
     ending : BOOLEAN,          \* finalize settles, not a pass
     skipped : BOOLEAN,         \* this pass recorded some
     retries : SUBSET Tasks,    \* delayed attempts read in this pass
     pending : SUBSET Tasks,
     any : BOOLEAN,             \* some task was ready in this pass
     todo : SUBSET Tasks,       \* ready, not yet dispatched
     gated : SUBSET Tasks,      \* those of them that need their gate
     waiting : BOOLEAN,         \* something will be due later
     verdict : RunStatuses]     \* finalize's judgement

\* A scheduler that has read nothing in this pass.
Idle(jobs, broken, attempted, final) ==
    [pc |-> "harvest", jobs |-> jobs, broken |-> broken, attempted |-> attempted, final |-> final,
     seen |-> {}, basis |-> {}, doomed |-> {}, ending |-> FALSE, skipped |-> FALSE, retries |-> {},
     pending |-> {}, any |-> FALSE, todo |-> {}, gated |-> {}, waiting |-> FALSE,
     verdict |-> "IN-PROGRESS"]

Gone == [Idle({}, {}, {}, FALSE) EXCEPT !.pc = "none"]

-----------------------------------------------------------------------------
Fenced(t) == held \cap {t, WholeRun} # {}

IsActive(t) == attempt[t].status \in Active

\* What retry_attempts and _queued_retry call a delayed, queued retry.
QueuedRetry(t) == attempt[t].status = "QUEUED" /\ attempt[t].due # "none"

\* Work that keeps the run's owner, so that nobody adopts it.
Outstanding ==
    \E t \in Tasks : \/ attempt[t].status = "RUNNING"
                     \/ attempt[t].status = "QUEUED" /\ attempt[t].due = "none"

\* queue_attempt: refused under a fence or beside an active attempt.
MayQueue(t) == ~Fenced(t) /\ ~IsActive(t) /\ run = "IN-PROGRESS"

NextAttempt(t, due) ==
    [number |-> IF attempt[t].number < NumberCap(t) THEN attempt[t].number + 1 ELSE NumberCap(t),
     status |-> "QUEUED", retryable |-> FALSE, due |-> due]

InProgress == [status |-> "IN-PROGRESS", wrote |-> FALSE]

EndedRow(status, wrote) == [status |-> status, wrote |-> wrote]

\* Rows as a reader sees them that regards the tasks of S as running.
WithRunning(S) == [t \in Tasks |-> IF t \in S THEN InProgress ELSE rows[t]]

\* Rows as graph.ready sees them: a queued retry counts as never run.
WithRetries(state, S) == [t \in Tasks |-> IF t \in S THEN NoRow ELSE state[t]]

First(S) == CHOOSE t \in S : \A u \in S : t <= u

-----------------------------------------------------------------------------
Init ==
    /\ run = "IN-PROGRESS"
    /\ rows = [t \in Tasks |-> NoRow]
    /\ attempt = [t \in Tasks |-> NoAttempt]
    /\ child = [t \in Tasks |-> "none"]
    /\ gate = [t \in CrossTasks |-> "running"]
    /\ held = {}
    /\ sched = Gone
    /\ holds = 0
    /\ crashes = 0

Goto(pc) == sched' = [sched EXCEPT !.pc = pc]

\* The scheduler returns, fails or dies: its memory is lost.
Leave == sched' = Gone

-----------------------------------------------------------------------------
(* One pass.                                                               *)

\* Ended attempts leave the jobs.
Harvest ==
    /\ sched.pc = "harvest"
    /\ sched' = [sched EXCEPT !.pc = "observe", !.broken = {},
                              !.jobs = {t \in @ \ sched.broken : IsActive(t)}]
    /\ UNCHANGED <<run, rows, attempt, child, gate, held, holds, crashes>>

\* Under a hold of the run the scheduler only waits for its jobs.
Observe ==
    /\ sched.pc = "observe"
    /\ \/ /\ WholeRun \notin held
          /\ sched' = [sched EXCEPT !.pc = "refresh", !.seen = held]
       \/ /\ WholeRun \in held
          /\ IF sched.jobs = {} THEN Goto("stopped") ELSE Goto("harvest")
    /\ UNCHANGED <<run, rows, attempt, child, gate, held, holds, crashes>>

Eligible == Tasks \ sched.jobs

\* The policy asks for another attempt of a task that failed.
FailedAttempt(t) ==
    \/ attempt[t].status = "FAILED"
    \/ attempt[t].status = "HANDED_OFF" /\ rows[t].status = "FAILED" /\ t \in RetryAny

Spent(t) ==
    \/ attempt[t].status = "HANDED_OFF" /\ ~FailedAttempt(t)
    \/ /\ FailedAttempt(t)
       /\ Retries[t] > 0
       /\ ~attempt[t].retryable \/ attempt[t].number > Retries[t]

Retryable(t) ==
    FailedAttempt(t) /\ Retries[t] > 0 /\ attempt[t].retryable /\ attempt[t].number <= Retries[t]

NewRetries == {t \in Eligible : Retryable(t)}

\* refresh_retries queues every retry in one transaction.
Refresh ==
    /\ sched.pc = "refresh"
    /\ \A t \in NewRetries : MayQueue(t)
    /\ attempt' = [t \in Tasks |-> IF t \in NewRetries THEN NextAttempt(t, "future") ELSE attempt[t]]
    /\ rows' = [t \in Tasks |-> IF t \in NewRetries THEN InProgress ELSE rows[t]]
    /\ LET retries == NewRetries \cup {t \in Eligible : QueuedRetry(t)}
           spent == {t \in Eligible : Spent(t)}
       IN  sched' = [sched EXCEPT !.pc = "settle", !.retries = retries,
                                  !.attempted = (@ \cup spent) \ retries]
    /\ UNCHANGED <<run, child, gate, held, holds, crashes>>

\* The pool of a scheduler that fails stops its processes.
StopPool ==
    LET stopped == {t \in sched.jobs : IsActive(t) /\ ~(attempt[t].status = "QUEUED" /\ Fenced(t))}
    IN  /\ attempt' = [t \in Tasks |-> IF t \in stopped
               THEN [attempt[t] EXCEPT !.status = "FAILED", !.retryable = FALSE] ELSE attempt[t]]
        /\ rows' = [t \in Tasks |-> IF t \in stopped THEN EndedRow("FAILED", FALSE) ELSE rows[t]]

\* A retry of a held task: RunRefusedError is not a StaleTransitionError, so
\* the transaction is rolled back and the scheduler fails.
RefreshRefused ==
    /\ sched.pc = "refresh"
    /\ \E t \in NewRetries : Fenced(t)
    /\ IF Cluster THEN UNCHANGED <<rows, attempt>> ELSE StopPool
    /\ Leave
    /\ UNCHANGED <<run, child, gate, held, holds, crashes>>

AfterSettling == IF sched.ending THEN "judge" ELSE "plan"

\* settle_unsatisfiable reads the rows and the fences; a held task counts as
\* running, so that its dependents stay pending.
Settle ==
    /\ sched.pc = "settle"
    /\ IF WholeRun \in held
       THEN Goto(AfterSettling)
       ELSE sched' = [sched EXCEPT !.pc = "skip", !.basis = held,
                          !.doomed = Unsatisfiable(WithRunning(held),
                                                   sched.final /\ ~sched.ending)]
    /\ UNCHANGED <<run, rows, attempt, child, gate, held, holds, crashes>>

\* Faulty FencesUnchanged: the fences are not read again.
FencesIgnored == TRUE

FencesUnchanged == held = sched.basis

\* Each doomed task is recorded in a transaction of its own, as long as the
\* fences are those read before.
Skip ==
    /\ sched.pc = "skip"
    /\ sched.doomed # {}
    /\ FencesUnchanged
    /\ LET t == First(sched.doomed)
       IN  /\ rows' = IF rows[t] = NoRow THEN [rows EXCEPT ![t] = EndedRow("SKIPPED", FALSE)] ELSE rows
           /\ sched' = [sched EXCEPT !.doomed = @ \ {t}, !.skipped = @ \/ rows[t] = NoRow]
    /\ UNCHANGED <<run, attempt, child, gate, held, holds, crashes>>

EndSettling ==
    /\ sched.pc = "skip"
    /\ sched.doomed = {} \/ ~FencesUnchanged
    /\ sched' = [sched EXCEPT !.pc = AfterSettling, !.doomed = {}]
    /\ UNCHANGED <<run, rows, attempt, child, gate, held, holds, crashes>>

\* The rows as this pass plans with them, and what is ready by them.
Plan ==
    /\ sched.pc = "plan"
    /\ LET state == WithRunning(sched.jobs)
           pending == {t \in Tasks \ sched.attempted : state[t].status \notin SettledStatuses}
           ready == (Ready(WithRetries(state, sched.retries)) \cap pending) \ sched.seen
       IN  sched' = [sched EXCEPT !.pc = "wait", !.pending = pending, !.todo = ready,
                         !.any = ready # {},
                         !.gated = {t \in ready : SatisfiedEdges(t, state, 0) < RequiredEdges(t)}]
    /\ UNCHANGED <<run, rows, attempt, child, gate, held, holds, crashes>>

RetryLater(t) == t \in sched.retries /\ QueuedRetry(t) /\ attempt[t].due = "future"

AwaitsChild(t) == attempt[t].status = "HANDED_OFF" /\ rows[t].status = "IN-PROGRESS"

\* Faulty EndedWaits: the child's end is not awaited.
EndedWaitsAtOnce == {t \in TriggerTasks : AwaitsChild(t) /\ ~Fenced(t)}

\* check_trigger_waits ends the trigger tasks whose child ended, unless held.
EndedWaits == {t \in TriggerTasks : AwaitsChild(t) /\ child[t] # "running" /\ ~Fenced(t)}

Wait ==
    /\ sched.pc = "wait"
    /\ rows' = [t \in Tasks |-> IF t \in EndedWaits THEN EndedRow(child[t], FALSE) ELSE rows[t]]
    /\ sched' = [sched EXCEPT !.pc = "dispatch",
                     !.waiting = (\E t \in sched.retries : RetryLater(t))
                                 \/ \E t \in TriggerTasks \ EndedWaits : AwaitsChild(t)]
    /\ UNCHANGED <<run, attempt, child, gate, held, holds, crashes>>

-----------------------------------------------------------------------------
(* Dispatch of the first ready task: its gate, preflight, admission.       *)

Dispatching(t) == sched.pc = "dispatch" /\ sched.todo # {} /\ t = First(sched.todo)

Drop(t) == [sched EXCEPT !.todo = @ \ {t}]

NoSlot == ~Cluster /\ Cardinality({t \in sched.jobs : IsActive(t)} \ sched.broken) >= Slots

\* A retry is not due, no slot is free, or the gate has to look again later.
Postpone(t) ==
    /\ Dispatching(t)
    /\ \/ (RetryLater(t) \/ NoSlot) /\ sched' = Drop(t)
       \/ /\ ~RetryLater(t)
          /\ ~NoSlot
          /\ t \in sched.gated
          /\ gate[t] = "running"
          /\ sched' = [Drop(t) EXCEPT !.waiting = TRUE]
    /\ UNCHANGED <<run, rows, attempt, child, gate, held, holds, crashes>>

\* What preflight reads afresh.
Judged(t) == ~RetryLater(t) /\ ~NoSlot /\ (t \in sched.gated => gate[t] # "running")

RunsElsewhere(t) ==
    \/ rows[t].status \in SettledStatuses
    \/ rows[t].status = "IN-PROGRESS" /\ ~QueuedRetry(t)

ConditionMet(t) ==
    SatisfiedEdges(t, rows, IF t \in sched.gated /\ gate[t] = "met" THEN 1 ELSE 0)
        >= RequiredEdges(t)

GateRefuses(t) ==
    t \in sched.gated /\ gate[t] = "unmet" /\ ~UpstreamPending(t, rows)

Pass(t) ==
    /\ Dispatching(t)
    /\ Judged(t)
    /\ ~RunsElsewhere(t)
    /\ ConditionMet(t)
    /\ Goto("admit")
    /\ UNCHANGED <<run, rows, attempt, child, gate, held, holds, crashes>>

\* A task its gate refused for good is recorded SKIPPED, unless it has run.
SkipRefused(t) ==
    /\ Dispatching(t)
    /\ Judged(t)
    /\ ~RunsElsewhere(t)
    /\ ~ConditionMet(t)
    /\ GateRefuses(t)
    /\ rows' = IF rows[t] = NoRow THEN [rows EXCEPT ![t] = EndedRow("SKIPPED", FALSE)] ELSE rows
    /\ sched' = [Drop(t) EXCEPT !.attempted = @ \cup {t}]
    /\ UNCHANGED <<run, attempt, child, gate, held, holds, crashes>>

\* Anything else that stops the task: nothing is recorded, and the scheduler
\* does not consider it again.  (preflight also looks for tasks that can
\* never run; a task that was ready is not among them.)
Block(t) ==
    /\ Dispatching(t)
    /\ Judged(t)
    /\ RunsElsewhere(t) \/ (~ConditionMet(t) /\ ~GateRefuses(t))
    /\ sched' = [Drop(t) EXCEPT !.attempted = @ \cup {t}]
    /\ UNCHANGED <<run, rows, attempt, child, gate, held, holds, crashes>>

Admitting(t) == sched.pc = "admit" /\ t = First(sched.todo)

Admitted(t) ==
    [Drop(t) EXCEPT !.pc = "dispatch", !.attempted = @ \cup {t}, !.final = FALSE,
                    !.jobs = @ \cup {t}]

\* admit_attempt takes a queued attempt as it is, or queues a new one.
Admit(t) ==
    /\ Admitting(t)
    /\ \/ /\ attempt[t].status = "QUEUED"
          /\ UNCHANGED <<rows, attempt>>
       \/ /\ MayQueue(t)
          /\ attempt' = [attempt EXCEPT ![t] = NextAttempt(t, "none")]
          /\ rows' = [rows EXCEPT ![t] = InProgress]
    /\ sched' = Admitted(t)
    /\ UNCHANGED <<run, child, gate, held, holds, crashes>>

AdmitRefused(t) ==
    /\ Admitting(t)
    /\ attempt[t].status # "QUEUED"
    /\ ~MayQueue(t)
    /\ sched' = [sched EXCEPT !.pc = "refused", !.attempted = @ \cup {t}, !.final = FALSE]
    /\ UNCHANGED <<run, rows, attempt, child, gate, held, holds, crashes>>

\* The fences are read again: a held task is considered again.
ReadFences(t) ==
    /\ sched.pc = "refused"
    /\ t = First(sched.todo)
    /\ sched' = [Drop(t) EXCEPT !.pc = "dispatch",
                                !.attempted = IF Fenced(t) THEN @ \ {t} ELSE @]
    /\ UNCHANGED <<run, rows, attempt, child, gate, held, holds, crashes>>

\* Faulty Progressed: a run with unsettled tasks goes on.
ProgressedWhilePending == sched.pending # {}

Progressed == sched.skipped \/ sched.any

\* The end of a pass: go on, declare failures final, or stop.
Check ==
    /\ sched.pc = "dispatch"
    /\ sched.todo = {}
    /\ IF sched.jobs # {} \/ sched.waiting
       THEN sched' = Idle(sched.jobs, sched.broken, sched.attempted, sched.final)
       ELSE IF sched.pending = {} \/ sched.seen # {} THEN Goto("stopped")
       ELSE IF ~sched.final THEN sched' = Idle({}, {}, sched.attempted, TRUE)
       ELSE IF Progressed THEN sched' = Idle({}, {}, sched.attempted, TRUE)
       ELSE Goto("stopped")
    /\ UNCHANGED <<run, rows, attempt, child, gate, held, holds, crashes>>

-----------------------------------------------------------------------------
(* The end of a supervision.                                               *)

\* _stopped_run leaves a fenced run; finalize settles once more.
Stopped ==
    /\ sched.pc = "stopped"
    /\ IF held # {} THEN Leave
       ELSE sched' = [Gone EXCEPT !.pc = "settle", !.ending = TRUE]
    /\ UNCHANGED <<run, rows, attempt, child, gate, held, holds, crashes>>

\* The tasks are data tasks; alert tasks would not count.
Judgement ==
    IF \E t \in Tasks : rows[t].status \notin SettledStatuses THEN "FAILED"
    ELSE IF \A t \in Tasks : rows[t].status = "SKIPPED" THEN "SKIPPED"
    ELSE "SUCCESS"

\* A run with a task in progress is left; otherwise it is judged.
Judge ==
    /\ sched.pc = "judge"
    /\ IF \E t \in Tasks : rows[t].status = "IN-PROGRESS" THEN Leave
       ELSE sched' = [sched EXCEPT !.pc = "end", !.verdict = Judgement]
    /\ UNCHANGED <<run, rows, attempt, child, gate, held, holds, crashes>>

EndRun ==
    /\ sched.pc = "end"
    /\ Leave
    /\ run' = IF held = {} /\ ~\E t \in Tasks : attempt[t].status = "RUNNING"
              THEN sched.verdict ELSE run
    /\ UNCHANGED <<rows, attempt, child, gate, held, holds, crashes>>

\* supervise_once adopts a run in progress that nobody owns.
Adopt ==
    /\ sched.pc = "none"
    /\ run = "IN-PROGRESS"
    /\ ~Outstanding
    /\ sched' = Idle(IF Cluster THEN {t \in Tasks : IsActive(t)} ELSE {}, {}, {}, FALSE)
    /\ UNCHANGED <<run, rows, attempt, child, gate, held, holds, crashes>>

-----------------------------------------------------------------------------
(* Everybody else.                                                         *)

\* Agents claim what is due.  The local pool claims its own jobs, under no
\* fence; a refused claim ends the job with an error.
Observed(t) == t \in sched.jobs \ sched.broken

Claim(t) ==
    /\ attempt[t].status = "QUEUED"
    /\ Cluster \/ (Observed(t) /\ ~Fenced(t))
    /\ attempt[t].due # "future"
    /\ attempt' = [attempt EXCEPT ![t].status = "RUNNING"]
    /\ UNCHANGED <<run, rows, child, gate, held, sched, holds, crashes>>

ClaimRefused(t) ==
    /\ attempt[t].status = "QUEUED"
    /\ ~Cluster
    /\ Observed(t)
    /\ Fenced(t)
    /\ sched' = [sched EXCEPT !.broken = @ \cup {t}]
    /\ UNCHANGED <<run, rows, attempt, child, gate, held, holds, crashes>>

\* The processes of the local pool end with their supervisor.
Works(t) == attempt[t].status = "RUNNING" /\ (Cluster \/ Observed(t))

Succeed(t, wrote) ==
    /\ Works(t)
    /\ t \notin TriggerTasks
    /\ attempt' = [attempt EXCEPT ![t].status = "SUCCESS"]
    /\ rows' = [rows EXCEPT ![t] = EndedRow("SUCCESS", wrote)]
    /\ UNCHANGED <<run, child, gate, held, sched, holds, crashes>>

\* FAILED, TIMED_OUT, and LOST once its owner is gone and the lease lapsed.
Fail(t, retryable) ==
    /\ attempt[t].status = "RUNNING"
    /\ Works(t) \/ retryable
    /\ attempt' = [attempt EXCEPT ![t].status = "FAILED", ![t].retryable = retryable]
    /\ rows' = [rows EXCEPT ![t] = EndedRow("FAILED", FALSE)]
    /\ UNCHANGED <<run, child, gate, held, sched, holds, crashes>>

HandOff(t) ==
    /\ Works(t)
    /\ t \in TriggerTasks
    /\ attempt' = [attempt EXCEPT ![t].status = "HANDED_OFF", ![t].retryable = TRUE]
    /\ child' = [child EXCEPT ![t] = "running"]
    /\ UNCHANGED <<run, rows, gate, held, sched, holds, crashes>>

\* A child run ends, or the wait for it passes its deadline.
ChildEnds(t, status) ==
    /\ child[t] = "running"
    /\ child' = [child EXCEPT ![t] = status]
    /\ UNCHANGED <<run, rows, attempt, gate, held, sched, holds, crashes>>

\* The upstream of a gate ends, or the gate's wait budget does.
GateSettles(t, judgement) ==
    /\ gate[t] = "running"
    /\ gate' = [gate EXCEPT ![t] = judgement]
    /\ UNCHANGED <<run, rows, attempt, child, held, sched, holds, crashes>>

BecomeDue(t) ==
    /\ attempt[t].due = "future"
    /\ attempt' = [attempt EXCEPT ![t].due = "due"]
    /\ UNCHANGED <<run, rows, child, gate, held, sched, holds, crashes>>

Hold(s) ==
    /\ run = "IN-PROGRESS"
    /\ s \notin held
    /\ holds < MaxHolds
    /\ held' = held \cup {s}
    /\ holds' = holds + 1
    /\ UNCHANGED <<run, rows, attempt, child, gate, sched, crashes>>

Release(s) ==
    /\ s \in held
    /\ held' = held \ {s}
    /\ UNCHANGED <<run, rows, attempt, child, gate, sched, holds, crashes>>

Crash ==
    /\ sched.pc # "none"
    /\ crashes < MaxCrashes
    /\ crashes' = crashes + 1
    /\ Leave
    /\ UNCHANGED <<run, rows, attempt, child, gate, held, holds>>

-----------------------------------------------------------------------------
Dispatch(t) ==
    Postpone(t) \/ Pass(t) \/ SkipRefused(t) \/ Block(t) \/ Admit(t) \/ AdmitRefused(t)
        \/ ReadFences(t)

Supervise ==
    \/ Harvest \/ Observe \/ Refresh \/ RefreshRefused \/ Settle \/ Skip \/ EndSettling
    \/ Plan \/ Wait \/ Check \/ Stopped \/ Judge \/ EndRun \/ Adopt
    \/ \E t \in Tasks : Dispatch(t)

Work(t) ==
    \/ Succeed(t, TRUE) \/ Succeed(t, FALSE) \/ Fail(t, TRUE) \/ Fail(t, FALSE) \/ HandOff(t)

Environment(t) ==
    \/ Claim(t) \/ ClaimRefused(t) \/ Work(t) \/ BecomeDue(t)
    \/ \E status \in {"SUCCESS", "FAILED"} : t \in TriggerTasks /\ ChildEnds(t, status)
    \/ \E judgement \in {"met", "unmet"} : t \in CrossTasks /\ GateSettles(t, judgement)

Next ==
    \/ Supervise
    \/ Crash
    \/ \E t \in Tasks : Environment(t)
    \/ \E s \in HoldScopes : Hold(s) \/ Release(s)

Spec == Init /\ [][Next]_vars

\* The controller ticks, agents and pools work, time passes, children and
\* gates come to an end.  Operators owe nothing.
FairSpec ==
    /\ Spec
    /\ WF_vars(Supervise)
    /\ \A t \in Tasks : WF_vars(Environment(t))

-----------------------------------------------------------------------------
(* Properties.                                                             *)

\* Every part of the state and of the scheduler's memory has its type.
TypeOK ==
    /\ run \in RunStatuses
    /\ rows \in [Tasks -> Rows]
    /\ attempt \in [Tasks -> Attempts]
    /\ child \in [Tasks -> {"none", "running", "SUCCESS", "FAILED"}]
    /\ gate \in [CrossTasks -> {"running", "met", "unmet"}]
    /\ held \in SUBSET Scopes
    /\ sched \in Memory
    /\ holds \in Nat
    /\ crashes \in Nat

\* The search for tasks that can never start finds the smallest set, on the
\* rows of every state, with failures final or not.
LoopFindsUnsatisfiable ==
    \A final \in BOOLEAN : UnsatisfiableLoop(rows, final) = Unsatisfiable(rows, final)

\* The scheduler, with its stale reads, its failures and its crashes, keeps
\* the contract of a run: see RunContract.
RunPromise ==
    INSTANCE RunContract WITH run <- run, rows <- rows, gate <- gate, held <- held

KeepsPromise == RunPromise!Spec

\* Left to itself a run ends, however often its supervisors fail or die;
\* except that the local pool may strand an attempt: queued, and observed by
\* no scheduler.
Stranded ==
    \E t \in Tasks : attempt[t].status = "QUEUED" /\ attempt[t].due = "none" /\ ~Observed(t)

RunEnds == <>[](held = {}) => <>(run # "IN-PROGRESS" \/ [](~Cluster /\ Stranded))

\* A task is attempted once, and then as often as its retry budget says.
AttemptsWithinBudget == \A t \in Tasks : attempt[t].number <= Retries[t] + 1

\* No task recorded SKIPPED has its condition met by its own upstreams, then
\* or later: what settle_unsatisfiable or a refused gate gives up is lost, unless
\* some failure was attempted again beyond its budget.
SkipsAreFinal ==
    AttemptsWithinBudget =>
        \A t \in Tasks : rows[t].status = "SKIPPED" =>
                             SatisfiedEdges(t, rows, 0) < RequiredEdges(t)

=============================================================================
