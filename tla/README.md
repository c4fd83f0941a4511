# etl-craft in TLA+

etl-craft is a metadata-driven orchestrator: pipelines of tasks with a dependency graph, run by a
controller or by direct commands, executed by a local process pool or by agents, with every fact
about execution kept in one Engine DB (SQLite or PostgreSQL). There is no in-memory state that
survives a process: correctness rests on guarded SQL updates, leases, and the order in which
several processes commit them. That is what these modules model.

Paths below are relative to `src/src/etl_craft/`.

## Inventory

| Component | State | Operations | Hard part |
|---|---|---|---|
| Lifecycle transitions (`engine/transitions.py`, `run_creation.py`, `dialects/engine/queries/transition_*.sql`) | run, task and attempt rows | create, admit, start, finish, mark, reopen, queue, claim, report, cancel, lose | concurrent writers of one row; a late writer |
| Run ownership (`execution/leases.py`, `reconcile.py`) | `OWNER_ID`, `LEASE_EXPIRES_AT` of runs and attempts | supervise, renew, release, reconcile | crash at any point, slow owner after a lapse |
| Finalization (`execution/run_finish.py`) | none (reads, then ends the run) | check idle, judge, finish | three transactions |
| Scoped controls (`engine/controls.py`, `execution/control_flow.py`, `services/operations/controls.py`, `recovery.py`) | `AUD_CONTROL_REQUESTS` | hold, release, stop, abort, recover, restart, advance | fences against queued and claimed work |
| Interventions (`execution/interventions.py`, `reruns.py`, `manual.py`) | rows above, `AUD_RUN_INTERVENTIONS` | mark, stand-in, reopen, reset | change of an ended run |
| Admission and claims (`execution/attempt_admission.py`, `runner.py`, `engine/agent_transitions.py`, `services/operations/agent_claims.py`) | attempt rows, capacity counts | queue, claim locally or by agent, start, report | two claim paths with different guards; limits |
| Retries, trigger waits (`execution/retries.py`, `trigger_waits.py`) | `NOT_BEFORE`, wait rows | persist a retry, settle a handed-off task | a control or a child run changing in between |
| Run scheduler (`execution/scheduler.py`, `pipeline.py`, `run_start.py`) | running futures, fences seen | step: harvest, observe, retry, settle, dispatch | liveness; one refused task stopping the loop |
| Dependency graph (`core/graph.py`) | none | waves, ready, unsatisfiable | conditions of edges and tasks |
| Controller (`controller/supervisor.py`, `leadership.py`, `schedules.py`, `restarts.py`, `engine/schedule_ticks.py`) | jobs, cursors, leadership | adopt, advance, tick, drain | failover, duplicated or missed ticks |
| Agents (`agent/`, `services/operations/agents.py`, `agent_reports.py`, `agent_capacity.py`) | agent rows, credentials, child tables | register, claim, renew, report, clean up | expiry against late reports |
| Resource locks (`engine/resource_locks.py`, `warehouse/fencing.py`) | lock rows with owner, lease, fencing | acquire, renew, release, take over | stale holder with a live query |
| Gates, events, trackers (`execution/gates.py`, `events.py`, `engine/repository/trackers.py`) | decisions, consumed revisions | judge, wait, consume | stale upstream |
| Standing pauses, timestamp windows, offsets | pause rows, pending windows | pin, apply; reserve, commit | resume or crash in the middle |
| Process and connection limits (`engine/process_reservations.py`, `connection_budget.py`) | host slots | reserve, renew, release | dead owners |
| Uploads, landing, protection | upload and protection rows | admit, recover | files and rows out of step |
| Definitions, catalog, migrations, handlers, warehouse, API, CLI, UI, configuration | metadata | sequential reads and writes | not a matter of interleavings |

Components interact through the Engine DB only, apart from a supervisor and its own pool
(futures in one process) and an agent and its API (request, reply). Notifications are hints:
polling gives the same result.

What makes each correct: a task has one active attempt and its row reports it; ended work is never
rewritten; an exclusive pipeline has one run in progress; a run has one supervisor, ends only by it
or by an operator, and only when nothing of it executes; a completed stop is quiet; a republished
output has a new revision; a crash never strands a run. `PROJECT.json` lists the hazards at their
lines, with the properties that cover them.

## Plan

Done, in this order: **RunLifecycle** (rows, ownership, controls, marks, retries, claims);
**RunScheduler** with the graph of `TaskGraph`, under the contract `RunContract`; **ResourceLocks**
under `ExclusiveOwners`; **ScheduleTicks** with leadership; **TimestampWindows**. Every safety property
that a passing run checks has its theorem.

Left, most important first:

1. Agents: registration, expiry, reports and cleanup, composed with the claims of RunLifecycle, and
   capacity at its limit.
2. Gates and trackers: which upstream run satisfies a gate and is consumed by it.
3. Standing pauses; process and connection limits; uploads.

## Modules

| Module | Contents |
|---|---|
| `RunLifecycle` | rows, owners and controls of runs, tasks and attempts |
| `MCRunLifecycle` | symmetry for TLC; every `RL_*.cfg` runs this module |
| `RunLifecycle_proofs`, `_safety`, `_ownership` | its row types and `Typing`; attempts, stops, endings, exclusion and the ledger; owners and published revisions |
| `TaskGraph`, `TaskGraph_proofs` | `core/graph.py` as operators on the rows of a run |
| `RunContract` | abstract: what a run promises, whoever drives it |
| `RunScheduler`, `RunScheduler_proofs` | the passes of `execution/scheduler.py` and what happens between their transactions; implements `RunContract` |
| `MCRunScheduler` | the graphs of the runs; every `RS_*.cfg` runs it |
| `ScheduleTicks`, `ScheduleTicks_proofs` | what the controller creates for one pipeline; `ST_ticks.cfg` runs the module itself |
| `ExclusiveOwners` | abstract: what locks promise those who write to a target |
| `ResourceLocks`, `ResourceLocks_proofs` | rows, leases, watchdogs, takeover; implements `ExclusiveOwners` |
| `MCResourceLocks` | who wants which target in `LK_locks.cfg` |
| `TimestampWindows`, `TimestampWindows_proofs` | a bounded timestamp cursor against late writers and a clock that goes back |
| `MCTimestampWindows` | symmetry of the reader's runs, for `TW_windows.cfg` |

Beside a mutated definition stands the faulty variant that the properties are tried against.

The modules meet at these places. RunLifecycle has every caller of the shared transitions and
leaves the scheduler's decisions open; RunScheduler has one caller and makes them. ScheduleTicks
creates the runs whose life RunLifecycle describes. ResourceLocks shows that one attempt at a time
writes to a target, which TimestampWindows assumes of the attempts of a source (`holder`).

### RunLifecycle and the code

| Variable | Code |
|---|---|
| `run[r]` | `STATUS`, `OWNER_ID`, `LEASE_EXPIRES_AT`, `REPAIR_PENDING`, `OUTPUT_REVISION` of `AUD_PIPELINES_RUN_LOG`, and whether it was created QUEUED (`waited`), so that a starter may have read it so |
| `task[r][t]` | `STATUS`, `ATTEMPT_COUNT` of `AUD_TASK_RUN_LOG`, and whether an operator marked it since its newest attempt |
| `attempt[r][t][n]` | `STATUS`, lease and `NOT_BEFORE` of `AUD_TASK_ATTEMPTS` |
| `fence[r][s]` | the latest of HOLD, RELEASE, STOP/ABORT, RECOVER per scope in `AUD_CONTROL_REQUESTS`; `"STOPPED"` is a completed stop |
| `supervises[s]` | the process behind one owner id: each `leases.supervise_run` call makes a new one |
| `verdict[s]` | what `finalize` holds between its transactions: nothing, "idle", or the outcome it judged |
| `published[r]` | history: the last published revision, and whether work was done since |

An action is one committed transaction, and its guard is the conjunction of the caller's checks made
in that transaction and the statement's `WHERE`. A refused call (`StaleTransitionError`) changes
nothing and is a step that is not enabled. The uniqueness guards of the code exist twice, in the
statement and as a unique index (`ux_pipeline_run_one_active`, `ux_attempt_one_active`); the model's
guard stands for both.

* Time is the two states of a lease and the three of a due time. Renewals are not actions: a lease
  that is renewed is one that does not lapse.
* Attempts are claimed at most once (a retry is a new row), so an attempt's number identifies its
  owner and the comparison of `OWNER_ID` reduces to status and lease.
* `STOP` stands for STOP and ABORT, which fence and complete alike; they differ in how soon child
  processes are signalled. Exit and query evidence, attempt lists pinned by a control, RESTART (a
  new run: `CreateRun`) and RUN_PAUSED are left out.
* `MarkTask --stale` is `LoseAttempt` followed by `MarkTask`. The branch of `mark_task_run` that
  cancels an active attempt is never reached: the caller refuses an IN-PROGRESS task without a
  handoff, and `SummaryFollowsAttempt` says an active attempt makes its task IN-PROGRESS.
* `ResetSkipped` keeps rows consumed by a downstream run or with rule runs in the code; the model
  resets any subset of rows in a step of its own, and all of them with a mark.
* `RefuseAdmission` is `_refuse_admission` of any starter that once read the run QUEUED; why permission
  is withdrawn is a choice. `_refuse_admission` may come after another starter's admission, see the
  observations.
* The verdict of a run (`run_finish.py:146-151`) leaves EMAIL_ALERT tasks out unless there are no others; here
  and in RunScheduler every task counts, as in a run without alert tasks. No property here depends on
  which outcome is judged; `KeepsPromise` does, and is about such runs.
* A task's outcome, which gate refuses, which retry is allowed and which task is unsatisfiable are
  choices. So the model has more behaviours than the code, never fewer, on these points.
* The reset of `OUTPUT_REVISION` to 0 when a standing pause was applied, capacity limits, event
  tasks, log paths and SLA are not modelled.

### RunScheduler and the code

| Variable | Code |
|---|---|
| `run` | `STATUS` of the run; it starts IN-PROGRESS and supervised |
| `rows[t]` | `AUD_TASK_RUN_LOG`: status, and whether rows were written (for HAS_DATA edges) |
| `attempt[t]` | the latest of `AUD_TASK_ATTEMPTS`: number, status, retryable, and whether `NOT_BEFORE` is unset, ahead or past |
| `child[t]` | the run that a trigger task handed off to (`execution/trigger_waits.py`) |
| `gate[t]` | what `execution/gates.py` would judge now: still waiting, met, refused |
| `held` | the scopes under a hold |
| `sched` | the object `Scheduler` and the local variables of `_step`; `pc` says where in the pass it is |

An action is one transaction or one read of a pass, in the order of `_step`: `Harvest`, `Observe`,
`Refresh`, `Settle` with its `Skip`s, `Plan`, `Wait`, one dispatch action per task (`Postpone`, `Pass`,
`SkipRefused`, `Block`, `Admit`, `AdmitRefused`, `ReadFences`), `Check`; then `Stopped`, `Judge` and
`EndRun` of `pipeline.py` and `run_finish.py`. What was read earlier stays in `sched` and is acted on
as it was. A supervisor dies (`Crash`) or is stopped by an exception (`RefreshRefused`, `StopPool`) and
another adopts the run with an empty memory.

Not modelled: force mode, event tasks, alert tasks, standing pauses, cancellation and stops (RunLifecycle has
them), backfill, slot kinds, operator marks and direct runs during a pass, preflight's unreachable
branches, and riding out a database outage. `Judge` merges `_running_elsewhere` and `_judge_run`, whose
gap is the subject of `quiet`. Delays and deadlines are choices.

`RunContract` speaks of the run, its rows, gates and holds only. A task starts when its condition is
met and nothing holds it, never beside itself; it is skipped when it can never start or its gate
refused it; the run ends once, idle and unheld, with the outcome that its rows give. The refinement
maps each variable to itself, so it is the scheduler's memory, its stale reads and the attempts that
are shown not to matter.

### ScheduleTicks and the code

| Variable | Code |
|---|---|
| `now` | time, counted in ticks of the schedule: tick n is due at instant n |
| `runs` | `AUD_PIPELINES_RUN_LOG` of the pipeline: id, trigger kind, key (the tick, or the run that is restarted), status |
| `lastId` | the sequence of run ids |
| `paused`, `resumed` | the pipeline's pause and `RESUMED_AT` of the last one |
| `lock` | the session that holds the controller's advisory lock (`controller/leadership.py`) |
| `ctl[c]` | a controller process: where it is in its pass, the cursor it read, the tick it looks at, what it kept for catch-up |

`Start`, `Wait`, `LoseSession`, `LosePass`, `Die` are leadership; a session that is lost leaves its process
acting on what it read until the next check. `ReadSchedule`, `ReadPauses`, `Keep`, `Look`, `Insert`,
`Collide` are `_advance` and `_create_tick` of `controller/schedules.py`: the cursor and the overlap are
read once, then every tick is its own transaction, with the unique trigger key as the last guard.
`FindRestart` and `Restart` are `controller/restarts.py`. `Resume` has the three choices of the resume
command, which create or put aside the ticks missed during a pause.

Not modelled: changes of the schedule, backfill dates, catalog refresh, draining. Runs are admitted
and end as they like.

### ResourceLocks and the code

| Variable | Code |
|---|---|
| `row[k]` | `AUD_RESOURCE_LOCKS`: holder and the rest of the lease |
| `att[h]` | the rest of the attempt's own lease, 0 once its ending is recorded |
| `at[h]` | where the holder's process is: waiting, granted, at work, released, abandoned, gone |
| `until[h]` | the rest to the deadline at which its watchdog kills it |
| `offer[h]` | the deadline in the answer to a renewal that is on its way |
| `asked[h]`, `memo[h]` | `_wait_resources`: the row looked at, and the holder it confirmed as stopped per key |
| `writing` | holders with a statement in the warehouse, which outlives the process |

Timers count down in steps at one rate everywhere. A request reaches the database at once and its answer
is late by any time; a watchdog is at most `Grace` late and has started before the work does; the ending
of an attempt is recorded only once its process is gone.

Not modelled: nested holds and the agent API's shortcut for keys already owned; warehouses without
session fencing. Of several missing keys the code looks at
the first, the model at any.

`ExclusiveOwners`: a holder takes all its keys at once, writes only while it has them, and loses them
only when it neither works nor has a statement running. The owner of a key maps to the row's holder
(a stale row included), work to a process that is at it.

### TimestampWindows and the code

| Variable | Code |
|---|---|
| `clock` | the Engine DB's clock |
| `status`, `started` | `AUD_TASK_ATTEMPTS` of the source attempts; `STARTED_AT` stamps every row an attempt writes |
| `process`, `query` | what really runs of a source attempt: its process, a statement in the warehouse |
| `acks` | `AUD_ATTEMPT_ACKNOWLEDGEMENTS`: which of them an operator has stated to be over |
| `rows` | the batches an attempt has committed |
| `holder` | the latest attempt of a source that held the target's lock |
| `offset` | the reader's row of `AUD_TASK_OFFSET_TRACKER`: cursor, last write, pending owner and high |
| `range` | the frozen `WATERMARK_FROM` and `WATERMARK_TO` of the reader's task runs |
| `reader` | the reader's running attempt and what its SELECT saw |
| `delivered` | history: the batches that successful reads have taken |

`Admit` is `admit_window`: clock check, pending window or a fresh one, bounded by the start of every
source attempt that may still write. A task run of a source may be attempted again after a failure, a
loss or a success. `Commit` is the success of the reader, `Release`
`window_release_scope`, `Reset` an operator's backward reset of the cursor.

Assumed: `settle_sources` does not change a state by itself but gives `Lose` and `Observe`; a source's
reported ending ends its process; the success of a retry settles the older attempts of its source,
because a handler holds the target's lock for all its work and the lock passes on only when older
statements have ended (`WritersExclude`). The clock does not go
back behind the high of a released window: an assumption about the environment, in the guards of `SetBack`
and `Release`, since the code makes no such check (see the observations). Only the reader's own tracker row is in the clock's floor.
Not modelled: backfill windows, task runs that nobody owns, NUMBER and TEXT watermarks, forward
resets.

## Runs

`locks` checks for deadlock. The other configurations set `CHECK_DEADLOCK FALSE`: runs end, time,
attempts and clocks reach their bounds, supervisor ids are used once, so the model stops where the
system, or the bound, does.

| Run | Instance | Shows |
|---|---|---|
| `attempts` | 1 run, 1 task, 2 attempts, 2 revisions, local pool, controls of task and run | row consistency, completed stops, idle endings (but for a late refusal), frozen outcomes, ownership, revisions |
| `runs` | 2 exclusive runs, 2 supervisors, no attempts | exclusion, endings by the owner only |
| `cluster` | 1 run, 2 tasks, agents, whole-run controls, fair | a stop covers both tasks; a dead supervisor's run becomes adoptable |
| `contract` | 3 tasks (data, success and failure edges, ANY, N and ALL, a gate, a child run, a retry), local pool of 2, 1 hold, 1 death, fair | the scheduler implements `RunContract`; the search for unsatisfiable tasks finds the smallest set; skips are final within the retry budgets; the run ends |
| `ticks` | 3 ticks, the first due at the start and the second closed, catch-up of 1, overlap SKIP, 2 controllers, 1 fault, 1 pause or manual run, 1 restart, fair | ticks are recorded, in order; skipped overlaps do not pile up; restarts happen |
| `locks` | 2 targets; an action on one, an agent's attempt on the other that may ask again, a local attempt on both; lease 3, margin 2, watchdog 1 late, fair | the locks implement `ExclusiveOwners`; writers hold their rows; what the dead leave moves on |
| `windows` | 1 source task run with 2 attempts, 2 runs of the reader, clock up to 2, 1 batch per attempt, 2 reads, 1 setback, 1 reset | no committed row is passed over; a frozen window is closed; the cursor moves over its window |
| `agent_fence`, `quiet`, `reopenable`, `adopt_local`, `extra_attempt` | smallest instances | the disagreements below |

Bounds. `attempts`, `runs`, `cluster`: two attempts give a retry, a late report about the first while
the second is queued, and number reuse after a reset. Two revisions give one repair. Two runs and two
supervisors are the smallest instance with a competitor and a replaced owner; `runs` has no attempts
because exclusion does not read them. Two tasks under one control tell "some task" from "every task".
One supervisor id in `attempts` suffices to take, lose and leave a run; the replaced owner is in `runs`.

`contract`: three tasks have each dependency type but ALWAYS, each run condition, a task that a failure
upstream starts and another that it dooms, and a repetition that undoes a condition. One hold and one death can fall between any two steps of a pass.

`ticks`: three ticks have one before and one after a closed day. A late first instant gives a catch-up
at once. Two controllers and one fault give the leader that lost its lock and acts beside the next.

`locks`: lease 3, margin 2 and grace 1 are the smallest with `Grace < Margin < Lease`, where a lease cut
short by its attempt can be below the margin. Three holders give a waiter that has to stop two dead
holders of two keys while a third comes in.

`windows`: two attempts give a late statement of a lost one beside its retry; two reader runs give a
pending window left by another; the clock shows two moments, so a stamp can be before, in and after a
window.

Fairness. RunLifecycle (`FairSpec`, liveness runs only): `supervise_once` reconciles on every tick, so
expired attempts and runs are reconciled and time passes (weak fairness of lapses of dead owners,
`ReconcileRun`, `BecomeDue`); executing work ends or its lease lapses and is reconciled
(`EndOrLapse`); agents poll (`ClaimByAgent`); a living local supervisor offers its queued work to
its pool (`ClaimLocally` while supervised); a supervisor leaves a run that is no longer in progress.
RunScheduler: the scheduler's loop and the controller's adoption go on (`Supervise`); attempts are
claimed and end, times come, children and gates come to an end (`Environment` of each task: budgets and
deadlines bound every wait). ScheduleTicks: a service manager starts some controller while none leads,
and the loop of each goes on (`Work`); time, runs and operators owe nothing. ResourceLocks: time passes,
the watchdog thread acts (`Fence`), statements end, and a waiter polls (`WaitStep`); nothing obliges a
holder to finish its work or to release. Operators owe nothing anywhere: `RunEnds` asks for an end
only when holds are gone for good.

## Where the code and its documents disagree

* **`agent_fence`**: an agent's claim reads no control, so an attempt queued before a hold starts under
  it (`engine/agent_transitions.py:20`; the docstring of `controls.guard_attempt` and the run control
  guide say that holds fence claims). The local claim is fenced. A stop is not affected: it cancels
  the queued attempts, and `StoppedScopeIsQuiet` holds with agents.
* **`quiet`**: `finalize` checks that nothing is in progress in one transaction and ends the run in
  another that looks at CLAIMED and RUNNING attempts only; an attempt queued in between is left
  under the ended run.
* **`reopenable`**: a supervisor that dies after ending its run and before releasing it leaves an
  owner on the ended run that no statement clears; the run can then be neither reopened, nor
  marked, nor recovered.
* **`adopt_local`**: with the local pool, a supervisor that dies while an attempt is queued (and not
  delayed) leaves a run that reconciliation never releases, since queued work counts as
  outstanding, and that only its dead owner could have claimed from. With agents the same property
  holds (`cluster`).
* **`extra_attempt`**: what is out of its retry budget is remembered by one `Scheduler` only
  (`execution/retries.py:131` passes over tasks without retries), and a run left because another task is held is
  adopted again on each controller tick; each adoption executes the failed task once more
  (`docs/guides/running-tasks.md:75`: restarting a supervisor does not grant extra attempts). If that
  attempt succeeds, a dependent that was skipped when the failure was final stays skipped with its
  condition met. This is why `SkipsAreFinal` speaks of runs within their budgets.

## Observations

Met while modelling; the properties are stated so that they leave them out, or the named bound does.

* A starter reads a run QUEUED, waits for its gate, and only then, at `run_start.py:237`, refuses the admission
  if permission was withdrawn. The cancellation (`transition_cancel_run.sql`) asks for an open run without
  owner and reads no attempts. Another starter may have admitted the run meanwhile, and a direct task
  command may have an attempt running under it: the run is then ended over executing work, while
  `transitions.finish_run` is described as "End an active run only when no claimed or running attempt
  remains". `RunsEndIdle` excepts exactly this step (`RefuseAdmission`); without the exception TLC finds
  Create QUEUED, Admit, Queue, Claim, Refuse.

* With agents, a delayed retry that has become due may be claimed before the scheduler admits it: the
  claim (`transition_reserve_attempt.sql`) does not ask the scheduler. If it succeeds meanwhile, the
  scheduler queues the task again, and `KeepsPromise` fails; if it fails unobserved between
  `refresh_retries` and the settling of the pass, dependents are skipped although a further retry
  follows, and `SkipsAreFinal` fails (TLC finds both with one and two retries). `contract` uses the
  local pool, and the theorems that need it say so (`AwaitAdmission`).
* A due retry of a held task is refused by `queue_attempt`, and the refusal leaves `refresh_retries`
  (`execution/retries.py:138`) and ends the run's scheduler (`RefreshRefused`); the next controller tick adopts
  the run. `RunEnds` holds nevertheless.
* A hold seen by the last pass and released before `pipeline.py:285` looks again lets the run end with a
  ready task that never ran. The contract allows this ending: the run is idle and unheld, and FAILED.
* A failed task whose FAILURE or ALWAYS dependent never ran is dispatched again in the same pass and
  blocks it.
* With the local pool, a hold between queueing and claiming leaves an attempt that no scheduler
  observes; `RunEnds` excludes it by name (`Stranded`), `adopt_local` is the same state after a crash.
* A restart is due only while its run is the latest one, so a tick that the overlap policy skips masks
  it (`controller_restarts.sql:9`; `docs/development/road-to-1.0.0.md:1388` describes the condition on the ended run).
* A closed day's tick is recorded as it is scanned, the open ticks kept for catch-up after the scan; a
  crash in between moves the cursor over them (`schedules.py:74`). `Missing` and `OnlyClosedDaysOvertake`
  except exactly these.
* A waiter remembers a confirmed stop by the holder's name (`resource_locks.py:308`). A holder of a fixed
  identity, such as an archive, that released, acquired again and died with a statement running could be
  passed over without a new stop. The theorems about locks assume that only attempts of agents ask
  again (`Repeat`), whose rows lapse no sooner than the attempt itself.
* The high of a released window is no longer in the clock's floor (`window_clock_floor.sql`). Were the
  clock to go back behind it, a source to start then, and the released run to be read again, its frozen
  high would pass over that source's rows. Neither releasing (`control_flow.py:183`) nor that floor checks
  this; `SetBack` and `Release` assume it away, and what is checked and proved of windows rests on it.

## Proofs

The proofs are for every value of the constants that satisfies the module's assumptions.

RunLifecycle (`ConstantsAssumption`): any number of runs, tasks, supervisors, attempts and revisions,
local or agents.

* `Typing`: `TypeOK` is inductive. One lemma per kind of row says that the row operators keep its
  type; the step is split by action.
* `Freezing`: no action changes an ended attempt. `AttemptChanges` lists what an attempt may change
  to: each change starts from an active status.
* `Summaries` and `Ordering`: with `TypeOK`, `Ledger` (the two invariants together) is inductive. Neither
  is alone: a new attempt's number is free because the count bounds the ledger, and resets are
  harmless because an active attempt's task is not SKIPPED.
* `Stopping`: inductive together with `TypeOK`; `AttemptChanges` says an attempt becomes active only
  from absent, under an unfenced scope of a run in progress (`QuietStays`), and `FenceChanges` that a fence becomes `"STOPPED"`
  only in `AdvanceStop`.
* `IdleEndings`: an action property; it uses that a run not yet started has no attempt
  (`IdleUntilStarted`), which is why a stop of a QUEUED run and a refused admission that is in time are idle. The late
  refusal is the property's exception.
* `Exclusion`: inductive by itself given the types; `RunChanges` lists the ways a run enters
  IN-PROGRESS, each under `MayActivate`.

* `Yielding` and `OwnedEndings`: action properties that need the types only; `OwnershipChanges` lists
  what a step may do to an owned run.
* `Republishing`: `PublicationInv` is inductive. It says that what was published is behind the run's
  revision, or is that revision and then the run is under repair or ended with no work since. The
  property alone is not inductive: it says nothing of a run between reopening and its next success.

TaskGraph (`GraphAssumption`): any finite graph, conditions and rows.

* `LoopIsComplete`: the least set of tasks that can never start, defined as an intersection of closed
  sets (`Doomed`), is what the loop of `DependencyGraph.unsatisfiable` returns. Every round of the loop is
  within it, and rounds grow until one adds nothing, which is closed. As the library's induction takes
  an operator as a parameter, rounds are counted by a least counterexample (`LeastNumber`, `Countdown`).
* The lemmas after it say how the set moves: it grows with the edges that are lost (`DoomedMonotonic`),
  and a task in it stays in it until its row is written (`DoomedUntilSkipped`, `DoomedStays`).

RunScheduler (`GraphAssumption`, `SchedulerAssumption`): any graph, gates, budgets, pool and bounds.

* `TypeCorrect`: inductive with `HandOffsHaveChildren`. `LoopFinds`: `LoopIsComplete` at the rows of a state.
* `PromiseKept`: every step from a state with `Keeping` is a step of `RunContract` or a stutter. The
  scheduler writes on the strength of what it read some transactions earlier, so `Keeping` says what of
  it still holds at the write: rows and attempts agree (`Ledger`); whatever may run is among the
  scheduler's jobs (`Observing`); a task about to be dispatched is not (`Planned`) and what preflight found
  met is met (`Passed`); the verdict is still the outcome (`StillJudged`); a task found doomed stays so
  until it is recorded (`StillDoomed`). It is inductive because between two steps of the scheduler only
  running tasks change their rows, and they only end, which loses edges and never regains one.
* `SkipsFinal`: adds that no retry is left to be taken when a pass settles or chooses (`RetriesTaken`),
  that a gate is asked only about a task whose own upstreams are decided (`UpstreamsDecided`), and that
  what was skipped is doomed by rows that are final (`SkippedForGood`), all within the budgets.
* Both assume `AwaitAdmission`: agents, or retries, not both. Without it both properties
  are false of the code (first observation).

ScheduleTicks (`TicksAssumption`): any number of ticks, closed days and controllers, any catch-up.

* `TypeCorrect`: the types of the log and of the controllers' memories; that what a controller keeps
  are open ticks of its pass and fit `Retain` is part of it.
* `RunsDoNotPileUp`: `PileInv` counts, beside the automatic runs that are active, the runs that a
  controller may still queue on what it read (`Slots`): as many as catch-up takes while it scans, then
  those it keeps, or the restart it found. A controller gets this room only where it reads that nothing
  is active, so then there are no automatic runs, and at most `Retain` slots for each controller in its
  loop. Those are one more than the faults, because only a fault makes a controller run without the lock
  (`Sessions`). A resume adds at most one catch-up (`RetainedBounded`), and there was a pause before it.
* `OvertakenOnlyByClosedDays`: `OrderInv` adds what a controller knows of the ticks behind it. Those of
  its pass are recorded or kept (`Scanned`); those at or before its cursor are recorded, put aside by a
  resume, or overtaken by a recorded closed day (`Passed`). The property alone is not inductive: it says
  nothing of a controller that acts on an old cursor. Both survive another controller's step because
  records stay and the resume boundary only advances (`Grows`).

ResourceLocks (`LocksAssumption`, `Grace < Margin < Lease`): any holders and keys.

* `TypeCorrect`: the types, which bound the deadlines.
* `WritersExclude`: `LockInv` says that the rows and the attempt of a process that may still write outlast
  its deadline, the present one and the one on its way, by the margin (`Outlasts`). So a stale row is of
  a process that is spent; what a waiter has confirmed is spent and writes no more (`MemoIsSpent`), and
  only that is taken over.
* `ImplementsExclusiveOwners`: every step from a state with `LockInv` maps to a step of `ExclusiveOwners`
  or a stutter. Both assume `Repeat \subseteq Agents` (see the observations).

TimestampWindows (its three assumptions): any sources, attempts, reader runs and bounds, and a clock that
may go back, but not behind the high of a released window (the guards of `SetBack` and `Release`).

* `Invariant`: `WindowInv` is inductive. The attempts' rows say what may still run (`AttemptsInOrder`,
  `EndingsAreTrue`); every frozen high is behind the clock, or the tracker refuses the clock until it
  is (`HighsAreFenced`, `CursorIsBehind`); the pending window is the one its owner froze (`PendingIsFrozen`,
  `ReaderHoldsItsWindow`); no window and no cursor is over the start of an attempt that may still write
  (`FencesHold`). It contains the two invariants of the run.
* `TypeCorrect`, `NothingPassedOver`, `ReadWindowsClosed`, `CursorMovesOverItsWindow` follow from it.

Only model-checked: all liveness (`CrashedRunIsAdoptable`, `RunEnds`, `TicksAreRecorded`, `RestartsHappen`,
`AbandonedLocksMove`; fairness is beyond the proof system) and the
disagreements. `KeepsPromise` and `SkipsAreFinal` are not claimed for agents with retries, where they are false.

## Not modelled

Agents beyond their claims, leases and locks; gates' choice of an upstream run; standing pauses; process
and connection limits; uploads: state machines of their own, next in the plan. Handlers, SQL
generation, definitions, catalog, migrations, API, CLI, UI and configuration are most of the repository's
lines and have no interleavings of their own: sequential transformations of metadata, text and
requests, covered by the repository's tests. An attempt's outcome stands for what a handler does.
