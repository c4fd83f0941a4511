------------------------- MODULE RunScheduler_proofs -------------------------
(***************************************************************************)
(* Proofs about the run scheduler, for any graph, retry budgets, gates and *)
(* bounds: its types; that the loop of the graph finds the tasks that can  *)
(* never start; that the scheduler keeps RunContract; and that skips are   *)
(* final within the retry budgets.  The last two ask that no agent claims  *)
(* a retry which the scheduler has not admitted (AwaitAdmission).          *)
(***************************************************************************)
EXTENDS RunScheduler, TaskGraph_proofs, TLAPS

-----------------------------------------------------------------------------
(* Types.                                                                  *)

\* A trigger task that handed off has a child run.
HandOffsHaveChildren == \A t \in Tasks : attempt[t].status = "HANDED_OFF" => child[t] # "none"

TypeInv == TypeOK /\ HandOffsHaveChildren

LEMMA StatusNames ==
    /\ "absent" \in TaskStatuses /\ "IN-PROGRESS" \in TaskStatuses /\ "SKIPPED" \in TaskStatuses
    /\ "SUCCESS" \in TaskStatuses /\ "FAILED" \in TaskStatuses
    /\ InProgress \in Rows /\ NoRow \in Rows
    /\ \A wrote \in BOOLEAN : \A s \in TaskStatuses : EndedRow(s, wrote) \in Rows
    /\ Endings = {"SUCCESS", "SKIPPED", "FAILED"}
    /\ RunStatuses = {"SUCCESS", "SKIPPED", "FAILED", "IN-PROGRESS"}
    /\ TaskStatuses = {"SUCCESS", "SKIPPED", "FAILED", "IN-PROGRESS", "absent"}
  BY DEF TaskStatuses, RunStatuses, Endings, TerminalStatuses, SettledStatuses, InProgress, NoRow,
         EndedRow, Rows

LEMMA IdleType ==
    ASSUME NEW jobs \in SUBSET Tasks, NEW broken \in SUBSET Tasks,
           NEW attempted \in SUBSET Tasks, NEW final \in BOOLEAN
    PROVE  Idle(jobs, broken, attempted, final) \in Memory
  BY StatusNames DEF Idle, Memory, Steps

LEMMA GoneType == Gone \in Memory
<1>1. Idle({}, {}, {}, FALSE) \in Memory
  BY IdleType
<1> QED
  BY <1>1 DEF Gone, Memory, Steps

LEMMA GotoType ==
    ASSUME NEW m \in Memory, NEW pc \in Steps
    PROVE  [m EXCEPT !.pc = pc] \in Memory
  BY DEF Memory

LEMMA NextAttemptType ==
    ASSUME TypeOK, NEW t \in Tasks, NEW due \in {"none", "future", "due"}
    PROVE  NextAttempt(t, due) \in Attempts
  BY SchedulerAssumption DEF TypeOK, NextAttempt, NumberCap, Attempts, AttemptStatuses, Active

LEMMA TypeInit == Init => TypeInv
<1> SUFFICES ASSUME Init PROVE TypeInv
  OBVIOUS
<1>1. NoAttempt \in Attempts /\ NoAttempt.status = "absent"
  BY DEF NoAttempt, Attempts, AttemptStatuses, Active
<1>2. TypeOK
  BY <1>1, GoneType, StatusNames DEF Init, TypeOK
<1>3. HandOffsHaveChildren
  BY <1>1 DEF Init, HandOffsHaveChildren
<1> QED
  BY <1>2, <1>3 DEF TypeInv

\* The scheduler's memory has its type after each of its steps.
LEMMA MemoryStep ==
    ASSUME TypeOK, Supervise \/ Crash
    PROVE  sched' \in Memory
<1> USE DEF TypeOK
<1>1. CASE Harvest
  BY <1>1 DEF Harvest, Memory, Steps
<1>2. CASE Observe
  <2>1. [sched EXCEPT !.pc = "refresh", !.seen = held] \in Memory
    BY DEF Memory, Steps
  <2>2. "stopped" \in Steps /\ "harvest" \in Steps
    BY DEF Steps
  <2> QED
    BY <1>2, <2>1, <2>2, GotoType DEF Observe, Goto
<1>3. CASE Refresh
  <2>1. NewRetries \cup {t \in Eligible : QueuedRetry(t)} \in SUBSET Tasks
        /\ {t \in Eligible : Spent(t)} \in SUBSET Tasks
    BY DEF NewRetries, Eligible
  <2> QED
    BY <1>3, <2>1 DEF Refresh, Memory, Steps
<1>4. CASE Settle
  <2> DEFINE D == Unsatisfiable(WithRunning(held), sched.final /\ ~sched.ending)
  <2>1. D \in SUBSET Tasks
    BY DEF Unsatisfiable
  <2>2. [sched EXCEPT !.pc = "skip", !.basis = held, !.doomed = D] \in Memory
    BY <2>1 DEF Memory, Steps
  <2>3. AfterSettling \in Steps
    BY DEF AfterSettling, Steps
  <2> QED
    BY <1>4, <2>1, <2>2, <2>3, GotoType DEF Settle, Goto
<1>5. CASE Skip
  BY <1>5 DEF Skip, Memory
<1>6. CASE EndSettling
  BY <1>6 DEF EndSettling, AfterSettling, Memory, Steps
<1>7. CASE Plan
  BY <1>7 DEF Plan, Memory, Steps
<1>8. CASE Wait
  BY <1>8 DEF Wait, Memory, Steps
<1>9. CASE Check
  <2>1. sched' \in {Idle(sched.jobs, sched.broken, sched.attempted, sched.final),
                    Idle({}, {}, sched.attempted, TRUE), [sched EXCEPT !.pc = "stopped"]}
    BY <1>9 DEF Check, Goto
  <2>2. /\ "stopped" \in Steps
        /\ sched.jobs \in SUBSET Tasks /\ sched.broken \in SUBSET Tasks
        /\ sched.attempted \in SUBSET Tasks /\ sched.final \in BOOLEAN
    BY DEF Memory, Steps
  <2> QED
    <3>1. Idle(sched.jobs, sched.broken, sched.attempted, sched.final) \in Memory
      BY <2>2, IdleType
    <3>2. Idle({}, {}, sched.attempted, TRUE) \in Memory
      BY <2>2, IdleType
    <3>3. [sched EXCEPT !.pc = "stopped"] \in Memory
      BY <2>2, GotoType
    <3> QED
      BY <2>1, <3>1, <3>2, <3>3
<1>10. CASE Stopped
  <2>1. [Gone EXCEPT !.pc = "settle", !.ending = TRUE] \in Memory
    BY GoneType DEF Memory, Steps
  <2> QED
    BY <1>10, <2>1, GoneType DEF Stopped, Leave
<1>11. CASE Judge
  <2>1. Judgement \in RunStatuses
    BY StatusNames DEF Judgement
  <2>2. [sched EXCEPT !.pc = "end", !.verdict = Judgement] \in Memory
    BY <2>1 DEF Memory, Steps
  <2> QED
    BY <1>11, <2>2, GoneType DEF Judge, Leave
<1>12. CASE EndRun \/ Crash \/ RefreshRefused
  BY <1>12, GoneType DEF EndRun, Crash, RefreshRefused, Leave
<1>13. CASE Adopt
  BY <1>13, IdleType DEF Adopt
<1>14. ASSUME NEW t \in Tasks, Dispatch(t) PROVE sched' \in Memory
  <2>1. Drop(t) \in Memory
    BY DEF Drop, Memory
  <2>2. /\ [Drop(t) EXCEPT !.waiting = TRUE] \in Memory
        /\ \A S \in SUBSET Tasks : [Drop(t) EXCEPT !.attempted = S] \in Memory
        /\ \A S \in SUBSET Tasks : [Drop(t) EXCEPT !.pc = "dispatch", !.attempted = S] \in Memory
        /\ \A S \in SUBSET Tasks :
               [sched EXCEPT !.pc = "refused", !.attempted = S, !.final = FALSE] \in Memory
        /\ Drop(t).attempted \in SUBSET Tasks /\ sched.attempted \in SUBSET Tasks
    BY <2>1 DEF Memory, Steps
  <2>3. Admitted(t) \in Memory
    BY <2>1 DEF Admitted, Memory, Steps
  <2>4. CASE Postpone(t)
    BY <2>1, <2>2, <2>4 DEF Postpone
  <2>5. CASE Pass(t)
    BY <2>5, GotoType DEF Pass, Goto, Steps
  <2>6. CASE SkipRefused(t) \/ Block(t)
    <3>1. sched' = [Drop(t) EXCEPT !.attempted = Drop(t).attempted \cup {t}]
      BY <2>6 DEF SkipRefused, Block
    <3> QED
      BY <2>2, <3>1
  <2>7. CASE Admit(t)
    BY <2>3, <2>7 DEF Admit
  <2>8. CASE AdmitRefused(t)
    BY <2>2, <2>8 DEF AdmitRefused
  <2>9. CASE ReadFences(t)
    BY <2>2, <2>9 DEF ReadFences
  <2> QED
    BY <1>14, <2>4, <2>5, <2>6, <2>7, <2>8, <2>9 DEF Dispatch
<1> QED
  BY <1>1, <1>2, <1>3, <1>4, <1>5, <1>6, <1>7, <1>8, <1>9, <1>10, <1>11, <1>12, <1>13, <1>14
     DEF Supervise

\* A step that leaves children, gates and fences alone and hands nothing off.
LEMMA InternalType ==
    ASSUME TypeInv,
           run' \in RunStatuses, rows' \in [Tasks -> Rows], attempt' \in [Tasks -> Attempts],
           sched' \in Memory, crashes' \in Nat, UNCHANGED <<child, gate, held, holds>>,
           \A t \in Tasks : attempt'[t].status = "HANDED_OFF" => attempt[t].status = "HANDED_OFF"
    PROVE  TypeInv'
<1>1. TypeOK'
  BY DEF TypeInv, TypeOK
<1>2. HandOffsHaveChildren'
  BY DEF TypeInv, HandOffsHaveChildren
<1> QED
  BY <1>1, <1>2 DEF TypeInv

LEMMA SuperviseType ==
    ASSUME TypeInv, Supervise \/ Crash
    PROVE  TypeInv'
<1>0. TypeOK /\ sched' \in Memory
  BY MemoryStep DEF TypeInv
<1> DEFINE Others == crashes' \in Nat /\ UNCHANGED <<child, gate, held, holds>>
           NoHandOff == \A t \in Tasks : attempt'[t].status = "HANDED_OFF"
                                             => attempt[t].status = "HANDED_OFF"
           Fits == /\ run' \in RunStatuses
                   /\ rows' \in [Tasks -> Rows]
                   /\ attempt' \in [Tasks -> Attempts]
                   /\ NoHandOff
                   /\ Others
<1> SUFFICES Fits
  BY <1>0, InternalType
<1>1. CASE UNCHANGED <<run, rows, attempt, child, gate, held, holds>> /\ crashes' \in Nat
  BY <1>0, <1>1 DEF TypeOK
<1>2. CASE Harvest \/ Observe \/ Settle \/ EndSettling \/ Plan \/ Check \/ Stopped \/ Judge
           \/ Adopt \/ Crash
  <2>1. UNCHANGED <<run, rows, attempt, child, gate, held, holds>> /\ crashes' \in Nat
    <3>1. CASE Harvest \/ Observe \/ Settle \/ EndSettling \/ Plan
      BY <1>0, <3>1 DEF TypeOK, Harvest, Observe, Settle, EndSettling, Plan
    <3>2. CASE Stopped \/ Judge \/ Adopt
      BY <1>0, <3>2 DEF TypeOK, Stopped, Judge, Adopt
    <3>3. CASE Check
      BY <1>0, <3>3 DEF TypeOK, Check
    <3>4. CASE Crash
      BY <1>0, <3>4 DEF TypeOK, Crash
    <3> QED
      BY <1>2, <3>1, <3>2, <3>3, <3>4
  <2> QED
    BY <1>1, <2>1
<1>3. CASE Refresh
  <2>1. \A t \in Tasks : NextAttempt(t, "future") \in Attempts
                         /\ NextAttempt(t, "future").status = "QUEUED"
    BY <1>0, NextAttemptType DEF NextAttempt
  <2>2. attempt' \in [Tasks -> Attempts] /\ NoHandOff
    BY <1>0, <1>3, <2>1 DEF Refresh, TypeOK
  <2>3. rows' \in [Tasks -> Rows]
    BY <1>0, <1>3, StatusNames DEF Refresh, TypeOK
  <2> QED
    BY <1>0, <1>3, <2>2, <2>3 DEF Refresh, TypeOK
<1>4. CASE RefreshRefused
  <2>1. CASE StopPool
    <3>1. \A t \in Tasks :
              /\ [attempt[t] EXCEPT !.status = "FAILED", !.retryable = FALSE] \in Attempts
              /\ [attempt[t] EXCEPT !.status = "FAILED", !.retryable = FALSE].status = "FAILED"
      BY <1>0 DEF TypeOK, Attempts, AttemptStatuses
    <3>2. attempt' \in [Tasks -> Attempts] /\ NoHandOff
      BY <1>0, <2>1, <3>1 DEF StopPool, TypeOK
    <3>3. EndedRow("FAILED", FALSE) \in Rows
      BY StatusNames
    <3>4. rows' \in [Tasks -> Rows]
      BY <1>0, <2>1, <3>3 DEF StopPool, TypeOK
    <3> QED
      BY <1>0, <1>4, <3>2, <3>4 DEF RefreshRefused, TypeOK
  <2> QED
    BY <1>0, <1>1, <1>4, <2>1 DEF RefreshRefused, TypeOK
<1>5. CASE Skip
  <2>1. EndedRow("SKIPPED", FALSE) \in Rows
    BY StatusNames
  <2>2. rows' \in [Tasks -> Rows]
    BY <1>0, <1>5, <2>1 DEF Skip, TypeOK
  <2> QED
    BY <1>0, <1>5, <2>2 DEF Skip, TypeOK
<1>6. CASE Wait
  <2>1. ASSUME NEW t \in EndedWaits PROVE EndedRow(child[t], FALSE) \in Rows
    <3>1. t \in Tasks /\ attempt[t].status = "HANDED_OFF" /\ child[t] # "running"
      BY SchedulerAssumption DEF EndedWaits, AwaitsChild
    <3>2. child[t] # "none"
      BY <3>1 DEF TypeInv, HandOffsHaveChildren
    <3>3. child[t] \in {"SUCCESS", "FAILED"}
      BY <1>0, <3>1, <3>2 DEF TypeOK
    <3> QED
      BY <3>3, StatusNames
  <2>2. rows' \in [Tasks -> Rows]
    BY <1>0, <1>6, <2>1 DEF Wait, TypeOK
  <2> QED
    BY <1>0, <1>6, <2>2 DEF Wait, TypeOK
<1>7. CASE EndRun
  <2>1. run' \in RunStatuses
    BY <1>0, <1>7 DEF EndRun, TypeOK, Memory
  <2> QED
    BY <1>0, <1>7, <2>1 DEF EndRun, TypeOK
<1>8. ASSUME NEW t \in Tasks, Dispatch(t) PROVE Fits
  <2>1. CASE Postpone(t) \/ Pass(t) \/ Block(t) \/ AdmitRefused(t) \/ ReadFences(t)
    <3>1. UNCHANGED <<run, rows, attempt, child, gate, held, holds>> /\ crashes' \in Nat
      BY <1>0, <2>1 DEF TypeOK, Postpone, Pass, Block, AdmitRefused, ReadFences
    <3> QED
      BY <1>1, <3>1
  <2>2. CASE SkipRefused(t)
    <3>1. EndedRow("SKIPPED", FALSE) \in Rows
      BY StatusNames
    <3>2. rows' \in [Tasks -> Rows]
      BY <1>0, <2>2, <3>1 DEF SkipRefused, TypeOK
    <3> QED
      BY <1>0, <2>2, <3>2 DEF SkipRefused, TypeOK
  <2>3. CASE Admit(t)
    <3>1. NextAttempt(t, "none") \in Attempts /\ NextAttempt(t, "none").status = "QUEUED"
      BY <1>0, NextAttemptType DEF NextAttempt
    <3>2. attempt' \in [Tasks -> Attempts] /\ NoHandOff
      BY <1>0, <2>3, <3>1 DEF Admit, TypeOK
    <3>3. rows' \in [Tasks -> Rows]
      BY <1>0, <2>3, StatusNames DEF Admit, TypeOK
    <3> QED
      BY <1>0, <2>3, <3>2, <3>3 DEF Admit, TypeOK
  <2> QED
    BY <1>8, <2>1, <2>2, <2>3 DEF Dispatch
<1> QED
  BY <1>2, <1>3, <1>4, <1>5, <1>6, <1>7, <1>8 DEF Supervise

LEMMA EnvironmentType ==
    ASSUME TypeInv, NEW t \in Tasks, Environment(t)
    PROVE  TypeInv'
<1>0. TypeOK /\ attempt[t] \in Attempts /\ sched.broken \in SUBSET Tasks
  BY DEF TypeInv, TypeOK, Memory
<1>1. \A status \in AttemptStatuses : \A retryable \in BOOLEAN :
          /\ [attempt[t] EXCEPT !.status = status] \in Attempts
          /\ [attempt[t] EXCEPT !.status = status, !.retryable = retryable] \in Attempts
  BY <1>0 DEF Attempts
<1>2. {"RUNNING", "SUCCESS", "FAILED", "HANDED_OFF"} \subseteq AttemptStatuses
  BY DEF AttemptStatuses, Active
<1>3. CASE Claim(t)
  <2>1. attempt' = [attempt EXCEPT ![t] = [attempt[t] EXCEPT !.status = "RUNNING"]]
    BY <1>0, <1>3 DEF Claim, TypeOK
  <2>2. attempt' \in [Tasks -> Attempts]
    BY <1>0, <1>1, <1>2, <2>1 DEF TypeOK
  <2> QED
    BY <1>0, <1>3, <2>1, <2>2, InternalType DEF Claim, TypeOK, Attempts
<1>4. CASE ClaimRefused(t)
  <2>1. sched' \in Memory
    BY <1>0, <1>4 DEF ClaimRefused, TypeOK, Memory
  <2> QED
    BY <1>0, <1>4, <2>1, InternalType DEF ClaimRefused, TypeOK
<1>5. ASSUME NEW wrote \in BOOLEAN, Succeed(t, wrote) PROVE TypeInv'
  <2>1. attempt' = [attempt EXCEPT ![t] = [attempt[t] EXCEPT !.status = "SUCCESS"]]
    BY <1>0, <1>5 DEF Succeed, TypeOK
  <2>2. attempt' \in [Tasks -> Attempts]
    BY <1>0, <1>1, <1>2, <2>1 DEF TypeOK
  <2>3. EndedRow("SUCCESS", wrote) \in Rows
    BY StatusNames
  <2>4. rows' \in [Tasks -> Rows]
    BY <1>0, <1>5, <2>3 DEF Succeed, TypeOK
  <2> QED
    BY <1>0, <1>5, <2>1, <2>2, <2>4, InternalType DEF Succeed, TypeOK, Attempts
<1>6. ASSUME NEW retryable \in BOOLEAN, Fail(t, retryable) PROVE TypeInv'
  <2>1. attempt' = [attempt EXCEPT ![t] =
                        [attempt[t] EXCEPT !.status = "FAILED", !.retryable = retryable]]
    BY <1>0, <1>6 DEF Fail, TypeOK
  <2>2. attempt' \in [Tasks -> Attempts]
    BY <1>0, <1>1, <1>2, <2>1 DEF TypeOK
  <2>3. EndedRow("FAILED", FALSE) \in Rows
    BY StatusNames
  <2>4. rows' \in [Tasks -> Rows]
    BY <1>0, <1>6, <2>3 DEF Fail, TypeOK
  <2>5. \A u \in Tasks : attempt'[u].status = "HANDED_OFF" => attempt[u].status = "HANDED_OFF"
    BY <1>0, <2>1 DEF TypeOK, Attempts
  <2>6. UNCHANGED <<run, child, gate, held, sched, holds, crashes>>
    BY <1>6 DEF Fail
  <2> QED
    BY <1>0, <2>2, <2>4, <2>5, <2>6, InternalType DEF TypeOK
<1>7. CASE HandOff(t)
  <2>1. attempt' = [attempt EXCEPT ![t] =
                        [attempt[t] EXCEPT !.status = "HANDED_OFF", !.retryable = TRUE]]
    BY <1>0, <1>7 DEF HandOff, TypeOK
  <2>2. attempt' \in [Tasks -> Attempts]
    BY <1>0, <1>1, <1>2, <2>1 DEF TypeOK
  <2>3. TypeOK'
    BY <1>0, <1>7, <2>2 DEF HandOff, TypeOK
  <2>4. HandOffsHaveChildren'
    BY <1>0, <1>7, <2>1 DEF HandOff, TypeOK, TypeInv, HandOffsHaveChildren
  <2> QED
    BY <2>3, <2>4 DEF TypeInv
<1>8. CASE BecomeDue(t)
  <2>1. attempt' = [attempt EXCEPT ![t] = [attempt[t] EXCEPT !.due = "due"]]
    BY <1>0, <1>8 DEF BecomeDue, TypeOK
  <2>2. [attempt[t] EXCEPT !.due = "due"] \in Attempts
    BY <1>0 DEF Attempts
  <2>3. attempt' \in [Tasks -> Attempts]
    BY <1>0, <2>1, <2>2 DEF TypeOK
  <2> QED
    BY <1>0, <1>8, <2>1, <2>3, InternalType DEF BecomeDue, TypeOK, Attempts
<1>9. ASSUME NEW status \in {"SUCCESS", "FAILED"}, ChildEnds(t, status) PROVE TypeInv'
  <2>1. TypeOK'
    BY <1>0, <1>9 DEF ChildEnds, TypeOK
  <2>2. HandOffsHaveChildren'
    BY <1>0, <1>9 DEF ChildEnds, TypeOK, TypeInv, HandOffsHaveChildren
  <2> QED
    BY <2>1, <2>2 DEF TypeInv
<1>10. ASSUME NEW judgement \in {"met", "unmet"}, GateSettles(t, judgement) PROVE TypeInv'
  <2>1. TypeOK'
    BY <1>0, <1>10 DEF GateSettles, TypeOK
  <2>2. HandOffsHaveChildren'
    BY <1>10 DEF GateSettles, TypeInv, HandOffsHaveChildren
  <2> QED
    BY <2>1, <2>2 DEF TypeInv
<1> QED
  BY <1>3, <1>4, <1>5, <1>6, <1>7, <1>8, <1>9, <1>10 DEF Environment, Work

LEMMA TypeStep ==
    ASSUME TypeInv, [Next]_vars
    PROVE  TypeInv'
<1>1. ASSUME NEW s \in HoldScopes, Hold(s) \/ Release(s) PROVE TypeInv'
  <2>1. s \in Scopes /\ TypeOK
    BY SchedulerAssumption DEF Scopes, TypeInv
  <2>2. held' \in SUBSET Scopes /\ holds' \in Nat
    BY <1>1, <2>1 DEF Hold, Release, TypeOK
  <2>3. UNCHANGED <<run, rows, attempt, child, gate, sched, crashes>>
    BY <1>1 DEF Hold, Release
  <2>4. TypeOK'
    BY <2>1, <2>2, <2>3 DEF TypeOK
  <2>5. HandOffsHaveChildren'
    BY <2>3 DEF TypeInv, HandOffsHaveChildren
  <2> QED
    BY <2>4, <2>5 DEF TypeInv
<1>2. CASE UNCHANGED vars
  BY <1>2 DEF vars, TypeInv, TypeOK, HandOffsHaveChildren
<1> QED
  BY <1>1, <1>2, SuperviseType, EnvironmentType DEF Next

\* The scheduler's memory, the rows and the attempts keep their types through
\* every step of a pass, every crash and everything that happens between them.
THEOREM TypeCorrect == Spec => []TypeOK
<1>1. Init => TypeInv
  BY TypeInit
<1>2. TypeInv /\ [Next]_vars => TypeInv'
  BY TypeStep
<1>3. TypeInv => TypeOK
  BY DEF TypeInv
<1> QED
  BY <1>1, <1>2, <1>3, PTL DEF Spec

\* On the rows of every state the loop of DependencyGraph.unsatisfiable finds
\* the smallest set of tasks that can never start.
THEOREM LoopFinds == Spec => []LoopFindsUnsatisfiable
<1>1. LoopFindsUnsatisfiable
  BY LoopIsComplete DEF LoopFindsUnsatisfiable
<1> QED
  BY <1>1, PTL

-----------------------------------------------------------------------------
(* The scheduler keeps the contract of a run.  What it has to know for     *)
(* that: the rows and the attempts agree; whatever may run is under its    *)
(* observation; and what it decided on a row it read still holds when it   *)
(* writes, because meanwhile only running tasks move, and they only end.   *)

\* Where agents claim every queued attempt by themselves, a delayed retry may
\* start before the scheduler admits it: then no condition is looked at.
AwaitAdmission == Cluster => \A t \in Tasks : Retries[t] = 0

RowAgrees(t) ==
    /\ attempt[t].status = "absent" => rows[t].status \in {"absent", "SKIPPED"}
    /\ attempt[t].status # "absent" => attempt[t].number >= 1
    /\ IsActive(t) => rows[t].status = "IN-PROGRESS"
    /\ attempt[t].status \in {"SUCCESS", "FAILED"} => rows[t].status = attempt[t].status
    /\ attempt[t].status = "HANDED_OFF" => rows[t].status \in {"IN-PROGRESS", "SUCCESS", "FAILED"}

Ledger == \A t \in Tasks : RowAgrees(t)

MayRun(t) == attempt[t].status = "RUNNING" \/ (Cluster /\ attempt[t].status = "QUEUED")

\* The scheduler of a run in progress observes everything that may run; one
\* that takes failures as final, or is about to end the run, observes nothing.
Observing ==
    /\ sched.pc # "none" => run = "IN-PROGRESS" /\ \A t \in Tasks : MayRun(t) => t \in sched.jobs
    /\ \A t \in sched.broken : ~Cluster /\ attempt[t].status # "RUNNING"
    /\ sched.final \/ sched.ending \/ sched.pc = "stopped" => sched.jobs = {}
    /\ sched.ending => sched.pc \in {"settle", "skip", "judge", "end"} /\ ~sched.final
    /\ sched.pc \in {"judge", "end"} => sched.ending

\* A run that has ended is at rest.
AtRest == run # "IN-PROGRESS" => \A t \in Tasks : rows[t].status # "IN-PROGRESS"

\* What is to be dispatched is not under observation yet.
Planned ==
    /\ sched.gated \subseteq CrossTasks
    /\ sched.pc \in {"settle", "skip", "plan"} => sched.retries \cap sched.jobs = {}
    /\ sched.pc \in {"wait", "dispatch", "admit", "refused"} => sched.todo \cap sched.jobs = {}
    /\ sched.pc \in {"admit", "refused"} => sched.todo # {}

Confirmed(t) == IF t \in CrossTasks THEN IF gate[t] = "met" THEN 1 ELSE 0 ELSE 0

\* The condition that preflight found met is still met at the admission.
Passed ==
    sched.pc = "admit" =>
        LET t == First(sched.todo)
        IN  \/ attempt[t].status = "QUEUED"
            \/ /\ rows[t].status \in {"absent", "FAILED"}
               /\ SatisfiedEdges(t, rows, Confirmed(t)) >= RequiredEdges(t)

\* The verdict is still the outcome when the run ends.
StillJudged ==
    sched.pc = "end" =>
        (\A t \in Tasks : rows[t].status # "IN-PROGRESS") /\ sched.verdict = Judgement

\* A task found doomed stays doomed until it is recorded.
StillDoomed ==
    sched.pc = "skip" =>
        /\ WholeRun \notin sched.basis
        /\ \A t \in sched.doomed : rows[t].status = "absent" =>
               t \in Unsatisfiable(WithRunning(sched.basis), TRUE)

Keeping ==
    /\ TypeInv /\ Ledger /\ Observing /\ AtRest
    /\ Planned /\ Passed /\ StillJudged /\ StillDoomed

LEMMA FirstIsMember ==
    ASSUME NEW S \in SUBSET Tasks, S # {}
    PROVE  First(S) \in S
<1>1. S \in SUBSET Nat
  BY GraphAssumption
<1>2. \E t \in S : \A u \in S : t <= u
  BY <1>1, LeastNumber
<1> QED
  BY <1>2 DEF First

\* What may happen to u's attempt between two steps of the scheduler.
Moves(u) ==
    /\ attempt'[u].number = attempt[u].number
    /\ attempt[u].status # "RUNNING" => attempt'[u].retryable = attempt[u].retryable
    /\ \/ rows'[u] = rows[u] /\ attempt'[u].status = attempt[u].status
       \/ /\ rows'[u] = rows[u]
          /\ attempt[u].status = "QUEUED"
          /\ attempt'[u].status = "RUNNING"
          /\ Cluster \/ Observed(u)
       \/ /\ rows'[u] = rows[u]
          /\ attempt[u].status = "RUNNING"
          /\ attempt'[u].status = "HANDED_OFF"
       \/ /\ attempt[u].status = "RUNNING"
          /\ attempt'[u].status \in {"SUCCESS", "FAILED"}
          /\ rows'[u].status = attempt'[u].status

\* A step of everybody else: the run and the scheduler are left alone, except
\* that a refused claim breaks a queued job of the local pool.
Outside ==
    /\ run' = run
    /\ \A u \in Tasks : Moves(u)
    /\ \A u \in CrossTasks : gate'[u] = gate[u] \/ gate[u] = "running"
    /\ \/ sched' = sched
       \/ \E u \in Tasks : /\ ~Cluster /\ attempt[u].status = "QUEUED" /\ attempt' = attempt
                           /\ sched' = [sched EXCEPT !.broken = @ \cup {u}]

LEMMA EnvironmentIsOutside ==
    ASSUME TypeOK, NEW t \in Tasks, Environment(t)
    PROVE  Outside
<1> USE DEF TypeOK
<1>0. t \in CrossTasks \/ t \notin CrossTasks
  OBVIOUS
<1>1. CASE Claim(t)
  BY <1>1 DEF Claim, Outside, Moves, Attempts
<1>2. CASE ClaimRefused(t)
  BY <1>2 DEF ClaimRefused, Outside, Moves
<1>3. ASSUME NEW wrote \in BOOLEAN, Succeed(t, wrote) PROVE Outside
  BY <1>3 DEF Succeed, Works, Outside, Moves, Attempts, EndedRow
<1>4. ASSUME NEW retryable \in BOOLEAN, Fail(t, retryable) PROVE Outside
  BY <1>4 DEF Fail, Outside, Moves, Attempts, EndedRow
<1>5. CASE HandOff(t)
  BY <1>5 DEF HandOff, Works, Outside, Moves, Attempts
<1>6. CASE BecomeDue(t)
  BY <1>6 DEF BecomeDue, Outside, Moves, Attempts
<1>7. ASSUME NEW status, ChildEnds(t, status) PROVE Outside
  BY <1>7 DEF ChildEnds, Outside, Moves
<1>8. ASSUME NEW judgement, GateSettles(t, judgement) PROVE Outside
  BY <1>8 DEF GateSettles, Outside, Moves
<1> QED
  BY <1>1, <1>2, <1>3, <1>4, <1>5, <1>6, <1>7, <1>8 DEF Environment, Work

LEMMA NextIs ==
    ASSUME TypeOK, [Next]_vars
    PROVE  Supervise \/ Crash \/ Outside
<1>1. ASSUME NEW s \in HoldScopes, Hold(s) \/ Release(s) PROVE Outside
  BY <1>1 DEF Hold, Release, Outside, Moves
<1>2. CASE UNCHANGED vars
  BY <1>2 DEF vars, Outside, Moves
<1> QED
  BY <1>1, <1>2, EnvironmentIsOutside DEF Next

\* Meanwhile only rows of running tasks change, and these were in progress.
LEMMA OutsideRows ==
    ASSUME TypeOK, Ledger, Outside, NEW u \in Tasks
    PROVE  \/ rows'[u] = rows[u]
           \/ /\ attempt[u].status = "RUNNING"
              /\ rows[u].status = "IN-PROGRESS"
              /\ rows'[u].status \in {"SUCCESS", "FAILED"}
  BY DEF Ledger, RowAgrees, IsActive, Active, Outside, Moves

\* What a step of the scheduler may do to u.
Decides(u) ==
    \/ rows'[u] = rows[u] /\ attempt'[u] = attempt[u]
    \/ /\ Admit(u) \/ (Refresh /\ u \in NewRetries)
       /\ attempt'[u].status = "QUEUED" /\ rows'[u].status = "IN-PROGRESS"
       /\ attempt'[u].number \in {attempt[u].number + 1, NumberCap(u)}
    \/ /\ IsActive(u) /\ attempt'[u].number = attempt[u].number
       /\ attempt'[u].status = "FAILED" /\ rows'[u].status = "FAILED"
    \/ /\ SkipRefused(u) \/ (Skip /\ u = First(sched.doomed))
       /\ attempt'[u] = attempt[u] /\ attempt[u].status = "absent"
       /\ rows'[u].status = "SKIPPED" /\ rows[u] = NoRow
    \/ /\ Wait
       /\ attempt'[u] = attempt[u] /\ attempt[u].status = "HANDED_OFF"
       /\ rows'[u].status \in {"SUCCESS", "FAILED"} /\ rows[u].status = "IN-PROGRESS"

LEMMA SuperviseRows ==
    ASSUME TypeInv, Ledger, Supervise \/ Crash, NEW u \in Tasks
    PROVE  Decides(u)
<1> USE DEF Decides
<1>0. TypeOK /\ RowAgrees(u)
  BY DEF TypeInv, Ledger
<1>1. /\ rows \in [Tasks -> Rows]
      /\ attempt \in [Tasks -> Attempts]
      /\ Retries[u] \in Nat
  BY <1>0, SchedulerAssumption DEF TypeOK
<1>2. \A due : /\ NextAttempt(u, due).status = "QUEUED"
              /\ NextAttempt(u, due).number \in {attempt[u].number + 1, NumberCap(u)}
  BY <1>1 DEF NextAttempt
<1>3. CASE UNCHANGED <<rows, attempt>>
  BY <1>3
<1>4. CASE Refresh
  BY <1>1, <1>2, <1>4 DEF Refresh, InProgress
<1>5. CASE StopPool
  BY <1>1, <1>5 DEF StopPool, EndedRow, Attempts
<1>6. ASSUME NEW t \in Tasks, rows[t] = NoRow, attempt' = attempt,
             rows' = [rows EXCEPT ![t] = EndedRow("SKIPPED", FALSE)],
             SkipRefused(t) \/ (Skip /\ t = First(sched.doomed))
      PROVE  Decides(u)
  <2>1. u = t => attempt[u].status = "absent"
    BY <1>0, <1>1, <1>6 DEF RowAgrees, NoRow, IsActive, Active, Attempts, AttemptStatuses
  <2> QED
    BY <1>1, <1>6, <2>1 DEF EndedRow
<1>7. CASE Skip
  <2>1. sched.doomed \in SUBSET Tasks /\ sched.doomed # {}
    BY <1>0, <1>7 DEF Skip, TypeOK, Memory
  <2>2. First(sched.doomed) \in Tasks
    BY <2>1, FirstIsMember
  <2> QED
    BY <1>3, <1>6, <1>7, <2>2 DEF Skip
<1>8. CASE Wait
  <2>1. u \in EndedWaits => /\ attempt[u].status = "HANDED_OFF"
                            /\ rows[u].status = "IN-PROGRESS"
                            /\ child[u] \in {"SUCCESS", "FAILED"}
    BY <1>0 DEF EndedWaits, AwaitsChild, TypeInv, HandOffsHaveChildren, TypeOK
  <2> QED
    BY <1>1, <1>8, <2>1 DEF Wait, EndedRow
<1>9. ASSUME NEW t \in Tasks, Dispatch(t) PROVE Decides(u)
  <2>1. CASE SkipRefused(t)
    BY <1>3, <1>6, <2>1 DEF SkipRefused
  <2>2. CASE Admit(t)
    BY <1>1, <1>2, <1>3, <2>2 DEF Admit, InProgress
  <2> QED
    BY <1>3, <1>9, <2>1, <2>2 DEF Dispatch, Postpone, Pass, Block, AdmitRefused, ReadFences
<1> QED
  BY <1>3, <1>4, <1>5, <1>7, <1>8, <1>9
     DEF Supervise, Crash, Harvest, Observe, RefreshRefused, Settle, EndSettling, Plan, Check,
         Stopped, Judge, EndRun, Adopt

LEMMA LedgerStep ==
    ASSUME TypeInv, Ledger, [Next]_vars
    PROVE  Ledger'
<1> SUFFICES ASSUME NEW u \in Tasks PROVE RowAgrees(u)'
  BY DEF Ledger
<1>0. TypeOK /\ RowAgrees(u) /\ attempt[u] \in Attempts /\ rows[u] \in Rows
  BY DEF TypeInv, TypeOK, Ledger
<1>1. CASE Outside
  <2>1. Moves(u)
    BY <1>1 DEF Outside
  <2> QED
    BY <1>0, <2>1 DEF Moves, RowAgrees, IsActive, Active
<1>2. CASE Supervise \/ Crash
  <2>1. /\ attempt[u].number + 1 >= 1 /\ NumberCap(u) >= 1
    BY <1>0, SchedulerAssumption DEF NumberCap, Attempts
  <2> QED
    BY <1>0, <1>2, <2>1, SuperviseRows DEF Decides, RowAgrees, IsActive, Active
<1> QED
  BY <1>0, <1>1, <1>2, NextIs

LEMMA ObservingOutside ==
    ASSUME TypeOK, Observing, Outside
    PROVE  Observing'
<1>1. /\ sched'.jobs = sched.jobs /\ sched'.pc = sched.pc /\ sched'.final = sched.final
      /\ sched'.ending = sched.ending
      /\ sched.broken \in SUBSET Tasks /\ sched'.broken \in SUBSET Tasks
      /\ \A t \in sched'.broken :
             \/ t \in sched.broken
             \/ ~Cluster /\ attempt[t].status = "QUEUED" /\ attempt'[t].status = "QUEUED"
  BY DEF TypeOK, Memory, Outside
<1>2. ASSUME NEW t \in Tasks, MayRun(t)' PROVE MayRun(t) \/ t \in sched.jobs
  BY <1>2 DEF Outside, Moves, MayRun, Observed
<1>3. ASSUME NEW t \in sched.broken PROVE ~Cluster /\ attempt'[t].status # "RUNNING"
  BY <1>1, <1>3 DEF Observing, Outside, Moves, Observed
<1>4. run' = run
  BY DEF Outside
<1>5. \A t \in sched'.broken : ~Cluster /\ attempt'[t].status # "RUNNING"
  BY <1>1, <1>3
<1> QED
  BY <1>1, <1>2, <1>4, <1>5 DEF Observing

\* A step that leaves the attempts and the run alone.
LEMMA ObservingReads ==
    ASSUME Observing, UNCHANGED <<run, attempt>>, sched.pc # "none",
           sched.jobs \subseteq sched'.jobs, sched'.broken \subseteq sched.broken,
           sched'.final \/ sched'.ending \/ sched'.pc = "stopped" => sched'.jobs = {},
           sched'.ending => sched'.pc \in {"settle", "skip", "judge", "end"} /\ ~sched'.final,
           sched'.pc \in {"judge", "end"} => sched'.ending
    PROVE  Observing'
  BY DEF Observing, MayRun

LEMMA GoneIs == Gone.pc = "none" /\ Gone.gated = {}
  BY DEF Gone, Idle

LEMMA GoneObserves ==
    ASSUME sched' = Gone
    PROVE  Observing'
  BY DEF Gone, Idle, Observing

LEMMA ObservingDispatch ==
    ASSUME TypeInv, Observing, NEW t \in Tasks, Dispatch(t)
    PROVE  Observing'
<1>0. TypeOK /\ sched \in Memory
  BY DEF TypeInv, TypeOK
<1>1. /\ sched.pc \in {"dispatch", "admit", "refused"}
      /\ ~sched.ending
      /\ sched.final => sched.jobs = {}
  BY DEF Dispatch, Postpone, Pass, SkipRefused, Block, Admit, AdmitRefused, ReadFences,
         Dispatching, Admitting, Observing
<1>2. CASE Admit(t)
  <2>1. sched' = Admitted(t) /\ run' = run
    BY <1>2 DEF Admit
  <2>2. /\ sched'.jobs = sched.jobs \cup {t} /\ sched'.broken = sched.broken
        /\ sched'.pc = "dispatch" /\ ~sched'.final /\ ~sched'.ending
    BY <1>0, <1>1, <2>1 DEF Admitted, Drop, Memory
  <2>3. \A u \in Tasks : u # t => attempt'[u] = attempt[u]
    BY <1>0, <1>2 DEF Admit, TypeOK
  <2>4. attempt'[t].status = "QUEUED"
    BY <1>0, <1>2 DEF Admit, NextAttempt, TypeOK
  <2>5. ASSUME NEW u \in Tasks, MayRun(u)' PROVE u \in sched'.jobs
    BY <1>1, <2>2, <2>3, <2>5 DEF Observing, MayRun
  <2>6. ASSUME NEW u \in sched'.broken PROVE ~Cluster /\ attempt'[u].status # "RUNNING"
    BY <1>0, <2>2, <2>3, <2>4, <2>6 DEF Observing, Memory
  <2> QED
    BY <1>1, <2>1, <2>2, <2>5, <2>6 DEF Observing
<1>3. CASE ~Admit(t)
  <2>1. UNCHANGED <<run, attempt>> /\ sched'.jobs = sched.jobs /\ sched'.broken = sched.broken
    BY <1>0, <1>3 DEF Dispatch, Postpone, Pass, SkipRefused, Block, AdmitRefused, ReadFences,
         Drop, Goto, Memory
  <2>2. /\ sched'.pc \in {"dispatch", "admit", "refused"}
        /\ sched'.final => sched.final
        /\ ~sched'.ending
    BY <1>0, <1>1, <1>3 DEF Dispatch, Postpone, Pass, SkipRefused, Block, AdmitRefused, ReadFences,
         Drop, Goto, Memory
  <2> QED
    BY <1>1, <2>1, <2>2, ObservingReads
<1> QED
  BY <1>2, <1>3

LEMMA ObservingSupervise ==
    ASSUME AwaitAdmission, TypeInv, Observing, Supervise \/ Crash
    PROVE  Observing'
<1>0. TypeOK /\ sched \in Memory
  BY DEF TypeInv, TypeOK
<1>1. CASE Harvest
  <2>1. /\ sched'.pc = "observe" /\ sched'.broken = {} /\ sched'.final = sched.final
        /\ sched'.ending = sched.ending
        /\ sched'.jobs = {t \in sched.jobs \ sched.broken : IsActive(t)}
        /\ UNCHANGED <<run, attempt>>
    BY <1>0, <1>1 DEF Harvest, Memory
  <2>2. ASSUME NEW t \in Tasks, MayRun(t) PROVE t \in sched'.jobs
    BY <1>1, <2>1, <2>2 DEF Harvest, Observing, MayRun, IsActive, Active
  <2> QED
    BY <1>1, <2>1, <2>2 DEF Harvest, Observing, MayRun
<1>2. CASE Observe
  <2>1. /\ sched'.jobs = sched.jobs /\ sched'.broken = sched.broken
        /\ sched'.final = sched.final /\ sched'.ending = sched.ending
        /\ sched'.pc \in {"refresh", "harvest"} \/ (sched'.pc = "stopped" /\ sched.jobs = {})
        /\ UNCHANGED <<run, attempt>>
        /\ sched.pc = "observe"
    BY <1>0, <1>2 DEF Observe, Goto, Memory
  <2>2. ~sched.ending /\ (sched.final => sched.jobs = {})
    BY <2>1 DEF Observing
  <2> QED
    BY <2>1, <2>2, ObservingReads
<1>3. CASE Refresh
  <2>1. /\ sched'.pc = "settle" /\ sched'.broken = sched.broken /\ sched'.final = sched.final
        /\ sched'.ending = sched.ending /\ sched'.jobs = sched.jobs /\ run' = run
        /\ sched.pc = "refresh"
    BY <1>0, <1>3 DEF Refresh, Memory
  <2>2. ASSUME NEW t \in Tasks, attempt'[t] # attempt[t]
        PROVE  ~Cluster /\ attempt'[t].status = "QUEUED"
    BY <1>0, <1>3, <2>2 DEF Refresh, TypeOK, NewRetries, Retryable, NextAttempt, AwaitAdmission
  <2>3. ASSUME NEW t \in Tasks, MayRun(t)' PROVE MayRun(t)
    BY <2>2, <2>3 DEF MayRun
  <2>4. ASSUME NEW t \in sched.broken PROVE ~Cluster /\ attempt'[t].status # "RUNNING"
    BY <1>0, <2>2, <2>4 DEF Memory, Observing
  <2> QED
    BY <2>1, <2>3, <2>4 DEF Observing
<1>4. CASE Settle \/ Skip \/ EndSettling
  <2>1. /\ sched'.pc \in {"plan", "skip"} \/ (sched'.pc = "judge" /\ sched.ending)
        /\ sched.ending => sched'.pc # "plan"
        /\ sched'.final = sched.final
        /\ sched'.ending = sched.ending /\ sched'.jobs = sched.jobs /\ sched'.broken = sched.broken
        /\ UNCHANGED <<run, attempt>>
        /\ sched.pc \in {"settle", "skip"}
    BY <1>0, <1>4 DEF Settle, Skip, EndSettling, AfterSettling, Goto, Memory
  <2>2. /\ sched.ending => ~sched.final
        /\ sched.final \/ sched.ending => sched.jobs = {}
    BY DEF Observing
  <2> QED
    BY <2>1, <2>2, ObservingReads
<1>5. CASE Plan \/ Wait
  <2>1. /\ sched'.pc \in {"wait", "dispatch"} /\ sched'.final = sched.final
        /\ sched'.ending = sched.ending /\ sched'.jobs = sched.jobs /\ sched'.broken = sched.broken
        /\ UNCHANGED <<run, attempt>>
        /\ sched.pc \in {"plan", "wait"}
    BY <1>0, <1>5 DEF Plan, Wait, Memory
  <2>2. ~sched.ending /\ (sched.final => sched.jobs = {})
    BY <2>1 DEF Observing
  <2> QED
    BY <2>1, <2>2, ObservingReads
<1>6. CASE Check
  <2>1. UNCHANGED <<run, attempt>> /\ sched.pc = "dispatch"
    BY <1>6 DEF Check
  <2>2. ~sched.ending /\ (sched.final => sched.jobs = {})
    BY <2>1 DEF Observing
  <2>3. CASE sched' = Idle(sched.jobs, sched.broken, sched.attempted, sched.final)
    BY <2>1, <2>2, <2>3, ObservingReads DEF Idle
  <2>4. CASE sched.jobs = {} /\ sched' = Idle({}, {}, sched.attempted, TRUE)
    BY <2>1, <2>2, <2>4, ObservingReads DEF Idle
  <2>5. CASE sched.jobs = {} /\ sched' = [sched EXCEPT !.pc = "stopped"]
    <3>1. /\ sched'.pc = "stopped" /\ sched'.ending = sched.ending /\ sched'.jobs = sched.jobs
          /\ sched'.broken = sched.broken
      BY <1>0, <2>5 DEF Memory
    <3> QED
      BY <2>1, <2>2, <2>5, <3>1, ObservingReads
  <2> QED
    BY <1>6, <2>3, <2>4, <2>5 DEF Check, Goto
<1>7. CASE Stopped
  <2>1. CASE sched' = [Gone EXCEPT !.pc = "settle", !.ending = TRUE]
    <3>1. /\ sched'.pc = "settle" /\ sched'.ending /\ sched'.jobs = {} /\ sched'.broken = {}
          /\ ~sched'.final
      BY <2>1 DEF Gone, Idle
    <3>2. UNCHANGED <<run, attempt>> /\ sched.pc = "stopped"
      BY <1>7 DEF Stopped
    <3>3. sched.jobs = {}
      BY <3>2 DEF Observing
    <3> QED
      BY <3>1, <3>2, <3>3, ObservingReads
  <2> QED
    BY <1>7, <2>1, GoneObserves DEF Stopped, Leave
<1>8. CASE Judge
  <2>1. CASE sched' = [sched EXCEPT !.pc = "end", !.verdict = Judgement]
    <3>1. /\ sched'.pc = "end" /\ sched'.ending = sched.ending /\ sched'.jobs = sched.jobs
          /\ sched'.broken = sched.broken /\ sched'.final = sched.final
      BY <1>0, <2>1 DEF Memory
    <3>2. UNCHANGED <<run, attempt>> /\ sched.pc = "judge"
      BY <1>8 DEF Judge
    <3>3. sched.ending /\ sched.jobs = {} /\ ~sched.final
      BY <3>2 DEF Observing
    <3> QED
      BY <3>1, <3>2, <3>3, ObservingReads
  <2> QED
    BY <1>8, <2>1, GoneObserves DEF Judge, Leave
<1>9. CASE EndRun \/ RefreshRefused \/ Crash
  BY <1>9, GoneObserves DEF EndRun, RefreshRefused, Crash, Leave
<1>10. CASE Adopt
  <2>1. /\ sched'.pc = "harvest" /\ sched'.broken = {} /\ ~sched'.final /\ ~sched'.ending
        /\ run' = "IN-PROGRESS" /\ attempt' = attempt
        /\ sched'.jobs = IF Cluster THEN {t \in Tasks : IsActive(t)} ELSE {}
    BY <1>10 DEF Adopt, Idle
  <2>2. ASSUME NEW t \in Tasks, MayRun(t) PROVE t \in sched'.jobs
    BY <1>10, <2>1, <2>2 DEF Adopt, Outstanding, MayRun, IsActive, Active
  <2> QED
    BY <2>1, <2>2 DEF Observing, MayRun
<1> QED
  BY <1>1, <1>2, <1>3, <1>4, <1>5, <1>6, <1>7, <1>8, <1>9, <1>10, ObservingDispatch DEF Supervise

\* To plan the retries of a pass takes satisfied edges away, and adds none.
LEMMA RetriesSatisfyLess ==
    ASSUME NEW jobs, NEW retries, NEW t \in Tasks
    PROVE  /\ SatisfiedEdges(t, WithRetries(WithRunning(jobs), retries), 0)
                  <= SatisfiedEdges(t, WithRunning(jobs), 0)
           /\ SatisfiedEdges(t, WithRetries(WithRunning(jobs), retries), 0) \in Nat
           /\ SatisfiedEdges(t, WithRunning(jobs), 0) \in Nat
<1> DEFINE state == WithRunning(jobs)
           seen == WithRetries(state, retries)
<1>1. ASSUME NEW e \in EdgesOf(t), EdgeSatisfied(e, seen) PROVE EdgeSatisfied(e, state)
  <2>1. e \in Edges /\ e.on \in Tasks
    BY EdgesFinite, EdgeParts
  <2>2. seen[e.on] = NoRow \/ seen[e.on] = state[e.on]
    BY <2>1 DEF WithRetries
  <2>3. seen[e.on] # NoRow
    BY <1>1, <2>1, UnfinishedDecidesNothing DEF NoRow
  <2> QED
    BY <1>1, <2>2, <2>3 DEF EdgeSatisfied
<1> QED
  BY <1>1, SatisfiedMonotonic

\* What is ready has not ended, nor is it under observation; and a task with
\* too few satisfied edges of its own has one to another pipeline.
LEMMA PlannedTasks ==
    ASSUME NEW jobs, NEW retries, jobs \cap retries = {},
           NEW t \in Ready(WithRetries(WithRunning(jobs), retries))
    PROVE  /\ t \in Tasks
           /\ t \notin jobs
           /\ SatisfiedEdges(t, WithRunning(jobs), 0) < RequiredEdges(t) => t \in CrossTasks
<1> DEFINE state == WithRunning(jobs)
           seen == WithRetries(state, retries)
<1>1. t \in Tasks /\ CanStart(t, seen)
  BY DEF Ready
<1>2. t \notin jobs
  BY <1>1 DEF CanStart, WithRunning, WithRetries, InProgress, NotRetryableStatuses
<1>3. ASSUME t \notin CrossTasks
      PROVE  SatisfiedEdges(t, state, 0) >= RequiredEdges(t)
  <2>1. SatisfiedEdges(t, seen, 0) <= SatisfiedEdges(t, state, 0)
        /\ SatisfiedEdges(t, seen, 0) \in Nat /\ SatisfiedEdges(t, state, 0) \in Nat
    BY <1>1, RetriesSatisfyLess
  <2>2. SatisfiedEdges(t, seen, 0) >= RequiredEdges(t)
    BY <1>1, <1>3 DEF CanStart, Assumed
  <2> QED
    BY <1>1, <2>1, <2>2, Requirements
<1>4. SatisfiedEdges(t, state, 0) \in Nat
  BY <1>1, RetriesSatisfyLess
<1> QED
  BY <1>1, <1>2, <1>3, <1>4, Requirements

\* What the scheduler remembers after a step of dispatch.
LEMMA DispatchMemory ==
    ASSUME TypeOK, NEW t \in Tasks, Dispatch(t)
    PROVE  /\ sched'.gated = sched.gated /\ sched'.ending = sched.ending
           /\ \/ /\ sched.pc = "dispatch" /\ sched'.pc = "dispatch"
                 /\ t \in sched.todo /\ sched'.todo = sched.todo \ {t}
                 /\ sched'.jobs = sched.jobs
                 /\ sched'.attempted \in {sched.attempted, sched.attempted \cup {t}}
              \/ /\ Pass(t) /\ sched.pc = "dispatch" /\ sched'.pc = "admit"
                 /\ t = First(sched.todo) /\ sched.todo # {} /\ sched'.todo = sched.todo
                 /\ sched'.jobs = sched.jobs /\ sched'.attempted = sched.attempted
              \/ /\ Admit(t) /\ sched.pc = "admit" /\ sched'.pc = "dispatch"
                 /\ t = First(sched.todo) /\ sched'.todo = sched.todo \ {t}
                 /\ sched'.jobs = sched.jobs \cup {t}
                 /\ sched'.attempted = sched.attempted \cup {t}
              \/ /\ sched.pc = "admit" /\ sched'.pc = "refused"
                 /\ t = First(sched.todo) /\ sched'.todo = sched.todo
                 /\ sched'.jobs = sched.jobs /\ sched'.attempted = sched.attempted \cup {t}
              \/ /\ sched.pc = "refused" /\ sched'.pc = "dispatch"
                 /\ t = First(sched.todo) /\ sched'.todo = sched.todo \ {t}
                 /\ sched'.jobs = sched.jobs
                 /\ sched'.attempted \in {sched.attempted, sched.attempted \ {t}}
<1>0. sched \in Memory
  BY DEF TypeOK
<1>1. Dispatching(t) => t \in sched.todo
  BY <1>0, FirstIsMember DEF Dispatching, Memory
<1>2. CASE Postpone(t)
  BY <1>0, <1>1, <1>2 DEF Postpone, Dispatching, Drop, Memory
<1>3. CASE SkipRefused(t) \/ Block(t)
  BY <1>0, <1>1, <1>3 DEF SkipRefused, Block, Dispatching, Drop, Memory
<1>4. CASE Pass(t)
  BY <1>0, <1>4 DEF Pass, Dispatching, Goto, Memory
<1>5. CASE Admit(t)
  BY <1>0, <1>5 DEF Admit, Admitting, Admitted, Drop, Memory
<1>6. CASE AdmitRefused(t)
  BY <1>0, <1>6 DEF AdmitRefused, Admitting, Memory
<1>7. CASE ReadFences(t)
  BY <1>0, <1>7 DEF ReadFences, Drop, Memory
<1> QED
  BY <1>2, <1>3, <1>4, <1>5, <1>6, <1>7 DEF Dispatch

LEMMA PlannedStep ==
    ASSUME TypeInv, Planned, [Next]_vars
    PROVE  Planned'
<1>0. TypeOK /\ sched \in Memory
  BY DEF TypeInv, TypeOK
<1>1. CASE Outside
  <2>1. /\ sched'.jobs = sched.jobs /\ sched'.pc = sched.pc /\ sched'.gated = sched.gated
        /\ sched'.todo = sched.todo /\ sched'.retries = sched.retries
    BY <1>0, <1>1 DEF Outside, Memory
  <2> QED
    BY <2>1 DEF Planned
<1>2. CASE Harvest \/ Observe
  <2>1. sched'.pc \in {"observe", "refresh", "harvest", "stopped"} /\ sched'.gated = sched.gated
    BY <1>0, <1>2 DEF Harvest, Observe, Goto, Memory
  <2> QED
    BY <2>1 DEF Planned
<1>3. CASE Refresh
  <2>1. /\ sched'.pc = "settle" /\ sched'.jobs = sched.jobs /\ sched'.gated = sched.gated
        /\ sched'.retries = NewRetries \cup {t \in Eligible : QueuedRetry(t)}
    BY <1>0, <1>3 DEF Refresh, Memory
  <2> QED
    BY <2>1 DEF Planned, NewRetries, Eligible
<1>4. CASE Settle \/ Skip \/ EndSettling
  <2>1. /\ sched.pc \in {"settle", "skip"} /\ sched'.pc \in {"skip", "plan", "judge"}
        /\ sched'.jobs = sched.jobs /\ sched'.gated = sched.gated
        /\ sched'.retries = sched.retries
    BY <1>0, <1>4 DEF Settle, Skip, EndSettling, AfterSettling, Goto, Memory
  <2> QED
    BY <2>1 DEF Planned
<1>5. CASE Plan
  <2> DEFINE state == WithRunning(sched.jobs)
             ready == Ready(WithRetries(state, sched.retries))
  <2>1. /\ sched'.pc = "wait" /\ sched'.jobs = sched.jobs
        /\ sched'.todo \subseteq ready
        /\ sched'.gated \subseteq {t \in ready : SatisfiedEdges(t, state, 0) < RequiredEdges(t)}
    BY <1>0, <1>5 DEF Plan, Memory
  <2>2. sched.jobs \cap sched.retries = {}
    BY <1>5 DEF Plan, Planned
  <2>3. \A t \in ready : t \notin sched.jobs
    BY <2>2, PlannedTasks
  <2>4. \A t \in ready : SatisfiedEdges(t, state, 0) < RequiredEdges(t) => t \in CrossTasks
    BY <2>2, PlannedTasks
  <2> HIDE DEF ready, state
  <2>5. sched'.gated \subseteq CrossTasks
    BY <2>1, <2>4
  <2>6. sched'.todo \cap sched'.jobs = {}
    BY <2>1, <2>3
  <2> QED
    BY <2>1, <2>5, <2>6 DEF Planned
<1>6. CASE Wait
  <2>1. /\ sched.pc = "wait" /\ sched'.pc = "dispatch"
        /\ sched'.jobs = sched.jobs /\ sched'.gated = sched.gated /\ sched'.todo = sched.todo
    BY <1>0, <1>6 DEF Wait, Memory
  <2> QED
    BY <2>1 DEF Planned
<1>7. ASSUME NEW t \in Tasks, Dispatch(t) PROVE Planned'
  BY <1>0, <1>7, DispatchMemory DEF Planned
<1>8. CASE Check
  <2>1. sched'.pc \in {"harvest", "stopped"} /\ sched'.gated \in {{}, sched.gated}
    BY <1>0, <1>8 DEF Check, Goto, Idle, Memory
  <2> QED
    BY <2>1 DEF Planned
<1>9. CASE Stopped \/ Judge \/ EndRun \/ RefreshRefused \/ Adopt \/ Crash
  <2>1. \/ sched' = Gone
        \/ sched' = [Gone EXCEPT !.pc = "settle", !.ending = TRUE]
        \/ sched' = [sched EXCEPT !.pc = "end", !.verdict = Judgement]
        \/ \E jobs : sched' = Idle(jobs, {}, {}, FALSE)
    BY <1>9 DEF Stopped, Judge, EndRun, RefreshRefused, Adopt, Crash, Leave
  <2>2. /\ sched'.gated \in {{}, sched.gated}
        /\ sched'.pc \in {"none", "end", "harvest"} \/ (sched'.pc = "settle" /\ sched'.retries = {})
    <3>1. CASE sched' = [sched EXCEPT !.pc = "end", !.verdict = Judgement]
      BY <1>0, <3>1 DEF Memory
    <3>2. CASE sched' = [Gone EXCEPT !.pc = "settle", !.ending = TRUE]
      BY <3>2 DEF Gone, Idle
    <3>3. CASE \E jobs : sched' = Idle(jobs, {}, {}, FALSE)
      BY <3>3 DEF Idle
    <3> QED
      BY <2>1, <3>1, <3>2, <3>3, GoneIs
  <2> QED
    BY <2>2 DEF Planned
<1> QED
  BY <1>0, <1>1, <1>2, <1>3, <1>4, <1>5, <1>6, <1>7, <1>8, <1>9, NextIs DEF Supervise

LEMMA StepsAfter ==
    ASSUME TypeOK, Supervise \/ Crash
    PROVE  /\ sched'.pc = "admit" => \E t \in Tasks : Pass(t)
           /\ sched'.pc = "end" => Judge
           /\ sched'.pc = "skip" => Settle \/ Skip
           /\ sched.pc # "none" \/ Adopt
           /\ run' = run \/ EndRun
<1>0. sched \in Memory
  BY DEF TypeOK
<1>1. CASE Harvest \/ Observe \/ Refresh \/ Plan \/ Wait
  BY <1>0, <1>1 DEF Harvest, Observe, Refresh, Plan, Wait, Goto, Memory
<1>2. CASE Settle \/ Skip
  BY <1>0, <1>2 DEF Settle, Skip, AfterSettling, Goto, Memory
<1>3. CASE EndSettling
  BY <1>0, <1>3 DEF EndSettling, AfterSettling, Memory
<1>4. CASE Check
  BY <1>0, <1>4 DEF Check, Idle, Goto, Memory
<1>5. CASE Stopped
  BY <1>0, <1>5 DEF Stopped, Leave, Gone, Idle, Memory
<1>6. CASE Judge
  BY <1>0, <1>6, GoneIs DEF Judge, Leave, Memory
<1>7. CASE EndRun \/ RefreshRefused \/ Crash
  BY <1>7, GoneIs DEF EndRun, RefreshRefused, Crash, Leave
<1>8. CASE Adopt
  BY <1>8 DEF Adopt, Idle
<1>9. ASSUME NEW t \in Tasks, Dispatch(t)
      PROVE  /\ sched'.pc = "admit" => Pass(t)
             /\ sched.pc # "none" /\ sched'.pc \notin {"end", "skip"}
             /\ run' = run
  <2>1. run' = run
    BY <1>9 DEF Dispatch, Postpone, Pass, SkipRefused, Block, Admit, AdmitRefused, ReadFences
  <2> QED
    BY <1>9, <2>1, DispatchMemory
<1> QED
  BY <1>1, <1>2, <1>3, <1>4, <1>5, <1>6, <1>7, <1>8, <1>9 DEF Supervise

LEMMA AtRestStep ==
    ASSUME TypeInv, Ledger, Observing, AtRest, StillJudged, [Next]_vars
    PROVE  AtRest'
<1>0. TypeOK
  BY DEF TypeInv
<1>1. CASE Outside
  <2>1. run' = run /\ \A u \in Tasks : rows'[u].status = "IN-PROGRESS" => rows'[u] = rows[u]
    BY <1>0, <1>1, OutsideRows DEF Outside
  <2> QED
    BY <2>1 DEF AtRest
<1>2. CASE EndRun
  BY <1>2 DEF EndRun, StillJudged, AtRest
<1>3. CASE (Supervise \/ Crash) /\ ~EndRun
  <2>1. run = "IN-PROGRESS" /\ run' = run
    BY <1>0, <1>3, StepsAfter DEF Observing, Adopt
  <2> QED
    BY <2>1 DEF AtRest
<1> QED
  BY <1>0, <1>1, <1>2, <1>3, NextIs

LEMMA StillJudgedStep ==
    ASSUME TypeInv, Ledger, StillJudged, [Next]_vars
    PROVE  StillJudged'
<1>0. TypeOK /\ sched \in Memory
  BY DEF TypeInv, TypeOK
<1>1. CASE Outside
  <2> SUFFICES ASSUME sched.pc = "end" PROVE StillJudged'
    BY <1>0, <1>1 DEF Outside, StillJudged, Memory
  <2>1. \A u \in Tasks : rows'[u] = rows[u]
    BY <1>0, <1>1, OutsideRows DEF StillJudged
  <2>2. Judgement' = Judgement
    BY <2>1 DEF Judgement
  <2>3. sched'.verdict = sched.verdict
    BY <1>0, <1>1 DEF Outside, Memory
  <2> QED
    BY <2>1, <2>2, <2>3 DEF StillJudged
<1>2. CASE Judge
  <2> SUFFICES ASSUME sched'.pc = "end" PROVE StillJudged'
    BY DEF StillJudged
  <2>1. /\ \A t \in Tasks : rows[t].status # "IN-PROGRESS"
        /\ sched' = [sched EXCEPT !.pc = "end", !.verdict = Judgement]
        /\ rows' = rows
    BY <1>2, GoneIs DEF Judge, Leave
  <2>2. sched'.verdict = Judgement /\ Judgement' = Judgement
    BY <1>0, <2>1 DEF Memory, Judgement
  <2> QED
    BY <2>1, <2>2 DEF StillJudged
<1>3. CASE (Supervise \/ Crash) /\ ~Judge
  BY <1>0, <1>3, StepsAfter DEF StillJudged
<1> QED
  BY <1>0, <1>1, <1>2, <1>3, NextIs

LEMMA PassedStep ==
    ASSUME TypeInv, Ledger, Observing, Planned, Passed, [Next]_vars
    PROVE  Passed'
<1>0. TypeOK /\ sched \in Memory
  BY DEF TypeInv, TypeOK
<1>1. CASE Outside
  <2> SUFFICES ASSUME sched.pc = "admit" PROVE Passed'
    BY <1>0, <1>1 DEF Outside, Passed, Memory
  <2>1. PICK t \in Tasks : t = First(sched.todo) /\ t \notin sched.jobs /\ sched'.todo = sched.todo
    <3>1. sched.todo \in SUBSET Tasks /\ sched.todo # {}
      BY <1>0 DEF Memory, Planned
    <3>2. First(sched.todo) \in sched.todo
      BY <3>1, FirstIsMember
    <3> QED
      BY <1>0, <1>1, <3>1, <3>2 DEF Planned, Memory, Outside
  <2>2. ~MayRun(t)
    BY <2>1 DEF Observing
  <2>3. rows'[t] = rows[t] /\ attempt'[t].status = attempt[t].status
    BY <1>1, <2>1, <2>2 DEF Outside, Moves, MayRun, Observed
  <2>4. SatisfiedEdges(t, rows, Confirmed(t)) <= SatisfiedEdges(t, rows', Confirmed(t)')
        /\ SatisfiedEdges(t, rows, Confirmed(t)) \in Nat
        /\ SatisfiedEdges(t, rows', Confirmed(t)') \in Nat
    <3>1. \A u \in Tasks : rows'[u] = rows[u] \/ rows[u].status \in {"absent", "IN-PROGRESS"}
      BY <1>0, <1>1, OutsideRows
    <3>2. \A e \in EdgesOf(t) : EdgeSatisfied(e, rows) => EdgeSatisfied(e, rows')
      BY <2>1, <3>1, EndingsDecide, EdgesFinite
    <3>3. Confirmed(t) \in Nat /\ Confirmed(t)' \in Nat /\ Confirmed(t) <= Confirmed(t)'
      BY <1>1 DEF Confirmed, Outside
    <3> QED
      BY <2>1, <3>2, <3>3, SatisfiedMonotonic
  <2>5. RequiredEdges(t) \in Nat
    BY <2>1, Requirements
  <2> QED
    BY <2>1, <2>3, <2>4, <2>5 DEF Passed, Confirmed
<1>2. ASSUME NEW t \in Tasks, Pass(t) PROVE Passed'
  <2>1. /\ First(sched'.todo) = t
        /\ UNCHANGED <<rows, attempt, gate>>
    BY <1>0, <1>2 DEF Pass, Dispatching, Goto, Memory
  <2>2. attempt[t].status = "QUEUED" \/ rows[t].status \in {"absent", "FAILED"}
    BY <1>0, <1>2
       DEF Pass, RunsElsewhere, QueuedRetry, TypeOK, Rows, TaskStatuses, RunStatuses, Endings,
           TerminalStatuses
  <2>3. SatisfiedEdges(t, rows, Confirmed(t)) >= RequiredEdges(t)
    <3> DEFINE c == IF t \in sched.gated /\ gate[t] = "met" THEN 1 ELSE 0
    <3>1. SatisfiedEdges(t, rows, c) >= RequiredEdges(t)
      BY <1>2 DEF Pass, ConditionMet
    <3>2. c \in Nat /\ Confirmed(t) \in Nat /\ c <= Confirmed(t)
      BY DEF Confirmed, Planned
    <3>3. SatisfiedEdges(t, rows, c) <= SatisfiedEdges(t, rows, Confirmed(t))
          /\ SatisfiedEdges(t, rows, c) \in Nat
          /\ SatisfiedEdges(t, rows, Confirmed(t)) \in Nat
      BY <3>2, SatisfiedMonotonic
    <3> QED
      BY <3>1, <3>3, Requirements
  <2> QED
    BY <2>1, <2>2, <2>3 DEF Passed, Confirmed
<1>3. CASE (Supervise \/ Crash) /\ ~\E t \in Tasks : Pass(t)
  BY <1>0, <1>3, StepsAfter DEF Passed
<1> QED
  BY <1>0, <1>1, <1>2, <1>3, NextIs

LEMMA StillDoomedStep ==
    ASSUME TypeInv, Ledger, StillDoomed, [Next]_vars
    PROVE  StillDoomed'
<1>0. TypeOK /\ sched \in Memory
  BY DEF TypeInv, TypeOK
<1>1. CASE Outside
  <2> SUFFICES ASSUME sched.pc = "skip" PROVE StillDoomed'
    BY <1>0, <1>1 DEF Outside, StillDoomed, Memory
  <2>1. sched'.basis = sched.basis /\ sched'.doomed = sched.doomed
    BY <1>0, <1>1 DEF Outside, Memory
  <2>2. \A u \in Tasks : rows'[u] = rows[u] \/ rows[u].status = "IN-PROGRESS"
    BY <1>0, <1>1, OutsideRows
  <2> DEFINE seen == WithRunning(sched.basis)
  <2>3. \A u \in Tasks : seen'[u] = seen[u] \/ seen[u].status = "IN-PROGRESS"
    BY <2>1, <2>2 DEF WithRunning
  <2>4. Unsatisfiable(seen, TRUE) \subseteq Unsatisfiable(seen', TRUE)
    BY <2>3, DoomedStays
  <2>5. \A u \in Tasks : rows'[u].status = "absent" => rows[u].status = "absent"
    BY <1>0, <1>1, OutsideRows
  <2>6. sched.doomed \in SUBSET Tasks
    BY <1>0 DEF Memory
  <2> QED
    BY <2>1, <2>4, <2>5, <2>6 DEF StillDoomed
<1>2. CASE Settle
  <2> SUFFICES ASSUME sched'.pc = "skip" PROVE StillDoomed'
    BY DEF StillDoomed
  <2> DEFINE final == sched.final /\ ~sched.ending
  <2>1. /\ WholeRun \notin held /\ rows' = rows
        /\ sched'.basis = held
        /\ sched'.doomed = Unsatisfiable(WithRunning(held), final)
    BY <1>0, <1>2 DEF Settle, AfterSettling, Goto, Memory
  <2>2. Unsatisfiable(WithRunning(held), final) \subseteq Unsatisfiable(WithRunning(held), TRUE)
    BY FinalDoomsMore
  <2>3. WithRunning(sched.basis)' = WithRunning(held)
    BY <2>1 DEF WithRunning
  <2> QED
    BY <2>1, <2>2, <2>3 DEF StillDoomed
<1>3. CASE Skip
  <2>1. PICK t \in Tasks : t \in sched.doomed /\ t = First(sched.doomed)
    BY <1>0, <1>3, FirstIsMember DEF Skip, Memory
  <2>2. /\ sched.pc = "skip" /\ sched'.basis = sched.basis
        /\ sched'.doomed = sched.doomed \ {t}
        /\ rows' = IF rows[t] = NoRow THEN [rows EXCEPT ![t] = EndedRow("SKIPPED", FALSE)] ELSE rows
    BY <1>0, <1>3, <2>1 DEF Skip, Memory
  <2> DEFINE seen == WithRunning(sched.basis)
  <2>3. WholeRun \notin sched.basis
        /\ \A u \in sched.doomed : rows[u].status = "absent" => u \in Unsatisfiable(seen, TRUE)
    BY <2>2 DEF StillDoomed
  <2>4. CASE rows[t] = NoRow
    <3>1. t \in Unsatisfiable(seen, TRUE)
      <4>1. rows[t].status = "absent"
        BY <2>4 DEF NoRow
      <4> QED
        BY <2>1, <2>3, <4>1
    <3>2. seen[t].status = "absent"
      BY <3>1, UnsatisfiableAreAbsent
    <3>3. t \notin sched.basis
      BY <3>2 DEF WithRunning, InProgress
    <3>4. \A u \in Tasks : u # t => rows'[u] = rows[u]
      BY <1>0, <2>2 DEF TypeOK
    <3>5. \A u \in Tasks : u # t => seen'[u] = seen[u]
      BY <2>2, <3>4 DEF WithRunning
    <3>6. seen'[t].status = "SKIPPED" /\ rows'[t].status = "SKIPPED"
      BY <1>0, <2>2, <2>4, <3>3 DEF WithRunning, EndedRow, TypeOK
    <3>7. Unsatisfiable(seen, TRUE) \subseteq Unsatisfiable(seen', TRUE) \cup {t}
      BY <3>2, <3>5, <3>6, DoomedUntilSkipped
    <3> QED
      BY <1>0, <2>2, <2>3, <3>4, <3>7 DEF StillDoomed, Memory
  <2>5. CASE rows[t] # NoRow
    <3>1. seen' = seen /\ rows' = rows
      BY <2>2, <2>5 DEF WithRunning
    <3> QED
      BY <2>2, <2>3, <3>1 DEF StillDoomed
  <2> QED
    BY <2>4, <2>5
<1>4. CASE (Supervise \/ Crash) /\ ~Settle /\ ~Skip
  BY <1>0, <1>4, StepsAfter DEF StillDoomed
<1> QED
  BY <1>0, <1>1, <1>2, <1>3, <1>4, NextIs

LEMMA KeepingStep ==
    ASSUME AwaitAdmission, Keeping, [Next]_vars
    PROVE  Keeping'
<1>1. TypeInv' /\ Ledger' /\ Planned' /\ Passed' /\ StillJudged' /\ StillDoomed' /\ AtRest'
  BY TypeStep, LedgerStep, PlannedStep, PassedStep, StillJudgedStep, StillDoomedStep, AtRestStep
     DEF Keeping
<1>2. Observing'
  BY NextIs, ObservingOutside, ObservingSupervise DEF Keeping, TypeInv
<1> QED
  BY <1>1, <1>2 DEF Keeping

LEMMA KeepingInit == Init => Keeping
<1> SUFFICES ASSUME Init PROVE Keeping
  OBVIOUS
<1>1. sched.pc = "none" /\ sched.gated = {} /\ sched.broken = {} /\ sched.jobs = {}
      /\ ~sched.ending
  BY DEF Init, Gone, Idle
<1>2. \A t \in Tasks : attempt[t].status = "absent" /\ rows[t].status = "absent"
  BY DEF Init, NoAttempt, NoRow
<1>3. Ledger
  BY <1>2 DEF Ledger, RowAgrees, IsActive, Active
<1>4. Observing /\ AtRest
  BY <1>1, <1>2 DEF Observing, AtRest
<1>5. Planned /\ Passed /\ StillJudged /\ StillDoomed
  BY <1>1 DEF Planned, Passed, StillJudged, StillDoomed
<1> QED
  BY <1>3, <1>4, <1>5, TypeInit DEF Keeping

\* The contract reads the same graph.
LEMMA SameGraph ==
    /\ RunPromise!SettledStatuses = SettledStatuses
    /\ \A t : RunPromise!RequiredEdges(t) = RequiredEdges(t)
    /\ \A t, state, cross : RunPromise!SatisfiedEdges(t, state, cross) = SatisfiedEdges(t, state, cross)
    /\ \A t, state : RunPromise!UpstreamPending(t, state) <=> UpstreamPending(t, state)
    /\ \A state, final : RunPromise!Unsatisfiable(state, final) = Unsatisfiable(state, final)
<1>0. \A S : RunPromise!Cardinality(S) = Cardinality(S)
  BY Zenon DEF RunPromise!Cardinality, Cardinality
<1>1. /\ RunPromise!SettledStatuses = SettledStatuses
      /\ RunPromise!TerminalStatuses = TerminalStatuses
      /\ \A t : RunPromise!EdgesOf(t) = EdgesOf(t)
  BY DEF RunPromise!SettledStatuses, SettledStatuses, RunPromise!TerminalStatuses, TerminalStatuses,
         RunPromise!EdgesOf, EdgesOf
<1>2. /\ \A t : RunPromise!TotalEdges(t) = TotalEdges(t)
      /\ \A t : RunPromise!Assumed(t) = Assumed(t)
      /\ \A e, state : RunPromise!EdgeSatisfied(e, state) = EdgeSatisfied(e, state)
  <2>1. ASSUME NEW t
        PROVE  RunPromise!TotalEdges(t) = TotalEdges(t) /\ RunPromise!Assumed(t) = Assumed(t)
    BY <1>0, <1>1 DEF RunPromise!TotalEdges, TotalEdges, RunPromise!Assumed, Assumed
  <2>2. ASSUME NEW e, NEW state
        PROVE  RunPromise!EdgeSatisfied(e, state) = EdgeSatisfied(e, state)
    BY <1>1 DEF RunPromise!EdgeSatisfied, EdgeSatisfied
  <2> QED
    BY <2>1, <2>2
<1>3. /\ \A t : RunPromise!RequiredEdges(t) = RequiredEdges(t)
      /\ \A e, state, final : RunPromise!EdgeLost(e, state, final) <=> EdgeLost(e, state, final)
      /\ \A state, S : RunPromise!WithSkipped(state, S) = WithSkipped(state, S)
  BY <1>1, <1>2 DEF RunPromise!RequiredEdges, RequiredEdges, RunPromise!EdgeLost, EdgeLost,
                    RunPromise!WithSkipped, WithSkipped
<1>4. ASSUME NEW t, NEW state, NEW cross
      PROVE  RunPromise!SatisfiedEdges(t, state, cross) = SatisfiedEdges(t, state, cross)
  <2>1. {e \in RunPromise!EdgesOf(t) : RunPromise!EdgeSatisfied(e, state)}
            = {e \in EdgesOf(t) : EdgeSatisfied(e, state)}
    BY <1>1, <1>2
  <2> QED
    BY <1>0, <2>1 DEF RunPromise!SatisfiedEdges, SatisfiedEdges
<1>5. \A t, state : RunPromise!UpstreamPending(t, state) <=> UpstreamPending(t, state)
  BY <1>1 DEF RunPromise!UpstreamPending, UpstreamPending
<1>6. ASSUME NEW t, NEW state, NEW final
      PROVE  RunPromise!IsUnsatisfiable(t, state, final) <=> IsUnsatisfiable(t, state, final)
  <2>1. {e \in RunPromise!EdgesOf(t) : ~RunPromise!EdgeLost(e, state, final)}
            = {e \in EdgesOf(t) : ~EdgeLost(e, state, final)}
    BY <1>1, <1>3
  <2> QED
    BY <1>0, <1>2, <1>3, <2>1 DEF RunPromise!IsUnsatisfiable, IsUnsatisfiable
<1>7. \A state, S, final : RunPromise!NewlyUnsatisfiable(state, S, final) =
                               NewlyUnsatisfiable(state, S, final)
  BY <1>3, <1>6 DEF RunPromise!NewlyUnsatisfiable, NewlyUnsatisfiable
<1>8. \A state, final : RunPromise!Unsatisfiable(state, final) = Unsatisfiable(state, final)
  BY <1>7 DEF RunPromise!Unsatisfiable, Unsatisfiable
<1> QED
  BY <1>1, <1>3, <1>4, <1>5, <1>8

\* What the contract allows a task to do in a step.
Allowed(t) ==
    \/ rows'[t] = rows[t]
    \/ RunPromise!Start(t) \/ RunPromise!Retry(t) \/ RunPromise!End(t)
    \/ RunPromise!SkipDoomed(t) \/ RunPromise!SkipRefused(t)

LEMMA TasksMove ==
    ASSUME TypeOK', run = "IN-PROGRESS", UNCHANGED <<run, gate, held>>,
           \A t \in Tasks : Allowed(t)
    PROVE  RunPromise!Next
<1>1. rows' \in [Tasks -> [status : {"absent", "IN-PROGRESS", "SUCCESS", "FAILED", "SKIPPED"},
                           wrote : BOOLEAN]]
  <2>1. TaskStatuses = {"absent", "IN-PROGRESS", "SUCCESS", "FAILED", "SKIPPED"}
    BY StatusNames
  <2> QED
    BY <2>1 DEF TypeOK, Rows
<1>2. RunPromise!MoveTasks
  BY <1>1 DEF RunPromise!MoveTasks, Allowed
<1> QED
  BY <1>2 DEF RunPromise!Next

LEMMA EndIsAllowed ==
    ASSUME NEW t \in Tasks, rows[t].status = "IN-PROGRESS", rows'[t].status \in {"SUCCESS", "FAILED"}
    PROVE  Allowed(t)
  BY DEF Allowed, RunPromise!End, RunPromise!Moves

LEMMA OutsideKeeps ==
    ASSUME Keeping, TypeOK', Outside, UNCHANGED <<gate, held>>
    PROVE  [RunPromise!Next]_(RunPromise!vars)
<1>1. \A u \in Tasks : rows'[u] = rows[u] \/ (rows[u].status = "IN-PROGRESS" /\ Allowed(u))
  BY OutsideRows, EndIsAllowed DEF Keeping, TypeInv
<1>2. CASE run = "IN-PROGRESS"
  BY <1>1, <1>2, TasksMove DEF Outside, Allowed
<1>3. CASE run # "IN-PROGRESS"
  <2>1. \A u \in Tasks : rows'[u] = rows[u]
    BY <1>1, <1>3 DEF Keeping, AtRest
  <2>2. rows' = rows
    BY <2>1 DEF Keeping, TypeInv, TypeOK
  <2> QED
    BY <2>2 DEF Outside, RunPromise!vars
<1> QED
  BY <1>2, <1>3

LEMMA SuperviseKeeps ==
    ASSUME Keeping, TypeOK', Supervise \/ Crash
    PROVE  [RunPromise!Next]_(RunPromise!vars)
<1>0. TypeInv /\ TypeOK /\ Ledger /\ sched \in Memory
  BY DEF Keeping, TypeInv, TypeOK
<1>1. UNCHANGED <<gate, held>>
  <2>1. CASE Supervise
    BY <2>1 DEF Supervise, Harvest, Observe, Refresh, RefreshRefused, Settle, Skip, EndSettling,
       Plan, Wait, Check, Stopped, Judge, EndRun, Adopt, Dispatch, Postpone, Pass, SkipRefused,
       Block, Admit, AdmitRefused, ReadFences
  <2> QED
    BY <2>1 DEF Crash
<1>2. CASE EndRun
  <2>1. CASE run' = run
    BY <1>1, <1>2, <2>1 DEF EndRun, RunPromise!vars
  <2>2. CASE run' # run
    <3>1. held = {} /\ run' = sched.verdict /\ sched.pc = "end" /\ rows' = rows
      BY <1>2, <2>2 DEF EndRun
    <3>2. /\ run = "IN-PROGRESS" /\ \A t \in Tasks : rows[t].status # "IN-PROGRESS"
          /\ run' = Judgement
      BY <3>1 DEF Keeping, Observing, StillJudged
    <3>3. Judgement = RunPromise!Outcome
      BY SameGraph DEF Judgement, RunPromise!Outcome
    <3> QED
      BY <1>1, <3>1, <3>2, <3>3 DEF RunPromise!Next, RunPromise!Close
  <2> QED
    BY <2>1, <2>2
<1>3. CASE UNCHANGED <<run, rows>>
  BY <1>1, <1>3 DEF RunPromise!vars
<1> SUFFICES ASSUME ~EndRun, ~UNCHANGED <<run, rows>>, NEW t \in Tasks, rows'[t] # rows[t]
             PROVE  Allowed(t)
  <2>1. (run = "IN-PROGRESS" /\ run' = run) \/ EndRun \/ UNCHANGED <<run, rows>>
    BY <1>0, StepsAfter DEF Keeping, Observing, Adopt
  <2> QED
    BY <1>1, <1>2, <1>3, <2>1, TasksMove DEF Allowed
<1>4. CASE Refresh
  <2>1. t \in NewRetries /\ rows'[t] = InProgress /\ MayQueue(t)
    BY <1>0, <1>4 DEF Refresh, TypeOK
  <2>2. rows[t].status = "FAILED"
    BY <1>0, <2>1 DEF NewRetries, Retryable, FailedAttempt, Ledger, RowAgrees
  <2> QED
    BY <2>1, <2>2 DEF Allowed, RunPromise!Retry, RunPromise!Moves, InProgress, MayQueue,
       RunPromise!Fenced, Fenced
<1>5. CASE RefreshRefused
  <2>1. StopPool
    BY <1>5 DEF RefreshRefused
  <2>2. IsActive(t) /\ rows'[t] = EndedRow("FAILED", FALSE)
    BY <1>0, <2>1 DEF StopPool, TypeOK
  <2> QED
    BY <1>0, <2>2, EndIsAllowed DEF Ledger, RowAgrees, EndedRow
<1>6. CASE Skip
  <2>1. /\ sched.doomed \in SUBSET Tasks /\ sched.doomed # {}
        /\ First(sched.doomed) \in sched.doomed
    BY <1>0, <1>6, FirstIsMember DEF Skip, Memory
  <2>2. /\ t = First(sched.doomed) /\ rows[t] = NoRow /\ rows'[t] = EndedRow("SKIPPED", FALSE)
        /\ held = sched.basis /\ sched.pc = "skip"
    BY <1>0, <1>6, <2>1 DEF Skip, FencesUnchanged, TypeOK
  <2>0. rows[t].status = "absent" /\ rows'[t].status = "SKIPPED"
    BY <2>2 DEF NoRow, EndedRow
  <2>3. WholeRun \notin held /\ t \in Unsatisfiable(WithRunning(held), TRUE)
    BY <2>0, <2>1, <2>2 DEF Keeping, StillDoomed
  <2>4. WithRunning(held) = RunPromise!HeldRows
    BY DEF WithRunning, RunPromise!HeldRows, InProgress
  <2>5. t \in RunPromise!Unsatisfiable(RunPromise!HeldRows, TRUE)
    BY <2>3, <2>4, SameGraph
  <2> QED
    BY <2>0, <2>3, <2>5 DEF Allowed, RunPromise!SkipDoomed, RunPromise!Moves
<1>7. CASE Wait
  <2>1. t \in EndedWaits /\ rows'[t] = EndedRow(child[t], FALSE)
    BY <1>0, <1>7 DEF Wait, TypeOK
  <2>2. rows[t].status = "IN-PROGRESS" /\ child[t] \in {"SUCCESS", "FAILED"}
    BY <1>0, <2>1 DEF EndedWaits, AwaitsChild, TypeInv, HandOffsHaveChildren, TypeOK
  <2> QED
    BY <2>1, <2>2, EndIsAllowed DEF EndedRow
<1>8. ASSUME NEW u \in Tasks, SkipRefused(u) PROVE Allowed(t)
  <2>1. /\ t = u /\ rows[t] = NoRow /\ rows'[t] = EndedRow("SKIPPED", FALSE)
        /\ ~ConditionMet(t) /\ GateRefuses(t)
    BY <1>0, <1>8 DEF SkipRefused, TypeOK
  <2>2. t \in CrossTasks /\ gate[t] = "unmet" /\ ~UpstreamPending(t, rows)
    BY <2>1 DEF GateRefuses, Keeping, Planned
  <2>3. ~(SatisfiedEdges(t, rows, 0) >= RequiredEdges(t))
    BY <2>1, <2>2 DEF ConditionMet
  <2>4. ~RunPromise!ConditionMet(t)
    BY <2>2, <2>3, SameGraph DEF RunPromise!ConditionMet, RunPromise!Confirmed
  <2> QED
    BY <2>1, <2>2, <2>4, SameGraph
       DEF Allowed, RunPromise!SkipRefused, RunPromise!Moves, EndedRow, NoRow
<1>9. ASSUME NEW u \in Tasks, Admit(u) PROVE Allowed(t)
  <2>1. /\ t = u /\ sched.pc = "admit" /\ t = First(sched.todo) /\ MayQueue(t)
        /\ rows'[t] = InProgress
    BY <1>0, <1>9 DEF Admit, Admitting, TypeOK
  <2>2. /\ rows[t].status \in {"absent", "FAILED"}
        /\ SatisfiedEdges(t, rows, Confirmed(t)) >= RequiredEdges(t)
    BY <2>1 DEF Keeping, Passed, MayQueue, IsActive, Active
  <2>3. RunPromise!ConditionMet(t)
    BY <2>2, SameGraph DEF RunPromise!ConditionMet, RunPromise!Confirmed, Confirmed
  <2> QED
    BY <2>1, <2>2, <2>3 DEF Allowed, RunPromise!Start, RunPromise!Moves, InProgress, MayQueue,
       RunPromise!Fenced, Fenced
<1>10. Refresh \/ RefreshRefused \/ Skip \/ Wait \/ \E u \in Tasks : SkipRefused(u) \/ Admit(u)
  BY DEF Supervise, Crash, Harvest, Observe, Settle, EndSettling,
       Plan, Check, Stopped, Judge, Adopt, Dispatch, Postpone, Pass, Block, AdmitRefused, ReadFences
<1> QED
  BY <1>4, <1>5, <1>6, <1>7, <1>8, <1>9, <1>10

LEMMA PromiseStep ==
    ASSUME Keeping, TypeOK', [Next]_vars
    PROVE  [RunPromise!Next]_(RunPromise!vars)
<1>0. TypeOK
  BY DEF Keeping, TypeInv
<1>1. ASSUME NEW s \in HoldScopes, Hold(s) \/ Release(s) PROVE RunPromise!Next
  <2>1. RunPromise!Control(s)
    BY <1>1 DEF Hold, Release, RunPromise!Control
  <2> QED
    BY <2>1 DEF RunPromise!Next
<1>2. CASE UNCHANGED vars
  BY <1>2 DEF vars, RunPromise!vars
<1>3. ASSUME NEW t \in CrossTasks, NEW judgement \in {"met", "unmet"}, GateSettles(t, judgement)
      PROVE  RunPromise!Next
  <2>1. RunPromise!JudgeGate(t)
    BY <1>3 DEF GateSettles, RunPromise!JudgeGate
  <2> QED
    BY <2>1 DEF RunPromise!Next
<1>4. ASSUME NEW t \in Tasks, Environment(t) PROVE [RunPromise!Next]_(RunPromise!vars)
  <2>1. CASE UNCHANGED <<gate, held>>
    BY <1>0, <1>4, <2>1, EnvironmentIsOutside, OutsideKeeps
  <2>2. CASE ~UNCHANGED <<gate, held>>
    <3>1. \E judgement \in {"met", "unmet"} : t \in CrossTasks /\ GateSettles(t, judgement)
      BY <1>4, <2>2 DEF Environment, Work, Claim, ClaimRefused, Succeed, Fail, HandOff, BecomeDue,
         ChildEnds
    <3> QED
      BY <1>3, <3>1
  <2> QED
    BY <2>1, <2>2
<1> QED
  BY <1>1, <1>2, <1>4, SuperviseKeeps DEF Next

\* The passes of the scheduler, with their stale reads, failures and crashes,
\* keep the contract of a run: a task starts only on a met condition and under
\* no hold, is skipped only when it can never start, and the run ends once,
\* idle, unheld and with the outcome of its tasks.
THEOREM PromiseKept ==
    ASSUME AwaitAdmission
    PROVE  Spec => KeepsPromise
<1>1. Init => Keeping
  BY KeepingInit
<1>2. Keeping /\ [Next]_vars => Keeping'
  BY KeepingStep
<1>3. Init => RunPromise!Init
  BY DEF Init, RunPromise!Init, NoRow
<1>4. Keeping /\ Keeping' /\ [Next]_vars => [RunPromise!Next]_(RunPromise!vars)
  BY PromiseStep DEF Keeping, TypeInv
<1> QED
  BY <1>1, <1>2, <1>3, <1>4, PTL DEF Spec, KeepsPromise, RunPromise!Spec

-----------------------------------------------------------------------------
(* Skips are final, within the retry budgets.  What is judged for good is  *)
(* the row of a task that has settled, or that failed with no retry to     *)
(* come: only an attempt beyond the budget touches it again.               *)

ForGood(u) ==
    \/ rows[u].status \in SettledStatuses
    \/ rows[u].status = "FAILED" /\ ~Retryable(u)

LostForGood == {e \in Edges : ForGood(e.on) /\ ~EdgeSatisfied(e, rows)}

DoomedForGood == Doomed(LostForGood, Absent(rows))

Choosing == sched.pc \in {"wait", "dispatch", "admit", "refused"}

Settling == sched.pc \in {"settle", "skip", "plan"} /\ ~sched.ending

\* From refresh_retries to the end of the pass, no retry is left to be taken
\* among the tasks without a job, and no spent one is considered.
RetriesTaken ==
    /\ Settling => \A t \in Tasks \ sched.jobs : ~Retryable(t)
    /\ Settling \/ Choosing => \A t \in Tasks \ sched.jobs : Spent(t) => t \in sched.attempted
    /\ sched.pc \in {"wait", "dispatch", "admit"} => sched.todo \cap sched.attempted = {}
    /\ sched.pc = "refused" => /\ (sched.todo \ {First(sched.todo)}) \cap sched.attempted = {}
                               /\ ~Spent(First(sched.todo))

\* A gate is asked only about a task whose own upstreams have all been decided.
UpstreamsDecided ==
    Choosing => \A t \in sched.todo \cap sched.gated : \A e \in EdgesOf(t) :
                    Retries[e.on] = 0 \/ ForGood(e.on)

\* What is skipped, or about to be, has too few edges left for good.
SkippedForGood ==
    AttemptsWithinBudget =>
        /\ \A t \in Tasks : rows[t].status = "SKIPPED" =>
               Cardinality(Left(t, LostForGood, DoomedForGood)) < RequiredEdges(t)
        /\ sched.pc = "skip" =>
               \A t \in sched.doomed : rows[t].status = "absent" => t \in DoomedForGood

\* What is satisfied is left: no doomed task has ended.
LEMMA SatisfiedIsLeft ==
    ASSUME NEW t \in Tasks
    PROVE  /\ SatisfiedEdges(t, rows, 0) <= Cardinality(Left(t, LostForGood, DoomedForGood))
           /\ SatisfiedEdges(t, rows, 0) \in Nat
           /\ Cardinality(Left(t, LostForGood, DoomedForGood)) \in Nat
<1> DEFINE L == LostForGood
           D == DoomedForGood
           S == {e \in EdgesOf(t) : EdgeSatisfied(e, rows)}
<1>1. \A u \in D : rows[u].status = "absent"
  <2>1. Absent(rows) \in SUBSET Tasks
    BY DEF Absent
  <2> QED
    BY <2>1, DoomedHasTooFew DEF DoomedForGood, Absent
<1>2. S \in SUBSET Left(t, L, D)
  <2> SUFFICES ASSUME NEW e \in S PROVE e \in Left(t, L, D)
    OBVIOUS
  <2>1. e \in Edges
    BY EdgesFinite
  <2>2. e.on \notin D
    BY <1>1, <2>1, UnfinishedDecidesNothing
  <2> QED
    BY <2>2 DEF Left, LostForGood
<1>3. Left(t, L, D) \in SUBSET EdgesOf(t)
  BY DEF Left
<1>4. /\ Cardinality(S) \in Nat /\ Cardinality(Left(t, L, D)) \in Nat
      /\ Cardinality(S) <= Cardinality(Left(t, L, D))
  BY <1>2, <1>3, CountMonotonic
<1> QED
  BY <1>4 DEF SatisfiedEdges

\* A task whose condition is met is not doomed.
LEMMA StartableIsNotDoomed ==
    ASSUME NEW t \in Tasks, SatisfiedEdges(t, rows, Confirmed(t)) >= RequiredEdges(t)
    PROVE  t \notin DoomedForGood
<1> SUFFICES ASSUME t \in DoomedForGood PROVE FALSE
  OBVIOUS
<1>1. ~LeftSuffices(t, LostForGood, DoomedForGood)
  <2>1. Absent(rows) \in SUBSET Tasks
    BY DEF Absent
  <2> QED
    BY <2>1, DoomedHasTooFew DEF DoomedForGood
<1>2. Cardinality(Left(t, LostForGood, DoomedForGood)) + Assumed(t) < RequiredEdges(t)
  BY <1>1, SatisfiedIsLeft, Requirements DEF LeftSuffices
<1>3. SatisfiedEdges(t, rows, Confirmed(t)) = SatisfiedEdges(t, rows, 0) + Confirmed(t)
  <2>1. SatisfiedEdges(t, rows, 0) \in Nat /\ Cardinality({e \in EdgesOf(t) : EdgeSatisfied(e, rows)}) \in Nat
    <3>1. {e \in EdgesOf(t) : EdgeSatisfied(e, rows)} \in SUBSET EdgesOf(t)
      OBVIOUS
    <3> QED
      BY <3>1, SatisfiedIsLeft, CountMonotonic
  <2> QED
    BY <2>1 DEF SatisfiedEdges, Confirmed
<1>4. Confirmed(t) <= Assumed(t) /\ Confirmed(t) \in Nat /\ Assumed(t) \in Nat
  BY DEF Confirmed, Assumed
<1> QED
  BY <1>2, <1>3, <1>4, SatisfiedIsLeft, Requirements

\* What is judged of a task depends on its row and its attempt only.
LEMMA SameJudgement ==
    ASSUME NEW u \in Tasks, rows'[u] = rows[u],
           attempt'[u].status = attempt[u].status, attempt'[u].number = attempt[u].number,
           attempt'[u].retryable = attempt[u].retryable
    PROVE  /\ Retryable(u)' <=> Retryable(u)
           /\ Spent(u)' <=> Spent(u)
           /\ ForGood(u)' <=> ForGood(u)
  BY DEF Retryable, Spent, ForGood, FailedAttempt

\* Between two steps of the scheduler nothing happens to a task that neither
\* runs nor may be claimed.
LEMMA OutsideLeaves ==
    ASSUME TypeOK, Ledger, Outside, NEW u \in Tasks,
           rows[u].status # "IN-PROGRESS" \/ (~MayRun(u) /\ u \notin sched.jobs)
    PROVE  /\ rows'[u] = rows[u]
           /\ attempt'[u].status = attempt[u].status
           /\ attempt'[u].number = attempt[u].number
           /\ attempt'[u].retryable = attempt[u].retryable
<1>1. attempt[u].status # "RUNNING" /\ (attempt[u].status = "QUEUED" => ~Cluster /\ ~Observed(u))
  BY DEF Ledger, RowAgrees, IsActive, Active, MayRun, Observed
<1> QED
  BY <1>1 DEF Outside, Moves

\* Attempts are only counted up.
LEMMA BudgetBefore ==
    ASSUME TypeInv, Ledger, [Next]_vars, AttemptsWithinBudget'
    PROVE  AttemptsWithinBudget
<1> SUFFICES ASSUME NEW u \in Tasks PROVE attempt[u].number <= Retries[u] + 1
  BY DEF AttemptsWithinBudget
<1>1. TypeOK /\ attempt[u].number \in Nat /\ Retries[u] \in Nat
      /\ attempt'[u].number <= Retries[u] + 1
  BY SchedulerAssumption DEF TypeInv, TypeOK, Attempts, AttemptsWithinBudget
<1>2. \/ attempt'[u].number = attempt[u].number
      \/ attempt'[u].number \in {attempt[u].number + 1, NumberCap(u)}
  BY <1>1, NextIs, SuperviseRows DEF Decides, Outside, Moves
<1> QED
  BY <1>1, <1>2 DEF NumberCap

\* What an admission that queues an attempt is about: a task without a job,
\* not set aside, that can start now; one that failed for good has no retries,
\* so that the attempt is beyond its budget.
LEMMA AdmitIs ==
    ASSUME Keeping, RetriesTaken, NEW u \in Tasks, Admit(u), attempt[u].status # "QUEUED"
    PROVE  /\ rows[u].status \in {"absent", "FAILED"}
           /\ SatisfiedEdges(u, rows, Confirmed(u)) >= RequiredEdges(u)
           /\ ForGood(u) => Retries[u] = 0 /\ attempt'[u].number > Retries[u] + 1
<1>0. TypeOK /\ sched \in Memory /\ RowAgrees(u)
  BY DEF Keeping, TypeInv, TypeOK, Ledger
<1>1. sched.pc = "admit" /\ u = First(sched.todo)
  BY DEF Admit, Admitting
<1>2. /\ rows[u].status \in {"absent", "FAILED"}
      /\ SatisfiedEdges(u, rows, Confirmed(u)) >= RequiredEdges(u)
  BY <1>1 DEF Keeping, Passed
<1>3. ~Spent(u)
  <2>1. sched.todo \in SUBSET Tasks /\ sched.todo # {}
    BY <1>0, <1>1 DEF Keeping, Planned, Memory
  <2>2. u \in sched.todo
    BY <1>1, <2>1, FirstIsMember
  <2>3. u \notin sched.jobs /\ u \notin sched.attempted
    BY <1>1, <2>2 DEF Keeping, Planned, RetriesTaken
  <2> QED
    BY <1>1, <2>3 DEF RetriesTaken, Choosing
<1>4. ASSUME ForGood(u) PROVE Retries[u] = 0 /\ attempt'[u].number > Retries[u] + 1
  <2>1. rows[u].status = "FAILED" /\ ~Retryable(u)
    BY <1>2, <1>4 DEF ForGood, SettledStatuses
  <2>2. attempt[u].status \in {"FAILED", "HANDED_OFF"} /\ attempt[u].number \in Nat
        /\ attempt[u].number >= 1 /\ Retries[u] \in Nat
    BY <1>0, <2>1, SchedulerAssumption
       DEF RowAgrees, IsActive, Active, TypeOK, Attempts, AttemptStatuses
  <2>3. Retries[u] = 0
    BY <1>3, <2>1, <2>2 DEF Spent, Retryable, FailedAttempt
  <2>4. attempt'[u] = NextAttempt(u, "none")
    BY <1>0 DEF Admit, TypeOK
  <2>5. attempt'[u].number \in {attempt[u].number + 1, NumberCap(u)}
    BY <2>4 DEF NextAttempt
  <2> QED
    BY <2>2, <2>3, <2>5 DEF NumberCap
<1> QED
  BY <1>2, <1>4

\* What is judged for good stays as it is, but for an attempt beyond its budget.
LEMMA ForGoodStays ==
    ASSUME Keeping, RetriesTaken, [Next]_vars, NEW u \in Tasks, ForGood(u)
    PROVE  \/ rows'[u] = rows[u] /\ ForGood(u)'
           \/ Retries[u] = 0 /\ attempt'[u].number > Retries[u] + 1
<1>0. TypeInv /\ TypeOK /\ Ledger /\ RowAgrees(u)
  BY DEF Keeping, TypeInv, Ledger
<1>1. rows[u].status \in {"SUCCESS", "SKIPPED", "FAILED"} /\ ~IsActive(u)
  BY <1>0 DEF ForGood, SettledStatuses, RowAgrees
<1>2. CASE Outside
  BY <1>0, <1>1, <1>2, OutsideLeaves, SameJudgement
<1>3. CASE Supervise \/ Crash
  <2>1. CASE rows'[u] = rows[u] /\ attempt'[u] = attempt[u]
    BY <2>1, SameJudgement
  <2>2. CASE Admit(u)
    BY <1>1, <2>2, AdmitIs DEF IsActive, Active
  <2>3. u \notin NewRetries
    BY <1>0 DEF NewRetries, Retryable, FailedAttempt, ForGood, SettledStatuses, RowAgrees
  <2> QED
    BY <1>0, <1>1, <1>3, <2>1, <2>2, <2>3, SuperviseRows DEF Decides, NoRow
<1> QED
  BY <1>0, <1>2, <1>3, NextIs

LEMMA LostStaysLost ==
    ASSUME Keeping, RetriesTaken, [Next]_vars, AttemptsWithinBudget'
    PROVE  LostForGood \subseteq LostForGood'
<1> SUFFICES ASSUME NEW e \in LostForGood PROVE e \in LostForGood'
  OBVIOUS
<1>1. e \in Edges /\ e.on \in Tasks /\ ForGood(e.on) /\ ~EdgeSatisfied(e, rows)
  BY EdgeParts DEF LostForGood
<1>2. rows'[e.on] = rows[e.on] /\ ForGood(e.on)'
  <2>1. attempt'[e.on].number \in Nat /\ Retries[e.on] \in Nat
        /\ attempt'[e.on].number <= Retries[e.on] + 1
    <3>1. TypeOK'
      BY TypeStep DEF Keeping, TypeInv
    <3> QED
      BY <1>1, <3>1, SchedulerAssumption DEF TypeOK, Attempts, AttemptsWithinBudget
  <2> QED
    BY <1>1, <2>1, ForGoodStays
<1>3. ~EdgeSatisfied(e, rows')
  BY <1>1, <1>2 DEF EdgeSatisfied
<1> QED
  BY <1>1, <1>2, <1>3 DEF LostForGood

\* A task that has never run either stays so, is skipped, or is admitted.
LEMMA NeverRun ==
    ASSUME Keeping, [Next]_vars, NEW u \in Tasks, rows[u].status = "absent"
    PROVE  rows'[u].status \in {"absent", "SKIPPED"} \/ (Admit(u) /\ attempt[u].status # "QUEUED")
<1>0. TypeInv /\ TypeOK /\ Ledger /\ RowAgrees(u)
  BY DEF Keeping, TypeInv, Ledger
<1>1. ~IsActive(u) /\ attempt[u].status # "QUEUED" /\ u \notin NewRetries
  BY <1>0 DEF RowAgrees, IsActive, Active, NewRetries, Retryable, FailedAttempt
<1> QED
  BY <1>0, <1>1, NextIs, OutsideRows, SuperviseRows DEF Decides, RowAgrees

LEMMA DoomStays ==
    ASSUME Keeping, RetriesTaken, [Next]_vars, AttemptsWithinBudget'
    PROVE  DoomedForGood \subseteq DoomedForGood' \cup {u \in Tasks : rows'[u].status = "SKIPPED"}
<1> DEFINE A == Absent(rows)
           AA == Absent(rows')
           L == LostForGood
           LL == LostForGood'
           K == {u \in Tasks : rows'[u].status = "SKIPPED"}
           N == {u \in A : Admit(u) /\ attempt[u].status # "QUEUED"}
<1>1. A \in SUBSET Tasks /\ AA \in SUBSET Tasks /\ K \in SUBSET Tasks
  BY DEF Absent
<1>2. L \subseteq LL
  BY LostStaysLost
<1>3. A \subseteq AA \cup K \cup N
  BY NeverRun DEF Absent
<1>4. N \cap Doomed(L, A) = {}
  <2> SUFFICES ASSUME NEW u \in N PROVE u \notin Doomed(L, A)
    OBVIOUS
  <2>1. u \in Tasks /\ SatisfiedEdges(u, rows, Confirmed(u)) >= RequiredEdges(u)
    BY AdmitIs DEF Absent
  <2> QED
    BY <2>1, StartableIsNotDoomed DEF DoomedForGood
<1>5. ASSUME NEW e \in Edges, e.on \in K, e.type # "ALWAYS" PROVE e \in LL
  <2>1. ForGood(e.on)'
    BY <1>5 DEF ForGood, SettledStatuses
  <2>2. ~EdgeSatisfied(e, rows')
    BY <1>5, EdgeParts DEF EdgeSatisfied, DependencyTypes
  <2> QED
    BY <2>1, <2>2 DEF LostForGood
<1>6. DoomedForGood = Doomed(L, A) /\ DoomedForGood' = Doomed(LL, AA)
  BY DEF DoomedForGood
<1> HIDE DEF A, AA, L, LL, K, N
<1>7. Doomed(L, A) \subseteq Doomed(LL, AA) \cup K
  BY <1>1, <1>2, <1>3, <1>4, <1>5, DoomedGrows
<1> QED
  BY <1>6, <1>7 DEF K

LEMMA RetriesTakenOutside ==
    ASSUME Keeping, RetriesTaken, Outside
    PROVE  RetriesTaken'
<1>0. TypeOK /\ Ledger /\ sched \in Memory
  BY DEF Keeping, TypeInv, TypeOK
<1>1. /\ sched'.jobs = sched.jobs /\ sched'.pc = sched.pc /\ sched'.ending = sched.ending
      /\ sched'.attempted = sched.attempted /\ sched'.todo = sched.todo
  BY <1>0 DEF Outside, Memory
<1>2. ASSUME sched.pc # "none", NEW t \in Tasks \ sched.jobs
      PROVE  (Retryable(t)' <=> Retryable(t)) /\ (Spent(t)' <=> Spent(t))
  <2>1. ~MayRun(t)
    BY <1>2 DEF Keeping, Observing
  <2> QED
    BY <1>0, <2>1, OutsideLeaves, SameJudgement
<1>3. sched.pc = "refused" => ~Spent(First(sched.todo))'
  <2> SUFFICES ASSUME sched.pc = "refused" PROVE ~Spent(First(sched.todo))'
    OBVIOUS
  <2>1. PICK t \in sched.todo : t = First(sched.todo)
    BY <1>0, FirstIsMember DEF Keeping, Planned, Memory
  <2>2. t \in Tasks \ sched.jobs
    BY <1>0 DEF Keeping, Planned, Memory
  <2>3. ~Spent(t)'
    BY <1>2, <2>1, <2>2 DEF RetriesTaken
  <2> QED
    BY <1>1, <2>1, <2>3 DEF Spent, FailedAttempt
<1> QED
  BY <1>1, <1>2, <1>3 DEF RetriesTaken, Settling, Choosing

\* A step that queues nothing makes no task retryable, and none spent.
LEMMA NothingQueued ==
    ASSUME Keeping, Supervise \/ Crash, NEW u \in Tasks, attempt' = attempt
    PROVE  /\ Retryable(u)' => Retryable(u) \/ (Wait /\ Spent(u))
           /\ Spent(u)' => Spent(u)
<1>0. TypeInv /\ TypeOK /\ Ledger
  BY DEF Keeping, TypeInv
<1>1. CASE rows'[u] = rows[u]
  BY <1>1, SameJudgement
<1>2. CASE attempt[u].status = "absent" \/ IsActive(u)
  BY <1>2 DEF Retryable, Spent, FailedAttempt, IsActive, Active
<1>3. CASE attempt[u].status = "HANDED_OFF" /\ rows[u].status = "IN-PROGRESS"
  <2>1. Spent(u)
    BY <1>3 DEF Spent, FailedAttempt
  <2> QED
    BY <1>0, <1>1, <1>3, <2>1, SuperviseRows DEF Decides, NoRow
<1> QED
  BY <1>0, <1>1, <1>2, <1>3, SuperviseRows DEF Decides, IsActive, Active

LEMMA RetriesTakenDispatch ==
    ASSUME Keeping, RetriesTaken, NEW t \in Tasks, Dispatch(t)
    PROVE  RetriesTaken'
<1>0. TypeInv /\ TypeOK /\ sched \in Memory /\ Supervise
  BY DEF Keeping, TypeInv, TypeOK, Supervise
<1> DEFINE Aside == \A u \in Tasks \ sched'.jobs : Spent(u)' => u \in sched'.attempted
<1>1. sched'.pc \in {"dispatch", "admit", "refused"} /\ Choosing
  BY <1>0, DispatchMemory DEF Choosing
<1>2. \A u \in Tasks \ sched.jobs : Spent(u) => u \in sched.attempted
  BY <1>1 DEF RetriesTaken
<1>3. ASSUME NEW u \in Tasks, u # t \/ ~Admit(t) PROVE Spent(u)' => Spent(u)
  <2>1. CASE attempt' = attempt
    BY <1>0, <2>1, NothingQueued DEF Wait
  <2>2. CASE Admit(t)
    <3>1. rows'[u] = rows[u] /\ attempt'[u] = attempt[u]
      BY <1>0, <1>3, <2>2 DEF Admit, TypeOK
    <3> QED
      BY <3>1, SameJudgement
  <2> QED
    BY <2>1, <2>2 DEF Dispatch, Postpone, Pass, SkipRefused, Block, AdmitRefused, ReadFences
<1>4. CASE sched.pc = "dispatch" /\ sched'.pc = "dispatch"
  <2>1. /\ sched'.jobs = sched.jobs /\ sched'.todo = sched.todo \ {t}
        /\ sched'.attempted \in {sched.attempted, sched.attempted \cup {t}}
        /\ ~Admit(t)
    BY <1>0, <1>4, DispatchMemory DEF Admit, Admitting
  <2>2. Aside
    BY <1>2, <1>3, <2>1
  <2> QED
    BY <1>4, <2>1, <2>2 DEF RetriesTaken, Settling, Choosing
<1>5. CASE sched'.pc = "admit"
  <2>1. /\ sched'.jobs = sched.jobs /\ sched'.todo = sched.todo
        /\ sched'.attempted = sched.attempted /\ sched.pc = "dispatch"
        /\ ~Admit(t)
    BY <1>0, <1>5, DispatchMemory DEF Admit, Admitting
  <2>2. Aside
    BY <1>2, <1>3, <2>1
  <2> QED
    BY <1>5, <2>1, <2>2 DEF RetriesTaken, Settling, Choosing
<1>6. CASE sched.pc = "admit" /\ sched'.pc = "dispatch"
  <2>1. /\ sched'.jobs = sched.jobs \cup {t} /\ sched'.todo = sched.todo \ {t}
        /\ sched'.attempted = sched.attempted \cup {t}
    BY <1>0, <1>6, DispatchMemory
  <2>2. Aside
    BY <1>2, <1>3, <2>1
  <2> QED
    BY <1>6, <2>1, <2>2 DEF RetriesTaken, Settling, Choosing
<1>7. CASE sched'.pc = "refused"
  <2>1. /\ sched'.jobs = sched.jobs /\ sched'.todo = sched.todo
        /\ sched'.attempted = sched.attempted \cup {t} /\ sched.pc = "admit"
        /\ t = First(sched.todo)
    BY <1>0, <1>7, DispatchMemory
  <2>2. ~Admit(t) /\ UNCHANGED <<rows, attempt>>
    BY <1>7, <2>1, <1>0 DEF Dispatch, Postpone, Pass, SkipRefused, Block, Admit, AdmitRefused, ReadFences,
       Admitted, Drop, Dispatching, Memory
  <2>3. Aside
    BY <1>2, <1>3, <2>1, <2>2
  <2>4. t \in sched.todo
    BY <1>0, <2>1, FirstIsMember DEF Keeping, Planned, Memory
  <2>5. ~Spent(t)
    BY <1>2, <2>1, <2>4 DEF RetriesTaken, Keeping, Planned
  <2>6. First(sched.todo)' = t /\ ~Spent(First(sched.todo))'
    BY <2>1, <2>2, <2>5 DEF Spent, FailedAttempt
  <2> QED
    BY <1>7, <2>1, <2>3, <2>6 DEF RetriesTaken, Settling, Choosing
<1>8. CASE sched.pc = "refused"
  <2>1. /\ sched'.jobs = sched.jobs /\ sched'.todo = sched.todo \ {t} /\ sched'.pc = "dispatch"
        /\ sched'.attempted \in {sched.attempted, sched.attempted \ {t}}
        /\ t = First(sched.todo) /\ ~Admit(t)
    BY <1>0, <1>8, DispatchMemory DEF Admit, Admitting
  <2>2. ~Spent(t)
    BY <1>8, <2>1 DEF RetriesTaken
  <2>3. Aside
    BY <1>2, <1>3, <2>1, <2>2
  <2> QED
    BY <1>8, <2>1, <2>3 DEF RetriesTaken, Settling, Choosing
<1> QED
  BY <1>0, <1>4, <1>5, <1>6, <1>7, <1>8, DispatchMemory

LEMMA RetriesTakenStep ==
    ASSUME Keeping, RetriesTaken, [Next]_vars
    PROVE  RetriesTaken'
<1>0. TypeInv /\ TypeOK /\ Ledger /\ sched \in Memory
  BY DEF Keeping, TypeInv, TypeOK
<1>1. CASE Outside
  BY <1>1, RetriesTakenOutside
<1>2. CASE Refresh
  <2> DEFINE retries == NewRetries \cup {t \in Eligible : QueuedRetry(t)}
             spent == {t \in Eligible : Spent(t)}
  <2>1. /\ sched'.pc = "settle" /\ sched'.jobs = sched.jobs
        /\ sched'.attempted = (sched.attempted \cup spent) \ retries
    BY <1>0, <1>2 DEF Refresh, Memory
  <2>2. ASSUME NEW t \in Tasks \ sched.jobs
        PROVE  ~Retryable(t)' /\ (Spent(t)' => t \in sched'.attempted)
    <3>1. CASE t \in NewRetries
      <4>1. attempt'[t].status = "QUEUED"
        BY <1>0, <1>2, <3>1 DEF Refresh, NextAttempt, TypeOK
      <4> QED
        BY <4>1 DEF Retryable, Spent, FailedAttempt
    <3>2. CASE t \notin NewRetries
      <4>1. rows'[t] = rows[t] /\ attempt'[t] = attempt[t]
        BY <1>0, <1>2, <3>2 DEF Refresh, TypeOK
      <4>2. ~Retryable(t)
        BY <3>2 DEF NewRetries, Eligible
      <4>3. Spent(t) => t \in spent \ retries
        BY <3>2 DEF Spent, FailedAttempt, QueuedRetry, Eligible
      <4> QED
        BY <2>1, <4>1, <4>2, <4>3, SameJudgement
    <3> QED
      BY <3>1, <3>2
  <2> QED
    BY <2>1, <2>2 DEF RetriesTaken, Settling, Choosing
<1>3. CASE Settle \/ Skip \/ EndSettling
  <2>1. /\ sched'.pc \in {"skip", "plan", "judge"} /\ sched.pc \in {"settle", "skip"}
        /\ sched'.jobs = sched.jobs /\ sched'.attempted = sched.attempted
        /\ sched'.ending = sched.ending /\ attempt' = attempt
    BY <1>0, <1>3 DEF Settle, Skip, EndSettling, AfterSettling, Goto, Memory
  <2>2. \A u \in Tasks : (Retryable(u)' => Retryable(u)) /\ (Spent(u)' => Spent(u))
    <3>1. Supervise /\ ~Wait
      BY <1>3, <2>1 DEF Supervise, Wait
    <3> QED
      BY <2>1, <3>1, NothingQueued
  <2> QED
    BY <2>1, <2>2 DEF RetriesTaken, Settling, Choosing
<1>4. CASE Plan
  <2>1. /\ sched'.pc = "wait" /\ sched.pc = "plan" /\ ~sched.ending
        /\ sched'.jobs = sched.jobs /\ sched'.attempted = sched.attempted
        /\ sched'.todo \cap sched'.attempted = {}
        /\ UNCHANGED <<rows, attempt>>
    BY <1>0, <1>4 DEF Plan, Memory, Keeping, Observing
  <2>2. \A u \in Tasks : Spent(u)' <=> Spent(u)
    BY <2>1, SameJudgement
  <2> QED
    BY <2>1, <2>2 DEF RetriesTaken, Settling, Choosing
<1>5. CASE Wait
  <2>1. /\ sched'.pc = "dispatch" /\ sched.pc = "wait" /\ sched'.todo = sched.todo
        /\ sched'.jobs = sched.jobs /\ sched'.attempted = sched.attempted
        /\ attempt' = attempt
    BY <1>0, <1>5 DEF Wait, Memory
  <2>2. \A u \in Tasks : Spent(u)' => Spent(u)
    BY <1>5, <2>1, NothingQueued DEF Supervise
  <2> QED
    BY <2>1, <2>2 DEF RetriesTaken, Settling, Choosing
<1>6. ASSUME NEW t \in Tasks, Dispatch(t) PROVE RetriesTaken'
  BY <1>6, RetriesTakenDispatch
<1>7. CASE Harvest \/ Observe \/ Check
  <2>1. sched'.pc \in {"harvest", "observe", "refresh", "stopped"}
    <3>1. CASE Harvest \/ Observe
      BY <1>0, <3>1 DEF Harvest, Observe, Goto, Memory
    <3>2. CASE Check
      BY <1>0, <3>2 DEF Check, Goto, Idle, Memory
    <3> QED
      BY <1>7, <3>1, <3>2
  <2> QED
    BY <2>1 DEF RetriesTaken, Settling, Choosing
<1>8. CASE Stopped
  <2>1. sched'.pc = "none" \/ (sched'.pc = "settle" /\ sched'.ending)
    BY <1>8 DEF Stopped, Leave, Gone, Idle
  <2> QED
    BY <2>1 DEF RetriesTaken, Settling, Choosing
<1>9. CASE Judge
  <2>1. sched'.pc \in {"none", "end"}
    BY <1>0, <1>9, GoneIs DEF Judge, Leave, Memory
  <2> QED
    BY <2>1 DEF RetriesTaken, Settling, Choosing
<1>10. CASE EndRun \/ RefreshRefused \/ Adopt \/ Crash
  <2>1. sched'.pc \in {"none", "harvest"}
    BY <1>10, GoneIs DEF EndRun, RefreshRefused, Adopt, Crash, Leave, Idle
  <2> QED
    BY <2>1 DEF RetriesTaken, Settling, Choosing
<1> QED
  BY <1>0, <1>1, <1>2, <1>3, <1>4, <1>5, <1>6, <1>7, <1>8, <1>9, <1>10, NextIs DEF Supervise

\* A task that is ready only by what its gate may say has no upstream still to
\* be decided: it is not running, and no retry of it is queued.
LEMMA GatedAreDecided ==
    ASSUME NEW jobs, NEW retries,
           NEW t \in Ready(WithRetries(WithRunning(jobs), retries)),
           SatisfiedEdges(t, WithRunning(jobs), 0) < RequiredEdges(t),
           NEW e \in EdgesOf(t)
    PROVE  /\ e.on \in Tasks
           /\ e.on \notin jobs
           /\ rows[e.on].status \in TerminalStatuses
<1> DEFINE state == WithRunning(jobs)
           seen == WithRetries(state, retries)
<1>1. t \in Tasks /\ CanStart(t, seen)
  BY DEF Ready
<1>2. e.on \in Tasks
  BY <1>1, EdgesFinite, EdgeParts
<1>3. SatisfiedEdges(t, seen, 0) <= SatisfiedEdges(t, state, 0)
      /\ SatisfiedEdges(t, seen, 0) \in Nat /\ SatisfiedEdges(t, state, 0) \in Nat
  BY <1>1, RetriesSatisfyLess
<1>4. SatisfiedEdges(t, seen, 0) < RequiredEdges(t)
  BY <1>1, <1>3, Requirements
<1>5. ~UpstreamPending(t, seen)
  BY <1>1, <1>3, <1>4, Requirements DEF CanStart
<1>6. seen[e.on].status \in TerminalStatuses
  BY <1>5 DEF UpstreamPending
<1>7. seen[e.on] = rows[e.on] /\ e.on \notin jobs
  BY <1>2, <1>6 DEF WithRetries, WithRunning, NoRow, InProgress, TerminalStatuses, SettledStatuses
<1> QED
  BY <1>2, <1>6, <1>7

LEMMA UpstreamsDecidedStep ==
    ASSUME Keeping, RetriesTaken, UpstreamsDecided, [Next]_vars
    PROVE  UpstreamsDecided'
<1>0. TypeOK /\ sched \in Memory
  BY DEF Keeping, TypeInv, TypeOK
<1>1. CASE Choosing /\ sched'.todo \subseteq sched.todo /\ sched'.gated = sched.gated
  <2> SUFFICES ASSUME NEW t \in sched'.todo \cap sched'.gated, NEW e \in EdgesOf(t)
               PROVE  Retries[e.on] = 0 \/ ForGood(e.on)'
    BY DEF UpstreamsDecided
  <2>1. t \in sched.todo \cap sched.gated /\ t \in Tasks
    BY <1>0, <1>1 DEF Memory
  <2>2. e.on \in Tasks
    BY <2>1, EdgesFinite, EdgeParts
  <2>3. Retries[e.on] = 0 \/ ForGood(e.on)
    BY <1>1, <2>1 DEF UpstreamsDecided
  <2> QED
    BY <2>2, <2>3, ForGoodStays
<1>2. CASE Plan
  <2> DEFINE state == WithRunning(sched.jobs)
             ready == Ready(WithRetries(state, sched.retries))
  <2>1. /\ sched'.todo \subseteq ready /\ sched.pc = "plan" /\ ~sched.ending
        /\ sched'.gated \subseteq {t \in ready : SatisfiedEdges(t, state, 0) < RequiredEdges(t)}
        /\ UNCHANGED <<rows, attempt>>
    BY <1>0, <1>2 DEF Plan, Memory, Keeping, Observing
  <2> SUFFICES ASSUME NEW t \in sched'.todo \cap sched'.gated, NEW e \in EdgesOf(t)
               PROVE  ForGood(e.on)'
    BY DEF UpstreamsDecided
  <2>2. t \in ready /\ SatisfiedEdges(t, state, 0) < RequiredEdges(t)
    BY <2>1
  <2>3. e.on \in Tasks /\ e.on \notin sched.jobs /\ rows[e.on].status \in TerminalStatuses
    BY <2>2, GatedAreDecided
  <2>4. ~Retryable(e.on)
    BY <2>1, <2>3 DEF RetriesTaken, Settling
  <2>5. rows[e.on].status # "CANCELLED"
    BY <1>0, <2>3, StatusNames DEF TypeOK, Rows
  <2>6. ForGood(e.on)
    BY <2>3, <2>4, <2>5 DEF ForGood, TerminalStatuses
  <2> QED
    BY <2>1, <2>3, <2>6, SameJudgement
<1>3. CASE Outside
  <2>1. /\ sched'.pc = sched.pc /\ sched'.todo = sched.todo /\ sched'.gated = sched.gated
    BY <1>0, <1>3 DEF Outside, Memory
  <2> QED
    BY <1>1, <2>1 DEF UpstreamsDecided, Choosing
<1>4. CASE Wait
  <2>1. Choosing /\ sched'.todo = sched.todo /\ sched'.gated = sched.gated
    BY <1>0, <1>4 DEF Wait, Memory, Choosing
  <2> QED
    BY <1>1, <2>1
<1>5. ASSUME NEW t \in Tasks, Dispatch(t) PROVE UpstreamsDecided'
  BY <1>0, <1>1, <1>5, DispatchMemory DEF Choosing
<1>6. CASE Harvest \/ Observe \/ Refresh
  <2>1. sched'.pc \in {"harvest", "observe", "refresh", "stopped", "settle"}
    BY <1>0, <1>6 DEF Harvest, Observe, Refresh, Goto, Memory
  <2> QED
    BY <2>1 DEF UpstreamsDecided, Choosing
<1>7. CASE Settle \/ Skip \/ EndSettling
  <2>1. sched'.pc \in {"skip", "plan", "judge"}
    BY <1>0, <1>7 DEF Settle, Skip, EndSettling, AfterSettling, Goto, Memory
  <2> QED
    BY <2>1 DEF UpstreamsDecided, Choosing
<1>8. CASE Check
  <2>1. sched'.pc \in {"harvest", "stopped"}
    BY <1>0, <1>8 DEF Check, Goto, Idle, Memory
  <2> QED
    BY <2>1 DEF UpstreamsDecided, Choosing
<1>9. CASE Stopped
  <2>1. sched'.pc \in {"none", "settle"}
    BY <1>9 DEF Stopped, Leave, Gone, Idle
  <2> QED
    BY <2>1 DEF UpstreamsDecided, Choosing
<1>10. CASE Judge
  <2>1. sched'.pc \in {"none", "end"}
    BY <1>0, <1>10, GoneIs DEF Judge, Leave, Memory
  <2> QED
    BY <2>1 DEF UpstreamsDecided, Choosing
<1>11. CASE EndRun \/ RefreshRefused \/ Adopt \/ Crash
  <2>1. sched'.pc \in {"none", "harvest"}
    BY <1>11, GoneIs DEF EndRun, RefreshRefused, Adopt, Crash, Leave, Idle
  <2> QED
    BY <2>1 DEF UpstreamsDecided, Choosing
<1> QED
  BY <1>0, <1>2, <1>3, <1>4, <1>5, <1>6, <1>7, <1>8, <1>9, <1>10, <1>11, NextIs DEF Supervise

\* What the scheduler finds doomed is doomed for good: it takes failures as
\* final only when nothing runs and no retry is left.
LEMMA SettleFindsDoomed ==
    ASSUME Keeping, RetriesTaken, sched.pc = "settle", NEW S
    PROVE  Unsatisfiable(WithRunning(S), sched.final /\ ~sched.ending) \subseteq DoomedForGood
<1> DEFINE seen == WithRunning(S)
           final == sched.final /\ ~sched.ending
<1>0. sched \in Memory
  BY DEF Keeping, TypeInv, TypeOK
<1>1. ASSUME NEW e \in Edges, EdgeLost(e, seen, final) PROVE e \in LostForGood
  <2>1. e.on \in Tasks /\ seen[e.on].status \notin {"absent", "IN-PROGRESS"}
    BY <1>1, EdgeParts, UnfinishedDecidesNothing
  <2>2. seen[e.on] = rows[e.on]
    BY <2>1 DEF WithRunning, InProgress
  <2>3. ~EdgeSatisfied(e, rows)
    BY <1>1, <2>2 DEF EdgeLost, EdgeSatisfied
  <2>4. ForGood(e.on)
    <3>1. CASE rows[e.on].status \in SettledStatuses
      BY <3>1 DEF ForGood
    <3>2. CASE final /\ rows[e.on].status = "FAILED"
      <4>1. sched.jobs = {} /\ Settling
        BY <3>2 DEF Keeping, Observing, Settling
      <4>2. ~Retryable(e.on)
        BY <2>1, <4>1 DEF RetriesTaken
      <4> QED
        BY <3>2, <4>2 DEF ForGood
    <3> QED
      BY <1>1, <2>2, <3>1, <3>2 DEF EdgeLost
  <2> QED
    BY <2>3, <2>4 DEF LostForGood
<1>2. LostEdges(seen, final) \subseteq LostForGood
  BY <1>1 DEF LostEdges
<1>3. Absent(seen) \subseteq Absent(rows) /\ Absent(rows) \in SUBSET Tasks
      /\ Absent(seen) \in SUBSET Tasks
  BY DEF Absent, WithRunning, InProgress
<1>4. Doomed(LostEdges(seen, final), Absent(seen)) \subseteq Doomed(LostForGood, Absent(rows))
  BY <1>2, <1>3, DoomedMonotonic
<1>5. Unsatisfiable(seen, final) = Doomed(LostEdges(seen, final), Absent(seen))
  <2>1. final \in BOOLEAN
    OBVIOUS
  <2> QED
    BY <2>1, UnsatisfiableIsDoomed
<1> QED
  BY <1>4, <1>5 DEF DoomedForGood

\* What is doomed when it is skipped has too few edges left, and so has what
\* its gate refuses: all its own upstreams are decided.
LEMMA DoomedLeft ==
    ASSUME NEW t \in DoomedForGood
    PROVE  Cardinality(Left(t, LostForGood, DoomedForGood)) < RequiredEdges(t)
<1>1. Absent(rows) \in SUBSET Tasks
  BY DEF Absent
<1>2. t \in Tasks /\ ~LeftSuffices(t, LostForGood, DoomedForGood)
  BY <1>1, DoomedHasTooFew DEF DoomedForGood
<1> QED
  BY <1>2, SatisfiedIsLeft, Requirements DEF LeftSuffices

LEMMA RefusedLeft ==
    ASSUME Keeping, UpstreamsDecided, NEW t \in Tasks, SkipRefused(t)
    PROVE  Cardinality(Left(t, LostForGood, DoomedForGood)) < RequiredEdges(t)
<1> DEFINE S == {e \in EdgesOf(t) : EdgeSatisfied(e, rows)}
           R == Left(t, LostForGood, DoomedForGood)
<1>0. TypeOK /\ sched \in Memory
  BY DEF Keeping, TypeInv, TypeOK
<1>1. t \in sched.todo \cap sched.gated /\ Choosing
  BY <1>0, FirstIsMember DEF SkipRefused, Dispatching, GateRefuses, Choosing, Memory
<1>2. /\ gate[t] = "unmet" /\ ~UpstreamPending(t, rows)
      /\ ~(SatisfiedEdges(t, rows, 0) >= RequiredEdges(t))
  BY DEF SkipRefused, GateRefuses, ConditionMet
<1>3. R \in SUBSET S
  <2> SUFFICES ASSUME NEW e \in R, ~EdgeSatisfied(e, rows) PROVE FALSE
    BY DEF Left
  <2>1. e \in EdgesOf(t) /\ e \in Edges /\ e \notin LostForGood
    BY EdgesFinite DEF Left
  <2>2. e.on \in Tasks /\ rows[e.on].status \in TerminalStatuses
    BY <1>2, <2>1, EdgeParts DEF UpstreamPending
  <2>3. rows[e.on].status # "CANCELLED"
    BY <1>0, <2>2, StatusNames DEF TypeOK, Rows
  <2>4. Retries[e.on] = 0 \/ ForGood(e.on)
    BY <1>1, <2>1 DEF UpstreamsDecided
  <2>5. ForGood(e.on)
    BY <2>2, <2>3, <2>4, SchedulerAssumption DEF ForGood, Retryable, TerminalStatuses
  <2> QED
    BY <2>1, <2>5 DEF LostForGood
<1>4. Cardinality(R) <= Cardinality(S) /\ Cardinality(R) \in Nat /\ Cardinality(S) \in Nat
  BY <1>3, CountMonotonic
<1>5. Cardinality(S) < RequiredEdges(t)
  BY <1>2, <1>4, Requirements DEF SatisfiedEdges
<1> QED
  BY <1>4, <1>5, Requirements

LEMMA SkippedForGoodStep ==
    ASSUME Keeping, RetriesTaken, UpstreamsDecided, SkippedForGood, [Next]_vars
    PROVE  SkippedForGood'
<1> SUFFICES ASSUME AttemptsWithinBudget' PROVE SkippedForGood'
  BY DEF SkippedForGood
<1> DEFINE Few(t) == Cardinality(Left(t, LostForGood, DoomedForGood)) < RequiredEdges(t)
           K == {u \in Tasks : rows'[u].status = "SKIPPED"}
<1>0. TypeInv /\ TypeOK /\ Ledger /\ sched \in Memory
  BY DEF Keeping, TypeInv, TypeOK
<1>1. AttemptsWithinBudget
  BY <1>0, BudgetBefore
<1>2. LostForGood \subseteq LostForGood' /\ DoomedForGood \subseteq DoomedForGood' \cup K
  BY LostStaysLost, DoomStays
<1>3. ASSUME NEW e \in Edges, e.on \in K, e.type # "ALWAYS" PROVE e \in LostForGood'
  <2>1. ForGood(e.on)'
    BY <1>3 DEF ForGood, SettledStatuses
  <2>2. ~EdgeSatisfied(e, rows')
    BY <1>3, EdgeParts DEF EdgeSatisfied, DependencyTypes
  <2> QED
    BY <2>1, <2>2 DEF LostForGood
<1>4. ASSUME NEW t \in Tasks, Few(t) PROVE Few(t)'
  <2> DEFINE L == LostForGood
             D == DoomedForGood
             LL == LostForGood'
             DD == DoomedForGood'
  <2>1. L \subseteq LL /\ D \subseteq DD \cup K
        /\ \A e \in Edges : e.on \in K /\ e.type # "ALWAYS" => e \in LL
    BY <1>2, <1>3
  <2> HIDE DEF L, D, LL, DD, K
  <2>2. /\ Cardinality(Left(t, LL, DD)) <= Cardinality(Left(t, L, D))
        /\ Cardinality(Left(t, LL, DD)) \in Nat /\ Cardinality(Left(t, L, D)) \in Nat
    BY <2>1, LeftShrinks
  <2>3. Left(t, LostForGood, DoomedForGood)' = Left(t, LL, DD)
    BY DEF Left, LL, DD
  <2>4. Cardinality(Left(t, L, D)) < RequiredEdges(t)
    BY <1>4 DEF L, D
  <2>5. Cardinality(Left(t, LL, DD)) < RequiredEdges(t)
    BY <2>2, <2>4, Requirements
  <2> QED
    BY <2>5 DEF LL, DD
<1>5. ASSUME NEW t \in Tasks, rows'[t].status = "SKIPPED" PROVE Few(t)'
  <2>1. CASE rows[t].status = "SKIPPED"
    BY <1>1, <1>4, <2>1 DEF SkippedForGood
  <2>2. CASE SkipRefused(t)
    BY <1>4, <2>2, RefusedLeft
  <2>3. CASE Skip /\ t = First(sched.doomed) /\ rows[t] = NoRow
    <3>1. t \in sched.doomed /\ rows[t].status = "absent" /\ sched.pc = "skip"
      BY <1>0, <2>3, FirstIsMember DEF Skip, NoRow, Memory
    <3>2. t \in DoomedForGood
      BY <1>1, <3>1 DEF SkippedForGood
    <3> QED
      BY <1>4, <3>2, DoomedLeft
  <2>4. CASE Outside
    BY <1>0, <1>5, <2>1, <2>4, OutsideRows
  <2>5. CASE Supervise \/ Crash
    BY <1>0, <1>5, <2>1, <2>2, <2>3, <2>5, SuperviseRows DEF Decides
  <2> QED
    BY <1>0, <2>4, <2>5, NextIs
<1>6. ASSUME sched'.pc = "skip", NEW t \in sched'.doomed, rows'[t].status = "absent"
      PROVE  t \in DoomedForGood'
  <2>1. t \in Tasks
    <3>1. sched' \in Memory
      BY <1>0, TypeStep DEF TypeInv, TypeOK
    <3> QED
      BY <1>6, <3>1 DEF Memory
  <2> SUFFICES t \in DoomedForGood
    BY <1>2, <1>6, <2>1
  <2>2. CASE Outside
    <3>1. sched.pc = "skip" /\ t \in sched.doomed
      BY <1>0, <1>6, <2>2 DEF Outside, Memory
    <3>2. rows[t].status = "absent"
      BY <1>0, <1>6, <2>1, <2>2, OutsideRows
    <3> QED
      BY <1>1, <3>1, <3>2 DEF SkippedForGood
  <2>3. CASE Settle
    <3>1. sched.pc = "settle"
          /\ sched'.doomed = Unsatisfiable(WithRunning(held), sched.final /\ ~sched.ending)
      BY <1>0, <1>6, <2>3 DEF Settle, AfterSettling, Goto, Memory
    <3> QED
      BY <1>6, <3>1, SettleFindsDoomed
  <2>4. CASE Skip
    <3>1. sched.pc = "skip" /\ t \in sched.doomed
      BY <1>0, <1>6, <2>4 DEF Skip, Memory
    <3>2. rows[t].status = "absent"
      BY <1>0, <1>6, <2>1, <2>4, SuperviseRows DEF Decides, Supervise
    <3> QED
      BY <1>1, <3>1, <3>2 DEF SkippedForGood
  <2>5. CASE Supervise \/ Crash
    BY <1>0, <1>6, <2>3, <2>4, <2>5, StepsAfter
  <2> QED
    BY <1>0, <2>2, <2>5, NextIs
<1> QED
  BY <1>5, <1>6 DEF SkippedForGood

\* Nothing that the scheduler recorded SKIPPED, by settle_unsatisfiable or for a
\* refused gate, could have started by its own upstreams, then or later, as
\* long as no task is attempted beyond its budget.
THEOREM SkipsFinal ==
    ASSUME AwaitAdmission
    PROVE  Spec => []SkipsAreFinal
<1>1. Init => Keeping /\ RetriesTaken /\ UpstreamsDecided /\ SkippedForGood
  <2> SUFFICES ASSUME Init PROVE RetriesTaken /\ UpstreamsDecided /\ SkippedForGood
    BY KeepingInit
  <2>1. sched.pc = "none"
    BY GoneIs DEF Init
  <2>2. \A t \in Tasks : rows[t].status = "absent"
    BY DEF Init, NoRow
  <2> QED
    BY <2>1, <2>2 DEF RetriesTaken, UpstreamsDecided, SkippedForGood, Settling, Choosing
<1>2. /\ Keeping /\ RetriesTaken /\ UpstreamsDecided /\ SkippedForGood
      /\ [Next]_vars
      => (Keeping /\ RetriesTaken /\ UpstreamsDecided /\ SkippedForGood)'
  BY KeepingStep, RetriesTakenStep, UpstreamsDecidedStep, SkippedForGoodStep
<1>3. SkippedForGood => SkipsAreFinal
  <2> SUFFICES ASSUME SkippedForGood, AttemptsWithinBudget, NEW t \in Tasks,
                      rows[t].status = "SKIPPED"
               PROVE  SatisfiedEdges(t, rows, 0) < RequiredEdges(t)
    BY DEF SkipsAreFinal
  <2>1. Cardinality(Left(t, LostForGood, DoomedForGood)) < RequiredEdges(t)
    BY DEF SkippedForGood
  <2> QED
    BY <2>1, SatisfiedIsLeft, Requirements
<1> QED
  BY <1>1, <1>2, <1>3, PTL DEF Spec
=============================================================================
