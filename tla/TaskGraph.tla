------------------------------ MODULE TaskGraph ------------------------------
(***************************************************************************)
(* The same-pipeline task graph of core/graph.py as operators on the rows  *)
(* of one run: which tasks can start, and which never can.  rows[t] holds  *)
(* the status of t's row ("absent" without one) and whether it wrote rows. *)
(*                                                                         *)
(* A task has at most one edge to another pipeline: the code only counts   *)
(* such edges, and one already tells assumed from confirmed.               *)
(***************************************************************************)
EXTENDS Integers, FiniteSets

CONSTANTS
    Tasks,          \* task ids; the code visits them in ascending order
    Edges,          \* CFG_TASK_DEPENDENCY: task waits on "on"
    RunCondition,   \* "ALL", "ANY" or "N", of each task
    RunCount,       \* RUN_CONDITION_COUNT, read under "N" only
    CrossTasks      \* the tasks with an edge to another pipeline

DependencyTypes == {"SUCCESS", "FAILURE", "ALWAYS", "HAS_DATA"}

EdgesOf(t) == {e \in Edges : e.task = t}

TotalEdges(t) == Cardinality(EdgesOf(t)) + (IF t \in CrossTasks THEN 1 ELSE 0)

\* build_graph refuses anything else; every set of tasks has one that waits
\* on none of them, which is what having no cycle means.
ASSUME GraphAssumption ==
    /\ Tasks \subseteq Nat
    /\ IsFiniteSet(Tasks)
    /\ Edges \subseteq [task : Tasks, on : Tasks, type : DependencyTypes]
    /\ RunCondition \in [Tasks -> {"ALL", "ANY", "N"}]
    /\ RunCount \in [Tasks -> Nat]
    /\ CrossTasks \subseteq Tasks

Acyclic ==
    \A S \in SUBSET Tasks \ {{}} : \E t \in S : \A e \in EdgesOf(t) : e.on \notin S

CountsFit == \A t \in Tasks : RunCondition[t] = "N" => RunCount[t] \in 1..TotalEdges(t)

-----------------------------------------------------------------------------
SettledStatuses == {"SUCCESS", "SKIPPED"}
NotRetryableStatuses == SettledStatuses \cup {"IN-PROGRESS"}
TerminalStatuses == SettledStatuses \cup {"FAILED", "CANCELLED"}

RequiredEdges(t) ==
    CASE RunCondition[t] = "ANY" -> IF TotalEdges(t) = 0 THEN 0 ELSE 1
      [] RunCondition[t] = "N" -> RunCount[t]
      [] OTHER -> TotalEdges(t)

EdgeSatisfied(e, rows) ==
    LET up == rows[e.on]
    IN  CASE e.type = "SUCCESS" -> up.status = "SUCCESS"
          [] e.type = "FAILURE" -> up.status = "FAILED"
          [] e.type = "ALWAYS" -> up.status \in TerminalStatuses
          [] e.type = "HAS_DATA" -> up.status = "SUCCESS" /\ up.wrote

\* How many of t's dependencies are satisfied, given how many of the edges
\* to other pipelines are.
SatisfiedEdges(t, rows, cross) ==
    Cardinality({e \in EdgesOf(t) : EdgeSatisfied(e, rows)}) + cross

UpstreamPending(t, rows) ==
    \E e \in EdgesOf(t) : rows[e.on].status \notin TerminalStatuses

\* An edge to another pipeline counts as satisfied until its gate judges it,
\* but such edges alone start no task while one of its upstreams is
\* unfinished.
Assumed(t) == IF t \in CrossTasks THEN 1 ELSE 0

CanStart(t, rows) ==
    /\ rows[t].status \notin NotRetryableStatuses
    /\ SatisfiedEdges(t, rows, Assumed(t)) >= RequiredEdges(t)
    /\ \/ SatisfiedEdges(t, rows, 0) >= RequiredEdges(t)
       \/ ~UpstreamPending(t, rows)

Ready(rows) == {t \in Tasks : CanStart(t, rows)}

\* Faulty EdgeLost: any failure ends an edge, a retry to come or not.
EdgeLostOnFailure(e, rows, failuresFinal) ==
    rows[e.on].status \in SettledStatuses \cup {"FAILED"} /\ ~EdgeSatisfied(e, rows)

\* An edge that nothing can satisfy any more.  A failure is such an end only
\* when no retry will come.
EdgeLost(e, rows, failuresFinal) ==
    /\ \/ rows[e.on].status \in SettledStatuses
       \/ failuresFinal /\ rows[e.on].status = "FAILED"
    /\ ~EdgeSatisfied(e, rows)

IsUnsatisfiable(t, rows, failuresFinal) ==
    /\ TotalEdges(t) > 0
    /\ Cardinality({e \in EdgesOf(t) : ~EdgeLost(e, rows, failuresFinal)}) + Assumed(t)
           < RequiredEdges(t)

WithSkipped(rows, S) ==
    [t \in Tasks |-> IF t \in S THEN [status |-> "SKIPPED", wrote |-> FALSE] ELSE rows[t]]

NewlyUnsatisfiable(rows, S, failuresFinal) ==
    {t \in Tasks \ S : /\ rows[t].status = "absent"
                       /\ IsUnsatisfiable(t, WithSkipped(rows, S), failuresFinal)}

\* What the search for tasks that can never start returns: the smallest set
\* of never-run tasks that, once skipped, dooms no further one.
Unsatisfiable(rows, failuresFinal) ==
    {t \in Tasks : \A S \in SUBSET Tasks :
                       NewlyUnsatisfiable(rows, S, failuresFinal) = {} => t \in S}

\* Faulty UnsatisfiableLoop: one round only, so a skip dooms nobody else.
UnsatisfiableOnce(rows, failuresFinal) == NewlyUnsatisfiable(rows, {}, failuresFinal)

\* The same search as the loop that the code runs, round by round.
UnsatisfiableLoop(rows, failuresFinal) ==
    LET round[n \in 0..Cardinality(Tasks)] ==
            IF n = 0 THEN {}
            ELSE round[n - 1] \cup NewlyUnsatisfiable(rows, round[n - 1], failuresFinal)
    IN  round[Cardinality(Tasks)]
=============================================================================
