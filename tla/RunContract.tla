----------------------------- MODULE RunContract -----------------------------
(***************************************************************************)
(* What a run promises, whoever drives it: a task starts only when its     *)
(* run condition is met, never under a hold, and never beside itself; it   *)
(* is skipped only when it can never start or its gate refused it; the run *)
(* ends once, idle and unheld, with the outcome of its tasks.              *)
(***************************************************************************)
EXTENDS TaskGraph

CONSTANTS WholeRun, HoldScopes

VARIABLES run, rows, gate, held

vars == <<run, rows, gate, held>>

Fenced(t) == held \cap {t, WholeRun} # {}

Init ==
    /\ run = "IN-PROGRESS"
    /\ rows = [t \in Tasks |-> [status |-> "absent", wrote |-> FALSE]]
    /\ gate = [t \in CrossTasks |-> "running"]
    /\ held = {}

Confirmed(t) == IF t \in CrossTasks THEN IF gate[t] = "met" THEN 1 ELSE 0 ELSE 0

ConditionMet(t) == SatisfiedEdges(t, rows, Confirmed(t)) >= RequiredEdges(t)

\* A task waiting under a hold is as good as running: it dooms nobody.
HeldRows ==
    [t \in Tasks |-> IF t \in held THEN [status |-> "IN-PROGRESS", wrote |-> FALSE] ELSE rows[t]]

Moves(t, from, to) == rows[t].status \in from /\ rows'[t].status \in to

Start(t) == Moves(t, {"absent", "FAILED"}, {"IN-PROGRESS"}) /\ ~Fenced(t) /\ ConditionMet(t)

Retry(t) == Moves(t, {"FAILED"}, {"IN-PROGRESS"}) /\ ~Fenced(t)

End(t) == Moves(t, {"IN-PROGRESS"}, {"SUCCESS", "FAILED"})

SkipDoomed(t) ==
    /\ Moves(t, {"absent"}, {"SKIPPED"})
    /\ t \in Unsatisfiable(HeldRows, TRUE)
    /\ WholeRun \notin held

SkipRefused(t) ==
    /\ Moves(t, {"absent"}, {"SKIPPED"})
    /\ t \in CrossTasks
    /\ gate[t] = "unmet"
    /\ ~ConditionMet(t)
    /\ ~UpstreamPending(t, rows)

\* Tasks move while the run is in progress.
MoveTasks ==
    /\ run = "IN-PROGRESS"
    /\ rows' \in [Tasks -> [status : {"absent", "IN-PROGRESS", "SUCCESS", "FAILED", "SKIPPED"},
                            wrote : BOOLEAN]]
    /\ \A t \in Tasks :
           rows'[t] = rows[t] \/ Start(t) \/ Retry(t) \/ End(t) \/ SkipDoomed(t) \/ SkipRefused(t)
    /\ UNCHANGED <<run, gate, held>>

Outcome ==
    IF \E t \in Tasks : rows[t].status \notin SettledStatuses THEN "FAILED"
    ELSE IF \A t \in Tasks : rows[t].status = "SKIPPED" THEN "SKIPPED"
    ELSE "SUCCESS"

Close ==
    /\ run = "IN-PROGRESS"
    /\ \A t \in Tasks : rows[t].status # "IN-PROGRESS"
    /\ held = {}
    /\ run' = Outcome
    /\ UNCHANGED <<rows, gate, held>>

JudgeGate(t) ==
    /\ gate[t] = "running"
    /\ gate' \in {[gate EXCEPT ![t] = judgement] : judgement \in {"met", "unmet"}}
    /\ UNCHANGED <<run, rows, held>>

Control(s) ==
    /\ held' \in {held \cup {s}, held \ {s}}
    /\ UNCHANGED <<run, rows, gate>>

Next ==
    \/ MoveTasks
    \/ Close
    \/ \E t \in CrossTasks : JudgeGate(t)
    \/ \E s \in HoldScopes : Control(s)

Spec == Init /\ [][Next]_vars
=============================================================================
