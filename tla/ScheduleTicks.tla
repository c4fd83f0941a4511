---------------------------- MODULE ScheduleTicks ----------------------------
(***************************************************************************)
(* What starts the runs of one pipeline without an operator: schedule      *)
(* ticks and restarts, created by the controller that holds the session    *)
(* lock, and the choices of an operator who resumes a paused pipeline.     *)
(*                                                                         *)
(* controller/schedules.py and controller/restarts.py read the database in *)
(* one transaction and write in later ones, so that other runs, a pause,   *)
(* the loss of the lock or the end of the process come in between.  Tick n *)
(* is due at instant n.  What a run does once it is created is left to     *)
(* RunLifecycle; here it is admitted and ends.                             *)
(***************************************************************************)
EXTENDS Integers, FiniteSets

CONSTANTS
    LastTick,       \* bound: the instants that pass
    FirstInstant,   \* how late the first controller is
    Closed,         \* ticks on days the calendar closes, policy SKIP
    Retain,         \* MAX_CATCHUP_RUNS with CATCHUP = Y, else 1
    OverlapSkip,    \* OVERLAP_POLICY = SKIP
    RestartOn,      \* endings that both condition and profile name
    Controllers,    \* controller processes that may run
    None,           \* nobody holds the session lock
    Endings,        \* bound: the endings that runs come to
    MaxRestarts,    \* bound: restarts
    MaxOperations,  \* bound: pauses of the pipeline and runs that operators create
    MaxFaults       \* bound: processes that die, sessions and passes lost

ASSUME TicksAssumption ==
    /\ LastTick \in Nat
    /\ FirstInstant \in 0..LastTick
    /\ Closed \subseteq 1..LastTick
    /\ Retain \in Nat \ {0}
    /\ OverlapSkip \in BOOLEAN
    /\ RestartOn \subseteq {"SUCCESS", "SKIPPED", "FAILED"}
    /\ None \notin Controllers
    /\ Endings \subseteq {"SUCCESS", "SKIPPED", "FAILED", "CANCELLED"}
    /\ MaxRestarts \in Nat
    /\ MaxOperations \in Nat
    /\ MaxFaults \in Nat

VARIABLES
    now,        \* the last instant that has come
    runs,       \* AUD_PIPELINES_RUN_LOG of the pipeline
    lastId,     \* the sequence of run ids
    paused,     \* the pipeline has an open pause
    resumed,    \* RESUMED_AT of the last one
    lock,       \* whose session holds the controller lock
    ctl,        \* each controller process: where it is, what it remembers
    pauses,     \* bound: pauses so far
    faults      \* bound: faults so far

vars == <<now, runs, lastId, paused, resumed, lock, ctl, pauses, faults>>

-----------------------------------------------------------------------------
Ticks == 1..LastTick
ActiveStatuses == {"QUEUED", "IN-PROGRESS"}
RunStatuses == ActiveStatuses \cup {"SUCCESS", "SKIPPED", "FAILED", "CANCELLED"}

\* key: the tick of a scheduled run, the run that a restart follows, else 0.
Runs == [id : Nat, kind : {"SCHEDULE", "RESTART", "MANUAL"}, key : Nat,
         status : RunStatuses, started : BOOLEAN]

Count(kind) == Cardinality({r \in runs : r.kind = kind})

NewRun(id, kind, key, status) ==
    [id |-> id, kind |-> kind, key |-> key, status |-> status,
     started |-> status = "IN-PROGRESS"]

HasKey(kind, key) == \E r \in runs : r.kind = kind /\ r.key = key

Recorded(t) == HasKey("SCHEDULE", t)

\* What other readers of the log call pending or active.
Active == \E r \in runs : r.status \in ActiveStatuses

\* Faulty Pending: work that is only queued does not count.
PendingInProgress == \E r \in runs : r.status = "IN-PROGRESS"

\* The "pending" of controller_schedules.
Pending == \E r \in runs : r.status \in ActiveStatuses

\* Ticks begin after the schedule's start, the last resume, and the highest
\* tick that is recorded.
Boundaries == {0, resumed} \cup {t \in Ticks : Recorded(t)}

Cursor == {b \in Boundaries : \A c \in Boundaries : c <= b}

\* cursor, upto: the ticks of a pass are those in between; at: the next of
\* them; kept: open ones that wait to be created; last: the run to restart.
Memory == [pc : {"out", "read", "paused", "scan", "insert", "find", "restart", "wait"},
           cursor : 0..LastTick, upto : 0..LastTick, at : Nat, kept : SUBSET Ticks,
           pending : BOOLEAN, last : Nat]

Idle(pc) == [pc |-> pc, cursor |-> 0, upto |-> 0, at |-> 1, kept |-> {},
             pending |-> FALSE, last |-> 0]

Init ==
    /\ now = FirstInstant
    /\ runs = {}
    /\ lastId = 0
    /\ paused = FALSE
    /\ resumed = 0
    /\ lock = None
    /\ ctl = [c \in Controllers |-> Idle("out")]
    /\ pauses = 0
    /\ faults = 0

-----------------------------------------------------------------------------
(* Leadership.                                                             *)

Start(c) ==
    /\ ctl[c].pc = "out"
    /\ lock = None
    /\ lock' = c
    /\ ctl' = [ctl EXCEPT ![c] = Idle("read")]
    /\ UNCHANGED <<now, runs, lastId, paused, resumed, pauses, faults>>

\* The end of a pass is where a controller notices that its session is gone;
\* it takes the lock again, or stops because another one holds it.
Wait(c) ==
    /\ ctl[c].pc = "wait"
    /\ IF lock \in {c, None}
       THEN lock' = c /\ ctl' = [ctl EXCEPT ![c] = Idle("read")]
       ELSE lock' = lock /\ ctl' = [ctl EXCEPT ![c] = Idle("out")]
    /\ UNCHANGED <<now, runs, lastId, paused, resumed, pauses, faults>>

Fault ==
    /\ faults < MaxFaults
    /\ faults' = faults + 1
    /\ UNCHANGED <<now, runs, lastId, paused, resumed, pauses>>

\* The session ends, and the process goes on with its pass.
LoseSession(c) ==
    /\ Fault
    /\ lock = c
    /\ lock' = None
    /\ ctl' = ctl

\* A transient error ends the pass.  serve begins another one without
\* waiting, and hold sees no dropped connection: the lock may be gone.
LosePass(c) ==
    /\ Fault
    /\ ctl[c].pc # "out"
    /\ ctl' = [ctl EXCEPT ![c] = Idle("read")]
    /\ lock' \in IF lock = c THEN {c, None} ELSE {lock}

\* The process dies, or is told to stop.
Die(c) ==
    /\ Fault
    /\ ctl[c].pc # "out"
    /\ ctl' = [ctl EXCEPT ![c] = Idle("out")]
    /\ lock' = IF lock = c THEN None ELSE lock

-----------------------------------------------------------------------------
(* Schedules.refresh: one pass.  The cache of deadlines only spares passes *)
(* that would find no tick due.                                            *)

\* Faulty FirstTick: ticks that nobody will run are passed over.
FirstRetainedTick(cursor) == IF cursor + 1 < now + 1 - Retain THEN now + 1 - Retain ELSE cursor + 1

FirstTick(cursor) == cursor + 1

ReadSchedule(c) ==
    /\ ctl[c].pc = "read"
    /\ \E cursor \in Cursor :
           ctl' = [ctl EXCEPT ![c] =
                      [pc |-> "paused", cursor |-> cursor, upto |-> now, at |-> FirstTick(cursor),
                       kept |-> {}, pending |-> Pending, last |-> 0]]
    /\ UNCHANGED <<now, runs, lastId, paused, resumed, lock, pauses, faults>>

ReadPauses(c) ==
    /\ ctl[c].pc = "paused"
    /\ ctl' = [ctl EXCEPT ![c] = IF paused THEN Idle("find") ELSE [@ EXCEPT !.pc = "scan"]]
    /\ UNCHANGED <<now, runs, lastId, paused, resumed, lock, pauses, faults>>

Scanning(c) == ctl[c].at <= ctl[c].upto

\* Faulty HasRoom: one tick too many.
HasRoomForOneMore(kept) == Cardinality(kept) <= Retain

HasRoom(kept) == Cardinality(kept) < Retain

\* An open tick is kept, as long as there is room.
Keep(c) ==
    /\ ctl[c].pc = "scan"
    /\ Scanning(c)
    /\ ctl[c].at \notin Closed
    /\ HasRoom(ctl[c].kept)
    /\ ctl' = [ctl EXCEPT ![c].kept = @ \cup {ctl[c].at}, ![c].at = @ + 1]
    /\ UNCHANGED <<now, runs, lastId, paused, resumed, lock, pauses, faults>>

Oldest(S) == {t \in S : \A u \in S : t <= u}

\* The tick to create now: a closed one at once; the oldest kept one when an
\* open one needs its room, and when all are scanned.
Target(c) ==
    IF Scanning(c) /\ ctl[c].at \in Closed THEN {ctl[c].at}
    ELSE IF Scanning(c) /\ HasRoom(ctl[c].kept) THEN {}
    ELSE Oldest(ctl[c].kept)

\* What the controller remembers once tick t is created, or was before.
Created(c, t) ==
    [ctl[c] EXCEPT
        !.pc = "scan",
        !.kept = (@ \ {t}) \cup (IF Scanning(c) /\ t # ctl[c].at THEN {ctl[c].at} ELSE {}),
        !.at = IF Scanning(c) THEN @ + 1 ELSE @]

\* _create_tick looks for the key, and then inserts it.
Look(c) ==
    /\ ctl[c].pc = "scan"
    /\ \E t \in Target(c) :
           ctl' = [ctl EXCEPT ![c] = IF Recorded(t) THEN Created(c, t)
                                     ELSE [@ EXCEPT !.pc = "insert"]]
    /\ UNCHANGED <<now, runs, lastId, paused, resumed, lock, pauses, faults>>

\* Closed, missed, or overlapping: the tick is recorded and does not run.
TickStatus(c) ==
    IF Scanning(c) \/ (ctl[c].pending /\ OverlapSkip) THEN "SKIPPED" ELSE "QUEUED"

Insert(c) ==
    /\ ctl[c].pc = "insert"
    /\ \E t \in Target(c) :
           /\ ~Recorded(t)
           /\ runs' = runs \cup {NewRun(lastId + 1, "SCHEDULE", t, TickStatus(c))}
           /\ ctl' = [ctl EXCEPT ![c] = Created(c, t)]
    /\ lastId' = lastId + 1
    /\ UNCHANGED <<now, paused, resumed, lock, pauses, faults>>

\* The unique key refuses what another controller created in between; the
\* error ends the controller.
Collide(c) ==
    /\ ctl[c].pc = "insert"
    /\ \E t \in Target(c) : Recorded(t)
    /\ ctl' = [ctl EXCEPT ![c] = Idle("out")]
    /\ lock' = IF lock = c THEN None ELSE lock
    /\ UNCHANGED <<now, runs, lastId, paused, resumed, pauses, faults>>

-----------------------------------------------------------------------------
(* Restarts.refresh.  Its cooldown only delays a restart.                  *)

IsLatest(r) == \A x \in runs : x.id <= r.id

\* Faulty HasRestart: the key lacks its prefix.
HasSameKey(id) == \E r \in runs : r.key = id

HasRestart(id) == HasKey("RESTART", id)

Restartable(r) ==
    /\ IsLatest(r)
    /\ r.status \in RestartOn
    /\ ~Active
    /\ ~paused
    /\ ~HasKey("RESTART", r.id)

FindRestart(c) ==
    /\ ctl[c].pc = "find" \/ (ctl[c].pc = "scan" /\ ~Scanning(c) /\ ctl[c].kept = {})
    /\ \/ \E r \in runs :
              /\ Restartable(r)
              /\ Count("RESTART") < MaxRestarts
              /\ ctl' = [ctl EXCEPT ![c] = [Idle("restart") EXCEPT !.last = r.id]]
       \/ /\ ~\E r \in runs : Restartable(r) /\ Count("RESTART") < MaxRestarts
          /\ ctl' = [ctl EXCEPT ![c] = Idle("wait")]
    /\ UNCHANGED <<now, runs, lastId, paused, resumed, lock, pauses, faults>>

\* The key refuses a second restart of the run, which is only logged.
Restart(c) ==
    /\ ctl[c].pc = "restart"
    /\ IF HasRestart(ctl[c].last)
       THEN UNCHANGED <<runs, lastId>>
       ELSE /\ runs' = runs \cup {NewRun(lastId + 1, "RESTART", ctl[c].last, "QUEUED")}
            /\ lastId' = lastId + 1
    /\ ctl' = [ctl EXCEPT ![c] = Idle("wait")]
    /\ UNCHANGED <<now, paused, resumed, lock, pauses, faults>>

-----------------------------------------------------------------------------
(* Time, runs and operators.                                               *)

PassTime ==
    /\ now < LastTick
    /\ now' = now + 1
    /\ UNCHANGED <<runs, lastId, paused, resumed, lock, ctl, pauses, faults>>

Become(r, status) ==
    /\ runs' = (runs \ {r}) \cup
                   {[r EXCEPT !.status = status, !.started = @ \/ status = "IN-PROGRESS"]}
    /\ UNCHANGED <<now, lastId, paused, resumed, lock, ctl, pauses, faults>>

\* At most one exclusive run is in progress.
Admit(r) ==
    /\ r.status = "QUEUED"
    /\ ~\E x \in runs : x.status = "IN-PROGRESS"
    /\ Become(r, "IN-PROGRESS")

End(r, status) == r.status = "IN-PROGRESS" /\ Become(r, status)

Cancel(r) == r.status = "QUEUED" /\ "CANCELLED" \in Endings /\ Become(r, "CANCELLED")

RunManually(status) ==
    /\ pauses + Count("MANUAL") < MaxOperations
    /\ status = "IN-PROGRESS" => ~\E x \in runs : x.status = "IN-PROGRESS"
    /\ runs' = runs \cup {NewRun(lastId + 1, "MANUAL", 0, status)}
    /\ lastId' = lastId + 1
    /\ UNCHANGED <<now, paused, resumed, lock, ctl, pauses, faults>>

Pause ==
    /\ ~paused
    /\ pauses + Count("MANUAL") < MaxOperations
    /\ paused' = TRUE
    /\ pauses' = pauses + 1
    /\ UNCHANGED <<now, runs, lastId, resumed, lock, ctl, faults>>

\* The open ticks that catch-up would create: the latest that fit.
Retained ==
    LET due == {t \in Ticks \ Closed : t <= now /\ \A b \in Boundaries : b < t}
    IN  {t \in due : HasRoom({u \in due : t < u})}

\* The runs of ticks S, with ids in their order.
TickRuns(S, status) ==
    {NewRun(lastId + Cardinality({u \in S : u <= t}), "SCHEDULE", t, status) : t \in S}

\* One transaction creates what the operator chose and closes the pause.
Resume(choice) ==
    /\ paused
    /\ \/ /\ choice = "wait"
          /\ UNCHANGED <<runs, lastId>>
       \/ /\ choice = "run-now"
          /\ runs' = runs \cup {NewRun(lastId + 1, "MANUAL", 0, "QUEUED")}
          /\ lastId' = lastId + 1
       \/ /\ choice = "catch-up"
          /\ runs' = runs \cup TickRuns(Retained,
                                        IF Pending /\ OverlapSkip THEN "SKIPPED" ELSE "QUEUED")
          /\ lastId' = lastId + Cardinality(Retained)
    /\ paused' = FALSE
    /\ resumed' = now
    /\ UNCHANGED <<now, lock, ctl, pauses, faults>>

-----------------------------------------------------------------------------
Work(c) ==
    \/ Wait(c) \/ ReadSchedule(c) \/ ReadPauses(c) \/ Keep(c) \/ Look(c) \/ Insert(c)
    \/ Collide(c) \/ FindRestart(c) \/ Restart(c)

RunMoves(r) ==
    \/ Admit(r) \/ Cancel(r)
    \/ \E status \in Endings : End(r, status)

Operate ==
    \/ Pause
    \/ \E status \in ActiveStatuses : RunManually(status)
    \/ \E choice \in {"wait", "run-now", "catch-up"} : Resume(choice)

Next ==
    \/ PassTime
    \/ Operate
    \/ \E r \in runs : RunMoves(r)
    \/ \E c \in Controllers :
           Start(c) \/ Work(c) \/ LoseSession(c) \/ LosePass(c) \/ Die(c)

Spec == Init /\ [][Next]_vars

\* A controller is started while none leads, and its loop goes on.  Time,
\* runs and operators owe nothing.
FairSpec ==
    /\ Spec
    /\ WF_vars(\E c \in Controllers : Start(c))
    /\ \A c \in Controllers : WF_vars(Work(c))
-----------------------------------------------------------------------------
(* Properties.                                                             *)

\* Every part of the state has its type, and what a controller keeps are
\* open ticks of its pass, at most as many as the catch-up takes.
TypeOK ==
    /\ now \in 0..LastTick
    /\ runs \subseteq Runs
    /\ \A r \in runs : r.kind = "SCHEDULE" => r.key \in Ticks
    /\ lastId \in Nat
    /\ paused \in BOOLEAN
    /\ resumed \in 0..now
    /\ lock \in Controllers \cup {None}
    /\ ctl \in [Controllers -> Memory]
    /\ \A c \in Controllers : /\ ctl[c].cursor < ctl[c].at
                              /\ Cardinality(ctl[c].kept) <= Retain
                              /\ ctl[c].kept \subseteq (ctl[c].cursor + 1 .. ctl[c].at - 1) \ Closed
    /\ pauses \in Nat
    /\ faults \in Nat

OpenRecorded(u) == Recorded(u) /\ u \notin Closed

\* A tick that no resume put aside is passed over by an open one only when a
\* tick on a closed day was recorded in between: _create_tick keeps the order
\* of open ticks, through every end of a pass and with two controllers.
OnlyClosedDaysOvertake ==
    \A u \in Ticks : \A t \in 1..u - 1 :
        OpenRecorded(u) /\ ~Recorded(t) /\ resumed < t =>
            \E w \in t + 1 .. u - 1 : w \in Closed /\ Recorded(w)

\* Under OVERLAP_POLICY = SKIP the runs that nobody asked for do not pile up:
\* one catch-up may be waiting, and one more for each fault and each pause,
\* after which a controller and somebody else act on what both had read.
Automatic == {r \in runs : r.kind # "MANUAL" /\ r.status \in ActiveStatuses}

NoPileUp == OverlapSkip => Cardinality(Automatic) <= Retain * (1 + faults + pauses)

\* Due ticks without a record, which no resume put aside and no closed day
\* overtook.
Missing ==
    {t \in 1..now : ~Recorded(t) /\ resumed < t /\ ~\E w \in Closed : t < w /\ Recorded(w)}

\* A due tick does not stay without a record while the pipeline is free of
\* pauses, whatever becomes of the controllers.
TicksAreRecorded == ~(<>[](~paused /\ Missing # {}))

\* The controller restarts a latest run that ended in a listed status, unless
\* something else happens first.
RestartsHappen ==
    ~(<>[] \E r \in runs : Restartable(r) /\ Count("RESTART") < MaxRestarts)

=============================================================================
