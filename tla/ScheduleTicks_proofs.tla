------------------------ MODULE ScheduleTicks_proofs ------------------------
(***************************************************************************)
(* Proofs about what the controller creates for one pipeline, for any      *)
(* schedule, policy and controllers: the types, the order in which ticks   *)
(* are recorded, and how much automatic work waits at once.                *)
(***************************************************************************)
EXTENDS ScheduleTicks, FiniteSetTheorems, WellFoundedInduction, TLAPS

\* What TypeOK asks of one controller's memory.
MemoryOK(m) ==
    /\ m \in Memory
    /\ m.cursor < m.at
    /\ Cardinality(m.kept) <= Retain
    /\ m.kept \subseteq (m.cursor + 1 .. m.at - 1) \ Closed

\* A memory without a plan is well-formed.
LEMMA IdleOK ==
    ASSUME NEW pc \in {"out", "read", "find", "restart", "wait"}
    PROVE  MemoryOK(Idle(pc))
<1>1. Cardinality({}) = 0
  BY FS_EmptySet
<1> QED
  BY <1>1, TicksAssumption DEF MemoryOK, Idle, Memory

\* What is kept is a finite set of ticks.
LEMMA KeptFinite ==
    ASSUME NEW m \in Memory
    PROVE  IsFiniteSet(m.kept)
<1>1. IsFiniteSet(Ticks)
  BY TicksAssumption, FS_Interval DEF Ticks
<1> QED
  BY <1>1, FS_Subset DEF Memory

\* The tick to be created is one of the schedule.
LEMMA TargetType ==
    ASSUME TypeOK, NEW c \in Controllers, NEW t \in Target(c)
    PROVE  t \in Ticks
<1>1. ctl[c] \in Memory /\ ctl[c].cursor < ctl[c].at
  BY DEF TypeOK
<1>2. Oldest(ctl[c].kept) \subseteq Ticks
  BY <1>1 DEF Oldest, Memory
<1>3. ASSUME Scanning(c) PROVE ctl[c].at \in Ticks
  BY <1>1, <1>3, TicksAssumption DEF Scanning, Memory, Ticks
<1> QED
  BY <1>2, <1>3 DEF Target

\* Once a tick is created, what is kept is still open, and fits.
LEMMA CreatedOK ==
    ASSUME TypeOK, NEW c \in Controllers, NEW t \in Target(c)
    PROVE  MemoryOK(Created(c, t))
<1> DEFINE m == ctl[c]
           more == IF Scanning(c) /\ t # m.at THEN {m.at} ELSE {}
           kept == (m.kept \ {t}) \cup more
           at == IF Scanning(c) THEN m.at + 1 ELSE m.at
<1>1. /\ m \in Memory
      /\ m.cursor < m.at
      /\ Cardinality(m.kept) <= Retain
      /\ m.kept \subseteq (m.cursor + 1 .. m.at - 1) \ Closed
      /\ m.cursor \in Nat /\ m.at \in Nat /\ Retain \in Nat
  BY TicksAssumption DEF TypeOK, Memory
<1>2. IsFiniteSet(m.kept) /\ Cardinality(m.kept) \in Nat
  BY <1>1, KeptFinite, FS_CardinalityType
<1>3. t \in Ticks
  BY TargetType
<1>4. IsFiniteSet(m.kept \ {t})
      /\ Cardinality(m.kept \ {t})
             = IF t \in m.kept THEN Cardinality(m.kept) - 1 ELSE Cardinality(m.kept)
  BY <1>2, FS_RemoveElement
<1>5. ASSUME Scanning(c), t # m.at
      PROVE  t \in m.kept /\ m.at \notin Closed /\ m.at \in Ticks
  BY <1>1, <1>5, TicksAssumption DEF Target, Oldest, Scanning, Memory, Ticks
<1>6. kept \subseteq (m.cursor + 1 .. at - 1) \ Closed /\ kept \subseteq Ticks
  BY <1>1, <1>5 DEF Memory
<1>7. Cardinality(kept) <= Retain
  <2>1. CASE Scanning(c) /\ t # m.at
    <3>1. m.at \notin m.kept \ {t}
      BY <1>1
    <3>2. kept = (m.kept \ {t}) \cup {m.at}
      BY <2>1
    <3>3. Cardinality(kept) = Cardinality(m.kept \ {t}) + 1
      BY <3>1, <3>2, <1>4, FS_AddElement
    <3> QED
      BY <3>3, <1>4, <1>5, <1>2, <1>1, <2>1
  <2>2. CASE ~(Scanning(c) /\ t # m.at)
    <3>1. kept = m.kept \ {t}
      BY <2>2
    <3>2. Cardinality(m.kept \ {t}) <= Cardinality(m.kept)
      BY <1>4, <1>2
    <3>3. Cardinality(m.kept \ {t}) \in Nat
      BY <1>4, FS_CardinalityType
    <3>4. Cardinality(m.kept \ {t}) <= Retain
      BY <3>2, <3>3, <1>1, <1>2
    <3> QED
      BY <3>1, <3>4
  <2> QED
    BY <2>1, <2>2
<1>8. Created(c, t) = [m EXCEPT !.pc = "scan", !.kept = kept, !.at = at]
  BY DEF Created
<1>9. at \in Nat /\ m.cursor < at
  BY <1>1
<1> HIDE DEF kept, at
<1> QED
  BY <1>1, <1>6, <1>7, <1>8, <1>9 DEF MemoryOK, Memory

\* A new run has its type.
LEMMA NewRunType ==
    ASSUME NEW id \in Nat, NEW kind \in {"SCHEDULE", "RESTART", "MANUAL"}, NEW key \in Nat,
           NEW status \in RunStatuses
    PROVE  /\ NewRun(id, kind, key, status) \in Runs
           /\ NewRun(id, kind, key, status).kind = kind
           /\ NewRun(id, kind, key, status).key = key
BY DEF NewRun, Runs

\* The part of TypeOK about the log.
LogOK == /\ runs \subseteq Runs
         /\ \A r \in runs : r.kind = "SCHEDULE" => r.key \in Ticks
         /\ lastId \in Nat

\* The rest of it, but for the controllers' memory.
RestOK == /\ now \in 0..LastTick
          /\ paused \in BOOLEAN
          /\ resumed \in 0..now
          /\ lock \in Controllers \cup {None}
          /\ pauses \in Nat
          /\ faults \in Nat

MemoriesOK == /\ ctl \in [Controllers -> Memory]
              /\ \A c \in Controllers : MemoryOK(ctl[c])

LEMMA TypeParts == TypeOK <=> LogOK /\ RestOK /\ MemoriesOK
BY DEF TypeOK, LogOK, RestOK, MemoriesOK, MemoryOK

\* A step of one controller keeps the memories well-formed.
LEMMA MemoryStep ==
    ASSUME MemoriesOK, NEW c \in Controllers, NEW m, MemoryOK(m),
           ctl' = [ctl EXCEPT ![c] = m]
    PROVE  MemoriesOK'
BY DEF MemoriesOK, MemoryOK

\* So does adding a run to the log.
LEMMA LogStep ==
    ASSUME LogOK, NEW kind \in {"SCHEDULE", "RESTART", "MANUAL"}, NEW key \in Nat,
           kind = "SCHEDULE" => key \in Ticks, NEW status \in RunStatuses,
           runs' = runs \cup {NewRun(lastId + 1, kind, key, status)}, lastId' = lastId + 1
    PROVE  LogOK'
<1>1. lastId + 1 \in Nat
  BY DEF LogOK
<1> QED
  BY <1>1, NewRunType DEF LogOK

\* A controller's step that leaves the log and the rest alone.
LEMMA QuietType ==
    ASSUME TypeOK, NEW c \in Controllers, NEW m, MemoryOK(m), ctl' = [ctl EXCEPT ![c] = m],
           UNCHANGED <<now, runs, lastId, paused, resumed, lock, pauses, faults>>
    PROVE  TypeOK'
<1>1. LogOK /\ RestOK /\ MemoriesOK
  BY TypeParts
<1>2. LogOK' /\ RestOK'
  BY <1>1 DEF LogOK, RestOK
<1>3. MemoriesOK'
  BY <1>1, MemoryStep
<1> QED
  BY <1>2, <1>3 DEF TypeOK, LogOK, RestOK, MemoriesOK, MemoryOK

\* A controller's step that also moves the lock.
LEMMA LockType ==
    ASSUME TypeOK, NEW c \in Controllers, NEW m, MemoryOK(m), ctl' = [ctl EXCEPT ![c] = m],
           lock' \in Controllers \cup {None}, faults' \in Nat,
           UNCHANGED <<now, runs, lastId, paused, resumed, pauses>>
    PROVE  TypeOK'
<1>1. LogOK /\ RestOK /\ MemoriesOK
  BY TypeParts
<1>2. LogOK' /\ RestOK'
  BY <1>1 DEF LogOK, RestOK
<1>3. MemoriesOK'
  BY <1>1, MemoryStep
<1> QED
  BY <1>2, <1>3 DEF TypeOK, LogOK, RestOK, MemoriesOK, MemoryOK

\* A step on the log alone.
LEMMA LogType ==
    ASSUME TypeOK, LogOK', UNCHANGED <<now, paused, resumed, lock, ctl, pauses, faults>>
    PROVE  TypeOK'
<1>1. RestOK /\ MemoriesOK
  BY TypeParts
<1>2. RestOK' /\ MemoriesOK'
  BY <1>1 DEF RestOK, MemoriesOK, MemoryOK
<1> QED
  BY <1>2 DEF TypeOK, LogOK, RestOK, MemoriesOK, MemoryOK

LEMMA ReadScheduleType ==
    ASSUME TypeOK, NEW c \in Controllers, ReadSchedule(c)
    PROVE  TypeOK'
<1>1. PICK cursor \in Cursor :
          ctl' = [ctl EXCEPT ![c] =
                     [pc |-> "paused", cursor |-> cursor, upto |-> now, at |-> FirstTick(cursor),
                      kept |-> {}, pending |-> Pending, last |-> 0]]
  BY DEF ReadSchedule
<1>2. cursor \in 0..LastTick /\ now \in 0..LastTick
  BY TicksAssumption DEF Cursor, Boundaries, TypeOK, Ticks
<1> DEFINE m == [pc |-> "paused", cursor |-> cursor, upto |-> now, at |-> FirstTick(cursor),
                 kept |-> {}, pending |-> Pending, last |-> 0]
<1>3. Pending \in BOOLEAN
  BY DEF Pending
<1>4. MemoryOK(m)
  <2>1. /\ m \in Memory
        /\ m.cursor = cursor /\ m.at = cursor + 1 /\ m.kept = {}
    BY <1>2, <1>3, TicksAssumption DEF FirstTick, Memory
  <2>2. Cardinality({}) = 0
    BY FS_EmptySet
  <2> QED
    BY <2>1, <2>2, <1>2, TicksAssumption DEF MemoryOK
<1> HIDE DEF m
<1> QED
  BY <1>1, <1>4, QuietType DEF ReadSchedule, m

LEMMA ReadPausesType ==
    ASSUME TypeOK, NEW c \in Controllers, ReadPauses(c)
    PROVE  TypeOK'
<1> DEFINE m == IF paused THEN Idle("find") ELSE [ctl[c] EXCEPT !.pc = "scan"]
<1>1. MemoryOK(ctl[c])
  BY DEF TypeOK, MemoryOK
<1>2. MemoryOK([ctl[c] EXCEPT !.pc = "scan"])
  BY <1>1 DEF MemoryOK, Memory
<1>3. MemoryOK(m)
  BY <1>2, IdleOK
<1>4. ctl' = [ctl EXCEPT ![c] = m]
  BY DEF ReadPauses
<1> HIDE DEF m
<1> QED
  BY <1>3, <1>4, QuietType DEF ReadPauses

LEMMA KeepType ==
    ASSUME TypeOK, NEW c \in Controllers, Keep(c)
    PROVE  TypeOK'
<1> DEFINE kept == ctl[c].kept \cup {ctl[c].at}
           at == ctl[c].at + 1
           m == [ctl[c] EXCEPT !.kept = kept, !.at = at]
<1>1. /\ ctl[c] \in Memory
      /\ ctl[c].cursor \in Nat /\ ctl[c].at \in Nat /\ ctl[c].cursor < ctl[c].at
      /\ ctl[c].kept \subseteq (ctl[c].cursor + 1 .. ctl[c].at - 1) \ Closed
      /\ Retain \in Nat
  BY TicksAssumption DEF TypeOK, Memory
<1>2. ctl[c].at \in Ticks /\ ctl[c].at \notin Closed
  BY <1>1, TicksAssumption DEF Keep, Scanning, Memory, Ticks
<1>3. Cardinality(ctl[c].kept \cup {ctl[c].at}) <= Retain
  <2>1. IsFiniteSet(ctl[c].kept) /\ Cardinality(ctl[c].kept) \in Nat
    BY <1>1, KeptFinite, FS_CardinalityType
  <2>2. Cardinality(ctl[c].kept) < Retain
    BY DEF Keep, HasRoom
  <2>3. Cardinality(ctl[c].kept \cup {ctl[c].at}) \in
            {Cardinality(ctl[c].kept), Cardinality(ctl[c].kept) + 1}
    BY <2>1, FS_AddElement
  <2> QED
    BY <2>1, <2>2, <2>3, <1>1
<1>4. MemoryOK(m)
  <2>1. kept \subseteq Ticks /\ at \in Nat
    BY <1>1, <1>2 DEF Memory
  <2>2. kept \subseteq (ctl[c].cursor + 1 .. at - 1) \ Closed /\ ctl[c].cursor < at
    BY <1>1, <1>2
  <2>3. Cardinality(kept) <= Retain
    BY <1>3
  <2> HIDE DEF kept, at
  <2> QED
    BY <1>1, <2>1, <2>2, <2>3 DEF MemoryOK, Memory
<1>5. ctl' = [ctl EXCEPT ![c] = m]
  BY DEF Keep
<1> HIDE DEF m
<1> QED
  BY <1>4, <1>5, QuietType DEF Keep

LEMMA LookType ==
    ASSUME TypeOK, NEW c \in Controllers, Look(c)
    PROVE  TypeOK'
<1>1. PICK t \in Target(c) :
          ctl' = [ctl EXCEPT ![c] = IF Recorded(t) THEN Created(c, t)
                                    ELSE [ctl[c] EXCEPT !.pc = "insert"]]
  BY DEF Look
<1> DEFINE m == IF Recorded(t) THEN Created(c, t) ELSE [ctl[c] EXCEPT !.pc = "insert"]
<1>2. MemoryOK(ctl[c])
  BY DEF TypeOK, MemoryOK
<1>3. MemoryOK([ctl[c] EXCEPT !.pc = "insert"])
  BY <1>2 DEF MemoryOK, Memory
<1>4. MemoryOK(m)
  BY <1>3, CreatedOK
<1> HIDE DEF m
<1> QED
  BY <1>1, <1>4, QuietType DEF Look, m

LEMMA InsertType ==
    ASSUME TypeOK, NEW c \in Controllers, Insert(c)
    PROVE  TypeOK'
<1>1. PICK t \in Target(c) :
          /\ runs' = runs \cup {NewRun(lastId + 1, "SCHEDULE", t, TickStatus(c))}
          /\ ctl' = [ctl EXCEPT ![c] = Created(c, t)]
  BY DEF Insert
<1>2. LogOK /\ RestOK /\ MemoriesOK
  BY TypeParts
<1>3. t \in Ticks /\ t \in Nat
  BY TargetType, TicksAssumption DEF Ticks
<1>4. TickStatus(c) \in RunStatuses
  BY DEF TickStatus, RunStatuses, ActiveStatuses
<1>5. LogOK'
  BY <1>1, <1>2, <1>3, <1>4, LogStep DEF Insert
<1>6. MemoriesOK'
  BY <1>1, <1>2, CreatedOK, MemoryStep
<1>7. RestOK'
  BY <1>2 DEF Insert, RestOK
<1> QED
  BY <1>5, <1>6, <1>7 DEF TypeOK, LogOK, RestOK, MemoriesOK, MemoryOK

LEMMA FindRestartType ==
    ASSUME TypeOK, NEW c \in Controllers, FindRestart(c)
    PROVE  TypeOK'
<1>1. PICK m \in {Idle("wait")} \cup {[Idle("restart") EXCEPT !.last = r.id] : r \in runs} :
          ctl' = [ctl EXCEPT ![c] = m]
  BY DEF FindRestart
<1>2. ASSUME NEW r \in runs
      PROVE  MemoryOK([Idle("restart") EXCEPT !.last = r.id])
  <2>1. r.id \in Nat
    BY DEF TypeOK, Runs
  <2>2. MemoryOK(Idle("restart"))
    BY IdleOK
  <2> QED
    BY <2>1, <2>2 DEF MemoryOK, Memory
<1>3. MemoryOK(m)
  BY <1>2, IdleOK
<1> QED
  BY <1>1, <1>3, QuietType DEF FindRestart

LEMMA RestartType ==
    ASSUME TypeOK, NEW c \in Controllers, Restart(c)
    PROVE  TypeOK'
<1>1. LogOK /\ RestOK /\ MemoriesOK
  BY TypeParts
<1>2. ctl' = [ctl EXCEPT ![c] = Idle("wait")]
  BY DEF Restart
<1>3. MemoriesOK'
  BY <1>1, <1>2, IdleOK, MemoryStep
<1>4. LogOK'
  <2>1. CASE UNCHANGED <<runs, lastId>>
    BY <1>1, <2>1 DEF LogOK
  <2>2. CASE /\ runs' = runs \cup {NewRun(lastId + 1, "RESTART", ctl[c].last, "QUEUED")}
             /\ lastId' = lastId + 1
    <3>1. ctl[c].last \in Nat /\ "QUEUED" \in RunStatuses
      BY DEF TypeOK, Memory, RunStatuses, ActiveStatuses
    <3> QED
      BY <1>1, <2>2, <3>1, LogStep
  <2> QED
    BY <2>1, <2>2 DEF Restart
<1>5. RestOK'
  BY <1>1 DEF Restart, RestOK
<1> QED
  BY <1>3, <1>4, <1>5 DEF TypeOK, LogOK, RestOK, MemoriesOK, MemoryOK

\* Starting, noticing a lost lock, and every fault.
LEMMA LeadershipType ==
    ASSUME TypeOK, NEW c \in Controllers,
           Start(c) \/ Wait(c) \/ Collide(c) \/ LosePass(c) \/ Die(c)
    PROVE  TypeOK'
<1>1. PICK m \in {Idle("read"), Idle("out")} : ctl' = [ctl EXCEPT ![c] = m]
  BY DEF Start, Wait, Collide, LosePass, Die
<1>2. MemoryOK(m)
  BY IdleOK
<1>3. lock' \in Controllers \cup {None} /\ faults' \in Nat
  BY DEF TypeOK, Start, Wait, Collide, LosePass, Die, Fault
<1>4. UNCHANGED <<now, runs, lastId, paused, resumed, pauses>>
  BY DEF Start, Wait, Collide, LosePass, Die, Fault
<1> QED
  BY <1>1, <1>2, <1>3, <1>4, LockType

LEMMA LoseSessionType ==
    ASSUME TypeOK, NEW c \in Controllers, LoseSession(c)
    PROVE  TypeOK'
BY DEF TypeOK, LoseSession, Fault

\* A run that is admitted or ends keeps its kind and key.
LEMMA RunMovesLog ==
    ASSUME TypeOK, NEW r \in runs, RunMoves(r)
    PROVE  \E s \in Runs : /\ runs' = (runs \ {r}) \cup {s}
                           /\ s.kind = r.kind /\ s.key = r.key
<1>1. PICK status \in RunStatuses : Become(r, status)
  BY TicksAssumption DEF RunMoves, Admit, Cancel, End, RunStatuses, ActiveStatuses
<1> DEFINE started == r.started \/ status = "IN-PROGRESS"
           s == [r EXCEPT !.status = status, !.started = started]
<1>2. r \in Runs
  BY DEF TypeOK
<1>3. started \in BOOLEAN
  BY <1>2 DEF Runs
<1>4. runs' = (runs \ {r}) \cup {s}
  BY <1>1 DEF Become
<1>5. s \in Runs /\ s.kind = r.kind /\ s.key = r.key
  <2> HIDE DEF started
  <2> QED
    BY <1>2, <1>3 DEF Runs
<1> HIDE DEF s
<1> QED
  BY <1>4, <1>5

LEMMA RunMovesType ==
    ASSUME TypeOK, NEW r \in runs, RunMoves(r)
    PROVE  TypeOK'
<1>1. LogOK
  BY TypeParts
<1>2. lastId' = lastId /\ UNCHANGED <<now, paused, resumed, lock, ctl, pauses, faults>>
  BY DEF RunMoves, Admit, Cancel, End, Become
<1>3. LogOK'
  BY <1>1, <1>2, RunMovesLog DEF LogOK
<1> QED
  BY <1>2, <1>3, LogType

LEMMA PassTimeType ==
    ASSUME TypeOK, PassTime
    PROVE  TypeOK'
BY TicksAssumption DEF TypeOK, PassTime

\* Catch-up creates runs of due ticks.
LEMMA TickRunsType ==
    ASSUME TypeOK, NEW status \in RunStatuses
    PROVE  /\ IsFiniteSet(Retained)
           /\ Retained \subseteq 1..now
           /\ Retained \subseteq Ticks
           /\ TickRuns(Retained, status) \subseteq Runs
           /\ \A r \in TickRuns(Retained, status) : r.kind = "SCHEDULE" /\ r.key \in Retained
<1>1. Retained \subseteq 1..now /\ Retained \subseteq Ticks
  BY TicksAssumption DEF Retained, Ticks, TypeOK
<1>2. IsFiniteSet(Ticks)
  BY TicksAssumption, FS_Interval DEF Ticks
<1>3. ASSUME NEW S \in SUBSET Ticks PROVE IsFiniteSet(S) /\ Cardinality(S) \in Nat
  BY <1>2, <1>3, FS_Subset, FS_CardinalityType
<1>4. ASSUME NEW t \in Retained
      PROVE  LET r == NewRun(lastId + Cardinality({u \in Retained : u <= t}), "SCHEDULE", t, status)
             IN  r \in Runs /\ r.kind = "SCHEDULE" /\ r.key = t
  <2>1. Cardinality({u \in Retained : u <= t}) \in Nat
    BY <1>1, <1>3
  <2>2. lastId + Cardinality({u \in Retained : u <= t}) \in Nat
    BY <2>1 DEF TypeOK
  <2>3. t \in Nat
    BY <1>1, TicksAssumption DEF Ticks
  <2> QED
    BY <2>2, <2>3, NewRunType
<1> QED
  BY <1>1, <1>3, <1>4 DEF TickRuns

LEMMA ResumeType ==
    ASSUME TypeOK, NEW choice \in {"wait", "run-now", "catch-up"}, Resume(choice)
    PROVE  TypeOK'
<1>1. LogOK /\ RestOK /\ MemoriesOK
  BY TypeParts
<1>2. LogOK'
  <2>1. CASE UNCHANGED <<runs, lastId>>
    BY <1>1, <2>1 DEF LogOK
  <2>2. CASE /\ runs' = runs \cup {NewRun(lastId + 1, "MANUAL", 0, "QUEUED")}
             /\ lastId' = lastId + 1
    BY <1>1, <2>2, LogStep DEF RunStatuses, ActiveStatuses
  <2>3. CASE choice = "catch-up"
    <3>1. PICK status \in RunStatuses :
              runs' = runs \cup TickRuns(Retained, status)
      BY <2>3 DEF Resume, RunStatuses, ActiveStatuses
    <3>2. lastId' = lastId + Cardinality(Retained)
      BY <2>3 DEF Resume
    <3>3. lastId' \in Nat
      BY <3>2, TickRunsType, FS_CardinalityType DEF TypeOK
    <3> QED
      BY <1>1, <3>1, <3>3, TickRunsType DEF LogOK
  <2> QED
    BY <2>1, <2>2, <2>3 DEF Resume
<1>3. RestOK'
  <2>1. now \in Nat /\ now \in 0..now
    BY <1>1, TicksAssumption DEF RestOK
  <2>2. paused' = FALSE /\ resumed' = now /\ UNCHANGED <<now, lock, pauses, faults>>
    BY DEF Resume
  <2> QED
    BY <1>1, <2>1, <2>2 DEF RestOK
<1>4. MemoriesOK'
  BY <1>1 DEF MemoriesOK, MemoryOK, Resume
<1> QED
  BY <1>2, <1>3, <1>4 DEF TypeOK, LogOK, RestOK, MemoriesOK, MemoryOK

LEMMA OperateType ==
    ASSUME TypeOK, Operate
    PROVE  TypeOK'
<1>1. CASE Pause
  BY <1>1 DEF TypeOK, Pause
<1>2. ASSUME NEW status \in ActiveStatuses, RunManually(status)
      PROVE  TypeOK'
  <2>1. LogOK
    BY TypeParts
  <2>2. LogOK'
    BY <2>1, <1>2, LogStep DEF RunManually, RunStatuses
  <2> QED
    BY <2>2, <1>2, LogType DEF RunManually
<1> QED
  BY <1>1, <1>2, ResumeType DEF Operate

LEMMA InitType == Init => TypeOK
<1> SUFFICES ASSUME Init PROVE TypeOK
  OBVIOUS
<1>1. MemoriesOK
  BY IdleOK DEF Init, MemoriesOK, MemoryOK
<1>2. now \in 0..LastTick /\ resumed \in 0..now
  BY TicksAssumption DEF Init
<1>3. LogOK /\ RestOK
  BY <1>2 DEF Init, LogOK, RestOK
<1> QED
  BY <1>1, <1>3 DEF TypeOK, LogOK, RestOK, MemoriesOK, MemoryOK

LEMMA TypeStep ==
    ASSUME TypeOK, [Next]_vars
    PROVE  TypeOK'
<1>1. CASE UNCHANGED vars
  BY <1>1 DEF TypeOK, vars
<1>2. ASSUME NEW c \in Controllers,
             Start(c) \/ Work(c) \/ LoseSession(c) \/ LosePass(c) \/ Die(c)
      PROVE  TypeOK'
  BY <1>2, LeadershipType, LoseSessionType, ReadScheduleType, ReadPausesType, KeepType, LookType,
     InsertType, FindRestartType, RestartType DEF Work
<1> QED
  BY <1>1, <1>2, PassTimeType, OperateType, RunMovesType DEF Next

\* Whatever the schedule, the policy and the number of controllers, and
\* whatever is lost on the way: every part of the state keeps its type, and a
\* controller keeps no more ticks than the catch-up takes.
THEOREM TypeCorrect == Spec => []TypeOK
<1> QED
  BY InitType, TypeStep, PTL DEF Spec

-----------------------------------------------------------------------------
(* The order of ticks.  What has to be added to it is what a controller    *)
(* knows of the ticks it has behind it: those of its pass are recorded or  *)
(* kept, and the ones before the pass are settled or were overtaken by a   *)
(* closed day before its cursor.                                           *)

Scanned(c) ==
    \A t \in ctl[c].cursor + 1 .. ctl[c].at - 1 : Recorded(t) \/ t \in ctl[c].kept

Passed(c) ==
    \A t \in 1..ctl[c].cursor :
        ~Recorded(t) /\ resumed < t =>
            \E w \in t + 1 .. ctl[c].cursor : w \in Closed /\ Recorded(w)

PlansOK == \A c \in Controllers : Scanned(c) /\ Passed(c)

OrderInv == TypeOK /\ OnlyClosedDaysOvertake /\ PlansOK

\* A tick that is recorded stays so, and the resume boundary only advances.
Grows == (\A t : Recorded(t) => Recorded(t)') /\ resumed <= resumed'

\* Nothing else is recorded.
NoTick == \A t : Recorded(t)' => Recorded(t)

LEMMA OtherPlans ==
    ASSUME TypeOK, PlansOK, Grows, TypeOK', NEW c \in Controllers,
           Scanned(c)' /\ Passed(c)',
           \A d \in Controllers \ {c} : ctl'[d] = ctl[d]
    PROVE  PlansOK'
<1>1. ASSUME NEW d \in Controllers \ {c}
      PROVE  Scanned(d)' /\ Passed(d)'
  <2>1. Scanned(d)'
    BY DEF Scanned, PlansOK, Grows
  <2>2. Passed(d)'
    <3> SUFFICES ASSUME NEW t \in 1..ctl[d].cursor, ~Recorded(t)', resumed' < t
                 PROVE  \E w \in t + 1 .. ctl[d].cursor : w \in Closed /\ Recorded(w)'
      BY DEF Passed
    <3>1. t \in Int /\ resumed \in Int /\ resumed' \in Int
      BY TicksAssumption DEF TypeOK, Memory
    <3>2. ~Recorded(t) /\ resumed < t
      BY <3>1 DEF Grows
    <3> QED
      BY <3>2 DEF Passed, PlansOK, Grows
  <2> QED
    BY <2>1, <2>2
<1> QED
  BY <1>1 DEF PlansOK

LEMMA SamePlans ==
    ASSUME TypeOK, PlansOK, Grows, TypeOK', ctl' = ctl
    PROVE  PlansOK'
<1> SUFFICES ASSUME NEW c \in Controllers PROVE Scanned(c)' /\ Passed(c)'
  BY DEF PlansOK
<1>1. Scanned(c)'
  BY DEF Scanned, PlansOK, Grows
<1>2. Passed(c)'
  <2> SUFFICES ASSUME NEW t \in 1..ctl[c].cursor, ~Recorded(t)', resumed' < t
               PROVE  \E w \in t + 1 .. ctl[c].cursor : w \in Closed /\ Recorded(w)'
    BY DEF Passed
  <2>1. t \in Int /\ resumed \in Int /\ resumed' \in Int
    BY TicksAssumption DEF TypeOK, Memory
  <2>2. ~Recorded(t) /\ resumed < t
    BY <2>1 DEF Grows
  <2> QED
    BY <2>2 DEF Passed, PlansOK, Grows
<1> QED
  BY <1>1, <1>2

\* A controller without a plan has nothing behind it.
LEMMA IdlePlan ==
    ASSUME NEW c \in Controllers, NEW pc, ctl'[c] = Idle(pc)
    PROVE  Scanned(c)' /\ Passed(c)'
BY DEF Scanned, Passed, Idle

\* The order survives a step whose new ticks respect it.
LEMMA OrderStep ==
    ASSUME TypeOK, TypeOK', OnlyClosedDaysOvertake, Grows,
           \A u \in Ticks : Recorded(u)' /\ ~Recorded(u) /\ u \notin Closed =>
               \A t \in 1..u - 1 : ~Recorded(t)' /\ resumed' < t =>
                   \E w \in t + 1 .. u - 1 : w \in Closed /\ Recorded(w)'
    PROVE  OnlyClosedDaysOvertake'
<1> SUFFICES ASSUME NEW u \in Ticks, NEW t \in 1..u - 1, OpenRecorded(u)', ~Recorded(t)',
                    resumed' < t
             PROVE  \E w \in t + 1 .. u - 1 : w \in Closed /\ Recorded(w)'
  BY DEF OnlyClosedDaysOvertake
<1>1. CASE Recorded(u)
  <2>1. t \in Int /\ resumed \in Int /\ resumed' \in Int
    BY TicksAssumption DEF TypeOK, Ticks
  <2>2. ~Recorded(t) /\ resumed < t /\ OpenRecorded(u)
    BY <2>1, <1>1 DEF Grows, OpenRecorded
  <2>3. PICK w \in t + 1 .. u - 1 : w \in Closed /\ Recorded(w)
    BY <2>2 DEF OnlyClosedDaysOvertake
  <2> QED
    BY <2>3 DEF Grows
<1>2. CASE ~Recorded(u)
  BY <1>2 DEF OpenRecorded
<1> QED
  BY <1>1, <1>2

LEMMA NoTickOrder ==
    ASSUME TypeOK, TypeOK', OnlyClosedDaysOvertake, Grows, NoTick
    PROVE  OnlyClosedDaysOvertake'
BY OrderStep DEF NoTick

\* A step that leaves the ticks alone and changes the plan of controller c.
LEMMA QuietOrder ==
    ASSUME OrderInv, TypeOK', Grows, NoTick, NEW c \in Controllers, NEW m,
           ctl' = [ctl EXCEPT ![c] = m], Scanned(c)' /\ Passed(c)'
    PROVE  OrderInv'
<1>1. \A d \in Controllers \ {c} : ctl'[d] = ctl[d]
  BY DEF OrderInv, TypeOK
<1>2. PlansOK'
  BY <1>1, OtherPlans DEF OrderInv
<1> QED
  BY <1>2, NoTickOrder DEF OrderInv

\* Nor does one that leaves the log alone.
LEMMA LogStays ==
    ASSUME OrderInv, UNCHANGED <<runs, resumed>>
    PROVE  Grows /\ NoTick
BY DEF Grows, NoTick, Recorded, HasKey, OrderInv, TypeOK

\* A run of another kind is no tick.
LEMMA LogAdds ==
    ASSUME OrderInv, NEW kind \in {"RESTART", "MANUAL"}, NEW key \in Nat, NEW status \in RunStatuses,
           runs' = runs \cup {NewRun(lastId + 1, kind, key, status)}, resumed' >= resumed
    PROVE  Grows /\ NoTick
<1>1. NewRun(lastId + 1, kind, key, status).kind # "SCHEDULE"
  BY DEF NewRun
<1> QED
  BY <1>1 DEF Grows, NoTick, Recorded, HasKey, OrderInv, TypeOK

\* A plan that is dropped.
LEMMA IdleOrder ==
    ASSUME OrderInv, TypeOK', Grows, NoTick, NEW c \in Controllers, NEW pc,
           ctl' = [ctl EXCEPT ![c] = Idle(pc)]
    PROVE  OrderInv'
<1>1. ctl'[c] = Idle(pc)
  BY DEF OrderInv, TypeOK
<1> QED
  BY <1>1, IdlePlan, QuietOrder

LEMMA LeadershipOrder ==
    ASSUME OrderInv, TypeOK', NEW c \in Controllers,
           Start(c) \/ Wait(c) \/ Collide(c) \/ LosePass(c) \/ Die(c)
    PROVE  OrderInv'
<1>1. PICK pc \in {"read", "out"} : ctl' = [ctl EXCEPT ![c] = Idle(pc)]
  BY DEF Start, Wait, Collide, LosePass, Die
<1>2. UNCHANGED <<runs, resumed>>
  BY DEF Start, Wait, Collide, LosePass, Die, Fault
<1> QED
  BY <1>1, <1>2, LogStays, IdleOrder

LEMMA SamePlansOrder ==
    ASSUME OrderInv, TypeOK', Grows, NoTick, ctl' = ctl
    PROVE  OrderInv'
BY SamePlans, NoTickOrder DEF OrderInv

\* A pass starts behind a boundary: the schedule's start, the last resume, or
\* a tick that is recorded.
LEMMA ReadScheduleOrder ==
    ASSUME OrderInv, TypeOK', NEW c \in Controllers, ReadSchedule(c)
    PROVE  OrderInv'
<1>1. PICK cursor \in Cursor :
          ctl' = [ctl EXCEPT ![c] =
                      [pc |-> "paused", cursor |-> cursor, upto |-> now, at |-> FirstTick(cursor),
                       kept |-> {}, pending |-> Pending, last |-> 0]]
  BY DEF ReadSchedule
<1> DEFINE m == [pc |-> "paused", cursor |-> cursor, upto |-> now, at |-> FirstTick(cursor),
                 kept |-> {}, pending |-> Pending, last |-> 0]
<1>2. ctl'[c] = m /\ m.cursor = cursor /\ m.at = cursor + 1
  BY <1>1 DEF OrderInv, TypeOK, FirstTick
<1>3. cursor \in Nat /\ resumed \in Nat
  BY TicksAssumption DEF OrderInv, TypeOK, Cursor, Boundaries, Ticks
<1>4. UNCHANGED <<runs, resumed>> /\ Grows /\ NoTick
  BY LogStays DEF ReadSchedule
<1>5. Scanned(c)'
  <2> HIDE DEF m
  <2>1. ctl'[c].cursor = cursor /\ ctl'[c].at = cursor + 1
    BY <1>2
  <2>2. ctl'[c].cursor + 1 .. ctl'[c].at - 1 = {}
    BY <2>1, <1>3
  <2> QED
    BY <2>2 DEF Scanned
<1>6. ASSUME NEW t \in 1..cursor, ~Recorded(t), resumed < t
      PROVE  \E w \in t + 1 .. cursor : w \in Closed /\ Recorded(w)
  <2>1. cursor \in Ticks /\ Recorded(cursor)
    BY <1>3, <1>6 DEF Cursor, Boundaries
  <2>2. t # cursor /\ t \in 1..cursor - 1
    BY <2>1, <1>6, <1>3
  <2>3. CASE cursor \in Closed
    <3>1. cursor \in t + 1 .. cursor
      BY <2>2, <1>3
    <3> QED
      BY <3>1, <2>1, <2>3
  <2>4. CASE cursor \notin Closed
    <3>1. PICK w \in t + 1 .. cursor - 1 : w \in Closed /\ Recorded(w)
      BY <2>1, <2>2, <2>4, <1>6 DEF OrderInv, OnlyClosedDaysOvertake, OpenRecorded
    <3> QED
      BY <3>1, <1>3
  <2> QED
    BY <2>3, <2>4
<1>7. Passed(c)'
  <2> SUFFICES ASSUME NEW t \in 1..cursor, ~Recorded(t)', resumed' < t
               PROVE  \E w \in t + 1 .. cursor : w \in Closed /\ Recorded(w)'
    BY <1>2 DEF Passed
  <2>1. ~Recorded(t) /\ resumed < t
    BY <1>4 DEF Grows
  <2>2. PICK w \in t + 1 .. cursor : w \in Closed /\ Recorded(w)
    BY <1>6, <2>1
  <2> QED
    BY <2>2, <1>4 DEF Grows
<1> HIDE DEF m
<1> QED
  BY <1>1, <1>4, <1>5, <1>7, QuietOrder DEF m

\* What a controller remembers of the ticks behind it stays true while the
\* log does, when it keeps the next one or records it.
LEMMA PlanMoves ==
    ASSUME OrderInv, Grows, NEW c \in Controllers,
           ctl'[c].cursor = ctl[c].cursor, TypeOK',
           \A t \in ctl[c].cursor + 1 .. ctl'[c].at - 1 : Recorded(t)' \/ t \in ctl'[c].kept
    PROVE  Scanned(c)' /\ Passed(c)'
<1>1. Scanned(c)'
  BY DEF Scanned
<1>2. Passed(c)'
  <2> SUFFICES ASSUME NEW t \in 1..ctl[c].cursor, ~Recorded(t)', resumed' < t
               PROVE  \E w \in t + 1 .. ctl[c].cursor : w \in Closed /\ Recorded(w)'
    BY DEF Passed
  <2>1. t \in Int /\ resumed \in Int /\ resumed' \in Int
    BY TicksAssumption DEF OrderInv, TypeOK, Memory
  <2>2. ~Recorded(t) /\ resumed < t
    BY <2>1 DEF Grows
  <2> QED
    BY <2>2 DEF Passed, OrderInv, PlansOK, Grows
<1> QED
  BY <1>1, <1>2

LEMMA ReadPausesOrder ==
    ASSUME OrderInv, TypeOK', NEW c \in Controllers, ReadPauses(c)
    PROVE  OrderInv'
<1>1. UNCHANGED <<runs, resumed>> /\ Grows /\ NoTick
  BY LogStays DEF ReadPauses
<1>2. CASE paused
  BY <1>1, <1>2, IdleOrder DEF ReadPauses
<1>3. CASE ~paused
  <2> DEFINE m == [ctl[c] EXCEPT !.pc = "scan"]
  <2>1. ctl' = [ctl EXCEPT ![c] = m]
    BY <1>3 DEF ReadPauses
  <2>2. ctl'[c] = m /\ ctl[c] \in Memory
    BY <2>1 DEF OrderInv, TypeOK
  <2>3. m.cursor = ctl[c].cursor /\ m.at = ctl[c].at /\ m.kept = ctl[c].kept
    BY <2>2 DEF Memory
  <2>4. Scanned(c)' /\ Passed(c)'
    BY <2>2, <2>3, <1>1, PlanMoves DEF OrderInv, PlansOK, Scanned, Grows
  <2> HIDE DEF m
  <2> QED
    BY <2>1, <2>4, <1>1, QuietOrder
<1> QED
  BY <1>2, <1>3

LEMMA KeepOrder ==
    ASSUME OrderInv, TypeOK', NEW c \in Controllers, Keep(c)
    PROVE  OrderInv'
<1>1. UNCHANGED <<runs, resumed>> /\ Grows /\ NoTick
  BY LogStays DEF Keep
<1> DEFINE kept == ctl[c].kept \cup {ctl[c].at}
           at == ctl[c].at + 1
           m == [ctl[c] EXCEPT !.kept = kept, !.at = at]
<1>2. ctl' = [ctl EXCEPT ![c] = m]
  BY DEF Keep
<1>3. ctl'[c] = m /\ ctl[c] \in Memory /\ ctl[c].cursor \in Nat /\ ctl[c].at \in Nat
  BY <1>2 DEF OrderInv, TypeOK, Memory
<1>4. m.cursor = ctl[c].cursor /\ m.at = at /\ m.kept = kept
  <2> HIDE DEF kept, at
  <2> QED
    BY <1>3 DEF Memory
<1>5. ASSUME NEW t \in ctl[c].cursor + 1 .. at - 1
      PROVE  Recorded(t)' \/ t \in kept
  <2>1. t = ctl[c].at \/ t \in ctl[c].cursor + 1 .. ctl[c].at - 1
    BY <1>3
  <2> QED
    BY <2>1, <1>1 DEF OrderInv, PlansOK, Scanned, Grows
<1>6. Scanned(c)' /\ Passed(c)'
  <2> HIDE DEF kept, at, m
  <2> QED
    BY <1>1, <1>3, <1>4, <1>5, PlanMoves
<1> HIDE DEF m
<1> QED
  BY <1>1, <1>2, <1>6, QuietOrder

\* A tick that was created, or was found, is behind the controller.
LEMMA CreatedPlan ==
    ASSUME OrderInv, TypeOK', Grows, NEW c \in Controllers, NEW t \in Target(c),
           Recorded(t)', ctl' = [ctl EXCEPT ![c] = Created(c, t)]
    PROVE  Scanned(c)' /\ Passed(c)'
<1> DEFINE kept == (ctl[c].kept \ {t}) \cup
                       (IF Scanning(c) /\ t # ctl[c].at THEN {ctl[c].at} ELSE {})
           at == IF Scanning(c) THEN ctl[c].at + 1 ELSE ctl[c].at
<1>1. ctl'[c] = Created(c, t) /\ ctl[c] \in Memory /\ ctl[c].cursor \in Nat /\ ctl[c].at \in Nat
  BY DEF OrderInv, TypeOK, Memory
<1>2. ctl'[c].cursor = ctl[c].cursor /\ ctl'[c].at = at /\ ctl'[c].kept = kept
  <2>1. Created(c, t) = [ctl[c] EXCEPT !.pc = "scan", !.kept = kept, !.at = at]
    BY DEF Created
  <2> HIDE DEF kept, at
  <2> QED
    BY <1>1, <2>1 DEF Memory
<1>3. ASSUME NEW u \in ctl[c].cursor + 1 .. at - 1
      PROVE  Recorded(u)' \/ u \in kept
  <2>1. CASE u \in ctl[c].cursor + 1 .. ctl[c].at - 1
    BY <2>1 DEF OrderInv, PlansOK, Scanned, Grows
  <2>2. CASE Scanning(c) /\ u = ctl[c].at
    BY <2>2
  <2> QED
    BY <1>1, <2>1, <2>2
<1> HIDE DEF kept, at
<1> QED
  BY <1>2, <1>3, PlanMoves

LEMMA LookOrder ==
    ASSUME OrderInv, TypeOK', NEW c \in Controllers, Look(c)
    PROVE  OrderInv'
<1>1. UNCHANGED <<runs, resumed>> /\ Grows /\ NoTick
  BY LogStays DEF Look
<1>2. PICK t \in Target(c) :
          ctl' = [ctl EXCEPT ![c] = IF Recorded(t) THEN Created(c, t)
                                    ELSE [ctl[c] EXCEPT !.pc = "insert"]]
  BY DEF Look
<1>3. CASE Recorded(t)
  BY <1>1, <1>2, <1>3, CreatedPlan, QuietOrder DEF Grows
<1>4. CASE ~Recorded(t)
  <2> DEFINE m == [ctl[c] EXCEPT !.pc = "insert"]
  <2>1. ctl' = [ctl EXCEPT ![c] = m]
    BY <1>2, <1>4
  <2>2. ctl'[c] = m /\ ctl[c] \in Memory
    BY <2>1 DEF OrderInv, TypeOK
  <2>3. m.cursor = ctl[c].cursor /\ m.at = ctl[c].at /\ m.kept = ctl[c].kept
    BY <2>2 DEF Memory
  <2>4. Scanned(c)' /\ Passed(c)'
    BY <2>2, <2>3, <1>1, PlanMoves DEF OrderInv, PlansOK, Scanned, Grows
  <2> HIDE DEF m
  <2> QED
    BY <2>1, <2>4, <1>1, QuietOrder
<1> QED
  BY <1>3, <1>4

\* An open tick that is created is the oldest of what its pass has not
\* recorded; of the ticks before the pass, the missing ones were overtaken.
LEMMA InsertOrder ==
    ASSUME OrderInv, TypeOK', NEW c \in Controllers, Insert(c)
    PROVE  OrderInv'
<1>1. PICK t \in Target(c) :
          /\ runs' = runs \cup {NewRun(lastId + 1, "SCHEDULE", t, TickStatus(c))}
          /\ ctl' = [ctl EXCEPT ![c] = Created(c, t)]
  BY DEF Insert
<1>2. resumed' = resumed /\ TypeOK /\ resumed \in Int
  BY TicksAssumption DEF Insert, OrderInv, TypeOK
<1>3. /\ NewRun(lastId + 1, "SCHEDULE", t, TickStatus(c)).kind = "SCHEDULE"
      /\ NewRun(lastId + 1, "SCHEDULE", t, TickStatus(c)).key = t
  BY DEF NewRun
<1>4. \A u : Recorded(u)' <=> Recorded(u) \/ u = t
  BY <1>1, <1>3 DEF Recorded, HasKey
<1>5. Grows
  BY <1>2, <1>4 DEF Grows
<1>6. PlansOK'
  <2>1. Scanned(c)' /\ Passed(c)'
    BY <1>1, <1>4, <1>5, CreatedPlan
  <2>2. \A d \in Controllers \ {c} : ctl'[d] = ctl[d]
    BY <1>1, <1>2 DEF TypeOK
  <2> QED
    BY <2>1, <2>2, <1>2, <1>5, OtherPlans DEF OrderInv
<1>7. ASSUME t \notin Closed, NEW s \in 1..t - 1, ~Recorded(s)', resumed' < s
      PROVE  \E w \in s + 1 .. t - 1 : w \in Closed /\ Recorded(w)'
  <2>1. /\ ctl[c] \in Memory
        /\ ctl[c].kept \subseteq (ctl[c].cursor + 1 .. ctl[c].at - 1) \ Closed
        /\ ctl[c].cursor \in Nat /\ ctl[c].at \in Nat
    BY <1>2 DEF TypeOK, Memory
  <2>2. t \in Oldest(ctl[c].kept)
    BY <1>7 DEF Target
  <2>3. t \in ctl[c].cursor + 1 .. ctl[c].at - 1 /\ t \in Nat /\ s \in Nat
    BY <2>1, <2>2, <1>7 DEF Oldest
  <2>4. ~Recorded(s) /\ resumed < s
    BY <1>2, <1>4, <1>7
  <2>5. CASE s <= ctl[c].cursor
    <3>1. PICK w \in s + 1 .. ctl[c].cursor : w \in Closed /\ Recorded(w)
      BY <2>1, <2>3, <2>4, <2>5, <1>7 DEF OrderInv, PlansOK, Passed
    <3>2. w \in s + 1 .. t - 1
      BY <3>1, <2>1, <2>3
    <3> QED
      BY <3>1, <3>2, <1>4
  <2>6. CASE s > ctl[c].cursor
    <3>1. s \in ctl[c].cursor + 1 .. ctl[c].at - 1
      BY <2>1, <2>3, <2>6, <1>7
    <3>2. s \in ctl[c].kept
      BY <3>1, <2>4 DEF OrderInv, PlansOK, Scanned
    <3>3. t <= s
      BY <3>2, <2>2 DEF Oldest
    <3> QED
      BY <3>3, <2>3, <1>7
  <2> QED
    BY <2>1, <2>3, <2>5, <2>6
<1>8. OnlyClosedDaysOvertake'
  BY <1>2, <1>4, <1>5, <1>7, OrderStep DEF OrderInv
<1> QED
  BY <1>6, <1>8 DEF OrderInv

LEMMA FindRestartOrder ==
    ASSUME OrderInv, TypeOK', NEW c \in Controllers, FindRestart(c)
    PROVE  OrderInv'
<1>1. UNCHANGED <<runs, resumed>> /\ Grows /\ NoTick
  BY LogStays DEF FindRestart
<1>2. PICK m \in {Idle("wait")} \cup {[Idle("restart") EXCEPT !.last = r.id] : r \in runs} :
          ctl' = [ctl EXCEPT ![c] = m]
  BY DEF FindRestart
<1>3. m.cursor = 0 /\ m.at = 1
  BY <1>2 DEF Idle
<1>4. ctl'[c] = m
  BY <1>2 DEF OrderInv, TypeOK
<1>5. Scanned(c)' /\ Passed(c)'
  BY <1>3, <1>4 DEF Scanned, Passed
<1> QED
  BY <1>1, <1>2, <1>5, QuietOrder

LEMMA RestartOrder ==
    ASSUME OrderInv, TypeOK', NEW c \in Controllers, Restart(c)
    PROVE  OrderInv'
<1>1. ctl' = [ctl EXCEPT ![c] = Idle("wait")] /\ resumed' = resumed
  BY DEF Restart
<1>2. CASE UNCHANGED <<runs, lastId>>
  BY <1>1, <1>2, LogStays, IdleOrder
<1>3. CASE runs' = runs \cup {NewRun(lastId + 1, "RESTART", ctl[c].last, "QUEUED")}
  <2>1. ctl[c].last \in Nat /\ "QUEUED" \in RunStatuses /\ resumed' >= resumed
    BY <1>1, TicksAssumption DEF OrderInv, TypeOK, Memory, RunStatuses, ActiveStatuses
  <2>2. Grows /\ NoTick
    BY <1>3, <2>1, LogAdds
  <2> QED
    BY <1>1, <2>2, IdleOrder
<1> QED
  BY <1>2, <1>3 DEF Restart

LEMMA RunMovesOrder ==
    ASSUME OrderInv, TypeOK', NEW r \in runs, RunMoves(r)
    PROVE  OrderInv'
<1>1. PICK s \in Runs : runs' = (runs \ {r}) \cup {s} /\ s.kind = r.kind /\ s.key = r.key
  BY RunMovesLog DEF OrderInv
<1>2. ctl' = ctl /\ resumed' = resumed
  BY DEF RunMoves, Admit, Cancel, End, Become
<1>3. Grows /\ NoTick
  BY <1>1, <1>2, TicksAssumption DEF Grows, NoTick, Recorded, HasKey, OrderInv, TypeOK
<1> QED
  BY <1>2, <1>3, SamePlansOrder

\* Catch-up creates ticks up to the resume, which nothing is measured behind.
LEMMA ResumeOrder ==
    ASSUME OrderInv, TypeOK', NEW choice \in {"wait", "run-now", "catch-up"}, Resume(choice)
    PROVE  OrderInv'
<1>1. /\ ctl' = ctl
      /\ resumed' = now
      /\ now \in Int /\ resumed \in Int /\ resumed' >= resumed
  BY TicksAssumption DEF Resume, OrderInv, TypeOK
<1>2. CASE choice = "wait"
  <2>1. Grows /\ NoTick
    BY <1>1, <1>2 DEF Resume, Grows, NoTick, Recorded, HasKey
  <2> QED
    BY <1>1, <2>1, SamePlansOrder
<1>3. CASE choice = "run-now"
  <2>1. runs' = runs \cup {NewRun(lastId + 1, "MANUAL", 0, "QUEUED")}
    BY <1>3 DEF Resume
  <2>2. Grows /\ NoTick
    BY <1>1, <2>1, LogAdds DEF RunStatuses, ActiveStatuses
  <2> QED
    BY <1>1, <2>2, SamePlansOrder
<1>4. CASE choice = "catch-up"
  <2>1. PICK status \in RunStatuses : runs' = runs \cup TickRuns(Retained, status)
    BY <1>4 DEF Resume, RunStatuses, ActiveStatuses
  <2>2. Grows
    BY <1>1, <2>1 DEF Grows, Recorded, HasKey
  <2>3. ASSUME NEW u \in Ticks, Recorded(u)', ~Recorded(u)
        PROVE  u <= resumed'
    <3>1. u \in Retained
      BY <2>1, <2>3, TickRunsType DEF Recorded, HasKey, OrderInv
    <3> QED
      BY <3>1, <1>1, TickRunsType DEF OrderInv
  <2>4. ASSUME NEW u \in Ticks, Recorded(u)', ~Recorded(u),
               NEW t \in 1..u - 1
        PROVE  ~(resumed' < t)
    BY <2>3, <2>4, <1>1, TicksAssumption DEF Ticks
  <2>5. OnlyClosedDaysOvertake'
    BY <2>2, <2>4, OrderStep DEF OrderInv
  <2> QED
    BY <1>1, <2>2, <2>5, SamePlans DEF OrderInv
<1> QED
  BY <1>2, <1>3, <1>4

LEMMA OperateOrder ==
    ASSUME OrderInv, TypeOK', Operate
    PROVE  OrderInv'
<1>1. CASE Pause
  BY <1>1, LogStays, SamePlansOrder DEF Pause
<1>2. ASSUME NEW status \in ActiveStatuses, RunManually(status)
      PROVE  OrderInv'
  <2>1. /\ runs' = runs \cup {NewRun(lastId + 1, "MANUAL", 0, status)}
        /\ resumed' = resumed /\ ctl' = ctl
        /\ status \in RunStatuses
    BY <1>2 DEF RunManually, RunStatuses
  <2>2. resumed' >= resumed
    BY <2>1, TicksAssumption DEF OrderInv, TypeOK
  <2>3. Grows /\ NoTick
    BY <2>1, <2>2, LogAdds
  <2> QED
    BY <2>1, <2>3, SamePlansOrder
<1> QED
  BY <1>1, <1>2, ResumeOrder DEF Operate

LEMMA OrderHolds ==
    ASSUME OrderInv, [Next]_vars
    PROVE  OrderInv'
<1>1. TypeOK'
  BY TypeStep DEF OrderInv
<1>2. CASE UNCHANGED vars
  BY <1>1, <1>2, LogStays, SamePlansOrder DEF vars
<1>3. CASE PassTime
  BY <1>1, <1>3, LogStays, SamePlansOrder DEF PassTime
<1>4. ASSUME NEW c \in Controllers, LoseSession(c)
      PROVE  OrderInv'
  BY <1>1, <1>4, LogStays, SamePlansOrder DEF LoseSession, Fault
<1>5. ASSUME NEW c \in Controllers, Start(c) \/ Work(c) \/ LosePass(c) \/ Die(c)
      PROVE  OrderInv'
  BY <1>1, <1>5, LeadershipOrder, ReadScheduleOrder, ReadPausesOrder, KeepOrder, LookOrder,
     InsertOrder, FindRestartOrder, RestartOrder DEF Work
<1> QED
  BY <1>1, <1>2, <1>3, <1>4, <1>5, OperateOrder, RunMovesOrder DEF Next

\* However often controllers die, lose their session or run two at a time,
\* whatever the catch-up retains and whatever operators pause and resume: only
\* a tick of a closed day is recorded ahead of an open one that is missing.
THEOREM OvertakenOnlyByClosedDays == Spec => []OnlyClosedDaysOvertake
<1>1. Init => OrderInv
  <2> SUFFICES ASSUME Init PROVE OrderInv
    OBVIOUS
  <2>1. TypeOK
    BY InitType
  <2>2. OnlyClosedDaysOvertake
    BY DEF Init, OnlyClosedDaysOvertake, OpenRecorded, Recorded, HasKey
  <2>3. PlansOK
    BY DEF Init, PlansOK, Scanned, Passed, Idle
  <2> QED
    BY <2>1, <2>2, <2>3 DEF OrderInv
<1>2. OrderInv => OnlyClosedDaysOvertake
  BY DEF OrderInv
<1> QED
  BY <1>1, <1>2, OrderHolds, PTL DEF Spec

-----------------------------------------------------------------------------
(* Overlap.  A controller that read the log while nothing was active may   *)
(* still queue the ticks it keeps, or the restart it found: its room.  Who *)
(* reads the log and finds room sees no automatic run that is active, and  *)
(* only a fault makes a second controller that may have room.              *)

\* The controllers that are in their loop, with or without the lock.
Running(mem) == {c \in Controllers : mem[c].pc # "out"}

\* All but the one with the lock are there because of a fault.
Sessions ==
    /\ IsFiniteSet(Running(ctl))
    /\ Cardinality(Running(ctl) \ {lock}) <= faults
    /\ paused => pauses > 0

\* How many runs a controller may still queue on what it read.
Room(m) ==
    IF m.pc \in {"paused", "scan", "insert"} /\ ~m.pending
    THEN IF m.at <= m.upto THEN Retain ELSE Cardinality(m.kept)
    ELSE IF m.pc = "restart" THEN 1 ELSE 0

Slots(mem) == {s \in Controllers \X (1..Retain) : s[2] <= Room(mem[s[1]])}

Piles ==
    /\ IsFiniteSet(runs)
    /\ Cardinality(Automatic) + Cardinality(Slots(ctl)) <= Retain * (1 + faults + pauses)

PileInv == TypeOK /\ Sessions /\ Piles

\* A larger factor makes no smaller product.
LEMMA Products ==
    ASSUME NEW k \in Nat, NEW m \in Nat, NEW n \in Nat, m <= n
    PROVE  k * m \in Nat /\ k * m <= k * n
<1> DEFINE d == n - m
<1>1. d \in Nat /\ n = m + d
  OBVIOUS
<1>2. k * d \in Nat /\ k * m \in Nat
  BY <1>1
<1>3. k * (m + d) = k * m + k * d
  BY <1>1
<1> HIDE DEF d
<1> QED
  BY <1>1, <1>2, <1>3

\* Parts of finite sets have no more elements.
LEMMA Fewer ==
    ASSUME NEW S, IsFiniteSet(S), NEW T \in SUBSET S
    PROVE  /\ IsFiniteSet(T) /\ Cardinality(T) \in Nat /\ Cardinality(S) \in Nat
           /\ Cardinality(T) <= Cardinality(S)
BY FS_Subset, FS_CardinalityType

\* One element more is at most one more.
LEMMA OneMore ==
    ASSUME NEW S, IsFiniteSet(S), NEW x, NEW T \in SUBSET (S \cup {x})
    PROVE  /\ IsFiniteSet(T) /\ Cardinality(T) \in Nat /\ Cardinality(S) \in Nat
           /\ Cardinality(T) <= Cardinality(S) + 1
<1>1. IsFiniteSet(S \cup {x}) /\ Cardinality(S) \in Nat
      /\ Cardinality(S \cup {x}) <= Cardinality(S) + 1
  <2>1. Cardinality(S) \in Nat
    BY FS_CardinalityType
  <2>2. /\ IsFiniteSet(S \cup {x})
        /\ Cardinality(S \cup {x}) = IF x \in S THEN Cardinality(S) ELSE Cardinality(S) + 1
    BY FS_AddElement, Zenon
  <2> QED
    BY <2>1, <2>2
<1>2. /\ IsFiniteSet(T) /\ Cardinality(T) \in Nat /\ Cardinality(S \cup {x}) \in Nat
      /\ Cardinality(T) <= Cardinality(S \cup {x})
  BY <1>1, Fewer
<1> QED
  BY <1>1, <1>2

LEMMA RoomType ==
    ASSUME NEW m, MemoryOK(m)
    PROVE  Room(m) \in 0..Retain
<1>1. Cardinality(m.kept) \in Nat /\ Cardinality(m.kept) <= Retain
  BY KeptFinite, FS_CardinalityType DEF MemoryOK
<1> QED
  BY <1>1, TicksAssumption DEF Room

\* Only running controllers have room, Retain each.
LEMMA SlotsBounded ==
    ASSUME NEW mem, NEW l, NEW k \in Nat,
           IsFiniteSet(Running(mem)), Cardinality(Running(mem) \ {l}) <= k
    PROVE  /\ IsFiniteSet(Slots(mem)) /\ Cardinality(Slots(mem)) \in Nat
           /\ Cardinality(Slots(mem)) <= Retain * (1 + k)
<1> DEFINE R == Running(mem)
<1>1. Slots(mem) \subseteq R \X (1..Retain)
  <2> SUFFICES ASSUME NEW c \in Controllers, NEW n \in 1..Retain, n <= Room(mem[c])
               PROVE  mem[c].pc # "out"
    BY DEF Slots, Running
  <2> QED
    BY DEF Room
<1>2. Retain \in Nat /\ IsFiniteSet(R)
  BY TicksAssumption
<1>3. IsFiniteSet(1..Retain) /\ Cardinality(1..Retain) = Retain
  BY <1>2, TicksAssumption, FS_Interval
<1>4. IsFiniteSet(R \ {l}) /\ Cardinality(R \ {l}) <= k
  BY <1>2, FS_Subset
<1> HIDE DEF R
<1>5. Cardinality(R) \in Nat /\ Cardinality(R) <= 1 + k
  <2>1. R \in SUBSET ((R \ {l}) \cup {l})
    OBVIOUS
  <2>2. Cardinality(R) \in Nat /\ Cardinality(R \ {l}) \in Nat
        /\ Cardinality(R) <= Cardinality(R \ {l}) + 1
    BY <1>4, <2>1, OneMore
  <2> QED
    BY <2>2, <1>4
<1>6. IsFiniteSet(R \X (1..Retain)) /\ Cardinality(R \X (1..Retain)) = Cardinality(R) * Retain
  BY <1>2, <1>3, FS_Product
<1>7. Cardinality(R) * Retain <= Retain * (1 + k) /\ Cardinality(R) * Retain \in Nat
  <2>1. Cardinality(R) * Retain = Retain * Cardinality(R)
    BY <1>2, <1>5
  <2>2. 1 + k \in Nat
    OBVIOUS
  <2> QED
    BY <2>1, <2>2, <1>2, <1>5, Products
<1>8. /\ IsFiniteSet(Slots(mem)) /\ Cardinality(Slots(mem)) \in Nat
      /\ Cardinality(Slots(mem)) <= Cardinality(R \X (1..Retain))
  BY <1>1, <1>6, Fewer
<1>9. Retain * (1 + k) \in Nat
  BY <1>2
<1> QED
  BY <1>6, <1>7, <1>8, <1>9

LEMMA AutomaticFinite ==
    ASSUME IsFiniteSet(runs)
    PROVE  IsFiniteSet(Automatic) /\ Cardinality(Automatic) \in Nat
BY Fewer DEF Automatic

\* The allowance grows with faults and pauses.
LEMMA Grown ==
    ASSUME NEW k \in Nat, NEW f \in Nat, NEW p \in Nat, NEW g \in Nat, NEW q \in Nat,
           g >= f, q >= p
    PROVE  /\ k * (1 + f + p) \in Nat /\ k * (1 + g + q) \in Nat /\ k * (1 + g) \in Nat
           /\ k * (1 + f + p) <= k * (1 + g + q)
           /\ k * (1 + g) <= k * (1 + g + q)
<1>1. 1 + f + p \in Nat /\ 1 + g + q \in Nat /\ 1 + g \in Nat
  OBVIOUS
<1>2. 1 + f + p <= 1 + g + q /\ 1 + g <= 1 + g + q
  OBVIOUS
<1> QED
  BY <1>1, <1>2, Products

LEMMA Allowance ==
    ASSUME TypeOK, TypeOK', faults' >= faults, pauses' >= pauses
    PROVE  /\ Retain * (1 + faults + pauses) \in Nat
           /\ Retain * (1 + faults' + pauses') \in Nat
           /\ Retain * (1 + faults + pauses) <= Retain * (1 + faults' + pauses')
           /\ Retain * (1 + faults') <= Retain * (1 + faults' + pauses')
<1>1. Retain \in Nat /\ faults \in Nat /\ pauses \in Nat /\ faults' \in Nat /\ pauses' \in Nat
  BY TicksAssumption DEF TypeOK
<1> QED
  BY <1>1, Grown

\* A step that neither queues an automatic run nor finds room.
LEMMA QuietPiles ==
    ASSUME PileInv, TypeOK', IsFiniteSet(runs'),
           Cardinality(Automatic') <= Cardinality(Automatic),
           Slots(ctl') \subseteq Slots(ctl), faults' >= faults, pauses' >= pauses
    PROVE  Piles'
<1>1. /\ Cardinality(Slots(ctl)) \in Nat /\ Cardinality(Slots(ctl')) \in Nat
      /\ Cardinality(Slots(ctl')) <= Cardinality(Slots(ctl))
  <2>1. faults \in Nat
    BY DEF PileInv, TypeOK
  <2>2. IsFiniteSet(Slots(ctl))
    BY <2>1, SlotsBounded DEF PileInv, Sessions
  <2> QED
    BY <2>2, Fewer
<1>2. Cardinality(Automatic) \in Nat /\ Cardinality(Automatic') \in Nat
  BY Fewer DEF PileInv, Piles, Automatic
<1>3. /\ Retain * (1 + faults + pauses) \in Nat
      /\ Retain * (1 + faults' + pauses') \in Nat
      /\ Retain * (1 + faults + pauses) <= Retain * (1 + faults' + pauses')
  BY Allowance DEF PileInv
<1>4. Cardinality(Automatic) + Cardinality(Slots(ctl)) <= Retain * (1 + faults + pauses)
  BY DEF PileInv, Piles
<1>5. Cardinality(Automatic') + Cardinality(Slots(ctl')) <= Retain * (1 + faults' + pauses')
  BY <1>1, <1>2, <1>3, <1>4
<1> QED
  BY <1>5 DEF Piles

\* A controller that reads the log and finds nothing active starts afresh.
LEMMA FreshPiles ==
    ASSUME PileInv, TypeOK', Sessions', ~Active, UNCHANGED <<runs, faults, pauses>>
    PROVE  Piles'
<1>1. Automatic' = {}
  BY DEF Automatic, Active
<1>2. Cardinality(Automatic') = 0 /\ IsFiniteSet(runs')
  BY <1>1, FS_EmptySet DEF PileInv, Piles
<1>3. /\ Retain * (1 + faults' + pauses') \in Nat
      /\ Retain * (1 + faults') <= Retain * (1 + faults' + pauses')
  BY Allowance DEF PileInv, TypeOK
<1>4. faults' \in Nat /\ IsFiniteSet(Running(ctl')) /\ Cardinality(Running(ctl') \ {lock'}) <= faults'
  BY DEF TypeOK, Sessions
<1>5. Cardinality(Slots(ctl')) \in Nat /\ Cardinality(Slots(ctl')) <= Retain * (1 + faults')
  BY <1>4, SlotsBounded
<1>6. Retain * (1 + faults') \in Nat
  BY <1>4, TicksAssumption
<1>7. Cardinality(Automatic') + Cardinality(Slots(ctl')) <= Retain * (1 + faults' + pauses')
  BY <1>2, <1>3, <1>5, <1>6
<1> QED
  BY <1>2, <1>7 DEF Piles

\* A run that is queued takes a slot of the controller that planned it.
LEMMA QueuedPiles ==
    ASSUME PileInv, TypeOK', NEW x, runs' = runs \cup {x}, NEW s \in Slots(ctl),
           Slots(ctl') \subseteq Slots(ctl) \ {s}, UNCHANGED <<faults, pauses>>
    PROVE  Piles'
<1>1. /\ Cardinality(Slots(ctl)) \in Nat /\ Cardinality(Slots(ctl')) \in Nat
      /\ Cardinality(Slots(ctl')) <= Cardinality(Slots(ctl)) - 1
  <2>1. faults \in Nat
    BY DEF PileInv, TypeOK
  <2>2. IsFiniteSet(Slots(ctl)) /\ Cardinality(Slots(ctl)) \in Nat
    BY <2>1, SlotsBounded DEF PileInv, Sessions
  <2>3. /\ IsFiniteSet(Slots(ctl) \ {s})
        /\ Cardinality(Slots(ctl) \ {s}) = Cardinality(Slots(ctl)) - 1
    BY <2>2, FS_RemoveElement
  <2>4. /\ Cardinality(Slots(ctl')) \in Nat
        /\ Cardinality(Slots(ctl')) <= Cardinality(Slots(ctl) \ {s})
    BY <2>3, Fewer
  <2> QED
    BY <2>2, <2>3, <2>4
<1>2. /\ Cardinality(Automatic) \in Nat /\ Cardinality(Automatic') \in Nat
      /\ Cardinality(Automatic') <= Cardinality(Automatic) + 1
  <2>1. IsFiniteSet(Automatic)
    BY AutomaticFinite DEF PileInv, Piles
  <2>2. Automatic' \in SUBSET (Automatic \cup {x})
    BY DEF Automatic
  <2> QED
    BY <2>1, <2>2, OneMore
<1>3. IsFiniteSet(runs')
  BY FS_AddElement DEF PileInv, Piles
<1>4. Retain * (1 + faults + pauses) \in Nat
  BY Allowance DEF PileInv, TypeOK
<1>5. Cardinality(Automatic) + Cardinality(Slots(ctl)) <= Retain * (1 + faults + pauses)
  BY DEF PileInv, Piles
<1>6. Cardinality(Automatic') + Cardinality(Slots(ctl')) <= Retain * (1 + faults' + pauses')
  BY <1>1, <1>2, <1>4, <1>5
<1> QED
  BY <1>3, <1>6 DEF Piles

\* A controller's step that leaves it no more room than it had.
LEMMA RoomShrinks ==
    ASSUME TypeOK, NEW c \in Controllers, NEW m, MemoryOK(m), ctl' = [ctl EXCEPT ![c] = m],
           Room(m) <= Room(ctl[c])
    PROVE  Slots(ctl') \subseteq Slots(ctl)
<1>1. ctl'[c] = m /\ \A d \in Controllers \ {c} : ctl'[d] = ctl[d]
  BY DEF TypeOK
<1>2. Room(m) \in Nat /\ Room(ctl[c]) \in Nat
  BY RoomType, TicksAssumption DEF TypeOK, MemoryOK
<1> QED
  BY <1>1, <1>2 DEF Slots

\* One that uses some of it.
LEMMA RoomUsed ==
    ASSUME TypeOK, NEW c \in Controllers, NEW m, MemoryOK(m), ctl' = [ctl EXCEPT ![c] = m],
           Room(ctl[c]) > 0, Room(m) < Room(ctl[c])
    PROVE  \E s \in Slots(ctl) : Slots(ctl') \subseteq Slots(ctl) \ {s}
<1> DEFINE s == <<c, Room(ctl[c])>>
<1>1. ctl'[c] = m /\ \A d \in Controllers \ {c} : ctl'[d] = ctl[d]
  BY DEF TypeOK
<1>2. Room(m) \in Nat /\ Room(ctl[c]) \in 0..Retain /\ Room(ctl[c]) \in 1..Retain
  BY RoomType, TicksAssumption DEF TypeOK, MemoryOK
<1>3. s \in Slots(ctl)
  BY <1>2 DEF Slots
<1>4. s \notin Slots(ctl')
  BY <1>1, <1>2, TicksAssumption DEF Slots
<1>5. Room(m) <= Room(ctl[c])
  BY <1>2, TicksAssumption
<1>6. Slots(ctl') \subseteq Slots(ctl)
  BY <1>5, RoomShrinks
<1> QED
  BY <1>3, <1>4, <1>6

\* A controller in its loop stays there, and the lock stays.
LEMMA SameSessions ==
    ASSUME TypeOK, Sessions, NEW c \in Controllers, NEW m, ctl' = [ctl EXCEPT ![c] = m],
           ctl[c].pc # "out", m.pc # "out", UNCHANGED <<lock, faults, paused, pauses>>
    PROVE  Sessions'
<1>1. Running(ctl') = Running(ctl)
  BY DEF Running, TypeOK
<1> QED
  BY <1>1 DEF Sessions

\* Runs that start no automatic work.
LEMMA NoWork ==
    ASSUME PileInv, NEW new, IsFiniteSet(new), runs' = runs \cup new,
           \A x \in new : x.kind = "MANUAL" \/ x.status \notin ActiveStatuses
    PROVE  IsFiniteSet(runs') /\ Cardinality(Automatic') <= Cardinality(Automatic)
<1>1. IsFiniteSet(runs')
  BY FS_Union DEF PileInv, Piles
<1>2. Automatic' = Automatic
  BY DEF Automatic
<1>3. Cardinality(Automatic) \in Nat
  BY AutomaticFinite DEF PileInv, Piles
<1> QED
  BY <1>1, <1>2, <1>3

LEMMA SameLog ==
    ASSUME PileInv, runs' = runs
    PROVE  IsFiniteSet(runs') /\ Cardinality(Automatic') <= Cardinality(Automatic)
<1>1. IsFiniteSet({}) /\ runs' = runs \cup {}
  BY FS_EmptySet
<1> QED
  BY <1>1, NoWork

\* A controller's step that queues nothing and finds no room.
LEMMA QuietStep ==
    ASSUME PileInv, TypeOK', NEW c \in Controllers, NEW m, ctl' = [ctl EXCEPT ![c] = m],
           Room(m) <= Room(ctl[c]), IsFiniteSet(runs'),
           Cardinality(Automatic') <= Cardinality(Automatic), faults' >= faults, pauses' = pauses
    PROVE  Piles'
<1>1. MemoryOK(m)
  <2>1. ctl'[c] = m
    BY DEF PileInv, TypeOK
  <2> QED
    BY <2>1 DEF TypeOK, MemoryOK
<1>2. Slots(ctl') \subseteq Slots(ctl)
  BY <1>1, RoomShrinks DEF PileInv
<1>3. pauses' >= pauses
  BY DEF PileInv, TypeOK
<1> QED
  BY <1>2, <1>3, QuietPiles

\* A fault makes at most one controller more that runs without the lock.
LEMMA SessionLost ==
    ASSUME TypeOK, Sessions, Running(ctl') \subseteq Running(ctl), faults' = faults + 1,
           UNCHANGED <<paused, pauses>>
    PROVE  Sessions'
<1>1. Running(ctl') \ {lock'} \in SUBSET ((Running(ctl) \ {lock}) \cup {lock})
  OBVIOUS
<1>2. IsFiniteSet(Running(ctl')) /\ IsFiniteSet(Running(ctl) \ {lock})
  BY Fewer DEF Sessions
<1>3. /\ Cardinality(Running(ctl') \ {lock'}) \in Nat /\ Cardinality(Running(ctl) \ {lock}) \in Nat
      /\ Cardinality(Running(ctl') \ {lock'}) <= Cardinality(Running(ctl) \ {lock}) + 1
  BY <1>1, <1>2, OneMore
<1>4. faults \in Nat /\ Cardinality(Running(ctl) \ {lock}) <= faults
  BY DEF TypeOK, Sessions
<1>5. Cardinality(Running(ctl') \ {lock'}) <= faults'
  BY <1>3, <1>4
<1> QED
  BY <1>2, <1>5 DEF Sessions

\* Without a fault, who takes the lock takes it from nobody.
LEMMA SessionTaken ==
    ASSUME TypeOK, Sessions, IsFiniteSet(Running(ctl')),
           Running(ctl') \ {lock'} \subseteq Running(ctl) \ {lock},
           UNCHANGED <<faults, paused, pauses>>
    PROVE  Sessions'
<1>1. IsFiniteSet(Running(ctl) \ {lock})
  BY Fewer DEF Sessions
<1>2. /\ Cardinality(Running(ctl') \ {lock'}) \in Nat /\ Cardinality(Running(ctl) \ {lock}) \in Nat
      /\ Cardinality(Running(ctl') \ {lock'}) <= Cardinality(Running(ctl) \ {lock})
  BY <1>1, Fewer
<1>3. faults \in Nat /\ Cardinality(Running(ctl) \ {lock}) <= faults
  BY DEF TypeOK, Sessions
<1>4. Cardinality(Running(ctl') \ {lock'}) <= faults'
  BY <1>2, <1>3
<1> QED
  BY <1>4 DEF Sessions

LEMMA LeadershipSessions ==
    ASSUME TypeOK, Sessions, NEW c \in Controllers,
           Start(c) \/ Wait(c) \/ Collide(c) \/ LosePass(c) \/ Die(c)
    PROVE  Sessions'
<1>1. PICK pc \in {"read", "out"} : ctl' = [ctl EXCEPT ![c] = Idle(pc)]
  BY DEF Start, Wait, Collide, LosePass, Die
<1>2. ctl'[c].pc = pc /\ \A d \in Controllers \ {c} : ctl'[d] = ctl[d]
  BY <1>1 DEF TypeOK, Idle
<1>3. lock = None => Running(ctl) \ {lock} = Running(ctl)
  BY TicksAssumption DEF Running
<1>4. IsFiniteSet(Running(ctl'))
  <2>1. Running(ctl') \in SUBSET (Running(ctl) \cup {c})
    BY <1>2 DEF Running
  <2> QED
    BY <2>1, OneMore DEF Sessions
<1>5. CASE Start(c) \/ Wait(c) \/ Collide(c)
  <2>1. UNCHANGED <<faults, paused, pauses>>
    BY <1>5 DEF Start, Wait, Collide
  <2>2. CASE lock \in {c, None} /\ lock' = c
    BY <1>2, <1>3, <1>4, <2>1, <2>2, SessionTaken DEF Running
  <2>3. CASE pc = "out" /\ lock' \in {None, lock} /\ (lock' # lock => lock = c)
    <3>1. Running(ctl') \subseteq Running(ctl) \ {c}
      BY <1>2, <2>3 DEF Running
    <3> QED
      BY <1>4, <2>1, <2>3, <3>1, SessionTaken
  <2>4. Start(c) => lock \in {c, None} /\ lock' = c
    BY DEF Start
  <2>5. Collide(c) => pc = "out" /\ lock' \in {None, lock} /\ (lock' # lock => lock = c)
    BY <1>1, <1>2 DEF Collide, Idle, TypeOK
  <2>6. Wait(c) => \/ lock \in {c, None} /\ lock' = c
                   \/ pc = "out" /\ lock' \in {None, lock} /\ (lock' # lock => lock = c)
    BY <1>1, <1>2 DEF Wait, Idle, TypeOK
  <2> QED
    BY <1>5, <2>2, <2>3, <2>4, <2>5, <2>6
<1>6. CASE LosePass(c) \/ Die(c)
  <2>1. ctl[c].pc # "out" /\ faults' = faults + 1 /\ UNCHANGED <<paused, pauses>>
    BY <1>6 DEF LosePass, Die, Fault
  <2>2. Running(ctl') \subseteq Running(ctl)
    BY <1>2, <2>1 DEF Running
  <2> QED
    BY <2>1, <2>2, SessionLost
<1> QED
  BY <1>5, <1>6

LEMMA LeadershipPiles ==
    ASSUME PileInv, TypeOK', NEW c \in Controllers,
           Start(c) \/ Wait(c) \/ Collide(c) \/ LosePass(c) \/ Die(c)
    PROVE  PileInv'
<1>1. PICK pc \in {"read", "out"} : ctl' = [ctl EXCEPT ![c] = Idle(pc)]
  BY DEF Start, Wait, Collide, LosePass, Die
<1>2. runs' = runs /\ pauses' = pauses /\ faults' \in {faults, faults + 1}
  BY DEF Start, Wait, Collide, LosePass, Die, Fault
<1>3. faults' >= faults
  <2>1. faults \in Nat
    BY DEF PileInv, TypeOK
  <2> QED
    BY <1>2, <2>1
<1>4. Room(Idle(pc)) <= Room(ctl[c])
  <2>1. Room(ctl[c]) \in 0..Retain
    BY RoomType DEF PileInv, TypeOK, MemoryOK
  <2>2. Room(Idle(pc)) = 0
    BY DEF Room, Idle
  <2> QED
    BY <2>1, <2>2, TicksAssumption
<1>5. Piles'
  BY <1>1, <1>2, <1>3, <1>4, SameLog, QuietStep
<1> QED
  BY <1>5, LeadershipSessions DEF PileInv

LEMMA LoseSessionPiles ==
    ASSUME PileInv, TypeOK', NEW c \in Controllers, LoseSession(c)
    PROVE  PileInv'
<1>1. /\ ctl' = ctl /\ faults' = faults + 1
      /\ UNCHANGED <<runs, paused, pauses>>
  BY DEF LoseSession, Fault
<1>2. faults \in Nat /\ pauses \in Nat
  BY DEF PileInv, TypeOK
<1>3. faults' >= faults /\ pauses' >= pauses
  BY <1>1, <1>2
<1>4. Slots(ctl') \subseteq Slots(ctl) /\ Running(ctl') \subseteq Running(ctl)
  BY <1>1
<1>5. Sessions'
  BY <1>1, <1>4, SessionLost DEF PileInv
<1>6. IsFiniteSet(runs') /\ Cardinality(Automatic') <= Cardinality(Automatic)
  BY <1>1, SameLog
<1>7. Piles'
  BY <1>3, <1>4, <1>6, QuietPiles
<1> QED
  BY <1>5, <1>7 DEF PileInv

\* What a controller's step in its loop leaves alone.
InLoop(c, m) ==
    /\ ctl' = [ctl EXCEPT ![c] = m]
    /\ ctl[c].pc # "out"
    /\ m.pc # "out"
    /\ UNCHANGED <<lock, faults, paused, pauses>>

\* A step that reads, and finds no room.
LEMMA ReadStep ==
    ASSUME PileInv, TypeOK', NEW c \in Controllers, NEW m, InLoop(c, m), runs' = runs,
           Room(m) <= Room(ctl[c])
    PROVE  PileInv'
<1>1. Sessions'
  BY SameSessions DEF PileInv, InLoop
<1>2. faults' >= faults
  BY DEF PileInv, TypeOK, InLoop
<1>3. Piles'
  BY <1>2, SameLog, QuietStep DEF InLoop
<1> QED
  BY <1>1, <1>3 DEF PileInv

\* A step that reads while nothing is active.
LEMMA FreshStep ==
    ASSUME PileInv, TypeOK', NEW c \in Controllers, NEW m, InLoop(c, m), runs' = runs, ~Active
    PROVE  PileInv'
<1>1. Sessions'
  BY SameSessions DEF PileInv, InLoop
<1>2. Piles'
  BY <1>1, FreshPiles DEF InLoop
<1> QED
  BY <1>1, <1>2 DEF PileInv

LEMMA ReadSchedulePiles ==
    ASSUME PileInv, TypeOK', NEW c \in Controllers, ReadSchedule(c)
    PROVE  PileInv'
<1>1. PICK cursor \in Cursor :
          ctl' = [ctl EXCEPT ![c] =
                     [pc |-> "paused", cursor |-> cursor, upto |-> now, at |-> FirstTick(cursor),
                      kept |-> {}, pending |-> Pending, last |-> 0]]
  BY DEF ReadSchedule
<1> DEFINE m == [pc |-> "paused", cursor |-> cursor, upto |-> now, at |-> FirstTick(cursor),
                 kept |-> {}, pending |-> Pending, last |-> 0]
<1>2. InLoop(c, m) /\ runs' = runs
  BY <1>1 DEF InLoop, ReadSchedule
<1>3. CASE Pending
  <2>1. Room(m) = 0
    BY <1>3 DEF Room
  <2>2. Room(ctl[c]) \in 0..Retain
    BY RoomType DEF PileInv, TypeOK, MemoryOK
  <2>3. Room(m) <= Room(ctl[c])
    BY <2>1, <2>2, TicksAssumption
  <2> HIDE DEF m
  <2> QED
    BY <1>2, <2>3, ReadStep
<1>4. CASE ~Pending
  <2>1. ~Active
    BY <1>4 DEF Pending, Active
  <2> HIDE DEF m
  <2> QED
    BY <1>2, <2>1, FreshStep
<1> QED
  BY <1>3, <1>4

LEMMA ReadPausesPiles ==
    ASSUME PileInv, TypeOK', NEW c \in Controllers, ReadPauses(c)
    PROVE  PileInv'
<1>1. PICK m \in {Idle("find"), [ctl[c] EXCEPT !.pc = "scan"]} : ctl' = [ctl EXCEPT ![c] = m]
  BY DEF ReadPauses
<1>2. ctl[c] \in Memory /\ ctl[c].pc = "paused" /\ Room(ctl[c]) \in 0..Retain
  BY RoomType DEF PileInv, TypeOK, MemoryOK, ReadPauses
<1>3. Room(m) <= Room(ctl[c]) /\ m.pc # "out"
  <2>1. CASE m = Idle("find")
    <3>1. Room(m) = 0 /\ m.pc # "out"
      BY <2>1 DEF Room, Idle
    <3> QED
      BY <3>1, <1>2, TicksAssumption
  <2>2. CASE m = [ctl[c] EXCEPT !.pc = "scan"]
    <3>1. m.pc = "scan" /\ m.at = ctl[c].at /\ m.upto = ctl[c].upto /\ m.kept = ctl[c].kept
          /\ m.pending = ctl[c].pending
      BY <1>2, <2>2 DEF Memory
    <3>2. Room(m) = Room(ctl[c])
      BY <1>2, <3>1 DEF Room
    <3> QED
      BY <3>1, <3>2, <1>2, TicksAssumption
  <2> QED
    BY <2>1, <2>2
<1>4. InLoop(c, m) /\ runs' = runs
  BY <1>1, <1>2, <1>3 DEF InLoop, ReadPauses
<1> QED
  BY <1>3, <1>4, ReadStep

\* While a controller scans it has room for as much as it may keep.
LEMMA ScanRoom ==
    ASSUME TypeOK, NEW c \in Controllers, ctl[c].pc \in {"scan", "insert"}, NEW m, MemoryOK(m),
           m.pc \in {"scan", "insert"}, m.pending = ctl[c].pending, m.upto = ctl[c].upto,
           m.at >= ctl[c].at, m.kept \subseteq ctl[c].kept \/ Scanning(c)
    PROVE  Room(m) <= Room(ctl[c])
<1>1. MemoryOK(ctl[c])
  BY DEF TypeOK, MemoryOK
<1>2. Room(m) \in 0..Retain /\ Room(ctl[c]) \in 0..Retain
  BY <1>1, RoomType
<1>3. m.at \in Nat /\ m.upto \in Nat /\ ctl[c].at \in Nat
  BY <1>1, TicksAssumption DEF MemoryOK, Memory
<1>4. CASE m.pending
  BY <1>2, <1>4, TicksAssumption DEF Room
<1>5. CASE ~m.pending /\ Scanning(c)
  <2>1. Room(ctl[c]) = Retain
    BY <1>5 DEF Room, Scanning
  <2> QED
    BY <2>1, <1>2, TicksAssumption
<1>6. CASE ~m.pending /\ ~Scanning(c)
  <2>1. Room(m) = Cardinality(m.kept) /\ Room(ctl[c]) = Cardinality(ctl[c].kept)
    BY <1>3, <1>6 DEF Room, Scanning
  <2>2. IsFiniteSet(ctl[c].kept) /\ m.kept \subseteq ctl[c].kept
    BY <1>1, <1>6, KeptFinite DEF MemoryOK
  <2> QED
    BY <2>1, <2>2, Fewer
<1> QED
  BY <1>4, <1>5, <1>6

LEMMA KeepPiles ==
    ASSUME PileInv, TypeOK', NEW c \in Controllers, Keep(c)
    PROVE  PileInv'
<1> DEFINE m == [ctl[c] EXCEPT !.kept = @ \cup {ctl[c].at}, !.at = @ + 1]
<1>1. ctl[c] \in Memory /\ ctl \in [Controllers -> Memory] /\ TypeOK
  BY DEF PileInv, TypeOK
<1>2. /\ m.pc = "scan" /\ ctl[c].pc = "scan" /\ m.pending = ctl[c].pending
      /\ m.upto = ctl[c].upto /\ m.at = ctl[c].at + 1 /\ Scanning(c)
      /\ ctl[c].at \in Nat
  BY <1>1 DEF Keep, Memory
<1>3. ctl' = [ctl EXCEPT ![c] = m]
  BY <1>1 DEF Keep
<1>4. MemoryOK(m)
  <2>1. ctl'[c] = m
    BY <1>1, <1>3
  <2> HIDE DEF m
  <2> QED
    BY <2>1 DEF TypeOK, MemoryOK
<1> HIDE DEF m
<1>5. m.at >= ctl[c].at
  BY <1>2
<1>6. Room(m) <= Room(ctl[c])
  BY <1>1, <1>2, <1>4, <1>5, ScanRoom
<1>7. InLoop(c, m) /\ runs' = runs
  BY <1>2, <1>3 DEF InLoop, Keep
<1> QED
  BY <1>6, <1>7, ReadStep

\* Creating a tick leaves no more room.
LEMMA CreatedRoom ==
    ASSUME TypeOK, NEW c \in Controllers, NEW t \in Target(c), ctl[c].pc \in {"scan", "insert"}
    PROVE  /\ MemoryOK(Created(c, t)) /\ Created(c, t).pc = "scan"
           /\ Room(Created(c, t)) <= Room(ctl[c])
<1> DEFINE m == Created(c, t)
<1>1. ctl[c] \in Memory /\ ctl[c].at \in Nat
  BY DEF TypeOK, Memory
<1>2. MemoryOK(m)
  BY CreatedOK
<1>3. /\ m.pc = "scan" /\ m.pending = ctl[c].pending /\ m.upto = ctl[c].upto
      /\ m.at = IF Scanning(c) THEN ctl[c].at + 1 ELSE ctl[c].at
      /\ ~Scanning(c) => m.kept = ctl[c].kept \ {t}
  BY <1>1 DEF Created, Memory
<1>4. m.at >= ctl[c].at /\ (m.kept \subseteq ctl[c].kept \/ Scanning(c))
  BY <1>1, <1>3
<1> HIDE DEF m
<1>5. Room(m) <= Room(ctl[c])
  BY <1>2, <1>3, <1>4, ScanRoom
<1> QED
  BY <1>2, <1>3, <1>5 DEF m

LEMMA LookPiles ==
    ASSUME PileInv, TypeOK', NEW c \in Controllers, Look(c)
    PROVE  PileInv'
<1>1. PICK t \in Target(c) :
          ctl' = [ctl EXCEPT ![c] = IF Recorded(t) THEN Created(c, t)
                                    ELSE [@ EXCEPT !.pc = "insert"]]
  BY DEF Look
<1>2. TypeOK /\ ctl \in [Controllers -> Memory] /\ ctl[c] \in Memory /\ ctl[c].pc = "scan"
  BY DEF PileInv, TypeOK, Look
<1>3. CASE Recorded(t)
  <2>1. ctl' = [ctl EXCEPT ![c] = Created(c, t)]
    BY <1>1, <1>3
  <2>2. Created(c, t).pc = "scan" /\ Room(Created(c, t)) <= Room(ctl[c])
    BY <1>2, CreatedRoom
  <2>3. InLoop(c, Created(c, t)) /\ runs' = runs
    BY <1>2, <2>1, <2>2 DEF InLoop, Look
  <2> QED
    BY <2>2, <2>3, ReadStep
<1>4. CASE ~Recorded(t)
  <2> DEFINE m == [ctl[c] EXCEPT !.pc = "insert"]
  <2>1. /\ m.pc = "insert" /\ m.at = ctl[c].at /\ m.upto = ctl[c].upto
        /\ m.kept = ctl[c].kept /\ m.pending = ctl[c].pending
    BY <1>2 DEF Memory
  <2>2. ctl' = [ctl EXCEPT ![c] = m]
    BY <1>1, <1>2, <1>4
  <2> HIDE DEF m
  <2>3. Room(m) = Room(ctl[c])
    BY <1>2, <2>1 DEF Room
  <2>4. Room(m) <= Room(ctl[c])
    <3>1. Room(ctl[c]) \in 0..Retain
      BY <1>2, RoomType DEF TypeOK, MemoryOK
    <3> QED
      BY <3>1, <2>3, TicksAssumption
  <2>5. InLoop(c, m) /\ runs' = runs
    BY <1>2, <2>1, <2>2 DEF InLoop, Look
  <2> QED
    BY <2>4, <2>5, ReadStep
<1> QED
  BY <1>3, <1>4

\* A tick that is queued was kept, and the controller had seen nothing active.
LEMMA QueuedRoom ==
    ASSUME TypeOK, NEW c \in Controllers, NEW t \in Target(c), ctl[c].pc = "insert",
           ~Scanning(c), ~ctl[c].pending
    PROVE  Room(Created(c, t)) < Room(ctl[c]) /\ Room(ctl[c]) > 0
<1> DEFINE m == Created(c, t)
<1>1. ctl[c] \in Memory /\ IsFiniteSet(ctl[c].kept) /\ t \in ctl[c].kept
  BY KeptFinite DEF TypeOK, Target, Oldest
<1>2. /\ m.pc = "scan" /\ m.pending = ctl[c].pending /\ m.upto = ctl[c].upto
      /\ m.at = ctl[c].at /\ m.kept = ctl[c].kept \ {t}
  BY <1>1 DEF Created, Memory
<1> HIDE DEF m
<1>3. Room(m) = Cardinality(ctl[c].kept \ {t}) /\ Room(ctl[c]) = Cardinality(ctl[c].kept)
  BY <1>2 DEF Room, Scanning
<1>4. /\ Cardinality(ctl[c].kept) \in Nat /\ Cardinality(ctl[c].kept \ {t}) \in Nat
      /\ Cardinality(ctl[c].kept \ {t}) = Cardinality(ctl[c].kept) - 1
  BY <1>1, FS_RemoveElement, FS_CardinalityType
<1> QED
  BY <1>3, <1>4 DEF m

LEMMA InsertPiles ==
    ASSUME OverlapSkip, PileInv, TypeOK', NEW c \in Controllers, Insert(c)
    PROVE  PileInv'
<1>1. PICK t \in Target(c) :
          /\ runs' = runs \cup {NewRun(lastId + 1, "SCHEDULE", t, TickStatus(c))}
          /\ ctl' = [ctl EXCEPT ![c] = Created(c, t)]
  BY DEF Insert
<1> DEFINE m == Created(c, t)
           x == NewRun(lastId + 1, "SCHEDULE", t, TickStatus(c))
<1>2. TypeOK /\ ctl[c].pc = "insert"
  BY DEF PileInv, Insert
<1>3. MemoryOK(m) /\ m.pc = "scan" /\ Room(m) <= Room(ctl[c])
  BY <1>2, CreatedRoom
<1>4. x.status = TickStatus(c)
  BY DEF NewRun
<1> HIDE DEF m, x
<1>5. InLoop(c, m) /\ runs' = runs \cup {x}
  BY <1>1, <1>2, <1>3 DEF InLoop, Insert, m, x
<1>6. Sessions'
  BY <1>5, SameSessions DEF PileInv, InLoop
<1>7. CASE Scanning(c) \/ ctl[c].pending
  <2>1. x.status \notin ActiveStatuses
    BY <1>4, <1>7 DEF TickStatus, ActiveStatuses
  <2>2. IsFiniteSet({x})
    BY FS_Singleton
  <2>3. IsFiniteSet(runs') /\ Cardinality(Automatic') <= Cardinality(Automatic)
    BY <1>5, <2>1, <2>2, NoWork
  <2>4. faults' >= faults
    BY <1>5 DEF PileInv, TypeOK, InLoop
  <2>5. Piles'
    BY <1>3, <1>5, <2>3, <2>4, QuietStep DEF InLoop
  <2> QED
    BY <1>6, <2>5 DEF PileInv
<1>8. CASE ~Scanning(c) /\ ~ctl[c].pending
  <2>1. Room(m) < Room(ctl[c]) /\ Room(ctl[c]) > 0
    BY <1>2, <1>8, QueuedRoom DEF m
  <2>2. PICK s \in Slots(ctl) : Slots(ctl') \subseteq Slots(ctl) \ {s}
    BY <1>2, <1>3, <1>5, <2>1, RoomUsed DEF InLoop
  <2>3. Piles'
    BY <1>5, <2>2, QueuedPiles DEF InLoop
  <2> QED
    BY <1>6, <2>3 DEF PileInv
<1> QED
  BY <1>7, <1>8

LEMMA FindRestartPiles ==
    ASSUME PileInv, TypeOK', NEW c \in Controllers, FindRestart(c)
    PROVE  PileInv'
<1>1. /\ ctl[c].pc # "out" /\ runs' = runs
      /\ UNCHANGED <<lock, faults, paused, pauses>>
  BY DEF FindRestart
<1>2. CASE ~Active /\ \E r \in runs : ctl' = [ctl EXCEPT ![c] = [Idle("restart") EXCEPT !.last = r.id]]
  <2>1. PICK m : m.pc # "out" /\ ctl' = [ctl EXCEPT ![c] = m]
    BY <1>2 DEF Idle
  <2>2. InLoop(c, m)
    BY <1>1, <2>1 DEF InLoop
  <2> QED
    BY <1>1, <1>2, <2>2, FreshStep
<1>3. CASE ctl' = [ctl EXCEPT ![c] = Idle("wait")]
  <2>1. Room(Idle("wait")) = 0 /\ Idle("wait").pc # "out"
    BY DEF Room, Idle
  <2>2. Room(ctl[c]) \in 0..Retain
    BY RoomType DEF PileInv, TypeOK, MemoryOK
  <2>3. Room(Idle("wait")) <= Room(ctl[c])
    BY <2>1, <2>2, TicksAssumption
  <2>4. InLoop(c, Idle("wait"))
    BY <1>1, <1>3, <2>1 DEF InLoop
  <2> QED
    BY <1>1, <2>3, <2>4, ReadStep
<1> QED
  BY <1>2, <1>3 DEF FindRestart, Restartable

LEMMA RestartPiles ==
    ASSUME PileInv, TypeOK', NEW c \in Controllers, Restart(c)
    PROVE  PileInv'
<1> DEFINE m == Idle("wait")
<1>1. MemoryOK(m) /\ Room(m) = 0 /\ m.pc # "out" /\ Room(ctl[c]) = 1
  BY IdleOK DEF Room, Idle, Restart
<1> HIDE DEF m
<1>2. InLoop(c, m)
  BY <1>1 DEF InLoop, Restart, m
<1>3. CASE runs' = runs
  BY <1>1, <1>2, <1>3, ReadStep
<1>4. CASE \E x : runs' = runs \cup {x}
  <2>1. PICK x : runs' = runs \cup {x}
    BY <1>4
  <2>2. PICK s \in Slots(ctl) : Slots(ctl') \subseteq Slots(ctl) \ {s}
    <3>1. Room(m) < Room(ctl[c]) /\ Room(ctl[c]) > 0
      BY <1>1
    <3>2. TypeOK /\ ctl' = [ctl EXCEPT ![c] = m]
      BY <1>2 DEF PileInv, InLoop
    <3> QED
      BY <1>1, <3>1, <3>2, RoomUsed
  <2>3. Piles'
    BY <1>2, <2>1, <2>2, QueuedPiles DEF InLoop
  <2>4. Sessions'
    BY <1>2, SameSessions DEF PileInv, InLoop
  <2> QED
    BY <2>3, <2>4 DEF PileInv
<1> QED
  BY <1>3, <1>4 DEF Restart

\* Steps that no controller makes.
LEMMA OutsideStep ==
    ASSUME PileInv, TypeOK', IsFiniteSet(runs'), Cardinality(Automatic') <= Cardinality(Automatic),
           UNCHANGED <<ctl, lock, faults>>, pauses' >= pauses, paused' => pauses' > 0
    PROVE  PileInv'
<1>1. Sessions'
  BY DEF PileInv, Sessions
<1>2. faults' >= faults /\ Slots(ctl') \subseteq Slots(ctl)
  BY DEF PileInv, TypeOK
<1>3. Piles'
  BY <1>2, QuietPiles
<1> QED
  BY <1>1, <1>3 DEF PileInv

\* A run that is admitted or ends is no more active than it was.
LEMMA RunMovesPiles ==
    ASSUME PileInv, TypeOK', NEW r \in runs, RunMoves(r)
    PROVE  PileInv'
<1>1. UNCHANGED <<ctl, lock, faults, paused, pauses>>
  BY DEF RunMoves, Admit, Cancel, End, Become
<1>2. PICK status \in RunStatuses :
          Become(r, status) /\ (status \in ActiveStatuses => r.status \in ActiveStatuses)
  BY TicksAssumption DEF RunMoves, Admit, Cancel, End, RunStatuses, ActiveStatuses
<1> DEFINE started == r.started \/ status = "IN-PROGRESS"
           s == [r EXCEPT !.status = status, !.started = started]
<1>3. runs' = (runs \ {r}) \cup {s}
  BY <1>2 DEF Become
<1>4. r \in Runs
  BY DEF PileInv, TypeOK
<1>5. s.kind = r.kind /\ s.status = status
  <2> HIDE DEF started
  <2> QED
    BY <1>4 DEF Runs
<1> HIDE DEF s
<1>6. IsFiniteSet(runs) /\ IsFiniteSet(Automatic) /\ Cardinality(Automatic) \in Nat
  BY AutomaticFinite DEF PileInv, Piles
<1>7. IsFiniteSet(runs')
  <2>1. IsFiniteSet(runs \ {r})
    BY <1>6, Fewer
  <2> QED
    BY <1>3, <2>1, FS_AddElement
<1>8. Cardinality(Automatic') <= Cardinality(Automatic)
  <2>1. CASE s \in Automatic'
    <3>1. r \in Automatic
      BY <1>2, <1>5, <2>1 DEF Automatic
    <3>2. /\ IsFiniteSet(Automatic \ {r})
          /\ Cardinality(Automatic \ {r}) = Cardinality(Automatic) - 1
      BY <1>6, <3>1, FS_RemoveElement
    <3>3. Automatic' \in SUBSET ((Automatic \ {r}) \cup {s})
      BY <1>3 DEF Automatic
    <3>4. /\ Cardinality(Automatic') \in Nat /\ Cardinality(Automatic \ {r}) \in Nat
          /\ Cardinality(Automatic') <= Cardinality(Automatic \ {r}) + 1
      BY <3>2, <3>3, OneMore
    <3> QED
      BY <1>6, <3>2, <3>4
  <2>2. CASE s \notin Automatic'
    <3>1. Automatic' \in SUBSET Automatic
      BY <1>3, <2>2 DEF Automatic
    <3> QED
      BY <1>6, <3>1, Fewer
  <2> QED
    BY <2>1, <2>2
<1>9. pauses' >= pauses /\ (paused' => pauses' > 0)
  BY <1>1 DEF PileInv, TypeOK, Sessions
<1> QED
  BY <1>1, <1>7, <1>8, <1>9, OutsideStep

\* A set of natural numbers has a least one.
LEMMA LeastTick ==
    ASSUME NEW S \in SUBSET Nat, S # {}
    PROVE  \E n \in S : \A m \in S : n <= m
<1>1. PICK n \in S : \A m \in S : ~(<<m, n>> \in OpToRel(<, Nat))
  BY NatLessThanWellFounded, WFMin
<1>2. \A m \in S : ~(m < n)
  BY <1>1 DEF OpToRel
<1> QED
  BY <1>2

\* An operator's catch-up takes as many ticks as a controller's.
LEMMA RetainedBounded ==
    ASSUME TypeOK
    PROVE  IsFiniteSet(Retained) /\ Cardinality(Retained) \in Nat /\ Cardinality(Retained) <= Retain
<1> DEFINE due == {t \in Ticks \ Closed : t <= now /\ \A b \in Boundaries : b < t}
           later(t) == {u \in due : t < u}
<1>1. due \subseteq Ticks /\ Ticks \subseteq Nat /\ IsFiniteSet(Ticks)
  BY TicksAssumption, FS_Interval DEF Ticks
<1>2. IsFiniteSet(due)
  BY <1>1, Fewer
<1>3. Retained = {t \in due : Cardinality(later(t)) < Retain}
  BY DEF Retained, HasRoom
<1> HIDE DEF due
<1>4. CASE Retained = {}
  BY <1>4, FS_EmptySet, TicksAssumption
<1>5. CASE Retained # {}
  <2>1. Retained \subseteq due
    BY <1>3
  <2>2. PICK n \in Retained : \A m \in Retained : n <= m
    BY <1>1, <1>5, <2>1, LeastTick
  <2>3. n \in Nat /\ \A m \in Retained : m \in Nat
    BY <1>1, <2>1, <2>2
  <2>4. Retained \in SUBSET (later(n) \cup {n})
    BY <2>1, <2>2, <2>3
  <2>5. IsFiniteSet(later(n)) /\ Cardinality(later(n)) < Retain
    BY <1>2, <1>3, <2>2, Fewer
  <2> HIDE DEF later
  <2>6. /\ IsFiniteSet(Retained) /\ Cardinality(Retained) \in Nat /\ Cardinality(later(n)) \in Nat
        /\ Cardinality(Retained) <= Cardinality(later(n)) + 1
    BY <2>4, <2>5, OneMore
  <2> QED
    BY <2>5, <2>6, TicksAssumption
<1> QED
  BY <1>4, <1>5

\* A catch-up creates one run for each tick.
LEMMA TickRunsBounded ==
    ASSUME TypeOK, NEW status
    PROVE  /\ IsFiniteSet(TickRuns(Retained, status))
           /\ Cardinality(TickRuns(Retained, status)) \in Nat
           /\ Cardinality(TickRuns(Retained, status)) <= Retain
<1> DEFINE T == TickRuns(Retained, status)
           f == [t \in Retained |->
                    NewRun(lastId + Cardinality({u \in Retained : u <= t}), "SCHEDULE", t, status)]
<1>1. f \in Surjection(Retained, T)
  BY DEF Surjection, TickRuns
<1> HIDE DEF f
<1>2. /\ IsFiniteSet(Retained) /\ Cardinality(Retained) \in Nat
      /\ Cardinality(Retained) <= Retain
  BY RetainedBounded
<1>3. IsFiniteSet(T) /\ Cardinality(T) <= Cardinality(Retained)
  BY <1>1, <1>2, FS_Surjection
<1>4. Cardinality(T) \in Nat
  BY <1>3, FS_CardinalityType
<1> HIDE DEF T
<1>5. Cardinality(T) <= Retain
  BY <1>2, <1>3, <1>4, TicksAssumption
<1> QED
  BY <1>3, <1>4, <1>5 DEF T

\* The ticks that an operator has run are the first automatic work there is.
LEMMA CatchUpPiles ==
    ASSUME PileInv, TypeOK', paused, ~Active, NEW status,
           runs' = runs \cup TickRuns(Retained, status), UNCHANGED <<ctl, faults, pauses>>
    PROVE  Piles'
<1> DEFINE T == TickRuns(Retained, status)
<1>1. IsFiniteSet(T) /\ Cardinality(T) \in Nat /\ Cardinality(T) <= Retain
  BY TickRunsBounded DEF PileInv
<1>2. IsFiniteSet(runs')
  BY <1>1, FS_Union DEF PileInv, Piles
<1> HIDE DEF T
<1>3. Automatic' \in SUBSET T
  BY DEF Automatic, Active, T
<1>4. Cardinality(Automatic') \in Nat /\ Cardinality(Automatic') <= Cardinality(T)
  BY <1>1, <1>3, Fewer
<1>5. faults \in Nat /\ Retain \in Nat /\ pauses \in Nat /\ pauses > 0
  BY TicksAssumption DEF PileInv, TypeOK, Sessions
<1>6. Cardinality(Slots(ctl)) \in Nat /\ Cardinality(Slots(ctl)) <= Retain * (1 + faults)
  BY <1>5, SlotsBounded DEF PileInv, Sessions
<1>7. /\ Retain * (1 + faults) + Retain <= Retain * (1 + faults + pauses)
      /\ Retain * (1 + faults) \in Nat
  <2> DEFINE k == 1 + faults
             n == 1 + faults + pauses
  <2>1. k \in Nat /\ k + 1 \in Nat /\ n \in Nat /\ k + 1 <= n
    BY <1>5
  <2> HIDE DEF k, n
  <2>2. Retain * (k + 1) <= Retain * n /\ Retain * k \in Nat
    BY <1>5, <2>1, Products
  <2>3. Retain * (k + 1) = Retain * k + Retain
    BY <1>5, <2>1
  <2>4. Retain * k + Retain <= Retain * n
    BY <2>2, <2>3
  <2> QED
    BY <2>2, <2>4 DEF k, n
<1>8. Cardinality(Automatic') + Cardinality(Slots(ctl)) <= Retain * (1 + faults + pauses)
  <2>1. Retain * (1 + faults + pauses) \in Nat
    BY <1>5, Grown
  <2> QED
    BY <1>1, <1>4, <1>5, <1>6, <1>7, <2>1
<1> QED
  BY <1>2, <1>8 DEF Piles

LEMMA ResumePiles ==
    ASSUME OverlapSkip, PileInv, TypeOK', NEW choice \in {"wait", "run-now", "catch-up"},
           Resume(choice)
    PROVE  PileInv'
<1>1. /\ paused /\ paused' = FALSE
      /\ UNCHANGED <<ctl, lock, faults, pauses>>
  BY DEF Resume
<1>2. pauses' >= pauses
  BY <1>1 DEF PileInv, TypeOK
<1>3. CASE \E new : /\ IsFiniteSet(new) /\ runs' = runs \cup new
                    /\ \A x \in new : x.kind = "MANUAL" \/ x.status \notin ActiveStatuses
  <2>1. IsFiniteSet(runs') /\ Cardinality(Automatic') <= Cardinality(Automatic)
    BY <1>3, NoWork
  <2> QED
    BY <1>1, <1>2, <2>1, OutsideStep
<1>4. CASE choice = "wait"
  <2>1. IsFiniteSet({}) /\ runs' = runs \cup {}
    BY <1>4, FS_EmptySet DEF Resume
  <2> QED
    BY <1>3, <2>1
<1>5. CASE choice = "run-now"
  <2> DEFINE x == NewRun(lastId + 1, "MANUAL", 0, "QUEUED")
  <2>1. runs' = runs \cup {x} /\ x.kind = "MANUAL" /\ IsFiniteSet({x})
    BY <1>5, FS_Singleton DEF Resume, NewRun
  <2> HIDE DEF x
  <2> QED
    BY <1>3, <2>1
<1>6. CASE choice = "catch-up" /\ Pending
  <2> DEFINE T == TickRuns(Retained, "SKIPPED")
  <2>1. runs' = runs \cup T
    BY <1>6 DEF Resume
  <2>2. IsFiniteSet(T)
    BY TickRunsBounded DEF PileInv
  <2>3. \A x \in T : x.status \notin ActiveStatuses
    <3>1. \A id, key : NewRun(id, "SCHEDULE", key, "SKIPPED").status \notin ActiveStatuses
      BY DEF NewRun, ActiveStatuses
    <3> QED
      BY <3>1 DEF TickRuns
  <2> HIDE DEF T
  <2> QED
    BY <1>3, <2>1, <2>2, <2>3
<1>7. CASE choice = "catch-up" /\ ~Pending
  <2>1. ~Active
    BY <1>7 DEF Active, Pending
  <2>2. runs' = runs \cup TickRuns(Retained, "QUEUED")
    BY <1>7 DEF Resume
  <2>3. Piles'
    BY <1>1, <2>1, <2>2, CatchUpPiles
  <2>4. Sessions'
    BY <1>1 DEF PileInv, Sessions
  <2> QED
    BY <2>3, <2>4 DEF PileInv
<1> QED
  BY <1>4, <1>5, <1>6, <1>7

LEMMA OperatePiles ==
    ASSUME OverlapSkip, PileInv, TypeOK', Operate
    PROVE  PileInv'
<1>1. CASE Pause
  <2>1. /\ UNCHANGED <<ctl, lock, faults, runs>>
        /\ pauses' = pauses + 1 /\ pauses \in Nat
    BY <1>1 DEF Pause, PileInv, TypeOK
  <2>2. pauses' >= pauses /\ pauses' > 0
    BY <2>1
  <2>3. IsFiniteSet(runs') /\ Cardinality(Automatic') <= Cardinality(Automatic)
    BY <2>1, SameLog
  <2> QED
    BY <2>1, <2>2, <2>3, OutsideStep
<1>2. ASSUME NEW status \in ActiveStatuses, RunManually(status)
      PROVE  PileInv'
  <2> DEFINE x == NewRun(lastId + 1, "MANUAL", 0, status)
  <2>1. /\ runs' = runs \cup {x} /\ x.kind = "MANUAL" /\ IsFiniteSet({x})
        /\ UNCHANGED <<ctl, lock, faults, pauses, paused>>
    BY <1>2, FS_Singleton DEF RunManually, NewRun
  <2> HIDE DEF x
  <2>2. IsFiniteSet(runs') /\ Cardinality(Automatic') <= Cardinality(Automatic)
    BY <2>1, NoWork
  <2>3. pauses' >= pauses /\ (paused' => pauses' > 0)
    BY <2>1 DEF PileInv, TypeOK, Sessions
  <2> QED
    BY <2>1, <2>2, <2>3, OutsideStep
<1> QED
  BY <1>1, <1>2, ResumePiles DEF Operate

LEMMA PileStep ==
    ASSUME OverlapSkip, PileInv, [Next]_vars
    PROVE  PileInv'
<1>1. TypeOK'
  BY TypeStep DEF PileInv
<1>2. CASE UNCHANGED vars \/ PassTime
  <2>1. UNCHANGED <<ctl, lock, faults, runs, pauses, paused>>
    BY <1>2 DEF vars, PassTime
  <2>2. pauses' >= pauses /\ (paused' => pauses' > 0)
    BY <2>1 DEF PileInv, TypeOK, Sessions
  <2>3. IsFiniteSet(runs') /\ Cardinality(Automatic') <= Cardinality(Automatic)
    BY <2>1, SameLog
  <2> QED
    BY <1>1, <2>1, <2>2, <2>3, OutsideStep
<1>3. ASSUME NEW c \in Controllers,
             Start(c) \/ Work(c) \/ LoseSession(c) \/ LosePass(c) \/ Die(c)
      PROVE  PileInv'
  BY <1>1, <1>3, LeadershipPiles, LoseSessionPiles, ReadSchedulePiles, ReadPausesPiles, KeepPiles,
     LookPiles, InsertPiles, FindRestartPiles, RestartPiles DEF Work
<1> QED
  BY <1>1, <1>2, <1>3, OperatePiles, RunMovesPiles DEF Next

\* Under OVERLAP_POLICY = SKIP the automatic runs that wait or run are at most
\* one catch-up, and one more for each fault and each pause, whatever the
\* schedule, the catch-up and the number of controllers.
THEOREM RunsDoNotPileUp == Spec => []NoPileUp
<1> DEFINE Inv == TypeOK /\ (OverlapSkip => PileInv)
<1>1. Init => TypeOK
  BY InitType
<1>2. Init => Inv
  <2> SUFFICES ASSUME Init PROVE PileInv
    BY <1>1
  <2>1. Cardinality({}) = 0 /\ IsFiniteSet({}) /\ runs = {} /\ Automatic = {}
        /\ faults = 0 /\ pauses = 0 /\ paused = FALSE
    BY FS_EmptySet DEF Init, Automatic
  <2>2. Running(ctl) = {} /\ Slots(ctl) = {}
    BY DEF Init, Running, Slots, Room, Idle
  <2>3. Running(ctl) \ {lock} = {}
    BY <2>2
  <2>4. Sessions
    BY <2>1, <2>2, <2>3 DEF Sessions
  <2>5. Piles
    BY <2>1, <2>2, TicksAssumption DEF Piles
  <2> QED
    BY <1>1, <2>4, <2>5 DEF PileInv
<1>3. Inv /\ [Next]_vars => Inv'
  BY TypeStep, PileStep
<1>4. Inv => NoPileUp
  <2> SUFFICES ASSUME PileInv PROVE Cardinality(Automatic) <= Retain * (1 + faults + pauses)
    BY DEF NoPileUp
  <2>1. Cardinality(Automatic) \in Nat /\ faults \in Nat /\ pauses \in Nat
    BY AutomaticFinite DEF PileInv, Piles, TypeOK
  <2>2. Cardinality(Slots(ctl)) \in Nat
    BY <2>1, SlotsBounded DEF PileInv, Sessions
  <2>3. Retain * (1 + faults + pauses) \in Nat
    BY <2>1, TicksAssumption, Grown
  <2>4. Cardinality(Automatic) + Cardinality(Slots(ctl)) <= Retain * (1 + faults + pauses)
    BY DEF PileInv, Piles
  <2> QED
    BY <2>1, <2>2, <2>3, <2>4
<1> QED
  BY <1>2, <1>3, <1>4, PTL DEF Spec
=============================================================================
