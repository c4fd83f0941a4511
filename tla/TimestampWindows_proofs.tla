----------------------- MODULE TimestampWindows_proofs -----------------------
(***************************************************************************)
(* Proofs about TimestampWindows: its types, that no committed row is      *)
(* passed over, that a window that was read is closed, and how the cursor  *)
(* moves. The argument is one inductive invariant, WindowInv. It rests on  *)
(* what SetBack and Release assume: the clock may go back, but not behind  *)
(* the high of a released window.                                          *)
(***************************************************************************)
EXTENDS TimestampWindows, TLAPS

(* What an attempt's status says of its process and statements. *)
AttemptsInOrder ==
    \A w \in Writers :
        /\ w \in process => status[w] \in {"RUNNING", "LOST"}
        /\ w \in query => /\ holder[w[1]] = w[2]
                          /\ status[w] # "QUEUED"
                          /\ rows[w] < Batches
        /\ status[w] = "QUEUED" => rows[w] = 0 /\ delivered[w] = 0
        /\ status[w] # "QUEUED" => started[w] > 0
        /\ status[w] = "SUCCESS" => w[2] <= holder[w[1]] /\ w \notin query

(* An acknowledged ending has happened. *)
EndingsAreTrue ==
    \A w \in Writers :
        /\ acks[w] # {} => w \notin process /\ status[w] \in {"FAILED", "LOST"}
        /\ "QUERIES" \in acks[w] => w \notin query

(* Each frozen high is behind the clock, or the tracker still refuses the *)
(* clock until it is.                                                     *)
HighsAreFenced ==
    \A r \in Runs :
        \/ range[r].high <= clock
        \/ range[r].high <= offset.updated
        \/ offset.owner # NoRun /\ range[r].high <= offset.high

(* The cursor is behind the last write, or still at its first position. *)
CursorIsBehind == offset.value <= offset.updated \/ offset.value <= Start

(* A pending window is the one its owner has frozen, from the cursor or, *)
(* in a rerun after its success, up to it.                               *)
PendingIsFrozen ==
    offset.owner # NoRun =>
        /\ range[offset.owner] # NoWindow
        /\ range[offset.owner].high = offset.high
        /\ offset.value \in {range[offset.owner].low, offset.high}

(* An admitted attempt reads its run's window, and the window is pending. *)
ReaderHoldsItsWindow ==
    /\ reader.run # NoRun => reader.started > 0
    /\ reader.read => reader.window # NoWindow
    /\ reader.window # NoWindow =>
        /\ reader.run # NoRun
        /\ offset.owner = reader.run
        /\ range[reader.run] = reader.window

(* No window and no cursor is over the start of an attempt that may write. *)
FencesHold ==
    \A w \in Writers : Unsettled(w) =>
        /\ \A r \in Runs : range[r].high <= started[w]
        /\ offset.value <= started[w] \/ offset.value <= Start

WindowInv ==
    /\ TypeOK
    /\ AttemptsInOrder
    /\ EndingsAreTrue
    /\ HighsAreFenced
    /\ CursorIsBehind
    /\ PendingIsFrozen
    /\ ReaderHoldsItsWindow
    /\ FencesHold
    /\ WindowsAreClosed
    /\ NothingIsPassedOver

-----------------------------------------------------------------------------
(* Facts about one state. *)

(* An attempt is a source task run and a number. *)
LEMMA WriterParts ==
    ASSUME NEW w \in Writers
    PROVE  /\ w[1] \in Sources
           /\ w[2] \in Attempts
           /\ w[2] \in Nat
           /\ w = <<w[1], w[2]>>
  <1>1. PICK s \in Sources, n \in Attempts : w = <<s, n>>
    BY DEF Writers
  <1> QED
    BY <1>1, AttemptsAssumption

(* The later attempts of an attempt's task run are attempts. *)
LEMMA LaterAreWriters ==
    ASSUME NEW w \in Writers, NEW l \in Later(w)
    PROVE  l \in Writers /\ l[1] = w[1] /\ w[2] < l[2]
  BY WriterParts DEF Writers, Later

(* A statement in the warehouse belongs to an attempt that still fences. *)
LEMMA QueriesAreFenced ==
    ASSUME WindowInv, NEW w \in query
    PROVE  w \in Writers /\ Unsettled(w)
  <1>1. w \in Writers
    BY DEF WindowInv, TypeOK
  <1>2. status[w] \in {"RUNNING", "FAILED", "LOST"}
    BY <1>1 DEF WindowInv, TypeOK, AttemptsInOrder, Statuses
  <1>3. acks[w] # Kinds
    BY <1>1 DEF WindowInv, EndingsAreTrue, Kinds
  <1>4. ASSUME NEW l \in Later(w), status[l] = "SUCCESS" PROVE FALSE
    <2>1. l \in Writers /\ l[1] = w[1] /\ w[2] < l[2]
      BY <1>1, LaterAreWriters
    <2>2. l[2] <= holder[l[1]]
      BY <1>4, <2>1 DEF WindowInv, AttemptsInOrder
    <2>3. holder[w[1]] = w[2]
      BY <1>1 DEF WindowInv, AttemptsInOrder
    <2> QED
      BY <1>1, <2>1, <2>2, <2>3, WriterParts
  <1> QED
    BY <1>1, <1>2, <1>3, <1>4 DEF Unsettled, Active

(* While the clock is not refused, no frozen high is after it. *)
LEMMA HighsAreBehind ==
    ASSUME WindowInv, CheckedClock, NEW r \in Runs
    PROVE  range[r].high <= clock
  <1>1. range[r].high \in Int
    BY DEF WindowInv, TypeOK, Windows, NoWindow, Moments
  <1>2. clock \in Int /\ offset.updated \in Int /\ offset.high \in Int
    BY DEF WindowInv, TypeOK, Moments, Times
  <1> QED
    BY <1>1, <1>2 DEF WindowInv, HighsAreFenced, CheckedClock

-----------------------------------------------------------------------------
THEOREM InvInit == Init => WindowInv
  <1> SUFFICES ASSUME Init PROVE WindowInv
    OBVIOUS
  <1>1. TypeOK
    BY BoundsAssumption
    DEF Init, TypeOK, Moments, Times, Statuses, Nothing, Windows, NoWindow, NoReader
  <1>2. reader = NoReader /\ ~reader.read /\ reader.window = NoWindow /\ reader.run = NoRun
    BY DEF Init, NoReader
  <1>3. \A w \in Writers : ~Unsettled(w) /\ status[w] = "QUEUED"
    BY DEF Init, Unsettled, Active
  <1>4. AttemptsInOrder /\ EndingsAreTrue
    BY DEF Init, AttemptsInOrder, EndingsAreTrue, Nothing
  <1>5. HighsAreFenced /\ CursorIsBehind /\ PendingIsFrozen
    BY BoundsAssumption DEF Init, HighsAreFenced, CursorIsBehind, PendingIsFrozen, NoWindow
  <1>6. ReaderHoldsItsWindow /\ WindowsAreClosed
    BY <1>2 DEF ReaderHoldsItsWindow, WindowsAreClosed
  <1>7. FencesHold
    BY <1>3 DEF FencesHold
  <1>8. NothingIsPassedOver
    BY DEF Init, NothingIsPassedOver, Nothing
  <1> QED
    BY <1>1, <1>4, <1>5, <1>6, <1>7, <1>8 DEF WindowInv

-----------------------------------------------------------------------------
(* A source's step leaves the clock and the cursor alone, so what it has to *)
(* preserve is about the attempts, their fences and the rows.               *)
LEMMA SourceStepSuffices ==
    ASSUME WindowInv,
           UNCHANGED <<clock, cursor, spent>>,
           TypeOK', AttemptsInOrder', EndingsAreTrue', FencesHold',
           WindowsAreClosed', NothingIsPassedOver'
    PROVE  WindowInv'
  <1>1. UNCHANGED <<clock, offset, range, reader, delivered, spent>>
    BY DEF cursor
  <1>2. HighsAreFenced' /\ CursorIsBehind' /\ PendingIsFrozen' /\ ReaderHoldsItsWindow'
    BY <1>1 DEF WindowInv, HighsAreFenced, CursorIsBehind, PendingIsFrozen, ReaderHoldsItsWindow
  <1> QED
    BY <1>2 DEF WindowInv

(* A step that starts no attempt and writes no row leaves the fences and *)
(* what was read as they are, if it makes no attempt unsettled.          *)
LEMMA QuietStepSuffices ==
    ASSUME WindowInv,
           UNCHANGED <<clock, started, rows, cursor, spent>>,
           \A v \in Writers : Unsettled(v)' => Unsettled(v),
           TypeOK', AttemptsInOrder', EndingsAreTrue'
    PROVE  WindowInv'
  <1>1. UNCHANGED <<clock, started, rows, offset, range, reader, delivered>>
    BY DEF cursor
  <1>2. FencesHold'
    BY <1>1 DEF WindowInv, FencesHold
  <1>3. WindowsAreClosed' /\ NothingIsPassedOver'
    BY <1>1 DEF WindowInv, WindowsAreClosed, NothingIsPassedOver, InWindow
  <1> QED
    BY <1>2, <1>3, SourceStepSuffices

LEMMA StartSourceStep ==
    ASSUME WindowInv, NEW w \in Writers, StartSource(w)
    PROVE  WindowInv'
  <1> USE DEF StartSource
  <1>1. /\ UNCHANGED <<clock, query, acks, rows, holder, offset, range, reader, delivered, spent>>
        /\ status' = [status EXCEPT ![w] = "RUNNING"]
        /\ started' = [started EXCEPT ![w] = clock]
        /\ process' = process \cup {w}
    BY DEF cursor
  <1>2. TypeOK'
    BY <1>1 DEF WindowInv, TypeOK, Statuses, Times, Moments
  <1>3. AttemptsInOrder'
    <2>1. TypeOK /\ AttemptsInOrder /\ clock > 0 /\ w \notin query
      BY DEF WindowInv, TypeOK, Moments, AttemptsInOrder
    <2> QED
      BY <1>1, <2>1 DEF AttemptsInOrder, TypeOK
  <1>4. EndingsAreTrue'
    BY <1>1 DEF WindowInv, TypeOK, EndingsAreTrue
  <1>5. clock \in Nat /\ started \in [Writers -> Times] /\ status \in [Writers -> Statuses]
    BY DEF WindowInv, TypeOK, Moments
  <1>6. offset.value <= clock \/ offset.value <= Start
    <2>1. offset.value \in Int /\ offset.updated \in Int
      BY DEF WindowInv, TypeOK, Times
    <2> QED
      BY <1>5, <2>1 DEF CheckedClock, WindowInv, CursorIsBehind
  <1>7. FencesHold'
    <2> SUFFICES ASSUME NEW v \in Writers, Unsettled(v)'
                 PROVE  /\ \A r \in Runs : range[r].high <= started'[v]
                        /\ offset.value <= started'[v] \/ offset.value <= Start
      BY <1>1 DEF FencesHold
    <2>1. CASE v = w
      BY <1>1, <1>5, <1>6, <2>1, HighsAreBehind
    <2>2. CASE v # w
      <3>1. status'[v] = status[v] /\ started'[v] = started[v]
        BY <1>1, <1>5, <2>2
      <3>2. \A l \in Later(v) : status'[l] # "SUCCESS" => status[l] # "SUCCESS"
        BY <1>1, <1>5, LaterAreWriters
      <3>3. Unsettled(v)
        BY <1>1, <3>1, <3>2 DEF Unsettled, Active, Later
      <3> QED
        BY <3>1, <3>3 DEF WindowInv, FencesHold
    <2> QED
      BY <2>1, <2>2
  <1>8. WindowsAreClosed'
    <2> SUFFICES ASSUME reader.read, NEW v \in Writers,
                        reader.window.low <= started'[v], started'[v] < reader.window.high
                 PROVE  reader.seen[v] = rows[v]
      BY <1>1 DEF WindowsAreClosed, InWindow
    <2>1. CASE v = w
      <3>1. reader.run \in Runs /\ range[reader.run] = reader.window
        BY DEF WindowInv, ReaderHoldsItsWindow, TypeOK
      <3>2. reader.window.high <= clock /\ reader.window.high \in Int
        BY <3>1, HighsAreBehind DEF WindowInv, TypeOK, Windows, NoWindow, Moments
      <3> QED
        BY <1>1, <1>5, <2>1, <3>2
    <2>2. CASE v # w
      BY <1>1, <1>5, <2>2 DEF WindowInv, WindowsAreClosed, InWindow
    <2> QED
      BY <2>1, <2>2
  <1>9. NothingIsPassedOver'
    <2> SUFFICES ASSUME NEW v \in Writers, Start <= started'[v], started'[v] < offset.value
                 PROVE  delivered[v] = rows[v]
      BY <1>1 DEF NothingIsPassedOver
    <2>1. CASE v = w
      <3>1. offset.value \in Int /\ Start \in Int
        BY BoundsAssumption DEF WindowInv, TypeOK
      <3> QED
        BY <1>1, <1>5, <1>6, <2>1, <3>1
    <2>2. CASE v # w
      BY <1>1, <1>5, <2>2 DEF WindowInv, NothingIsPassedOver
    <2> QED
      BY <2>1, <2>2
  <1> QED
    BY <1>2, <1>3, <1>4, <1>7, <1>8, <1>9, SourceStepSuffices

LEMMA BeginStep ==
    ASSUME WindowInv, NEW w \in Writers, Begin(w)
    PROVE  WindowInv'
  <1> USE DEF Begin
  <1>1. UNCHANGED <<clock, status, started, process, acks, rows, delivered>>
    BY DEF cursor
  <1>2. TypeOK'
    BY WriterParts DEF WindowInv, TypeOK, cursor
  <1>3. AttemptsInOrder'
    <2> SUFFICES ASSUME NEW v \in Writers
                 PROVE  /\ v \in query' => /\ holder'[v[1]] = v[2]
                                           /\ status[v] # "QUEUED"
                                           /\ rows[v] < Batches
                        /\ status[v] = "SUCCESS" => v[2] <= holder'[v[1]] /\ v \notin query'
      BY <1>1 DEF WindowInv, AttemptsInOrder
    <2>1. holder \in [Sources -> Attempts \cup {0}]
      BY DEF WindowInv, TypeOK
    <2>2. holder[v[1]] \in Nat /\ w[2] \in Nat /\ v[2] \in Nat
      BY <2>1, WriterParts, AttemptsAssumption
    <2>3. holder'[v[1]] = IF v[1] = w[1] THEN w[2] ELSE holder[v[1]]
      BY <2>1, WriterParts
    <2>4. CASE v = w
      BY <2>3, <2>4, WriterParts
    <2>5. CASE v # w
      <3>1. v \in query => v[1] # w[1]
        BY WriterParts
      <3>2. v \in query' => v \in query
        BY <2>5
      <3> QED
        BY <2>2, <2>3, <3>1, <3>2 DEF WindowInv, AttemptsInOrder
    <2> QED
      BY <2>4, <2>5
  <1>4. EndingsAreTrue'
    BY <1>1 DEF WindowInv, EndingsAreTrue
  <1>5. \A v \in Writers : Unsettled(v)' => Unsettled(v)
    BY <1>1 DEF Unsettled, Active, Later
  <1> QED
    BY <1>1, <1>2, <1>3, <1>4, <1>5, QuietStepSuffices

LEMMA EndQueryStep ==
    ASSUME WindowInv, NEW w \in Writers, EndQuery(w)
    PROVE  WindowInv'
  <1> USE DEF EndQuery
  <1>1. /\ UNCHANGED <<clock, status, started, process, acks, holder,
                       offset, range, reader, delivered, spent>>
        /\ w \in query
        /\ query' = query \ {w}
        /\ rows' = [rows EXCEPT ![w] = @ + 1]
    BY DEF cursor
  <1>2. /\ rows \in [Writers -> 0 .. Batches]
        /\ rows[w] < Batches
        /\ Batches \in Nat
        /\ status[w] # "QUEUED"
    BY BoundsAssumption DEF WindowInv, TypeOK, AttemptsInOrder
  <1>3. TypeOK'
    BY <1>1, <1>2 DEF WindowInv, TypeOK
  <1>4. AttemptsInOrder'
    BY <1>1, <1>2 DEF WindowInv, AttemptsInOrder
  <1>5. EndingsAreTrue'
    BY <1>1 DEF WindowInv, EndingsAreTrue
  <1>6. FencesHold'
    BY <1>1 DEF WindowInv, FencesHold, Unsettled, Active, Later
  <1>7. Unsettled(w)
    BY QueriesAreFenced
  <1>8. started[w] \in Int /\ offset.value \in Int /\ Start \in Int
    BY BoundsAssumption DEF WindowInv, TypeOK, Times
  <1>9. WindowsAreClosed'
    <2>1. ASSUME reader.read PROVE ~InWindow(started[w])
      <3>1. reader.run \in Runs /\ range[reader.run] = reader.window
        BY <2>1 DEF WindowInv, ReaderHoldsItsWindow, TypeOK
      <3>2. reader.window.high <= started[w] /\ reader.window.high \in Int
        BY <1>7, <3>1 DEF WindowInv, FencesHold, TypeOK, Windows, NoWindow, Moments
      <3> QED
        BY <1>8, <3>2 DEF InWindow
    <2> QED
      BY <1>1, <1>2, <2>1 DEF WindowInv, WindowsAreClosed, InWindow
  <1>10. NothingIsPassedOver'
    <2>1. ~(Start <= started[w] /\ started[w] < offset.value)
      BY <1>7, <1>8 DEF WindowInv, FencesHold
    <2> QED
      BY <1>1, <1>2, <2>1 DEF WindowInv, NothingIsPassedOver
  <1> QED
    BY <1>1, <1>3, <1>4, <1>5, <1>6, <1>9, <1>10, SourceStepSuffices DEF cursor

LEMMA SucceedStep ==
    ASSUME WindowInv, NEW w \in Writers, Succeed(w)
    PROVE  WindowInv'
  <1> USE DEF Succeed
  <1>1. /\ UNCHANGED <<clock, started, query, acks, rows, delivered>>
        /\ status \in [Writers -> Statuses]
        /\ holder \in [Sources -> Attempts \cup {0}]
    BY DEF cursor, WindowInv, TypeOK
  <1>2. TypeOK'
    BY <1>1, WriterParts DEF WindowInv, TypeOK, cursor, Statuses
  <1>3. AttemptsInOrder'
    <2> SUFFICES ASSUME NEW v \in Writers
                 PROVE  /\ v \in process' => status'[v] \in {"RUNNING", "LOST"}
                        /\ v \in query => /\ holder'[v[1]] = v[2]
                                          /\ status'[v] # "QUEUED"
                                          /\ rows[v] < Batches
                        /\ status'[v] = "QUEUED" => rows[v] = 0 /\ delivered[v] = 0
                        /\ status'[v] # "QUEUED" => started[v] > 0
                        /\ status'[v] = "SUCCESS" => v[2] <= holder'[v[1]] /\ v \notin query
      BY <1>1 DEF AttemptsInOrder
    <2>1. holder[v[1]] \in Nat /\ w[2] \in Nat /\ v[2] \in Nat
      BY <1>1, WriterParts, AttemptsAssumption
    <2>2. holder'[v[1]] = IF v[1] = w[1] THEN w[2] ELSE holder[v[1]]
      BY <1>1, WriterParts
    <2>3. v \in query => v[1] # w[1]
      BY WriterParts
    <2>4. CASE v = w
      BY <1>1, <2>1, <2>2, <2>3, <2>4 DEF WindowInv, AttemptsInOrder, Active
    <2>5. CASE v # w
      <3>1. status'[v] = status[v] /\ (v \in process' => v \in process)
        BY <1>1, <2>5
      <3> QED
        BY <2>1, <2>2, <2>3, <3>1 DEF WindowInv, AttemptsInOrder
    <2> QED
      BY <2>4, <2>5
  <1>4. EndingsAreTrue'
    BY <1>1 DEF WindowInv, EndingsAreTrue, Active
  <1>5. \A v \in Writers : Unsettled(v)' => Unsettled(v)
    <2> SUFFICES ASSUME NEW v \in Writers, Unsettled(v)' PROVE Unsettled(v)
      OBVIOUS
    <2>1. v # w
      BY <1>1 DEF Unsettled, Active
    <2>2. \A l \in Later(v) : status'[l] # "SUCCESS" => status[l] # "SUCCESS"
      BY <1>1, LaterAreWriters
    <2> QED
      BY <1>1, <2>1, <2>2 DEF Unsettled, Active, Later
  <1> QED
    BY <1>1, <1>2, <1>3, <1>4, <1>5, QuietStepSuffices

LEMMA EndingStep ==
    ASSUME WindowInv, NEW w \in Writers, Fail(w) \/ Lose(w)
    PROVE  WindowInv'
  <1>1. PICK ended \in {"FAILED", "LOST"} : status' = [status EXCEPT ![w] = ended]
    BY DEF Fail, Lose
  <1>2. /\ UNCHANGED <<clock, started, query, acks, rows, holder, cursor, spent, delivered>>
        /\ status[w] = "RUNNING"
        /\ process' \subseteq process
        /\ w \in process' => ended = "LOST"
        /\ status \in [Writers -> Statuses]
    BY <1>1 DEF Fail, Lose, Active, cursor, WindowInv, TypeOK
  <1>3. TypeOK'
    BY <1>1, <1>2 DEF WindowInv, TypeOK, cursor, Statuses
  <1>4. AttemptsInOrder' /\ EndingsAreTrue'
    BY <1>1, <1>2 DEF WindowInv, AttemptsInOrder, EndingsAreTrue
  <1>5. \A v \in Writers : Unsettled(v)' => Unsettled(v)
    <2> SUFFICES ASSUME NEW v \in Writers, Unsettled(v)' PROVE Unsettled(v)
      OBVIOUS
    <2>1. \A l \in Later(v) : status'[l] # "SUCCESS" => status[l] # "SUCCESS"
      BY <1>1, <1>2, LaterAreWriters
    <2> QED
      BY <1>1, <1>2, <2>1 DEF Unsettled, Active, Later
  <1> QED
    BY <1>2, <1>3, <1>4, <1>5, QuietStepSuffices

LEMMA ExitStep ==
    ASSUME WindowInv, NEW w \in Writers, Exit(w)
    PROVE  WindowInv'
  <1> USE DEF Exit
  <1>1. UNCHANGED <<clock, status, started, query, acks, rows, holder, delivered>>
    BY DEF cursor
  <1>2. TypeOK' /\ AttemptsInOrder' /\ EndingsAreTrue'
    BY <1>1 DEF WindowInv, TypeOK, AttemptsInOrder, EndingsAreTrue, cursor
  <1>3. \A v \in Writers : Unsettled(v)' => Unsettled(v)
    BY <1>1 DEF Unsettled, Active, Later
  <1> QED
    BY <1>1, <1>2, <1>3, QuietStepSuffices

LEMMA ObserveStep ==
    ASSUME WindowInv, NEW w \in Writers, NEW kinds \in {{"PROCESS"}, Kinds}, Observe(w, kinds)
    PROVE  WindowInv'
  <1> USE DEF Observe
  <1>1. /\ UNCHANGED <<clock, status, started, process, query, rows, holder, delivered>>
        /\ acks \in [Writers -> SUBSET Kinds]
        /\ kinds \subseteq Kinds
    BY DEF cursor, WindowInv, TypeOK, Kinds
  <1>2. TypeOK' /\ AttemptsInOrder'
    BY <1>1 DEF WindowInv, TypeOK, AttemptsInOrder, cursor
  <1>3. EndingsAreTrue'
    <2> SUFFICES ASSUME NEW v \in Writers
                 PROVE  /\ acks'[v] # {} => v \notin process /\ status[v] \in {"FAILED", "LOST"}
                        /\ "QUERIES" \in acks'[v] => v \notin query
      BY <1>1 DEF EndingsAreTrue
    <2>1. CASE v = w
      BY <1>1, <2>1 DEF WindowInv, EndingsAreTrue
    <2>2. CASE v # w
      BY <1>1, <2>2 DEF WindowInv, EndingsAreTrue
    <2> QED
      BY <2>1, <2>2
  <1>4. \A v \in Writers : Unsettled(v)' => Unsettled(v)
    <2> SUFFICES ASSUME NEW v \in Writers, Unsettled(v)', ~Active(v) PROVE acks[v] # Kinds
      BY <1>1 DEF Unsettled, Active, Later
    <2>1. acks'[v] # Kinds
      BY <1>1 DEF Unsettled, Active
    <2>2. acks[v] \subseteq acks'[v] /\ acks'[v] \subseteq Kinds
      BY <1>1
    <2> QED
      BY <2>1, <2>2
  <1> QED
    BY <1>1, <1>2, <1>3, <1>4, QuietStepSuffices

-----------------------------------------------------------------------------
(* A step of the clock or the reader leaves the attempts and fences alone. *)

LEMMA SourceUnchanged ==
    ASSUME WindowInv, UNCHANGED source,
           \A w \in Writers : status[w] = "QUEUED" => delivered'[w] = 0
    PROVE  /\ AttemptsInOrder' /\ EndingsAreTrue'
           /\ \A w \in Writers : Unsettled(w)' = Unsettled(w)
           /\ UNCHANGED <<status, started, process, query, acks, rows, holder>>
  <1>1. UNCHANGED <<status, started, process, query, acks, rows, holder>>
    BY DEF source
  <1> QED
    BY <1>1 DEF WindowInv, AttemptsInOrder, EndingsAreTrue, Unsettled, Active, Later

LEMMA TickStep ==
    ASSUME WindowInv, Tick
    PROVE  WindowInv'
  <1>1. /\ UNCHANGED <<source, offset, range, reader, delivered, spent>>
        /\ clock' = clock + 1 /\ clock < LastClock
    BY DEF Tick, cursor
  <1>2. \A w \in Writers : status[w] = "QUEUED" => delivered'[w] = 0
    BY <1>1 DEF WindowInv, AttemptsInOrder
  <1>3. UNCHANGED <<status, started, process, query, acks, rows, holder>>
    BY <1>1 DEF source
  <1>4. TypeOK'
    BY <1>1, <1>3, BoundsAssumption DEF WindowInv, TypeOK, Moments
  <1>5. HighsAreFenced'
    <2> SUFFICES ASSUME NEW r \in Runs
                 PROVE  \/ range[r].high <= clock + 1
                        \/ range[r].high <= offset.updated
                        \/ offset.owner # NoRun /\ range[r].high <= offset.high
      BY <1>1 DEF HighsAreFenced
    <2>1. range[r].high \in Int /\ clock \in Int
      BY DEF WindowInv, TypeOK, Windows, NoWindow, Moments
    <2> QED
      BY <2>1 DEF WindowInv, HighsAreFenced
  <1>6. CursorIsBehind' /\ PendingIsFrozen' /\ ReaderHoldsItsWindow'
    BY <1>1 DEF WindowInv, CursorIsBehind, PendingIsFrozen, ReaderHoldsItsWindow
  <1>7. FencesHold' /\ WindowsAreClosed' /\ NothingIsPassedOver'
    BY <1>1, <1>2, <1>3, SourceUnchanged
    DEF WindowInv, FencesHold, WindowsAreClosed, NothingIsPassedOver, InWindow
  <1> QED
    BY <1>1, <1>2, <1>4, <1>5, <1>6, <1>7, SourceUnchanged DEF WindowInv

LEMMA SetBackStep ==
    ASSUME WindowInv, NEW t \in Moments, SetBack(t)
    PROVE  WindowInv'
  <1>1. /\ UNCHANGED <<source, offset, range, reader, delivered>>
        /\ clock' = t
        /\ spent.setbacks < Setbacks
        /\ spent' = [spent EXCEPT !.setbacks = @ + 1]
    BY DEF SetBack, cursor
  <1>2. \A w \in Writers : status[w] = "QUEUED" => delivered'[w] = 0
    BY <1>1 DEF WindowInv, AttemptsInOrder
  <1>3. UNCHANGED <<status, started, process, query, acks, rows, holder>>
    BY <1>1 DEF source
  <1>4. TypeOK'
    BY <1>1, <1>3, BoundsAssumption DEF WindowInv, TypeOK
  <1>5. HighsAreFenced'
    <2> SUFFICES ASSUME NEW r \in Runs
                 PROVE  \/ range[r].high <= t
                        \/ range[r].high <= offset.updated
                        \/ offset.owner # NoRun /\ range[r].high <= offset.high
      BY <1>1 DEF HighsAreFenced
    <2>1. range[r].high \in Int /\ offset.updated \in Int /\ offset.high \in Int
      BY DEF WindowInv, TypeOK, Windows, NoWindow, Moments, Times
    <2>2. CASE range[r] = NoWindow
      BY <2>2 DEF NoWindow, Moments
    <2>3. CASE offset.owner = r
      <3>1. offset.owner # NoRun /\ range[r].high = offset.high
        BY <2>3, NoRunAssumption DEF WindowInv, PendingIsFrozen
      <3> QED
        BY <2>1, <3>1
    <2>4. CASE range[r] # NoWindow /\ offset.owner # r
      BY <2>1, <2>4 DEF SetBack, Released
    <2> QED
      BY <2>2, <2>3, <2>4
  <1>6. CursorIsBehind' /\ PendingIsFrozen' /\ ReaderHoldsItsWindow'
    BY <1>1 DEF WindowInv, CursorIsBehind, PendingIsFrozen, ReaderHoldsItsWindow
  <1>7. FencesHold' /\ WindowsAreClosed' /\ NothingIsPassedOver'
    BY <1>1, <1>2, <1>3, SourceUnchanged
    DEF WindowInv, FencesHold, WindowsAreClosed, NothingIsPassedOver, InWindow
  <1> QED
    BY <1>1, <1>2, <1>4, <1>5, <1>6, <1>7, SourceUnchanged DEF WindowInv

(* The steps that only replace the reader's attempt. *)
LEMMA ReaderStepSuffices ==
    ASSUME WindowInv,
           UNCHANGED <<clock, source, offset, range, delivered>>,
           TypeOK', ReaderHoldsItsWindow', WindowsAreClosed'
    PROVE  WindowInv'
  <1>1. \A w \in Writers : status[w] = "QUEUED" => delivered'[w] = 0
    BY DEF WindowInv, AttemptsInOrder
  <1>2. HighsAreFenced' /\ CursorIsBehind' /\ PendingIsFrozen'
    BY DEF WindowInv, HighsAreFenced, CursorIsBehind, PendingIsFrozen
  <1>3. FencesHold' /\ NothingIsPassedOver'
    BY <1>1, SourceUnchanged DEF WindowInv, FencesHold, NothingIsPassedOver
  <1> QED
    BY <1>1, <1>2, <1>3, SourceUnchanged DEF WindowInv

LEMMA StartReaderStep ==
    ASSUME WindowInv, NEW r \in Runs, StartReader(r)
    PROVE  WindowInv'
  <1>1. UNCHANGED <<clock, source, offset, range, delivered>>
    BY DEF StartReader
  <1>2. /\ reader'.run = r /\ reader'.started = clock
        /\ reader'.window = NoWindow /\ reader'.read = FALSE
    BY DEF StartReader, NoReader
  <1>3. clock \in Moments /\ clock > 0
    BY DEF WindowInv, TypeOK, Moments
  <1>4. TypeOK'
    <2>1. UNCHANGED <<status, started, process, query, acks, rows, holder>>
      BY <1>1 DEF source
    <2>2. reader' \in [run : Runs \cup {NoRun}, started : Times, window : Windows,
                       read : BOOLEAN, seen : [Writers -> 0 .. Batches]]
      <3>1. Nothing \in [Writers -> 0 .. Batches]
        BY BoundsAssumption DEF Nothing
      <3>2. reader' = [run |-> r, started |-> clock, window |-> NoWindow, read |-> FALSE,
                       seen |-> Nothing]
        BY DEF StartReader, NoReader
      <3>3. clock \in Times /\ NoWindow \in Windows
        BY <1>3 DEF Moments, Times, Windows
      <3> QED
        BY <3>1, <3>2, <3>3
    <2>3. spent' \in [reads : 0 .. Reads, setbacks : 0 .. Setbacks, resets : 0 .. Resets]
      BY BoundsAssumption DEF WindowInv, TypeOK, StartReader
    <2> QED
      BY <1>1, <2>1, <2>2, <2>3 DEF WindowInv, TypeOK
  <1>5. ReaderHoldsItsWindow'
    BY <1>2, <1>3 DEF ReaderHoldsItsWindow
  <1>6. WindowsAreClosed'
    BY <1>2 DEF WindowsAreClosed
  <1> QED
    BY <1>1, <1>4, <1>5, <1>6, ReaderStepSuffices

LEMMA ReadStep ==
    ASSUME WindowInv, Read
    PROVE  WindowInv'
  <1>1. UNCHANGED <<clock, source, offset, range, delivered, spent>>
    BY DEF Read
  <1>2. UNCHANGED <<status, started, process, query, acks, rows, holder>>
    BY <1>1 DEF source
  <1>3. /\ reader'.run = reader.run /\ reader'.started = reader.started
        /\ reader'.window = reader.window /\ reader'.read = TRUE
        /\ reader'.seen = [w \in Writers |-> IF InWindow(started[w]) THEN rows[w] ELSE 0]
        /\ reader.window # NoWindow
    BY DEF Read, WindowInv, TypeOK
  <1>4. TypeOK'
    <2>1. reader'.seen \in [Writers -> 0 .. Batches]
      BY <1>3, BoundsAssumption DEF WindowInv, TypeOK
    <2>2. reader' \in [run : Runs \cup {NoRun}, started : Times, window : Windows,
                       read : BOOLEAN, seen : [Writers -> 0 .. Batches]]
      BY <1>3, <2>1 DEF WindowInv, TypeOK, Read
    <2> QED
      BY <1>1, <1>2, <2>2 DEF WindowInv, TypeOK
  <1>5. ReaderHoldsItsWindow'
    BY <1>1, <1>3 DEF WindowInv, ReaderHoldsItsWindow
  <1>6. WindowsAreClosed'
    BY <1>2, <1>3 DEF WindowsAreClosed, InWindow
  <1> QED
    BY <1>1, <1>4, <1>5, <1>6, ReaderStepSuffices

LEMMA FailReaderStep ==
    ASSUME WindowInv, FailReader
    PROVE  WindowInv'
  <1>1. UNCHANGED <<clock, source, offset, range, delivered, spent>>
    BY DEF FailReader
  <1>2. /\ reader' = NoReader
        /\ reader'.run = NoRun /\ reader'.window = NoWindow /\ reader'.read = FALSE
    BY DEF FailReader, NoReader
  <1>3. TypeOK'
    <2>1. UNCHANGED <<status, started, process, query, acks, rows, holder>>
      BY <1>1 DEF source
    <2> QED
      BY <1>1, <1>2, <2>1, BoundsAssumption
      DEF WindowInv, TypeOK, NoReader, Nothing, Windows, Times
  <1>4. ReaderHoldsItsWindow' /\ WindowsAreClosed'
    BY <1>2 DEF ReaderHoldsItsWindow, WindowsAreClosed
  <1> QED
    BY <1>1, <1>3, <1>4, ReaderStepSuffices

LEMMA ReleaseStep ==
    ASSUME WindowInv, Release
    PROVE  WindowInv'
  <1>1. /\ UNCHANGED <<clock, source, range, reader, delivered, spent>>
        /\ offset' = [offset EXCEPT !.owner = NoRun, !.high = 0]
        /\ offset.owner # NoRun /\ reader.run # offset.owner /\ offset.high <= clock
    BY DEF Release
  <1>2. UNCHANGED <<status, started, process, query, acks, rows, holder>>
    BY <1>1 DEF source
  <1>3. /\ offset'.value = offset.value /\ offset'.updated = offset.updated
        /\ offset'.owner = NoRun /\ offset'.high = 0
    BY <1>1 DEF WindowInv, TypeOK
  <1>4. TypeOK'
    <2>1. offset' \in [value : Nat, updated : Times, owner : Runs \cup {NoRun}, high : Times]
      <3>1. offset \in [value : Nat, updated : Times, owner : Runs \cup {NoRun}, high : Times]
        BY DEF WindowInv, TypeOK
      <3>2. 0 \in Times
        BY BoundsAssumption DEF Times
      <3> QED
        BY <1>1, <3>1, <3>2
    <2> QED
      BY <1>1, <1>2, <1>3, <2>1 DEF WindowInv, TypeOK
  <1>5. HighsAreFenced'
    <2> SUFFICES ASSUME NEW r \in Runs
                 PROVE  range[r].high <= clock \/ range[r].high <= offset.updated
      BY <1>1, <1>3 DEF HighsAreFenced
    <2>1. range[r].high \in Int /\ clock \in Int /\ offset.high \in Int
      BY DEF WindowInv, TypeOK, Windows, NoWindow, Moments, Times
    <2> QED
      BY <1>1, <2>1 DEF WindowInv, HighsAreFenced
  <1>6. CursorIsBehind' /\ PendingIsFrozen'
    BY <1>3 DEF WindowInv, CursorIsBehind, PendingIsFrozen
  <1>7. reader.window = NoWindow /\ ~reader.read
    BY <1>1 DEF WindowInv, ReaderHoldsItsWindow
  <1>8. ReaderHoldsItsWindow' /\ WindowsAreClosed'
    BY <1>1, <1>7 DEF WindowInv, ReaderHoldsItsWindow, WindowsAreClosed
  <1>9. \A w \in Writers : status[w] = "QUEUED" => delivered'[w] = 0
    BY <1>1 DEF WindowInv, AttemptsInOrder
  <1>10. FencesHold' /\ NothingIsPassedOver'
    BY <1>1, <1>2, <1>3, <1>9, SourceUnchanged DEF WindowInv, FencesHold, NothingIsPassedOver
  <1> QED
    BY <1>1, <1>4, <1>5, <1>6, <1>8, <1>9, <1>10, SourceUnchanged DEF WindowInv

LEMMA ResetStep ==
    ASSUME WindowInv, NEW v \in Times, Reset(v)
    PROVE  WindowInv'
  <1>1. /\ UNCHANGED <<clock, source, range, reader, delivered>>
        /\ offset' = [offset EXCEPT !.value = v, !.updated = clock]
        /\ spent.resets < Resets
        /\ spent' = [spent EXCEPT !.resets = @ + 1]
        /\ reader.run = NoRun /\ offset.owner = NoRun /\ v < offset.value /\ CheckedClock
    BY DEF Reset, Reading
  <1>2. UNCHANGED <<status, started, process, query, acks, rows, holder>>
    BY <1>1 DEF source
  <1>3. /\ offset'.value = v /\ offset'.updated = clock
        /\ offset'.owner = offset.owner /\ offset'.high = offset.high
        /\ clock \in Moments /\ v \in Nat /\ offset.value \in Nat /\ Start \in Nat
    BY <1>1, BoundsAssumption DEF WindowInv, TypeOK, Times
  <1>4. TypeOK'
    <2>1. offset' \in [value : Nat, updated : Times, owner : Runs \cup {NoRun}, high : Times]
      <3>1. offset \in [value : Nat, updated : Times, owner : Runs \cup {NoRun}, high : Times]
        BY DEF WindowInv, TypeOK
      <3>2. clock \in Times
        BY <1>3 DEF Times, Moments
      <3> QED
        BY <1>1, <1>3, <3>1, <3>2
    <2>2. spent' \in [reads : 0 .. Reads, setbacks : 0 .. Setbacks, resets : 0 .. Resets]
      BY <1>1, BoundsAssumption DEF WindowInv, TypeOK
    <2> QED
      BY <1>1, <1>2, <1>3, <2>1, <2>2 DEF WindowInv, TypeOK
  <1>5. HighsAreFenced'
    BY <1>1, HighsAreBehind DEF HighsAreFenced
  <1>6. CursorIsBehind'
    <2>1. offset.updated <= clock /\ offset.updated \in Int /\ clock \in Int
      BY <1>1 DEF CheckedClock, WindowInv, TypeOK, Times, Moments
    <2> QED
      BY <1>1, <1>3, <2>1 DEF WindowInv, CursorIsBehind
  <1>7. PendingIsFrozen' /\ ReaderHoldsItsWindow' /\ WindowsAreClosed'
    BY <1>1, <1>3 DEF WindowInv, PendingIsFrozen, ReaderHoldsItsWindow, WindowsAreClosed
  <1>8. \A w \in Writers : status[w] = "QUEUED" => delivered'[w] = 0
    BY <1>1 DEF WindowInv, AttemptsInOrder
  <1>9. \A w \in Writers : started[w] \in Nat
    BY DEF WindowInv, TypeOK, Times
  <1>10. FencesHold'
    BY <1>1, <1>2, <1>3, <1>8, <1>9, SourceUnchanged DEF WindowInv, FencesHold
  <1>11. NothingIsPassedOver'
    BY <1>1, <1>2, <1>3, <1>9 DEF WindowInv, NothingIsPassedOver
  <1> QED
    BY <1>1, <1>4, <1>5, <1>6, <1>7, <1>8, <1>10, <1>11, SourceUnchanged DEF WindowInv

LEMMA CommitStep ==
    ASSUME WindowInv, Commit
    PROVE  WindowInv'
  <1> DEFINE run == reader.run
             window == reader.window
  <1>1. /\ UNCHANGED <<clock, source, range, spent>>
        /\ offset' = [value |-> window.high, updated |-> clock, owner |-> NoRun, high |-> 0]
        /\ delivered' = [w \in Writers |-> IF InWindow(started[w]) THEN reader.seen[w]
                                                                   ELSE delivered[w]]
        /\ reader' = NoReader
        /\ reader.read /\ CheckedClock
    BY DEF Commit
  <1>2. UNCHANGED <<status, started, process, query, acks, rows, holder>>
    BY <1>1 DEF source
  <1>3. /\ run \in Runs /\ window # NoWindow /\ window \in Windows
        /\ offset.owner = run /\ run # NoRun /\ range[run] = window
        /\ offset.high = window.high /\ offset.value \in {window.low, window.high}
    BY <1>1 DEF WindowInv, ReaderHoldsItsWindow, PendingIsFrozen, TypeOK
  <1>4. window.high \in Nat /\ window.low \in Nat /\ offset.value \in Nat /\ Start \in Nat
    BY <1>3, BoundsAssumption DEF WindowInv, TypeOK, Windows, Times, Moments
  <1>5. /\ offset'.value = window.high /\ offset'.updated = clock
        /\ offset'.owner = NoRun /\ offset'.high = 0 /\ clock \in Moments
    BY <1>1 DEF WindowInv, TypeOK
  <1>6. reader'.run = NoRun /\ reader'.window = NoWindow /\ reader'.read = FALSE
    BY <1>1 DEF NoReader
  <1>7. TypeOK'
    <2>1. delivered' \in [Writers -> 0 .. Batches]
      BY <1>1 DEF WindowInv, TypeOK
    <2>2. reader' \in [run : Runs \cup {NoRun}, started : Times, window : Windows,
                       read : BOOLEAN, seen : [Writers -> 0 .. Batches]]
      BY <1>1, BoundsAssumption DEF NoReader, Nothing, Windows, Times
    <2>3. offset' \in [value : Nat, updated : Times, owner : Runs \cup {NoRun}, high : Times]
      BY <1>1, <1>4, <1>5, BoundsAssumption DEF Times, Moments
    <2> QED
      BY <1>1, <1>2, <1>5, <2>1, <2>2, <2>3 DEF WindowInv, TypeOK
  <1>8. HighsAreFenced'
    BY <1>1, HighsAreBehind DEF HighsAreFenced
  <1>9. CursorIsBehind'
    BY <1>1, <1>3, <1>5, HighsAreBehind DEF CursorIsBehind
  <1>10. PendingIsFrozen' /\ ReaderHoldsItsWindow' /\ WindowsAreClosed'
    BY <1>5, <1>6 DEF PendingIsFrozen, ReaderHoldsItsWindow, WindowsAreClosed
  <1>11. \A w \in Writers : /\ started[w] \in Nat
                            /\ InWindow(started[w]) => reader.seen[w] = rows[w]
    BY <1>1 DEF WindowInv, TypeOK, Times, WindowsAreClosed
  <1>12. \A w \in Writers : status[w] = "QUEUED" => delivered'[w] = 0
    BY <1>1, <1>11 DEF WindowInv, AttemptsInOrder
  <1>13. FencesHold'
    BY <1>1, <1>2, <1>3, <1>5, <1>12, SourceUnchanged DEF WindowInv, FencesHold
  <1>14. NothingIsPassedOver'
    <2> SUFFICES ASSUME NEW w \in Writers, Start <= started[w], started[w] < window.high
                 PROVE  delivered'[w] = rows[w]
      BY <1>2, <1>5 DEF NothingIsPassedOver
    <2>1. CASE InWindow(started[w])
      BY <1>1, <1>11, <2>1
    <2>2. CASE ~InWindow(started[w])
      <3>1. started[w] < offset.value
        BY <1>3, <1>4, <1>11, <2>2 DEF InWindow
      <3> QED
        BY <1>1, <2>2, <3>1 DEF WindowInv, NothingIsPassedOver
    <2> QED
      BY <2>1, <2>2
  <1> QED
    BY <1>1, <1>7, <1>8, <1>9, <1>10, <1>12, <1>13, <1>14, SourceUnchanged DEF WindowInv

(* Whatever window is admitted, it is the run's own if it has one, and no *)
(* fence is before its high.                                              *)
LEMMA AdmittedWindow ==
    ASSUME WindowInv, Admit
    PROVE  \E window \in Windows :
              /\ reader' = [reader EXCEPT !.window = window]
              /\ range' = [range EXCEPT ![reader.run] = window]
              /\ \/ offset.owner = reader.run /\ offset' = offset
                 \/ /\ offset.owner = NoRun
                    /\ offset' = [offset EXCEPT !.owner = reader.run, !.high = window.high,
                                      !.updated = IF @ = 0 THEN clock ELSE @]
              /\ reader.run \in Runs /\ reader.run # NoRun /\ window # NoWindow
              /\ offset'.high = window.high
              /\ offset.value \in {window.low, window.high}
              /\ range[reader.run] # NoWindow => window = range[reader.run]
              /\ window.high <= clock
              /\ \A w \in Writers : Unsettled(w) => window.high <= started[w]
              /\ window.low \in Times /\ window.high \in Moments
              /\ offset.owner = NoRun => offset.value <= window.high \/ offset.value <= clock
  <1> DEFINE Shown(window) ==
              /\ reader.run \in Runs /\ reader.run # NoRun /\ window # NoWindow
              /\ offset'.high = window.high
              /\ offset.value \in {window.low, window.high}
              /\ range[reader.run] # NoWindow => window = range[reader.run]
              /\ window.high <= clock
              /\ \A w \in Writers : Unsettled(w) => window.high <= started[w]
              /\ window.low \in Times /\ window.high \in Moments
              /\ offset.owner = NoRun => offset.value <= window.high \/ offset.value <= clock
  <1>1. reader.run \in Runs /\ reader.run # NoRun /\ CheckedClock
    BY DEF Admit, Reading, WindowInv, TypeOK
  <1>2. PICK window \in Windows :
           /\ \/ /\ offset.owner = reader.run
                 /\ window = [low |-> range[reader.run].low, high |-> offset.high]
                 /\ offset' = offset
              \/ /\ offset.owner = NoRun
                 /\ Fresh(window)
                 /\ offset' = [offset EXCEPT !.owner = reader.run, !.high = window.high,
                                   !.updated = IF @ = 0 THEN clock ELSE @]
           /\ range' = [range EXCEPT ![reader.run] = window]
           /\ reader' = [reader EXCEPT !.window = window]
    BY DEF Admit
  <1>3. /\ range \in [Runs -> Windows] /\ clock \in Moments
        /\ \A w \in Writers : started[w] \in Nat
        /\ offset \in [value : Nat, updated : Times, owner : Runs \cup {NoRun}, high : Times]
    BY DEF WindowInv, TypeOK, Times
  <1>4. CASE offset.owner = reader.run
    <2>1. /\ offset' = offset
          /\ window = [low |-> range[reader.run].low, high |-> offset.high]
      BY <1>1, <1>2, <1>4
    <2>2. /\ range[reader.run] # NoWindow
          /\ range[reader.run].high = offset.high
          /\ offset.value \in {range[reader.run].low, offset.high}
      BY <1>1, <1>4 DEF WindowInv, PendingIsFrozen
    <2>3. window = range[reader.run]
      BY <1>1, <1>3, <2>1, <2>2 DEF Windows, NoWindow
    <2>4. Shown(window)
      BY <1>1, <1>3, <1>4, <2>1, <2>2, <2>3, HighsAreBehind
      DEF WindowInv, FencesHold, Windows
    <2> QED
      BY <1>2, <1>4, <2>1, <2>4
  <1>5. CASE offset.owner # reader.run
    <2>1. /\ offset.owner = NoRun /\ Fresh(window)
          /\ offset' = [offset EXCEPT !.owner = reader.run, !.high = window.high,
                            !.updated = IF @ = 0 THEN clock ELSE @]
      BY <1>2, <1>5
    <2>2. PICK high \in Times :
             /\ Bound(high)
             /\ offset.value <= high
             /\ IF range[reader.run] = NoWindow
                THEN window = [low |-> offset.value, high |-> high]
                ELSE /\ window = range[reader.run]
                     /\ offset.value \in {window.low, window.high}
      BY <2>1 DEF Fresh
    <2>3. high <= clock /\ \A w \in Writers : Unsettled(w) => high <= started[w]
      BY <2>2 DEF Bound, Fences
    <2>4. offset'.high = window.high
      BY <1>3, <2>1
    <2>5. CASE range[reader.run] = NoWindow
      <3>1. window = [low |-> offset.value, high |-> high]
        BY <2>2, <2>5
      <3>2. window # NoWindow /\ window.low = offset.value /\ window.high = high
        BY <1>3, <3>1 DEF NoWindow
      <3>3. window.low \in Times /\ window.high \in Moments
        BY <3>2 DEF Windows
      <3> QED
        BY <1>1, <1>2, <2>1, <2>2, <2>3, <2>4, <2>5, <3>2, <3>3
    <2>6. CASE range[reader.run] # NoWindow
      <3>1. window = range[reader.run] /\ offset.value \in {window.low, window.high}
        BY <2>2, <2>6
      <3>2. window.high <= clock /\ \A w \in Writers : Unsettled(w) => window.high <= started[w]
        BY <1>1, <3>1, HighsAreBehind DEF WindowInv, FencesHold
      <3>3. window.low \in Times /\ window.high \in Moments
        BY <1>3, <2>6, <3>1 DEF Windows
      <3>4. offset.value <= clock
        BY <1>3, <2>2, <2>3 DEF Moments, Times
      <3> QED
        BY <1>1, <1>2, <2>1, <2>4, <2>6, <3>1, <3>2, <3>3, <3>4
    <2> QED
      BY <2>5, <2>6
  <1> QED
    BY <1>4, <1>5

LEMMA AdmitStep ==
    ASSUME WindowInv, Admit
    PROVE  WindowInv'
  <1>1. UNCHANGED <<clock, source, delivered, spent>> /\ reader.window = NoWindow
    BY DEF Admit
  <1>2. UNCHANGED <<status, started, process, query, acks, rows, holder>>
    BY <1>1 DEF source
  <1>3. PICK window \in Windows :
          /\ reader' = [reader EXCEPT !.window = window]
          /\ range' = [range EXCEPT ![reader.run] = window]
          /\ \/ offset.owner = reader.run /\ offset' = offset
             \/ /\ offset.owner = NoRun
                /\ offset' = [offset EXCEPT !.owner = reader.run, !.high = window.high,
                                  !.updated = IF @ = 0 THEN clock ELSE @]
          /\ reader.run \in Runs /\ reader.run # NoRun /\ window # NoWindow
          /\ offset'.high = window.high
          /\ offset.value \in {window.low, window.high}
          /\ range[reader.run] # NoWindow => window = range[reader.run]
          /\ window.high <= clock
          /\ \A w \in Writers : Unsettled(w) => window.high <= started[w]
          /\ window.low \in Times /\ window.high \in Moments
          /\ offset.owner = NoRun => offset.value <= window.high \/ offset.value <= clock
    BY AdmittedWindow
  <1>4. /\ range \in [Runs -> Windows]
        /\ offset \in [value : Nat, updated : Times, owner : Runs \cup {NoRun}, high : Times]
        /\ reader \in [run : Runs \cup {NoRun}, started : Times, window : Windows,
                       read : BOOLEAN, seen : [Writers -> 0 .. Batches]]
        /\ clock \in Moments /\ clock \in Times /\ Moments \subseteq Times
    BY DEF WindowInv, TypeOK, Times, Moments
  <1>5. /\ offset' \in [value : Nat, updated : Times, owner : Runs \cup {NoRun}, high : Times]
        /\ offset'.value = offset.value
        /\ offset'.owner = reader.run
        /\ \/ offset'.updated = offset.updated
           \/ (offset.updated = 0 /\ offset'.updated = clock)
    <2>1. window.high \in Times
      BY <1>3, <1>4
    <2>2. CASE offset' = offset /\ offset.owner = reader.run
      <3>1. offset' \in [value : Nat, updated : Times, owner : Runs \cup {NoRun}, high : Times]
        BY <1>4, <2>2, Zenon
      <3> QED
        BY <2>2, <3>1
    <2>3. CASE offset' = [offset EXCEPT !.owner = reader.run, !.high = window.high,
                              !.updated = IF @ = 0 THEN clock ELSE @]
      <3>1. /\ offset'.value = offset.value /\ offset'.owner = reader.run
            /\ offset'.updated = IF offset.updated = 0 THEN clock ELSE offset.updated
        BY <1>4, <2>3
      <3>2. (IF offset.updated = 0 THEN clock ELSE offset.updated) \in Times
        BY <1>4
      <3>3. offset' = [value |-> offset.value, updated |-> offset'.updated,
                       owner |-> reader.run, high |-> window.high]
        BY <1>4, <2>3
      <3> QED
        <4>1. /\ offset.value \in Nat /\ offset'.updated \in Times
              /\ reader.run \in Runs \cup {NoRun}
          BY <1>3, <1>4, <3>1, <3>2
        <4>2. offset' \in [value : Nat, updated : Times, owner : Runs \cup {NoRun}, high : Times]
          BY <2>1, <3>3, <4>1
        <4> QED
          BY <3>1, <4>2
    <2> QED
      BY <1>3, <2>2, <2>3
  <1>6. /\ reader'.window = window /\ reader'.run = reader.run
        /\ reader'.started = reader.started /\ reader'.read = reader.read
    BY <1>3, <1>4
  <1>7. \A r \in Runs : range'[r] = IF r = reader.run THEN window ELSE range[r]
    BY <1>3, <1>4
  <1>8. TypeOK'
    <2>1. window.high # 0
      BY <1>3 DEF Moments
    <2>2. offset'.owner # NoRun /\ offset'.high # 0
      BY <1>3, <1>5, <2>1
    <2>3. range' \in [Runs -> Windows]
      BY <1>3, <1>4
    <2>4. reader' \in [run : Runs \cup {NoRun}, started : Times, window : Windows,
                       read : BOOLEAN, seen : [Writers -> 0 .. Batches]]
      BY <1>3, <1>4
    <2> QED
      BY <1>1, <1>2, <1>5, <2>2, <2>3, <2>4 DEF WindowInv, TypeOK
  <1>9. HighsAreFenced'
    <2> SUFFICES ASSUME NEW r \in Runs PROVE range'[r].high <= clock
      BY <1>1 DEF HighsAreFenced
    <2>1. CheckedClock
      BY DEF Admit
    <2> QED
      BY <1>3, <1>7, <2>1, HighsAreBehind
  <1>10. CursorIsBehind'
    <2>1. CASE offset'.updated = offset.updated
      BY <1>5, <2>1 DEF WindowInv, CursorIsBehind
    <2>2. CASE offset.updated = 0 /\ offset'.updated = clock
      <3>1. offset.value <= 0 \/ offset.value <= Start
        BY <2>2 DEF WindowInv, CursorIsBehind
      <3> QED
        BY <1>4, <1>5, <2>2, <3>1 DEF CursorIsBehind, Moments
    <2> QED
      BY <1>5, <2>1, <2>2
  <1>11. PendingIsFrozen'
    <2>1. range'[offset'.owner] = window
      BY <1>3, <1>5, <1>7
    <2> QED
      BY <1>3, <1>5, <2>1 DEF PendingIsFrozen
  <1>12. ~reader.read
    BY <1>1 DEF WindowInv, ReaderHoldsItsWindow
  <1>13. ReaderHoldsItsWindow'
    BY <1>3, <1>5, <1>6, <1>7, <1>12 DEF WindowInv, ReaderHoldsItsWindow
  <1>14. WindowsAreClosed'
    BY <1>6, <1>12 DEF WindowsAreClosed
  <1>15. \A w \in Writers : status[w] = "QUEUED" => delivered'[w] = 0
    BY <1>1 DEF WindowInv, AttemptsInOrder
  <1>16. FencesHold'
    BY <1>1, <1>2, <1>3, <1>5, <1>7, <1>15, SourceUnchanged DEF WindowInv, FencesHold
  <1>17. NothingIsPassedOver'
    BY <1>1, <1>2, <1>5 DEF WindowInv, NothingIsPassedOver
  <1> QED
    BY <1>1, <1>8, <1>9, <1>10, <1>11, <1>13, <1>14, <1>15, <1>16, <1>17, SourceUnchanged
    DEF WindowInv

-----------------------------------------------------------------------------
LEMMA StutterStep == WindowInv /\ UNCHANGED vars => WindowInv'
  BY DEF vars, source, cursor, WindowInv, TypeOK, AttemptsInOrder, EndingsAreTrue,
         HighsAreFenced, CursorIsBehind, PendingIsFrozen, ReaderHoldsItsWindow, FencesHold,
         WindowsAreClosed, NothingIsPassedOver, Unsettled, Active, Later, InWindow

THEOREM InvNext == WindowInv /\ [Next]_vars => WindowInv'
  <1> SUFFICES ASSUME WindowInv, [Next]_vars PROVE WindowInv'
    OBVIOUS
  <1>1. CASE UNCHANGED vars
    BY <1>1, StutterStep
  <1>2. CASE Tick
    BY <1>2, TickStep
  <1>3. CASE \E t \in Moments : SetBack(t)
    BY <1>3, SetBackStep
  <1>4. ASSUME NEW w \in Writers, SourceStep(w) PROVE WindowInv'
    BY <1>4, StartSourceStep, BeginStep, EndQueryStep, SucceedStep, EndingStep, ExitStep,
       ObserveStep DEF SourceStep
  <1>5. CASE ReaderStep
    BY <1>5, StartReaderStep, AdmitStep, ReadStep, CommitStep, FailReaderStep, ReleaseStep,
       ResetStep DEF ReaderStep
  <1> QED
    BY <1>1, <1>2, <1>3, <1>4, <1>5 DEF Next

(* The inductive invariant holds in every reachable state: the starts, the *)
(* clock's fence and the frozen windows of timestamp_windows.py together.  *)
THEOREM Invariant == Spec => []WindowInv
  BY InvInit, InvNext, PTL DEF Spec

(* Every variable keeps its type, and a pending high has an owner. *)
THEOREM TypeCorrect == Spec => []TypeOK
  <1>1. WindowInv => TypeOK
    BY DEF WindowInv
  <1> QED
    BY <1>1, Invariant, PTL

(* For any number of source pipelines, attempts and reader runs, no row    *)
(* that a source attempt commits, however late, is passed over, as long as *)
(* the clock does not go back behind the high of a released window         *)
(* (SetBack, Release).                                                     *)
THEOREM NothingPassedOver == Spec => []NothingIsPassedOver
  <1>1. WindowInv => NothingIsPassedOver
    BY DEF WindowInv
  <1> QED
    BY <1>1, Invariant, PTL

(* A window that an attempt has read gets no more rows, under the same     *)
(* assumption about the clock.                                             *)
THEOREM ReadWindowsClosed == Spec => []WindowsAreClosed
  <1>1. WindowInv => WindowsAreClosed
    BY DEF WindowInv
  <1> QED
    BY <1>1, Invariant, PTL

(* Only a reset moves the cursor back; a success moves it from the low of  *)
(* its run's window to the high, and no step changes a frozen window.      *)
THEOREM CursorMovesOverItsWindow == Spec => MovesOverItsWindow
  <1> DEFINE Moved ==
        /\ \A r \in Runs : range[r] # NoWindow => range'[r] = range[r]
        /\ offset'.value > offset.value =>
             \E r \in Runs : offset.owner = r /\ range[r] = [low |-> offset.value,
                                                            high |-> offset'.value]
  <1>1. ASSUME WindowInv, [Next]_vars PROVE Moved
    <2> USE <1>1
    <2>1. offset.value \in Nat /\ range \in [Runs -> Windows]
      BY DEF WindowInv, TypeOK
    <2>2. CASE UNCHANGED <<offset, range>>
      BY <2>1, <2>2
    <2>3. CASE Admit
      <3>1. PICK window \in Windows :
              /\ range' = [range EXCEPT ![reader.run] = window]
              /\ range[reader.run] # NoWindow => window = range[reader.run]
              /\ reader.run \in Runs
              /\ \/ offset' = offset
                 \/ offset' = [offset EXCEPT !.owner = reader.run, !.high = window.high,
                                   !.updated = IF @ = 0 THEN clock ELSE @]
        BY <2>3, AdmittedWindow
      <3>2. offset'.value = offset.value
        BY <3>1 DEF WindowInv, TypeOK
      <3> QED
        BY <2>1, <3>1, <3>2
    <2>4. CASE Commit
      <3>1. /\ offset'.value = reader.window.high
            /\ reader.read
            /\ UNCHANGED range
        BY <2>4 DEF Commit
      <3>2. /\ reader.run \in Runs /\ offset.owner = reader.run
            /\ range[reader.run] = reader.window /\ reader.window # NoWindow
            /\ reader.window \in Windows
            /\ offset.value \in {reader.window.low, reader.window.high}
        BY <3>1 DEF WindowInv, ReaderHoldsItsWindow, PendingIsFrozen, TypeOK
      <3>3. ASSUME offset'.value > offset.value
            PROVE  range[reader.run] = [low |-> offset.value, high |-> offset'.value]
        <4>1. offset.value = reader.window.low
          BY <2>1, <3>1, <3>2, <3>3
        <4> QED
          BY <3>1, <3>2, <4>1 DEF Windows
      <3> QED
        BY <3>1, <3>2, <3>3
    <2>5. CASE Release
      <3>1. offset'.value = offset.value /\ UNCHANGED range
        BY <2>5 DEF Release, WindowInv, TypeOK
      <3> QED
        BY <2>1, <3>1
    <2>6. ASSUME NEW v \in Times, Reset(v) PROVE Moved
      <3>1. offset'.value = v /\ v < offset.value /\ UNCHANGED range /\ v \in Nat
        BY <2>6 DEF Reset, WindowInv, TypeOK, Times
      <3> QED
        BY <2>1, <3>1
    <2>7. ASSUME NEW w \in Writers, SourceStep(w) PROVE UNCHANGED <<offset, range>>
      BY <2>7 DEF SourceStep, StartSource, Begin, EndQuery, Succeed, Fail, Lose, Exit, Observe,
                  cursor
    <2>8. CASE UNCHANGED vars
      BY <2>2, <2>8 DEF vars, cursor
    <2>9. CASE Tick \/ \E t \in Moments : SetBack(t)
      BY <2>2, <2>9 DEF Tick, SetBack, cursor
    <2>10. CASE ReaderStep
      <3>1. CASE (\E r \in Runs : StartReader(r)) \/ Read \/ FailReader
        BY <2>2, <3>1 DEF StartReader, Read, FailReader
      <3> QED
        BY <2>3, <2>4, <2>5, <2>6, <2>10, <3>1 DEF ReaderStep
    <2> QED
      BY <2>2, <2>7, <2>8, <2>9, <2>10 DEF Next
  <1>2. WindowInv /\ [Next]_vars => [Moved]_vars
    BY <1>1
  <1> QED
    BY <1>2, Invariant, PTL DEF Spec, MovesOverItsWindow
=============================================================================
