-------------------------- MODULE TimestampWindows --------------------------
(***************************************************************************)
(* The bounded timestamp cursor of a SQL reader over tables that other     *)
(* pipelines write (engine/timestamp_windows.py).                          *)
(*                                                                         *)
(* A source attempt stamps every row it writes with its recorded start, so *)
(* a row may become visible long after its stamp. A reader freezes a       *)
(* half-open window [low, high) of stamps before its SELECT, keeps it over *)
(* its retries, and moves the cursor to high only with its success. The    *)
(* model has the writing task runs and their attempts with the statements  *)
(* that outlive them, the evidence that fences them, the reader's task     *)
(* runs, the stored offset and the Engine DB's clock, which may go back.   *)
(***************************************************************************)
EXTENDS Integers

CONSTANTS
    Sources,      \* task runs of the pipelines in WATERMARK_SOURCE_PIPELINES
    Attempts,     \* attempts a source task run may have: 1..n
    Runs,         \* the reader's task runs
    NoRun,        \* no pending owner
    Start,        \* WATERMARK_START
    LastClock,    \* bound on the clock
    Batches,      \* bound on the statements an attempt commits
    Reads,        \* bound on the reader's attempts
    Setbacks,     \* bound on the times the clock goes back
    Resets        \* bound on the operator's resets of the cursor

ASSUME AttemptsAssumption == Attempts \subseteq Nat
ASSUME NoRunAssumption == NoRun \notin Runs
ASSUME BoundsAssumption ==
    /\ {Start, Batches, Reads, Setbacks, Resets} \subseteq Nat
    /\ LastClock \in Nat \ {0}

Writers == Sources \X Attempts
Times == 0 .. LastClock
Moments == 1 .. LastClock        \* what the clock shows; 0 is before any
Statuses == {"QUEUED", "RUNNING", "SUCCESS", "FAILED", "LOST"}
Kinds == {"PROCESS", "QUERIES"}
NoWindow == [low |-> -1, high |-> -1]
Windows == {NoWindow} \cup [low : Times, high : Moments]
Nothing == [w \in Writers |-> 0]

VARIABLES
    clock,        \* the Engine DB's clock
    status,       \* AUD_TASK_ATTEMPTS.STATUS of each source attempt
    started,      \* STARTED_AT, the stamp of the attempt's rows
    process,      \* the source attempts whose process runs
    query,        \* the source attempts with a statement in the warehouse
    acks,         \* AUD_ATTEMPT_ACKNOWLEDGEMENTS of each source attempt
    rows,         \* the batches each source attempt has committed
    holder,       \* the latest attempt of each source that held the target's lock
    offset,       \* the reader's row of AUD_TASK_OFFSET_TRACKER
    range,        \* WATERMARK_FROM and WATERMARK_TO of the reader's task runs
    reader,       \* the reader's running attempt
    delivered,    \* the batches of each attempt the successful reads have taken
    spent         \* how much of Reads, Setbacks and Resets is used

source == <<status, started, process, query, acks, rows, holder>>
cursor == <<offset, range, reader, delivered>>
vars == <<clock, source, cursor, spent>>

NoReader == [run |-> NoRun, started |-> 0, window |-> NoWindow, read |-> FALSE, seen |-> Nothing]

TypeOK ==
    /\ clock \in Moments
    /\ status \in [Writers -> Statuses]
    /\ started \in [Writers -> Times]
    /\ process \subseteq Writers
    /\ query \subseteq Writers
    /\ acks \in [Writers -> SUBSET Kinds]
    /\ rows \in [Writers -> 0 .. Batches]
    /\ holder \in [Sources -> Attempts \cup {0}]
    /\ offset \in [value : Nat, updated : Times, owner : Runs \cup {NoRun}, high : Times]
    /\ offset.owner = NoRun <=> offset.high = 0
    /\ range \in [Runs -> Windows]
    /\ reader \in [run : Runs \cup {NoRun}, started : Times, window : Windows,
                   read : BOOLEAN, seen : [Writers -> 0 .. Batches]]
    /\ delivered \in [Writers -> 0 .. Batches]
    /\ spent \in [reads : 0 .. Reads, setbacks : 0 .. Setbacks, resets : 0 .. Resets]

(* No offset is stored yet: its update time, 0, is before any clock. *)
Init ==
    /\ clock = 1
    /\ status = [w \in Writers |-> "QUEUED"]
    /\ started = [w \in Writers |-> 0]
    /\ process = {}
    /\ query = {}
    /\ acks = [w \in Writers |-> {}]
    /\ rows = Nothing
    /\ holder = [s \in Sources |-> 0]
    /\ offset = [value |-> Start, updated |-> 0, owner |-> NoRun, high |-> 0]
    /\ range = [r \in Runs |-> NoWindow]
    /\ reader = NoReader
    /\ delivered = Nothing
    /\ spent = [reads |-> 0, setbacks |-> 0, resets |-> 0]

-----------------------------------------------------------------------------
(* The clock. *)

Tick ==
    /\ clock < LastClock
    /\ clock' = clock + 1
    /\ UNCHANGED <<source, cursor, spent>>

(* A window whose owner was cancelled: frozen, neither pending nor behind *)
(* the offset's last write, so no row of the tracker remembers its high.  *)
Released(r) ==
    /\ range[r] # NoWindow
    /\ offset.owner # r
    /\ range[r].high > offset.updated

(* A failover or an operator sets the clock back, though not behind the    *)
(* high of a released window.  This is an assumption about the             *)
(* environment: the code would not notice, and the window of a reopened    *)
(* run would reach over the starts that follow.                            *)
SetBack(t) ==
    /\ t < clock
    /\ spent.setbacks < Setbacks
    /\ \A r \in Runs : Released(r) => range[r].high <= t
    /\ clock' = t
    /\ spent' = [spent EXCEPT !.setbacks = @ + 1]
    /\ UNCHANGED <<source, cursor>>

(* Faulty: a pending high is not a fence of the clock. *)
CheckedAgainstUpdates == offset.updated <= clock

(* checked_clock: refuse while the clock is behind the offset's last write *)
(* or a pending high. Each caller holds the fence until it commits.        *)
CheckedClock ==
    /\ offset.updated <= clock
    /\ offset.owner # NoRun => offset.high <= clock

-----------------------------------------------------------------------------
(* The source attempts. *)

Active(w) == status[w] = "RUNNING"
Earlier(w) == {<<w[1], n>> : n \in {m \in Attempts : m < w[2]}}
Later(w) == {<<w[1], n>> : n \in {m \in Attempts : m > w[2]}}

(* start_attempt: an attempt follows the ended ones, a retry a failure or a *)
(* loss, a rerun of the task also a success.                                *)
StartSource(w) ==
    /\ status[w] = "QUEUED"
    /\ \A e \in Earlier(w) : status[e] \notin {"QUEUED", "RUNNING"}
    /\ CheckedClock
    /\ status' = [status EXCEPT ![w] = "RUNNING"]
    /\ started' = [started EXCEPT ![w] = clock]
    /\ process' = process \cup {w}
    /\ UNCHANGED <<clock, query, acks, rows, holder, cursor, spent>>

(* A statement starts under the target's lock, which passes to a retry only *)
(* once the earlier attempts' statements have stopped (ResourceLocks). A    *)
(* lost attempt's process may not know of its loss.                         *)
Begin(w) ==
    /\ w \in process
    /\ status[w] \in {"RUNNING", "LOST"}
    /\ holder[w[1]] <= w[2]
    /\ \A n \in Attempts : <<w[1], n>> \notin query
    /\ rows[w] < Batches
    /\ query' = query \cup {w}
    /\ holder' = [holder EXCEPT ![w[1]] = w[2]]
    /\ UNCHANGED <<clock, status, started, process, acks, rows, cursor, spent>>

(* The warehouse commits a statement's rows. One that is undone leaves what *)
(* one that never began does.                                               *)
EndQuery(w) ==
    /\ w \in query
    /\ query' = query \ {w}
    /\ rows' = [rows EXCEPT ![w] = @ + 1]
    /\ UNCHANGED <<clock, status, started, process, acks, holder, cursor, spent>>

(* The handler returned, so its statements are over; it held the target's *)
(* lock for its whole work. The process does nothing after its outcome.   *)
Succeed(w) ==
    /\ w \in process
    /\ Active(w)
    /\ \A n \in Attempts : <<w[1], n>> \notin query
    /\ holder[w[1]] <= w[2]
    /\ status' = [status EXCEPT ![w] = "SUCCESS"]
    /\ process' = process \ {w}
    /\ holder' = [holder EXCEPT ![w[1]] = w[2]]
    /\ UNCHANGED <<clock, started, query, acks, rows, cursor, spent>>

(* The child records its failure, or the supervisor that of a child that *)
(* left none; a statement it sent may still run in the warehouse.        *)
Fail(w) ==
    /\ Active(w)
    /\ status' = [status EXCEPT ![w] = "FAILED"]
    /\ process' = process \ {w}
    /\ UNCHANGED <<clock, started, query, acks, rows, holder, cursor, spent>>

(* reconcile: the lease expired. Nothing else of the attempt has to end. *)
Lose(w) ==
    /\ Active(w)
    /\ status' = [status EXCEPT ![w] = "LOST"]
    /\ UNCHANGED <<clock, started, process, query, acks, rows, holder, cursor, spent>>

(* The process of a lost attempt ends; before the loss its end would only *)
(* bring the attempt's failure forward.                                   *)
Exit(w) ==
    /\ w \in process
    /\ status[w] = "LOST"
    /\ process' = process \ {w}
    /\ UNCHANGED <<clock, status, started, query, acks, rows, holder, cursor, spent>>

(* observe_exit: once the attempt ended and its process is seen gone, with *)
(* the queries' ending only when the warehouse shows none of its holder.   *)
(* A success needs no endings.                                             *)
Observe(w, kinds) ==
    /\ status[w] \in {"FAILED", "LOST"}
    /\ w \notin process
    /\ "QUERIES" \in kinds => w \notin query
    /\ ~(kinds \subseteq acks[w])
    /\ acks' = [acks EXCEPT ![w] = @ \cup kinds]
    /\ UNCHANGED <<clock, status, started, process, query, rows, holder, cursor, spent>>

-----------------------------------------------------------------------------
(* The reader. *)

Reading == reader.run # NoRun

StartReader(r) ==
    /\ ~Reading
    /\ spent.reads < Reads
    /\ CheckedClock
    /\ reader' = [NoReader EXCEPT !.run = r, !.started = clock]
    /\ spent' = [spent EXCEPT !.reads = @ + 1]
    /\ UNCHANGED <<clock, source, offset, range, delivered>>

(* Faulty: the process's ending alone settles an ended attempt. *)
UnsettledUntilExit(w) ==
    \/ Active(w)
    \/ /\ status[w] \in {"FAILED", "LOST"}
       /\ "PROCESS" \notin acks[w]
       /\ \A l \in Later(w) : status[l] # "SUCCESS"

(* window_sources: a running attempt, or one that ended in any other way *)
(* than success and has neither both endings nor a later success.        *)
Unsettled(w) ==
    \/ Active(w)
    \/ /\ status[w] \in {"FAILED", "LOST"}
       /\ acks[w] # Kinds
       /\ \A l \in Later(w) : status[l] # "SUCCESS"

Fences == {started[w] : w \in {v \in Writers : Unsettled(v)}}

(* The earliest of the reader's start, the clock and the sources' fences. *)
Bound(high) ==
    LET limits == {reader.started, clock} \cup Fences
    IN  high \in limits /\ \A t \in limits : high <= t

(* Faulty: a reopened run computes its window again. *)
FreshAgain(window) ==
    \E high \in Times :
        /\ Bound(high)
        /\ offset.value <= high
        /\ window = [low |-> offset.value, high |-> high]

(* The window a task run gets when no window is pending: its own frozen    *)
(* one, which the cursor has to be at an end of, or one from the cursor to *)
(* the bound. It is refused when the bound is behind the cursor.           *)
Fresh(window) ==
    \E high \in Times :
        /\ Bound(high)
        /\ offset.value <= high
        /\ IF range[reader.run] = NoWindow
           THEN window = [low |-> offset.value, high |-> high]
           ELSE /\ window = range[reader.run]
                /\ offset.value \in {window.low, window.high}

(* admit_window and record_watermark_range, in one transaction. The owner *)
(* of the pending window gets it again; any other run is refused.         *)
Admit ==
    /\ Reading
    /\ reader.window = NoWindow
    /\ CheckedClock
    /\ \E window \in Windows :
        /\ \/ /\ offset.owner = reader.run
              /\ window = [low |-> range[reader.run].low, high |-> offset.high]
              /\ offset' = offset
           \/ /\ offset.owner = NoRun
              /\ Fresh(window)
              /\ offset' = [offset EXCEPT !.owner = reader.run, !.high = window.high,
                                !.updated = IF @ = 0 THEN clock ELSE @]
        /\ range' = [range EXCEPT ![reader.run] = window]
        /\ reader' = [reader EXCEPT !.window = window]
    /\ UNCHANGED <<clock, source, delivered, spent>>

InWindow(t) == reader.window.low <= t /\ t < reader.window.high

(* The SELECT stages the rows of the window that are committed by now. *)
Read ==
    /\ reader.window # NoWindow
    /\ ~reader.read
    /\ reader' = [reader EXCEPT !.read = TRUE,
                      !.seen = [w \in Writers |-> IF InWindow(started[w]) THEN rows[w] ELSE 0]]
    /\ UNCHANGED <<clock, source, offset, range, delivered, spent>>

(* commit_task_offset refuses all but the pending owner with its high; the *)
(* offset's write and the attempt's success are one transaction.           *)
Commit ==
    /\ reader.read
    /\ offset.owner # NoRun => offset.owner = reader.run /\ offset.high = reader.window.high
    /\ CheckedClock
    /\ offset' = [value |-> reader.window.high, updated |-> clock, owner |-> NoRun, high |-> 0]
    /\ delivered' = [w \in Writers |-> IF InWindow(started[w]) THEN reader.seen[w]
                                                               ELSE delivered[w]]
    /\ reader' = NoReader
    /\ UNCHANGED <<clock, source, range, spent>>

(* The attempt fails, is refused or is lost: the pending window stays. *)
FailReader ==
    /\ Reading
    /\ reader' = NoReader
    /\ UNCHANGED <<clock, source, offset, range, delivered, spent>>

(* Faulty: the owner is cleared and its high stays. *)
ReleaseOwner ==
    /\ offset.owner # NoRun
    /\ reader.run # offset.owner
    /\ offset.high <= clock
    /\ offset' = [offset EXCEPT !.owner = NoRun]
    /\ UNCHANGED <<clock, source, range, reader, delivered, spent>>

(* window_release_scope: a stop or abort completed, every attempt of it    *)
(* ended.  The code makes no clock check here (control_flow.py:183); that  *)
(* a clock behind the pending high is restored before is the assumption of *)
(* SetBack, as the window is a released one from this step on.             *)
Release ==
    /\ offset.owner # NoRun
    /\ reader.run # offset.owner
    /\ offset.high <= clock
    /\ offset' = [offset EXCEPT !.owner = NoRun, !.high = 0]
    /\ UNCHANGED <<clock, source, range, reader, delivered, spent>>

(* reset_offset: to re-read from an earlier position. A later one would *)
(* leave rows out on purpose.                                           *)
Reset(v) ==
    /\ ~Reading
    /\ spent.resets < Resets
    /\ offset.owner = NoRun
    /\ v < offset.value
    /\ CheckedClock
    /\ offset' = [offset EXCEPT !.value = v, !.updated = clock]
    /\ spent' = [spent EXCEPT !.resets = @ + 1]
    /\ UNCHANGED <<clock, source, range, reader, delivered>>

-----------------------------------------------------------------------------
SourceStep(w) ==
    \/ StartSource(w)
    \/ Begin(w)
    \/ EndQuery(w)
    \/ Succeed(w)
    \/ Fail(w)
    \/ Lose(w)
    \/ Exit(w)
    \/ \E kinds \in {{"PROCESS"}, Kinds} : Observe(w, kinds)

ReaderStep ==
    \/ \E r \in Runs : StartReader(r)
    \/ Admit
    \/ Read
    \/ Commit
    \/ FailReader
    \/ Release
    \/ \E v \in Times : Reset(v)

Next ==
    \/ Tick
    \/ \E t \in Moments : SetBack(t)
    \/ \E w \in Writers : SourceStep(w)
    \/ ReaderStep

Spec == Init /\ [][Next]_vars

-----------------------------------------------------------------------------
(* No committed row is passed over: a row that was stamped at or after the  *)
(* first position and is behind the cursor was in a successful read,        *)
(* whenever its writer committed it (window_sources, checked_clock).        *)
NothingIsPassedOver ==
    \A w \in Writers :
        (Start <= started[w] /\ started[w] < offset.value) => delivered[w] = rows[w]

(* A reader that has read saw all its window will ever hold: whatever its   *)
(* retries or a rerun of the same window read, they read the same rows      *)
(* (docs/guides/sql-tasks.md:161-187, the frozen window).                   *)
WindowsAreClosed ==
    reader.read =>
        \A w \in Writers : InWindow(started[w]) => reader.seen[w] = rows[w]

(* A success moves the cursor over its own window and no further, and a     *)
(* window, once frozen, stays with its run: admit_window, commit_task_offset *)
(* and window_release_scope in any order, with resets between them.         *)
MovesOverItsWindow ==
    [][/\ \A r \in Runs : range[r] # NoWindow => range'[r] = range[r]
       /\ offset'.value > offset.value =>
            \E r \in Runs : offset.owner = r /\ range[r] = [low |-> offset.value,
                                                           high |-> offset'.value]]_vars

=============================================================================
