---------------------------- MODULE ResourceLocks ----------------------------
(***************************************************************************)
(* Locks on warehouse targets (engine/resource_locks.py).  A lock is a row *)
(* with a lease.  Whoever writes to a target holds its row; a watchdog     *)
(* kills the process that cannot renew in time.  A row whose lease or      *)
(* whose attempt has lapsed is stale: a waiter may take it, but only after *)
(* it stopped what the holder still runs in the warehouse.                 *)
(*                                                                         *)
(* Timers count down to their instant, at one rate everywhere.  A request  *)
(* reaches the database at once; answers are late.  A watchdog is at most  *)
(* Grace late.                                                             *)
(***************************************************************************)
EXTENDS Integers

CONSTANTS
    Keys,       \* the resources
    Actions,    \* holders that are no attempt, such as the retention of a table
    Children,   \* attempts in a local process, each key set taken at once
    Agents,     \* attempts in the child of an agent, which takes one key
    Wants,      \* the keys of a holder
    Repeat,     \* holders that ask again after a release
    None,       \* no holder
    Lease,      \* LEASE_SECONDS
    Margin,     \* FENCE_MARGIN_SECONDS
    Grace       \* how late a watchdog is at most

Holders == Actions \cup Children \cup Agents
Attempts == Children \cup Agents

ASSUME LocksAssumption ==
    /\ Lease \in Nat /\ Margin \in Nat /\ Grace \in Nat
    /\ Grace < Margin
    /\ Margin < Lease
    /\ None \notin Holders \cup [key : Keys, holder : Holders]
    /\ Actions \cap Attempts = {}
    /\ Children \cap Agents = {}
    /\ Wants \in [Holders -> SUBSET Keys]
    /\ \A h \in Agents : \A j, k \in Wants[h] : j = k
    /\ Repeat \subseteq Holders

VARIABLES
    row,        \* AUD_RESOURCE_LOCKS: holder and rest of the lease
    att,        \* the rest of an attempt's own lease, 0 once it ended
    at,         \* where a holder's process is
    until,      \* the rest to its deadline
    offer,      \* the deadline in the one answer to a renewal that is on its way
    asked,      \* the missing key a waiter looks at, and the holder it saw there
    memo,       \* _wait_resources' confirmed: the holder it stopped, per key
    writing     \* holders with a statement in the warehouse

vars == <<row, att, at, until, offer, asked, memo, writing>>

-----------------------------------------------------------------------------
Working == {"hold"}
Waiting == {"ask", "blocked", "confirm"}
Places == {"idle"} \cup Waiting \cup {"granted", "hold", "abandon", "release", "out"}

Deadlines == (0 - Grace)..(Lease - Margin)

Free == [holder |-> None, left |-> 0]

TypeOK ==
    /\ row \in [Keys -> [holder : Holders \cup {None}, left : 0..Lease]]
    /\ att \in [Attempts -> 0..Lease]
    /\ at \in [Holders -> Places]
    /\ until \in [Holders -> Deadlines]
    /\ offer \in [Holders -> SUBSET Deadlines]
    /\ asked \in [Holders -> [key : Keys, holder : Holders] \cup {None}]
    /\ \A h \in Holders : at[h] \in {"blocked", "confirm"} => asked[h] # None
    /\ memo \in [Holders -> [Keys -> Holders \cup {None}]]
    /\ writing \subseteq Holders

Least(m, n) == IF m <= n THEN m ELSE n
Most(m, n) == IF m >= n THEN m ELSE n

Nobody == [k \in Keys |-> None]

Init ==
    /\ row = [k \in Keys |-> Free]
    /\ att = [h \in Attempts |-> Lease]
    /\ at = [h \in Holders |-> "idle"]
    /\ until = [h \in Holders |-> Lease - Margin]
    /\ offer = [h \in Holders |-> {}]
    /\ asked = [h \in Holders |-> None]
    /\ memo = [h \in Holders |-> Nobody]
    /\ writing = {}

-----------------------------------------------------------------------------
(* The rows.                                                               *)

\* No attempt, or one that is CLAIMED or RUNNING with a lease.
Live(h) == h \in Attempts => att[h] > 0

\* What a lock or a renewal is given: an attempt's own lease is its limit.
Budget(h) == IF h \in Attempts THEN Least(att[h], Lease) ELSE Lease

\* Faulty Deadline: the process may run to the end of its lease.
DeadlineAtExpiry(budget) == budget

Deadline(budget) == Most(0 - Grace, budget - Margin)

Stale(k) == row[k].holder # None /\ (row[k].left = 0 \/ ~Live(row[k].holder))

Obtainable(h, k) ==
    \/ row[k] = Free
    \/ Stale(k) /\ row[k].holder = memo[h][k]

Missing(h) == {k \in Wants[h] : ~Obtainable(h, k)}

Owned(h) == {k \in Keys : row[k].holder = h}

\* The rows of h that a renewal finds.
Renewable(h) == {k \in Owned(h) : row[k].left > 0}

Extend(keys, budget) ==
    row' = [k \in Keys |-> IF k \in keys THEN [row[k] EXCEPT !.left = budget] ELSE row[k]]

Goes(h, place) == at' = [at EXCEPT ![h] = place]

\* What the process knew is gone; rows, leases and statements stay.
Dies(h) ==
    /\ Goes(h, "out")
    /\ until' = [until EXCEPT ![h] = 0 - Grace]
    /\ offer' = [offer EXCEPT ![h] = {}]
    /\ asked' = [asked EXCEPT ![h] = None]
    /\ memo' = [memo EXCEPT ![h] = Nobody]
    /\ UNCHANGED <<row, att, writing>>

-----------------------------------------------------------------------------
(* Waiting.                                                                *)

Request(h) ==
    /\ at[h] = "idle"
    /\ Goes(h, "ask")
    /\ UNCHANGED <<row, att, until, offer, asked, memo, writing>>

\* All rows, or a rollback and a look at one that is missing.  An agent's
\* deadline is that of its attempt.
Reserve(h) ==
    /\ at[h] = "ask"
    /\ Live(h)
    /\ \/ /\ Missing(h) = {}
          /\ row' = [k \in Keys |-> IF k \in Wants[h]
                                    THEN [holder |-> h, left |-> Budget(h)] ELSE row[k]]
          /\ until' = IF h \in Agents THEN until
                      ELSE [until EXCEPT ![h] = Deadline(Budget(h))]
          /\ Goes(h, "granted")
          /\ memo' = [memo EXCEPT ![h] = Nobody]
          /\ UNCHANGED asked
       \/ \E k \in Missing(h), g \in Holders :
              /\ row[k].holder = g
              /\ asked' = [asked EXCEPT ![h] = [key |-> k, holder |-> g]]
              /\ Goes(h, "blocked")
              /\ UNCHANGED <<row, until, memo>>
    /\ UNCHANGED <<att, offer, writing>>

\* fence: the attempt is lost.
Refused(h) ==
    /\ at[h] = "ask"
    /\ ~Live(h)
    /\ Dies(h)

\* The row is read again.  A stale holder is stopped once.
Inspect(h) ==
    /\ at[h] = "blocked"
    /\ LET k == asked[h].key
           g == row[k].holder
       IN IF Stale(k) /\ g # memo[h][k]
          THEN Goes(h, "confirm") /\ asked' = [asked EXCEPT ![h] = [key |-> k, holder |-> g]]
          ELSE Goes(h, "ask") /\ asked' = [asked EXCEPT ![h] = None]
    /\ UNCHANGED <<row, att, until, offer, memo, writing>>

\* Faulty Stopped: a cancel is sent and not awaited.
StopSent(g) == TRUE

\* stop_tagged and running_tagged = 0 for the tag of g.
Stopped(g) == g \notin writing

\* Faulty Remember: what was stopped is forgotten before the next request.
RememberNothing(h, k, g) == memo' = [memo EXCEPT ![h] = Nobody]

Remember(h, k, g) == memo' = [memo EXCEPT ![h][k] = g]

Confirm(h) ==
    /\ at[h] = "confirm"
    /\ Stopped(asked[h].holder)
    /\ Remember(h, asked[h].key, asked[h].holder)
    /\ Goes(h, "ask")
    /\ asked' = [asked EXCEPT ![h] = None]
    /\ UNCHANGED <<row, att, until, offer, writing>>

-----------------------------------------------------------------------------
(* Holding.                                                                *)

\* The watchdog runs before the work does.
Enter(h) ==
    /\ at[h] = "granted"
    /\ until[h] > 0 - Grace
    /\ Goes(h, "hold")
    /\ UNCHANGED <<row, att, until, offer, asked, memo, writing>>

Issue(h) ==
    /\ at[h] = "hold"
    /\ writing' = writing \cup {h}
    /\ UNCHANGED <<row, att, at, until, offer, asked, memo>>

\* It ends or is cancelled, whatever became of its process.
Finish(h) ==
    /\ h \in writing
    /\ writing' = writing \ {h}
    /\ UNCHANGED <<row, att, at, until, offer, asked, memo>>

Complete(h) ==
    /\ at[h] = "hold"
    /\ h \notin writing
    /\ Goes(h, "release")
    /\ offer' = [offer EXCEPT ![h] = IF h \in Agents THEN @ ELSE {}]
    /\ UNCHANGED <<row, att, until, asked, memo, writing>>

\* The work raises, maybe with a statement under way.
Fail(h) ==
    /\ at[h] = "hold"
    /\ Goes(h, "abandon")
    /\ offer' = [offer EXCEPT ![h] = IF h \in Agents THEN @ ELSE {}]
    /\ UNCHANGED <<row, att, until, asked, memo, writing>>

ConfirmOwn(h) ==
    /\ at[h] = "abandon"
    /\ Stopped(h)
    /\ Goes(h, "release")
    /\ UNCHANGED <<row, att, until, offer, asked, memo, writing>>

\* Faulty Dropped: the keys, whoever has them now.
DroppedByKey(h) == Wants[h]

Dropped(h) == Owned(h)

\* An agent's UNLOCK is fenced; what a fenced attempt leaves goes stale.
Release(h) ==
    /\ at[h] = "release"
    /\ h \in Agents => Live(h)
    /\ row' = [k \in Keys |-> IF k \in Dropped(h) THEN Free ELSE row[k]]
    /\ Goes(h, IF h \in Repeat THEN "idle" ELSE "out")
    /\ UNCHANGED <<att, until, offer, asked, memo, writing>>

-----------------------------------------------------------------------------
(* Leases.                                                                 *)

\* The heartbeat of a lock; the attempt's own lease is another one's to renew.
Beat(h) ==
    /\ h \notin Agents
    /\ at[h] = "hold"
    /\ until[h] > 0
    /\ Live(h)
    /\ Renewable(h) = Wants[h]
    /\ Extend(Wants[h], Budget(h))
    /\ offer' = [offer EXCEPT ![h] = {Deadline(Budget(h))}]
    /\ UNCHANGED <<att, at, until, asked, memo, writing>>

\* An agent renews its attempts, and with each the rows that it has.
AgentBeat(h) ==
    /\ h \in Agents
    /\ at[h] # "out"
    /\ Live(h)
    /\ att' = [att EXCEPT ![h] = Lease]
    /\ Extend(Renewable(h), Lease)
    /\ offer' = [offer EXCEPT ![h] = {Deadline(Lease)}]
    /\ UNCHANGED <<at, until, asked, memo, writing>>

\* The supervisor of a local attempt renews its lease.
SupervisorBeat(h) ==
    /\ h \in Children
    /\ at[h] # "out"
    /\ Live(h)
    /\ att' = [att EXCEPT ![h] = Lease]
    /\ UNCHANGED <<row, at, until, offer, asked, memo, writing>>

Answer(h) ==
    /\ at[h] = "hold" \/ (h \in Agents /\ at[h] # "out")
    /\ \E deadline \in offer[h] : until' = [until EXCEPT ![h] = deadline]
    /\ offer' = [offer EXCEPT ![h] = {}]
    /\ UNCHANGED <<row, att, at, asked, memo, writing>>

\* A lock's watchdog covers the work, an agent's the whole process.
Watched(h) == at[h] = "hold" \/ (h \in Agents /\ at[h] # "out")

\* The process is past its deadline and still there.
Late(h) == Watched(h) /\ until[h] = 0 - Grace

Fence(h) ==
    /\ Watched(h)
    /\ \/ until[h] <= 0
       \/ h \notin Agents /\ ~(Live(h) /\ Renewable(h) = Wants[h])
    /\ Dies(h)

\* It dies, gives up waiting, or cannot confirm what it has to.
Leave(h) ==
    /\ at[h] # "out"
    /\ Dies(h)

\* Its ending is recorded once the process is gone.
AttemptEnds(h) ==
    /\ h \in Attempts
    /\ at[h] = "out"
    /\ att' = [att EXCEPT ![h] = 0]
    /\ UNCHANGED <<row, at, until, offer, asked, memo, writing>>

Tick ==
    /\ \A h \in Holders : ~Late(h)
    /\ row' = [k \in Keys |-> [row[k] EXCEPT !.left = Most(0, @ - 1)]]
    /\ att' = [h \in Attempts |-> Most(0, att[h] - 1)]
    /\ until' = [h \in Holders |-> Most(0 - Grace, until[h] - 1)]
    /\ offer' = [h \in Holders |-> {Most(0 - Grace, d - 1) : d \in offer[h]}]
    /\ UNCHANGED <<at, asked, memo, writing>>

-----------------------------------------------------------------------------
WaitStep(h) == Reserve(h) \/ Refused(h) \/ Inspect(h) \/ Confirm(h)

Step(h) ==
    \/ Request(h) \/ Reserve(h) \/ Refused(h) \/ Inspect(h) \/ Confirm(h)
    \/ Enter(h) \/ Issue(h) \/ Finish(h) \/ Complete(h) \/ Fail(h) \/ ConfirmOwn(h)
    \/ Release(h) \/ Beat(h) \/ AgentBeat(h) \/ SupervisorBeat(h) \/ Answer(h)
    \/ Fence(h) \/ Leave(h) \/ AttemptEnds(h)

Next == Tick \/ \E h \in Holders : Step(h)

\* Time passes, watchdogs are Grace late at most, statements end, and a
\* waiter tries again.
Fairness ==
    /\ WF_vars(Tick)
    /\ \A h \in Holders : WF_vars(Fence(h)) /\ WF_vars(Finish(h)) /\ WF_vars(WaitStep(h))

Spec == Init /\ [][Next]_vars /\ Fairness

-----------------------------------------------------------------------------
(* Properties.                                                             *)

\* A statement that a holder issued runs in the warehouse only while the rows
\* of all its keys are still that holder's: nobody else writes to the target,
\* even if the process died, stalled, or lost its leases.
WritersHoldTheirLocks ==
    \A h \in writing : \A k \in Wants[h] : row[k].holder = h

Abstract == INSTANCE ExclusiveOwners WITH
    owner <- [k \in Keys |-> row[k].holder],
    working <- {h \in Holders : at[h] \in Working}

\* The rows, the processes and their statements behave like exclusive owners:
\* a set is taken at once, and a key leaves a holder only when its process
\* works no more and its last statement has ended.
KeepsExclusion == Abstract!Init /\ [][Abstract!Next]_(Abstract!vars)

\* Nobody is left who could release what h waits for.
Abandoned(h) ==
    /\ at[h] \in Waiting
    /\ \A k \in Wants[h] : row[k] = Free \/ at[row[k].holder] = "out"

\* A waiter whose keys are free or left by dead processes gets its turn.
AbandonedLocksMove == \A h \in Holders : Abandoned(h) ~> ~Abandoned(h)

=============================================================================
