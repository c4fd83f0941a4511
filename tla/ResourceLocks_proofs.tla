------------------------ MODULE ResourceLocks_proofs ------------------------
(***************************************************************************)
(* Resource locks exclude, for every set of holders and keys, every lease  *)
(* and every margin longer than a watchdog's delay, provided that only the *)
(* attempts of agents ask again after a release.                           *)
(*                                                                         *)
(* A process that still may write has rows (and an attempt) that outlast   *)
(* its deadline by the margin, so a stale row belongs to a process that is *)
(* spent: it will never write again.  What a waiter remembers as stopped   *)
(* is spent and has no statement; that is what a lock passes on.           *)
(***************************************************************************)
EXTENDS ResourceLocks, TLAPS

\* The process is in its work, or can still get there.
Covered(h) ==
    \/ at[h] = "hold"
    \/ at[h] = "granted" /\ (h \in Agents \/ until[h] > 0 - Grace)

\* It will never work again.
Spent(h) ==
    \/ at[h] = "out"
    \/ /\ h \notin Agents
       /\ at[h] \in {"abandon", "release"} \/ (at[h] = "granted" /\ until[h] = 0 - Grace)

\* The rows of a covered process outlast its deadline, the present one and
\* the one on its way.
RowsCover(h) ==
    Covered(h) =>
        \A k \in Wants[h] :
            /\ row[k].holder = h
            /\ row[k].left >= until[h] + Margin
            /\ \A d \in offer[h] : row[k].left >= d + Margin

\* So does its attempt, which an agent's child depends on from the start.
AttemptCovers(h) ==
    h \in Attempts /\ (Covered(h) \/ (h \in Agents /\ at[h] # "out")) =>
        /\ att[h] >= until[h] + Margin
        /\ \A d \in offer[h] : att[h] >= d + Margin

OffersInOrder(h) ==
    /\ h \notin Agents /\ at[h] # "hold" => offer[h] = {}
    /\ at[h] # "out" => \A d \in offer[h] : d >= until[h]

Outlasts(h) == RowsCover(h) /\ AttemptCovers(h) /\ OffersInOrder(h)

\* A row belongs to a process that asked for it and was granted it, and an
\* agent's lapses with the attempt, not before.
RowInOrder(k) ==
    \A h \in Holders : row[k].holder = h =>
        /\ k \in Wants[h]
        /\ at[h] \notin {"idle"} \cup Waiting
        /\ h \in Agents => row[k].left >= att[h]

WritersStarted == \A h \in writing : at[h] \in {"hold", "abandon", "out"}

AskedIsSpent(h) == at[h] = "confirm" => Spent(asked[h].holder)

MemoIsSpent(h) ==
    \A k \in Keys : memo[h][k] # None => Spent(memo[h][k]) /\ memo[h][k] \notin writing

LockInv ==
    /\ TypeOK
    /\ \A h \in Holders : Outlasts(h) /\ AskedIsSpent(h) /\ MemoIsSpent(h)
    /\ \A k \in Keys : RowInOrder(k)
    /\ WritersStarted
    /\ WritersHoldTheirLocks

-----------------------------------------------------------------------------
(* Types.                                                                  *)

LEMMA NumberTypes ==
    /\ Lease \in Nat /\ Margin \in Nat /\ Grace \in Nat
    /\ Grace < Margin /\ Margin < Lease
    /\ \A b \in 0..Lease : Deadline(b) \in Deadlines
    /\ \A n \in 0..Lease : Most(0, n - 1) \in 0..Lease
    /\ \A d \in Deadlines : Most(0 - Grace, d - 1) \in Deadlines
    /\ Lease - Margin \in Deadlines
    /\ 0 - Grace \in Deadlines
    /\ Lease \in 0..Lease /\ 0 \in 0..Lease
  BY LocksAssumption DEF Deadline, Deadlines, Most

LEMMA BudgetType ==
    ASSUME TypeOK, NEW h \in Holders
    PROVE  Budget(h) \in 0..Lease /\ Deadline(Budget(h)) \in Deadlines
<1>1. h \in Attempts => att[h] \in 0..Lease
  BY DEF TypeOK
<1>2. Budget(h) \in 0..Lease
  BY <1>1, NumberTypes DEF Budget, Least
<1> QED
  BY <1>2, NumberTypes

LEMMA TypeInit == Init => TypeOK
<1> SUFFICES ASSUME Init PROVE TypeOK
  OBVIOUS
<1>1. row \in [Keys -> [holder : Holders \cup {None}, left : 0..Lease]]
  BY NumberTypes DEF Init, Free
<1>2. memo \in [Holders -> [Keys -> Holders \cup {None}]]
  BY DEF Init, Nobody
<1> QED
  BY <1>1, <1>2, NumberTypes DEF Init, TypeOK, Places

LEMMA TypeStep == TypeOK /\ [Next]_vars => TypeOK'
<1> SUFFICES ASSUME TypeOK, [Next]_vars PROVE TypeOK'
  OBVIOUS
<1> USE NumberTypes DEF TypeOK
<1>0. CASE UNCHANGED vars
  BY <1>0 DEF vars
<1>1. CASE Tick
  <2>1. row' \in [Keys -> [holder : Holders \cup {None}, left : 0..Lease]]
    BY <1>1 DEF Tick
  <2>2. offer' \in [Holders -> SUBSET Deadlines]
    BY <1>1 DEF Tick
  <2> QED
    BY <1>1, <2>1, <2>2 DEF Tick
<1>2. ASSUME NEW h \in Holders, Step(h) PROVE TypeOK'
  <2>0. Budget(h) \in 0..Lease /\ Deadline(Budget(h)) \in Deadlines
    BY BudgetType
  <2>d. ASSUME Dies(h) PROVE TypeOK'
    <3>1. Nobody \in [Keys -> Holders \cup {None}]
      BY DEF Nobody
    <3> QED
      BY <2>d, <3>1 DEF Dies, Goes, Places
  <2>1. CASE Request(h)
    BY <2>1 DEF Request, Goes, Places, Waiting
  <2>2. CASE Reserve(h)
    <3>1. CASE Missing(h) = {} /\ at' = [at EXCEPT ![h] = "granted"]
      <4>1. /\ row' = [k \in Keys |-> IF k \in Wants[h]
                                      THEN [holder |-> h, left |-> Budget(h)] ELSE row[k]]
            /\ until' = IF h \in Agents THEN until
                        ELSE [until EXCEPT ![h] = Deadline(Budget(h))]
            /\ memo' = [memo EXCEPT ![h] = Nobody]
            /\ UNCHANGED <<asked, att, offer, writing>>
        BY <2>2, <3>1 DEF Reserve
      <4>2. Nobody \in [Keys -> Holders \cup {None}]
        BY DEF Nobody
      <4>3. row' \in [Keys -> [holder : Holders \cup {None}, left : 0..Lease]]
        BY <2>0, <4>1
      <4>4. until' \in [Holders -> Deadlines]
        BY <2>0, <4>1
      <4> QED
        BY <3>1, <4>1, <4>2, <4>3, <4>4 DEF Places
    <3>2. ASSUME NEW k \in Missing(h), NEW g \in Holders,
                 asked' = [asked EXCEPT ![h] = [key |-> k, holder |-> g]],
                 Goes(h, "blocked"), UNCHANGED <<row, until, memo>>
          PROVE  TypeOK'
      <4>1. k \in Keys
        BY LocksAssumption DEF Missing
      <4> QED
        <5>1. [key |-> k, holder |-> g] \in [key : Keys, holder : Holders]
          BY <4>1
        <5>2. asked' \in [Holders -> [key : Keys, holder : Holders] \cup {None}]
          BY <3>2, <5>1
        <5>3. asked'[h] # None
          BY <3>2, <5>1, LocksAssumption
        <5>4. /\ at' = [at EXCEPT ![h] = "blocked"]
              /\ UNCHANGED <<row, att, until, offer, memo, writing>>
          BY <2>2, <3>2 DEF Reserve, Goes
        <5>5. \A g2 \in Holders : at'[g2] \in {"blocked", "confirm"} => asked'[g2] # None
          BY <3>2, <5>3, <5>4
        <5> QED
          BY <5>2, <5>4, <5>5 DEF Places, Waiting
    <3> QED
      BY <2>2, <3>1, <3>2 DEF Reserve, Goes
  <2>3. CASE Refused(h)
    BY <2>3, <2>d DEF Refused
  <2>4. CASE Inspect(h)
    <3>1. asked[h] \in [key : Keys, holder : Holders]
      BY <2>4 DEF Inspect
    <3>2. CASE /\ Stale(asked[h].key)
               /\ Goes(h, "confirm")
               /\ asked' = [asked EXCEPT ![h] = [key |-> asked[h].key,
                                                 holder |-> row[asked[h].key].holder]]
      <4>1. row[asked[h].key].holder \in Holders
        BY <3>1, <3>2 DEF Stale
      <4> QED
        <5>1. [key |-> asked[h].key, holder |-> row[asked[h].key].holder]
                  \in [key : Keys, holder : Holders]
          BY <3>1, <4>1
        <5>2. asked' \in [Holders -> [key : Keys, holder : Holders] \cup {None}]
          BY <3>2, <5>1
        <5>3. asked'[h] # None
          BY <3>2, <5>1, LocksAssumption
        <5> QED
          BY <2>4, <3>2, <5>2, <5>3 DEF Inspect, Goes, Places, Waiting
    <3>3. CASE Goes(h, "ask") /\ asked' = [asked EXCEPT ![h] = None]
      BY <2>4, <3>3 DEF Inspect, Goes, Places, Waiting
    <3> QED
      BY <2>4, <3>2, <3>3 DEF Inspect
  <2>5. CASE Confirm(h)
    <3>1. asked[h] \in [key : Keys, holder : Holders]
      BY <2>5 DEF Confirm
    <3> QED
      BY <2>5, <3>1 DEF Confirm, Remember, Goes, Places, Waiting
  <2>6. CASE Enter(h)
    BY <2>6 DEF Enter, Goes, Places
  <2>7. CASE Issue(h) \/ Finish(h)
    BY <2>7 DEF Issue, Finish
  <2>8. CASE Complete(h) \/ Fail(h)
    <3>1. offer' \in [Holders -> SUBSET Deadlines]
      BY <2>8 DEF Complete, Fail
    <3>2. /\ \/ at' = [at EXCEPT ![h] = "release"]
             \/ at' = [at EXCEPT ![h] = "abandon"]
          /\ UNCHANGED <<row, att, until, asked, memo, writing>>
      BY <2>8 DEF Complete, Fail, Goes
    <3> QED
      BY <3>1, <3>2 DEF Places
  <2>9. CASE ConfirmOwn(h)
    BY <2>9 DEF ConfirmOwn, Goes, Places
  <2>10. CASE Release(h)
    <3>1. row' \in [Keys -> [holder : Holders \cup {None}, left : 0..Lease]]
      BY <2>10 DEF Release, Free
    <3> QED
      BY <2>10, <3>1 DEF Release, Goes, Places
  <2>11. CASE Beat(h)
    <3>1. row' \in [Keys -> [holder : Holders \cup {None}, left : 0..Lease]]
      BY <2>0, <2>11 DEF Beat, Extend
    <3> QED
      BY <2>0, <2>11, <3>1 DEF Beat
  <2>12. CASE AgentBeat(h)
    <3>1. row' \in [Keys -> [holder : Holders \cup {None}, left : 0..Lease]]
      <4>1. row' = [k \in Keys |-> IF k \in Renewable(h)
                                   THEN [row[k] EXCEPT !.left = Lease] ELSE row[k]]
        BY <2>12 DEF AgentBeat, Extend
      <4> QED
        BY <4>1
    <3> QED
      BY <2>12, <3>1 DEF AgentBeat
  <2>13. CASE SupervisorBeat(h) \/ AttemptEnds(h)
    BY <2>13 DEF SupervisorBeat, AttemptEnds
  <2>14. CASE Answer(h)
    BY <2>14 DEF Answer
  <2>15. CASE Fence(h) \/ Leave(h)
    BY <2>15, <2>d DEF Fence, Leave
  <2> QED
    BY <1>2, <2>1, <2>2, <2>3, <2>4, <2>5, <2>6, <2>7, <2>8, <2>9, <2>10, <2>11, <2>12,
       <2>13, <2>14, <2>15 DEF Step
<1> QED
  BY <1>0, <1>1, <1>2 DEF Next

\* Rows, leases, deadlines and memories keep their types (TypeOK).
THEOREM TypeCorrect == Spec => []TypeOK
  BY TypeInit, TypeStep, PTL DEF Spec

-----------------------------------------------------------------------------
(* What the invariant says of a state.                                     *)

LEMMA Numbers ==
    ASSUME TypeOK, NEW h \in Holders
    PROVE  /\ until[h] \in Int /\ 0 - Grace <= until[h] /\ until[h] <= Lease - Margin
           /\ \A d \in offer[h] : d \in Int /\ 0 - Grace <= d /\ d <= Lease - Margin
           /\ h \in Attempts => att[h] \in Nat /\ att[h] <= Lease
           /\ \A k \in Keys : row[k].left \in Nat /\ row[k].left <= Lease
           /\ Wants[h] \subseteq Keys
  BY LocksAssumption DEF TypeOK, Deadlines

\* Whoever works, or is about to, has live rows.
LEMMA CoveredIsLive ==
    ASSUME LockInv, NEW h \in Holders, Covered(h), NEW k \in Wants[h]
    PROVE  row[k].holder = h /\ row[k].left > 0 /\ Live(h) /\ ~Stale(k)
<1>1. RowsCover(h) /\ AttemptCovers(h)
  BY DEF LockInv, Outlasts
<1>2. row[k].holder = h /\ row[k].left > 0
  BY <1>1, Numbers, LocksAssumption DEF LockInv, RowsCover
<1>3. Live(h)
  BY <1>1, Numbers, LocksAssumption DEF LockInv, AttemptCovers, Live
<1> QED
  BY <1>2, <1>3 DEF Stale

\* A stale row belongs to a process that will never work again.
LEMMA StaleIsSpent ==
    ASSUME LockInv, NEW k \in Keys, Stale(k)
    PROVE  row[k].holder \in Holders /\ Spent(row[k].holder)
<1> DEFINE g == row[k].holder
<1>1. g \in Holders
  BY DEF LockInv, TypeOK, Stale
<1>2. k \in Wants[g] /\ at[g] \notin {"idle"} \cup Waiting
  BY <1>1 DEF LockInv, RowInOrder
<1>3. ~Covered(g)
  BY <1>1, <1>2, CoveredIsLive
<1>4. CASE g \in Agents
  <2>1. att[g] \in Nat /\ row[k].left \in Nat /\ row[k].left >= att[g]
    BY <1>1, <1>4, Numbers DEF LockInv, RowInOrder, Attempts
  <2>2. att[g] = 0
    BY <1>4, <2>1 DEF Stale, Live, Attempts
  <2>3. at[g] = "out"
    <3>1. AttemptCovers(g)
      BY <1>1 DEF LockInv, Outlasts
    <3> QED
      BY <1>1, <1>4, <2>2, <3>1, Numbers, LocksAssumption DEF LockInv, AttemptCovers, Attempts
  <2> QED
    BY <1>1, <2>3 DEF Spent
<1>5. CASE g \notin Agents
  <2>1. at[g] \in {"granted", "hold", "abandon", "release", "out"}
    BY <1>1, <1>2 DEF LockInv, TypeOK, Places
  <2>2. at[g] = "granted" => until[g] = 0 - Grace
    BY <1>1, <1>3, Numbers, LocksAssumption DEF LockInv, Covered
  <2> QED
    BY <1>1, <1>3, <1>5, <2>1, <2>2 DEF Spent, Covered
<1> QED
  BY <1>4, <1>5

LEMMA SpentIsNotCovered ==
    ASSUME NEW h \in Holders, Spent(h)
    PROVE  ~Covered(h)
  BY LocksAssumption DEF Spent, Covered

\* What a waiter may take belongs to nobody, or to a process that is done.
LEMMA ObtainableIsDone ==
    ASSUME LockInv, NEW h \in Holders, NEW k \in Keys, Obtainable(h, k)
    PROVE  \/ row[k].holder = None
           \/ /\ row[k].holder \in Holders
              /\ Spent(row[k].holder)
              /\ row[k].holder \notin writing
  BY DEF LockInv, TypeOK, Obtainable, Free, Stale, MemoIsSpent

-----------------------------------------------------------------------------
(* Steps.                                                                  *)

\* Who is spent stays so, and has no further statement.
LEMMA SpentStays ==
    ASSUME LockInv, Repeat \subseteq Agents, [Next]_vars, NEW g \in Holders, Spent(g)
    PROVE  Spent(g)' /\ (g \notin writing => g \notin writing')
<1> USE DEF Spent
<1>t. TypeOK
  BY DEF LockInv
<1>0. CASE UNCHANGED vars
  BY <1>0 DEF vars
<1>1. CASE Tick
  <2>1. until[g] = 0 - Grace => until'[g] = 0 - Grace
    BY <1>1, LocksAssumption DEF Tick, Most
  <2> QED
    BY <1>1, <2>1 DEF Tick
<1>2. ASSUME NEW h \in Holders, Step(h) PROVE Spent(g)' /\ (g \notin writing => g \notin writing')
  <2>1. CASE h # g
    <3>1. /\ at'[g] = at[g]
          /\ until'[g] = until[g]
          /\ g \in writing' => g \in writing
      BY <1>2, <1>t, <2>1 DEF TypeOK, Step, Request, Reserve, Refused, Inspect, Confirm, Enter,
         Issue, Finish, Complete, Fail, ConfirmOwn, Release, Beat, AgentBeat, SupervisorBeat,
         Answer, Fence, Leave, AttemptEnds, Goes, Dies
    <3> QED
      BY <3>1
  <2>2. CASE h = g
    <3>1. ~Enter(g)
      BY LocksAssumption, <1>t DEF Enter
    <3>2. CASE Issue(g) \/ Finish(g)
      BY <3>2 DEF Issue, Finish
    <3>3. CASE Dies(g)
      BY <1>t, <3>3 DEF Dies, Goes, TypeOK
    <3>4. CASE ConfirmOwn(g)
      BY <1>t, <3>4 DEF ConfirmOwn, Goes, TypeOK
    <3>5. CASE Release(g)
      BY <1>t, <3>5 DEF Release, Goes, TypeOK
    <3>6. CASE UNCHANGED <<at, until, writing>>
      BY <3>6
    <3> QED
      BY <1>2, <2>2, <3>1, <3>2, <3>3, <3>4, <3>5, <3>6 DEF Step, Request, Reserve, Refused,
         Inspect, Confirm, Complete, Fail, Beat, AgentBeat, SupervisorBeat, Answer, Fence, Leave,
         AttemptEnds
  <2> QED
    BY <2>1, <2>2
<1> QED
  BY <1>0, <1>1, <1>2 DEF Next

\* Time passes for all alike, and stops for a process past its deadline.
LEMMA OutlastsTick ==
    ASSUME LockInv, Tick, NEW g \in Holders
    PROVE  Outlasts(g)'
<1>t. TypeOK
  BY DEF LockInv
<1>n. /\ until[g] \in Int /\ 0 - Grace <= until[g]
      /\ \A d \in offer[g] : d \in Int /\ 0 - Grace <= d
      /\ g \in Attempts => att[g] \in Nat
      /\ \A k \in Keys : row[k].left \in Nat
      /\ Wants[g] \subseteq Keys
  BY <1>t, Numbers
<1>o. Outlasts(g)
  BY DEF LockInv
<1>1. /\ at'[g] = at[g]
      /\ until'[g] = Most(0 - Grace, until[g] - 1)
      /\ offer'[g] = {Most(0 - Grace, d - 1) : d \in offer[g]}
      /\ g \in Attempts => att'[g] = Most(0, att[g] - 1)
      /\ \A k \in Keys : row'[k].holder = row[k].holder /\ row'[k].left = Most(0, row[k].left - 1)
  BY <1>t DEF Tick, TypeOK
<1>2. Watched(g) => until[g] > 0 - Grace
  BY <1>n, LocksAssumption DEF Tick, Late
<1>3. Covered(g)' => Covered(g)
  BY <1>1, <1>n, LocksAssumption DEF Covered, Most
<1>4. Covered(g)' \/ (g \in Agents /\ at[g] # "out") => until[g] > 0 - Grace /\ until'[g] = until[g] - 1
  <2>1. Covered(g)' \/ (g \in Agents /\ at[g] # "out") => until[g] > 0 - Grace
    BY <1>1, <1>2, <1>n, LocksAssumption DEF Covered, Most, Watched
  <2> QED
    BY <1>1, <1>n, <2>1, LocksAssumption DEF Most
<1>5. ASSUME NEW d \in offer'[g], Covered(g)' \/ (g \in Agents /\ at[g] # "out")
      PROVE  d + 1 \in offer[g] /\ d \in Int
  <2>1. PICK e \in offer[g] : d = Most(0 - Grace, e - 1)
    BY <1>1
  <2>2. e >= until[g]
    BY <1>o, <1>3, <1>5 DEF Outlasts, OffersInOrder, Covered
  <2> QED
    BY <1>4, <1>5, <1>n, <2>1, <2>2, LocksAssumption DEF Most
<1>6. RowsCover(g)'
  <2> SUFFICES ASSUME Covered(g)', NEW k \in Wants[g]
               PROVE  /\ row'[k].holder = g
                      /\ row'[k].left >= until'[g] + Margin
                      /\ \A d \in offer'[g] : row'[k].left >= d + Margin
    BY DEF RowsCover
  <2>1. /\ row[k].holder = g
        /\ row[k].left >= until[g] + Margin
        /\ \A d \in offer[g] : row[k].left >= d + Margin
    BY <1>o, <1>3 DEF Outlasts, RowsCover
  <2>2. ASSUME NEW d \in offer'[g] PROVE row'[k].left >= d + Margin
    <3>1. d \in Int /\ row[k].left >= d + 1 + Margin
      BY <1>5, <2>1
    <3> QED
      BY <1>1, <1>n, <3>1, LocksAssumption DEF Most
  <2> QED
    BY <1>1, <1>n, <1>4, <2>1, <2>2, LocksAssumption DEF Most
<1>7. AttemptCovers(g)'
  <2> SUFFICES ASSUME g \in Attempts, Covered(g)' \/ (g \in Agents /\ at[g] # "out")
               PROVE  /\ att'[g] >= until'[g] + Margin
                      /\ \A d \in offer'[g] : att'[g] >= d + Margin
    BY <1>1 DEF AttemptCovers
  <2>1. /\ att[g] >= until[g] + Margin
        /\ \A d \in offer[g] : att[g] >= d + Margin
    BY <1>o, <1>3 DEF Outlasts, AttemptCovers
  <2>2. ASSUME NEW d \in offer'[g] PROVE att'[g] >= d + Margin
    <3>1. d \in Int /\ att[g] >= d + 1 + Margin
      BY <1>5, <2>1
    <3> QED
      BY <1>1, <1>n, <3>1, LocksAssumption DEF Most
  <2> QED
    BY <1>1, <1>n, <1>4, <2>1, <2>2, LocksAssumption DEF Most
<1>8. OffersInOrder(g)'
  <2>1. g \notin Agents /\ at'[g] # "hold" => offer'[g] = {}
    BY <1>1, <1>o DEF Outlasts, OffersInOrder
  <2>2. ASSUME at'[g] # "out", NEW d \in offer'[g] PROVE d >= until'[g]
    <3>1. PICK e \in offer[g] : d = Most(0 - Grace, e - 1)
      BY <1>1
    <3>2. e >= until[g]
      BY <1>1, <1>o, <2>2 DEF Outlasts, OffersInOrder
    <3> QED
      BY <1>1, <1>n, <3>1, <3>2, LocksAssumption DEF Most
  <2> QED
    BY <2>1, <2>2 DEF OffersInOrder
<1> QED
  BY <1>6, <1>7, <1>8 DEF Outlasts

\* The rows of a process that works, or is about to, are changed by itself only.
LEMMA OthersRows ==
    ASSUME LockInv, NEW h \in Holders, Step(h), NEW g \in Holders, g # h, Covered(g),
           NEW k \in Wants[g]
    PROVE  row'[k] = row[k]
<1>1. row[k].holder = g /\ ~Stale(k) /\ k \in Keys
  BY CoveredIsLive, LocksAssumption
<1>2. g # None /\ row[k] # Free
  BY <1>1, LocksAssumption DEF Free
<1>3. CASE Reserve(h)
  <2>1. ~Obtainable(h, k)
    BY <1>1, <1>2 DEF Obtainable
  <2> QED
    BY <1>1, <1>3, <2>1 DEF Reserve, Missing
<1>4. CASE Release(h)
  BY <1>1, <1>4 DEF Release, Dropped, Owned
<1>5. CASE Beat(h)
  BY <1>1, <1>5 DEF Beat, Extend, Renewable, Owned
<1>6. CASE AgentBeat(h)
  BY <1>1, <1>6 DEF AgentBeat, Extend, Renewable, Owned
<1>7. CASE UNCHANGED row
  BY <1>7
<1> QED
  BY <1>3, <1>4, <1>5, <1>6, <1>7 DEF Step, Request, Refused, Inspect, Confirm, Enter, Issue,
     Finish, Complete, Fail, ConfirmOwn, SupervisorBeat, Answer, Fence, Leave, AttemptEnds, Dies

LEMMA OutlastsOthers ==
    ASSUME LockInv, NEW h \in Holders, Step(h), NEW g \in Holders, g # h
    PROVE  Outlasts(g)'
<1>1. /\ at'[g] = at[g]
      /\ until'[g] = until[g]
      /\ offer'[g] = offer[g]
      /\ g \in Attempts => att'[g] = att[g]
  BY DEF LockInv, TypeOK, Step, Request, Reserve, Refused, Inspect, Confirm, Enter,
     Issue, Finish, Complete, Fail, ConfirmOwn, Release, Beat, AgentBeat, SupervisorBeat,
     Answer, Fence, Leave, AttemptEnds, Goes, Dies
<1>2. Covered(g)' <=> Covered(g)
  BY <1>1 DEF Covered
<1>3. Covered(g) => \A k \in Wants[g] : row'[k] = row[k]
  BY OthersRows
<1>4. Outlasts(g)
  BY DEF LockInv
<1>5. RowsCover(g)'
  BY <1>1, <1>2, <1>3, <1>4 DEF Outlasts, RowsCover
<1>6. AttemptCovers(g)'
  BY <1>1, <1>2, <1>4 DEF Outlasts, AttemptCovers
<1>7. OffersInOrder(g)'
  BY <1>1, <1>4 DEF Outlasts, OffersInOrder
<1> QED
  BY <1>5, <1>6, <1>7 DEF Outlasts

LEMMA OutlastsOwn ==
    ASSUME LockInv, NEW h \in Holders, Step(h)
    PROVE  Outlasts(h)'
<1>t. TypeOK /\ Outlasts(h)
  BY DEF LockInv
<1>n. /\ until[h] \in Int /\ 0 - Grace <= until[h] /\ until[h] <= Lease - Margin
      /\ \A d \in offer[h] : d \in Int /\ 0 - Grace <= d /\ d <= Lease - Margin
      /\ h \in Attempts => att[h] \in Nat /\ att[h] <= Lease
      /\ \A k \in Keys : row[k].left \in Nat /\ row[k].left <= Lease
      /\ Wants[h] \subseteq Keys
  BY <1>t, Numbers
<1> USE DEF Outlasts
\* Nothing of h changes but its place, which leads out of the work.
<1>1. CASE Request(h) \/ Inspect(h) \/ Confirm(h) \/ Complete(h) \/ Fail(h) \/ ConfirmOwn(h) \/ Release(h)
  <2>1. /\ at'[h] \in {"ask", "confirm", "release", "abandon", "idle", "out"}
        /\ at[h] # "out"
        /\ UNCHANGED <<att, until>>
        /\ offer'[h] = offer[h] \/ (h \notin Agents /\ offer'[h] = {})
        /\ h \in Agents => offer'[h] = offer[h]
    BY <1>1, <1>t DEF TypeOK, Request, Inspect, Confirm, Complete, Fail, ConfirmOwn, Release, Goes
  <2>2. h \notin Agents => offer'[h] = {}
    BY <1>1, <1>t DEF TypeOK, Request, Inspect, Confirm, Complete, Fail, ConfirmOwn, Release,
       OffersInOrder
  <2>3. ~Covered(h)'
    BY <2>1 DEF Covered
  <2>4. RowsCover(h)'
    BY <2>3 DEF RowsCover
  <2>5. AttemptCovers(h)'
    BY <1>t, <2>1, <2>3 DEF AttemptCovers
  <2>6. OffersInOrder(h)'
    BY <1>t, <2>1, <2>2 DEF OffersInOrder
  <2> QED
    BY <2>4, <2>5, <2>6
<1>2. CASE Dies(h)
  <2>1. at'[h] = "out" /\ offer'[h] = {}
    BY <1>2, <1>t DEF Dies, Goes, TypeOK
  <2> QED
    BY <2>1 DEF RowsCover, AttemptCovers, OffersInOrder, Covered
<1>3. CASE Issue(h) \/ Finish(h)
  <2>1. UNCHANGED <<row, att, at, until, offer>>
    BY <1>3 DEF Issue, Finish
  <2>2. Covered(h)' <=> Covered(h)
    BY <2>1 DEF Covered
  <2> QED
    BY <1>t, <2>1, <2>2 DEF RowsCover, AttemptCovers, OffersInOrder
<1>4. CASE Enter(h)
  <2>1. /\ at[h] = "granted" /\ at'[h] = "hold" /\ until[h] > 0 - Grace
        /\ UNCHANGED <<row, att, until, offer>>
    BY <1>4, <1>t DEF Enter, Goes, TypeOK
  <2>2. Covered(h)
    BY <2>1 DEF Covered
  <2> QED
    BY <1>t, <2>1, <2>2 DEF RowsCover, AttemptCovers, OffersInOrder
<1>5. CASE Reserve(h)
  <2>1. CASE at'[h] = "granted"
    <3>1. /\ at[h] = "ask" /\ Live(h)
          /\ row' = [k \in Keys |-> IF k \in Wants[h]
                                    THEN [holder |-> h, left |-> Budget(h)] ELSE row[k]]
          /\ until' = IF h \in Agents THEN until
                      ELSE [until EXCEPT ![h] = Deadline(Budget(h))]
          /\ UNCHANGED <<att, offer>>
      BY <1>5, <1>t, <2>1 DEF Reserve, Goes, TypeOK
    <3>2. \A k \in Wants[h] : row'[k].holder = h /\ row'[k].left = Budget(h)
      BY <1>n, <3>1
    <3>3. CASE h \in Agents
      <4>1. /\ att[h] >= until[h] + Margin
            /\ \A d \in offer[h] : att[h] >= d + Margin
        BY <1>t, <3>1, <3>3 DEF AttemptCovers, Attempts
      <4>2. Budget(h) = att[h]
        BY <1>n, <3>3, LocksAssumption DEF Budget, Least, Attempts
      <4> QED
        BY <1>t, <2>1, <3>1, <3>2, <3>3, <4>1, <4>2
           DEF RowsCover, AttemptCovers, OffersInOrder
    <3>4. CASE h \notin Agents
      <4>1. offer'[h] = {}
        BY <1>t, <3>1, <3>4 DEF OffersInOrder
      <4>2. until'[h] = Deadline(Budget(h))
        BY <1>t, <3>1, <3>4 DEF TypeOK
      <4>3. Budget(h) \in Nat /\ (h \in Attempts => att[h] >= Budget(h))
        BY <1>n, LocksAssumption DEF Budget, Least
      <4>4. until'[h] > 0 - Grace => Budget(h) >= until'[h] + Margin /\ until'[h] \in Int
        BY <4>2, <4>3, LocksAssumption DEF Deadline, Most
      <4>5. Covered(h)' => until'[h] > 0 - Grace
        BY <2>1, <3>4 DEF Covered
      <4>6. RowsCover(h)'
        BY <3>2, <4>1, <4>4, <4>5 DEF RowsCover
      <4>7. AttemptCovers(h)'
        BY <1>n, <3>1, <3>4, <4>1, <4>3, <4>4, <4>5, LocksAssumption DEF AttemptCovers
      <4>8. OffersInOrder(h)'
        BY <4>1 DEF OffersInOrder
      <4> QED
        BY <4>6, <4>7, <4>8
    <3> QED
      BY <3>3, <3>4
  <2>2. CASE at'[h] = "blocked" /\ UNCHANGED <<row, att, until, offer>>
    <3>1. at[h] = "ask"
      BY <1>5 DEF Reserve
    <3> QED
      BY <1>t, <2>2, <3>1 DEF RowsCover, AttemptCovers, OffersInOrder, Covered
  <2> QED
    BY <1>5, <1>t, <2>1, <2>2 DEF Reserve, Goes, TypeOK
<1>6. CASE Beat(h)
  <2>1. /\ h \notin Agents /\ at[h] = "hold" /\ until[h] > 0
        /\ UNCHANGED <<at, att, until>>
        /\ offer'[h] = {Deadline(Budget(h))}
        /\ \A k \in Wants[h] : row'[k].left = Budget(h) /\ row'[k].holder = row[k].holder
    BY <1>6, <1>n, <1>t DEF Beat, Extend, TypeOK
  <2>2. Covered(h)
    BY <2>1 DEF Covered
  <2>3. Budget(h) \in Nat /\ Budget(h) >= until[h] + Margin /\ (h \in Attempts => att[h] >= Budget(h))
    BY <1>n, <1>t, <2>2, LocksAssumption DEF Budget, Least, AttemptCovers
  <2>4. Deadline(Budget(h)) = Budget(h) - Margin
    BY <1>n, <2>1, <2>3, LocksAssumption DEF Deadline, Most
  <2>5. RowsCover(h)'
    BY <1>n, <1>t, <2>1, <2>2, <2>3, <2>4, LocksAssumption DEF RowsCover
  <2>6. AttemptCovers(h)'
    BY <1>n, <1>t, <2>1, <2>2, <2>3, <2>4, LocksAssumption DEF AttemptCovers
  <2>7. OffersInOrder(h)'
    BY <1>n, <2>1, <2>3, <2>4, LocksAssumption DEF OffersInOrder
  <2> QED
    BY <2>5, <2>6, <2>7
<1>7. CASE AgentBeat(h)
  <2>1. /\ h \in Agents /\ at[h] # "out"
        /\ UNCHANGED <<at, until>>
        /\ att'[h] = Lease
        /\ offer'[h] = {Deadline(Lease)}
        /\ row' = [k \in Keys |-> IF k \in Renewable(h)
                                  THEN [row[k] EXCEPT !.left = Lease] ELSE row[k]]
    BY <1>7, <1>t DEF AgentBeat, Extend, TypeOK, Attempts
  <2>2. Deadline(Lease) = Lease - Margin
    BY LocksAssumption DEF Deadline, Most
  <2>3. Covered(h)' <=> Covered(h)
    BY <2>1 DEF Covered
  <2>4. ASSUME Covered(h), NEW k \in Wants[h] PROVE row'[k].left = Lease /\ row'[k].holder = h
    <3>1. k \in Renewable(h)
      BY <1>n, <2>4, CoveredIsLive DEF Renewable, Owned
    <3> QED
      BY <1>n, <1>t, <2>1, <3>1 DEF TypeOK, Renewable, Owned
  <2>5. RowsCover(h)'
    BY <1>n, <2>1, <2>2, <2>3, <2>4, LocksAssumption DEF RowsCover
  <2>6. AttemptCovers(h)'
    BY <1>n, <2>1, <2>2, LocksAssumption DEF AttemptCovers
  <2>7. OffersInOrder(h)'
    BY <1>n, <2>1, <2>2 DEF OffersInOrder
  <2> QED
    BY <2>5, <2>6, <2>7
<1>8. CASE SupervisorBeat(h) \/ AttemptEnds(h)
  <2>1. UNCHANGED <<row, at, until, offer>>
    BY <1>8 DEF SupervisorBeat, AttemptEnds
  <2>2. Covered(h)' <=> Covered(h)
    BY <2>1 DEF Covered
  <2>3. AttemptCovers(h)'
    <3>1. CASE SupervisorBeat(h)
      <4>1. att'[h] = Lease
        BY <1>t, <3>1 DEF SupervisorBeat, TypeOK, Attempts
      <4> QED
        BY <1>n, <2>1, <4>1, LocksAssumption DEF AttemptCovers
    <3>2. CASE AttemptEnds(h)
      BY <2>1, <3>2 DEF AttemptEnds, AttemptCovers, Covered
    <3> QED
      BY <1>8, <3>1, <3>2
  <2> QED
    BY <1>t, <2>1, <2>2, <2>3 DEF RowsCover, OffersInOrder
<1>9. CASE Answer(h)
  <2>1. /\ UNCHANGED <<row, at, att>>
        /\ until'[h] \in offer[h]
        /\ offer'[h] = {}
        /\ at[h] = "hold" \/ (h \in Agents /\ at[h] # "out")
    BY <1>9, <1>t DEF Answer, TypeOK
  <2>2. Covered(h)' => Covered(h)
    BY <2>1 DEF Covered
  <2> QED
    BY <1>t, <2>1, <2>2 DEF RowsCover, AttemptCovers, OffersInOrder
<1> QED
  BY <1>1, <1>2, <1>3, <1>4, <1>5, <1>6, <1>7, <1>8, <1>9 DEF Step, Refused, Fence, Leave

LEMMA RowsStep ==
    ASSUME LockInv, TypeOK', [Next]_vars, NEW k \in Keys
    PROVE  RowInOrder(k)'
<1>t. TypeOK /\ RowInOrder(k)
  BY DEF LockInv
<1>0. CASE UNCHANGED vars
  BY <1>0, <1>t DEF vars, RowInOrder
<1> SUFFICES ASSUME NEW g \in Holders, row'[k].holder = g, Next
             PROVE  /\ k \in Wants[g]
                    /\ at'[g] \notin {"idle"} \cup Waiting
                    /\ g \in Agents => row'[k].left >= att'[g]
  BY <1>0 DEF RowInOrder
<1>1. CASE Tick
  <2>1. /\ row'[k].holder = row[k].holder /\ row'[k].left = Most(0, row[k].left - 1)
        /\ at'[g] = at[g]
        /\ g \in Agents => att'[g] = Most(0, att[g] - 1)
    BY <1>1, <1>t DEF Tick, TypeOK, Attempts
  <2>2. k \in Wants[g] /\ at[g] \notin {"idle"} \cup Waiting /\ (g \in Agents => row[k].left >= att[g])
    BY <1>t, <2>1 DEF RowInOrder
  <2>3. row[k].left \in Nat /\ (g \in Agents => att[g] \in Nat)
    BY <1>t, Numbers DEF Attempts
  <2> QED
    BY <2>1, <2>2, <2>3 DEF Most
<1>2. ASSUME NEW h \in Holders, Step(h)
      PROVE  /\ k \in Wants[g]
             /\ at'[g] \notin {"idle"} \cup Waiting
             /\ g \in Agents => row'[k].left >= att'[g]
  <2>n. /\ row[k].left \in Nat /\ row'[k].left \in Nat
        /\ h \in Attempts => att[h] \in Nat /\ att[h] <= Lease
    BY <1>t, Numbers DEF TypeOK
  <2>1. CASE row'[k].holder # row[k].holder
    <3>1. ~Release(h)
      BY <1>t, <2>1, LocksAssumption DEF Release, Free, TypeOK
    <3>2. Reserve(h) /\ k \in Wants[h] /\ g = h /\ Goes(h, "granted") /\ row'[k].left = Budget(h)
          /\ UNCHANGED att
      BY <1>2, <1>t, <2>1, <3>1 DEF TypeOK, Step, Request, Reserve, Refused, Inspect, Confirm, Enter,
         Issue, Finish, Complete, Fail, ConfirmOwn, Beat, AgentBeat, SupervisorBeat,
         Answer, Fence, Leave, AttemptEnds, Dies, Extend
    <3>3. g \in Agents => Budget(h) = att[h]
      BY <2>n, <3>2, LocksAssumption DEF Budget, Least, Attempts
    <3> QED
      BY <1>t, <2>n, <3>2, <3>3 DEF TypeOK, Goes, Waiting, Attempts
  <2>2. CASE row'[k].holder = row[k].holder
    <3>1. k \in Wants[g] /\ at[g] \notin {"idle"} \cup Waiting /\ (g \in Agents => row[k].left >= att[g])
      BY <1>t, <2>2 DEF RowInOrder
    <3>2. at'[g] \notin {"idle"} \cup Waiting
      <4>1. CASE g # h
        BY <1>2, <1>t, <3>1, <4>1 DEF TypeOK, Step, Request, Reserve, Refused, Inspect, Confirm,
           Enter, Issue, Finish, Complete, Fail, ConfirmOwn, Release, Beat, AgentBeat,
           SupervisorBeat, Answer, Fence, Leave, AttemptEnds, Dies, Goes
      <4>2. CASE g = h
        <5>1. ~Release(h)
          <6> SUFFICES ASSUME Release(h) PROVE FALSE
            OBVIOUS
          <6>1. k \in Dropped(h)
            BY <2>2, <4>2 DEF Dropped, Owned
          <6>2. row'[k].holder = None
            BY <6>1 DEF Release, Free
          <6> QED
            BY <6>2, LocksAssumption
        <5>2. ~Request(h) /\ ~Reserve(h) /\ ~Inspect(h) /\ ~Confirm(h)
          BY <3>1, <4>2 DEF Request, Reserve, Inspect, Confirm, Waiting
        <5> QED
          BY <1>2, <1>t, <3>1, <4>2, <5>1, <5>2 DEF TypeOK, Step, Refused, Enter, Issue, Finish,
             Complete, Fail, ConfirmOwn, Beat, AgentBeat, SupervisorBeat, Answer, Fence, Leave,
             AttemptEnds, Dies, Goes, Waiting
      <4> QED
        BY <4>1, <4>2
    <3>3. ASSUME g \in Agents PROVE row'[k].left >= att'[g]
      <4>a. g \in Attempts /\ att[g] \in Nat /\ row[k].left >= att[g]
        BY <1>t, <3>1, <3>3, Numbers DEF Attempts
      <4>1. CASE Reserve(h)
        <5>1. UNCHANGED att
          BY <4>1 DEF Reserve
        <5>2. CASE row'[k] = row[k]
          BY <3>1, <3>3, <5>1, <5>2
        <5>3. CASE row'[k] # row[k]
          <6>1. g = h /\ row'[k].left = Budget(h)
            BY <1>t, <4>1, <5>3 DEF Reserve, TypeOK
          <6>2. Budget(h) = att[h]
            BY <2>n, <3>3, <6>1, LocksAssumption DEF Budget, Least, Attempts
          <6> QED
            BY <4>a, <5>1, <6>1, <6>2
        <5> QED
          BY <5>2, <5>3
      <4>2. CASE Release(h)
        <5>1. row'[k] = row[k] /\ UNCHANGED att
          BY <1>t, <2>2, <4>2, LocksAssumption DEF Release, Free, TypeOK
        <5> QED
          BY <3>1, <3>3, <5>1
      <4>3. CASE Beat(h)
        <5>1. h \notin Agents /\ UNCHANGED att /\ Wants[h] \subseteq Owned(h)
          BY <4>3 DEF Beat, Renewable
        <5>2. row'[k] = row[k]
          BY <2>2, <3>3, <4>3, <5>1 DEF Beat, Extend, Owned
        <5> QED
          BY <3>1, <3>3, <5>1, <5>2
      <4>4. CASE AgentBeat(h)
        <5>1. CASE g = h
          <6>1. row[k].left > 0 /\ att'[g] = Lease
            BY <1>t, <2>n, <4>4, <4>a, <5>1 DEF AgentBeat, Live, TypeOK
          <6>2. row'[k].left = Lease
            BY <1>t, <2>2, <4>4, <5>1, <6>1 DEF AgentBeat, Extend, Renewable, Owned, TypeOK
          <6> QED
            BY <6>1, <6>2, LocksAssumption
        <5>2. CASE g # h
          BY <1>t, <2>2, <4>4, <4>a, <5>2 DEF AgentBeat, Extend, Renewable, Owned, TypeOK
        <5> QED
          BY <5>1, <5>2
      <4>5. CASE SupervisorBeat(h) \/ AttemptEnds(h)
        <5>1. UNCHANGED row /\ (h # g \/ att'[g] = 0)
          BY <1>t, <3>3, <4>5, LocksAssumption DEF SupervisorBeat, AttemptEnds, TypeOK, Attempts
        <5>2. h # g => att'[g] = att[g]
          BY <1>t, <4>5, <4>a DEF SupervisorBeat, AttemptEnds, TypeOK
        <5> QED
          BY <2>n, <3>1, <3>3, <5>1, <5>2
      <4>6. CASE UNCHANGED <<row, att>>
        BY <3>1, <3>3, <4>6
      <4> QED
        BY <1>2, <4>1, <4>2, <4>3, <4>4, <4>5, <4>6 DEF Step, Request, Refused, Inspect, Confirm,
           Enter, Issue, Finish, Complete, Fail, ConfirmOwn, Answer, Fence, Leave, Dies
    <3> QED
      BY <3>1, <3>2, <3>3
  <2> QED
    BY <2>1, <2>2
<1> QED
  BY <1>1, <1>2 DEF Next

\* What a waiter has seen stale, or stopped, is spent.
LEMMA SpentStep ==
    ASSUME LockInv, Repeat \subseteq Agents, [Next]_vars, NEW w \in Holders
    PROVE  AskedIsSpent(w)' /\ MemoIsSpent(w)'
<1>t. TypeOK /\ AskedIsSpent(w) /\ MemoIsSpent(w)
  BY DEF LockInv
<1>1. AskedIsSpent(w)'
  <2> SUFFICES ASSUME at'[w] = "confirm" PROVE \E g \in Holders : asked'[w].holder = g /\ Spent(g)'
    BY DEF AskedIsSpent, Spent
  <2>1. CASE at[w] = "confirm" /\ asked'[w] = asked[w]
    <3>1. asked[w].holder \in Holders
      BY <1>t, <2>1 DEF TypeOK
    <3>2. Spent(asked[w].holder)
      BY <1>t, <2>1 DEF AskedIsSpent
    <3> QED
      BY <2>1, <3>1, <3>2, SpentStays
  <2>2. CASE Inspect(w)
    <3>1. asked[w] \in [key : Keys, holder : Holders]
      BY <1>t, <2>2 DEF Inspect, TypeOK
    <3>2. /\ Stale(asked[w].key)
          /\ asked'[w].holder = row[asked[w].key].holder
      BY <1>t, <2>2 DEF Inspect, Goes, TypeOK
    <3>3. row[asked[w].key].holder \in Holders /\ Spent(row[asked[w].key].holder)
      BY <3>1, <3>2, StaleIsSpent
    <3> QED
      BY <3>2, <3>3, SpentStays
  <2>3. CASE UNCHANGED vars \/ Tick
    BY <2>1, <2>3 DEF vars, Tick
  <2>4. ASSUME NEW h \in Holders, Step(h) PROVE Inspect(w) \/ (at[w] = "confirm" /\ asked'[w] = asked[w])
    <3>1. CASE h # w
      BY <1>t, <2>4, <3>1 DEF TypeOK, Step, Request, Reserve, Refused, Inspect, Confirm,
         Enter, Issue, Finish, Complete, Fail, ConfirmOwn, Release, Beat, AgentBeat,
         SupervisorBeat, Answer, Fence, Leave, AttemptEnds, Dies, Goes
    <3>2. CASE h = w
      BY <1>t, <2>4, <3>2 DEF TypeOK, Step, Request, Reserve, Refused, Confirm,
         Enter, Issue, Finish, Complete, Fail, ConfirmOwn, Release, Beat, AgentBeat,
         SupervisorBeat, Answer, Fence, Leave, AttemptEnds, Dies, Goes
    <3> QED
      BY <3>1, <3>2
  <2> QED
    BY <2>1, <2>2, <2>3, <2>4 DEF Next
<1>2. MemoIsSpent(w)'
  <2> SUFFICES ASSUME NEW k \in Keys, memo'[w][k] # None
               PROVE  \E g \in Holders : memo'[w][k] = g /\ Spent(g)' /\ g \notin writing'
    BY DEF MemoIsSpent, Spent
  <2>1. CASE memo'[w][k] = memo[w][k]
    <3>1. memo[w][k] \in Holders
      BY <1>t, <2>1 DEF TypeOK
    <3>2. Spent(memo[w][k]) /\ memo[w][k] \notin writing
      BY <1>t, <2>1 DEF MemoIsSpent
    <3> QED
      BY <2>1, <3>1, <3>2, SpentStays
  <2>2. CASE Confirm(w) /\ memo'[w][k] = asked[w].holder
    <3>1. asked[w].holder \in Holders /\ at[w] = "confirm" /\ asked[w].holder \notin writing
      BY <1>t, <2>2 DEF Confirm, Stopped, TypeOK
    <3>2. Spent(asked[w].holder)
      BY <1>t, <3>1 DEF AskedIsSpent
    <3> QED
      BY <2>2, <3>1, <3>2, SpentStays
  <2>3. CASE UNCHANGED vars \/ Tick
    BY <2>1, <2>3 DEF vars, Tick
  <2>4. ASSUME NEW h \in Holders, Step(h)
        PROVE  memo'[w][k] = memo[w][k] \/ (Confirm(w) /\ memo'[w][k] = asked[w].holder)
    <3>1. CASE Confirm(h)
      BY <1>t, <3>1 DEF Confirm, Remember, TypeOK
    <3>2. CASE memo' = [memo EXCEPT ![h] = Nobody]
      BY <1>t, <3>2 DEF Nobody, TypeOK
    <3>3. CASE UNCHANGED memo
      BY <3>3
    <3> QED
      BY <2>4, <3>1, <3>2, <3>3 DEF Step, Request, Reserve, Refused, Inspect,
         Enter, Issue, Finish, Complete, Fail, ConfirmOwn, Release, Beat, AgentBeat,
         SupervisorBeat, Answer, Fence, Leave, AttemptEnds, Dies
  <2> QED
    BY <2>1, <2>2, <2>3, <2>4 DEF Next
<1> QED
  BY <1>1, <1>2

LEMMA WritersStep ==
    ASSUME LockInv, [Next]_vars
    PROVE  WritersStarted' /\ WritersHoldTheirLocks'
<1>t. TypeOK /\ WritersStarted /\ WritersHoldTheirLocks
  BY DEF LockInv
<1>0. CASE UNCHANGED vars
  BY <1>0, <1>t DEF vars, WritersStarted, WritersHoldTheirLocks
<1>1. CASE Tick
  <2>1. \A k \in Keys : row'[k].holder = row[k].holder
    BY <1>1, <1>t DEF Tick, TypeOK
  <2> QED
    BY <1>1, <1>t, <2>1, LocksAssumption DEF Tick, WritersStarted, WritersHoldTheirLocks, TypeOK
<1>2. ASSUME NEW h \in Holders, Step(h), NEW g \in writing'
      PROVE  /\ at'[g] \in {"hold", "abandon", "out"}
             /\ \A k \in Wants[g] : row'[k].holder = g
  <2>1. g \in Holders
    BY <1>2, <1>t DEF TypeOK, Step, Request, Reserve, Refused, Inspect, Confirm,
       Enter, Issue, Finish, Complete, Fail, ConfirmOwn, Release, Beat, AgentBeat,
       SupervisorBeat, Answer, Fence, Leave, AttemptEnds, Dies
  <2>2. CASE g \notin writing
    <3>1. g = h /\ Issue(h)
      BY <1>2, <2>2 DEF Step, Request, Reserve, Refused, Inspect, Confirm,
         Enter, Issue, Finish, Complete, Fail, ConfirmOwn, Release, Beat, AgentBeat,
         SupervisorBeat, Answer, Fence, Leave, AttemptEnds, Dies
    <3>2. Covered(g) /\ at[g] = "hold"
      BY <3>1 DEF Issue, Covered
    <3> QED
      BY <2>1, <3>1, <3>2, CoveredIsLive DEF Issue
  <2>3. CASE g \in writing
    <3>1. at[g] \in {"hold", "abandon", "out"} /\ \A k \in Wants[g] : row[k].holder = g
      BY <1>t, <2>3 DEF WritersStarted, WritersHoldTheirLocks
    <3>2. at'[g] \in {"hold", "abandon", "out"}
      <4>1. CASE g # h
        BY <1>2, <1>t, <2>1, <3>1, <4>1 DEF TypeOK, Step, Request, Reserve, Refused, Inspect, Confirm,
           Enter, Issue, Finish, Complete, Fail, ConfirmOwn, Release, Beat, AgentBeat,
           SupervisorBeat, Answer, Fence, Leave, AttemptEnds, Dies, Goes
      <4>2. CASE g = h
        <5>1. ~Complete(h) /\ ~ConfirmOwn(h)
          BY <2>3, <4>2 DEF Complete, ConfirmOwn, Stopped
        <5>2. ~Request(h) /\ ~Reserve(h) /\ ~Inspect(h) /\ ~Confirm(h) /\ ~Enter(h) /\ ~Release(h)
          BY <3>1, <4>2 DEF Request, Reserve, Inspect, Confirm, Enter, Release
        <5> QED
          BY <1>2, <1>t, <2>1, <3>1, <4>2, <5>1, <5>2 DEF TypeOK, Step, Refused, Issue, Finish,
             Fail, Beat, AgentBeat, SupervisorBeat, Answer, Fence, Leave, AttemptEnds, Dies, Goes
      <4> QED
        BY <4>1, <4>2
    <3>3. ASSUME NEW k \in Wants[g] PROVE row'[k].holder = g
      <4>k. k \in Keys /\ row[k].holder = g /\ g # None
        BY <2>1, <3>1, LocksAssumption
      <4>1. CASE Reserve(h)
        <5>1. ~(k \in Wants[h] /\ Obtainable(h, k)) \/ g = h
          BY <2>3, <4>k, <1>2, ObtainableIsDone
        <5>2. g # h
          BY <3>1, <4>1 DEF Reserve
        <5> QED
          BY <4>1, <4>k, <5>1, <5>2 DEF Reserve, Missing
      <4>2. CASE Release(h)
        <5>1. g # h
          BY <3>1, <4>2 DEF Release
        <5> QED
          BY <4>2, <4>k, <5>1 DEF Release, Dropped, Owned
      <4>3. CASE Beat(h) \/ AgentBeat(h)
        <5>1. \/ row'[k] = row[k]
              \/ \E n \in 0..Lease : row'[k] = [row[k] EXCEPT !.left = n]
          BY <1>t, <4>3, <4>k, BudgetType, NumberTypes DEF Beat, AgentBeat, Extend
        <5>2. row[k] \in [holder : Holders \cup {None}, left : 0..Lease]
          BY <1>t, <4>k DEF TypeOK
        <5> QED
          BY <4>k, <5>1, <5>2
      <4>4. CASE UNCHANGED row
        BY <4>4, <4>k
      <4> QED
        BY <1>2, <4>1, <4>2, <4>3, <4>4 DEF Step, Request, Refused, Inspect, Confirm,
           Enter, Issue, Finish, Complete, Fail, ConfirmOwn, SupervisorBeat, Answer, Fence,
           Leave, AttemptEnds, Dies
    <3> QED
      BY <3>2, <3>3
  <2> QED
    BY <2>2, <2>3
<1>3. CASE \E h \in Holders : Step(h)
  BY <1>2, <1>3 DEF WritersStarted, WritersHoldTheirLocks
<1> QED
  BY <1>0, <1>1, <1>3 DEF Next

LEMMA LockInit == Init => LockInv
<1> SUFFICES ASSUME Init PROVE LockInv
  OBVIOUS
<1>1. TypeOK
  BY TypeInit
<1>2. ASSUME NEW h \in Holders PROVE Outlasts(h) /\ AskedIsSpent(h) /\ MemoIsSpent(h)
  BY LocksAssumption DEF Init, Nobody, Outlasts, RowsCover, AttemptCovers, OffersInOrder, Covered,
     AskedIsSpent, MemoIsSpent
<1>3. ASSUME NEW k \in Keys PROVE RowInOrder(k)
  BY LocksAssumption DEF Init, Free, RowInOrder
<1> QED
  BY <1>1, <1>2, <1>3 DEF LockInv, WritersStarted, WritersHoldTheirLocks, Init

LEMMA LockStep ==
    ASSUME Repeat \subseteq Agents
    PROVE  LockInv /\ [Next]_vars => LockInv'
<1> SUFFICES ASSUME LockInv, [Next]_vars PROVE LockInv'
  OBVIOUS
<1>1. TypeOK'
  BY TypeStep DEF LockInv
<1>2. ASSUME NEW g \in Holders PROVE Outlasts(g)'
  <2>1. CASE UNCHANGED vars
    BY <2>1 DEF vars, LockInv, Outlasts, RowsCover, AttemptCovers, OffersInOrder, Covered
  <2>2. CASE Tick
    BY <2>2, OutlastsTick
  <2>3. ASSUME NEW h \in Holders, Step(h) PROVE Outlasts(g)'
    BY <2>3, OutlastsOthers, OutlastsOwn
  <2> QED
    BY <2>1, <2>2, <2>3 DEF Next
<1> QED
  BY <1>1, <1>2, RowsStep, SpentStep, WritersStep DEF LockInv

\* A statement runs in the warehouse only while the rows of all its keys are
\* its holder's (WritersHoldTheirLocks): the leases, the margin and the stop of
\* a stale holder suffice, as long as no name comes back after a release.
THEOREM WritersExclude ==
    ASSUME Repeat \subseteq Agents
    PROVE  Spec => []WritersHoldTheirLocks
<1>1. LockInv => WritersHoldTheirLocks
  BY DEF LockInv
<1>2. LockInv /\ [Next]_vars => LockInv'
  BY LockStep
<1> QED
  BY LockInit, <1>1, <1>2, PTL DEF Spec

-----------------------------------------------------------------------------
(* Exclusive owners.                                                       *)

Owner == [k \in Keys |-> row[k].holder]
Workers == {h \in Holders : at[h] \in Working}

LEMMA ExclusionInit == Init => Abstract!Init
  BY DEF Init, Free, Abstract!Init, Working

LEMMA ExclusionStep ==
    ASSUME LockInv, TypeOK', [Next]_vars
    PROVE  [Abstract!Next]_(Abstract!vars)
<1>t. TypeOK
  BY DEF LockInv
<1> USE DEF Working, Abstract!vars, Owner, Workers
<1>s. ASSUME Owner' = Owner, Workers' = Workers, writing' = writing
      PROVE  [Abstract!Next]_(Abstract!vars)
  BY <1>s
<1>0. CASE UNCHANGED vars
  BY <1>0, <1>s DEF vars
<1>1. CASE Tick
  <2>1. \A k \in Keys : row'[k].holder = row[k].holder
    BY <1>1, <1>t DEF Tick, TypeOK
  <2>2. Owner' = Owner
    BY <2>1
  <2> QED
    BY <1>1, <1>s, <2>2 DEF Tick
<1>2. ASSUME NEW h \in Holders, Step(h) PROVE [Abstract!Next]_(Abstract!vars)
  <2>1. CASE UNCHANGED <<row, at, writing>>
    BY <1>s, <2>1
  <2>2. ASSUME NEW place \in Places, Goes(h, place), at[h] # "hold", place # "hold",
               UNCHANGED <<row, writing>>
        PROVE  [Abstract!Next]_(Abstract!vars)
    <3>1. Workers' = Workers
      BY <1>t, <2>2 DEF Goes, TypeOK
    <3> QED
      BY <1>s, <2>2, <3>1
  <2>3. ASSUME NEW place \in Places, Goes(h, place), place # "hold", UNCHANGED <<row, writing>>
        PROVE  [Abstract!Next]_(Abstract!vars)
    <3>1. Workers' = Workers \ {h}
      BY <1>t, <2>3 DEF Goes, TypeOK
    <3>2. Abstract!Stop(h)
      BY <2>3, <3>1 DEF Abstract!Stop
    <3> QED
      BY <3>2 DEF Abstract!Next
  <2>4. CASE Request(h) \/ Inspect(h) \/ Confirm(h) \/ ConfirmOwn(h) \/ Complete(h) \/ Fail(h) \/ Dies(h)
    BY <2>3, <2>4 DEF Request, Inspect, Confirm, ConfirmOwn, Complete, Fail, Dies, Places, Waiting
  <2>5. CASE Reserve(h)
    <3>1. at[h] = "ask" /\ UNCHANGED writing
      BY <2>5 DEF Reserve
    <3>2. CASE Goes(h, "blocked") /\ UNCHANGED row
      BY <2>3, <3>1, <3>2 DEF Places, Waiting
    <3>3. CASE Goes(h, "granted") /\ Missing(h) = {}
               /\ row' = [k \in Keys |-> IF k \in Wants[h]
                                         THEN [holder |-> h, left |-> Budget(h)] ELSE row[k]]
      <4>1. Workers' = Workers /\ h \notin Workers
        BY <1>t, <3>1, <3>3 DEF Goes, TypeOK
      <4>2. Owner' = [k \in Keys |-> IF k \in Wants[h] THEN h ELSE Owner[k]]
        BY <3>3
      <4>3. ASSUME NEW k \in Wants[h]
            PROVE  Owner[k] = None \/ (Owner[k] \notin Workers /\ Owner[k] \notin writing)
        <5>1. k \in Keys /\ Obtainable(h, k)
          BY <3>3, <4>3, LocksAssumption DEF Missing
        <5>2. CASE row[k].holder = None
          BY <5>1, <5>2
        <5>3. CASE row[k].holder \in Holders /\ Spent(row[k].holder) /\ row[k].holder \notin writing
          BY <5>1, <5>3 DEF Spent
        <5> QED
          BY <5>1, <5>2, <5>3, ObtainableIsDone
      <4>4. Abstract!Take(h)
        BY <3>1, <4>1, <4>2, <4>3 DEF Abstract!Take, Abstract!Idle
      <4> QED
        BY <4>4 DEF Abstract!Next
    <3> QED
      BY <2>5, <3>2, <3>3 DEF Reserve
  <2>6. CASE Enter(h)
    <3>1. Covered(h)
      BY <2>6 DEF Enter, Covered
    <3>2. \A k \in Wants[h] : Owner[k] = h
      BY <3>1, CoveredIsLive, LocksAssumption
    <3>3. Workers' = Workers \cup {h} /\ UNCHANGED <<row, writing>>
      BY <1>t, <2>6 DEF Enter, Goes, TypeOK
    <3>4. Abstract!Work(h)
      BY <3>2, <3>3 DEF Abstract!Work, Abstract!Has
    <3> QED
      BY <3>4 DEF Abstract!Next
  <2>7. CASE Issue(h)
    <3>1. Abstract!Write(h)
      BY <2>7 DEF Issue, Abstract!Write
    <3> QED
      BY <3>1 DEF Abstract!Next
  <2>8. CASE Finish(h)
    <3>1. Abstract!EndWrite(h)
      BY <2>8 DEF Finish, Abstract!EndWrite
    <3> QED
      BY <3>1 DEF Abstract!Next
  <2>9. CASE Release(h)
    <3>1. at[h] = "release" /\ UNCHANGED writing
      BY <2>9 DEF Release
    <3>2. h \notin Workers /\ Workers' = Workers
      BY <1>t, <2>9 DEF Release, Goes, TypeOK
    <3>3. h \notin writing
      BY <3>1 DEF LockInv, WritersStarted
    <3>4. Owner' = [k \in Keys |-> IF Owner[k] = h THEN None ELSE Owner[k]]
      BY <2>9 DEF Release, Dropped, Owned, Free
    <3>5. Abstract!Drop(h)
      BY <3>1, <3>2, <3>3, <3>4 DEF Abstract!Drop, Abstract!Idle
    <3> QED
      BY <3>5 DEF Abstract!Next
  <2>10. CASE Beat(h) \/ AgentBeat(h)
    <3>1. UNCHANGED <<at, writing>>
      BY <2>10 DEF Beat, AgentBeat
    <3>2. \A k \in Keys : row'[k].holder = row[k].holder
      <4> SUFFICES ASSUME NEW k \in Keys PROVE row'[k].holder = row[k].holder
        OBVIOUS
      <4>1. \/ row'[k] = row[k]
            \/ \E n \in 0..Lease : row'[k] = [row[k] EXCEPT !.left = n]
        BY <1>t, <2>10, BudgetType, NumberTypes DEF Beat, AgentBeat, Extend
      <4>2. row[k] \in [holder : Holders \cup {None}, left : 0..Lease]
        BY <1>t DEF TypeOK
      <4> QED
        BY <4>1, <4>2
    <3> QED
      BY <1>s, <3>1, <3>2
  <2> QED
    BY <1>2, <2>1, <2>4, <2>5, <2>6, <2>7, <2>8, <2>9, <2>10 DEF Step, Refused, Fence, Leave,
       SupervisorBeat, Answer, AttemptEnds
<1> QED
  BY <1>0, <1>1, <1>2 DEF Next

\* Rows, leases and watchdogs implement exclusive owners (KeepsExclusion).
THEOREM ImplementsExclusiveOwners ==
    ASSUME Repeat \subseteq Agents
    PROVE  Spec => KeepsExclusion
<1>1. LockInv /\ [Next]_vars => LockInv'
  BY LockStep
<1>2. LockInv /\ LockInv' /\ [Next]_vars => [Abstract!Next]_(Abstract!vars)
  BY ExclusionStep DEF LockInv
<1> QED
  BY LockInit, ExclusionInit, <1>1, <1>2, PTL DEF Spec, KeepsExclusion

=============================================================================
