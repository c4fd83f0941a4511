-------------------------- MODULE TaskGraph_proofs --------------------------
(***************************************************************************)
(* Proofs about the task graph: the tasks that can never start are the     *)
(* least closed set of a graph and its lost edges, which only grows while  *)
(* edges are lost; and the loop of the code finds it.                      *)
(***************************************************************************)
EXTENDS TaskGraph, FiniteSetTheorems, WellFoundedInduction, TLAPS

-----------------------------------------------------------------------------
(* Numbers and edges.                                                      *)

\* A set of natural numbers has a least one.
LEMMA LeastNumber ==
    ASSUME NEW S \in SUBSET Nat, S # {}
    PROVE  \E n \in S : \A m \in S : n <= m
<1>1. PICK n \in S : \A m \in S : ~(<<m, n>> \in OpToRel(<, Nat))
  BY NatLessThanWellFounded, WFMin
<1>2. \A m \in S : ~(m < n)
  BY <1>1 DEF OpToRel
<1> QED
  BY <1>2

\* What holds of 0 and of the next number up to N holds up to N.
LEMMA Countdown ==
    ASSUME NEW N \in Nat, NEW good, 0 \in good,
           \A n \in 0..N - 1 : n \in good => n + 1 \in good
    PROVE  \A n \in 0..N : n \in good
<1> DEFINE bad == (0..N) \ good
<1> SUFFICES ASSUME bad # {} PROVE FALSE
  OBVIOUS
<1>0. bad \in SUBSET Nat
  OBVIOUS
<1> HIDE DEF bad
<1>1. PICK n \in bad : \A m \in bad : n <= m
  BY <1>0, LeastNumber
<1> USE DEF bad
<1>2. n # 0 /\ n - 1 \in 0..N - 1 /\ n - 1 \in 0..N
  BY <1>1
<1>3. n - 1 \in good
  BY <1>1, <1>2
<1> QED
  BY <1>1, <1>2, <1>3

LEMMA EdgeParts ==
    ASSUME NEW e \in Edges
    PROVE  e.task \in Tasks /\ e.on \in Tasks /\ e.type \in DependencyTypes
  BY GraphAssumption

\* A task has finitely many edges.
LEMMA EdgesFinite ==
    ASSUME NEW t \in Tasks
    PROVE  IsFiniteSet(EdgesOf(t)) /\ EdgesOf(t) \subseteq Edges
<1> DEFINE parts == Tasks \X (Tasks \X DependencyTypes)
           edges == [task : Tasks, on : Tasks, type : DependencyTypes]
           f == [p \in parts |-> [task |-> p[1], on |-> p[2][1], type |-> p[2][2]]]
<1>1. IsFiniteSet(DependencyTypes)
  <2>1. IsFiniteSet({"SUCCESS", "FAILURE"})
    <3>1. IsFiniteSet({"SUCCESS"})
      BY FS_Singleton
    <3>2. IsFiniteSet({"SUCCESS"} \cup {"FAILURE"})
      BY <3>1, FS_AddElement
    <3>3. {"SUCCESS"} \cup {"FAILURE"} = {"SUCCESS", "FAILURE"}
      OBVIOUS
    <3> QED
      BY <3>2, <3>3
  <2>2. IsFiniteSet({"SUCCESS", "FAILURE"} \cup {"ALWAYS"})
    BY <2>1, FS_AddElement
  <2>3. IsFiniteSet(({"SUCCESS", "FAILURE"} \cup {"ALWAYS"}) \cup {"HAS_DATA"})
    BY <2>2, FS_AddElement
  <2>4. ({"SUCCESS", "FAILURE"} \cup {"ALWAYS"}) \cup {"HAS_DATA"} = DependencyTypes
    BY DEF DependencyTypes
  <2> QED
    BY <2>3, <2>4
<1>2. IsFiniteSet(parts)
  <2>1. IsFiniteSet(Tasks \X DependencyTypes)
    BY <1>1, GraphAssumption, FS_Product
  <2> QED
    BY <2>1, GraphAssumption, FS_Product
<1>3. f \in Surjection(parts, edges)
  <2>1. f \in [parts -> edges]
    OBVIOUS
  <2>2. ASSUME NEW e \in edges PROVE \E p \in parts : f[p] = e
    <3>1. <<e.task, <<e.on, e.type>>>> \in parts
      OBVIOUS
    <3>2. f[<<e.task, <<e.on, e.type>>>>] = e
      BY <3>1
    <3> QED
      BY <3>1, <3>2
  <2> QED
    BY <2>1, <2>2, Zenon DEF Surjection
<1>4. IsFiniteSet(edges)
  BY <1>2, <1>3, FS_Surjection
<1>5. EdgesOf(t) \subseteq Edges /\ EdgesOf(t) \subseteq edges
  BY GraphAssumption DEF EdgesOf
<1> QED
  BY <1>4, <1>5, FS_Subset

\* Fewer edges are not counted as more.
LEMMA CountMonotonic ==
    ASSUME NEW t \in Tasks, NEW S \in SUBSET EdgesOf(t), NEW R \in SUBSET S
    PROVE  /\ Cardinality(R) \in Nat
           /\ Cardinality(S) \in Nat
           /\ Cardinality(R) <= Cardinality(S)
<1>1. IsFiniteSet(S)
  BY EdgesFinite, FS_Subset
<1> QED
  BY <1>1, FS_Subset, FS_CardinalityType

LEMMA Requirements ==
    ASSUME NEW t \in Tasks
    PROVE  /\ TotalEdges(t) \in Nat
           /\ RequiredEdges(t) \in Nat
           /\ Assumed(t) \in {0, 1}
<1>1. Cardinality(EdgesOf(t)) \in Nat
  BY CountMonotonic
<1>2. TotalEdges(t) \in Nat
  BY <1>1 DEF TotalEdges
<1> QED
  BY <1>2, GraphAssumption DEF RequiredEdges, Assumed

-----------------------------------------------------------------------------
(* The tasks of A that can never start, when the edges in L are lost: the  *)
(* least set that, once skipped, dooms no further task of A.               *)

\* What is left to t if the tasks of S are skipped as well.
Left(t, L, S) == {e \in EdgesOf(t) : e \notin L /\ ~(e.on \in S /\ e.type # "ALWAYS")}

LeftSuffices(t, L, S) ==
    TotalEdges(t) > 0 => Cardinality(Left(t, L, S)) + Assumed(t) >= RequiredEdges(t)

IsClosed(S, L, A) == \A t \in A \ S : LeftSuffices(t, L, S)

Doomed(L, A) == {t \in Tasks : \A S \in SUBSET Tasks : IsClosed(S, L, A) => t \in S}

\* The fewer edges are lost and the fewer tasks skipped, the more is left.
LEMMA LeftMonotonic ==
    ASSUME NEW t \in Tasks, NEW L, NEW S, NEW LL, NEW SS,
           Left(t, LL, SS) \subseteq Left(t, L, S)
    PROVE  /\ Cardinality(Left(t, LL, SS)) <= Cardinality(Left(t, L, S))
           /\ Cardinality(Left(t, LL, SS)) \in Nat
           /\ Cardinality(Left(t, L, S)) \in Nat
           /\ LeftSuffices(t, LL, SS) => LeftSuffices(t, L, S)
<1>1. Left(t, L, S) \subseteq EdgesOf(t)
  BY DEF Left
<1>2. /\ Cardinality(Left(t, LL, SS)) <= Cardinality(Left(t, L, S))
      /\ Cardinality(Left(t, LL, SS)) \in Nat
      /\ Cardinality(Left(t, L, S)) \in Nat
  BY <1>1, CountMonotonic
<1> QED
  BY <1>2, Requirements DEF LeftSuffices

\* The doomed tasks are closed themselves.
LEMMA DoomedIsClosed ==
    ASSUME NEW L, NEW A \in SUBSET Tasks
    PROVE  Doomed(L, A) \subseteq Tasks /\ IsClosed(Doomed(L, A), L, A)
<1> DEFINE D == Doomed(L, A)
<1>1. ASSUME NEW t \in A \ D PROVE LeftSuffices(t, L, D)
  <2>1. PICK S \in SUBSET Tasks : IsClosed(S, L, A) /\ t \notin S
    BY DEF Doomed
  <2>2. LeftSuffices(t, L, S)
    BY <2>1 DEF IsClosed
  <2>3. D \subseteq S
    BY <2>1 DEF Doomed
  <2>4. Left(t, L, S) \subseteq Left(t, L, D)
    BY <2>3 DEF Left
  <2> QED
    BY <2>2, <2>4, LeftMonotonic
<1> QED
  BY <1>1 DEF IsClosed, Doomed

\* A doomed task is one of A that has too few edges left.
LEMMA DoomedHasTooFew ==
    ASSUME NEW L, NEW A \in SUBSET Tasks, NEW t \in Doomed(L, A)
    PROVE  t \in A /\ ~LeftSuffices(t, L, Doomed(L, A))
<1> DEFINE D == Doomed(L, A)
           S == D \ {t}
<1> SUFFICES ASSUME t \in A => LeftSuffices(t, L, D) PROVE IsClosed(S, L, A)
  <2>1. S \in SUBSET Tasks /\ t \notin S
    BY DEF Doomed
  <2> QED
    BY <2>1 DEF Doomed
<1>1. ASSUME NEW u \in A \ S PROVE LeftSuffices(u, L, S)
  <2>1. LeftSuffices(u, L, D)
    BY DoomedIsClosed DEF IsClosed
  <2>2. Left(u, L, D) \subseteq Left(u, L, S)
    BY DEF Left
  <2> QED
    BY <2>1, <2>2, LeftMonotonic
<1> QED
  BY <1>1 DEF IsClosed

\* Doomed tasks stay doomed while edges are lost, tasks that are not doomed
\* start (those of N), and doomed ones are recorded (those of K).
LEMMA DoomedGrows ==
    ASSUME NEW L, NEW A \in SUBSET Tasks, NEW LL, NEW AA \in SUBSET Tasks,
           NEW K \in SUBSET Tasks, NEW N,
           L \subseteq LL,
           A \subseteq AA \cup K \cup N,
           N \cap Doomed(L, A) = {},
           \A e \in Edges : e.on \in K /\ e.type # "ALWAYS" => e \in LL
    PROVE  Doomed(L, A) \subseteq Doomed(LL, AA) \cup K
<1> DEFINE D == Doomed(L, A)
<1> SUFFICES ASSUME NEW t \in D, t \notin K, NEW SS \in SUBSET Tasks, IsClosed(SS, LL, AA)
             PROVE  t \in SS
  BY DEF Doomed
<1> DEFINE S == (SS \cup K) \cap D
<1>1. ASSUME NEW u \in A \ S PROVE LeftSuffices(u, L, S)
  <2>1. EdgesOf(u) \subseteq Edges
    BY EdgesFinite
  <2>2. CASE u \notin D
    <3>1. LeftSuffices(u, L, D)
      BY <2>2, DoomedIsClosed DEF IsClosed
    <3>2. Left(u, L, D) \subseteq Left(u, L, S)
      BY DEF Left
    <3> QED
      BY <3>1, <3>2, LeftMonotonic
  <2>3. CASE u \in D
    <3>1. u \in AA \ SS
      BY <2>3
    <3>2. LeftSuffices(u, LL, SS)
      BY <3>1 DEF IsClosed
    <3>3. Left(u, LL, SS) \subseteq Left(u, L, S)
      BY <2>1 DEF Left
    <3> QED
      BY <3>2, <3>3, LeftMonotonic
  <2> QED
    BY <2>2, <2>3
<1>2. S \in SUBSET Tasks /\ IsClosed(S, L, A)
  BY <1>1 DEF IsClosed
<1>3. t \in S
  BY <1>2 DEF Doomed
<1> QED
  BY <1>3

\* The more edges are lost, and the more tasks have never run, the more are
\* doomed.
LEMMA DoomedMonotonic ==
    ASSUME NEW L, NEW A \in SUBSET Tasks, NEW LL, NEW AA \in SUBSET Tasks,
           L \subseteq LL, A \subseteq AA
    PROVE  Doomed(L, A) \subseteq Doomed(LL, AA)
<1>1. ASSUME NEW S, IsClosed(S, LL, AA) PROVE IsClosed(S, L, A)
  <2>1. \A t \in A : Left(t, LL, S) \subseteq Left(t, L, S)
    BY DEF Left
  <2> QED
    BY <1>1, <2>1, LeftMonotonic DEF IsClosed
<1> QED
  BY <1>1 DEF Doomed

\* What is left shrinks with them.
LEMMA LeftShrinks ==
    ASSUME NEW t \in Tasks, NEW L, NEW D, NEW LL, NEW DD, NEW K,
           L \subseteq LL,
           D \subseteq DD \cup K,
           \A e \in Edges : e.on \in K /\ e.type # "ALWAYS" => e \in LL
    PROVE  /\ Cardinality(Left(t, LL, DD)) <= Cardinality(Left(t, L, D))
           /\ Cardinality(Left(t, LL, DD)) \in Nat
           /\ Cardinality(Left(t, L, D)) \in Nat
<1>1. Left(t, LL, DD) \subseteq Left(t, L, D)
  BY EdgesFinite DEF Left
<1> QED
  BY <1>1, LeftMonotonic

-----------------------------------------------------------------------------
(* The rows of a run.                                                      *)

Absent(rows) == {t \in Tasks : rows[t].status = "absent"}

LostEdges(rows, failuresFinal) == {e \in Edges : EdgeLost(e, rows, failuresFinal)}

\* No ending of its upstream loses an ALWAYS edge.
LEMMA AlwaysIsNeverLost ==
    ASSUME NEW rows, NEW e \in Edges, NEW final \in BOOLEAN, EdgeLost(e, rows, final)
    PROVE  e.type # "ALWAYS"
  BY EdgeParts DEF EdgeLost, EdgeSatisfied, SettledStatuses, TerminalStatuses, DependencyTypes

\* What is lost once the tasks of S are skipped.
LEMMA LostWithSkipped ==
    ASSUME NEW rows, NEW S \in SUBSET Tasks, NEW final \in BOOLEAN, NEW e \in Edges
    PROVE  EdgeLost(e, WithSkipped(rows, S), final) <=>
               EdgeLost(e, rows, final) \/ (e.on \in S /\ e.type # "ALWAYS")
<1>1. e.on \in Tasks /\ e.type \in DependencyTypes
  BY EdgeParts
<1>2. CASE e.on \in S
  <2>1. WithSkipped(rows, S)[e.on] = [status |-> "SKIPPED", wrote |-> FALSE]
    BY <1>1, <1>2 DEF WithSkipped
  <2>2. WithSkipped(rows, S)[e.on].status = "SKIPPED"
    BY <2>1
  <2>3. EdgeSatisfied(e, WithSkipped(rows, S)) <=> e.type = "ALWAYS"
    BY <1>1, <2>2 DEF EdgeSatisfied, TerminalStatuses, SettledStatuses, DependencyTypes
  <2>4. EdgeLost(e, WithSkipped(rows, S), final) <=> e.type # "ALWAYS"
    BY <2>2, <2>3 DEF EdgeLost, SettledStatuses
  <2> QED
    BY <1>2, <2>4, AlwaysIsNeverLost
<1>3. CASE e.on \notin S
  <2>1. WithSkipped(rows, S)[e.on] = rows[e.on]
    BY <1>1, <1>3 DEF WithSkipped
  <2> QED
    BY <1>3, <2>1 DEF EdgeLost, EdgeSatisfied
<1> QED
  BY <1>2, <1>3

LEMMA NewlyUnsatisfiableIs ==
    ASSUME NEW rows, NEW S \in SUBSET Tasks, NEW final \in BOOLEAN
    PROVE  NewlyUnsatisfiable(rows, S, final) =
               {t \in Absent(rows) \ S : ~LeftSuffices(t, LostEdges(rows, final), S)}
<1>1. ASSUME NEW t \in Tasks
      PROVE  IsUnsatisfiable(t, WithSkipped(rows, S), final) <=>
                 ~LeftSuffices(t, LostEdges(rows, final), S)
  <2>1. {e \in EdgesOf(t) : ~EdgeLost(e, WithSkipped(rows, S), final)}
            = Left(t, LostEdges(rows, final), S)
    BY LostWithSkipped, EdgesFinite DEF Left, LostEdges
  <2>2. Cardinality(Left(t, LostEdges(rows, final), S)) \in Nat
    BY LeftMonotonic
  <2> QED
    BY <2>1, <2>2, Requirements DEF IsUnsatisfiable, LeftSuffices
<1> QED
  BY <1>1 DEF NewlyUnsatisfiable, Absent

\* The tasks that can never start are the doomed ones of the rows.
LEMMA UnsatisfiableIsDoomed ==
    ASSUME NEW rows, NEW final \in BOOLEAN
    PROVE  Unsatisfiable(rows, final) = Doomed(LostEdges(rows, final), Absent(rows))
<1>1. ASSUME NEW S \in SUBSET Tasks
      PROVE  NewlyUnsatisfiable(rows, S, final) = {} <=>
                 IsClosed(S, LostEdges(rows, final), Absent(rows))
  BY NewlyUnsatisfiableIs DEF IsClosed
<1> QED
  BY <1>1 DEF Unsatisfiable, Doomed

\* What has not ended satisfies no edge and loses none.
LEMMA UnfinishedDecidesNothing ==
    ASSUME NEW rows, NEW e \in Edges, rows[e.on].status \in {"absent", "IN-PROGRESS"}
    PROVE  /\ ~EdgeSatisfied(e, rows)
           /\ \A final \in BOOLEAN : ~EdgeLost(e, rows, final)
  BY EdgeParts DEF EdgeSatisfied, EdgeLost, SettledStatuses, TerminalStatuses, DependencyTypes

LEMMA SatisfiedMonotonic ==
    ASSUME NEW t \in Tasks, NEW rows, NEW other, NEW c \in Nat, NEW d \in Nat, c <= d,
           \A e \in EdgesOf(t) : EdgeSatisfied(e, rows) => EdgeSatisfied(e, other)
    PROVE  /\ SatisfiedEdges(t, rows, c) \in Nat
           /\ SatisfiedEdges(t, other, d) \in Nat
           /\ SatisfiedEdges(t, rows, c) <= SatisfiedEdges(t, other, d)
<1> DEFINE R == {e \in EdgesOf(t) : EdgeSatisfied(e, rows)}
           S == {e \in EdgesOf(t) : EdgeSatisfied(e, other)}
<1>1. S \in SUBSET EdgesOf(t) /\ R \in SUBSET S
  OBVIOUS
<1>2. Cardinality(R) \in Nat /\ Cardinality(S) \in Nat /\ Cardinality(R) <= Cardinality(S)
  BY <1>1, CountMonotonic
<1> QED
  BY <1>2 DEF SatisfiedEdges

\* Nothing is undone while only unfinished tasks move: satisfied edges stay
\* satisfied, and lost ones lost.
LEMMA EndingsDecide ==
    ASSUME NEW rows, NEW other,
           \A t \in Tasks : other[t] = rows[t] \/ rows[t].status \in {"absent", "IN-PROGRESS"}
    PROVE  /\ \A e \in Edges : EdgeSatisfied(e, rows) => EdgeSatisfied(e, other)
           /\ \A final \in BOOLEAN : LostEdges(rows, final) \subseteq LostEdges(other, final)
<1>1. ASSUME NEW e \in Edges PROVE EdgeSatisfied(e, rows) => EdgeSatisfied(e, other)
  BY EdgeParts, UnfinishedDecidesNothing DEF EdgeSatisfied
<1>2. ASSUME NEW e \in Edges, NEW final \in BOOLEAN, EdgeLost(e, rows, final)
      PROVE  EdgeLost(e, other, final)
  <2>1. other[e.on] = rows[e.on]
    BY <1>2, EdgeParts, UnfinishedDecidesNothing
  <2> QED
    BY <1>2, <2>1 DEF EdgeLost, EdgeSatisfied
<1> QED
  BY <1>1, <1>2 DEF LostEdges

\* A task that can never start while retries are to come cannot start when
\* failures are final.
LEMMA FinalDoomsMore ==
    ASSUME NEW rows, NEW final \in BOOLEAN
    PROVE  Unsatisfiable(rows, final) \subseteq Unsatisfiable(rows, TRUE)
<1>1. LostEdges(rows, final) \subseteq LostEdges(rows, TRUE)
  BY DEF LostEdges, EdgeLost
<1>2. Absent(rows) \in SUBSET Tasks
  BY DEF Absent
<1>3. Doomed(LostEdges(rows, final), Absent(rows)) \subseteq Doomed(LostEdges(rows, TRUE), Absent(rows))
  BY <1>1, <1>2, DoomedMonotonic
<1> QED
  BY <1>3, UnsatisfiableIsDoomed

\* Who can never start still cannot after others ended, or was skipped.
LEMMA DoomedUntilSkipped ==
    ASSUME NEW rows, NEW other, NEW final \in BOOLEAN, NEW K \in SUBSET Tasks,
           \A t \in Tasks : \/ other[t] = rows[t]
                            \/ rows[t].status = "IN-PROGRESS"
                            \/ t \in K /\ rows[t].status = "absent",
           \A t \in K : other[t].status = "SKIPPED"
    PROVE  Unsatisfiable(rows, final) \subseteq Unsatisfiable(other, final) \cup K
<1> DEFINE L == LostEdges(rows, final)
           LL == LostEdges(other, final)
           A == Absent(rows)
           AA == Absent(other)
<1>1. L \subseteq LL
  BY EndingsDecide
<1>2. A \in SUBSET Tasks /\ AA \in SUBSET Tasks /\ A \subseteq AA \cup K
  BY DEF Absent
<1>3. ASSUME NEW e \in Edges, e.on \in K, e.type # "ALWAYS" PROVE e \in LL
  BY <1>3, EdgeParts DEF LostEdges, EdgeLost, EdgeSatisfied, SettledStatuses, DependencyTypes
<1>4. Unsatisfiable(rows, final) = Doomed(L, A) /\ Unsatisfiable(other, final) = Doomed(LL, AA)
  BY UnsatisfiableIsDoomed
<1> HIDE DEF L, LL, A, AA
<1>5. \A N : /\ A \subseteq AA \cup K \cup N
             /\ N \cap Doomed(L, A) = {}
             => Doomed(L, A) \subseteq Doomed(LL, AA) \cup K
  BY <1>1, <1>2, <1>3, DoomedGrows
<1> QED
  <2>1. A \subseteq AA \cup K \cup {} /\ {} \cap Doomed(L, A) = {}
    BY <1>2
  <2> QED
    BY <1>4, <1>5, <2>1, Zenon

LEMMA DoomedStays ==
    ASSUME NEW rows, NEW other, NEW final \in BOOLEAN,
           \A t \in Tasks : other[t] = rows[t] \/ rows[t].status = "IN-PROGRESS"
    PROVE  Unsatisfiable(rows, final) \subseteq Unsatisfiable(other, final)
<1> DEFINE K == {}
<1>1. /\ K \in SUBSET Tasks
      /\ \A t \in K : other[t].status = "SKIPPED"
      /\ \A t \in Tasks : \/ other[t] = rows[t]
                          \/ rows[t].status = "IN-PROGRESS"
                          \/ t \in K /\ rows[t].status = "absent"
  OBVIOUS
<1> HIDE DEF K
<1>2. Unsatisfiable(rows, final) \subseteq Unsatisfiable(other, final) \cup K
  BY <1>1, DoomedUntilSkipped
<1> QED
  BY <1>2 DEF K

LEMMA UnsatisfiableAreAbsent ==
    ASSUME NEW rows, NEW final \in BOOLEAN, NEW t \in Unsatisfiable(rows, final)
    PROVE  t \in Tasks /\ rows[t].status = "absent"
<1>1. Absent(rows) \in SUBSET Tasks
  BY DEF Absent
<1>2. t \in Doomed(LostEdges(rows, final), Absent(rows))
  BY UnsatisfiableIsDoomed
<1>3. t \in Absent(rows)
  BY <1>1, <1>2, DoomedHasTooFew
<1> QED
  BY <1>3 DEF Absent

-----------------------------------------------------------------------------
(* The loop of the code.                                                   *)

\* The rounds 0..N of the loop.
AreRounds(f, N, rows, final) ==
    f = [n \in 0..N |-> IF n = 0 THEN {}
                        ELSE f[n - 1] \cup NewlyUnsatisfiable(rows, f[n - 1], final)]

LEMMA RoundsExist ==
    ASSUME NEW rows, NEW final \in BOOLEAN, NEW N \in Nat
    PROVE  \E f : AreRounds(f, N, rows, final)
<1> DEFINE New(S) == NewlyUnsatisfiable(rows, S, final)
           good == {n \in Nat : \E f : AreRounds(f, n, rows, final)}
<1>1. 0 \in good
  <2>1. AreRounds([n \in 0..0 |-> {}], 0, rows, final)
    BY DEF AreRounds
  <2> QED
    BY <2>1
<1>2. ASSUME NEW n \in 0..N - 1, n \in good PROVE n + 1 \in good
  <2>1. PICK f : AreRounds(f, n, rows, final)
    BY <1>2
  <2> DEFINE g == [i \in 0..n + 1 |-> IF i = n + 1 THEN f[n] \cup New(f[n]) ELSE f[i]]
  <2>2. ASSUME NEW i \in 0..n
        PROVE  f[i] = IF i = 0 THEN {} ELSE f[i - 1] \cup New(f[i - 1])
    BY <2>1 DEF AreRounds
  <2>3. ASSUME NEW i \in 0..n + 1
        PROVE  g[i] = IF i = 0 THEN {} ELSE g[i - 1] \cup New(g[i - 1])
    <3>1. CASE i = n + 1
      <4>1. n + 1 # 0 /\ g[i] = f[n] \cup New(f[n]) /\ g[i - 1] = f[n]
        BY <3>1
      <4> QED
        BY <3>1, <4>1
    <3>2. CASE i \in 0..n
      <4>1. g[i] = f[i]
        BY <3>2
      <4>2. i # 0 => g[i - 1] = f[i - 1]
        BY <3>2
      <4> QED
        BY <2>2, <3>2, <4>1, <4>2
    <3> QED
      BY <3>1, <3>2
  <2>4. AreRounds(g, n + 1, rows, final)
    BY <2>3 DEF AreRounds
  <2> QED
    BY <2>4
<1> HIDE DEF good
<1>3. N \in good
  BY <1>1, <1>2, Countdown
<1> QED
  BY <1>3 DEF good

\* The loop returns what its last round has found.
LEMMA LoopIsLastRound ==
    ASSUME NEW rows, NEW final \in BOOLEAN, Cardinality(Tasks) \in Nat
    PROVE  \E f : /\ AreRounds(f, Cardinality(Tasks), rows, final)
                  /\ UnsatisfiableLoop(rows, final) = f[Cardinality(Tasks)]
<1> DEFINE N == Cardinality(Tasks)
           f == CHOOSE f : AreRounds(f, N, rows, final)
<1>1. AreRounds(f, N, rows, final)
  BY RoundsExist
<1>2. UnsatisfiableLoop(rows, final) = f[N]
  BY DEF UnsatisfiableLoop, AreRounds
<1> QED
  BY <1>1, <1>2

\* A closed set gets no new member from a subset of it.
LEMMA NewStaysInside ==
    ASSUME NEW rows, NEW final \in BOOLEAN, NEW S \in SUBSET Tasks, NEW R \in SUBSET S,
           IsClosed(S, LostEdges(rows, final), Absent(rows))
    PROVE  NewlyUnsatisfiable(rows, R, final) \subseteq S
<1> DEFINE L == LostEdges(rows, final)
<1> SUFFICES ASSUME NEW t \in Absent(rows) \ R, ~LeftSuffices(t, L, R), t \notin S PROVE FALSE
  BY NewlyUnsatisfiableIs
<1>1. LeftSuffices(t, L, S)
  BY DEF IsClosed
<1>2. t \in Tasks /\ Left(t, L, S) \subseteq Left(t, L, R)
  BY DEF Left, Absent
<1> QED
  BY <1>1, <1>2, LeftMonotonic

\* A round finds nothing that is not doomed, and until a round finds nothing
\* each one finds something.
LEMMA Rounds ==
    ASSUME NEW rows, NEW final \in BOOLEAN, NEW N \in Nat, NEW f, AreRounds(f, N, rows, final)
    PROVE  \A n \in 0..N :
               /\ f[n] \subseteq Unsatisfiable(rows, final)
               /\ Cardinality(f[n]) >= n \/ NewlyUnsatisfiable(rows, f[n], final) = {}
<1> DEFINE New(S) == NewlyUnsatisfiable(rows, S, final)
           U == Unsatisfiable(rows, final)
           good == {n \in Nat : f[n] \subseteq U /\ (Cardinality(f[n]) >= n \/ New(f[n]) = {})}
<1>1. /\ f[0] = {}
      /\ \A n \in 0..N - 1 : f[n + 1] = f[n] \cup New(f[n])
  <2>1. \A n \in 0..N : f[n] = IF n = 0 THEN {} ELSE f[n - 1] \cup New(f[n - 1])
    BY DEF AreRounds
  <2>2. f[0] = {}
    <3>1. 0 \in 0..N
      OBVIOUS
    <3> QED
      BY <2>1, <3>1, Zenon
  <2>3. ASSUME NEW n \in 0..N - 1 PROVE f[n + 1] = f[n] \cup New(f[n])
    <3>1. n + 1 \in 0..N /\ n + 1 # 0 /\ (n + 1) - 1 = n
      OBVIOUS
    <3> QED
      BY <2>1, <3>1
  <2> QED
    BY <2>2, <2>3
<1>2. U \subseteq Tasks /\ IsFiniteSet(U) /\ IsClosed(U, LostEdges(rows, final), Absent(rows))
  <2>1. Absent(rows) \in SUBSET Tasks
    BY DEF Absent
  <2>2. U = Doomed(LostEdges(rows, final), Absent(rows))
    BY UnsatisfiableIsDoomed
  <2>3. U \subseteq Tasks /\ IsClosed(U, LostEdges(rows, final), Absent(rows))
    BY <2>1, <2>2, DoomedIsClosed
  <2> QED
    BY <2>3, GraphAssumption, FS_Subset
<1> HIDE DEF U, New
<1>3. 0 \in good
  BY <1>1, FS_EmptySet
<1>4. ASSUME NEW n \in 0..N - 1, n \in good PROVE n + 1 \in good
  <2>1. f[n] \subseteq U
    BY <1>4
  <2>2. New(f[n]) \subseteq U
    BY <1>2, <2>1, NewStaysInside DEF New
  <2>3. f[n + 1] = f[n] \cup New(f[n])
    BY <1>1
  <2>4. CASE New(f[n]) = {}
    BY <2>1, <2>3, <2>4
  <2>5. CASE New(f[n]) # {}
    <3>1. PICK t : t \in New(f[n])
      BY <2>5
    <3>2. t \notin f[n]
      BY <3>1 DEF New, NewlyUnsatisfiable
    <3>3. IsFiniteSet(f[n])
      BY <1>2, <2>1, FS_Subset
    <3>4. Cardinality(f[n] \cup {t}) = Cardinality(f[n]) + 1
      BY <3>2, <3>3, FS_AddElement
    <3>5. f[n + 1] \in SUBSET U /\ f[n] \cup {t} \in SUBSET f[n + 1]
      BY <2>1, <2>2, <2>3, <3>1
    <3>6. IsFiniteSet(f[n + 1])
      BY <1>2, <3>5, FS_Subset
    <3>7. Cardinality(f[n] \cup {t}) <= Cardinality(f[n + 1])
      BY <3>5, <3>6, FS_Subset
    <3>8. Cardinality(f[n]) \in Nat /\ Cardinality(f[n + 1]) \in Nat
      BY <3>3, <3>6, FS_CardinalityType
    <3>9. Cardinality(f[n]) >= n
      BY <1>4, <2>5
    <3> QED
      BY <3>4, <3>5, <3>7, <3>8, <3>9
  <2> QED
    BY <2>4, <2>5
<1> HIDE DEF good
<1>5. \A n \in 0..N : n \in good
  BY <1>3, <1>4, Countdown
<1> QED
  BY <1>5 DEF good, U, New

\* The loop of DependencyGraph.unsatisfiable ends with all tasks that can never
\* start and no other: after as many rounds as there are tasks, none is new.
THEOREM LoopIsComplete ==
    ASSUME NEW rows, NEW final \in BOOLEAN
    PROVE  UnsatisfiableLoop(rows, final) = Unsatisfiable(rows, final)
<1> DEFINE N == Cardinality(Tasks)
           U == Unsatisfiable(rows, final)
<1>1. IsFiniteSet(Tasks) /\ N \in Nat
  BY GraphAssumption, FS_CardinalityType
<1>2. PICK f : AreRounds(f, N, rows, final) /\ UnsatisfiableLoop(rows, final) = f[N]
  BY <1>1, LoopIsLastRound
<1>3. /\ f[N] \subseteq U
      /\ Cardinality(f[N]) >= N \/ NewlyUnsatisfiable(rows, f[N], final) = {}
  <2>1. N \in 0..N
    BY <1>1
  <2> QED
    BY <1>1, <1>2, <2>1, Rounds
<1>4. U \subseteq Tasks
  BY DEF Unsatisfiable
<1>5. NewlyUnsatisfiable(rows, f[N], final) = {}
  <2>1. CASE Cardinality(f[N]) >= N
    <3>1. f[N] \in SUBSET Tasks
      BY <1>3, <1>4
    <3>2. Cardinality(f[N]) = N
      BY <1>1, <2>1, <3>1, FS_Subset, FS_CardinalityType
    <3>3. f[N] = Tasks
      BY <1>1, <3>1, <3>2, FS_Subset
    <3> QED
      BY <3>3 DEF NewlyUnsatisfiable
  <2> QED
    BY <1>3, <2>1
<1>6. U \subseteq f[N]
  BY <1>3, <1>4, <1>5 DEF Unsatisfiable
<1> QED
  BY <1>2, <1>3, <1>6
=============================================================================
