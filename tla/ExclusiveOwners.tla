--------------------------- MODULE ExclusiveOwners ---------------------------
(***************************************************************************)
(* What resource locks promise those who write to a target: a holder takes *)
(* all its keys at once, writes only while it has them, and loses them     *)
(* only when it neither works nor has a statement in the warehouse.        *)
(***************************************************************************)
CONSTANTS Keys, Holders, Wants, None

VARIABLES
    owner,      \* who has each key
    working,    \* the holders that do the work their keys protect
    writing     \* the holders with a statement in the warehouse

vars == <<owner, working, writing>>

TypeOK ==
    /\ owner \in [Keys -> Holders \cup {None}]
    /\ working \subseteq Holders
    /\ writing \subseteq Holders

Has(h) == \A k \in Wants[h] : owner[k] = h

Idle(h) == h \notin working /\ h \notin writing

Init ==
    /\ owner = [k \in Keys |-> None]
    /\ working = {}
    /\ writing = {}

Take(h) ==
    /\ h \notin working
    /\ \A k \in Wants[h] : owner[k] = None \/ Idle(owner[k])
    /\ owner' = [k \in Keys |-> IF k \in Wants[h] THEN h ELSE owner[k]]
    /\ UNCHANGED <<working, writing>>

Work(h) ==
    /\ Has(h)
    /\ working' = working \cup {h}
    /\ UNCHANGED <<owner, writing>>

Write(h) ==
    /\ h \in working
    /\ writing' = writing \cup {h}
    /\ UNCHANGED <<owner, working>>

EndWrite(h) ==
    /\ writing' = writing \ {h}
    /\ UNCHANGED <<owner, working>>

\* Done, failed, fenced or dead: what it asked of the warehouse goes on.
Stop(h) ==
    /\ working' = working \ {h}
    /\ UNCHANGED <<owner, writing>>

Drop(h) ==
    /\ Idle(h)
    /\ owner' = [k \in Keys |-> IF owner[k] = h THEN None ELSE owner[k]]
    /\ UNCHANGED <<working, writing>>

Next ==
    \E h \in Holders : Take(h) \/ Work(h) \/ Write(h) \/ EndWrite(h) \/ Stop(h) \/ Drop(h)

Spec == Init /\ [][Next]_vars

=============================================================================
