--------------------------- MODULE MCRunLifecycle ---------------------------
(* Instances of RunLifecycle for TLC.  Tasks are interchangeable and so    *)
(* are supervisors and runs where every run is exclusive; symmetry is used *)
(* only by the safety runs.                                                *)
EXTENDS RunLifecycle, TLC

Symmetry == Permutations(Tasks) \cup Permutations(Supervisors) \cup Permutations(Runs)
=============================================================================
