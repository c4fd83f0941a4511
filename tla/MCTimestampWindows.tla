------------------------ MODULE MCTimestampWindows ------------------------
(* One source task run with a retry, and two runs of the reader's task. *)
EXTENDS TimestampWindows, TLC

SameRuns == Permutations(Runs)
=============================================================================
