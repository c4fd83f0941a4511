--------------------------- MODULE MCResourceLocks ---------------------------
(* Two targets.  The retention of one table needs the first, an attempt of  *)
(* an agent the second, a local attempt both.                               *)
EXTENDS ResourceLocks

CONSTANTS action, child, agent

OneOrBoth ==
    [h \in {action, child, agent} |->
        CASE h = action -> {1} [] h = agent -> {2} [] h = child -> {1, 2}]
=============================================================================
