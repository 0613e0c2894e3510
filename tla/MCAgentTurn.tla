---------------------------- MODULE MCAgentTurn ----------------------------
(* A model-checking instance of AgentTurn: usages, prices and caps, and    *)
(* what happens in a behaviour.  A small call costs nothing, for its cost  *)
(* is rounded down.                                                        *)
EXTENDS AgentTurn, TLC

CONSTANTS p1, p2, e1, e2, e3

Small == [input |-> 1, output |-> 0]
Large == [input |-> 1, output |-> 1]
Usages == {Small, Large}
OnePrice == [input |-> 1, output |-> 2]
TightBudget == [input |-> 2, output |-> 2, total |-> 3, cost |-> 2]
TightCaps == [tokens |-> 4, cost |-> 3]

(* A behaviour is about one of these: two processes that share a cap; the  *)
(* retries of one process's turn after an execution was given up; the      *)
(* operator's switches during a turn.                                      *)
Scripts ==
  {[processes |-> {p1, p2}, turns |-> 2, switches |-> 0, crashes |-> 1,
    invalid |-> 0, timeouts |-> 0],
   [processes |-> {p1}, turns |-> 1, switches |-> 0, crashes |-> 1,
    invalid |-> 1, timeouts |-> 1],
   [processes |-> {p1}, turns |-> 2, switches |-> 2, crashes |-> 0,
    invalid |-> 1, timeouts |-> 0],
   [processes |-> {p1}, turns |-> 1, switches |-> 1, crashes |-> 0,
    invalid |-> 0, timeouts |-> 1]}

VARIABLE script

MCInit == Init /\ script \in Scripts

MCNext ==
  /\ Next
  /\ \A p \in Process : turn'[p] <= IF p \in script.processes THEN script.turns ELSE 0
  /\ happened'["switches"] <= script.switches
  /\ happened'["crashes"] <= script.crashes
  /\ happened'["invalid"] <= script.invalid
  /\ happened'["timeouts"] <= script.timeouts
  /\ UNCHANGED script

MCSpec == MCInit /\ [][MCNext]_<<vars, script>> /\ Fairness
=============================================================================
