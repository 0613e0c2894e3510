----------------------------- MODULE MCBusiness -----------------------------
(* A model-checking instance of Business. *)
EXTENDS Business, TLC

CONSTANTS p1, p2, s1, s2

(* Either two customers compete for the slots, or the worker is restarted  *)
(* while it serves one.                                                    *)
Cases ==
  \/ restarts = 0
  \/ Cardinality({p \in Process : facts[p] # NoFacts \/ attempt[p] # None}) <= 1

Symmetry == Permutations(Process) \cup Permutations(Slots)
=============================================================================
