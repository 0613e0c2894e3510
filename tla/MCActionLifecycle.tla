-------------------------- MODULE MCActionLifecycle --------------------------
(* A model-checking instance of ActionLifecycle. *)
EXTENDS ActionLifecycle, FiniteSets, TLC

(* Executors and payloads are interchangeable; nothing is ordered by them. *)
Symmetry == Permutations(Executors) \cup Permutations(Payloads)

(* The cases worth the states: an action of an adapter without idempotency *)
(* with everything around it; one with idempotency whose executors die and *)
(* are replaced; or both of one process, as long as no call is lost and no *)
(* command is given.                                                       *)
Proposed == {a \in Actions : request[a] # "none"}
Reviewed == {c \in Commands : command[c] # NoMessage}
Busy == {e \in Executors : pc[e] # "idle"}

Cases ==
  \/ Proposed \cap IdempotentActions = {}
  \/ /\ Reviewed = {} /\ Cardinality(Busy) <= 1
     /\ Cardinality(Proposed) = 1 \/ (inflight = {} /\ outbox = {})
     /\ \A a \in Proposed : policy[a] = "allow"
     /\ \A a, b \in Proposed : payload[a] = payload[b]
=============================================================================
