----------------------------- MODULE MCOperators -----------------------------
(* A model-checking instance of Tenancy, Breakers and Timeline, which      *)
(* share no state: a behaviour is one of one of them.                      *)
EXTENDS Tenancy, Breakers, Timeline, TLC

CONSTANTS a1, a2, c1, r1, all, models, o1, o2, k1, i1, i2

ModelCalls == k1 :> models

VARIABLE script

MCInit ==
  /\ TenancyInit /\ BreakersInit /\ TimelineInit
  /\ script \in {"tenancy", "breakers", "turns", "writers"}

MCNext ==
  /\ UNCHANGED script
  /\ \/ /\ script = "tenancy" /\ TenancyNext
        /\ UNCHANGED <<breakers, timeline>>
     \/ /\ script = "breakers" /\ BreakersNext
        /\ UNCHANGED <<tenancy, timeline>>
     \/ /\ script = "turns" /\ step < 7 /\ TimelineNext
        /\ \A w \in Writer \ {"worker"} : open'[w] = {}
        /\ UNCHANGED <<tenancy, breakers>>
     \/ /\ script = "writers" /\ step < 7 /\ TimelineNext
        /\ time' <= 2 /\ Cardinality(Written') <= 4
        /\ UNCHANGED <<tenancy, breakers>>

MCSpec == MCInit /\ [][MCNext]_<<tenancy, breakers, timeline, script>>

Symmetry == Permutations(Operator) \cup Permutations(Admin)
            \cup Permutations(EventId)
=============================================================================
