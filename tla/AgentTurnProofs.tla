-------------------------- MODULE AgentTurnProofs --------------------------
(***************************************************************************)
(* Proofs about AgentTurn for any processes, executions, usages, prices,   *)
(* budgets and bounds: the ledger holds what the provider reported, once;  *)
(* a block stops every execution after at most one call; and spend exceeds *)
(* a budget by less than one call.                                         *)
(***************************************************************************)
EXTENDS AgentTurn, FiniteSetTheorems, WellFoundedInduction, TLAPS

(* Some natural numbers have a least one. *)
LEMMA LeastNatural ==
  ASSUME NEW S, S \subseteq Nat, S # {}
  PROVE  \E x \in S : \A y \in S : x <= y
<1> DEFINE Less == {ss \in Nat \X Nat : ss[1] < ss[2]}
<1>1. IsWellFoundedOn(Less, Nat)
  BY NatLessThanWellFounded DEF OpToRel
<1> HIDE DEF Less
<1>2. PICK x \in S : \A y \in S : ~(<<y, x>> \in Less)
  BY <1>1, WFMin
<1>3. ASSUME NEW y \in S PROVE x <= y
  <2>1. x \in Nat /\ y \in Nat /\ ~(<<y, x>> \in Less)
    BY <1>2
  <2>2. ~(y < x)
    BY <2>1 DEF Less
  <2> QED
    BY <2>1, <2>2
<1> QED
  BY <1>3

(* Some finite sets have a smallest one: induction over finite sets. *)
LEMMA SmallestSet ==
  ASSUME NEW C, C # {}, \A S \in C : IsFiniteSet(S)
  PROVE  \E S \in C : \A T \in C : ~(Cardinality(T) < Cardinality(S))
<1> DEFINE N == {Cardinality(S) : S \in C}
<1>1. N \subseteq Nat /\ N # {}
  BY FS_CardinalityType
<1>2. PICK n \in N : \A m \in N : n <= m
  <2> HIDE DEF N
  <2> QED
    BY <1>1, LeastNatural
<1>3. PICK S \in C : Cardinality(S) = n
  BY <1>2
<1>4. ASSUME NEW T \in C PROVE ~(Cardinality(T) < Cardinality(S))
  <2>1. Cardinality(T) \in N
    OBVIOUS
  <2> HIDE DEF N
  <2>2. n <= Cardinality(T) /\ n \in Nat /\ Cardinality(T) \in Nat
    BY <1>1, <1>2, <2>1
  <2> QED
    BY <1>3, <2>2
<1> QED
  BY <1>4

-----------------------------------------------------------------------------
(* Sums over finite sets, as MapThenSumSet computes them. *)

Any(s) == CHOOSE x \in s : TRUE

(* it adds up f over every subset of S. *)
Adds(it, f, S) ==
  it = [s \in SUBSET S |-> IF s = {} THEN 0
                           ELSE f[Any(s)] + it[s \ {Any(s)}]]

Sum(f, S) == (CHOOSE it : Adds(it, f, S))[S]

(* A set without one of its elements is finite, and smaller. *)
LEMMA Without ==
  ASSUME NEW s, IsFiniteSet(s), s # {}
  PROVE  /\ Any(s) \in s /\ IsFiniteSet(s \ {Any(s)})
         /\ Cardinality(s \ {Any(s)}) < Cardinality(s)
<1>1. Any(s) \in s
  BY DEF Any
<1>2. /\ IsFiniteSet(s \ {Any(s)})
      /\ Cardinality(s \ {Any(s)}) = Cardinality(s) - 1
  BY <1>1, FS_RemoveElement
<1>3. Cardinality(s) \in Nat
  BY FS_CardinalityType
<1> QED
  BY <1>1, <1>2, <1>3

(* A strict subset is smaller. *)
LEMMA Smaller ==
  ASSUME NEW S, IsFiniteSet(S), NEW T \in SUBSET S, T # S
  PROVE  IsFiniteSet(T) /\ Cardinality(T) < Cardinality(S)
<1>1. /\ IsFiniteSet(T) /\ Cardinality(T) <= Cardinality(S)
      /\ Cardinality(S) # Cardinality(T)
  BY FS_Subset
<1>2. Cardinality(T) \in Nat /\ Cardinality(S) \in Nat
  BY <1>1, FS_CardinalityType
<1> QED
  BY <1>1, <1>2

(* Two such functions agree where both are defined. *)
LEMMA AddsAgree ==
  ASSUME NEW f, NEW S, NEW T, NEW a, NEW b, Adds(a, f, S), Adds(b, f, T),
         NEW s, s \subseteq S, s \subseteq T, IsFiniteSet(s)
  PROVE  a[s] = b[s]
<1> DEFINE C == {u \in SUBSET s : a[u] # b[u]}
<1> SUFFICES ASSUME C # {} PROVE FALSE
  OBVIOUS
<1>1. \A u \in C : IsFiniteSet(u)
  BY FS_Subset
<1>2. PICK u \in C : \A t \in C : ~(Cardinality(t) < Cardinality(u))
  <2> HIDE DEF C
  <2> QED
    BY <1>1, SmallestSet
<1>3. u \subseteq s /\ a[u] # b[u] /\ IsFiniteSet(u)
  BY <1>1
<1>4. u # {}
  BY <1>3 DEF Adds
<1>5. PICK v : v = u \ {Any(u)}
  OBVIOUS
<1>6. v \subseteq s /\ a[v] = b[v]
  <2>1. v \in SUBSET s /\ Cardinality(v) < Cardinality(u)
    BY <1>3, <1>4, <1>5, Without
  <2>2. v \notin C
    <3> HIDE DEF C
    <3> QED
      BY <1>2, <2>1
  <2> QED
    BY <2>1, <2>2
<1>7. a[u] = f[Any(u)] + a[v]
  BY <1>3, <1>4, <1>5 DEF Adds
<1>8. b[u] = f[Any(u)] + b[v]
  BY <1>3, <1>4, <1>5 DEF Adds
<1> QED
  BY <1>3, <1>6, <1>7, <1>8

(* There is one for every finite set: the smallest set without one would   *)
(* have one.                                                               *)
LEMMA AddsExists ==
  ASSUME NEW f, NEW S, IsFiniteSet(S)
  PROVE  \E it : Adds(it, f, S)
<1> DEFINE C == {s \in SUBSET S : ~\E it : Adds(it, f, s)}
<1> SUFFICES ASSUME C # {} PROVE FALSE
  OBVIOUS
<1>1. \A u \in C : IsFiniteSet(u)
  BY FS_Subset
<1>2. PICK u \in C : \A t \in C : ~(Cardinality(t) < Cardinality(u))
  <2> HIDE DEF C
  <2> QED
    BY <1>1, SmallestSet
<1>3. u \subseteq S /\ IsFiniteSet(u) /\ ~\E it : Adds(it, f, u)
  BY <1>1
<1> DEFINE At(s) == (CHOOSE it : Adds(it, f, s))[s]
<1>4. ASSUME NEW s \in SUBSET u, s # u
      PROVE  /\ \E it : Adds(it, f, s)
             /\ Adds(CHOOSE it : Adds(it, f, s), f, s)
  <2>1. s \in SUBSET S /\ Cardinality(s) < Cardinality(u)
    BY <1>3, <1>4, Smaller
  <2>2. s \notin C
    <3> HIDE DEF C
    <3> QED
      BY <1>2, <2>1
  <2>3. \E it : Adds(it, f, s)
    BY <2>1, <2>2
  <2> QED
    BY <2>3
<1>5. ASSUME NEW s \in SUBSET u, s # u
      PROVE  At(s) = IF s = {} THEN 0 ELSE f[Any(s)] + At(s \ {Any(s)})
  <2>1. CASE s = {}
    <3>1. PICK a : a = CHOOSE it : Adds(it, f, s)
      OBVIOUS
    <3>2. Adds(a, f, s)
      BY <1>4, <1>5, <3>1
    <3>3. a[s] = 0
      BY <2>1, <3>2 DEF Adds
    <3> QED
      BY <2>1, <3>1, <3>3
  <2>2. CASE s # {}
    <3>1. IsFiniteSet(s)
      BY <1>3, FS_Subset
    <3>2. PICK v : v = s \ {Any(s)}
      OBVIOUS
    <3>3. Any(s) \in s /\ IsFiniteSet(v)
      BY <2>2, <3>1, <3>2, Without
    <3>4. v \in SUBSET u /\ v # u /\ v \subseteq s
      BY <3>2, <3>3
    <3>5. PICK a : a = CHOOSE it : Adds(it, f, s)
      OBVIOUS
    <3>6. PICK b : b = CHOOSE it : Adds(it, f, v)
      OBVIOUS
    <3>7. Adds(a, f, s) /\ Adds(b, f, v)
      BY <1>4, <1>5, <3>4, <3>5, <3>6
    <3>8. a[v] = b[v]
      BY <3>3, <3>4, <3>7, AddsAgree
    <3>9. a[s] = f[Any(s)] + a[v]
      BY <2>2, <3>2, <3>7 DEF Adds
    <3> QED
      BY <2>2, <3>2, <3>5, <3>6, <3>8, <3>9
  <2> QED
    BY <2>1, <2>2
<1> HIDE DEF At
<1> DEFINE G == [s \in SUBSET u |-> IF s = {} THEN 0
                                    ELSE f[Any(s)] + At(s \ {Any(s)})]
<1>6. ASSUME NEW s \in SUBSET u, s # {} PROVE G[s \ {Any(s)}] = At(s \ {Any(s)})
  <2>1. PICK v : v = s \ {Any(s)}
    OBVIOUS
  <2>2. Any(s) \in s
    BY <1>6 DEF Any
  <2>3. v \in SUBSET u /\ v # u
    BY <2>1, <2>2
  <2>4. G[v] = At(v)
    BY <1>5, <2>3
  <2> QED
    BY <2>1, <2>4
<1>7. G = [s \in SUBSET u |-> IF s = {} THEN 0
                             ELSE f[Any(s)] + G[s \ {Any(s)}]]
  BY <1>6
<1>8. Adds(G, f, u)
  BY <1>7 DEF Adds
<1> QED
  BY <1>3, <1>8

(* The sum over a finite set. *)
LEMMA SumRecursion ==
  ASSUME NEW f, NEW S, IsFiniteSet(S)
  PROVE  /\ \A it : Adds(it, f, S) => it[S] = Sum(f, S)
         /\ S = {} => Sum(f, S) = 0
         /\ S # {} => Sum(f, S) = f[Any(S)] + Sum(f, S \ {Any(S)})
<1>1. PICK a : a = CHOOSE it : Adds(it, f, S)
  OBVIOUS
<1>2. Adds(a, f, S) /\ Sum(f, S) = a[S]
  BY <1>1, AddsExists DEF Sum
<1>3. \A it : Adds(it, f, S) => it[S] = Sum(f, S)
  BY <1>2, AddsAgree
<1>4. S = {} => Sum(f, S) = 0
  BY <1>2 DEF Adds
<1>5. ASSUME S # {} PROVE Sum(f, S) = f[Any(S)] + Sum(f, S \ {Any(S)})
  <2>1. PICK v : v = S \ {Any(S)}
    OBVIOUS
  <2>2. IsFiniteSet(v) /\ v \subseteq S
    BY <1>5, <2>1, Without
  <2>3. PICK b : b = CHOOSE it : Adds(it, f, v)
    OBVIOUS
  <2>4. Adds(b, f, v) /\ Sum(f, v) = b[v]
    BY <2>2, <2>3, AddsExists DEF Sum
  <2>5. a[v] = b[v]
    BY <1>2, <2>2, <2>4, AddsAgree
  <2>6. a[S] = f[Any(S)] + a[v]
    BY <1>2, <1>5, <2>1 DEF Adds
  <2> QED
    BY <1>2, <2>1, <2>4, <2>5, <2>6
<1> QED
  BY <1>3, <1>4, <1>5

(* Sums of numbers are numbers, and one more element adds its number. *)
LEMMA SumNat ==
  ASSUME NEW D, NEW f \in [D -> Nat], NEW S, IsFiniteSet(S), S \subseteq D
  PROVE  Sum(f, S) \in Nat
<1> DEFINE C == {s \in SUBSET S : Sum(f, s) \notin Nat}
<1> SUFFICES ASSUME C # {} PROVE FALSE
  OBVIOUS
<1>1. \A u \in C : IsFiniteSet(u)
  BY FS_Subset
<1>2. PICK u \in C : \A t \in C : ~(Cardinality(t) < Cardinality(u))
  <2> HIDE DEF C
  <2> QED
    BY <1>1, SmallestSet
<1>3. u \subseteq S /\ IsFiniteSet(u) /\ Sum(f, u) \notin Nat
  BY <1>1
<1>4. u # {}
  <2>1. u = {} => Sum(f, u) = 0
    BY <1>3, SumRecursion
  <2> QED
    BY <1>3, <2>1
<1>5. PICK v : v = u \ {Any(u)}
  OBVIOUS
<1>6. Sum(f, v) \in Nat
  <2>1. v \in SUBSET S /\ Cardinality(v) < Cardinality(u)
    BY <1>3, <1>4, <1>5, Without
  <2>2. v \notin C
    <3> HIDE DEF C
    <3> QED
      BY <1>2, <2>1
  <2> QED
    BY <2>1, <2>2
<1>7. f[Any(u)] \in Nat
  BY <1>3, <1>4, Without
<1>8. Sum(f, u) = f[Any(u)] + Sum(f, v)
  BY <1>3, <1>4, <1>5, SumRecursion
<1> QED
  BY <1>3, <1>6, <1>7, <1>8

(* In whichever order the elements are added. *)
LEMMA SumAdd ==
  ASSUME NEW D, NEW f \in [D -> Nat], NEW S, IsFiniteSet(S), S \subseteq D,
         NEW x \in D, x \notin S
  PROVE  Sum(f, S \cup {x}) = f[x] + Sum(f, S)
<1> DEFINE Wrong(s, y) == Sum(f, s \cup {y}) # f[y] + Sum(f, s)
           C == {s \in SUBSET (S \cup {x}) :
                   \E y \in D : y \notin s /\ Wrong(s, y)}
<1> SUFFICES ASSUME C # {} PROVE FALSE
  <2>1. S \in SUBSET (S \cup {x})
    OBVIOUS
  <2>2. C = {}
    OBVIOUS
  <2>3. S \notin C
    <3> HIDE DEF C
    <3> QED
      BY <2>2
  <2> QED
    BY <2>1, <2>3
<1>1. IsFiniteSet(S \cup {x})
  BY FS_AddElement
<1>2. \A u \in C : IsFiniteSet(u)
  BY <1>1, FS_Subset
<1>3. PICK u \in C : \A t \in C : ~(Cardinality(t) < Cardinality(u))
  <2> HIDE DEF C
  <2> QED
    BY <1>2, SmallestSet
<1>4. u \subseteq S \cup {x} /\ IsFiniteSet(u) /\ u \subseteq D
  BY <1>2
<1>5. PICK y \in D : y \notin u /\ Wrong(u, y)
  OBVIOUS
<1>6. ASSUME NEW s, s \subseteq u, s # u, NEW z \in D, z \notin s
      PROVE  Sum(f, s \cup {z}) = f[z] + Sum(f, s)
  <2>1. s \in SUBSET (S \cup {x}) /\ Cardinality(s) < Cardinality(u)
    BY <1>4, <1>6, Smaller
  <2>2. s \notin C
    <3> HIDE DEF C
    <3> QED
      BY <1>3, <2>1
  <2> QED
    BY <1>6, <2>1, <2>2
<1> HIDE DEF C
<1>7. PICK t : t = u \cup {y}
  OBVIOUS
<1>8. IsFiniteSet(t) /\ t # {}
  BY <1>4, <1>7, FS_AddElement
<1>9. PICK c : c = Any(t)
  OBVIOUS
<1>10. c \in t /\ Sum(f, t) = f[c] + Sum(f, t \ {c})
  BY <1>8, <1>9, Without, SumRecursion
<1>11. CASE c = y
  <2>1. t \ {c} = u
    BY <1>5, <1>7, <1>11
  <2> QED
    BY <1>5, <1>7, <1>10, <1>11, <2>1
<1>12. CASE c # y
  <2>1. PICK s : s = u \ {c}
    OBVIOUS
  <2>2. /\ c \in u /\ c \in D /\ s \subseteq u /\ s # u /\ c \notin s
        /\ y \notin s /\ t \ {c} = s \cup {y} /\ s \cup {c} = u
    BY <1>4, <1>5, <1>7, <1>10, <1>12, <2>1
  <2>3. Sum(f, s \cup {y}) = f[y] + Sum(f, s)
    BY <1>6, <2>2
  <2>4. Sum(f, s \cup {c}) = f[c] + Sum(f, s)
    BY <1>6, <2>2
  <2>5. Sum(f, s) \in Nat /\ f[y] \in Nat /\ f[c] \in Nat
    <3>1. IsFiniteSet(s) /\ s \subseteq D
      BY <1>4, <2>2, FS_Subset
    <3> QED
      BY <2>2, <3>1, SumNat
  <2>6. Sum(f, t) = f[y] + Sum(f, u)
    <3>1. Sum(f, t) = f[c] + (f[y] + Sum(f, s))
      BY <1>10, <2>2, <2>3
    <3>2. Sum(f, u) = f[c] + Sum(f, s)
      BY <2>2, <2>4
    <3> QED
      BY <2>5, <3>1, <3>2
  <2> QED
    BY <1>5, <1>7, <2>6
<1> QED
  BY <1>11, <1>12

(* What MapThenSumSet computes is such a sum. *)
LEMMA TokensAreSums ==
  ASSUME NEW S, IsFiniteSet(S), S \subseteq Rows
  PROVE  Tokens(S) = Sum([r \in Rows |-> r.usage.input], S)
                     + Sum([r \in Rows |-> r.usage.output], S)
<1>1. Spent(S).input = Sum([r \in Rows |-> r.usage.input], S)
  <2> DEFINE f == [r \in Rows |-> r.usage.input]
             P(it) == it = [s \in SUBSET S |->
                              IF s = {} THEN 0
                              ELSE (CHOOSE x \in s : TRUE).usage.input
                                   + it[s \ {CHOOSE x \in s : TRUE}]]
  <2>1. Spent(S).input = (CHOOSE it : P(it))[S]
    BY DEF Spent, MapThenSumSet, MapThenFoldSet
  <2>2. \A s \in SUBSET S : s # {} =>
          f[Any(s)] = (CHOOSE x \in s : TRUE).usage.input
    BY DEF Any
  <2>3. ASSUME NEW it PROVE P(it) <=> Adds(it, f, S)
    BY <2>2 DEF Adds, Any
  <2>4. \E it : P(it)
    <3>1. PICK it : Adds(it, f, S)
      BY AddsExists
    <3> HIDE DEF P, f
    <3> QED
      BY <2>3, <3>1
  <2>5. PICK a : a = CHOOSE it : P(it)
    OBVIOUS
  <2>6. P(a)
    BY <2>4, <2>5
  <2>7. Adds(a, f, S)
    BY <2>3, <2>6
  <2>8. a[S] = Sum(f, S)
    BY <2>7, SumRecursion
  <2> QED
    BY <2>1, <2>5, <2>8
<1>2. Spent(S).output = Sum([r \in Rows |-> r.usage.output], S)
  <2> DEFINE f == [r \in Rows |-> r.usage.output]
             P(it) == it = [s \in SUBSET S |->
                              IF s = {} THEN 0
                              ELSE (CHOOSE x \in s : TRUE).usage.output
                                   + it[s \ {CHOOSE x \in s : TRUE}]]
  <2>1. Spent(S).output = (CHOOSE it : P(it))[S]
    BY DEF Spent, MapThenSumSet, MapThenFoldSet
  <2>2. \A s \in SUBSET S : s # {} =>
          f[Any(s)] = (CHOOSE x \in s : TRUE).usage.output
    BY DEF Any
  <2>3. ASSUME NEW it PROVE P(it) <=> Adds(it, f, S)
    BY <2>2 DEF Adds, Any
  <2>4. \E it : P(it)
    <3>1. PICK it : Adds(it, f, S)
      BY AddsExists
    <3> HIDE DEF P, f
    <3> QED
      BY <2>3, <3>1
  <2>5. PICK a : a = CHOOSE it : P(it)
    OBVIOUS
  <2>6. P(a)
    BY <2>4, <2>5
  <2>7. Adds(a, f, S)
    BY <2>3, <2>6
  <2>8. a[S] = Sum(f, S)
    BY <2>7, SumRecursion
  <2> QED
    BY <2>1, <2>5, <2>8
<1> QED
  BY <1>1, <1>2 DEF Tokens

-----------------------------------------------------------------------------
(* What the steps do. *)

Live == {"load", "fence", "call", "wait", "record", "validate"}

(* The report that a row of the ledger records. *)
Report(r) ==
  [process |-> r.process, turn |-> r.turn, execution |-> r.execution,
   attempt |-> r.attempt, usage |-> r.usage]

(* No execution moves; Temporal may give one up. *)
Outside ==
  /\ UNCHANGED <<execution, ledger, reported>>
  /\ current' = current \/ happened'["timeouts"] # 0

Loaded(e) ==
  /\ pc[e] = "load" /\ pc' = [pc EXCEPT ![e] = "fence"]
  /\ attempt' = [attempt EXCEPT ![e] = 1]
  /\ UNCHANGED <<current, process, of, outcome, late, ledger, reported>>

Passed(e) ==
  /\ pc[e] = "fence" /\ pc' = [pc EXCEPT ![e] = "call"]
  /\ ~Blocked(process[e], of[e])
  /\ late' = [late EXCEPT ![e] = 0]
  /\ UNCHANGED <<current, process, of, attempt, outcome, ledger, reported>>

Called(e) ==
  /\ pc[e] = "call" /\ pc' = [pc EXCEPT ![e] = "wait"]
  /\ late' = late \/ late' = [late EXCEPT ![e] = @ + 1]
  /\ UNCHANGED <<current, process, of, attempt, outcome, ledger, reported>>

Recorded(e) ==
  LET same == {r \in ledger : Identity(r) = Identity(NewRow(e))}
  IN
  /\ pc[e] = "record" /\ pc' = [pc EXCEPT ![e] = "validate"]
  /\ ledger' = IF same = {} THEN ledger \cup {NewRow(e)} ELSE ledger
  /\ UNCHANGED <<current, process, of, attempt, outcome, late, reported>>

Corrected(e) ==
  /\ pc[e] = "validate" /\ pc' = [pc EXCEPT ![e] = "fence"]
  /\ attempt[e] <= MaxCorrections
  /\ attempt' = [attempt EXCEPT ![e] = @ + 1]
  /\ UNCHANGED <<current, process, of, outcome, late, ledger, reported>>

(* The execution ends, and is no longer waited for. *)
Ends(e) ==
  /\ pc[e] \in Live /\ pc' = [pc EXCEPT ![e] = "ended"]
  /\ current' = IF current[process[e]] = e
                THEN [current EXCEPT ![process[e]] = NoExecution]
                ELSE current
  /\ reported \subseteq reported'
  /\ UNCHANGED <<process, of, attempt, outcome, late, ledger>>

(* Every step is one of these. *)
LEMMA StepKinds ==
  ASSUME TypeOK, [Next]_vars
  PROVE  /\ happened'["timeouts"] = 0 => happened["timeouts"] = 0
         /\ \/ Outside
            \/ \E p \in Process : Schedule(p)
            \/ \E e \in Execution :
                 \/ Loaded(e) \/ Passed(e) \/ Called(e) \/ Answer(e)
                 \/ Recorded(e) \/ Corrected(e) \/ Ends(e)
<1> USE DEF execution, Happenings
<1>1. happened \in [Happenings -> Nat]
  BY DEF TypeOK
<1>2. ASSUME NEW e \in Execution, NEW result, pc[e] \in Live,
             Settle(e, result), reported \subseteq reported',
             UNCHANGED <<outcome, late, ledger>>
      PROVE  Ends(e)
  BY <1>2 DEF Settle, Ends
<1>3. ASSUME NEW p \in Process, StartTurn(p) \/ GiveUp(p) \/ Recheck(p)
      PROVE  Outside /\ happened' = happened
  BY <1>3 DEF StartTurn, GiveUp, Recheck, Outside
<1>4. ASSUME NEW p \in Process, Timeout(p)
      PROVE  Outside /\ happened'["timeouts"] # 0
  BY <1>1, <1>4 DEF Timeout, Outside
<1>5. ASSUME NEW p \in Process, Schedule(p) PROVE happened' = happened
  BY <1>5 DEF Schedule
<1>6. ASSUME NEW e \in Execution, Load(e)
      PROVE  (Loaded(e) \/ Ends(e)) /\ happened' = happened
  <2>1. pc[e] \in Live
    BY <1>6 DEF Load, Live
  <2> QED
    BY <1>2, <1>6, <2>1 DEF Load, Loaded
<1>7. ASSUME NEW e \in Execution, Fence(e)
      PROVE  (Passed(e) \/ Ends(e)) /\ happened' = happened
  <2>1. pc[e] \in Live
    BY <1>7 DEF Fence, Live
  <2> QED
    BY <1>2, <1>7, <2>1 DEF Fence, Passed
<1>8. ASSUME NEW e \in Execution, Call(e)
      PROVE  (Called(e) \/ Ends(e)) /\ happened' = happened
  <2>1. pc[e] \in Live /\ late \in [Execution -> Nat]
    BY <1>8 DEF Call, Live, TypeOK
  <2>2. CASE \E result : Settle(e, result) /\ UNCHANGED
               <<outcome, late, ledger, reported, happened>>
    BY <1>2, <2>1, <2>2
  <2>3. CASE Called(e) /\ happened' = happened
    BY <2>3
  <2>4. late = [late EXCEPT ![e] = @]
    BY <2>1
  <2> QED
    BY <1>8, <2>1, <2>2, <2>3, <2>4 DEF Call, Called
<1>9. ASSUME NEW e \in Execution, Answer(e) PROVE happened' = happened
  BY <1>9 DEF Answer
<1>10. ASSUME NEW e \in Execution, Record(e)
       PROVE  (Recorded(e) \/ Ends(e)) /\ happened' = happened
  <2>1. pc[e] \in Live
    BY <1>10 DEF Record, Live
  <2> QED
    BY <1>2, <1>10, <2>1 DEF Record, Recorded
<1>11. ASSUME NEW e \in Execution, Validate(e)
       PROVE  (Corrected(e) \/ Ends(e)) /\ happened' = happened
  <2>1. pc[e] \in Live
    BY <1>11 DEF Validate, Live
  <2> QED
    BY <1>2, <1>11, <2>1 DEF Validate, Corrected
<1>12. ASSUME NEW e \in Execution, InvalidOutput(e) \/ Crash(e)
       PROVE  Ends(e) /\ happened'["timeouts"] = happened["timeouts"]
  <2>1. pc[e] \in Live
    BY <1>12 DEF InvalidOutput, Crash, Live, TypeOK
  <2>2. happened'["timeouts"] = happened["timeouts"]
    BY <1>1, <1>12 DEF InvalidOutput, Crash
  <2>3. reported \subseteq reported' /\ Settle(e, "running")
    BY <1>12 DEF InvalidOutput, Crash
  <2>4. UNCHANGED <<outcome, late, ledger>>
    BY <1>12 DEF InvalidOutput, Crash
  <2> QED
    BY <1>2, <2>1, <2>2, <2>3, <2>4
<1>13. CASE SwitchTenant \/ SwitchBreaker
  <2>1. Outside
    BY <1>13 DEF SwitchTenant, SwitchBreaker, Outside
  <2>2. happened'["timeouts"] = happened["timeouts"]
    BY <1>1, <1>13 DEF SwitchTenant, SwitchBreaker
  <2> QED
    BY <2>1, <2>2
<1>14. CASE UNCHANGED vars
  BY <1>14 DEF vars, Outside
<1>15. CASE Next
  <2>1. CASE \E p \in Process : StartTurn(p) \/ Temporal(p) \/ Timeout(p)
    BY <1>3, <1>4, <1>5, <2>1 DEF Temporal
  <2>2. CASE \E e \in Execution : Run(e) \/ InvalidOutput(e) \/ Crash(e)
    BY <1>6, <1>7, <1>8, <1>9, <1>10, <1>11, <1>12, <2>2 DEF Run
  <2> QED
    BY <1>13, <1>15, <2>1, <2>2 DEF Next
<1> QED
  BY <1>14, <1>15

-----------------------------------------------------------------------------
(* The types. *)

(* The end of an execution keeps the types of what it changes. *)
LEMMA SettleType ==
  ASSUME TypeOK, NEW e \in Execution,
         NEW result \in {"running", "asleep", "decided", "intervention"},
         Settle(e, result)
  PROVE  /\ pc' \in [Execution -> {"unused", "load", "fence", "call", "wait",
                                   "record", "validate", "ended"}]
         /\ current' \in [Process -> Execution \cup {NoExecution}]
         /\ workflow' \in [Process -> {"idle", "running", "asleep", "decided",
                                       "intervention"}]
         /\ UNCHANGED <<turn, tries, process, of, attempt, tenant, breaker>>
BY DEF TypeOK, Settle

(* What the provider charges is a number. *)
LEMMA CostIsNatural ==
  ASSUME NEW u \in ModelUsage
  PROVE  EstimateCost(u) \in Nat
<1>1. \A m, n \in Nat : (m * n) \div Unit \in Nat
  BY AgentTurnAssumption
<1>2. /\ u.input \in Nat /\ u.output \in Nat
      /\ Price.input \in Nat /\ Price.output \in Nat
  BY AgentTurnAssumption DEF ModelUsage
<1>3. /\ (u.input * Price.input) \div Unit \in Nat
      /\ (u.output * Price.output) \div Unit \in Nat
  BY <1>1, <1>2
<1> QED
  BY <1>3 DEF EstimateCost

(* An execution that has been loaded counts its attempts from one, and has *)
(* the usage the provider reported when it is to record it.                *)
Prepared ==
  /\ \A e \in Execution : pc[e] \in Live \ {"load"} => attempt[e] >= 1
  /\ \A e \in Execution : pc[e] = "record" =>
       outcome[e] \in Usage /\ Report(NewRow(e)) \in reported

(* A new row is a row. *)
LEMMA NewRowType ==
  ASSUME TypeOK, Prepared, NEW e \in Execution, pc[e] = "record"
  PROVE  NewRow(e) \in Rows
<1>1. /\ outcome[e] \in Usage /\ attempt[e] \in 1 .. (MaxCorrections + 1)
      /\ process[e] \in Process /\ of[e] \in 0 .. MaxTurns
  BY AgentTurnAssumption DEF TypeOK, Prepared, Live
<1>2. EstimateCost(outcome[e]) \in Nat
  BY <1>1, CostIsNatural, AgentTurnAssumption
<1> QED
  BY <1>1, <1>2 DEF NewRow, Rows

(* Every step keeps the types. *)
LEMMA TypeStep ==
  ASSUME TypeOK, Prepared, [Next]_vars
  PROVE  TypeOK'
<1> USE DEF execution
<1>1. ASSUME NEW e \in Execution,
             NEW result \in {"running", "asleep", "decided", "intervention"},
             Settle(e, result), UNCHANGED <<outcome, late, ledger>>,
             happened' \in [Happenings -> Nat]
      PROVE  TypeOK'
  <2>1. /\ pc' \in [Execution -> {"unused", "load", "fence", "call", "wait",
                                  "record", "validate", "ended"}]
        /\ current' \in [Process -> Execution \cup {NoExecution}]
        /\ workflow' \in [Process -> {"idle", "running", "asleep", "decided",
                                      "intervention"}]
        /\ UNCHANGED <<turn, tries, process, of, attempt, tenant, breaker>>
    BY <1>1, SettleType
  <2> QED
    BY <1>1, <2>1 DEF TypeOK
<1>2. happened \in [Happenings -> Nat]
  BY DEF TypeOK
<1>3. ASSUME NEW p \in Process, StartTurn(p) PROVE TypeOK'
  BY <1>3, AgentTurnAssumption DEF StartTurn, TypeOK
<1>4. ASSUME NEW p \in Process, GiveUp(p) \/ Recheck(p) PROVE TypeOK'
  BY <1>4, AgentTurnAssumption DEF GiveUp, Recheck, TypeOK
<1>5. ASSUME NEW p \in Process, Timeout(p) PROVE TypeOK'
  BY <1>5, AgentTurnAssumption DEF Timeout, TypeOK, Happenings
<1>6. ASSUME NEW p \in Process, Schedule(p) PROVE TypeOK'
  <2>1. PICK e : e = CHOOSE x \in Unused : TRUE
    OBVIOUS
  <2>2. e \in Execution
    BY <1>6, <2>1 DEF Schedule, Unused
  <2>3. /\ pc' = [pc EXCEPT ![e] = "load"]
        /\ process' = [process EXCEPT ![e] = p]
        /\ of' = [of EXCEPT ![e] = turn[p]]
        /\ current' = [current EXCEPT ![p] = e]
    BY <1>6, <2>1 DEF Schedule
  <2>4. tries' \in [Process -> 0 .. MaxTries]
    BY <1>6, AgentTurnAssumption DEF Schedule, TypeOK
  <2>5. UNCHANGED <<workflow, turn, attempt, outcome, late, ledger, tenant,
                    breaker, happened>>
    BY <1>6 DEF Schedule
  <2>6. /\ pc' \in [Execution -> {"unused", "load", "fence", "call", "wait",
                                  "record", "validate", "ended"}]
        /\ process' \in [Execution -> Process]
        /\ of' \in [Execution -> 0 .. MaxTurns]
        /\ current' \in [Process -> Execution \cup {NoExecution}]
    BY <2>2, <2>3 DEF TypeOK
  <2> QED
    BY <2>4, <2>5, <2>6 DEF TypeOK
<1>7. ASSUME NEW e \in Execution, Load(e) PROVE TypeOK'
  <2>1. CASE \E r \in {"intervention", "asleep"} :
               Settle(e, r) /\ UNCHANGED <<outcome, late, ledger, happened>>
    BY <1>1, <1>2, <2>1
  <2>2. CASE /\ pc' = [pc EXCEPT ![e] = "fence"]
             /\ attempt' = [attempt EXCEPT ![e] = 1]
             /\ UNCHANGED <<workflow, turn, tries, current, process, of,
                            outcome, late, ledger, reported, tenant, breaker,
                            happened>>
    BY <2>2, AgentTurnAssumption DEF TypeOK
  <2> QED
    BY <1>7, <2>1, <2>2 DEF Load
<1>8. ASSUME NEW e \in Execution, Fence(e) PROVE TypeOK'
  <2>1. CASE \E r \in {"intervention", "asleep"} :
               Settle(e, r) /\ UNCHANGED <<outcome, late, ledger, happened>>
    BY <1>1, <1>2, <2>1
  <2>2. CASE /\ pc' = [pc EXCEPT ![e] = "call"]
             /\ late' = [late EXCEPT ![e] = 0]
             /\ UNCHANGED <<workflow, turn, tries, current, process, of,
                            attempt, outcome, ledger, reported, tenant,
                            breaker, happened>>
    BY <2>2 DEF TypeOK
  <2> QED
    BY <1>8, <2>1, <2>2 DEF Fence
<1>9. ASSUME NEW e \in Execution, Call(e) PROVE TypeOK'
  <2>1. CASE Settle(e, "intervention")
             /\ UNCHANGED <<outcome, late, ledger, happened>>
    BY <1>1, <1>2, <2>1
  <2>2. CASE /\ pc' = [pc EXCEPT ![e] = "wait"]
             /\ late' \in [Execution -> Nat]
             /\ UNCHANGED <<workflow, turn, tries, current, process, of,
                            attempt, outcome, ledger, reported, tenant,
                            breaker, happened>>
    BY <2>2 DEF TypeOK
  <2>3. late \in [Execution -> Nat]
    BY DEF TypeOK
  <2> QED
    BY <1>9, <2>1, <2>2, <2>3 DEF Call
<1>10. ASSUME NEW e \in Execution, Answer(e) PROVE TypeOK'
  BY <1>10 DEF Answer, TypeOK
<1>11. ASSUME NEW e \in Execution, InvalidOutput(e) \/ Crash(e) PROVE TypeOK'
  <2>1. happened' \in [Happenings -> Nat]
    BY <1>2, <1>11 DEF InvalidOutput, Crash, Happenings
  <2>2. Settle(e, "running") /\ UNCHANGED <<outcome, late, ledger>>
    BY <1>11 DEF InvalidOutput, Crash
  <2> QED
    BY <1>1, <2>1, <2>2
<1>12. ASSUME NEW e \in Execution, Record(e) PROVE TypeOK'
  <2>1. CASE Settle(e, "running")
             /\ UNCHANGED <<outcome, late, ledger, happened>>
    BY <1>1, <1>2, <2>1
  <2>2. CASE /\ ledger' \in {ledger \cup {NewRow(e)}, ledger}
             /\ pc' = [pc EXCEPT ![e] = "validate"]
             /\ UNCHANGED <<workflow, turn, tries, current, process, of,
                            attempt, outcome, late, reported, tenant, breaker,
                            happened>>
    <3>1. NewRow(e) \in Rows
      BY <1>12, NewRowType DEF Record
    <3> QED
      BY <2>2, <3>1 DEF TypeOK
  <2> QED
    BY <1>12, <2>1, <2>2 DEF Record
<1>13. ASSUME NEW e \in Execution, Validate(e) PROVE TypeOK'
  <2>1. CASE \E r \in {"decided", "intervention"} :
               Settle(e, r) /\ UNCHANGED <<outcome, late, ledger, happened>>
    BY <1>1, <1>2, <2>1
  <2>2. CASE /\ attempt[e] <= MaxCorrections
             /\ attempt' = [attempt EXCEPT ![e] = @ + 1]
             /\ pc' = [pc EXCEPT ![e] = "fence"]
             /\ UNCHANGED <<workflow, turn, tries, current, process, of,
                            outcome, late, ledger, reported, tenant, breaker,
                            happened>>
    BY <2>2, AgentTurnAssumption DEF TypeOK
  <2> QED
    BY <1>13, <2>1, <2>2 DEF Validate
<1>14. CASE SwitchTenant
  BY <1>14 DEF SwitchTenant, TypeOK, Happenings
<1>15. CASE SwitchBreaker
  <2>1. breaker' \in BOOLEAN
    BY <1>15 DEF SwitchBreaker, TypeOK
  <2> QED
    BY <1>15, <2>1 DEF SwitchBreaker, TypeOK, Happenings
<1>16. CASE UNCHANGED vars
  BY <1>16 DEF vars, TypeOK
<1>17. CASE Next
  <2>1. CASE \E p \in Process : StartTurn(p) \/ Temporal(p) \/ Timeout(p)
    BY <1>3, <1>4, <1>5, <1>6, <2>1 DEF Temporal
  <2>2. CASE \E e \in Execution : Run(e) \/ InvalidOutput(e) \/ Crash(e)
    BY <1>7, <1>8, <1>9, <1>10, <1>11, <1>12, <1>13, <2>2 DEF Run
  <2> QED
    BY <1>14, <1>15, <1>17, <2>1, <2>2 DEF Next
<1> QED
  BY <1>16, <1>17

-----------------------------------------------------------------------------
(* The ledger, and calls after a block. *)

(* A row belongs to an execution that has begun, which keeps its process   *)
(* and turn, and is a report of the provider.                              *)
RowsAreReports ==
  \A r \in ledger :
    /\ Report(r) \in reported
    /\ r.execution \in Execution /\ pc[r.execution] # "unused"
    /\ r.process = process[r.execution] /\ r.turn = of[r.execution]

(* No two rows are of one attempt of one execution. *)
RowsAreDistinct ==
  \A r, s \in ledger :
    r # s => r.execution # s.execution \/ r.attempt # s.attempt

(* What is validated has been recorded. *)
ValidatedIsRecorded ==
  \A e \in Execution : pc[e] = "validate" =>
    \E r \in ledger : r.execution = e /\ r.attempt = attempt[e]

(* A call that is allowed now is not late, nor has been any since. *)
LateCalls ==
  \A e \in Execution : late[e] <= 1 /\ (pc[e] = "call" => late[e] = 0)

LedgerInv ==
  Prepared /\ RowsAreReports /\ RowsAreDistinct /\ ValidatedIsRecorded

(* An execution starts. *)
LEMMA ScheduleEffect ==
  ASSUME TypeOK, NEW p \in Process, Schedule(p)
  PROVE  \E e \in Execution :
           /\ pc[e] = "unused" /\ pc' = [pc EXCEPT ![e] = "load"]
           /\ process' = [process EXCEPT ![e] = p]
           /\ of' = [of EXCEPT ![e] = turn[p]]
           /\ current[p] = NoExecution /\ current' = [current EXCEPT ![p] = e]
           /\ UNCHANGED <<attempt, outcome, late, ledger, reported>>
<1>1. PICK e : e = CHOOSE x \in Unused : TRUE
  OBVIOUS
<1>2. e \in Unused
  BY <1>1 DEF Schedule
<1>3. e \in Execution /\ pc[e] = "unused"
  BY <1>2 DEF Unused
<1>4. /\ pc' = [pc EXCEPT ![e] = "load"]
      /\ process' = [process EXCEPT ![e] = p]
      /\ of' = [of EXCEPT ![e] = turn[p]]
      /\ current[p] = NoExecution /\ current' = [current EXCEPT ![p] = e]
      /\ UNCHANGED <<attempt, outcome, late, ledger, reported>>
  BY <1>1 DEF Schedule
<1> QED
  BY <1>3, <1>4

(* The report of the row an execution is about to write. *)
LEMMA ReportOfNewRow ==
  \A e : Report(NewRow(e)) =
    [process |-> process[e], turn |-> of[e], execution |-> e,
     attempt |-> attempt[e], usage |-> outcome[e]]
BY DEF Report, NewRow

(* Every step keeps the ledger exact. *)
LEMMA LedgerStep ==
  ASSUME TypeOK, LedgerInv, [Next]_vars
  PROVE  LedgerInv'
<1> USE DEF execution
<1>1. /\ pc \in [Execution -> {"unused", "load", "fence", "call", "wait",
                               "record", "validate", "ended"}]
      /\ attempt \in [Execution -> Nat]
      /\ DOMAIN outcome = Execution /\ DOMAIN process = Execution
      /\ DOMAIN of = Execution /\ DOMAIN late = Execution
  BY AgentTurnAssumption DEF TypeOK
<1>2. Prepared /\ RowsAreReports /\ RowsAreDistinct /\ ValidatedIsRecorded
  BY DEF LedgerInv
<1>3. \A e : Report(NewRow(e))' =
        [process |-> process'[e], turn |-> of'[e], execution |-> e,
         attempt |-> attempt'[e], usage |-> outcome'[e]]
  BY DEF Report, NewRow
<1>4. ASSUME NEW e \in Execution, pc' = [pc EXCEPT ![e] = pc'[e]],
             pc'[e] \notin {"unused", "record", "validate"},
             pc[e] # "unused",
             pc'[e] \in Live \ {"load"} => attempt'[e] >= 1,
             \A d \in Execution \ {e} : attempt'[d] = attempt[d],
             outcome' = outcome, process' = process, of' = of,
             ledger' = ledger, reported \subseteq reported'
      PROVE  LedgerInv'
  <2>1. \A d \in Execution \ {e} : pc'[d] = pc[d]
    BY <1>1, <1>4
  <2>2. Prepared'
    <3>1. \A d \in Execution : pc'[d] \in Live \ {"load"} => attempt'[d] >= 1
      BY <1>2, <1>4, <2>1 DEF Prepared
    <3>2. ASSUME NEW d \in Execution, pc'[d] = "record"
          PROVE  outcome'[d] \in Usage /\ Report(NewRow(d))' \in reported'
      <4>1. d # e /\ pc[d] = "record"
        BY <1>4, <2>1, <3>2
      <4> QED
        BY <1>2, <1>3, <1>4, <4>1, ReportOfNewRow DEF Prepared
    <3> QED
      BY <3>1, <3>2 DEF Prepared
  <2>3. RowsAreReports' /\ RowsAreDistinct'
    BY <1>2, <1>4, <2>1 DEF RowsAreReports, RowsAreDistinct, Report
  <2>4. ValidatedIsRecorded'
    BY <1>2, <1>4, <2>1 DEF ValidatedIsRecorded
  <2> QED
    BY <2>2, <2>3, <2>4 DEF LedgerInv
<1>5. CASE Outside
  <2>1. \A d : Report(NewRow(d))' = Report(NewRow(d))
    BY <1>3, <1>5, ReportOfNewRow DEF Outside
  <2>2. Prepared'
    BY <1>2, <1>5, <2>1 DEF Outside, Prepared
  <2>3. RowsAreReports' /\ RowsAreDistinct' /\ ValidatedIsRecorded'
    BY <1>2, <1>5
       DEF Outside, RowsAreReports, RowsAreDistinct, ValidatedIsRecorded, Report
  <2> QED
    BY <2>2, <2>3 DEF LedgerInv
<1>6. ASSUME NEW p \in Process, Schedule(p) PROVE LedgerInv'
  <2>1. PICK e \in Execution :
           /\ pc[e] = "unused" /\ pc' = [pc EXCEPT ![e] = "load"]
           /\ process' = [process EXCEPT ![e] = p]
           /\ of' = [of EXCEPT ![e] = turn[p]]
           /\ UNCHANGED <<attempt, outcome, late, ledger, reported>>
    BY <1>6, ScheduleEffect
  <2>2. /\ pc'[e] = "load"
        /\ \A d \in Execution \ {e} : /\ pc'[d] = pc[d] /\ of'[d] = of[d]
                                      /\ process'[d] = process[d]
    BY <1>1, <2>1
  <2>3. Prepared'
    <3>1. \A d \in Execution : pc'[d] \in Live \ {"load"} => attempt'[d] >= 1
      BY <1>2, <2>1, <2>2 DEF Prepared
    <3>2. ASSUME NEW d \in Execution, pc'[d] = "record"
          PROVE  outcome'[d] \in Usage /\ Report(NewRow(d))' \in reported'
      <4>1. d # e /\ pc[d] = "record"
        BY <2>2, <3>2
      <4>2. /\ process'[d] = process[d] /\ of'[d] = of[d]
            /\ attempt'[d] = attempt[d] /\ outcome'[d] = outcome[d]
        BY <2>1, <2>2, <4>1
      <4>3. Report(NewRow(d))' = Report(NewRow(d))
        BY <1>3, <4>2, ReportOfNewRow
      <4> QED
        BY <1>2, <2>1, <4>1, <4>3 DEF Prepared
    <3> QED
      BY <3>1, <3>2 DEF Prepared
  <2>4. RowsAreReports' /\ RowsAreDistinct'
    <3>1. \A r \in ledger : r.execution \in Execution \ {e}
      BY <1>2, <2>1 DEF RowsAreReports
    <3> QED
      BY <1>2, <2>1, <2>2, <3>1 DEF RowsAreReports, RowsAreDistinct, Report
  <2>5. ValidatedIsRecorded'
    BY <1>2, <2>1, <2>2 DEF ValidatedIsRecorded
  <2> QED
    BY <2>3, <2>4, <2>5 DEF LedgerInv
<1>7. ASSUME NEW e \in Execution, Loaded(e) PROVE LedgerInv'
  <2>1. /\ pc[e] = "load" /\ pc'[e] = "fence" /\ attempt'[e] = 1
        /\ pc' = [pc EXCEPT ![e] = pc'[e]]
        /\ \A d \in Execution \ {e} : attempt'[d] = attempt[d]
        /\ UNCHANGED <<outcome, process, of, ledger, reported>>
    BY <1>1, <1>7 DEF Loaded
  <2> QED
    BY <1>4, <2>1
<1>8. ASSUME NEW e \in Execution, Passed(e) PROVE LedgerInv'
  BY <1>1, <1>2, <1>4, <1>8 DEF Passed, Prepared, Live
<1>9. ASSUME NEW e \in Execution, Called(e) PROVE LedgerInv'
  BY <1>1, <1>2, <1>4, <1>9 DEF Called, Prepared, Live
<1>10. ASSUME NEW e \in Execution, Corrected(e) PROVE LedgerInv'
  <2>1. /\ pc[e] = "validate" /\ pc'[e] = "fence" /\ attempt'[e] >= 1
        /\ pc' = [pc EXCEPT ![e] = pc'[e]]
        /\ \A d \in Execution \ {e} : attempt'[d] = attempt[d]
        /\ UNCHANGED <<outcome, process, of, ledger, reported>>
    BY <1>1, <1>10 DEF Corrected
  <2> QED
    BY <1>4, <2>1
<1>11. ASSUME NEW e \in Execution, Ends(e) PROVE LedgerInv'
  BY <1>1, <1>4, <1>11 DEF Ends, Live
<1>12. ASSUME NEW e \in Execution, Answer(e) PROVE LedgerInv'
  <2>1. PICK u \in Usage :
          /\ pc[e] = "wait" /\ pc' = [pc EXCEPT ![e] = "record"]
          /\ outcome' = [outcome EXCEPT ![e] = u]
          /\ reported' = reported \cup
               {[process |-> process[e], turn |-> of[e], execution |-> e,
                 attempt |-> attempt[e], usage |-> u]}
          /\ UNCHANGED <<process, of, attempt, ledger>>
    BY <1>12 DEF Answer
  <2>2. /\ pc'[e] = "record" /\ outcome'[e] = u
        /\ \A d \in Execution \ {e} : pc'[d] = pc[d] /\ outcome'[d] = outcome[d]
    BY <1>1, <2>1
  <2>3. Prepared'
    <3>1. \A d \in Execution : pc'[d] \in Live \ {"load"} => attempt'[d] >= 1
      BY <1>2, <2>1, <2>2 DEF Prepared, Live
    <3>2. ASSUME NEW d \in Execution, pc'[d] = "record"
          PROVE  outcome'[d] \in Usage /\ Report(NewRow(d))' \in reported'
      <4>1. CASE d = e
        BY <1>3, <2>1, <2>2, <4>1
      <4>2. CASE d # e
        <5>1. /\ process'[d] = process[d] /\ of'[d] = of[d]
              /\ attempt'[d] = attempt[d] /\ outcome'[d] = outcome[d]
              /\ pc[d] = "record"
          BY <2>1, <2>2, <3>2, <4>2
        <5>2. Report(NewRow(d))' = Report(NewRow(d))
          BY <1>3, <5>1, ReportOfNewRow
        <5> QED
          BY <1>2, <2>1, <5>1, <5>2 DEF Prepared
      <4> QED
        BY <4>1, <4>2
    <3> QED
      BY <3>1, <3>2 DEF Prepared
  <2>4. RowsAreReports' /\ RowsAreDistinct'
    BY <1>2, <2>1, <2>2 DEF RowsAreReports, RowsAreDistinct, Report
  <2>5. ValidatedIsRecorded'
    BY <1>2, <2>1, <2>2 DEF ValidatedIsRecorded
  <2> QED
    BY <2>3, <2>4, <2>5 DEF LedgerInv
<1>13. ASSUME NEW e \in Execution, Recorded(e) PROVE LedgerInv'
  <2> DEFINE same == {r \in ledger : Identity(r) = Identity(NewRow(e))}
  <2>1. /\ pc[e] = "record" /\ pc' = [pc EXCEPT ![e] = "validate"]
        /\ ledger' = IF same = {} THEN ledger \cup {NewRow(e)} ELSE ledger
        /\ UNCHANGED <<process, of, attempt, outcome, reported>>
    BY <1>13 DEF Recorded
  <2>2. /\ pc'[e] = "validate"
        /\ \A d \in Execution \ {e} : pc'[d] = pc[d]
    BY <1>1, <2>1
  <2>3. /\ NewRow(e).execution = e /\ NewRow(e).attempt = attempt[e]
        /\ NewRow(e).process = process[e] /\ NewRow(e).turn = of[e]
        /\ Report(NewRow(e)) \in reported
    BY <1>2, <2>1 DEF NewRow, Prepared
  <2>4. \A r \in ledger :
          r \in same <=> r.execution = e /\ r.attempt = attempt[e]
    BY <1>2, <2>3 DEF Identity, RowsAreReports
  <2>5. PICK n : n = NewRow(e)
    OBVIOUS
  <2> HIDE DEF same
  <2>6. Prepared'
    <3>1. \A d \in Execution : pc'[d] \in Live \ {"load"} => attempt'[d] >= 1
      BY <1>2, <2>1, <2>2 DEF Prepared, Live
    <3>2. ASSUME NEW d \in Execution, pc'[d] = "record"
          PROVE  outcome'[d] \in Usage /\ Report(NewRow(d))' \in reported'
      BY <1>2, <1>3, <2>1, <2>2, <3>2, ReportOfNewRow DEF Prepared
    <3> QED
      BY <3>1, <3>2 DEF Prepared
  <2>7. RowsAreReports'
    <3>1. ASSUME NEW r \in ledger'
          PROVE  /\ Report(r) \in reported
                 /\ r.execution \in Execution /\ pc[r.execution] # "unused"
                 /\ r.process = process[r.execution]
                 /\ r.turn = of[r.execution]
      <4>1. CASE r \in ledger
        BY <1>2, <4>1 DEF RowsAreReports
      <4>2. CASE r = NewRow(e)
        BY <2>1, <2>3, <2>5, <4>2
      <4> QED
        BY <2>1, <4>1, <4>2
    <3> QED
      BY <2>1, <2>2, <3>1 DEF RowsAreReports, Report
  <2>8. RowsAreDistinct'
    <3>1. CASE same = {}
      <4>1. ledger' = ledger \cup {n} /\ n.execution = e /\ n.attempt = attempt[e]
        BY <2>1, <2>3, <2>5, <3>1
      <4>2. \A r \in ledger : r.execution # e \/ r.attempt # attempt[e]
        BY <2>4, <3>1
      <4> QED
        BY <1>2, <4>1, <4>2 DEF RowsAreDistinct
    <3>2. CASE same # {}
      BY <1>2, <2>1, <3>2 DEF RowsAreDistinct
    <3> QED
      BY <3>1, <3>2
  <2>9. ValidatedIsRecorded'
    <3>1. \E r \in ledger' : r.execution = e /\ r.attempt = attempt[e]
      <4>1. CASE same = {}
        BY <2>1, <2>3, <4>1
      <4>2. CASE same # {}
        <5>1. PICK r \in ledger : r \in same
          BY <4>2 DEF same
        <5> QED
          BY <2>1, <2>4, <4>2, <5>1
      <4> QED
        BY <4>1, <4>2
    <3>2. ledger \subseteq ledger'
      BY <2>1
    <3> QED
      BY <1>2, <2>1, <2>2, <3>1, <3>2 DEF ValidatedIsRecorded
  <2> QED
    BY <2>6, <2>7, <2>8, <2>9 DEF LedgerInv
<1> QED
  BY <1>5, <1>6, <1>7, <1>8, <1>9, <1>10, <1>11, <1>12, <1>13, StepKinds

(* Every step keeps the number of late calls. *)
LEMMA LateStep ==
  ASSUME TypeOK, LateCalls, [Next]_vars
  PROVE  LateCalls'
<1> USE DEF execution
<1>1. /\ pc \in [Execution -> {"unused", "load", "fence", "call", "wait",
                               "record", "validate", "ended"}]
      /\ late \in [Execution -> Nat]
  BY DEF TypeOK
<1>2. CASE Outside
  BY <1>2 DEF Outside, LateCalls
<1>3. ASSUME NEW p \in Process, Schedule(p) PROVE LateCalls'
  <2>1. PICK e \in Execution :
           pc' = [pc EXCEPT ![e] = "load"] /\ late' = late
    BY <1>3, ScheduleEffect
  <2> QED
    BY <1>1, <2>1 DEF LateCalls
<1>4. ASSUME NEW e \in Execution, Loaded(e) \/ Corrected(e) \/ Ends(e)
      PROVE  LateCalls'
  BY <1>1, <1>4 DEF Loaded, Corrected, Ends, LateCalls
<1>5. ASSUME NEW e \in Execution, Answer(e) \/ Recorded(e) PROVE LateCalls'
  BY <1>1, <1>5 DEF Answer, Recorded, LateCalls
<1>6. ASSUME NEW e \in Execution, Passed(e) PROVE LateCalls'
  BY <1>1, <1>6 DEF Passed, LateCalls
<1>7. ASSUME NEW e \in Execution, Called(e) PROVE LateCalls'
  BY <1>1, <1>7 DEF Called, LateCalls
<1> QED
  BY <1>2, <1>3, <1>4, <1>5, <1>6, <1>7, StepKinds

-----------------------------------------------------------------------------
(* Spend. *)

(* A finite set of numbers has a largest one. *)
LEMMA LargestNatural ==
  ASSUME NEW S, S \subseteq Nat, IsFiniteSet(S), S # {}
  PROVE  \E x \in S : \A y \in S : x >= y
<1> DEFINE Bounded(s) == \E x \in s : \A y \in s : x >= y
           C == {s \in SUBSET S : s # {} /\ ~Bounded(s)}
<1> SUFFICES ASSUME C # {} PROVE FALSE
  OBVIOUS
<1>1. \A u \in C : IsFiniteSet(u)
  BY FS_Subset
<1>2. PICK u \in C : \A t \in C : ~(Cardinality(t) < Cardinality(u))
  <2> HIDE DEF C
  <2> QED
    BY <1>1, SmallestSet
<1>3. u \subseteq S /\ IsFiniteSet(u) /\ u # {} /\ ~Bounded(u)
  BY <1>1
<1>4. PICK v : v = u \ {Any(u)}
  OBVIOUS
<1>5. /\ Any(u) \in u /\ v \subseteq S /\ Cardinality(v) < Cardinality(u)
      /\ Any(u) \in Nat
  BY <1>3, <1>4, Without
<1>6. CASE v = {}
  <2>1. \A y \in u : y = Any(u)
    BY <1>4, <1>6
  <2>2. Bounded(u)
    BY <1>5, <2>1
  <2> QED
    BY <1>3, <2>2
<1>7. CASE v # {}
  <2>1. v \notin C
    <3> HIDE DEF C
    <3> QED
      BY <1>2, <1>5
  <2>2. PICK x \in v : \A y \in v : x >= y
    BY <1>5, <1>7, <2>1
  <2>3. x \in u /\ x \in Nat /\ \A y \in u : y \in v \/ y = Any(u)
    BY <1>3, <1>4, <1>5
  <2>4. CASE x >= Any(u)
    BY <1>3, <2>2, <2>3, <2>4
  <2>5. CASE ~(x >= Any(u))
    <3>1. \A y \in u : Any(u) >= y
      BY <1>3, <1>5, <2>2, <2>3, <2>5
    <3> QED
      BY <1>3, <1>5, <3>1
  <2> QED
    BY <2>4, <2>5
<1> QED
  BY <1>6, <1>7

(* The largest call uses some tokens, and no call more. *)
LEMMA LargestCall ==
  /\ Largest \in Nat /\ Largest > 0
  /\ \A u \in Usage : u.input \in Nat /\ u.output \in Nat
                       /\ u.input + u.output <= Largest
<1> DEFINE S == {u.input + u.output : u \in Usage}
<1>1. \A u \in Usage : u.input \in Nat /\ u.output \in Nat
  BY AgentTurnAssumption DEF ModelUsage
<1>2. S \subseteq Nat /\ S # {}
  BY <1>1, AgentTurnAssumption
<1>3. IsFiniteSet(S)
  <2> DEFINE f == [u \in Usage |-> u.input + u.output]
  <2>1. f \in Surjection(Usage, S)
    BY DEF Surjection
  <2> QED
    BY <2>1, FS_Surjection, AgentTurnAssumption
<1>4. PICK x \in S : \A y \in S : x >= y
  <2> HIDE DEF S
  <2> QED
    BY <1>2, <1>3, LargestNatural
<1>5. Largest \in S /\ \A y \in S : Largest >= y
  BY <1>4 DEF Largest, Max
<1>6. PICK u \in Usage : u.input + u.output > 0
  BY AgentTurnAssumption
<1>7. Largest >= u.input + u.output /\ Largest \in Nat
  BY <1>2, <1>5
<1>8. Largest > 0
  BY <1>1, <1>6, <1>7
<1>9. \A v \in Usage : v.input + v.output <= Largest
  <2>1. \A v \in Usage : Largest >= v.input + v.output
    BY <1>5
  <2> QED
    BY <1>1, <1>7, <2>1
<1> QED
  BY <1>1, <1>7, <1>8, <1>9

(* How the tokens of some rows grow. *)
LEMMA TokensFacts ==
  ASSUME NEW S, S \subseteq Rows, IsFiniteSet(S)
  PROVE  /\ Tokens(S) \in Nat
         /\ S = {} => Tokens(S) = 0
         /\ \A n \in Rows : Tokens(S \cup {n}) <= Tokens(S) + Largest
                            /\ Tokens(S \cup {n}) \in Nat
<1> DEFINE f == [r \in Rows |-> r.usage.input]
           g == [r \in Rows |-> r.usage.output]
<1>1. \A r \in Rows : r.usage \in Usage
  BY DEF Rows
<1>2. f \in [Rows -> Nat] /\ g \in [Rows -> Nat]
  BY <1>1, LargestCall
<1>3. ASSUME NEW n \in Rows
      PROVE  f[n] \in Nat /\ g[n] \in Nat /\ f[n] + g[n] <= Largest
  BY <1>1, LargestCall
<1>4. ASSUME NEW T, T \subseteq Rows, IsFiniteSet(T)
      PROVE  /\ Tokens(T) = Sum(f, T) + Sum(g, T)
             /\ Sum(f, T) \in Nat /\ Sum(g, T) \in Nat
  <2>1. Tokens(T) = Sum(f, T) + Sum(g, T)
    BY <1>4, TokensAreSums
  <2> HIDE DEF f, g
  <2> QED
    BY <1>2, <1>4, <2>1, SumNat
<1> HIDE DEF f, g
<1>5. Tokens(S) \in Nat
  BY <1>4
<1>6. ASSUME S = {} PROVE Tokens(S) = 0
  <2>1. Sum(f, S) = 0 /\ Sum(g, S) = 0
    BY <1>6, SumRecursion
  <2> QED
    BY <1>4, <2>1
<1>7. ASSUME NEW n \in Rows
      PROVE  /\ Tokens(S \cup {n}) <= Tokens(S) + Largest
             /\ Tokens(S \cup {n}) \in Nat
  <2>1. CASE n \in S
    <3>1. S \cup {n} = S
      BY <2>1
    <3>2. Tokens(S \cup {n}) = Tokens(S)
      BY <3>1
    <3>3. Largest \in Nat
      BY LargestCall
    <3> QED
      BY <1>5, <3>2, <3>3
  <2>2. CASE n \notin S
    <3>1. PICK T : T = S \cup {n}
      OBVIOUS
    <3>2. T \subseteq Rows /\ IsFiniteSet(T)
      BY <3>1, FS_AddElement
    <3>3. Sum(f, T) = f[n] + Sum(f, S) /\ Sum(g, T) = g[n] + Sum(g, S)
      BY <1>2, <2>2, <3>1, SumAdd
    <3>4. /\ Tokens(T) = Sum(f, T) + Sum(g, T)
          /\ Tokens(S) = Sum(f, S) + Sum(g, S)
          /\ Sum(f, S) \in Nat /\ Sum(g, S) \in Nat
      BY <1>4, <3>2
    <3>5. /\ f[n] \in Nat /\ g[n] \in Nat /\ f[n] + g[n] <= Largest
          /\ Largest \in Nat
      BY <1>3, LargestCall
    <3>6. Tokens(T) = (f[n] + Sum(f, S)) + (g[n] + Sum(g, S))
      BY <3>3, <3>4
    <3>7. \A a, b, c, d, l \in Nat : a + b <= l =>
            (a + c) + (b + d) <= (c + d) + l /\ (a + c) + (b + d) \in Nat
      OBVIOUS
    <3>8. Tokens(T) <= Tokens(S) + Largest /\ Tokens(T) \in Nat
      BY <3>4, <3>5, <3>6, <3>7
    <3> QED
      BY <3>1, <3>8
  <2> QED
    BY <2>1, <2>2
<1> QED
  BY <1>5, <1>6, <1>7

(* Products with the largest call. *)
LEMMA Products ==
  ASSUME NEW a \in Nat, NEW b \in Nat
  PROVE  /\ a * Largest \in Nat
         /\ a <= b => a * Largest <= b * Largest
         /\ (a + 1) * Largest = a * Largest + Largest
<1>1. Largest \in Nat
  BY LargestCall
<1>2. \A k, l \in Nat : k * l \in Nat /\ (a + k) * l = a * l + k * l
  OBVIOUS
<1>3. ASSUME a <= b PROVE a * Largest <= b * Largest
  <2>1. PICK k \in Nat : b = a + k
    <3>1. b - a \in Nat /\ b = a + (b - a)
      BY <1>3
    <3> QED
      BY <3>1
  <2>2. b * Largest = a * Largest + k * Largest
    BY <1>1, <1>2, <2>1
  <2> QED
    BY <1>1, <1>2, <2>2
<1>4. (a + 1) * Largest = a * Largest + Largest
  BY <1>1, <1>2
<1> QED
  BY <1>1, <1>2, <1>3, <1>4

(* An execution that has passed the fence and not yet recorded its call. *)
Calling == {"call", "wait", "record"}

(* A process for which there is one. *)
Callers ==
  {p \in Process : \E e \in Execution : process[e] = p /\ pc[e] \in Calling}

(* As long as none was given up, an execution that runs is the one its     *)
(* process waits for.                                                      *)
Alone == \A e \in Execution : pc[e] \in Live => current[process[e]] = e

(* Spend is below the budget while a call is made. *)
CallsWithinBudget ==
  \A e \in Execution :
    pc[e] \in Calling => Tokens(RowsOf(process[e])) < Budget.total

(* A process exceeds it by less than one call. *)
ProcessSpend ==
  \A p \in Process : Tokens(RowsOf(p)) < Budget.total + Largest

(* The tenant exceeds its cap by less than one call of each process that   *)
(* makes none at present.                                                  *)
TenantSpend ==
  Tokens(ledger) + Cardinality(Callers) * Largest
    < Caps.tokens + Cardinality(Process) * Largest

SpendInv ==
  /\ IsFiniteSet(ledger)
  /\ happened["timeouts"] = 0 =>
       Alone /\ CallsWithinBudget /\ ProcessSpend /\ TenantSpend

(* The callers are some of the processes. *)
LEMMA CallersFinite ==
  /\ Callers \subseteq Process /\ IsFiniteSet(Callers)
  /\ Cardinality(Callers) \in Nat /\ Cardinality(Process) \in Nat
  /\ Cardinality(Callers) <= Cardinality(Process)
<1>1. Callers \in SUBSET Process /\ IsFiniteSet(Process)
  BY AgentTurnAssumption DEF Callers
<1>2. IsFiniteSet(Callers) /\ Cardinality(Callers) <= Cardinality(Process)
  BY <1>1, FS_Subset
<1> QED
  BY <1>1, <1>2, FS_CardinalityType

(* The rows of a process. *)
LEMMA RowsOfFacts ==
  ASSUME TypeOK, IsFiniteSet(ledger)
  PROVE  /\ Tokens(ledger) \in Nat
         /\ \A p : /\ RowsOf(p) \subseteq Rows /\ IsFiniteSet(RowsOf(p))
                   /\ Tokens(RowsOf(p)) \in Nat
<1>1. ledger \subseteq Rows
  BY DEF TypeOK
<1>2. ASSUME NEW p
      PROVE  /\ RowsOf(p) \subseteq Rows /\ IsFiniteSet(RowsOf(p))
             /\ Tokens(RowsOf(p)) \in Nat
  <2>1. RowsOf(p) \subseteq ledger
    BY DEF RowsOf
  <2>2. IsFiniteSet(RowsOf(p)) /\ RowsOf(p) \subseteq Rows
    BY <1>1, <2>1, FS_Subset
  <2> QED
    BY <2>2, TokensFacts
<1> QED
  BY <1>1, <1>2, TokensFacts

(* Steps that leave the ledger alone and start no call. *)
LEMMA SpendKept ==
  ASSUME TypeOK, SpendInv, ledger' = ledger,
         happened'["timeouts"] = 0 => happened["timeouts"] = 0,
         happened'["timeouts"] = 0 => Alone',
         \A e \in Execution : pc'[e] \in Calling =>
           pc[e] \in Calling /\ process'[e] = process[e]
  PROVE  SpendInv'
<1> SUFFICES ASSUME happened'["timeouts"] = 0
             PROVE  CallsWithinBudget' /\ ProcessSpend' /\ TenantSpend'
  BY DEF SpendInv
<1>1. /\ CallsWithinBudget /\ ProcessSpend /\ TenantSpend
      /\ IsFiniteSet(ledger)
  BY DEF SpendInv
<1>2. \A p : RowsOf(p)' = RowsOf(p)
  BY DEF RowsOf
<1>3. CallsWithinBudget'
  BY <1>1, <1>2 DEF CallsWithinBudget
<1>4. ProcessSpend'
  BY <1>1, <1>2 DEF ProcessSpend
<1>5. TenantSpend'
  <2>1. PICK C : C = Callers'
    OBVIOUS
  <2>2. C \subseteq Callers
    BY <2>1 DEF Callers
  <2>3. /\ Cardinality(C) \in Nat /\ Cardinality(Callers) \in Nat
        /\ Cardinality(C) <= Cardinality(Callers) /\ Cardinality(Process) \in Nat
    BY <2>2, CallersFinite, FS_Subset, FS_CardinalityType
  <2>4. /\ Cardinality(C) * Largest <= Cardinality(Callers) * Largest
        /\ Cardinality(C) * Largest \in Nat
        /\ Cardinality(Callers) * Largest \in Nat
        /\ Cardinality(Process) * Largest \in Nat
    BY <2>3, Products
  <2>5. Tokens(ledger) \in Nat /\ Caps.tokens \in Nat
    BY <1>1, RowsOfFacts, AgentTurnAssumption
  <2>6. Tokens(ledger) + Cardinality(C) * Largest
          < Caps.tokens + Cardinality(Process) * Largest
    BY <1>1, <2>4, <2>5 DEF TenantSpend
  <2> QED
    BY <2>1, <2>6 DEF TenantSpend
<1> QED
  BY <1>3, <1>4, <1>5

(* As long as Temporal gives up no execution, an execution that runs is    *)
(* waited for after every step.                                            *)
LEMMA AloneStep ==
  ASSUME TypeOK, Alone, [Next]_vars, happened'["timeouts"] = 0
  PROVE  Alone'
<1> USE DEF execution
<1>1. /\ pc \in [Execution -> {"unused", "load", "fence", "call", "wait",
                               "record", "validate", "ended"}]
      /\ process \in [Execution -> Process]
      /\ current \in [Process -> Execution \cup {NoExecution}]
  BY DEF TypeOK
<1>2. CASE Outside
  BY <1>2 DEF Outside, Alone
<1>3. ASSUME NEW p \in Process, Schedule(p) PROVE Alone'
  <2>1. PICK e \in Execution :
          /\ pc[e] = "unused" /\ pc' = [pc EXCEPT ![e] = "load"]
          /\ process' = [process EXCEPT ![e] = p]
          /\ current' = [current EXCEPT ![p] = e]
    BY <1>3, ScheduleEffect
  <2>2. current[p] = NoExecution
    BY <1>3 DEF Schedule
  <2>3. ASSUME NEW d \in Execution, pc'[d] \in Live
        PROVE  current'[process'[d]] = d
    <3>1. CASE d = e
      BY <1>1, <2>1, <3>1
    <3>2. CASE d # e
      <4>1. pc[d] \in Live /\ process'[d] = process[d]
        BY <1>1, <2>1, <2>3, <3>2
      <4>2. current[process[d]] = d
        BY <4>1 DEF Alone
      <4>3. process[d] # p
        BY <2>2, <4>2, AgentTurnAssumption
      <4> QED
        BY <1>1, <2>1, <4>1, <4>2, <4>3
    <3> QED
      BY <3>1, <3>2
  <2> QED
    BY <2>3 DEF Alone
<1>4. ASSUME NEW e \in Execution,
             \/ Loaded(e) \/ Passed(e) \/ Called(e) \/ Answer(e)
             \/ Recorded(e) \/ Corrected(e)
      PROVE  Alone'
  <2>1. /\ current' = current /\ process' = process /\ pc[e] \in Live
        /\ \E v : pc' = [pc EXCEPT ![e] = v]
    BY <1>4 DEF Loaded, Passed, Called, Answer, Recorded, Corrected, Live
  <2>2. \A d \in Execution : pc'[d] \in Live => pc[d] \in Live
    BY <1>1, <2>1
  <2> QED
    BY <2>1, <2>2 DEF Alone
<1>5. ASSUME NEW e \in Execution, Ends(e) PROVE Alone'
  <2>1. ASSUME NEW d \in Execution, pc'[d] \in Live
        PROVE  current'[process[d]] = d
    <3>1. d # e /\ pc[d] \in Live
      BY <1>1, <1>5, <2>1 DEF Ends, Live
    <3>2. current[process[d]] = d
      BY <3>1 DEF Alone
    <3>3. process[d] # process[e] \/ current[process[e]] # e
      BY <3>1, <3>2
    <3> QED
      BY <1>1, <1>5, <3>2, <3>3 DEF Ends
  <2> QED
    BY <1>5, <2>1 DEF Alone, Ends
<1> QED
  BY <1>2, <1>3, <1>4, <1>5, StepKinds

(* The fence lets a call pass only below the caps. *)
LEMMA PassedIsBelow ==
  ASSUME TypeOK, IsFiniteSet(ledger), NEW p, NEW n, ~Blocked(p, n)
  PROVE  Tokens(RowsOf(p)) < Budget.total /\ Tokens(ledger) < Caps.tokens
<1>1. Tokens(RowsOf(p)) \in Nat /\ Tokens(ledger) \in Nat
  BY RowsOfFacts
<1>2. Budget.total \in Nat /\ Caps.tokens \in Nat
  BY AgentTurnAssumption
<1>3. ~(Tokens(RowsOf(p)) >= Budget.total)
  BY DEF Blocked, ProcessBlocked, Tokens
<1>4. ~(Tokens(ledger) >= Caps.tokens)
  BY DEF Blocked, TenantBlocked, Tokens
<1> QED
  BY <1>1, <1>2, <1>3, <1>4

(* Every step keeps spend within its bounds. *)
LEMMA SpendStep ==
  ASSUME TypeOK, TypeOK', LedgerInv, SpendInv, [Next]_vars
  PROVE  SpendInv'
<1> USE DEF execution
<1>1. /\ pc \in [Execution -> {"unused", "load", "fence", "call", "wait",
                               "record", "validate", "ended"}]
      /\ process \in [Execution -> Process]
  BY DEF TypeOK
<1>2. happened'["timeouts"] = 0 => happened["timeouts"] = 0
  BY StepKinds
<1>3. happened'["timeouts"] = 0 => Alone'
  BY <1>2, AloneStep DEF SpendInv
<1>4. CASE Outside
  BY <1>2, <1>3, <1>4, SpendKept DEF Outside
<1>5. ASSUME NEW p \in Process, Schedule(p) PROVE SpendInv'
  <2>1. PICK e \in Execution :
          /\ pc' = [pc EXCEPT ![e] = "load"] /\ ledger' = ledger
          /\ process' = [process EXCEPT ![e] = p]
    BY <1>5, ScheduleEffect
  <2>2. \A d \in Execution : pc'[d] \in Calling =>
          pc[d] \in Calling /\ process'[d] = process[d]
    BY <1>1, <2>1 DEF Calling
  <2> QED
    BY <1>2, <1>3, <2>1, <2>2, SpendKept
<1>6. ASSUME NEW e \in Execution,
             \/ Loaded(e) \/ Called(e) \/ Answer(e) \/ Corrected(e) \/ Ends(e)
      PROVE  SpendInv'
  <2>1. ledger' = ledger /\ process' = process
    BY <1>6 DEF Loaded, Called, Answer, Corrected, Ends
  <2>2. \E v : /\ pc' = [pc EXCEPT ![e] = v]
               /\ v \in Calling => pc[e] \in Calling
    BY <1>6 DEF Loaded, Called, Answer, Corrected, Ends, Calling
  <2>3. \A d \in Execution : pc'[d] \in Calling => pc[d] \in Calling
    BY <1>1, <2>2
  <2> QED
    BY <1>2, <1>3, <2>1, <2>3, SpendKept
<1>7. ASSUME NEW e \in Execution, Passed(e) PROVE SpendInv'
  <2> SUFFICES ASSUME happened'["timeouts"] = 0
               PROVE  CallsWithinBudget' /\ ProcessSpend' /\ TenantSpend'
    BY <1>3, <1>7 DEF SpendInv, Passed
  <2>1. /\ CallsWithinBudget /\ ProcessSpend /\ IsFiniteSet(ledger)
    BY <1>2 DEF SpendInv
  <2>2. /\ ledger' = ledger /\ process' = process
        /\ pc' = [pc EXCEPT ![e] = "call"] /\ ~Blocked(process[e], of[e])
    BY <1>7 DEF Passed
  <2>3. \A p : RowsOf(p)' = RowsOf(p)
    BY <2>2 DEF RowsOf
  <2>4. /\ Tokens(RowsOf(process[e])) < Budget.total
        /\ Tokens(ledger) < Caps.tokens
    BY <2>1, <2>2, PassedIsBelow
  <2>5. ProcessSpend'
    BY <2>1, <2>3 DEF ProcessSpend
  <2>6. CallsWithinBudget'
    <3>1. ASSUME NEW d \in Execution, pc'[d] \in Calling
          PROVE  Tokens(RowsOf(process[d])) < Budget.total
      BY <1>1, <2>1, <2>2, <2>4, <3>1 DEF CallsWithinBudget
    <3> QED
      BY <2>2, <2>3, <3>1 DEF CallsWithinBudget
  <2>7. TenantSpend'
    <3>1. PICK C : C = Callers'
      OBVIOUS
    <3>2. C \subseteq Process
      BY <3>1 DEF Callers
    <3>3. /\ Cardinality(C) \in Nat /\ Cardinality(Process) \in Nat
          /\ Cardinality(C) <= Cardinality(Process)
      BY <3>2, FS_Subset, FS_CardinalityType, AgentTurnAssumption
    <3>4. /\ Cardinality(C) * Largest <= Cardinality(Process) * Largest
          /\ Cardinality(C) * Largest \in Nat
          /\ Cardinality(Process) * Largest \in Nat
      BY <3>3, Products
    <3>5. Tokens(ledger) \in Nat /\ Caps.tokens \in Nat
      BY <2>1, RowsOfFacts, AgentTurnAssumption
    <3>6. Tokens(ledger) + Cardinality(C) * Largest
            < Caps.tokens + Cardinality(Process) * Largest
      BY <2>4, <3>4, <3>5
    <3> QED
      BY <2>2, <3>1, <3>6 DEF TenantSpend
  <2> QED
    BY <2>5, <2>6, <2>7
<1>8. ASSUME NEW e \in Execution, Recorded(e) PROVE SpendInv'
  <2>1. /\ pc[e] = "record" /\ pc' = [pc EXCEPT ![e] = "validate"]
        /\ ledger' = ledger \/ ledger' = ledger \cup {NewRow(e)}
        /\ process' = process
    BY <1>8 DEF Recorded
  <2>2. CASE ledger' = ledger
    <3>1. \A d \in Execution : pc'[d] \in Calling => pc[d] \in Calling
      BY <1>1, <2>1 DEF Calling
    <3> QED
      BY <1>2, <1>3, <2>1, <2>2, <3>1, SpendKept
  <2>3. CASE ledger' = ledger \cup {NewRow(e)}
    <3>1. PICK n : n = NewRow(e)
      OBVIOUS
    <3>2. PICK q : q = process[e]
      OBVIOUS
    <3>3. n \in Rows /\ n.process = q /\ ledger' = ledger \cup {n}
          /\ q \in Process
      BY <1>1, <2>1, <2>3, <3>1, <3>2, NewRowType DEF NewRow, LedgerInv
    <3>4. IsFiniteSet(ledger) /\ IsFiniteSet(ledger')
      BY <3>3, FS_AddElement DEF SpendInv
    <3> SUFFICES ASSUME happened'["timeouts"] = 0
                 PROVE  CallsWithinBudget' /\ ProcessSpend' /\ TenantSpend'
      BY <1>3, <3>4 DEF SpendInv
    <3>5. Alone /\ CallsWithinBudget /\ ProcessSpend /\ TenantSpend
      BY <1>2 DEF SpendInv
    <3>6. /\ RowsOf(q)' = RowsOf(q) \cup {n}
          /\ \A p : p # q => RowsOf(p)' = RowsOf(p)
      BY <3>3 DEF RowsOf
    <3>7. ASSUME NEW d \in Execution, pc'[d] \in Calling
          PROVE  pc[d] \in Calling /\ process[d] # q
      <4>1. d # e /\ pc[d] \in Calling
        BY <1>1, <2>1, <3>7 DEF Calling
      <4>2. pc[d] \in Live /\ pc[e] \in Live
        BY <2>1, <4>1 DEF Calling, Live
      <4>3. current[process[d]] = d /\ current[process[e]] = e
        BY <3>5, <4>2 DEF Alone
      <4> QED
        BY <3>2, <4>1, <4>3
    <3>8. CallsWithinBudget'
      BY <2>1, <3>5, <3>6, <3>7 DEF CallsWithinBudget
    <3>9. ProcessSpend'
      <4>1. Tokens(RowsOf(q)) < Budget.total
        BY <2>1, <3>2, <3>5 DEF CallsWithinBudget, Calling
      <4>2. RowsOf(q) \subseteq Rows /\ IsFiniteSet(RowsOf(q))
            /\ Tokens(RowsOf(q)) \in Nat
        BY <3>4, RowsOfFacts
      <4>3. Tokens(RowsOf(q) \cup {n}) <= Tokens(RowsOf(q)) + Largest
            /\ Tokens(RowsOf(q) \cup {n}) \in Nat
        BY <3>3, <4>2, TokensFacts
      <4>4. Budget.total \in Nat /\ Largest \in Nat
        BY LargestCall, AgentTurnAssumption
      <4>5. Tokens(RowsOf(q) \cup {n}) < Budget.total + Largest
        BY <4>1, <4>2, <4>3, <4>4
      <4> QED
        BY <3>5, <3>6, <4>5 DEF ProcessSpend
    <3>10. TenantSpend'
      <4>1. PICK C : C = Callers'
        OBVIOUS
      <4>2. C \subseteq Callers \ {q}
        BY <2>1, <3>7, <4>1 DEF Callers
      <4>3. q \in Callers
        BY <1>1, <2>1, <3>2 DEF Callers, Calling
      <4>4. PICK D : D = Callers \ {q}
        OBVIOUS
      <4>5. IsFiniteSet(Callers) /\ Cardinality(Callers) \in Nat
            /\ Cardinality(Process) \in Nat
        BY CallersFinite
      <4>6. IsFiniteSet(D) /\ Cardinality(D) = Cardinality(Callers) - 1
            /\ Cardinality(D) \in Nat
        BY <4>3, <4>4, <4>5, FS_RemoveElement, FS_CardinalityType
      <4>7. Cardinality(C) <= Cardinality(D) /\ Cardinality(C) \in Nat
        BY <4>2, <4>4, <4>6, FS_Subset, FS_CardinalityType
      <4>8. Cardinality(C) + 1 <= Cardinality(Callers)
        BY <4>5, <4>6, <4>7
      <4>9. /\ (Cardinality(C) + 1) * Largest <= Cardinality(Callers) * Largest
            /\ (Cardinality(C) + 1) * Largest
                 = Cardinality(C) * Largest + Largest
        <5>1. Cardinality(C) + 1 \in Nat
          BY <4>7
        <5> QED
          BY <4>5, <4>7, <4>8, <5>1, Products
      <4>10. /\ Cardinality(C) * Largest \in Nat
             /\ Cardinality(Callers) * Largest \in Nat
             /\ Cardinality(Process) * Largest \in Nat
             /\ Caps.tokens \in Nat /\ Largest \in Nat
        BY <4>5, <4>7, Products, LargestCall, AgentTurnAssumption
      <4>11. /\ Tokens(ledger \cup {n}) <= Tokens(ledger) + Largest
             /\ Tokens(ledger \cup {n}) \in Nat /\ Tokens(ledger) \in Nat
        BY <3>3, <3>4, TokensFacts DEF TypeOK
      <4>12. Tokens(ledger \cup {n}) + Cardinality(C) * Largest
               < Caps.tokens + Cardinality(Process) * Largest
        BY <3>5, <4>9, <4>10, <4>11 DEF TenantSpend
      <4> QED
        BY <3>3, <4>1, <4>12 DEF TenantSpend
    <3> QED
      BY <3>8, <3>9, <3>10
  <2> QED
    BY <2>1, <2>2, <2>3
<1> QED
  BY <1>4, <1>5, <1>6, <1>7, <1>8, StepKinds

-----------------------------------------------------------------------------
(* The theorems. *)

(* What every reachable state satisfies. *)
Inv == TypeOK /\ LedgerInv /\ LateCalls /\ SpendInv

(* At first nothing has run, and nothing is spent. *)
LEMMA InitInv ==
  Init => Inv
<1> SUFFICES ASSUME Init PROVE Inv
  OBVIOUS
<1>1. \A e \in Execution : pc[e] = "unused" /\ late[e] = 0
  BY DEF Init
<1>2. TypeOK
  <2>1. (CHOOSE p \in Process : TRUE) \in Process
    BY AgentTurnAssumption
  <2>2. process \in [Execution -> Process]
    BY <2>1 DEF Init
  <2>3. /\ 0 \in 0 .. MaxTurns /\ 0 \in 0 .. MaxTries
        /\ 0 \in 0 .. (MaxCorrections + 1)
    BY AgentTurnAssumption
  <2>4. /\ workflow \in [Process -> {"idle", "running", "asleep", "decided",
                                     "intervention"}]
        /\ turn \in [Process -> 0 .. MaxTurns]
        /\ tries \in [Process -> 0 .. MaxTries]
        /\ current \in [Process -> Execution \cup {NoExecution}]
    BY <2>3 DEF Init
  <2>5. /\ pc \in [Execution -> {"unused", "load", "fence", "call", "wait",
                                 "record", "validate", "ended"}]
        /\ of \in [Execution -> 0 .. MaxTurns]
        /\ attempt \in [Execution -> 0 .. (MaxCorrections + 1)]
        /\ outcome \in [Execution -> Usage \cup {[input |-> 0, output |-> 0]}]
        /\ late \in [Execution -> Nat]
    BY <2>3 DEF Init
  <2>6. ledger \subseteq Rows /\ tenant \in {"active", "suspended"}
        /\ happened \in [Happenings -> Nat]
    BY DEF Init
  <2>7. breaker \in BOOLEAN
    BY DEF Init
  <2> QED
    BY <2>2, <2>4, <2>5, <2>6, <2>7 DEF TypeOK
<1>3. LedgerInv
  BY <1>1 DEF Init, LedgerInv, Prepared, RowsAreReports, RowsAreDistinct,
              ValidatedIsRecorded, Live
<1>4. LateCalls
  BY <1>1 DEF LateCalls
<1>5. SpendInv
  <2>1. ledger = {} /\ IsFiniteSet(ledger) /\ \A p : RowsOf(p) = {}
    BY FS_EmptySet DEF Init, RowsOf
  <2>2. Tokens({}) = 0
    BY FS_EmptySet, TokensFacts
  <2>3. Callers = {} /\ Cardinality(Callers) = 0
    <3>1. Callers = {}
      BY <1>1 DEF Callers, Calling
    <3> QED
      BY <3>1, FS_EmptySet
  <2>4. Alone /\ CallsWithinBudget
    BY <1>1 DEF Alone, CallsWithinBudget, Live, Calling
  <2>5. /\ Largest \in Nat /\ Largest > 0
        /\ Budget.total \in Nat /\ Caps.tokens \in Nat
    BY LargestCall, AgentTurnAssumption
  <2>6. ProcessSpend
    BY <2>1, <2>2, <2>5 DEF ProcessSpend
  <2>7. TenantSpend
    <3>1. Cardinality(Process) \in Nat /\ Cardinality(Process) # 0
      BY FS_CardinalityType, FS_EmptySet, AgentTurnAssumption
    <3>2. PICK k \in Nat : Cardinality(Process) = k + 1
      <4>1. Cardinality(Process) - 1 \in Nat
        BY <3>1
      <4> QED
        BY <3>1, <4>1
    <3>3. (k + 1) * Largest = k * Largest + Largest /\ k * Largest \in Nat
          /\ 0 * Largest = 0
      BY <2>5, Products
    <3> QED
      BY <2>1, <2>2, <2>3, <2>5, <3>2, <3>3 DEF TenantSpend
  <2> QED
    BY <2>1, <2>4, <2>6, <2>7 DEF SpendInv
<1> QED
  BY <1>2, <1>3, <1>4, <1>5 DEF Inv

(* The invariant is inductive. *)
THEOREM Invariance == Spec => []Inv
<1>1. Inv /\ [Next]_vars => Inv'
  <2> SUFFICES ASSUME Inv, [Next]_vars PROVE Inv'
    OBVIOUS
  <2>1. TypeOK'
    BY TypeStep DEF Inv, LedgerInv
  <2> QED
    BY <2>1, LedgerStep, LateStep, SpendStep DEF Inv
<1> QED
  BY <1>1, InitInv, PTL DEF Spec

(* The ledger neither invents nor repeats spend, however often and however *)
(* concurrently an activity runs (_record_model_usage, agent_turn.py): it  *)
(* holds only what a provider reported, none of it twice, and all of it    *)
(* for an answer that reached validation.  It may lack a report: of a call *)
(* whose output the runner refuses (openai_runner.py:193), or whose        *)
(* activity ended before it was recorded.                                  *)
THEOREM SpendIsRecordedOnce == Spec => []LedgerIsExact
<1>1. Inv => LedgerIsExact
  BY DEF Inv, LedgerInv, LedgerIsExact, RowsAreReports, RowsAreDistinct,
         ValidatedIsRecorded, Report
<1> QED
  BY <1>1, Invariance, PTL

(* A suspension, a breaker or a cap stops each execution after at most one *)
(* more call (_require_model_execution_allowed before every call).         *)
THEOREM BlocksStopCalls == Spec => []AtMostOneLateCall
<1>1. Inv => AtMostOneLateCall
  BY DEF Inv, LateCalls, AtMostOneLateCall
<1> QED
  BY <1>1, Invariance, PTL

(* Without timeouts, a process exceeds its budget by less than one call    *)
(* and the tenant its cap by less than one call of each process            *)
(* (evaluate_model_budget and evaluate_tenant_spend, budgets/policy.py).   *)
THEOREM SpendIsBounded == Spec => []OvershootByOneCall
<1>1. Inv => OvershootByOneCall
  <2> SUFFICES ASSUME Inv, happened["timeouts"] = 0
               PROVE  /\ \A p \in Process :
                           Tokens(RowsOf(p)) < Budget.total + Largest
                      /\ Tokens(ledger)
                           < Caps.tokens + Cardinality(Process) * Largest
    BY DEF OvershootByOneCall
  <2>1. ProcessSpend /\ TenantSpend /\ IsFiniteSet(ledger) /\ TypeOK
    BY DEF Inv, SpendInv
  <2>2. Tokens(ledger) \in Nat /\ Caps.tokens \in Nat
    BY <2>1, RowsOfFacts, AgentTurnAssumption
  <2>3. /\ Cardinality(Callers) * Largest \in Nat
        /\ Cardinality(Process) * Largest \in Nat
    BY CallersFinite, Products
  <2> QED
    BY <2>1, <2>2, <2>3 DEF ProcessSpend, TenantSpend
<1> QED
  BY <1>1, Invariance, PTL
=============================================================================
