--------------------------- MODULE MailboxProofs ---------------------------
(***************************************************************************)
(* Proofs about Mailbox for every set of items, of any kinds and event     *)
(* types, and every bound: nothing that is signalled is lost, repeated or  *)
(* reordered, a takeover or a close stops the turn it interrupts, and      *)
(* after a takeover the mailbox stays parked.                              *)
(*                                                                         *)
(* And about Journey, whose mailbox this is, for every set of actions and  *)
(* facts too: its workflow is that mailbox, the rows of a process agree    *)
(* with one another, and if the outbox delivers in order the rows and the  *)
(* mailbox wait for the same, and no process sleeps for good.              *)
(***************************************************************************)
EXTENDS MCMailbox, Journey, WellFoundedInduction, TLAPS

(* Some natural numbers have a least one. *)
LEMMA LeastNatural ==
  ASSUME NEW S, S \subseteq Nat, S # {}
  PROVE  \E x \in S : \A y \in S : x <= y
<1> DEFINE Less == {ss \in Nat \X Nat : ss[1] < ss[2]}
<1>1. IsWellFoundedOn(Less, Nat)
  BY NatLessThanWellFounded DEF OpToRel
<1> HIDE DEF Less
<1>2. PICK x \in S : \A y \in S : ~(<<y, x>> \in Less)
  BY <1>1, WFMin
<1>3. ASSUME NEW y \in S PROVE x <= y
  <2>1. x \in Nat /\ y \in Nat /\ ~(<<y, x>> \in Less)
    BY <1>2
  <2>2. ~(y < x)
    BY <2>1 DEF Less
  <2> QED
    BY <2>1, <2>2
<1> QED
  BY <1>3

-----------------------------------------------------------------------------
(* The filter of _restore_continuation. *)

FilterOf(f, s, S) ==
  f = [n \in Nat |-> IF n = 0 THEN <<>>
                     ELSE IF s[n] \in S THEN f[n - 1]
                     ELSE Append(f[n - 1], s[n])]

(* There is a function that filters every prefix of a sequence: by the     *)
(* least prefix for which there was none, and the least for which there    *)
(* were two.                                                               *)
LEMMA FilterExists ==
  ASSUME NEW s, NEW S
  PROVE  \E f : FilterOf(f, s, S)
<1> DEFINE Step(x, n) == IF s[n] \in S THEN x ELSE Append(x, s[n])
           Part(f, n) == f[0] = <<>> /\ \A i \in 1 .. n : f[i] = Step(f[i - 1], i)
<1>1. \A n \in Nat : \E f : Part(f, n)
  <2> DEFINE T == {n \in Nat : ~\E f : Part(f, n)}
  <2> SUFFICES ASSUME T # {} PROVE FALSE
    OBVIOUS
  <2>1. PICK m \in T : \A k \in T : m <= k
    <3>1. T \subseteq Nat
      OBVIOUS
    <3> HIDE DEF T
    <3> QED
      BY <3>1, LeastNatural
  <2>2. m # 0
    <3>1. Part([i \in {0} |-> <<>>], 0)
      OBVIOUS
    <3>2. \E f : Part(f, 0)
      BY <3>1
    <3> HIDE DEF Part
    <3> QED
      BY <3>2
  <2>3. m - 1 \in Nat /\ m - 1 \notin T
    <3>1. m \in Nat /\ m - 1 \in Nat /\ ~(m <= m - 1)
      BY <2>2
    <3> HIDE DEF T
    <3> QED
      BY <2>1, <3>1
  <2>4. PICK f : Part(f, m - 1)
    BY <2>3
  <2> DEFINE g == [i \in 0 .. m |-> IF i = m THEN Step(f[m - 1], m) ELSE f[i]]
  <2>5. g[0] = <<>>
    BY <2>2, <2>4
  <2>6. ASSUME NEW i \in 1 .. m PROVE g[i] = Step(g[i - 1], i)
    <3>1. i - 1 \in 0 .. m /\ i - 1 # m /\ i \in 0 .. m
      OBVIOUS
    <3>2. g[i - 1] = f[i - 1]
      BY <3>1
    <3>3. CASE i = m
      BY <3>1, <3>2, <3>3
    <3>4. CASE i # m
      <4>1. i \in 1 .. (m - 1)
        BY <3>4
      <4> QED
        BY <2>4, <3>1, <3>2, <3>4, <4>1
    <3> QED
      BY <3>3, <3>4
  <2>7. Part(g, m)
    BY <2>5, <2>6
  <2> QED
    BY <2>7
<1>2. \A n \in Nat : \A f, g : Part(f, n) /\ Part(g, n) => f[n] = g[n]
  <2> DEFINE T == {n \in Nat : \E f, g : /\ Part(f, n) /\ Part(g, n)
                                         /\ f[n] # g[n]}
  <2> SUFFICES ASSUME T # {} PROVE FALSE
    OBVIOUS
  <2>1. PICK m \in T : \A k \in T : m <= k
    <3>1. T \subseteq Nat
      OBVIOUS
    <3> HIDE DEF T
    <3> QED
      BY <3>1, LeastNatural
  <2>2. PICK f, g : Part(f, m) /\ Part(g, m) /\ f[m] # g[m]
    OBVIOUS
  <2>3. m # 0
    BY <2>2
  <2>4. m - 1 \in Nat /\ m - 1 \notin T
    BY <2>1, <2>3
  <2>5. Part(f, m - 1) /\ Part(g, m - 1)
    BY <2>2, <2>4
  <2>6. f[m - 1] = g[m - 1]
    BY <2>4, <2>5
  <2>7. m \in 1 .. m
    BY <2>3
  <2> QED
    BY <2>2, <2>6, <2>7
<1> DEFINE P(n) == CHOOSE f : Part(f, n)
           H == [n \in Nat |-> P(n)[n]]
<1>3. \A n \in Nat : Part(P(n), n)
  BY <1>1
<1> HIDE DEF P
<1>4. H[0] = <<>>
  BY <1>3
<1>5. ASSUME NEW n \in Nat, n # 0 PROVE H[n] = Step(H[n - 1], n)
  <2>1. n - 1 \in Nat /\ n \in 1 .. n
    BY <1>5
  <2>2. Part(P(n), n - 1)
    BY <1>3, <2>1
  <2>3. P(n)[n - 1] = P(n - 1)[n - 1]
    BY <1>2, <1>3, <2>1, <2>2
  <2>4. P(n)[n] = Step(P(n)[n - 1], n)
    BY <1>3, <2>1
  <2> QED
    BY <2>1, <2>3, <2>4
<1>6. H = [n \in Nat |-> IF n = 0 THEN <<>> ELSE Step(H[n - 1], n)]
  BY <1>4, <1>5
<1>7. FilterOf(H, s, S)
  BY <1>6 DEF FilterOf
<1> QED
  BY <1>7

(* What Unseen computes, prefix by prefix. *)
LEMMA UnseenDef ==
  /\ Unseen[0] = <<>>
  /\ \A n \in Nat \ {0} :
       Unseen[n] = IF buffer[n] \in carried.seen THEN Unseen[n - 1]
                   ELSE Append(Unseen[n - 1], buffer[n])
<1>1. \E f : FilterOf(f, buffer, carried.seen)
  BY FilterExists
<1>2. Unseen = CHOOSE f : FilterOf(f, buffer, carried.seen)
  BY DEF Unseen, FilterOf
<1>3. FilterOf(Unseen, buffer, carried.seen)
  BY <1>1, <1>2
<1> QED
  BY <1>3 DEF FilterOf

(* f says from which of the first n positions of the buffer the items of t *)
(* come: all those not yet seen, in their order.                           *)
Embeds(f, t, n) ==
  /\ t \in Seq(Items)
  /\ f \in [1 .. Len(t) -> 1 .. n]
  /\ \A i \in 1 .. Len(t) : t[i] = buffer[f[i]] /\ t[i] \notin carried.seen
  /\ \A i, j \in 1 .. Len(t) : i < j => f[i] < f[j]
  /\ \A m \in 1 .. n : buffer[m] \notin carried.seen =>
       \E i \in 1 .. Len(t) : f[i] = m

(* One more position of the buffer. *)
LEMMA EmbedsNext ==
  ASSUME buffer \in Seq(Items), NEW n \in 1 .. Len(buffer), NEW t, NEW f,
         Embeds(f, t, n - 1)
  PROVE  /\ buffer[n] \in carried.seen => Embeds(f, t, n)
         /\ buffer[n] \notin carried.seen =>
              \E g : Embeds(g, Append(t, buffer[n]), n)
<1> USE DEF Embeds
<1>1. CASE buffer[n] \in carried.seen
  BY <1>1
<1>2. CASE buffer[n] \notin carried.seen
  <2> DEFINE u == Append(t, buffer[n])
             g == [i \in 1 .. Len(u) |-> IF i = Len(u) THEN n ELSE f[i]]
  <2>1. /\ buffer[n] \in Items /\ t \in Seq(Items) /\ u \in Seq(Items)
        /\ Len(t) \in Nat
        /\ Len(u) = Len(t) + 1 /\ u[Len(u)] = buffer[n]
        /\ \A i \in 1 .. Len(t) : u[i] = t[i]
    OBVIOUS
  <2> HIDE DEF u
  <2>2. g \in [1 .. Len(u) -> 1 .. n]
    BY <2>1
  <2>3. \A i \in 1 .. Len(u) : u[i] = buffer[g[i]] /\ u[i] \notin carried.seen
    BY <1>2, <2>1
  <2>4. \A i, j \in 1 .. Len(u) : i < j => g[i] < g[j]
    <3> SUFFICES ASSUME NEW i \in 1 .. Len(u), NEW j \in 1 .. Len(u), i < j
                 PROVE  g[i] < g[j]
      OBVIOUS
    <3>1. i \in 1 .. Len(t) /\ i # Len(u) /\ g[i] = f[i]
      BY <2>1
    <3>2. CASE j = Len(u)
      BY <2>1, <3>1, <3>2
    <3>3. CASE j # Len(u)
      <4>1. j \in 1 .. Len(t) /\ g[j] = f[j]
        BY <2>1, <3>3
      <4> QED
        BY <3>1, <4>1
    <3> QED
      BY <3>2, <3>3
  <2>5. ASSUME NEW m \in 1 .. n, buffer[m] \notin carried.seen
        PROVE  \E i \in 1 .. Len(u) : g[i] = m
    <3>1. CASE m = n
      BY <2>1, <3>1
    <3>2. CASE m # n
      <4>1. m \in 1 .. (n - 1)
        BY <3>2
      <4>2. PICK i \in 1 .. Len(t) : f[i] = m
        BY <2>5, <4>1
      <4>3. i \in 1 .. Len(u) /\ i # Len(u)
        BY <2>1
      <4> QED
        BY <4>2, <4>3
    <3> QED
      BY <3>1, <3>2
  <2>6. Embeds(g, u, n)
    BY <2>1, <2>2, <2>3, <2>4, <2>5
  <2> QED
    BY <1>2, <2>6 DEF u
<1> QED
  BY <1>1, <1>2

(* Every prefix of the buffer is filtered: there is no least one that is   *)
(* not.                                                                    *)
LEMMA UnseenEmbeds ==
  ASSUME buffer \in Seq(Items)
  PROVE  \A n \in 0 .. Len(buffer) : \E f : Embeds(f, Unseen[n], n)
<1> DEFINE T == {n \in 0 .. Len(buffer) : ~\E f : Embeds(f, Unseen[n], n)}
<1> SUFFICES ASSUME T # {} PROVE FALSE
  OBVIOUS
<1>1. PICK m \in T : \A k \in T : m <= k
  <2>1. T \subseteq Nat
    OBVIOUS
  <2> HIDE DEF T
  <2> QED
    BY <2>1, LeastNatural
<1>2. m \in Nat /\ m <= Len(buffer) /\ ~\E f : Embeds(f, Unseen[m], m)
  OBVIOUS
<1>3. m # 0
  <2>1. Embeds([i \in 1 .. 0 |-> 0], <<>>, 0)
    BY DEF Embeds
  <2>2. \E f : Embeds(f, Unseen[0], 0)
    BY <2>1, UnseenDef
  <2> QED
    BY <1>2, <2>2
<1>4. PICK f : Embeds(f, Unseen[m - 1], m - 1)
  <2>1. m - 1 \in 0 .. Len(buffer) /\ ~(m <= m - 1)
    BY <1>2, <1>3
  <2>2. m - 1 \notin T
    <3> HIDE DEF T
    <3> QED
      BY <1>1, <2>1
  <2> QED
    BY <2>1, <2>2
<1>5. m \in 1 .. Len(buffer) /\ m \in Nat \ {0}
  BY <1>2, <1>3
<1>6. CASE buffer[m] \in carried.seen
  BY <1>2, <1>4, <1>5, <1>6, UnseenDef, EmbedsNext
<1>7. CASE buffer[m] \notin carried.seen
  BY <1>2, <1>4, <1>5, <1>7, UnseenDef, EmbedsNext
<1> QED
  BY <1>6, <1>7

-----------------------------------------------------------------------------
(* Sequences of items. *)

(* The elements of a sequence are those at its positions. *)
LEMMA RangeSeq ==
  ASSUME NEW s \in Seq(Items)
  PROVE  /\ Len(s) \in Nat
         /\ \A x : x \in Range(s) <=> \E m \in 1 .. Len(s) : s[m] = x
         /\ Range(s) \subseteq Items
BY DEF Range

(* Appending an item. *)
LEMMA AppendFacts ==
  ASSUME NEW s \in Seq(Items), NEW i \in Items
  PROVE  /\ Append(s, i) \in Seq(Items) /\ Len(Append(s, i)) = Len(s) + 1
         /\ \A m \in 1 .. Len(s) : Append(s, i)[m] = s[m]
         /\ Append(s, i)[Len(s) + 1] = i
         /\ Range(Append(s, i)) = Range(s) \cup {i}
<1>1. /\ Append(s, i) \in Seq(Items) /\ Len(Append(s, i)) = Len(s) + 1
      /\ \A m \in 1 .. Len(s) : Append(s, i)[m] = s[m]
      /\ Append(s, i)[Len(s) + 1] = i
      /\ Len(s) \in Nat
  OBVIOUS
<1>2. PICK t : t = Append(s, i)
  OBVIOUS
<1>3. Range(t) = Range(s) \cup {i}
  <2>1. \A x : x \in Range(t) <=> \E m \in 1 .. Len(t) : t[m] = x
    BY <1>1, <1>2, RangeSeq
  <2>2. \A x : x \in Range(s) <=> \E m \in 1 .. Len(s) : s[m] = x
    BY RangeSeq
  <2>3. \A m : m \in 1 .. Len(t) <=> m \in 1 .. Len(s) \/ m = Len(s) + 1
    BY <1>1, <1>2
  <2>4. ASSUME NEW x PROVE x \in Range(t) <=> x \in Range(s) \cup {i}
    BY <1>1, <1>2, <2>1, <2>2, <2>3
  <2> QED
    BY <2>4
<1> QED
  BY <1>1, <1>2, <1>3

(* A sequence followed by another. *)
LEMMA ConcatFacts ==
  ASSUME NEW s \in Seq(Items), NEW t \in Seq(Items)
  PROVE  /\ s \o t \in Seq(Items) /\ Len(s \o t) = Len(s) + Len(t)
         /\ \A m \in 1 .. Len(s \o t) :
              (s \o t)[m] = IF m <= Len(s) THEN s[m] ELSE t[m - Len(s)]
OBVIOUS

(* The first item of some kinds. *)
LEMMA FirstFacts ==
  ASSUME buffer \in Seq(Items), NEW kinds, Buffered(kinds)
  PROVE  /\ First(kinds) \in 1 .. Len(buffer)
         /\ Kind[buffer[First(kinds)]] \in kinds
         /\ \A m \in 1 .. Len(buffer) :
              Kind[buffer[m]] \in kinds => First(kinds) <= m
<1> DEFINE I == {m \in 1 .. Len(buffer) : Kind[buffer[m]] \in kinds}
<1>1. I # {} /\ I \subseteq Nat
  BY RangeSeq DEF Buffered
<1>2. PICK x \in I : \A y \in I : x <= y
  <2> HIDE DEF I
  <2> QED
    BY <1>1, LeastNatural
<1>3. First(kinds) = Min(I)
  BY <1>1 DEF First, SelectInSeq
<1>4. Min(I) \in I /\ \A y \in I : Min(I) <= y
  <2> HIDE DEF I
  <2> QED
    BY <1>1, <1>2 DEF Min
<1> QED
  BY <1>3, <1>4

(* A sequence without the item at a position. *)
LEMMA RemoveFacts ==
  ASSUME NEW s \in Seq(Items), NEW n \in 1 .. Len(s)
  PROVE  /\ RemoveAt(s, n) \in Seq(Items) /\ Len(RemoveAt(s, n)) = Len(s) - 1
         /\ \A m \in 1 .. (Len(s) - 1) :
              RemoveAt(s, n)[m] = IF m < n THEN s[m] ELSE s[m + 1]
<1> DEFINE a == SubSeq(s, 1, n - 1)
           b == SubSeq(s, n + 1, Len(s))
<1>1. /\ a \in Seq(Items) /\ Len(a) = n - 1
      /\ \A m \in 1 .. (n - 1) : a[m] = s[m]
  OBVIOUS
<1>2. /\ b \in Seq(Items) /\ Len(b) = Len(s) - n
      /\ \A m \in 1 .. (Len(s) - n) : b[m] = s[m + n]
  OBVIOUS
<1>3. RemoveAt(s, n) = a \o b
  BY DEF RemoveAt
<1> HIDE DEF a, b
<1>4. /\ a \o b \in Seq(Items) /\ Len(a \o b) = Len(s) - 1
      /\ \A m \in 1 .. (Len(s) - 1) :
           (a \o b)[m] = IF m <= n - 1 THEN a[m] ELSE b[m - (n - 1)]
  BY <1>1, <1>2, ConcatFacts
<1>5. ASSUME NEW m \in 1 .. (Len(s) - 1)
      PROVE  (a \o b)[m] = IF m < n THEN s[m] ELSE s[m + 1]
  <2>1. CASE m < n
    <3>1. m <= n - 1 /\ m \in 1 .. (n - 1)
      BY <2>1
    <3>2. (a \o b)[m] = a[m]
      BY <1>4, <3>1
    <3> QED
      BY <1>1, <2>1, <3>1, <3>2
  <2>2. CASE ~(m < n)
    <3>1. m - (n - 1) \in 1 .. (Len(s) - n) /\ (m - (n - 1)) + n = m + 1
      BY <2>2
    <3>2. (a \o b)[m] = b[m - (n - 1)]
      BY <1>4, <2>2
    <3> QED
      BY <1>2, <2>2, <3>1, <3>2
  <2> QED
    BY <2>1, <2>2
<1> QED
  BY <1>3, <1>4, <1>5

-----------------------------------------------------------------------------
(* The inductive invariant. *)

(* x was first delivered before y. *)
Before(x, y) ==
  \A k, l \in 1 .. Len(delivered) :
    delivered[k] = x /\ delivered[l] = y => k < l

(* The sequences are sequences of items. *)
AreSequences ==
  /\ buffer \in Seq(Items) /\ taken \in Seq(Items) /\ delivered \in Seq(Items)
  /\ carried.buffer \in Seq(Items)

(* What was delivered is seen, by this run or an earlier one; what is seen *)
(* is buffered or was acted upon, and conversely; and nothing is both,     *)
(* once the run has restored what it carries.                              *)
Books ==
  /\ Range(delivered) = carried.seen \cup seen
  /\ seen \subseteq Range(buffer) \cup Range(taken)
  /\ carried.seen \subseteq Range(carried.buffer) \cup Range(taken)
  /\ Range(buffer) \subseteq seen
  /\ Range(carried.buffer) \subseteq carried.seen
  /\ Range(taken) \subseteq carried.seen \/ pc # "prestart"
  /\ Range(taken) \subseteq seen \/ pc = "prestart"
  /\ Range(carried.buffer) \cap Range(taken) = {}
  /\ Range(buffer) \cap Range(taken) = {} \/ pc = "prestart"

(* Only a run that has not begun carries anything. *)
CarriedOver ==
  pc # "prestart" => carried.buffer = <<>> /\ carried.seen = {}

(* No item is in a sequence twice. *)
NoRepeats ==
  /\ Distinct(delivered) /\ Distinct(buffer) /\ Distinct(carried.buffer)
  /\ Distinct(taken)

(* What is carried, and then what was not seen before, is in the order of  *)
(* its first delivery; and an item is taken before later ones of its queue.*)
Ordered ==
  /\ \A m, n \in 1 .. Len(carried.buffer) :
       m < n => Before(carried.buffer[m], carried.buffer[n])
  /\ \A m, n \in 1 .. Len(buffer) :
       m < n /\ buffer[m] \notin carried.seen /\ buffer[n] \notin carried.seen
       => Before(buffer[m], buffer[n])
  /\ \A x \in Range(carried.buffer), y \in Range(buffer) \ carried.seen :
       Before(x, y)
  /\ \A x \in Range(taken),
        y \in Range(carried.buffer) \cup (Range(buffer) \ carried.seen) :
       SameQueue(x, y) => Before(x, y)

Inv == AreSequences /\ Books /\ CarriedOver /\ NoRepeats /\ Ordered /\ InOrder

(* The first item of a queue is taken.                                     *)
Takes(kinds) ==
  /\ pc = "loop" /\ pc' # "prestart" /\ Buffered(kinds) /\ Take(kinds)
  /\ \A i, j \in Items : SameQueue(i, j) /\ Kind[i] \in kinds => Kind[j] \in kinds
  /\ UNCHANGED <<seen, carried, delivered>>

(* Nothing happens to the items. *)
Still ==
  /\ UNCHANGED <<buffer, seen, carried, delivered, taken>>
  /\ pc = "prestart" <=> pc' = "prestart"

(* What a step may do to the items. *)
LEMMA StepKinds ==
  ASSUME plan \in Plan, [Next]_vars
  PROVE  \/ \E i \in Items : Receive(i)
         \/ Restore
         \/ ContinueAsNew
         \/ \E kinds : Takes(kinds)
         \/ Still
<1> USE MailboxAssumption DEF turn, input, awake, unsignalled
<1>1. ASSUME NEW p \in Projections \ {NoPlan}, ReplaceWakePlan(p) PROVE Still
  BY <1>1 DEF ReplaceWakePlan, Still
<1>2. CASE Close \/ TimerDue \/ Finish
  BY <1>2 DEF Close, TimerDue, Finish, Still
<1>3. CASE Wake
  <2>1. CASE WakeInitial
    <3>1. Takes(EventTypes)
      BY <2>1 DEF WakeInitial, Takes, Wakes, NextWake, BeginTurn, SameQueue,
                  CommandKinds, Reviews, Controls
    <3> QED
      BY <3>1
  <2>2. CASE WakeReview
    <3>1. Takes(Reviews)
      BY <2>2 DEF WakeReview, Takes, Wakes, NextWake, BeginTurn, SameQueue,
                  Reviews, Controls
    <3> QED
      BY <3>1
  <2>3. CASE WakeResolution
    <3>1. Takes({"resolution"})
      BY <2>3 DEF WakeResolution, Takes, Wakes, NextWake, BeginTurn, SameQueue,
                  Reviews, Controls
    <3> QED
      BY <3>1
  <2>4. CASE WakeControl
    <3>1. Takes(Controls)
      BY <2>4 DEF WakeControl, Takes, Wakes, NextWake, BeginTurn, SameQueue,
                  Reviews, Controls
    <3> QED
      BY <3>1
  <2>5. CASE WakeManual
    <3>1. Takes({"manual_wake"})
      BY <2>5 DEF WakeManual, Takes, Wakes, NextWake, BeginTurn, SameQueue,
                  Reviews, Controls
    <3> QED
      BY <3>1
  <2>6. CASE WakeEvent
    <3>1. Takes(plan.events)
      BY <2>6 DEF WakeEvent, Takes, Wakes, NextWake, BeginTurn, SameQueue,
                  CommandKinds, Reviews, Controls, Plan
    <3> QED
      BY <3>1
  <2>7. CASE WakeTimer
    BY <2>7 DEF WakeTimer, Wakes, BeginTurn, Still
  <2> QED
    BY <1>3, <2>1, <2>2, <2>3, <2>4, <2>5, <2>6, <2>7 DEF Wake
<1>4. CASE ActivityReturns
  <2> USE DEF Still, Return, TurnFails, ApplyTurnOutcome, Proceed, BeginTurn,
              Executed, ExecutionRaises
  <2>1. CASE AgentDecides \/ AgentSuspended
    BY <2>1 DEF AgentDecides, AgentSuspended
  <2>2. ASSUME NEW n \in 0 .. MaxActions, ActionsPersisted(n) PROVE Still
    BY <2>2 DEF ActionsPersisted
  <2>3. ASSUME NEW p \in Projections, StatePersisted(p) PROVE Still
    BY <2>3 DEF StatePersisted
  <2>4. CASE TurnActivityFails
    BY <2>4 DEF TurnActivityFails
  <2>5. CASE ExecuteReturns \/ ExecuteUnknown \/ ReconcileReturns
    BY <2>5 DEF ExecuteReturns, ExecuteUnknown, ReconcileReturns
  <2>6. CASE ExecutionIncompatible
    BY <2>6 DEF ExecutionIncompatible
  <2>7. CASE InterventionRecorded \/ InterventionFails
    BY <2>7 DEF InterventionRecorded, InterventionFails
  <2> QED
    BY <1>4, <2>1, <2>2, <2>3, <2>4, <2>5, <2>6, <2>7 DEF ActivityReturns
<1>5. CASE UNCHANGED vars
  BY <1>5 DEF vars, Still
<1> QED
  BY <1>1, <1>2, <1>3, <1>4, <1>5 DEF Next

-----------------------------------------------------------------------------
(* A signal arrives. *)

(* The order of what was delivered is not changed by what is delivered.    *)
LEMMA BeforeGrows ==
  ASSUME delivered \in Seq(Items), NEW i \in Items,
         delivered' = IF i \in Range(delivered) THEN delivered
                      ELSE Append(delivered, i)
  PROVE  /\ \A x, y : x \in Range(delivered) /\ Before(x, y) => Before(x, y)'
         /\ i \notin Range(delivered) =>
              \A x : x \in Range(delivered) => Before(x, i)'
<1>1. CASE i \in Range(delivered)
  BY <1>1 DEF Before
<1>2. CASE i \notin Range(delivered)
  <2>1. PICK d : d = delivered'
    OBVIOUS
  <2>2. /\ Len(delivered) \in Nat /\ Len(d) = Len(delivered) + 1
        /\ \A m \in 1 .. Len(delivered) : d[m] = delivered[m]
        /\ d[Len(delivered) + 1] = i
    BY <1>2, <2>1, AppendFacts
  <2>3. \A m \in 1 .. Len(delivered) : delivered[m] # i
    BY <1>2, RangeSeq
  <2>4. ASSUME NEW x \in Range(delivered), NEW y, Before(x, y) \/ y = i,
               NEW k \in 1 .. Len(d), NEW l \in 1 .. Len(d),
               d[k] = x, d[l] = y
        PROVE  k < l
    <3>1. x # i
      BY <1>2
    <3>2. k \in 1 .. Len(delivered) /\ delivered[k] = x
      BY <2>2, <2>4, <3>1
    <3>3. CASE l = Len(delivered) + 1
      BY <2>2, <3>2, <3>3
    <3>4. CASE l # Len(delivered) + 1
      <4>1. l \in 1 .. Len(delivered) /\ delivered[l] = y
        BY <2>2, <2>4, <3>4
      <4>2. y # i
        BY <2>3, <4>1
      <4> QED
        BY <2>4, <3>2, <4>1, <4>2 DEF Before
    <3> QED
      BY <3>3, <3>4
  <2> QED
    BY <2>1, <2>4 DEF Before
<1> QED
  BY <1>1, <1>2

(* Appending an item that is not there repeats none. *)
LEMMA AppendDistinct ==
  ASSUME NEW s \in Seq(Items), NEW i \in Items, Distinct(s), i \notin Range(s)
  PROVE  Distinct(Append(s, i))
<1>1. PICK t : t = Append(s, i)
  OBVIOUS
<1>2. /\ Len(s) \in Nat /\ Len(t) = Len(s) + 1 /\ t[Len(s) + 1] = i
      /\ \A m \in 1 .. Len(s) : t[m] = s[m] /\ s[m] # i
  BY <1>1, AppendFacts, RangeSeq
<1>3. ASSUME NEW m \in 1 .. Len(t), NEW n \in 1 .. Len(t), t[m] = t[n]
      PROVE  m = n
  <2>1. m \in 1 .. Len(s) \/ m = Len(s) + 1
    BY <1>2
  <2>2. n \in 1 .. Len(s) \/ n = Len(s) + 1
    BY <1>2
  <2> QED
    BY <1>2, <1>3, <2>1, <2>2 DEF Distinct
<1> QED
  BY <1>1, <1>3 DEF Distinct

(* An item that arrives again is in the buffer only until it is filtered;  *)
(* a new one is the last of all.                                           *)
LEMMA ReceiveInv ==
  ASSUME Inv, NEW i \in Items, Receive(i)
  PROVE  Inv'
<1> USE DEF input, turn
<1>1. /\ i \notin seen /\ seen' = seen \cup {i} /\ buffer' = Append(buffer, i)
      /\ delivered' = IF i \in Range(delivered) THEN delivered
                      ELSE Append(delivered, i)
      /\ carried' = carried /\ taken' = taken /\ pc' = pc
      /\ AreSequences
  BY DEF Receive, Inv
<1>2. /\ buffer' \in Seq(Items) /\ Range(buffer') = Range(buffer) \cup {i}
      /\ Len(buffer') = Len(buffer) + 1 /\ buffer'[Len(buffer) + 1] = i
      /\ \A m \in 1 .. Len(buffer) : buffer'[m] = buffer[m]
      /\ Len(buffer) \in Nat
  BY <1>1, AppendFacts, RangeSeq DEF AreSequences
<1>3. /\ delivered' \in Seq(Items)
      /\ Range(delivered') = Range(delivered) \cup {i}
  BY <1>1, AppendFacts DEF AreSequences
<1>4. AreSequences'
  BY <1>1, <1>2, <1>3 DEF AreSequences
<1>5. Books' /\ CarriedOver'
  BY <1>1, <1>2, <1>3 DEF Inv, Books, CarriedOver
<1>6. NoRepeats'
  <2>1. i \notin Range(buffer)
    BY <1>1 DEF Inv, Books
  <2>2. Distinct(buffer')
    BY <1>1, <2>1, AppendDistinct DEF Inv, NoRepeats, AreSequences
  <2>3. Distinct(delivered')
    BY <1>1, AppendDistinct DEF Inv, NoRepeats, AreSequences
  <2> QED
    BY <1>1, <2>2, <2>3 DEF Inv, NoRepeats
<1>7. /\ \A x, y : x \in Range(delivered) /\ Before(x, y) => Before(x, y)'
      /\ i \notin Range(delivered) =>
           \A x : x \in Range(delivered) => Before(x, i)'
  BY <1>1, BeforeGrows DEF AreSequences
<1>8. /\ Range(delivered) = carried.seen \cup seen /\ Range(buffer) \subseteq seen
      /\ Range(carried.buffer) \subseteq carried.seen
      /\ Range(taken) \subseteq Range(delivered)
  BY DEF Inv, Books
<1>9. PICK B : B = buffer'
  OBVIOUS
<1>10. ASSUME NEW m \in 1 .. Len(carried.buffer),
              NEW n \in 1 .. Len(carried.buffer), m < n
       PROVE  Before(carried.buffer[m], carried.buffer[n])'
  <2>1. carried.buffer[m] \in Range(delivered)
    BY <1>1, <1>8, RangeSeq DEF AreSequences
  <2>2. Before(carried.buffer[m], carried.buffer[n])
    BY <1>10 DEF Inv, Ordered
  <2>3. PICK x, y : x = carried.buffer[m] /\ y = carried.buffer[n]
    OBVIOUS
  <2>4. Before(x, y)'
    BY <1>7, <2>1, <2>2, <2>3
  <2> QED
    BY <1>1, <2>3, <2>4 DEF Before
<1>11. ASSUME NEW m \in 1 .. Len(B), NEW n \in 1 .. Len(B), m < n,
              B[m] \notin carried.seen, B[n] \notin carried.seen
       PROVE  Before(B[m], B[n])'
  <2>1. m \in 1 .. Len(buffer) /\ B[m] = buffer[m]
    BY <1>2, <1>9, <1>11
  <2>2. B[m] \in Range(delivered)
    BY <1>1, <1>8, <2>1, RangeSeq DEF AreSequences
  <2>3. CASE n \in 1 .. Len(buffer)
    <3>1. B[n] = buffer[n]
      BY <1>2, <1>9, <2>3
    <3>2. Before(buffer[m], buffer[n])
      BY <1>11, <2>1, <2>3, <3>1 DEF Inv, Ordered
    <3> QED
      BY <1>7, <2>1, <2>2, <3>1, <3>2
  <2>4. CASE n = Len(buffer) + 1
    <3>1. B[n] = i /\ i \notin Range(delivered)
      BY <1>1, <1>2, <1>8, <1>9, <1>11, <2>4
    <3> QED
      BY <1>7, <2>2, <3>1
  <2> QED
    BY <1>2, <1>9, <2>3, <2>4
<1>12. ASSUME NEW x \in Range(carried.buffer),
              NEW y \in Range(B) \ carried.seen
       PROVE  Before(x, y)'
  <2>1. x \in Range(delivered)
    BY <1>8
  <2>2. CASE y \in Range(buffer)
    BY <1>7, <1>12, <2>1, <2>2 DEF Inv, Ordered
  <2>3. CASE y = i
    BY <1>1, <1>7, <1>8, <1>12, <2>1, <2>3
  <2> QED
    BY <1>2, <1>9, <2>2, <2>3
<1>13. ASSUME NEW x \in Range(taken),
              NEW y \in Range(carried.buffer) \cup (Range(B) \ carried.seen),
              SameQueue(x, y)
       PROVE  Before(x, y)'
  <2>1. x \in Range(delivered)
    BY <1>8
  <2>2. CASE y \in Range(carried.buffer) \cup (Range(buffer) \ carried.seen)
    BY <1>7, <1>13, <2>1, <2>2 DEF Inv, Ordered
  <2>3. CASE y = i /\ y \notin carried.seen
    BY <1>1, <1>7, <1>8, <2>1, <2>3
  <2> QED
    BY <1>2, <1>9, <2>2, <2>3
<1>14. Ordered'
  BY <1>1, <1>9, <1>10, <1>11, <1>12, <1>13 DEF Ordered
<1>15. InOrder'
  <2>1. ASSUME NEW m \in 1 .. Len(taken), NEW n \in 1 .. Len(taken), m < n,
               SameQueue(taken[m], taken[n])
        PROVE  Before(taken[m], taken[n])'
    <3>1. taken[m] \in Range(delivered)
      BY <1>1, <1>8, RangeSeq DEF AreSequences
    <3>2. Before(taken[m], taken[n])
      BY <2>1 DEF Inv, InOrder, Before
    <3>3. PICK x, y : x = taken[m] /\ y = taken[n]
      OBVIOUS
    <3>4. Before(x, y)'
      BY <1>7, <3>1, <3>2, <3>3
    <3> QED
      BY <1>1, <3>3, <3>4 DEF Before
  <2> QED
    BY <1>1, <2>1 DEF InOrder, Before
<1> QED
  BY <1>4, <1>5, <1>6, <1>14, <1>15 DEF Inv

-----------------------------------------------------------------------------
(* A run begins, and a run continues as new. *)

(* The merged buffer: where its items come from, and that none is missing. *)
LEMMA MergedFacts ==
  ASSUME AreSequences
  PROVE  \E f, k :
    /\ k = Len(carried.buffer) /\ k \in Nat /\ Merged \in Seq(Items)
    /\ \A m \in 1 .. Len(Merged) : \/ m <= k /\ Merged[m] = carried.buffer[m]
                                  \/ /\ m > k /\ f[m] \in 1 .. Len(buffer)
                                     /\ Merged[m] = buffer[f[m]]
                                     /\ Merged[m] \notin carried.seen
    /\ \A m, n \in 1 .. Len(Merged) : k < m /\ m < n => f[m] < f[n]
    /\ Range(Merged) =
         Range(carried.buffer) \cup (Range(buffer) \ carried.seen)
<1>1. PICK c : c = carried.buffer
  OBVIOUS
<1>2. PICK u : u = Unseen[Len(buffer)]
  OBVIOUS
<1>3. PICK M : M = Merged
  OBVIOUS
<1>4. PICK f : Embeds(f, u, Len(buffer))
  BY <1>2, UnseenEmbeds DEF AreSequences
<1>5. /\ c \in Seq(Items) /\ u \in Seq(Items) /\ M = c \o u
      /\ Len(c) \in Nat /\ Len(u) \in Nat /\ Len(buffer) \in Nat
  BY <1>1, <1>2, <1>3, <1>4, RangeSeq DEF Merged, Embeds, AreSequences
<1>6. /\ M \in Seq(Items) /\ Len(M) = Len(c) + Len(u)
      /\ \A m \in 1 .. Len(M) :
           M[m] = IF m <= Len(c) THEN c[m] ELSE u[m - Len(c)]
  BY <1>5, ConcatFacts
<1> DEFINE g == [m \in 1 .. Len(M) |-> f[m - Len(c)]]
<1>7. ASSUME NEW m \in 1 .. Len(M)
      PROVE  \/ m <= Len(c) /\ M[m] = c[m]
             \/ /\ m > Len(c) /\ g[m] \in 1 .. Len(buffer)
                /\ M[m] = buffer[g[m]] /\ M[m] \notin carried.seen
  <2>1. CASE m <= Len(c)
    BY <1>6, <2>1
  <2>2. CASE ~(m <= Len(c))
    <3>1. m - Len(c) \in 1 .. Len(u) /\ m > Len(c)
      BY <1>5, <1>6, <2>2
    <3>2. M[m] = u[m - Len(c)] /\ g[m] = f[m - Len(c)]
      BY <1>6, <2>2
    <3> QED
      BY <1>4, <3>1, <3>2 DEF Embeds
  <2> QED
    BY <2>1, <2>2
<1>8. ASSUME NEW m \in 1 .. Len(M), NEW n \in 1 .. Len(M), Len(c) < m, m < n
      PROVE  g[m] < g[n]
  <2>1. /\ m - Len(c) \in 1 .. Len(u) /\ n - Len(c) \in 1 .. Len(u)
        /\ m - Len(c) < n - Len(c)
    BY <1>5, <1>6, <1>8
  <2> QED
    BY <1>4, <2>1 DEF Embeds
<1>9. ASSUME NEW x
      PROVE  x \in Range(M) <=>
               x \in Range(c) \cup (Range(buffer) \ carried.seen)
  <2>1. /\ x \in Range(M) <=> \E m \in 1 .. Len(M) : M[m] = x
        /\ x \in Range(c) <=> \E m \in 1 .. Len(c) : c[m] = x
        /\ x \in Range(buffer) <=> \E m \in 1 .. Len(buffer) : buffer[m] = x
    BY <1>5, <1>6, RangeSeq DEF AreSequences
  <2>2. ASSUME x \in Range(M)
        PROVE  x \in Range(c) \cup (Range(buffer) \ carried.seen)
    <3>1. PICK m \in 1 .. Len(M) : M[m] = x
      BY <2>1, <2>2
    <3>2. CASE m <= Len(c) /\ M[m] = c[m]
      <4>1. m \in 1 .. Len(c)
        BY <1>5, <1>6, <3>2
      <4> QED
        BY <2>1, <3>1, <3>2, <4>1
    <3>3. CASE /\ m > Len(c) /\ g[m] \in 1 .. Len(buffer)
               /\ M[m] = buffer[g[m]] /\ M[m] \notin carried.seen
      <4> HIDE DEF g
      <4> QED
        BY <2>1, <3>1, <3>3
    <3> QED
      BY <1>7, <3>2, <3>3
  <2>3. ASSUME x \in Range(c) PROVE x \in Range(M)
    <3>1. PICK m \in 1 .. Len(c) : c[m] = x
      BY <2>1, <2>3
    <3>2. m \in 1 .. Len(M) /\ m <= Len(c)
      BY <1>5, <1>6
    <3> QED
      BY <1>6, <2>1, <3>1, <3>2
  <2>4. ASSUME x \in Range(buffer) \ carried.seen PROVE x \in Range(M)
    <3>1. PICK p \in 1 .. Len(buffer) : buffer[p] = x
      BY <2>1, <2>4
    <3>2. PICK j \in 1 .. Len(u) : f[j] = p
      BY <1>4, <2>4, <3>1 DEF Embeds
    <3>3. u[j] = x
      BY <1>4, <3>1, <3>2 DEF Embeds
    <3>4. /\ j + Len(c) \in 1 .. Len(M) /\ ~(j + Len(c) <= Len(c))
          /\ (j + Len(c)) - Len(c) = j
      BY <1>5, <1>6
    <3>5. M[j + Len(c)] = x
      BY <1>6, <3>3, <3>4
    <3> QED
      BY <2>1, <3>4, <3>5
  <2> QED
    BY <2>2, <2>3, <2>4
<1>10. Range(M) = Range(c) \cup (Range(buffer) \ carried.seen)
  BY <1>9
<1> HIDE DEF g
<1>11. /\ Len(c) = Len(carried.buffer) /\ Len(c) \in Nat /\ M \in Seq(Items)
  BY <1>1, <1>5, <1>6
<1>12. \A m \in 1 .. Len(M) :
          \/ m <= Len(c) /\ M[m] = carried.buffer[m]
          \/ /\ m > Len(c) /\ g[m] \in 1 .. Len(buffer)
             /\ M[m] = buffer[g[m]] /\ M[m] \notin carried.seen
  BY <1>1, <1>7, Zenon
<1>13. \A m, n \in 1 .. Len(M) : Len(c) < m /\ m < n => g[m] < g[n]
  BY <1>8, Zenon
<1>14. Range(M) = Range(carried.buffer) \cup (Range(buffer) \ carried.seen)
  BY <1>1, <1>10, Zenon
<1>15. WITNESS g, Len(c)
<1> QED
  BY <1>3, <1>11, <1>12, <1>13, <1>14, Zenon

(* The run begins with what it carries, and then what it had not seen.     *)
LEMMA RestoreInv ==
  ASSUME Inv, Restore
  PROVE  Inv'
<1> USE DEF turn
<1>1. /\ pc = "prestart" /\ pc' = "loop" /\ buffer' = Merged
      /\ seen' = carried.seen \cup seen /\ carried'.buffer = <<>>
      /\ carried'.seen = {} /\ delivered' = delivered /\ taken' = taken
      /\ AreSequences
  BY DEF Restore, RestoredSeen, EmptyContinuation, Inv
<1>2. PICK B : B = buffer'
  OBVIOUS
<1>3. PICK c : c = carried.buffer
  OBVIOUS
<1>4. PICK f, k :
        /\ k = Len(c) /\ k \in Nat /\ B \in Seq(Items)
        /\ \A m \in 1 .. Len(B) : \/ m <= k /\ B[m] = c[m]
                                 \/ /\ m > k /\ f[m] \in 1 .. Len(buffer)
                                    /\ B[m] = buffer[f[m]]
                                    /\ B[m] \notin carried.seen
        /\ \A m, n \in 1 .. Len(B) : k < m /\ m < n => f[m] < f[n]
        /\ Range(B) = Range(c) \cup (Range(buffer) \ carried.seen)
  BY <1>1, <1>2, <1>3, MergedFacts
<1>5. /\ c \in Seq(Items) /\ Len(B) \in Nat /\ Len(buffer) \in Nat
      /\ Range(<<>>) = {}
  BY <1>1, <1>3, <1>4, RangeSeq DEF AreSequences, Range
<1>6. AreSequences'
  BY <1>1, <1>2, <1>4 DEF AreSequences
<1>7. Books' /\ CarriedOver'
  BY <1>1, <1>2, <1>3, <1>4, <1>5 DEF Inv, Books, CarriedOver
<1>8. ASSUME NEW m \in 1 .. Len(B), NEW n \in 1 .. Len(B), m < n
      PROVE  B[m] # B[n] /\ Before(B[m], B[n])
  <2>1. CASE n <= k
    <3>1. m \in 1 .. Len(c) /\ n \in 1 .. Len(c) /\ B[m] = c[m] /\ B[n] = c[n]
      BY <1>4, <1>5, <1>8, <2>1
    <3>2. c[m] # c[n]
      BY <1>3, <1>8, <3>1 DEF Inv, NoRepeats, Distinct
    <3> QED
      BY <1>3, <1>8, <3>1, <3>2 DEF Inv, Ordered
  <2>2. CASE m <= k /\ ~(n <= k)
    <3>1. m \in 1 .. Len(c) /\ B[m] = c[m]
      BY <1>4, <1>5, <2>2
    <3>2. /\ f[n] \in 1 .. Len(buffer) /\ B[n] = buffer[f[n]]
          /\ B[n] \notin carried.seen
      BY <1>4, <2>2
    <3>3. B[m] \in Range(c) /\ B[n] \in Range(buffer) \ carried.seen
      BY <1>1, <1>5, <3>1, <3>2, RangeSeq DEF AreSequences
    <3> QED
      BY <1>3, <3>3 DEF Inv, Books, Ordered
  <2>3. CASE ~(m <= k)
    <3>1. /\ f[m] \in 1 .. Len(buffer) /\ B[m] = buffer[f[m]]
          /\ f[n] \in 1 .. Len(buffer) /\ B[n] = buffer[f[n]]
          /\ f[m] < f[n]
          /\ B[m] \notin carried.seen /\ B[n] \notin carried.seen
      BY <1>4, <1>8, <2>3
    <3>2. B[m] # B[n]
      BY <1>5, <3>1 DEF Inv, NoRepeats, Distinct
    <3> QED
      BY <3>1, <3>2 DEF Inv, Ordered
  <2> QED
    BY <2>1, <2>2, <2>3
<1>9. NoRepeats'
  <2>1. Distinct(B)
    BY <1>5, <1>8 DEF Distinct
  <2>2. Distinct(<<>>)
    BY DEF Distinct
  <2> QED
    BY <1>1, <1>2, <2>1, <2>2 DEF Inv, NoRepeats
<1>10. \A x, y : Before(x, y) => Before(x, y)'
  BY <1>1 DEF Before
<1>11. \A x \in Range(taken), y \in Range(B) : SameQueue(x, y) => Before(x, y)
  BY <1>3, <1>4 DEF Inv, Ordered
<1>12. Ordered'
  <2>1. \A m, n \in 1 .. Len(B) : m < n => Before(B[m], B[n])'
    BY <1>8, <1>10
  <2>2. \A x \in Range(taken), y \in Range(B) : SameQueue(x, y) => Before(x, y)'
    BY <1>10, <1>11
  <2> QED
    BY <1>1, <1>2, <1>5, <2>1, <2>2 DEF Ordered
<1>13. InOrder'
  BY <1>1 DEF Inv, InOrder
<1> QED
  BY <1>6, <1>7, <1>9, <1>12, <1>13 DEF Inv

(* The run hands over what it has; the new one begins with nothing.        *)
LEMMA ContinueInv ==
  ASSUME Inv, ContinueAsNew
  PROVE  Inv'
<1> USE DEF turn
<1>1. /\ pc = "loop" /\ pc' = "prestart" /\ buffer' = <<>> /\ seen' = {}
      /\ carried'.buffer = buffer /\ carried'.seen = seen
      /\ delivered' = delivered /\ taken' = taken /\ AreSequences
  BY DEF ContinueAsNew, Inv
<1>2. carried.buffer = <<>> /\ carried.seen = {} /\ Range(<<>>) = {}
  BY <1>1 DEF Inv, CarriedOver, Range
<1>3. AreSequences'
  BY <1>1 DEF AreSequences
<1>4. Books' /\ CarriedOver'
  BY <1>1, <1>2 DEF Inv, Books, CarriedOver
<1>5. NoRepeats'
  BY <1>1, <1>2 DEF Inv, NoRepeats, Distinct
<1>6. \A x, y : Before(x, y) => Before(x, y)'
  BY <1>1 DEF Before
<1>7. Ordered'
  <2>1. \A m, n \in 1 .. Len(buffer) : m < n => Before(buffer[m], buffer[n])
    BY <1>2 DEF Inv, Ordered
  <2>2. \A x \in Range(taken), y \in Range(buffer) :
          SameQueue(x, y) => Before(x, y)
    BY <1>2 DEF Inv, Ordered
  <2>3. PICK b : b = buffer
    OBVIOUS
  <2>4. \A m, n \in 1 .. Len(b) : m < n => Before(b[m], b[n])'
    BY <1>6, <2>1, <2>3
  <2>5. \A x \in Range(taken), y \in Range(b) : SameQueue(x, y) => Before(x, y)'
    BY <1>6, <2>2, <2>3
  <2> QED
    BY <1>1, <1>2, <2>3, <2>4, <2>5 DEF Ordered
<1>8. InOrder'
  BY <1>1 DEF Inv, InOrder
<1> QED
  BY <1>3, <1>4, <1>5, <1>7, <1>8 DEF Inv

-----------------------------------------------------------------------------
(* The process wakes, and everything else. *)

(* The first item of a queue is taken: those of its queue that were there  *)
(* before it have been taken already.                                      *)
LEMMA TakeInv ==
  ASSUME Inv, NEW kinds, Takes(kinds)
  PROVE  Inv'
<1>1. /\ pc = "loop" /\ pc' # "prestart" /\ Buffered(kinds)
      /\ seen' = seen /\ carried' = carried /\ delivered' = delivered
      /\ \A i, j \in Items :
           SameQueue(i, j) /\ Kind[i] \in kinds => Kind[j] \in kinds
      /\ AreSequences
  BY DEF Takes, Inv
<1>2. PICK n : n = First(kinds)
  OBVIOUS
<1>3. /\ n \in 1 .. Len(buffer) /\ Kind[buffer[n]] \in kinds
      /\ \A m \in 1 .. Len(buffer) : Kind[buffer[m]] \in kinds => n <= m
      /\ Len(buffer) \in Nat
  BY <1>1, <1>2, FirstFacts, RangeSeq DEF AreSequences
<1>4. PICK B : B = buffer'
  OBVIOUS
<1>5. PICK x : x = buffer[n]
  OBVIOUS
<1>6. B = RemoveAt(buffer, n) /\ taken' = Append(taken, x)
  BY <1>2, <1>4, <1>5 DEF Takes, Take
<1>7. /\ B \in Seq(Items) /\ Len(B) = Len(buffer) - 1
      /\ \A m \in 1 .. Len(B) :
           B[m] = IF m < n THEN buffer[m] ELSE buffer[m + 1]
  BY <1>1, <1>3, <1>6, RemoveFacts DEF AreSequences
<1> DEFINE at(m) == IF m < n THEN m ELSE m + 1
<1>8. /\ \A m \in 1 .. Len(B) : /\ at(m) \in 1 .. Len(buffer) /\ at(m) # n
                                /\ B[m] = buffer[at(m)]
      /\ \A l, m \in 1 .. Len(B) : l < m => at(l) < at(m)
  BY <1>3, <1>7
<1>9. /\ x \in Items /\ x \in Range(buffer)
      /\ carried.buffer = <<>> /\ carried.seen = {} /\ Range(<<>>) = {}
  BY <1>1, <1>3, <1>5, RangeSeq DEF Inv, CarriedOver, AreSequences, Range
<1>10. /\ taken' \in Seq(Items) /\ Range(taken') = Range(taken) \cup {x}
       /\ Len(taken') = Len(taken) + 1 /\ taken'[Len(taken) + 1] = x
       /\ \A m \in 1 .. Len(taken) : taken'[m] = taken[m]
       /\ Len(taken) \in Nat
  BY <1>1, <1>6, <1>9, AppendFacts, RangeSeq DEF AreSequences
<1>11. Distinct(buffer)
  BY DEF Inv, NoRepeats
<1>12. Range(B) = Range(buffer) \ {x}
  <2>1. /\ \A y : y \in Range(B) <=> \E m \in 1 .. Len(B) : B[m] = y
        /\ \A y : y \in Range(buffer) <=> \E m \in 1 .. Len(buffer) : buffer[m] = y
    BY <1>1, <1>7, RangeSeq DEF AreSequences
  <2>2. ASSUME NEW y \in Range(B) PROVE y \in Range(buffer) \ {x}
    <3>1. PICK m \in 1 .. Len(B) : B[m] = y
      BY <2>1
    <3>2. PICK k \in 1 .. Len(buffer) : k # n /\ buffer[k] = y
      BY <1>8, <3>1
    <3>3. y # x
      BY <1>3, <1>5, <1>11, <3>2 DEF Distinct
    <3> QED
      BY <2>1, <3>2, <3>3
  <2>3. ASSUME NEW y \in Range(buffer), y # x PROVE y \in Range(B)
    <3>1. PICK m \in 1 .. Len(buffer) : buffer[m] = y
      BY <2>1
    <3>2. m # n
      BY <1>5, <2>3, <3>1
    <3>3. CASE m < n
      <4>1. m \in 1 .. Len(B)
        BY <1>3, <1>7, <3>3
      <4> QED
        BY <1>7, <2>1, <3>1, <3>3, <4>1
    <3>4. CASE ~(m < n)
      <4>1. m - 1 \in 1 .. Len(B) /\ ~(m - 1 < n) /\ (m - 1) + 1 = m
        BY <1>3, <1>7, <3>2, <3>4
      <4> QED
        BY <1>7, <2>1, <3>1, <4>1
    <3> QED
      BY <3>3, <3>4
  <2> QED
    BY <2>2, <2>3
<1>13. AreSequences'
  BY <1>1, <1>4, <1>7, <1>10 DEF AreSequences
<1>14. x \notin Range(taken)
  BY <1>1, <1>9 DEF Inv, Books
<1>15. Books' /\ CarriedOver'
  BY <1>1, <1>4, <1>9, <1>10, <1>12 DEF Inv, Books, CarriedOver
<1>16. NoRepeats'
  <2>1. Distinct(B)
    <3> HIDE DEF at
    <3>1. ASSUME NEW l \in 1 .. Len(B), NEW m \in 1 .. Len(B), l < m
          PROVE  B[l] # B[m]
      <4>1. /\ at(l) \in 1 .. Len(buffer) /\ at(m) \in 1 .. Len(buffer)
            /\ at(l) < at(m) /\ B[l] = buffer[at(l)] /\ B[m] = buffer[at(m)]
        BY <1>8, <3>1
      <4>2. at(l) # at(m)
        BY <1>3, <4>1
      <4> QED
        BY <1>11, <4>1, <4>2 DEF Distinct
    <3>2. Len(B) \in Nat
      BY <1>7, RangeSeq
    <3> QED
      BY <3>1, <3>2 DEF Distinct
  <2>2. Distinct(taken')
    BY <1>1, <1>6, <1>9, <1>14, AppendDistinct
       DEF Inv, NoRepeats, AreSequences
  <2> QED
    BY <1>1, <1>4, <2>1, <2>2 DEF Inv, NoRepeats
<1>17. \A y, z : Before(y, z) => Before(y, z)'
  BY <1>1 DEF Before
<1>18. \A l, m \in 1 .. Len(buffer) : l < m => Before(buffer[l], buffer[m])
  BY <1>9 DEF Inv, Ordered
<1>19. Ordered'
  <2>1. ASSUME NEW l \in 1 .. Len(B), NEW m \in 1 .. Len(B), l < m
        PROVE  Before(B[l], B[m])'
    <3> HIDE DEF at
    <3>1. Before(buffer[at(l)], buffer[at(m)])
      BY <1>8, <1>18, <2>1
    <3> QED
      BY <1>8, <1>17, <3>1
  <2>2. ASSUME NEW y \in Range(taken) \cup {x}, NEW z \in Range(B),
               SameQueue(y, z)
        PROVE  Before(y, z)'
    <3>1. CASE y \in Range(taken)
      <4>1. Before(y, z)
        BY <1>9, <1>12, <2>2, <3>1 DEF Inv, Ordered
      <4> QED
        BY <1>17, <4>1
    <3>2. CASE y = x
      <4>1. PICK m \in 1 .. Len(buffer) : buffer[m] = z
        BY <1>1, <1>12, RangeSeq DEF AreSequences
      <4>2. z \in Items /\ z # x
        BY <1>1, <1>12, RangeSeq DEF AreSequences
      <4>3. Kind[z] \in kinds
        BY <1>1, <1>3, <1>5, <1>9, <2>2, <3>2, <4>2
      <4>4. n < m
        BY <1>3, <1>5, <4>1, <4>2, <4>3
      <4> QED
        BY <1>3, <1>5, <1>17, <1>18, <3>2, <4>1, <4>4
    <3> QED
      BY <3>1, <3>2
  <2> QED
    BY <1>1, <1>4, <1>9, <1>10, <2>1, <2>2 DEF Ordered
<1>20. InOrder'
  <2>1. PICK T : T = taken'
    OBVIOUS
  <2>2. ASSUME NEW l \in 1 .. Len(T), NEW m \in 1 .. Len(T), l < m,
               SameQueue(T[l], T[m])
        PROVE  Before(T[l], T[m])
    <3>1. l \in 1 .. Len(taken) /\ T[l] = taken[l]
      BY <1>10, <2>1, <2>2
    <3>2. CASE m \in 1 .. Len(taken)
      <4>1. T[m] = taken[m]
        BY <1>10, <2>1, <3>2
      <4> QED
        BY <2>2, <3>1, <3>2, <4>1 DEF Inv, InOrder, Before
    <3>3. CASE m = Len(taken) + 1
      <4>1. T[m] = x /\ T[l] \in Range(taken)
        BY <1>1, <1>10, <2>1, <3>1, <3>3, RangeSeq DEF AreSequences
      <4> QED
        BY <1>9, <2>2, <4>1 DEF Inv, Ordered
    <3> QED
      BY <1>10, <2>1, <3>2, <3>3
  <2>3. \A l, m \in 1 .. Len(T) :
          l < m /\ SameQueue(T[l], T[m]) => Before(T[l], T[m])'
    BY <1>17, <2>2
  <2> QED
    BY <2>1, <2>3 DEF InOrder, Before
<1> QED
  BY <1>13, <1>15, <1>16, <1>19, <1>20 DEF Inv

(* A step that leaves the items alone. *)
LEMMA StillInv ==
  ASSUME Inv, Still
  PROVE  Inv'
<1>1. /\ buffer' = buffer /\ seen' = seen /\ carried' = carried
      /\ delivered' = delivered /\ taken' = taken
      /\ pc = "prestart" <=> pc' = "prestart"
  BY DEF Still
<1>2. AreSequences' /\ NoRepeats' /\ InOrder'
  BY <1>1 DEF Inv, AreSequences, NoRepeats, InOrder
<1>3. Books' /\ CarriedOver'
  BY <1>1 DEF Inv, Books, CarriedOver
<1>4. Ordered'
  <2>1. \A x, y : Before(x, y)' = Before(x, y)
    BY <1>1 DEF Before
  <2> QED
    BY <1>1, <2>1 DEF Inv, Ordered
<1> QED
  BY <1>2, <1>3, <1>4 DEF Inv

-----------------------------------------------------------------------------
(* What type each variable has. *)

(* Taking an item and merging the buffers give sequences of items. *)
LEMMA TypeSequences ==
  ASSUME TypeOK
  PROVE  /\ \A kinds : Buffered(kinds) =>
              /\ RemoveAt(buffer, First(kinds)) \in Seq(Items)
              /\ buffer[First(kinds)] \in Items
              /\ Append(taken, buffer[First(kinds)]) \in Seq(Items)
         /\ \A i \in Items : /\ Append(buffer, i) \in Seq(Items)
                             /\ Append(delivered, i) \in Seq(Items)
         /\ Merged \in Seq(Items)
<1>1. /\ buffer \in Seq(Items) /\ taken \in Seq(Items)
      /\ delivered \in Seq(Items) /\ carried.buffer \in Seq(Items)
  BY DEF TypeOK
<1>2. ASSUME NEW kinds, Buffered(kinds)
      PROVE  /\ RemoveAt(buffer, First(kinds)) \in Seq(Items)
             /\ buffer[First(kinds)] \in Items
             /\ Append(taken, buffer[First(kinds)]) \in Seq(Items)
  <2>1. PICK n : n = First(kinds)
    OBVIOUS
  <2>2. n \in 1 .. Len(buffer)
    BY <1>1, <1>2, <2>1, FirstFacts
  <2>3. RemoveAt(buffer, n) \in Seq(Items) /\ buffer[n] \in Items
    BY <1>1, <2>2, RemoveFacts
  <2> QED
    BY <1>1, <2>1, <2>3
<1>3. Merged \in Seq(Items)
  BY <1>1, MergedFacts DEF AreSequences
<1> QED
  BY <1>1, <1>2, <1>3

(* The plans are plans. *)
LEMMA Plans ==
  /\ NoPlan \in Plan /\ ParkedPlan \in Plan /\ Projections \subseteq Plan
  /\ \A p \in Plan : p.events \subseteq EventTypes
  /\ \A p \in Plan :
       [set |-> p.set, events |-> p.events, timer |-> "due"] \in Plan
<1>1. NoPlan \in Plan /\ ParkedPlan \in Plan
  BY DEF NoPlan, ParkedPlan, Plan
<1>2. Projections \subseteq Plan
  BY <1>1 DEF Projections, Plan
<1>3. \A p \in Plan : p.events \subseteq EventTypes
  BY DEF Plan
<1>4. ASSUME NEW p \in Plan
      PROVE  [set |-> p.set, events |-> p.events, timer |-> "due"] \in Plan
  <2>1. p.set \in BOOLEAN /\ p.events \in SUBSET EventTypes
    BY DEF Plan
  <2> QED
    BY <2>1 DEF Plan
<1> QED
  BY <1>1, <1>2, <1>3, <1>4

(* The part of TypeOK that is about the items, and the rest. *)
ItemsOK ==
  /\ buffer \in Seq(Items) /\ taken \in Seq(Items)
  /\ delivered \in Seq(Items) /\ seen \subseteq Items
  /\ carried.buffer \in Seq(Items) /\ carried.seen \subseteq Items
  /\ carried.started \in BOOLEAN /\ carried.plan \in Plan
  /\ started \in BOOLEAN /\ suggested \in 0 .. MaxSuggested

TurnOK ==
  /\ pc \in {"prestart", "loop", "agent", "actions", "state", "execute",
             "reconcile", "limit", "failure", "over", "failed"}
  /\ direct \in BOOLEAN /\ results \in BOOLEAN
  /\ depth \in 0 .. MaxChain /\ todo \in 0 .. MaxActions
  /\ projection \in Plan /\ turns \in 0 .. ContinueAfter

PlanOK == plan \in Plan /\ closed \in BOOLEAN

(* Together they are TypeOK. *)
LEMMA TypeParts == TypeOK <=> ItemsOK /\ TurnOK /\ PlanOK
BY DEF TypeOK, ItemsOK, TurnOK, PlanOK

(* The innermost turn returns: the count of turns stops at its bound. *)
LEMMA ReturnType ==
  ASSUME TurnOK, Return, direct' \in BOOLEAN
  PROVE  TurnOK'
<1>1. turns' \in 0 .. ContinueAfter
  BY MailboxAssumption DEF TurnOK, Return, Min2
<1>2. /\ pc' = "loop" /\ depth' = 0 /\ todo' = 0 /\ results' = FALSE
      /\ projection' = NoPlan
  BY DEF Return
<1>3. results' \in BOOLEAN /\ projection' \in Plan
  BY <1>2, Plans
<1>4. depth' \in 0 .. MaxChain /\ todo' \in 0 .. MaxActions
  BY <1>2, MailboxAssumption
<1> QED
  BY <1>1, <1>2, <1>3, <1>4 DEF TurnOK

(* A turn begins. *)
LEMMA BeginType ==
  ASSUME NEW d \in 0 .. MaxChain, BeginTurn(d), turns' \in 0 .. ContinueAfter
  PROVE  TurnOK'
<1>1. /\ pc' = "agent" /\ direct' = FALSE /\ depth' = d /\ todo' = 0
      /\ results' = FALSE /\ projection' = NoPlan
  BY DEF BeginTurn
<1>2. direct' \in BOOLEAN /\ results' \in BOOLEAN /\ projection' \in Plan
  BY <1>1, Plans
<1>3. depth' \in 0 .. MaxChain /\ todo' \in 0 .. MaxActions
  BY <1>1, MailboxAssumption
<1> QED
  BY <1>1, <1>2, <1>3 DEF TurnOK

(* A turn goes on after an activity. *)
LEMMA ProceedType ==
  ASSUME TurnOK, PlanOK, NEW n \in Int, n <= MaxActions, NEW r \in BOOLEAN,
         NEW p \in Plan, Proceed(n, r, p)
  PROVE  TurnOK' /\ PlanOK'
<1>1. CASE Preempted
  <2>1. Return /\ plan' = plan /\ closed' = closed /\ direct' = direct
    BY <1>1 DEF Proceed
  <2>2. TurnOK'
    BY <2>1, ReturnType DEF TurnOK
  <2> QED
    BY <2>1, <2>2 DEF PlanOK
<1>2. CASE ~Preempted /\ n > 0
  <2>1. /\ pc' = "execute" /\ todo' = n /\ results' = r /\ projection' = p
        /\ depth' = depth /\ turns' = turns /\ plan' = plan
        /\ closed' = closed /\ direct' = direct
    BY <1>2 DEF Proceed
  <2>2. n \in 0 .. MaxActions
    BY <1>2, MailboxAssumption
  <2> QED
    BY <2>1, <2>2 DEF TurnOK, PlanOK
<1>3. CASE ~Preempted /\ ~(n > 0) /\ r /\ ~ChainEnds(depth)
  <2>1. /\ BeginTurn(depth + 1) /\ turns' = turns /\ plan' = plan
        /\ closed' = closed
    BY <1>3 DEF Proceed
  <2>2. depth + 1 \in 0 .. MaxChain
    BY <1>3, MailboxAssumption DEF TurnOK, ChainEnds
  <2>3. TurnOK'
    BY <2>1, <2>2, BeginType DEF TurnOK
  <2> QED
    BY <2>1, <2>3 DEF PlanOK
<1>4. CASE ~Preempted /\ ~(n > 0) /\ r /\ ChainEnds(depth)
  <2>1. /\ pc' = "limit" /\ todo' = 0 /\ results' = TRUE /\ projection' = p
        /\ depth' = depth /\ turns' = turns /\ plan' = plan
        /\ closed' = closed /\ direct' = direct
    BY <1>4 DEF Proceed
  <2> QED
    BY <2>1, MailboxAssumption DEF TurnOK, PlanOK
<1>5. CASE ~Preempted /\ ~(n > 0) /\ ~r
  <2>1. ApplyTurnOutcome(p) /\ direct' = direct
    BY <1>5 DEF Proceed
  <2>2. Return
    BY <2>1 DEF ApplyTurnOutcome
  <2>3. TurnOK'
    BY <2>1, <2>2, ReturnType DEF TurnOK
  <2>4. PlanOK'
    BY <2>1 DEF ApplyTurnOutcome, PlanOK
  <2> QED
    BY <2>3, <2>4
<1> QED
  BY <1>1, <1>2, <1>3, <1>4, <1>5

(* An error reaches the handler of a turn. *)
LEMMA FailsType ==
  ASSUME TurnOK, PlanOK, TurnFails(depth), direct' = direct
  PROVE  TurnOK' /\ PlanOK'
<1>1. CASE Preempted
  <2>1. Return /\ plan' = plan /\ closed' = closed
    BY <1>1 DEF TurnFails
  <2>2. TurnOK'
    BY <2>1, ReturnType DEF TurnOK
  <2> QED
    BY <2>1, <2>2 DEF PlanOK
<1>2. CASE ~Preempted
  BY <1>2 DEF TurnFails, TurnOK, PlanOK
<1> QED
  BY <1>1, <1>2

(* An action was executed, for the turn or for an approval. *)
LEMMA ExecutedType ==
  ASSUME TurnOK, PlanOK, NEW r \in BOOLEAN, Executed(r)
  PROVE  TurnOK' /\ PlanOK'
<1>1. CASE ~direct
  <2>1. Proceed(todo - 1, results \/ r, projection)
    BY <1>1 DEF Executed
  <2>2. todo - 1 \in Int /\ todo - 1 <= MaxActions
    BY MailboxAssumption DEF TurnOK
  <2>3. (results \/ r) \in BOOLEAN /\ projection \in Plan
    BY DEF TurnOK
  <2> QED
    BY <2>1, <2>2, <2>3, ProceedType
<1>2. CASE direct
  <2>1. plan' = plan /\ closed' = closed /\ turns' = turns
    BY <1>2 DEF Executed
  <2>2. CASE r
    <3>1. BeginTurn(0)
      BY <1>2, <2>2 DEF Executed
    <3>2. TurnOK'
      BY <2>1, <3>1, BeginType, MailboxAssumption DEF TurnOK
    <3> QED
      BY <2>1, <3>2 DEF PlanOK
  <2>3. CASE ~r
    <3>1. pc' = "loop" /\ direct' = FALSE /\ UNCHANGED turn
      BY <1>2, <2>3 DEF Executed
    <3> QED
      BY <2>1, <3>1 DEF TurnOK, PlanOK, turn
  <2> QED
    BY <2>2, <2>3
<1> QED
  BY <1>1, <1>2

(* Every step keeps the types.                                             *)
LEMMA TypeStep ==
  ASSUME TypeOK, [Next]_vars
  PROVE  TypeOK'
<1> USE DEF turn, input, awake, unsignalled
<1>1. ItemsOK /\ TurnOK /\ PlanOK
  BY TypeParts
<1>2. ItemsOK' /\ TurnOK' /\ PlanOK' => TypeOK'
  BY TypeParts, PTL
<1>3. ASSUME NEW i \in Items, Receive(i) PROVE TypeOK'
  <2>1. ItemsOK'
    BY <1>1, <1>3, TypeSequences DEF Receive, ItemsOK
  <2>2. TurnOK' /\ PlanOK'
    BY <1>1, <1>3 DEF Receive, TurnOK, PlanOK
  <2> QED
    BY <1>2, <2>1, <2>2
<1>4. ASSUME NEW p \in Projections \ {NoPlan}, ReplaceWakePlan(p)
      PROVE  TypeOK'
  <2>1. ItemsOK' /\ TurnOK'
    BY <1>1, <1>4 DEF ReplaceWakePlan, ItemsOK, TurnOK
  <2>2. PlanOK'
    BY <1>1, <1>4, Plans DEF ReplaceWakePlan, PlanOK
  <2> QED
    BY <1>2, <2>1, <2>2
<1>5. CASE Close
  <2>1. ItemsOK' /\ TurnOK'
    BY <1>1, <1>5 DEF Close, ItemsOK, TurnOK
  <2>2. PlanOK'
    BY <1>1, <1>5 DEF Close, PlanOK
  <2> QED
    BY <1>2, <2>1, <2>2
<1>6. CASE TimerDue
  <2>1. ItemsOK' /\ TurnOK'
    BY <1>1, <1>6 DEF TimerDue, ItemsOK, TurnOK
  <2>2. PlanOK'
    BY <1>1, <1>6, Plans DEF TimerDue, PlanOK
  <2> QED
    BY <1>2, <2>1, <2>2
<1>7. CASE Restore
  <2>1. /\ buffer' = Merged /\ seen' = carried.seen \cup seen
        /\ started' = carried.started /\ carried' = EmptyContinuation
        /\ delivered' = delivered /\ taken' = taken /\ suggested' = suggested
    BY <1>7 DEF Restore, RestoredSeen
  <2>2. /\ carried'.buffer = <<>> /\ carried'.seen = {}
        /\ carried'.started = FALSE /\ carried'.plan = NoPlan
    BY <2>1 DEF EmptyContinuation
  <2>3. carried'.started \in BOOLEAN /\ started' \in BOOLEAN
    BY <1>1, <2>1, <2>2 DEF ItemsOK
  <2>4. ItemsOK'
    BY <1>1, <2>1, <2>2, <2>3, TypeSequences, Plans DEF ItemsOK
  <2>5. TurnOK' /\ PlanOK'
    BY <1>1, <1>7 DEF Restore, TurnOK, PlanOK, ItemsOK
  <2> QED
    BY <1>2, <2>4, <2>5
<1>8. CASE ContinueAsNew
  <2>1. /\ buffer' = <<>> /\ seen' = {} /\ started' = FALSE
        /\ carried'.buffer = buffer /\ carried'.seen = seen
        /\ carried'.started = started /\ carried'.plan = plan
        /\ delivered' = delivered /\ taken' = taken
    BY <1>8 DEF ContinueAsNew
  <2>2. suggested' \in 0 .. MaxSuggested
    BY <1>1, <1>8, MailboxAssumption DEF ContinueAsNew, ItemsOK
  <2>3. carried'.started \in BOOLEAN /\ started' \in BOOLEAN
    BY <1>1, <2>1 DEF ItemsOK
  <2>4. ItemsOK'
    BY <1>1, <2>1, <2>2, <2>3 DEF ItemsOK, PlanOK
  <2>5. turns' \in 0 .. ContinueAfter
    BY <1>8, MailboxAssumption DEF ContinueAsNew
  <2>6. TurnOK'
    BY <1>1, <1>8, <2>5 DEF ContinueAsNew, TurnOK
  <2>7. PlanOK'
    BY <1>1, <1>8, Plans DEF ContinueAsNew, PlanOK
  <2> QED
    BY <1>2, <2>4, <2>6, <2>7
<1>9. CASE Finish
  <2>1. ItemsOK' /\ PlanOK'
    BY <1>1, <1>9 DEF Finish, ItemsOK, PlanOK
  <2>2. TurnOK'
    BY <1>1, <1>9 DEF Finish, TurnOK
  <2> QED
    BY <1>2, <2>1, <2>2
<1>10. CASE Wake
  <2>1. ASSUME NEW kinds, Buffered(kinds), Take(kinds),
               UNCHANGED <<seen, carried, suggested, delivered>>
        PROVE  ItemsOK'
    BY <1>1, <2>1, TypeSequences DEF Take, ItemsOK
  <2>2. 0 \in 0 .. MaxChain
    BY MailboxAssumption
  <2>3. ASSUME BeginTurn(0), turns' = turns PROVE TurnOK'
    BY <1>1, <2>2, <2>3, BeginType DEF TurnOK
  <2>4. /\ plan' = plan /\ closed' = closed => PlanOK'
        /\ plan' = NoPlan /\ closed' = closed => PlanOK'
        /\ plan' = ParkedPlan /\ closed' = closed => PlanOK'
    BY <1>1, Plans DEF PlanOK
  <2>5. CASE WakeInitial
    <3>1. Buffered(EventTypes)
      BY <2>5 DEF WakeInitial, Wakes, NextWake
    <3> QED
      BY <1>2, <2>1, <2>3, <2>4, <2>5, <3>1 DEF WakeInitial
  <2>6. CASE WakeReview
    <3>1. Buffered(Reviews)
      BY <2>6 DEF WakeReview, Wakes, NextWake
    <3>2. ItemsOK' /\ PlanOK'
      BY <2>1, <2>4, <2>6, <3>1 DEF WakeReview
    <3>3. CASE BeginTurn(0)
      BY <1>2, <2>3, <2>6, <3>2, <3>3 DEF WakeReview
    <3>4. CASE pc' = "execute" /\ direct' = TRUE /\ UNCHANGED turn
      <4>1. turns' = turns
        BY <2>6 DEF WakeReview
      <4>2. TurnOK'
        BY <1>1, <3>4, <4>1 DEF TurnOK
      <4> QED
        BY <1>2, <3>2, <4>2
    <3> QED
      BY <2>6, <3>3, <3>4 DEF WakeReview
  <2>7. CASE WakeResolution
    <3>1. Buffered({"resolution"})
      BY <2>7 DEF WakeResolution, Wakes, NextWake
    <3> QED
      BY <1>2, <2>1, <2>3, <2>4, <2>7, <3>1 DEF WakeResolution
  <2>8. CASE WakeControl
    <3>1. Buffered(Controls)
      BY <2>8 DEF WakeControl, Wakes, NextWake
    <3>2. ItemsOK' /\ turns' = turns /\ closed' = closed
      BY <2>1, <2>8, <3>1 DEF WakeControl
    <3>3. CASE plan' = NoPlan /\ BeginTurn(0)
      BY <1>2, <2>3, <2>4, <3>2, <3>3
    <3>4. CASE plan' = ParkedPlan /\ UNCHANGED <<pc, direct, turn>>
      <4>1. TurnOK'
        BY <1>1, <3>2, <3>4 DEF TurnOK
      <4> QED
        BY <1>2, <2>4, <3>2, <3>4, <4>1
    <3> QED
      BY <2>8, <3>3, <3>4 DEF WakeControl
  <2>9. CASE WakeManual
    <3>1. Buffered({"manual_wake"})
      BY <2>9 DEF WakeManual, Wakes, NextWake
    <3> QED
      BY <1>2, <2>1, <2>3, <2>4, <2>9, <3>1 DEF WakeManual
  <2>10. CASE WakeEvent
    <3>1. Buffered(plan.events)
      BY <2>10 DEF WakeEvent, Wakes, NextWake
    <3> QED
      BY <1>2, <2>1, <2>3, <2>4, <2>10, <3>1 DEF WakeEvent
  <2>11. CASE WakeTimer
    <3>1. ItemsOK'
      BY <1>1, <2>11 DEF WakeTimer, ItemsOK
    <3> QED
      BY <1>2, <2>3, <2>4, <2>11, <3>1 DEF WakeTimer
  <2> QED
    BY <1>10, <2>5, <2>6, <2>7, <2>8, <2>9, <2>10, <2>11 DEF Wake
<1>11. CASE ActivityReturns
  <2>1. unsignalled' = unsignalled => ItemsOK'
    BY <1>1 DEF ItemsOK
  <2>2. plan' = plan /\ closed' = closed => PlanOK'
    BY <1>1 DEF PlanOK
  <2>3. direct \in BOOLEAN
    BY <1>1 DEF TurnOK
  <2>4. Return /\ direct' = direct => TurnOK'
    BY <1>1, <2>3, ReturnType
  <2>5. CASE AgentDecides \/ AgentSuspended
    <3>1. ItemsOK' /\ PlanOK' /\ direct' = direct
      BY <2>1, <2>2, <2>5 DEF AgentDecides, AgentSuspended
    <3>2. CASE Return
      BY <1>2, <2>4, <3>1, <3>2
    <3>3. CASE ~Return
      <4>1. pc' = "actions" /\ UNCHANGED <<turn, turns>>
        BY <2>5, <3>3 DEF AgentDecides, AgentSuspended
      <4>2. TurnOK'
        BY <1>1, <3>1, <4>1 DEF TurnOK
      <4> QED
        BY <1>2, <3>1, <4>2
    <3> QED
      BY <3>2, <3>3
  <2>6. ASSUME NEW n \in 0 .. MaxActions, ActionsPersisted(n) PROVE TypeOK'
    <3>1. ItemsOK' /\ PlanOK' /\ direct' = direct
      BY <2>1, <2>2, <2>6 DEF ActionsPersisted
    <3>2. CASE Return
      BY <1>2, <2>4, <3>1, <3>2
    <3>3. CASE ~Return
      <4>1. /\ pc' = "state" /\ todo' = n
            /\ UNCHANGED <<depth, results, projection, turns>>
        BY <2>6, <3>3 DEF ActionsPersisted
      <4>2. TurnOK'
        BY <1>1, <3>1, <4>1 DEF TurnOK
      <4> QED
        BY <1>2, <3>1, <4>2
    <3> QED
      BY <3>2, <3>3
  <2>7. ASSUME NEW p \in Projections, StatePersisted(p) PROVE TypeOK'
    <3>1. ItemsOK' /\ Proceed(todo, FALSE, p)
      BY <2>1, <2>7 DEF StatePersisted
    <3>2. todo \in Int /\ todo <= MaxActions
      BY <1>1, MailboxAssumption DEF TurnOK
    <3>3. p \in Plan /\ FALSE \in BOOLEAN
      BY Plans
    <3> QED
      BY <1>1, <1>2, <3>1, <3>2, <3>3, ProceedType
  <2>8. CASE TurnActivityFails
    <3>1. ItemsOK' /\ TurnFails(depth) /\ direct' = direct
      BY <2>1, <2>8 DEF TurnActivityFails
    <3> QED
      BY <1>1, <1>2, <3>1, FailsType
  <2>9. CASE ExecuteReturns
    <3>1. PICK r \in BOOLEAN : Executed(r)
      BY <2>9 DEF ExecuteReturns
    <3>2. ItemsOK'
      BY <2>1, <2>9 DEF ExecuteReturns
    <3> QED
      BY <1>1, <1>2, <3>1, <3>2, ExecutedType
  <2>10. CASE ExecuteUnknown
    <3>1. ItemsOK' /\ PlanOK'
      BY <2>1, <2>2, <2>10 DEF ExecuteUnknown
    <3>2. TurnOK'
      BY <1>1, <2>10 DEF ExecuteUnknown, TurnOK
    <3> QED
      BY <1>2, <3>1, <3>2
  <2>11. CASE ReconcileReturns
    <3>1. ItemsOK' /\ Executed(TRUE) /\ TRUE \in BOOLEAN
      BY <2>1, <2>11 DEF ReconcileReturns
    <3> QED
      BY <1>1, <1>2, <3>1, ExecutedType
  <2>12. CASE ExecutionIncompatible
    <3>1. ItemsOK' /\ ExecutionRaises
      BY <2>1, <2>12 DEF ExecutionIncompatible
    <3>2. CASE ~direct
      <4>1. TurnFails(depth) /\ direct' = direct
        BY <3>1, <3>2 DEF ExecutionRaises
      <4> QED
        BY <1>1, <1>2, <3>1, <4>1, FailsType
    <3>3. CASE direct
      <4>1. pc' = "failed" /\ UNCHANGED <<direct, turn, turns, plan, closed>>
        BY <3>1, <3>3 DEF ExecutionRaises
      <4>2. TurnOK'
        BY <1>1, <4>1 DEF TurnOK
      <4> QED
        BY <1>2, <2>2, <3>1, <4>1, <4>2
    <3> QED
      BY <3>2, <3>3
  <2>13. CASE InterventionRecorded
    <3>1. /\ ItemsOK' /\ Return /\ plan' = ParkedPlan /\ closed' = closed
          /\ direct' = direct
      BY <2>1, <2>13 DEF InterventionRecorded
    <3>2. PlanOK'
      BY <1>1, <3>1, Plans DEF PlanOK
    <3> QED
      BY <1>2, <2>4, <3>1, <3>2
  <2>14. CASE InterventionFails
    <3>1. ItemsOK' /\ direct' = direct
      BY <2>1, <2>14 DEF InterventionFails
    <3>2. CASE TurnFails(depth)
      BY <1>1, <1>2, <3>1, <3>2, FailsType
    <3>3. CASE Return /\ UNCHANGED <<plan, closed>>
      BY <1>2, <2>2, <2>4, <3>1, <3>3
    <3>4. CASE /\ depth > 0 /\ depth' = depth - 1
               /\ turns' = Min2(turns + 1, ContinueAfter)
               /\ UNCHANGED <<pc, todo, results, projection, plan, closed>>
      <4>1. depth' \in 0 .. MaxChain /\ turns' \in 0 .. ContinueAfter
        BY <1>1, <3>4, MailboxAssumption DEF TurnOK, Min2
      <4>2. TurnOK'
        BY <1>1, <3>1, <3>4, <4>1 DEF TurnOK
      <4> QED
        BY <1>2, <2>2, <3>1, <3>4, <4>2
    <3>5. CASE pc' = "failed" /\ UNCHANGED <<turn, turns, plan, closed>>
      <4>1. TurnOK'
        BY <1>1, <3>1, <3>5 DEF TurnOK
      <4> QED
        BY <1>2, <2>2, <3>1, <3>5, <4>1
    <3> QED
      BY <2>14, <3>2, <3>3, <3>4, <3>5 DEF InterventionFails
  <2> QED
    BY <1>11, <2>5, <2>6, <2>7, <2>8, <2>9, <2>10, <2>11, <2>12, <2>13, <2>14
       DEF ActivityReturns
<1>12. CASE UNCHANGED vars
  BY <1>12 DEF vars, TypeOK
<1> QED
  BY <1>3, <1>4, <1>5, <1>6, <1>7, <1>8, <1>9, <1>10, <1>11, <1>12 DEF Next

-----------------------------------------------------------------------------
(* The theorems about the items. *)

(* The first run begins with nothing. *)
LEMMA InitInv == Init => TypeOK /\ Inv
<1> SUFFICES ASSUME Init PROVE TypeOK /\ Inv
  OBVIOUS
<1>1. /\ buffer = <<>> /\ seen = {} /\ delivered = <<>> /\ taken = <<>>
      /\ carried.buffer = <<>> /\ carried.seen = {}
      /\ carried.started = FALSE /\ carried.plan = NoPlan
      /\ started = FALSE /\ plan = NoPlan /\ closed = FALSE
      /\ pc = "prestart" /\ direct = FALSE /\ results = FALSE
      /\ projection = NoPlan
  BY DEF Init, EmptyContinuation
<1>2. /\ 0 \in 0 .. MaxChain /\ 0 \in 0 .. MaxActions
      /\ 0 \in 0 .. ContinueAfter /\ 0 \in 0 .. MaxSuggested
  BY MailboxAssumption
<1>3. /\ depth \in 0 .. MaxChain /\ todo \in 0 .. MaxActions
      /\ turns \in 0 .. ContinueAfter /\ suggested \in 0 .. MaxSuggested
  BY <1>2 DEF Init
<1>4. /\ carried.started \in BOOLEAN /\ started \in BOOLEAN
      /\ closed \in BOOLEAN /\ direct \in BOOLEAN /\ results \in BOOLEAN
  BY <1>1
<1>5. TypeOK
  BY <1>1, <1>3, <1>4, Plans DEF TypeOK
<1>6. Range(<<>>) = {}
  BY DEF Range
<1>7. AreSequences /\ Books /\ CarriedOver
  BY <1>1, <1>6 DEF AreSequences, Books, CarriedOver
<1>8. NoRepeats /\ InOrder
  BY <1>1 DEF NoRepeats, Distinct, InOrder
<1>9. Ordered
  BY <1>1, <1>6 DEF Ordered
<1> QED
  BY <1>5, <1>7, <1>8, <1>9 DEF Inv

(* The invariant is inductive. *)
LEMMA NextInv == TypeOK /\ Inv /\ [Next]_vars => TypeOK' /\ Inv'
<1> SUFFICES ASSUME TypeOK, Inv, [Next]_vars PROVE TypeOK' /\ Inv'
  OBVIOUS
<1>1. TypeOK'
  BY TypeStep
<1>2. plan \in Plan
  BY DEF TypeOK
<1>3. \/ \E i \in Items : Receive(i)
      \/ Restore
      \/ ContinueAsNew
      \/ \E kinds : Takes(kinds)
      \/ Still
  BY <1>2, StepKinds
<1>4. Inv'
  BY <1>3, ReceiveInv, RestoreInv, ContinueInv, TakeInv, StillInv
<1> QED
  BY <1>1, <1>4

(* The variables keep their types and the invariant holds, whatever        *)
(* arrives, as often as it does and in whichever order (mailbox.py).       *)
THEOREM Invariance == Spec => [](TypeOK /\ Inv)
BY InitInv, NextInv, PTL DEF Spec

(* Nothing that was signalled is lost: it is buffered, carried over to the *)
(* next run or acted upon (_restore_continuation and _continuation_input,  *)
(* mailbox.py:534-661).                                                    *)
THEOREM SignalsAreKept == Spec => []NothingLost
<1>1. Inv => NothingLost
  BY DEF Inv, Books, NothingLost
<1> QED
  BY <1>1, Invariance, PTL

(* Nothing is acted upon twice, however often it is delivered and however  *)
(* often the workflow continues as new (mailbox.py:440-532).               *)
THEOREM SignalsActOnce == Spec => []ActedUponOnce
<1>1. Inv => ActedUponOnce
  BY DEF Inv, NoRepeats, ActedUponOnce
<1> QED
  BY <1>1, Invariance, PTL

(* Items of one queue are acted upon in the order of their first delivery  *)
(* (the buffers of mailbox.py and their carrying over).                    *)
THEOREM SignalsKeepOrder == Spec => []InOrder
<1>1. Inv => InOrder
  BY DEF Inv
<1> QED
  BY <1>1, Invariance, PTL

-----------------------------------------------------------------------------
(* A turn is interrupted. *)

(* A takeover or a close that arrives during a turn ends it when the       *)
(* activity it waits for returns; between two actions too, and with no     *)
(* exception but the reconciliation of an unknown outcome                  *)
(* (_lifecycle_preemption_pending, mailbox.py:668-671).                    *)
THEOREM PreemptedTurnsStop == Spec => PreemptionStopsTurn
<1>1. [Next]_vars =>
        [(/\ closed \/ Buffered({"takeover"})
          /\ ~direct /\ pc \in {"agent", "actions", "state", "execute", "reconcile"})
         => \/ pc' = "loop"
            \/ UNCHANGED <<pc, direct, turn>>
            \/ pc = "execute" /\ pc' = "reconcile" /\ UNCHANGED <<direct, turn>>]_vars
  <2> SUFFICES ASSUME Next, Preempted, ~direct,
                      pc \in {"agent", "actions", "state", "execute",
                              "reconcile"}
               PROVE  \/ pc' = "loop"
                      \/ UNCHANGED <<pc, direct, turn>>
                      \/ /\ pc = "execute" /\ pc' = "reconcile"
                         /\ UNCHANGED <<direct, turn>>
    BY DEF Preempted
  <2>1. ASSUME NEW i \in Items, Receive(i)
        PROVE  UNCHANGED <<pc, direct, turn>>
    BY <2>1 DEF Receive
  <2>2. ASSUME NEW p \in Projections \ {NoPlan}, ReplaceWakePlan(p)
        PROVE  UNCHANGED <<pc, direct, turn>>
    BY <2>2 DEF ReplaceWakePlan
  <2>3. CASE Close \/ TimerDue
    BY <2>3 DEF Close, TimerDue
  <2>4. ~Restore /\ ~ContinueAsNew /\ ~Finish
    BY DEF Restore, ContinueAsNew, Finish
  <2>5. ~Wake
    BY DEF Wake, WakeInitial, WakeReview, WakeResolution, WakeControl,
           WakeManual, WakeEvent, WakeTimer, Wakes
  <2>6. CASE ActivityReturns
    <3>1. /\ Return => pc' = "loop"
          /\ \A n, r, p : Proceed(n, r, p) => Return
          /\ \A d : TurnFails(d) => Return
      BY DEF Return, Proceed, TurnFails
    <3>2. CASE AgentDecides \/ AgentSuspended
      BY <3>1, <3>2 DEF AgentDecides, AgentSuspended
    <3>3. ASSUME NEW n \in 0 .. MaxActions, ActionsPersisted(n)
          PROVE  pc' = "loop"
      BY <3>1, <3>3 DEF ActionsPersisted
    <3>4. ASSUME NEW p \in Projections, StatePersisted(p) PROVE pc' = "loop"
      BY <3>1, <3>4 DEF StatePersisted
    <3>5. CASE TurnActivityFails
      BY <3>1, <3>5 DEF TurnActivityFails
    <3>6. CASE ExecuteReturns \/ ReconcileReturns
      BY <3>1, <3>6 DEF ExecuteReturns, ReconcileReturns, Executed
    <3>7. CASE ExecuteUnknown
      BY <3>7 DEF ExecuteUnknown
    <3>8. CASE ExecutionIncompatible
      BY <3>1, <3>8 DEF ExecutionIncompatible, ExecutionRaises
    <3>9. ~InterventionRecorded /\ ~InterventionFails
      BY DEF InterventionRecorded, InterventionFails
    <3> QED
      BY <2>6, <3>2, <3>3, <3>4, <3>5, <3>6, <3>7, <3>8, <3>9
         DEF ActivityReturns
  <2> QED
    BY <2>1, <2>2, <2>3, <2>4, <2>5, <2>6 DEF Next
<1> QED
  BY <1>1, PTL DEF Spec, PreemptionStopsTurn

-----------------------------------------------------------------------------
(* After a takeover. *)

TakenOver == taken # <<>> /\ Kind[Last(taken)] = "takeover"

(* The mailbox waits for a command, in this run or the next, or has ended; *)
(* and a run that has not begun has no wake plan of its own.               *)
Parked ==
  /\ pc = "prestart" => plan = NoPlan
  /\ TakenOver => \/ pc = "loop" /\ plan = ParkedPlan
                  \/ pc = "prestart" /\ carried.plan = ParkedPlan
                  \/ pc = "over"

(* Taking an item that is no takeover. *)
LEMMA TakenByOther ==
  ASSUME Inv, NEW kinds, Buffered(kinds), Take(kinds),
         Kind[buffer[First(kinds)]] # "takeover"
  PROVE  ~TakenOver'
<1>1. buffer \in Seq(Items) /\ taken \in Seq(Items)
  BY DEF Inv, AreSequences
<1>2. PICK x : x = buffer[First(kinds)]
  OBVIOUS
<1>3. x \in Items
  <2>1. First(kinds) \in 1 .. Len(buffer)
    BY <1>1, FirstFacts
  <2> HIDE DEF First
  <2> QED
    BY <1>1, <1>2, <2>1
<1>4. taken' = Append(taken, x)
  BY <1>2 DEF Take
<1>5. Last(taken') = x
  BY <1>1, <1>3, <1>4, AppendFacts DEF Last
<1> QED
  BY <1>2, <1>5 DEF TakenOver

(* Every step but a test's replacing the wake plan. *)
NextButReplace ==
  \/ \E i \in Items : Receive(i)
  \/ Close
  \/ TimerDue
  \/ Restore
  \/ ContinueAsNew
  \/ Finish
  \/ Wake
  \/ ActivityReturns

(* They all keep it parked. *)
LEMMA ParkedStep ==
  ASSUME TypeOK, Inv, Parked, [NextButReplace]_vars
  PROVE  Parked'
<1> USE DEF turn, input, awake, unsignalled
<1>1. NoPlan.set = FALSE /\ NoPlan.timer = "none" /\ ParkedPlan.timer = "none"
  BY DEF NoPlan, ParkedPlan
<1>2. ASSUME NEW i \in Items, Receive(i) PROVE Parked'
  BY <1>2 DEF Receive, Parked, TakenOver
<1>3. CASE Close
  BY <1>3 DEF Close, Parked, TakenOver
<1>4. CASE TimerDue
  <2>1. plan # ParkedPlan /\ plan # NoPlan
    BY <1>1, <1>4 DEF TimerDue
  <2> QED
    BY <1>4, <2>1 DEF TimerDue, Parked, TakenOver, Over
<1>5. CASE Restore
  BY <1>1, <1>5 DEF Restore, Parked, TakenOver
<1>6. CASE ContinueAsNew
  BY <1>6 DEF ContinueAsNew, Parked, TakenOver
<1>7. CASE Finish
  BY <1>7 DEF Finish, Parked, TakenOver
<1>8. CASE Wake
  <2>1. buffer \in Seq(Items)
    BY DEF Inv, AreSequences
  <2>2. ASSUME NEW kinds, Buffered(kinds), Take(kinds), "takeover" \notin kinds,
               pc' # "prestart"
        PROVE  Parked'
    <3>1. Kind[buffer[First(kinds)]] # "takeover"
      BY <2>1, <2>2, FirstFacts
    <3> QED
      BY <2>2, <3>1, TakenByOther DEF Parked
  <2>3. ~BeginTurn(0) \/ pc' # "prestart"
    BY DEF BeginTurn
  <2>4. "takeover" \notin EventTypes
    BY MailboxAssumption DEF CommandKinds, Controls
  <2>5. CASE WakeInitial
    BY <2>2, <2>3, <2>4, <2>5 DEF WakeInitial, Wakes, NextWake
  <2>6. CASE WakeReview
    <3>1. Buffered(Reviews) /\ Take(Reviews) /\ pc' # "prestart"
      BY <2>3, <2>6 DEF WakeReview, Wakes, NextWake
    <3> QED
      BY <2>2, <3>1 DEF Reviews
  <2>7. CASE WakeResolution
    BY <2>2, <2>3, <2>7 DEF WakeResolution, Wakes, NextWake
  <2>8. CASE WakeControl
    <3>1. pc = "loop" /\ Buffered(Controls) /\ Take(Controls)
      BY <2>8 DEF WakeControl, Wakes, NextWake
    <3>2. CASE Kind[buffer[First(Controls)]] = "takeover"
      <4>1. plan' = ParkedPlan /\ pc' = "loop"
        BY <2>8, <3>1, <3>2 DEF WakeControl
      <4> QED
        BY <4>1 DEF Parked
    <3>3. CASE Kind[buffer[First(Controls)]] # "takeover"
      <4>1. pc' # "prestart"
        BY <2>3, <2>8, <3>3 DEF WakeControl
      <4>2. ~TakenOver'
        BY <3>1, <3>3, TakenByOther
      <4> QED
        BY <4>1, <4>2 DEF Parked
    <3> QED
      BY <3>2, <3>3
  <2>9. CASE WakeManual
    BY <2>2, <2>3, <2>9 DEF WakeManual, Wakes, NextWake
  <2>10. CASE WakeEvent
    <3>1. "takeover" \notin plan.events
      BY <2>4, Plans DEF TypeOK
    <3> QED
      BY <2>2, <2>3, <2>10, <3>1 DEF WakeEvent, Wakes, NextWake
  <2>11. CASE WakeTimer
    <3>1. pc = "loop" /\ plan.timer = "due" /\ taken' = taken
      BY <2>11 DEF WakeTimer, Wakes, NextWake
    <3>2. ~TakenOver
      BY <1>1, <3>1 DEF Parked
    <3> QED
      BY <2>3, <2>11, <3>1, <3>2 DEF WakeTimer, Parked, TakenOver
  <2> QED
    BY <1>8, <2>5, <2>6, <2>7, <2>8, <2>9, <2>10, <2>11 DEF Wake
<1>9. CASE ActivityReturns
  <2>1. pc \notin {"loop", "prestart", "over"}
    BY <1>9 DEF ActivityReturns, AgentDecides, AgentSuspended,
       ActionsPersisted, StatePersisted, TurnActivityFails, ExecuteReturns,
       ExecuteUnknown, ReconcileReturns, ExecutionIncompatible,
       InterventionRecorded, InterventionFails
  <2>2. taken' = taken
    BY <1>9 DEF ActivityReturns, AgentDecides, AgentSuspended,
       ActionsPersisted, StatePersisted, TurnActivityFails, ExecuteReturns,
       ExecuteUnknown, ReconcileReturns, ExecutionIncompatible,
       InterventionRecorded, InterventionFails
  <2>3. ~TakenOver'
    BY <2>1, <2>2 DEF Parked, TakenOver
  <2>4. Still
    <3>1. pc # "loop" /\ pc # "prestart" /\ taken' = taken
      BY <2>1, <2>2
    <3>2. buffer' = buffer
      BY <1>9 DEF ActivityReturns, AgentDecides, AgentSuspended,
         ActionsPersisted, StatePersisted, TurnActivityFails, ExecuteReturns,
         ExecuteUnknown, ReconcileReturns, ExecutionIncompatible,
         InterventionRecorded, InterventionFails
    <3>3. seen' = seen
      BY <1>9 DEF ActivityReturns, AgentDecides, AgentSuspended,
         ActionsPersisted, StatePersisted, TurnActivityFails, ExecuteReturns,
         ExecuteUnknown, ReconcileReturns, ExecutionIncompatible,
         InterventionRecorded, InterventionFails
    <3>4. \A i \in Items : ~Receive(i)
      BY <3>3 DEF Receive
    <3>5. plan \in Plan /\ Next
      BY <1>9 DEF TypeOK, Next
    <3> QED
      BY <3>1, <3>4, <3>5, StepKinds DEF Restore, ContinueAsNew, Takes
  <2> QED
    BY <2>1, <2>3, <2>4 DEF Parked, Still
<1>10. CASE UNCHANGED vars
  BY <1>10 DEF vars, Parked, TakenOver
<1> QED
  BY <1>2, <1>3, <1>4, <1>5, <1>6, <1>7, <1>8, <1>9, <1>10
     DEF NextButReplace

(* What Parked says about a takeover is what the property says.            *)
LEMMA ParkedIsEnough == Parked => TakeoverParks
BY DEF Parked, TakenOver, TakeoverParks

(* After a takeover only a command starts a turn, over any number of       *)
(* rollovers: for a deployment, where nothing sends the signals of tests   *)
(* (mailbox.py:267-273).                                                   *)
THEOREM TakeoversPark == ~TestSignals => (Spec => []TakeoverParks)
<1> SUFFICES ASSUME ~TestSignals PROVE Spec => []TakeoverParks
  OBVIOUS
<1>1. Init => Parked
  BY DEF Init, Parked, TakenOver
<1>2. TypeOK /\ Inv /\ Parked /\ [Next]_vars => Parked'
  <2>1. [Next]_vars => [NextButReplace]_vars
    BY DEF Next, NextButReplace, ReplaceWakePlan
  <2> QED
    BY <2>1, ParkedStep
<1> QED
  BY <1>1, <1>2, Invariance, ParkedIsEnough, PTL DEF Spec

(* The same where a script says whether the tests' signals are sent: the   *)
(* mailbox stays parked unless they are.                                   *)
THEOREM ParksUnlessTested ==
  ASSUME \A s \in Scripts : s.items \subseteq Items
  PROVE  MCSpec => []ParkedUntilCommand
<1> DEFINE Known == script \in Scripts
           Quiet == ~script.tests => Parked
<1>1. MCInit => TypeOK /\ Inv /\ Known /\ Quiet
  BY InitInv DEF MCInit, Init, Parked, TakenOver
<1>2. Known /\ [MCNext]_<<vars, script>> => Known' /\ [Next]_vars
  BY DEF MCNext, Next
<1>3. TypeOK /\ Inv /\ Known /\ Quiet /\ [MCNext]_<<vars, script>> => Quiet'
  <2> SUFFICES ASSUME TypeOK, Inv, Known, Quiet, [MCNext]_<<vars, script>>,
                      ~script'.tests
               PROVE  Parked'
    OBVIOUS
  <2>1. ~script.tests /\ script' = script
    BY DEF MCNext
  <2>2. [NextButReplace]_vars
    BY <2>1 DEF MCNext, NextButReplace
  <2> QED
    BY <2>1, <2>2, ParkedStep
<1>4. Quiet => ParkedUntilCommand
  BY ParkedIsEnough DEF ParkedUntilCommand
<1> QED
  BY <1>1, <1>2, <1>3, <1>4, NextInv, PTL DEF MCSpec

-----------------------------------------------------------------------------
(* The journey of a process: its rows, its outbox and its mailbox. *)

(* What a turn's revision tells the mailbox is a projection it may get. *)
RevisionOK == revision \in Projections

(* A step of the journey is one of the mailbox, or none of it. *)
LEMMA JourneyStep ==
  ASSUME RevisionOK, [JourneyNext]_journey
  PROVE  [Next]_vars
<1>1. vars = mailbox /\ vars' = mailbox'
  BY DEF vars, mailbox
<1>2. CASE Operator
  <2>1. mailbox' = mailbox
    BY <1>2 DEF Operator, Ingest, Takeover, Resume, WakeUp, Review,
                ResolveUnknown, Retry, mailbox
  <2> QED
    BY <1>1, <2>1
<1>3. ASSUME NEW i \in Items, Deliver(i) PROVE Next
  BY <1>3 DEF Deliver, Next
<1>4. CASE Housekeeping
  BY <1>4 DEF Housekeeping, Next
<1>5. CASE WakeBy
  <2>1. Wake
    BY <1>5 DEF WakeBy, Wake
  <2> QED
    BY <2>1 DEF Next
<1>6. CASE AgentReturns \/ TurnFailsIn \/ ReconcileEnds \/ ExecuteIncompatible
           \/ ExecuteUncertain \/ InterventionEnds
  <2>1. ActivityReturns
    BY <1>6 DEF AgentReturns, TurnFailsIn, ReconcileEnds, ExecuteIncompatible,
                ExecuteUncertain, InterventionEnds, ActivityReturns
  <2> QED
    BY <2>1 DEF Next
<1>7. CASE ActionsReturn
  <2>1. PICK n \in {0, 1} : ActionsPersisted(n)
    BY <1>7 DEF ActionsReturn
  <2>2. n \in 0 .. MaxActions
    BY MailboxAssumption, JourneyAssumption
  <2>3. ActivityReturns
    BY <2>1, <2>2 DEF ActivityReturns
  <2> QED
    BY <2>3 DEF Next
<1>8. CASE StateReturns
  <2>1. ActivityReturns
    BY <1>8 DEF RevisionOK, StateReturns, ActivityReturns
  <2> QED
    BY <2>1 DEF Next
<1>9. CASE ExecuteSettles \/ ExecuteLost
  <2>1. ExecuteReturns
    BY <1>9 DEF ExecuteSettles, ExecuteLost, ExecuteReturns
  <2>2. ActivityReturns
    BY <2>1 DEF ActivityReturns
  <2> QED
    BY <2>2 DEF Next
<1>10. CASE WriteActions \/ WriteState \/ WriteIntervention \/ ExecuteBegins
  <2>1. mailbox' = mailbox
    BY <1>10 DEF WriteActions, WriteState, WriteIntervention, ExecuteBegins,
                 mailbox
  <2> QED
    BY <1>1, <2>1
<1>11. ASSUME NEW a \in Actions, LateSettles(a) PROVE mailbox' = mailbox
  BY <1>11 DEF LateSettles, mailbox
<1>12. CASE UNCHANGED journey
  <2>1. mailbox' = mailbox
    BY <1>12 DEF journey
  <2> QED
    BY <1>1, <2>1
<1> QED
  BY <1>1, <1>2, <1>3, <1>4, <1>5, <1>6, <1>7, <1>8, <1>9, <1>10, <1>11, <1>12
     DEF JourneyNext, Workflow

(* It stays one. *)
LEMMA RevisionStep ==
  ASSUME RevisionOK, [JourneyNext]_journey
  PROVE  RevisionOK'
<1>1. CASE WriteState
  <2>1. ASSUME NEW w PROVE PlanOf(w) \in Projections
    BY DEF PlanOf, Projections
  <2>2. NoPlan \in Projections
    BY DEF Projections
  <2> QED
    BY <1>1, <2>1, <2>2 DEF RevisionOK, WriteState, ApplyDecision
<1>2. CASE ~WriteState
  <2>1. revision' = revision
    BY <1>2 DEF JourneyNext, Workflow, Operator, Ingest, Takeover, Resume,
       WakeUp, Review, ResolveUnknown, Retry, Deliver, Housekeeping, WakeBy,
       WakeFor, AgentReturns, WriteActions, ActionsReturn, StateReturns,
       TurnFailsIn, ExecuteBegins, ExecuteSettles, ExecuteUncertain,
       ReconcileEnds, ExecuteLost, ExecuteIncompatible, WriteIntervention,
       InterventionEnds, LateSettles, thread, journey
  <2> QED
    BY <2>1 DEF RevisionOK
<1> QED
  BY <1>1, <1>2

(* The process that the rows and the outbox are about has the mailbox of   *)
(* module Mailbox.                                                         *)
THEOREM JourneyRunsTheMailbox == JourneySpec => Spec
<1>1. JourneyInit => Init /\ RevisionOK
  BY DEF RevisionOK, JourneyInit, Projections
<1>2. RevisionOK /\ [JourneyNext]_journey => RevisionOK' /\ [Next]_vars
  BY JourneyStep, RevisionStep
<1> QED
  BY <1>1, <1>2, PTL DEF JourneySpec, Spec

-----------------------------------------------------------------------------
(* The rows of the process. *)

(* The tables hold what they should. *)
TablesOK ==
  /\ status \in ProcessStatus
  /\ wakes \subseteq EventTypes \cup {"timer", "human", "approval", "operator"}
  /\ provenance \in [Slot -> Source]
  /\ request \in [Actions -> RequestStatus]
  /\ \A v \in interventions : v.turn \in Nat /\ v.source \in Source
  /\ intervened \subseteq Nat

(* The outbox has every item once, and what was delivered was committed.   *)
OutboxOK ==
  /\ committed \in Seq(Items) /\ about \in [Items -> Source]
  /\ Range(delivered) \subseteq Range(committed)

(* The chain of turns, and the action at hand. *)
ThreadOK ==
  /\ base \in Nat /\ lineage \in Seq(Source) /\ depth < Len(lineage)
  /\ decision \in Decision \cup {NoDecision}
  /\ job \in Actions \cup {NoSource}
  /\ dropped \subseteq Actions
  /\ decision.act # "none" => job \in Actions
  /\ pc \in {"execute", "reconcile"} => job \in Actions

(* A decision has one action at most: it is executed once, and nothing     *)
(* else of the turn comes after its result.                                *)
ChainOK ==
  /\ wrote => pc \in {"actions", "state", "limit", "failure"}
  /\ pc = "agent" => decision = NoDecision /\ todo = 0
  /\ todo \in {0, 1}
  /\ todo = 1 => decision.act = "allow"
  /\ results => pc \in {"limit", "failure", "failed"}

(* The requests an approval, or its execution, can have led to. *)
Approved == {"approved", "executing", "unknown", "succeeded", "failed"}

(* The request of the action at hand: not there before the gateway writes  *)
(* it, allowed until it is executed, and never again under review.         *)
RequestOK ==
  /\ pc = "actions" /\ ~wrote /\ decision.act # "none" => request[job] = "none"
  /\ (pc = "actions" /\ wrote) \/ pc = "state" =>
       (decision.act = "allow" => request[job] = "allowed")
  /\ pc \in {"execute", "reconcile"} => request[job] \in Approved \cup {"allowed"}

Approves(i) == i \in Range(committed) /\ Kind[i] = "approve"

(* An action is approved once; until the mailbox hears of it the action is *)
(* approved, and nobody executes it.                                       *)
ApprovalsOK ==
  /\ \A i \in Items : Approves(i) =>
       about[i] \in Actions /\ request[about[i]] \in Approved
  /\ \A i, j \in Items : Approves(i) /\ Approves(j) /\ about[i] = about[j] => i = j
  /\ \A i \in Items : Approves(i) /\ i \notin Range(delivered) =>
       /\ request[about[i]] = "approved"
       /\ pc \in {"execute", "reconcile"} => job # about[i]

(* The tables and the outbox; the turn, and the action at hand. *)
RowsInv == TablesOK /\ OutboxOK /\ CompletedIsSettled /\ FactsHaveSources
TurnInv == ThreadOK /\ ChainOK /\ RequestOK /\ ApprovalsOK
JourneyInv == RowsInv /\ TurnInv

-----------------------------------------------------------------------------
(* What the mailbox does in the steps of the journey. *)

(* The turn, or the chain of turns, is over. *)
Back == pc' = "loop" /\ depth' = 0 /\ todo' = 0 /\ results' = FALSE

(* An error ends the turn, or reaches its handler. *)
LEMMA FailedTurn ==
  ASSUME TurnFails(depth)
  PROVE  Back \/ /\ pc' = "failure" /\ depth' = depth /\ todo' = todo
                 /\ results' = results
BY DEF TurnFails, Return, Back

(* The result of the only action is followed up, unless the chain ends. *)
LEMMA SettledTurn ==
  ASSUME Executed(TRUE), todo \in {0, 1}
  PROVE  \/ Back
         \/ /\ pc' = "agent" /\ todo' = 0 /\ results' = FALSE
            /\ depth' = IF direct THEN 0 ELSE depth + 1
         \/ /\ pc' = "limit" /\ depth' = depth /\ todo' = 0
<1>1. CASE direct
  BY <1>1 DEF Executed, BeginTurn
<1>2. CASE ~direct
  <2>1. Proceed(todo - 1, TRUE, projection) /\ ~(todo - 1 > 0)
    <3>1. (results \/ TRUE) = TRUE
      BY Zenon
    <3>2. ~(todo - 1 > 0)
      OBVIOUS
    <3> QED
      BY <1>2, <3>1, <3>2 DEF Executed
  <2> QED
    BY <1>2, <2>1 DEF Proceed, Return, BeginTurn, Back
<1> QED
  BY <1>1, <1>2

(* Without a result there is nothing to follow up. *)
LEMMA LostTurn ==
  ASSUME Executed(FALSE), todo \in {0, 1}, ~results
  PROVE  Back \/ /\ pc' = "loop" /\ depth' = depth /\ todo' = todo
                 /\ results' = results
<1>1. CASE direct
  BY <1>1 DEF Executed, turn
<1>2. CASE ~direct
  <2>1. Proceed(todo - 1, FALSE, projection) /\ ~(todo - 1 > 0)
    <3>1. (results \/ FALSE) = FALSE
      BY Zenon
    <3>2. ~(todo - 1 > 0)
      OBVIOUS
    <3> QED
      BY <1>2, <3>1, <3>2 DEF Executed
  <2> QED
    BY <1>2, <2>1 DEF Proceed, ApplyTurnOutcome, Return, Back
<1> QED
  BY <1>1, <1>2

(* The mailbox takes an item that was delivered, or the timer wakes it. *)
LEMMA WokenBy ==
  ASSUME TypeOK, Inv, WakeBy
  PROVE  /\ pc = "loop" /\ delivered' = delivered
         /\ \/ \E i \in Range(delivered) :
                 /\ i \in Items /\ WakeFor(about[i])
                 /\ pc' = "execute" => Kind[i] = "approve"
            \/ WakeFor("timer") /\ pc' # "execute"
         /\ \/ pc' = "agent" /\ depth' = 0 /\ todo' = 0 /\ results' = FALSE
            \/ /\ pc' \in {"execute", "loop"} /\ depth' = depth
               /\ todo' = todo /\ results' = results
<1> DEFINE ByItem(kinds) ==
      /\ Buffered(kinds) /\ Take(kinds) /\ WakeFor(about[Last(taken')])
      /\ pc' = "execute" => Kind[buffer[First(kinds)]] = "approve"
<1>1. ASSUME NEW kinds, ByItem(kinds)
      PROVE  \E i \in Range(delivered) :
                 /\ i \in Items /\ WakeFor(about[i])
                 /\ pc' = "execute" => Kind[i] = "approve"
  <2>1. buffer \in Seq(Items) /\ taken \in Seq(Items)
    BY DEF Inv, AreSequences
  <2>2. PICK x : x = buffer[First(kinds)]
    OBVIOUS
  <2>3. x \in Items /\ x \in Range(buffer)
    <3>1. First(kinds) \in 1 .. Len(buffer)
      BY <1>1, <2>1, FirstFacts
    <3> HIDE DEF First
    <3> QED
      BY <2>1, <2>2, <3>1, RangeSeq
  <2>4. taken' = Append(taken, x)
    BY <1>1, <2>2 DEF Take
  <2>5. Last(taken') = x
    BY <2>1, <2>3, <2>4, AppendFacts DEF Last
  <2>6. x \in Range(delivered)
    BY <2>3 DEF Inv, Books
  <2>7. WakeFor(about[x])
    BY <1>1, <2>5
  <2>8. pc' = "execute" => Kind[x] = "approve"
    BY <1>1, <2>2
  <2> QED
    BY <2>3, <2>6, <2>7, <2>8
<1> USE DEF Wakes, NextWake, BeginTurn, turn, awake
<1>2. CASE WakeInitial /\ WakeFor(about[Last(taken')])
  <2>1. ByItem(EventTypes)
    BY <1>2 DEF WakeInitial
  <2> QED
    BY <1>1, <1>2, <2>1 DEF WakeInitial
<1>3. CASE WakeReview /\ WakeFor(about[Last(taken')])
  <2>1. ByItem(Reviews)
    BY <1>3 DEF WakeReview
  <2> QED
    BY <1>1, <1>3, <2>1 DEF WakeReview
<1>4. CASE WakeResolution /\ WakeFor(about[Last(taken')])
  <2>1. ByItem({"resolution"})
    BY <1>4 DEF WakeResolution
  <2> QED
    BY <1>1, <1>4, <2>1 DEF WakeResolution
<1>5. CASE WakeControl /\ WakeFor(about[Last(taken')])
  <2>1. ByItem(Controls)
    BY <1>5 DEF WakeControl
  <2> QED
    BY <1>1, <1>5, <2>1 DEF WakeControl
<1>6. CASE WakeManual /\ WakeFor(about[Last(taken')])
  <2>1. ByItem({"manual_wake"})
    BY <1>6 DEF WakeManual
  <2> QED
    BY <1>1, <1>6, <2>1 DEF WakeManual
<1>7. CASE WakeEvent /\ WakeFor(about[Last(taken')])
  <2>1. ByItem(plan.events)
    BY <1>7 DEF WakeEvent
  <2> QED
    BY <1>1, <1>7, <2>1 DEF WakeEvent
<1>8. CASE WakeTimer /\ WakeFor("timer")
  BY <1>8 DEF WakeTimer
<1> QED
  BY <1>2, <1>3, <1>4, <1>5, <1>6, <1>7, <1>8 DEF WakeBy

-----------------------------------------------------------------------------
(* Steps that write no row. *)

(* Nothing is written, and nothing delivered. *)
RowsStill == UNCHANGED <<rows, delivered>>

(* The rows stay what they are. *)
LEMMA StillRows ==
  ASSUME RowsInv, RowsStill
  PROVE  RowsInv'
<1>1. /\ status' = status /\ wakes' = wakes /\ facts' = facts
      /\ provenance' = provenance /\ request' = request
      /\ interventions' = interventions /\ intervened' = intervened
      /\ committed' = committed
      /\ about' = about /\ delivered' = delivered
  BY DEF RowsStill, rows, process
<1>2. TablesOK' /\ OutboxOK'
  BY <1>1 DEF RowsInv, TablesOK, OutboxOK
<1>3. CompletedIsSettled'
  BY <1>1 DEF RowsInv, CompletedIsSettled, Undelivered
<1>4. FactsHaveSources'
  BY <1>1 DEF RowsInv, FactsHaveSources
<1> QED
  BY <1>2, <1>3, <1>4 DEF RowsInv

(* And so do the approvals, unless an action is taken up. *)
LEMMA StillApprovals ==
  ASSUME ApprovalsOK, RowsStill,
         pc' \in {"execute", "reconcile"} =>
           \/ pc \in {"execute", "reconcile"} /\ job' = job
           \/ \A i \in Items : Approves(i) /\ i \notin Range(delivered) =>
                job' # about[i]
  PROVE  ApprovalsOK'
<1>1. /\ request' = request /\ committed' = committed /\ about' = about
      /\ delivered' = delivered
  BY DEF RowsStill, rows
<1>2. \A i : Approves(i)' <=> Approves(i)
  BY <1>1 DEF Approves
<1> HIDE DEF Approves
<1> QED
  BY <1>1, <1>2 DEF ApprovalsOK

(* A turn that is over leaves no action at hand. *)
LEMMA BackTurn ==
  ASSUME TurnInv, RowsStill, Back, ~wrote', TypeOK,
         dropped' \subseteq Actions,
         UNCHANGED <<base, lineage, decision, job>>
  PROVE  TurnInv'
<1>1. Len(lineage) \in Nat /\ depth \in Nat
  BY MailboxAssumption DEF TurnInv, ThreadOK, TypeOK
<1>2. ThreadOK'
  BY <1>1 DEF TurnInv, ThreadOK, Back
<1>3. ChainOK'
  BY DEF ChainOK, Back
<1>4. RequestOK'
  BY DEF RequestOK, Back
<1>5. ApprovalsOK'
  BY StillApprovals DEF TurnInv, Back
<1> QED
  BY <1>2, <1>3, <1>4, <1>5 DEF TurnInv

(* Only the turn's own allowed action is dropped. *)
LEMMA DropsActions ==
  ASSUME ThreadOK
  PROVE  Drops \subseteq Actions /\ dropped \cup Drops \subseteq Actions
BY DEF ThreadOK, Drops

(* The turn's error handler is as far from every action. *)
LEMMA HandledTurn ==
  ASSUME TurnInv, RowsStill, TypeOK, ~wrote',
         pc \in {"agent", "actions", "state", "execute", "reconcile", "limit",
                 "failure"},
         \/ /\ pc' = "failure" /\ depth' \in {depth, depth - 1}
            /\ depth' \in Nat
         \/ pc' = "failed" /\ depth' = depth,
         todo' = todo, results' = results, dropped' \subseteq Actions,
         UNCHANGED <<base, lineage, decision, job>>
  PROVE  TurnInv'
<1>1. Len(lineage) \in Nat /\ depth \in Nat
  BY MailboxAssumption DEF TurnInv, ThreadOK, TypeOK
<1>2. ThreadOK'
  BY <1>1 DEF TurnInv, ThreadOK
<1>3. ChainOK'
  BY DEF TurnInv, ChainOK
<1>4. RequestOK'
  BY DEF RequestOK
<1>5. ApprovalsOK'
  BY StillApprovals DEF TurnInv
<1> QED
  BY <1>2, <1>3, <1>4, <1>5 DEF TurnInv

(* Rollover and time. *)
LEMMA HousekeepingInv ==
  ASSUME TypeOK, JourneyInv, Housekeeping
  PROVE  JourneyInv'
<1>1. /\ delivered' = delivered /\ UNCHANGED <<depth, todo, results>>
      /\ \/ pc' = pc
         \/ /\ pc \in {"prestart", "loop"}
            /\ pc' \in {"prestart", "loop", "over"}
  BY DEF Housekeeping, TimerDue, Restore, ContinueAsNew, Finish, turn, input
<1>2. RowsStill
  BY <1>1 DEF RowsStill, Housekeeping
<1>3. /\ UNCHANGED <<base, lineage, decision, wrote, job, dropped>>
      /\ request' = request
  BY DEF Housekeeping, thread, rows
<1>4. TurnInv
  BY DEF JourneyInv
<1>5. ThreadOK'
  BY <1>1, <1>3, <1>4 DEF TurnInv, ThreadOK
<1>6. ChainOK'
  BY <1>1, <1>3, <1>4 DEF TurnInv, ChainOK
<1>7. RequestOK'
  BY <1>1, <1>3, <1>4 DEF TurnInv, RequestOK
<1>8. ApprovalsOK'
  BY <1>1, <1>2, <1>3, <1>4, StillApprovals DEF TurnInv
<1> QED
  BY <1>2, <1>5, <1>6, <1>7, <1>8, StillRows DEF JourneyInv, TurnInv

(* The loop takes up an item or the timer. *)
LEMMA WakeByInv ==
  ASSUME TypeOK, Inv, JourneyInv, WakeBy
  PROVE  JourneyInv'
<1>1. /\ pc = "loop" /\ delivered' = delivered
      /\ \/ pc' = "agent" /\ depth' = 0 /\ todo' = 0 /\ results' = FALSE
         \/ /\ pc' \in {"execute", "loop"} /\ depth' = depth
            /\ todo' = todo /\ results' = results
  BY WokenBy
<1>2. PICK s : /\ WakeFor(s) /\ s \in Source
               /\ pc' = "execute" =>
                    \E i \in Items : /\ i \in Range(delivered) /\ Approves(i)
                                     /\ s = about[i]
  <2>1. CASE WakeFor("timer") /\ pc' # "execute"
    BY <2>1 DEF Source
  <2>2. ASSUME NEW i \in Range(delivered), i \in Items, WakeFor(about[i]),
               pc' = "execute" => Kind[i] = "approve"
        PROVE  \E s : /\ WakeFor(s) /\ s \in Source
                      /\ pc' = "execute" =>
                           \E j \in Items : /\ j \in Range(delivered)
                                            /\ Approves(j) /\ s = about[j]
    <3>1. about[i] \in Source /\ i \in Range(committed)
      BY <2>2 DEF JourneyInv, RowsInv, OutboxOK
    <3> QED
      BY <2>2, <3>1 DEF Approves
  <2> QED
    BY <2>1, <2>2, WokenBy
<1>3. RowsStill
  BY <1>1, <1>2 DEF RowsStill, WakeFor
<1>4. /\ request' = request /\ wrote' = wrote /\ dropped' = dropped
      /\ job' = IF pc' = "execute" THEN s ELSE job
      /\ pc' = "agent" => /\ lineage' = <<s>> /\ base' = base + Len(lineage)
                          /\ decision' = NoDecision
      /\ pc' # "agent" => UNCHANGED <<lineage, base, decision>>
  BY <1>2 DEF WakeFor, rows
<1>5. TurnInv
  BY DEF JourneyInv
<1>6. pc' = "execute" => s \in Actions /\ request[s] \in Approved
  BY <1>2, <1>5 DEF TurnInv, ApprovalsOK
<1>7. ThreadOK'
  <2>1. CASE pc' = "agent"
    <3>1. lineage' \in Seq(Source) /\ Len(lineage') = 1
      <4>1. lineage' = <<s>> /\ s \in Source
        BY <1>2, <1>4, <2>1
      <4> HIDE DEF Source
      <4> QED
        BY <4>1
    <3>2. base' \in Nat /\ 0 < 1
      BY <1>4, <1>5, <2>1 DEF TurnInv, ThreadOK
    <3>3. decision' = NoDecision /\ job' = job /\ dropped' = dropped
      BY <1>4, <2>1
    <3>4. decision'.act = "none"
      BY <3>3 DEF NoDecision
    <3>5. depth' < Len(lineage') /\ pc' \notin {"execute", "reconcile"}
      BY <1>1, <2>1, <3>1, <3>2
    <3>6. job \in Actions \cup {NoSource} /\ dropped \subseteq Actions
      BY <1>5 DEF TurnInv, ThreadOK
    <3> QED
      BY <3>1, <3>2, <3>3, <3>4, <3>5, <3>6 DEF ThreadOK
  <2>2. CASE pc' # "agent"
    BY <1>1, <1>4, <1>5, <1>6, <2>2 DEF TurnInv, ThreadOK
  <2> QED
    BY <2>1, <2>2
<1>8. ChainOK'
  BY <1>1, <1>4, <1>5 DEF TurnInv, ChainOK, NoDecision
<1>9. RequestOK'
  BY <1>1, <1>4, <1>6 DEF RequestOK
<1>10. ApprovalsOK'
  <2>1. pc' \in {"execute", "reconcile"} =>
          \A i \in Items : Approves(i) /\ i \notin Range(delivered) =>
            job' # about[i]
    <3> HIDE DEF Approves
    <3> QED
      BY <1>1, <1>2, <1>4, <1>5 DEF TurnInv, ApprovalsOK
  <2> QED
    BY <1>3, <1>5, <2>1, StillApprovals DEF TurnInv
<1> QED
  BY <1>3, <1>7, <1>8, <1>9, <1>10, StillRows DEF JourneyInv, TurnInv

(* A decision comes back. *)
LEMMA AgentReturnsInv ==
  ASSUME TypeOK, JourneyInv, AgentReturns
  PROVE  JourneyInv'
<1>1. RowsStill /\ request' = request
  BY DEF RowsStill, AgentReturns, AgentDecides, unsignalled, input, rows
<1>2. TurnInv /\ pc = "agent" /\ UNCHANGED <<base, lineage, wrote, dropped>>
  BY DEF JourneyInv, AgentReturns, AgentDecides
<1>3. ~wrote /\ ~wrote'
  BY <1>2 DEF TurnInv, ChainOK
<1>4. CASE Preempted
  <2>1. Back /\ UNCHANGED <<decision, job>>
    BY <1>4 DEF AgentReturns, AgentDecides, Return, Back
  <2>2. TurnInv'
    BY <1>1, <1>2, <1>3, <2>1, BackTurn DEF TurnInv, ThreadOK
  <2> QED
    BY <1>1, <2>2, StillRows DEF JourneyInv
<1>5. CASE ~Preempted
  <2>1. /\ pc' = "actions" /\ depth' = depth /\ todo' = todo
        /\ results' = results
    BY <1>5 DEF AgentReturns, AgentDecides, turn
  <2>2. /\ decision' \in Decision
        /\ decision'.act = "none" => job' = job
        /\ decision'.act # "none" => job' \in Actions /\ request[job'] = "none"
    BY <1>5 DEF AgentReturns
  <2>3. ThreadOK'
    BY <1>2, <2>1, <2>2 DEF TurnInv, ThreadOK
  <2>4. ChainOK'
    BY <1>2, <2>1 DEF TurnInv, ChainOK
  <2>5. RequestOK'
    BY <1>1, <1>2, <1>3, <2>1, <2>2 DEF RequestOK
  <2>6. ApprovalsOK'
    BY <1>1, <1>2, <2>1, StillApprovals DEF TurnInv
  <2> QED
    BY <1>1, <2>3, <2>4, <2>5, <2>6, StillRows DEF JourneyInv, TurnInv
<1> QED
  BY <1>4, <1>5

(* The gateway's answer comes back: the action is to be executed, or not. *)
LEMMA ActionsReturnInv ==
  ASSUME TypeOK, JourneyInv, ActionsReturn
  PROVE  JourneyInv'
<1>1. RowsStill /\ request' = request
  BY DEF RowsStill, ActionsReturn, ActionsPersisted, unsignalled, input, rows
<1>2. /\ TurnInv /\ pc = "actions" /\ wrote /\ ~wrote'
      /\ UNCHANGED <<base, lineage, decision, job>>
  BY DEF JourneyInv, ActionsReturn, ActionsPersisted
<1>3. dropped' \subseteq Actions
  BY <1>2, DropsActions DEF ActionsReturn, TurnInv
<1>4. CASE Preempted
  <2>1. Back
    BY <1>4 DEF ActionsReturn, ActionsPersisted, Return, Back
  <2>2. TurnInv'
    BY <1>1, <1>2, <1>3, <2>1, BackTurn
  <2> QED
    BY <1>1, <2>2, StillRows DEF JourneyInv
<1>5. CASE ~Preempted
  <2>1. /\ pc' = "state" /\ depth' = depth /\ results' = results
        /\ todo' = IF decision.act = "allow" THEN 1 ELSE 0
    BY <1>5 DEF ActionsReturn, ActionsPersisted
  <2>2. ThreadOK'
    BY <1>2, <1>3, <2>1 DEF TurnInv, ThreadOK
  <2>3. ChainOK'
    BY <1>2, <2>1 DEF TurnInv, ChainOK
  <2>4. RequestOK'
    BY <1>1, <1>2, <2>1 DEF TurnInv, RequestOK
  <2>5. ApprovalsOK'
    BY <1>1, <1>2, <2>1, StillApprovals DEF TurnInv
  <2> QED
    BY <1>1, <2>2, <2>3, <2>4, <2>5, StillRows DEF JourneyInv, TurnInv
<1> QED
  BY <1>4, <1>5

(* The state's answer comes back: the allowed action is executed, and it   *)
(* was never under review.                                                 *)
LEMMA StateReturnsInv ==
  ASSUME TypeOK, JourneyInv, StateReturns
  PROVE  JourneyInv'
<1>1. RowsStill /\ request' = request
  BY DEF RowsStill, StateReturns, StatePersisted, unsignalled, input, rows
<1>2. /\ TurnInv /\ pc = "state" /\ ~wrote'
      /\ UNCHANGED <<base, lineage, decision, job>>
  BY DEF JourneyInv, StateReturns, StatePersisted
<1>3. dropped' \subseteq Actions
  BY <1>2, DropsActions DEF StateReturns, TurnInv
<1>4. Proceed(todo, FALSE, revision)
  BY DEF StateReturns, StatePersisted
<1>5. CASE Back
  <2>1. TurnInv'
    BY <1>1, <1>2, <1>3, <1>5, BackTurn
  <2> QED
    BY <1>1, <2>1, StillRows DEF JourneyInv
<1>6. CASE ~Back
  <2>1. /\ pc' = "execute" /\ depth' = depth /\ todo > 0 /\ todo' = todo
        /\ results' = FALSE
    BY <1>4, <1>6 DEF Proceed, ApplyTurnOutcome, Return, Back
  <2>2. decision.act = "allow" /\ todo \in {0, 1}
    BY <1>2, <2>1 DEF TurnInv, ChainOK
  <2>3. job \in Actions /\ request[job] = "allowed"
    BY <1>2, <2>2 DEF TurnInv, ThreadOK, RequestOK
  <2>4. ThreadOK'
    BY <1>2, <1>3, <2>1, <2>3 DEF TurnInv, ThreadOK
  <2>5. ChainOK'
    BY <1>2, <2>1, <2>2 DEF TurnInv, ChainOK
  <2>6. RequestOK'
    BY <1>1, <1>2, <2>1, <2>3 DEF TurnInv, RequestOK
  <2>7. ApprovalsOK'
    <3>1. \A i \in Items : Approves(i) => request[about[i]] # "allowed"
      BY <1>2 DEF TurnInv, ApprovalsOK, Approved
    <3> HIDE DEF Approves
    <3> QED
      BY <1>1, <1>2, <2>1, <2>3, <3>1, StillApprovals DEF TurnInv
  <2> QED
    BY <1>1, <2>4, <2>5, <2>6, <2>7, StillRows DEF JourneyInv, TurnInv
<1> QED
  BY <1>5, <1>6

(* An activity of the turn fails for good. *)
LEMMA TurnFailsInInv ==
  ASSUME TypeOK, JourneyInv, TurnFailsIn
  PROVE  JourneyInv'
<1>1. RowsStill
  BY DEF RowsStill, TurnFailsIn, TurnActivityFails, unsignalled, input
<1>2. /\ TurnInv /\ pc \in {"agent", "actions", "state"} /\ ~wrote'
      /\ UNCHANGED <<base, lineage, decision, job>> /\ TurnFails(depth)
  BY DEF JourneyInv, TurnFailsIn, TurnActivityFails
<1>3. dropped' \subseteq Actions
  BY <1>2, DropsActions DEF TurnFailsIn, TurnInv
<1>4. depth \in Nat
  BY MailboxAssumption DEF TypeOK
<1>5. TurnInv'
  BY <1>1, <1>2, <1>3, <1>4, FailedTurn, BackTurn, HandledTurn
<1> QED
  BY <1>1, <1>5, StillRows DEF JourneyInv

(* The execution is lost. *)
LEMMA ExecuteLostInv ==
  ASSUME TypeOK, JourneyInv, ExecuteLost
  PROVE  JourneyInv'
<1>1. RowsStill /\ request' = request
  BY DEF RowsStill, ExecuteLost, unsignalled, input, rows
<1>2. /\ TurnInv /\ pc = "execute" /\ Executed(FALSE) /\ wrote' = wrote
      /\ UNCHANGED <<base, lineage, decision, job>>
      /\ dropped' = dropped \cup {job}
  BY DEF JourneyInv, ExecuteLost
<1>3. dropped' \subseteq Actions /\ ~wrote' /\ ~results /\ todo \in {0, 1}
  BY <1>2 DEF TurnInv, ThreadOK, ChainOK
<1>4. CASE Back
  <2>1. TurnInv'
    BY <1>1, <1>2, <1>3, <1>4, BackTurn
  <2> QED
    BY <1>1, <2>1, StillRows DEF JourneyInv
<1>5. CASE ~Back
  <2>1. pc' = "loop" /\ depth' = depth /\ todo' = todo /\ results' = results
    BY <1>2, <1>3, <1>5, LostTurn
  <2>2. ThreadOK'
    BY <1>2, <1>3, <2>1 DEF TurnInv, ThreadOK
  <2>3. ChainOK'
    BY <1>2, <1>3, <2>1 DEF TurnInv, ChainOK
  <2>4. RequestOK'
    BY <2>1 DEF RequestOK
  <2>5. ApprovalsOK'
    BY <1>1, <1>2, <2>1, StillApprovals DEF TurnInv
  <2> QED
    BY <1>1, <2>2, <2>3, <2>4, <2>5, StillRows DEF JourneyInv, TurnInv
<1> QED
  BY <1>4, <1>5

(* The deployment no longer fits the process. *)
LEMMA ExecuteIncompatibleInv ==
  ASSUME TypeOK, JourneyInv, ExecuteIncompatible
  PROVE  JourneyInv'
<1>1. RowsStill
  BY DEF RowsStill, ExecuteIncompatible, ExecutionIncompatible, unsignalled,
         input
<1>2. /\ TurnInv /\ pc \in {"execute", "reconcile"} /\ ExecutionRaises
      /\ UNCHANGED <<base, lineage, decision, job>> /\ wrote' = wrote
      /\ dropped' = dropped \cup {job}
  BY DEF JourneyInv, ExecuteIncompatible, ExecutionIncompatible
<1>3. dropped' \subseteq Actions /\ ~wrote' /\ depth \in Nat
  BY <1>2, MailboxAssumption DEF TurnInv, ThreadOK, ChainOK, TypeOK
<1>4. \/ TurnFails(depth)
      \/ /\ pc' = "failed" /\ depth' = depth /\ todo' = todo
         /\ results' = results
  BY <1>2 DEF ExecutionRaises, turn
<1>5. TurnInv'
  BY <1>1, <1>2, <1>3, <1>4, FailedTurn, BackTurn, HandledTurn
<1> QED
  BY <1>1, <1>5, StillRows DEF JourneyInv

(* The intervention is recorded, or cannot be. *)
LEMMA InterventionEndsInv ==
  ASSUME TypeOK, JourneyInv, InterventionEnds
  PROVE  JourneyInv'
<1>1. RowsStill
  BY DEF RowsStill, InterventionEnds, InterventionRecorded, InterventionFails,
         unsignalled, input
<1>2. /\ TurnInv /\ pc \in {"limit", "failure"} /\ ~wrote'
      /\ UNCHANGED <<base, lineage, decision, job, dropped>>
  BY DEF JourneyInv, InterventionEnds, InterventionRecorded, InterventionFails
<1>3. dropped' \subseteq Actions /\ depth \in Nat
  BY <1>2, MailboxAssumption DEF TurnInv, ThreadOK, TypeOK
<1>4. \/ Back
      \/ TurnFails(depth)
      \/ /\ pc' \in {"failure", "failed"} /\ todo' = todo /\ results' = results
         /\ \/ pc' = "failure" /\ depth' = depth - 1 /\ depth > 0
            \/ pc' = "failed" /\ depth' = depth
  BY DEF InterventionEnds, InterventionRecorded, InterventionFails, Return,
         Back, turn
<1>5. depth > 0 => depth - 1 \in Nat
  BY <1>3
<1>6. TurnInv'
  BY <1>1, <1>2, <1>3, <1>4, <1>5, FailedTurn, BackTurn, HandledTurn
<1> QED
  BY <1>1, <1>6, StillRows DEF JourneyInv

-----------------------------------------------------------------------------
(* Steps that write the request of an action. *)

(* Only requests change: of a process that is not completed. *)
LEMMA RequestRows ==
  ASSUME RowsInv, UNCHANGED <<process, interventions, intervened, committed,
                              about, delivered>>,
         request' \in [Actions -> RequestStatus],
         status = "completed" => request' = request
  PROVE  RowsInv'
<1>1. /\ status' = status /\ wakes' = wakes /\ facts' = facts
      /\ provenance' = provenance /\ interventions' = interventions
      /\ intervened' = intervened
      /\ committed' = committed /\ about' = about /\ delivered' = delivered
  BY DEF process
<1>2. TablesOK' /\ OutboxOK'
  BY <1>1 DEF RowsInv, TablesOK, OutboxOK
<1>3. CompletedIsSettled'
  BY <1>1 DEF RowsInv, CompletedIsSettled, Undelivered
<1>4. FactsHaveSources'
  BY <1>1 DEF RowsInv, FactsHaveSources
<1> QED
  BY <1>2, <1>3, <1>4 DEF RowsInv

(* The request moves on, and that of no approval that is under way. *)
LEMMA RequestApprovals ==
  ASSUME ApprovalsOK, UNCHANGED <<committed, about, delivered>>,
         \A b \in Actions :
           \/ request'[b] = request[b]
           \/ /\ request[b] \in Approved => request'[b] \in Approved
              /\ \A i \in Items : Approves(i) /\ i \notin Range(delivered) =>
                   about[i] # b,
         pc' \in {"execute", "reconcile"} =>
           pc \in {"execute", "reconcile"} /\ job' = job
  PROVE  ApprovalsOK'
<1>1. \A i : Approves(i)' <=> Approves(i)
  BY DEF Approves
<1>2. about' = about /\ delivered' = delivered
  OBVIOUS
<1> HIDE DEF Approves
<1>3. ASSUME NEW i \in Items, Approves(i)
      PROVE  about[i] \in Actions /\ request'[about[i]] \in Approved
  BY <1>3 DEF ApprovalsOK
<1>4. ASSUME NEW i \in Items, Approves(i), i \notin Range(delivered)
      PROVE  /\ request'[about[i]] = "approved"
             /\ pc' \in {"execute", "reconcile"} => job' # about[i]
  BY <1>4 DEF ApprovalsOK
<1>5. \A i, j \in Items : Approves(i) /\ Approves(j) /\ about[i] = about[j] => i = j
  BY DEF ApprovalsOK
<1> QED
  BY <1>1, <1>2, <1>3, <1>4, <1>5 DEF ApprovalsOK

(* The gateway writes the request of the turn's action. *)
LEMMA WriteActionsInv ==
  ASSUME TypeOK, JourneyInv, WriteActions
  PROVE  JourneyInv'
<1>1. /\ RowsInv /\ TurnInv /\ pc = "actions" /\ ~wrote /\ wrote' /\ Permits
      /\ UNCHANGED <<process, interventions, intervened, committed,
                     about, delivered>>
      /\ UNCHANGED <<pc, depth, todo, results, base, lineage, decision, job,
                     dropped>>
  BY DEF JourneyInv, WriteActions, PersistDecision, mailbox
<1>2. request \in [Actions -> RequestStatus] /\ status # "completed"
  BY <1>1 DEF RowsInv, TablesOK, Permits
<1>3. CASE decision.act = "none"
  <2>1. request' = request
    BY <1>3 DEF WriteActions, PersistDecision
  <2>2. RowsStill
    BY <1>1, <2>1 DEF RowsStill, rows
  <2>3. ThreadOK'
    BY <1>1 DEF TurnInv, ThreadOK
  <2>4. ChainOK'
    BY <1>1 DEF TurnInv, ChainOK
  <2>5. RequestOK'
    BY <1>1, <1>3 DEF RequestOK
  <2>6. ApprovalsOK'
    BY <1>1, <2>2, StillApprovals DEF TurnInv
  <2> QED
    BY <1>1, <2>2, <2>3, <2>4, <2>5, <2>6, StillRows DEF JourneyInv, TurnInv
<1>4. CASE decision.act # "none"
  <2>1. request' = [request EXCEPT ![job] = InitialStatus[decision.act]]
    BY <1>4 DEF WriteActions, PersistDecision
  <2>2. decision.act \in {"allow", "require_approval", "deny"}
    BY <1>1, <1>4, JourneyAssumption DEF TurnInv, ThreadOK, Decision, NoDecision
  <2>3. /\ InitialStatus[decision.act] \in RequestStatus
        /\ decision.act = "allow" => InitialStatus[decision.act] = "allowed"
    BY <2>2 DEF InitialStatus, RequestStatus
  <2>4. job \in Actions /\ request[job] = "none"
    BY <1>1, <1>4 DEF TurnInv, ThreadOK, RequestOK
  <2>5. /\ request' \in [Actions -> RequestStatus]
        /\ request'[job] = InitialStatus[decision.act]
        /\ \A b \in Actions : b # job => request'[b] = request[b]
    BY <1>2, <2>1, <2>3, <2>4
  <2>6. RowsInv'
    BY <1>1, <1>2, <2>5, RequestRows
  <2>7. ThreadOK'
    BY <1>1 DEF TurnInv, ThreadOK
  <2>8. ChainOK'
    BY <1>1 DEF TurnInv, ChainOK
  <2>9. RequestOK'
    BY <1>1, <2>3, <2>5 DEF RequestOK
  <2>10. ApprovalsOK'
    <3>1. \A i \in Items : Approves(i) => about[i] # job
      BY <1>1, <2>4 DEF TurnInv, ApprovalsOK, Approved
    <3>2. request[job] \notin Approved
      BY <2>4 DEF Approved
    <3> HIDE DEF Approves
    <3> QED
      BY <1>1, <2>5, <3>1, <3>2, RequestApprovals DEF TurnInv
  <2> QED
    BY <2>6, <2>7, <2>8, <2>9, <2>10 DEF JourneyInv, TurnInv
<1> QED
  BY <1>3, <1>4

(* The request of the action that is executed moves on. *)
JobMoves(from, to) ==
  /\ request[job] \in from
  /\ \E s \in to : request' = [request EXCEPT ![job] = s]

(* It is that of no approval under way, and of no completed process.       *)
LEMMA JobMovesRows ==
  ASSUME RowsInv, TurnInv, pc \in {"execute", "reconcile"},
         UNCHANGED <<process, interventions, intervened, committed,
                     about, delivered>>,
         \/ JobMoves({"allowed", "approved", "executing", "unknown"},
                     {"executing", "unknown", "succeeded", "failed"})
         \/ request' = [request EXCEPT ![job] = request[job]],
         pc' \in {"execute", "reconcile"} => job' = job
  PROVE  /\ RowsInv' /\ ApprovalsOK' /\ request'[job] \in Approved \cup {"allowed"}
<1>1. request \in [Actions -> RequestStatus] /\ job \in Actions
  BY DEF RowsInv, TablesOK, TurnInv, ThreadOK
<1>2. CASE request' = [request EXCEPT ![job] = request[job]]
  <2>1. request' = request
    BY <1>1, <1>2
  <2>2. RowsInv'
    BY <1>1, <2>1, RequestRows
  <2>3. ApprovalsOK'
    BY <2>1, RequestApprovals DEF TurnInv
  <2> QED
    BY <2>1, <2>2, <2>3 DEF TurnInv, RequestOK
<1>3. CASE JobMoves({"allowed", "approved", "executing", "unknown"},
                    {"executing", "unknown", "succeeded", "failed"})
  <2>1. PICK s \in {"executing", "unknown", "succeeded", "failed"} :
          request' = [request EXCEPT ![job] = s]
    BY <1>3 DEF JobMoves
  <2>2. /\ request' \in [Actions -> RequestStatus] /\ request'[job] \in Approved
        /\ \A b \in Actions : b # job => request'[b] = request[b]
    BY <1>1, <2>1 DEF RequestStatus, Approved
  <2>3. status # "completed"
    BY <1>1, <1>3 DEF RowsInv, CompletedIsSettled, JobMoves
  <2>4. RowsInv'
    BY <2>2, <2>3, RequestRows
  <2>5. \A i \in Items : Approves(i) /\ i \notin Range(delivered) =>
          about[i] # job
    BY DEF TurnInv, ApprovalsOK
  <2>6. ApprovalsOK'
    BY <2>2, <2>5, RequestApprovals DEF TurnInv
  <2> QED
    BY <2>2, <2>4, <2>6
<1> QED
  BY <1>2, <1>3

(* The first transaction of the execution, or its uncertain end. *)
LEMMA ExecutingInv ==
  ASSUME TypeOK, JourneyInv, ExecuteBegins \/ ExecuteUncertain
  PROVE  JourneyInv'
<1>1. /\ RowsInv /\ TurnInv /\ pc = "execute"
      /\ pc' \in {"execute", "reconcile"}
      /\ UNCHANGED <<process, interventions, intervened, committed,
                     about, delivered>>
      /\ UNCHANGED <<depth, todo, results, base, lineage, decision, job, wrote,
                     dropped>>
  BY DEF JourneyInv, ExecuteBegins, ExecuteUncertain, ExecuteUnknown, mailbox,
         thread, unsignalled, input, turn
<1>2. JobMoves({"allowed", "approved", "executing", "unknown"},
               {"executing", "unknown", "succeeded", "failed"})
  BY DEF ExecuteBegins, ExecuteUncertain, JobMoves
<1>3. RowsInv' /\ ApprovalsOK' /\ request'[job] \in Approved \cup {"allowed"}
  BY <1>1, <1>2, JobMovesRows
<1>4. ThreadOK'
  BY <1>1 DEF TurnInv, ThreadOK
<1>5. ChainOK'
  BY <1>1 DEF TurnInv, ChainOK
<1>6. RequestOK'
  BY <1>1, <1>3 DEF RequestOK
<1> QED
  BY <1>3, <1>4, <1>5, <1>6 DEF JourneyInv, TurnInv

(* The result is there, and followed up. *)
LEMMA SettlesInv ==
  ASSUME TypeOK, JourneyInv, ExecuteSettles \/ ReconcileEnds
  PROVE  JourneyInv'
<1>1. /\ RowsInv /\ TurnInv /\ pc \in {"execute", "reconcile"}
      /\ Executed(TRUE) /\ FollowsUp
      /\ UNCHANGED <<process, interventions, intervened, committed,
                     about, delivered>>
      /\ UNCHANGED <<job, wrote, dropped>>
  BY DEF JourneyInv, ExecuteSettles, ReconcileEnds, ReconcileReturns,
         unsignalled, input
<1>2. \/ JobMoves({"allowed", "approved", "executing", "unknown"},
                  {"executing", "unknown", "succeeded", "failed"})
      \/ request' = [request EXCEPT ![job] = request[job]]
  BY DEF ExecuteSettles, ReconcileEnds, JobMoves
<1>3. RowsInv' /\ ApprovalsOK' /\ request'[job] \in Approved \cup {"allowed"}
  BY <1>1, <1>2, JobMovesRows
<1>4. todo \in {0, 1} /\ ~wrote /\ job \in Actions /\ ~wrote'
  BY <1>1 DEF TurnInv, ChainOK, ThreadOK
<1>5. /\ Len(lineage) \in Nat /\ depth \in Nat /\ base \in Nat
      /\ lineage \in Seq(Source)
  BY <1>1, MailboxAssumption DEF TurnInv, ThreadOK, TypeOK
<1>6. CASE pc' = "agent"
  <2>1. /\ todo' = 0 /\ results' = FALSE /\ decision' = NoDecision
        /\ depth' = IF direct THEN 0 ELSE depth + 1
        /\ lineage' = IF direct THEN <<job>> ELSE Append(lineage, job)
        /\ base' = IF direct THEN base + Len(lineage) ELSE base
    BY <1>1, <1>4, <1>6, SettledTurn DEF FollowsUp, Back
  <2>2. job \in Source
    BY <1>4 DEF Source
  <2>3. lineage' \in Seq(Source) /\ depth' < Len(lineage')
    <3> HIDE DEF Source
    <3>1. CASE direct
      BY <2>1, <2>2, <3>1
    <3>2. CASE ~direct
      <4>1. depth < Len(lineage)
        BY <1>1 DEF TurnInv, ThreadOK
      <4> QED
        BY <1>5, <2>1, <2>2, <3>2, <4>1
    <3> QED
      BY <3>1, <3>2
  <2>4. base' \in Nat
    BY <1>5, <2>1
  <2>5. decision'.act = "none"
    BY <2>1 DEF NoDecision
  <2>6. ThreadOK'
    BY <1>1, <1>6, <2>1, <2>3, <2>4, <2>5 DEF TurnInv, ThreadOK
  <2>7. ChainOK'
    BY <1>4, <1>6, <2>1 DEF ChainOK
  <2>8. RequestOK'
    BY <1>6 DEF RequestOK
  <2> QED
    BY <1>3, <2>6, <2>7, <2>8 DEF JourneyInv, TurnInv
<1>7. CASE pc' # "agent"
  <2>1. /\ \/ pc' = "loop" /\ depth' = 0 /\ results' = FALSE
           \/ pc' = "limit" /\ depth' = depth
        /\ todo' = 0
    BY <1>1, <1>4, <1>7, SettledTurn DEF Back
  <2>2. UNCHANGED <<lineage, base, decision>>
    BY <1>1, <1>7 DEF FollowsUp
  <2>3. ThreadOK'
    BY <1>1, <1>5, <2>1, <2>2 DEF TurnInv, ThreadOK
  <2>4. ChainOK'
    BY <1>4, <2>1 DEF ChainOK
  <2>5. RequestOK'
    BY <2>1 DEF RequestOK
  <2> QED
    BY <1>3, <2>3, <2>4, <2>5 DEF JourneyInv, TurnInv
<1> QED
  BY <1>6, <1>7

(* An execution that nobody waits for any more settles. *)
LEMMA LateSettlesInv ==
  ASSUME TypeOK, JourneyInv, NEW a \in Actions, LateSettles(a)
  PROVE  JourneyInv'
<1>1. /\ RowsInv /\ TurnInv /\ request[a] = "executing"
      /\ UNCHANGED <<process, interventions, intervened, committed,
                     about, delivered>>
      /\ UNCHANGED <<pc, depth, todo, results, base, lineage, decision, job,
                     wrote, dropped>>
  BY DEF JourneyInv, LateSettles, mailbox, thread
<1>2. PICK s \in {"succeeded", "failed", "unknown"} :
        request' = [request EXCEPT ![a] = s]
  BY DEF LateSettles
<1>3. request \in [Actions -> RequestStatus]
  BY <1>1 DEF RowsInv, TablesOK
<1>4. /\ request' \in [Actions -> RequestStatus] /\ request'[a] \in Approved
      /\ \A b : b \in Actions /\ b # a => request'[b] = request[b]
  BY <1>2, <1>3 DEF RequestStatus, Approved
<1>5. status # "completed"
  BY <1>1 DEF RowsInv, CompletedIsSettled
<1>6. RowsInv'
  BY <1>1, <1>4, <1>5, RequestRows
<1>7. \A i \in Items : Approves(i) /\ i \notin Range(delivered) => about[i] # a
  BY <1>1 DEF TurnInv, ApprovalsOK
<1>8. ApprovalsOK'
  BY <1>1, <1>4, <1>7, RequestApprovals DEF TurnInv
<1>9. ThreadOK' /\ ChainOK'
  BY <1>1 DEF TurnInv, ThreadOK, ChainOK
<1>10. RequestOK'
  <2>1. pc \in {"execute", "reconcile"} \/ decision.act # "none" =>
          job \in Actions
    BY <1>1 DEF TurnInv, ThreadOK
  <2>2. CASE job = a
    BY <1>1, <1>4, <2>2 DEF TurnInv, RequestOK
  <2>3. CASE job # a
    BY <1>1, <1>4, <2>1, <2>3 DEF TurnInv, RequestOK
  <2> QED
    BY <2>2, <2>3
<1> QED
  BY <1>6, <1>8, <1>9, <1>10 DEF JourneyInv, TurnInv

-----------------------------------------------------------------------------
(* Steps of operators, reviewers and adapters. *)

(* The mailbox and the turn stay as they are. *)
TurnStill == UNCHANGED <<delivered, pc, depth, todo, results, base, lineage,
                         decision, job, wrote, dropped>>

(* A request moves on: not one that is still to be executed. *)
Moves(b) ==
  \/ request'[b] = request[b]
  \/ /\ request[b] \notin {"none", "allowed"}
     /\ request[b] \in Approved => request'[b] \in Approved

(* A message is committed. *)
LEMMA CommitFacts ==
  ASSUME OutboxOK, NEW i \in Items, NEW x \in Source, Commit(i, x),
         delivered' = delivered
  PROVE  /\ OutboxOK' /\ i \notin Range(committed)
         /\ Range(committed') = Range(committed) \cup {i}
         /\ about'[i] = x /\ \A j \in Items : j # i => about'[j] = about[j]
<1>1. /\ committed \in Seq(Items) /\ about \in [Items -> Source]
      /\ Range(delivered) \subseteq Range(committed)
  BY DEF OutboxOK
<1>2. /\ i \notin Range(committed) /\ committed' = Append(committed, i)
      /\ about' = [about EXCEPT ![i] = x]
  BY DEF Commit
<1>3. /\ committed' \in Seq(Items)
      /\ Range(committed') = Range(committed) \cup {i}
  BY <1>1, <1>2, AppendFacts
<1> HIDE DEF Source
<1>4. /\ about' \in [Items -> Source] /\ about'[i] = x
      /\ \A j \in Items : j # i => about'[j] = about[j]
  BY <1>1, <1>2
<1> QED
  BY <1>1, <1>2, <1>3, <1>4 DEF OutboxOK

(* The rows after a command or an event, which a completed process         *)
(* refuses.                                                                *)
LEMMA CommitRows ==
  ASSUME RowsInv, NEW i \in Items, NEW x \in Source, Commit(i, x),
         delivered' = delivered, UNCHANGED <<facts, provenance>>,
         status' \in ProcessStatus, status' # "completed",
         wakes' \subseteq wakes \cup {"operator"},
         request' \in [Actions -> RequestStatus],
         interventions' \subseteq interventions, intervened' = intervened
  PROVE  RowsInv'
<1>1. OutboxOK'
  BY CommitFacts DEF RowsInv
<1>2. TablesOK'
  BY DEF RowsInv, TablesOK
<1>3. CompletedIsSettled'
  BY DEF CompletedIsSettled
<1>4. FactsHaveSources'
  BY DEF RowsInv, FactsHaveSources
<1> QED
  BY <1>1, <1>2, <1>3, <1>4 DEF RowsInv

(* The turn goes on untouched. *)
LEMMA CommitTurn ==
  ASSUME TurnInv, TurnStill, \A b \in Actions : Moves(b)
  PROVE  ThreadOK' /\ ChainOK' /\ RequestOK'
<1>1. ThreadOK' /\ ChainOK'
  BY DEF TurnInv, TurnStill, ThreadOK, ChainOK
<1>2. pc \in {"execute", "reconcile"} \/ decision.act # "none" => job \in Actions
  BY DEF TurnInv, ThreadOK
<1>3. RequestOK'
  BY <1>2 DEF TurnInv, TurnStill, RequestOK, Moves, Approved
<1> QED
  BY <1>1, <1>3

(* What is committed is no approval, and changes no approved request that  *)
(* is still to be heard of.                                                *)
LEMMA CommitApprovals ==
  ASSUME ApprovalsOK, OutboxOK, TurnStill, NEW i \in Items, NEW x \in Source,
         Commit(i, x), Kind[i] # "approve",
         \A b \in Actions : Moves(b) /\ (request[b] = "approved" =>
                                           request'[b] = "approved")
  PROVE  ApprovalsOK'
<1>1. /\ i \notin Range(committed)
      /\ Range(committed') = Range(committed) \cup {i}
      /\ \A j \in Items : j # i => about'[j] = about[j]
      /\ delivered' = delivered /\ pc' = pc /\ job' = job
  BY CommitFacts DEF TurnStill
<1>2. \A j \in Items : /\ Approves(j)' <=> Approves(j)
                       /\ Approves(j) => about'[j] = about[j]
  BY <1>1 DEF Approves
<1> HIDE DEF Approves
<1>3. ASSUME NEW j \in Items, Approves(j)
      PROVE  about[j] \in Actions /\ request'[about[j]] \in Approved
  BY <1>3 DEF ApprovalsOK, Moves
<1>4. ASSUME NEW j \in Items, Approves(j), j \notin Range(delivered)
      PROVE  /\ request'[about[j]] = "approved"
             /\ pc \in {"execute", "reconcile"} => job # about[j]
  BY <1>4, <1>3 DEF ApprovalsOK
<1>5. \A j, k \in Items : Approves(j) /\ Approves(k) /\ about[j] = about[k] => j = k
  BY DEF ApprovalsOK
<1> QED
  BY <1>1, <1>2, <1>3, <1>4, <1>5 DEF ApprovalsOK

(* An approval: the first of its action. *)
LEMMA CommitApproval ==
  ASSUME ApprovalsOK, RequestOK, OutboxOK, TurnStill, NEW i \in Items,
         NEW a \in Actions, Commit(i, a), Kind[i] = "approve",
         request[a] = "pending_approval", request'[a] = "approved",
         \A b \in Actions : b # a => request'[b] = request[b]
  PROVE  ApprovalsOK'
<1>1. a \in Source
  BY DEF Source
<1>2. /\ i \notin Range(committed)
      /\ Range(committed') = Range(committed) \cup {i} /\ about'[i] = a
      /\ \A j \in Items : j # i => about'[j] = about[j]
      /\ delivered' = delivered /\ pc' = pc /\ job' = job
  BY <1>1, CommitFacts DEF TurnStill
<1>3. \A j \in Items : /\ Approves(j)' <=> Approves(j) \/ j = i
                       /\ Approves(j) => j # i /\ about'[j] = about[j]
  BY <1>2 DEF Approves
<1>4. \A j \in Items : Approves(j) => about[j] \in Actions /\ about[j] # a
  BY DEF ApprovalsOK, Approved
<1>5. pc \in {"execute", "reconcile"} => job # a
  BY DEF RequestOK, Approved
<1>6. "approved" \in Approved
  BY DEF Approved
<1> HIDE DEF Approves
<1>7. \A j \in Items : Approves(j)' =>
        about'[j] \in Actions /\ request'[about'[j]] \in Approved
  BY <1>2, <1>3, <1>4, <1>6 DEF ApprovalsOK
<1>8. \A j, k \in Items :
        Approves(j)' /\ Approves(k)' /\ about'[j] = about'[k] => j = k
  BY <1>2, <1>3, <1>4 DEF ApprovalsOK
<1>9. \A j \in Items : Approves(j)' /\ j \notin Range(delivered') =>
        /\ request'[about'[j]] = "approved"
        /\ pc' \in {"execute", "reconcile"} => job' # about'[j]
  BY <1>2, <1>3, <1>4, <1>5 DEF ApprovalsOK
<1> QED
  BY <1>7, <1>8, <1>9 DEF ApprovalsOK

(* A command or an event that is no review or resolution. *)
LEMMA CommandInv ==
  ASSUME JourneyInv, NEW i \in Items, NEW x \in Source, Commit(i, x),
         Kind[i] # "approve", TurnStill, UNCHANGED <<facts, provenance, request>>,
         status' \in ProcessStatus, status' # "completed",
         wakes' \subseteq wakes \cup {"operator"},
         interventions' \subseteq interventions, intervened' = intervened
  PROVE  JourneyInv'
<1>1. RowsInv /\ TurnInv /\ delivered' = delivered
  BY DEF JourneyInv, TurnStill
<1>2. request' \in [Actions -> RequestStatus] /\ OutboxOK
  BY <1>1 DEF RowsInv, TablesOK
<1>3. RowsInv'
  BY <1>1, <1>2, CommitRows
<1>4. \A b \in Actions : Moves(b)
  BY DEF Moves
<1>5. ThreadOK' /\ ChainOK' /\ RequestOK'
  BY <1>1, <1>4, CommitTurn
<1>6. ApprovalsOK'
  BY <1>1, <1>2, <1>4, CommitApprovals DEF TurnInv
<1> QED
  BY <1>3, <1>5, <1>6 DEF JourneyInv, TurnInv

(* A review of an action. *)
LEMMA ReviewInv ==
  ASSUME JourneyInv, NEW i \in Items, NEW a \in Actions, Review(i, a)
  PROVE  JourneyInv'
<1>1. /\ RowsInv /\ TurnInv /\ TurnStill /\ delivered' = delivered
      /\ UNCHANGED <<status, wakes, facts, provenance, interventions, intervened>>
      /\ request[a] = "pending_approval" /\ status # "completed"
  BY DEF JourneyInv, Review, Permits, TurnStill, mailbox, thread, process
<1>2. PICK s \in {"approved", "rejected", "superseded", "pending_approval"} :
        /\ request' = [request EXCEPT ![a] = s]
        /\ Kind[i] = "approve" => s = "approved"
        /\ Kind[i] # "approve" => s # "approved"
  BY DEF Review
<1>3. /\ request \in [Actions -> RequestStatus] /\ OutboxOK
      /\ status \in ProcessStatus
  BY <1>1 DEF RowsInv, TablesOK
<1>4. /\ request' \in [Actions -> RequestStatus] /\ request'[a] = s
      /\ \A b \in Actions : b # a => request'[b] = request[b]
  BY <1>2, <1>3 DEF RequestStatus
<1>5. \A b \in Actions : Moves(b)
  <2>1. request[a] \notin Approved
    BY <1>1 DEF Approved
  <2> QED
    BY <1>1, <1>4, <2>1 DEF Moves
<1>6. ThreadOK' /\ ChainOK' /\ RequestOK'
  BY <1>1, <1>5, CommitTurn
<1>7. CASE Kind[i] = "approve"
  <2>1. Commit(i, a) /\ a \in Source
    BY <1>7 DEF Review, Source
  <2>2. RowsInv'
    BY <1>1, <1>3, <1>4, <2>1, CommitRows
  <2>3. ApprovalsOK'
    BY <1>1, <1>2, <1>3, <1>4, <1>7, <2>1, CommitApproval DEF TurnInv
  <2> QED
    BY <1>6, <2>2, <2>3 DEF JourneyInv, TurnInv
<1>8. CASE Kind[i] # "approve"
  <2>1. Commit(i, i) /\ i \in Source
    BY <1>8 DEF Review, Source
  <2>2. RowsInv'
    BY <1>1, <1>3, <1>4, <2>1, CommitRows
  <2>3. \A b \in Actions : request[b] = "approved" => request'[b] = "approved"
    BY <1>1, <1>4
  <2>4. ApprovalsOK'
    BY <1>1, <1>3, <1>5, <1>8, <2>1, <2>3, CommitApprovals DEF TurnInv
  <2> QED
    BY <1>6, <2>2, <2>4 DEF JourneyInv, TurnInv
<1> QED
  BY <1>7, <1>8

(* An operator says what became of an action. *)
LEMMA ResolveUnknownInv ==
  ASSUME JourneyInv, NEW i \in Items, NEW a \in Actions, ResolveUnknown(i, a)
  PROVE  JourneyInv'
<1>1. /\ RowsInv /\ TurnInv /\ TurnStill /\ delivered' = delivered
      /\ UNCHANGED <<status, wakes, facts, provenance, interventions, intervened>>
      /\ request[a] = "unknown" /\ Commit(i, a) /\ Kind[i] # "approve"
  BY DEF JourneyInv, ResolveUnknown, TurnStill, mailbox, thread, process
<1>2. PICK s \in {"succeeded", "failed"} : request' = [request EXCEPT ![a] = s]
  BY DEF ResolveUnknown
<1>3. /\ request \in [Actions -> RequestStatus] /\ OutboxOK
      /\ status \in ProcessStatus /\ a \in Source
  BY <1>1 DEF RowsInv, TablesOK, Source
<1>4. /\ request' \in [Actions -> RequestStatus] /\ request'[a] \in Approved
      /\ \A b \in Actions : b # a => request'[b] = request[b]
  BY <1>2, <1>3 DEF RequestStatus, Approved
<1>5. status # "completed"
  BY <1>1 DEF RowsInv, CompletedIsSettled
<1>6. \A b \in Actions : Moves(b) /\ (request[b] = "approved" =>
                                        request'[b] = "approved")
  BY <1>1, <1>4 DEF Moves
<1>7. RowsInv'
  BY <1>1, <1>3, <1>4, <1>5, CommitRows
<1>8. ThreadOK' /\ ChainOK' /\ RequestOK'
  BY <1>1, <1>6, CommitTurn
<1>9. ApprovalsOK'
  BY <1>1, <1>3, <1>6, CommitApprovals DEF TurnInv
<1> QED
  BY <1>7, <1>8, <1>9 DEF JourneyInv, TurnInv

(* Every step of an operator, a reviewer or an adapter. *)
LEMMA OperatorInv ==
  ASSUME JourneyInv, Operator
  PROVE  JourneyInv'
<1>1. /\ \A i \in Items : Kind[i] \in EventTypes => Kind[i] # "approve"
      /\ status \in ProcessStatus
  BY MailboxAssumption DEF CommandKinds, Reviews, JourneyInv, RowsInv, TablesOK
<1> USE DEF TurnStill, mailbox, thread, process
<1>2. ASSUME NEW i \in Items, Ingest(i) \/ WakeUp(i) PROVE JourneyInv'
  <2>1. /\ Commit(i, i) /\ i \in Source /\ Kind[i] # "approve" /\ TurnStill
        /\ UNCHANGED <<status, wakes, facts, provenance, request,
                       interventions, intervened>>
        /\ status # "completed"
    BY <1>1, <1>2 DEF Ingest, WakeUp, Permits, Source
  <2> QED
    BY <1>1, <2>1, CommandInv
<1>3. ASSUME NEW i \in Items, Takeover(i) \/ Resume(i) PROVE JourneyInv'
  <2>1. /\ Commit(i, i) /\ i \in Source /\ Kind[i] # "approve" /\ TurnStill
        /\ UNCHANGED <<facts, provenance, request, interventions, intervened>>
        /\ status' \in {"paused", "active"} /\ wakes' \subseteq {"operator"}
    BY <1>3 DEF Takeover, Resume, Source
  <2>2. status' \in ProcessStatus /\ status' # "completed"
    BY <2>1 DEF ProcessStatus
  <2> QED
    BY <2>1, <2>2, CommandInv
<1>4. ASSUME NEW i \in Items, NEW v \in interventions, Retry(i, v)
      PROVE  JourneyInv'
  <2>1. /\ Commit(i, v.source) /\ Kind[i] # "approve" /\ TurnStill
        /\ UNCHANGED <<facts, provenance, request>>
        /\ interventions' \subseteq interventions /\ intervened' = intervened
        /\ status' = "active" /\ wakes' = {}
    BY <1>4 DEF Retry
  <2>2. v.source \in Source /\ "active" \in ProcessStatus
    BY DEF JourneyInv, RowsInv, TablesOK, ProcessStatus
  <2> QED
    BY <2>1, <2>2, CommandInv
<1> QED
  BY <1>2, <1>3, <1>4, ReviewInv, ResolveUnknownInv DEF Operator

(* A message is delivered. *)
LEMMA DeliverInv ==
  ASSUME TypeOK, JourneyInv, NEW i \in Items, Deliver(i)
  PROVE  JourneyInv'
<1>1. /\ RowsInv /\ TurnInv /\ i \in Range(committed)
      /\ UNCHANGED <<status, wakes, facts, provenance, request, interventions,
                     intervened,
                     committed, about>>
      /\ UNCHANGED <<pc, depth, todo, results, base, lineage, decision, job,
                     wrote, dropped>>
  BY DEF JourneyInv, Deliver, Receive, Undelivered, rows, process, thread, turn
<1>2. /\ Range(delivered) \subseteq Range(delivered')
      /\ Range(delivered') \subseteq Range(delivered) \cup {i}
  BY AppendFacts DEF TypeOK, Deliver, Receive
<1>3. TablesOK' /\ OutboxOK'
  BY <1>1, <1>2 DEF RowsInv, TablesOK, OutboxOK
<1>4. CompletedIsSettled'
  BY <1>1, <1>2 DEF RowsInv, CompletedIsSettled, Undelivered
<1>5. FactsHaveSources'
  BY <1>1 DEF RowsInv, FactsHaveSources
<1>6. ThreadOK' /\ ChainOK' /\ RequestOK'
  BY <1>1 DEF TurnInv, ThreadOK, ChainOK, RequestOK
<1>7. \A j : Approves(j)' <=> Approves(j)
  BY <1>1 DEF Approves
<1>8. ApprovalsOK'
  <2> HIDE DEF Approves
  <2> QED
    BY <1>1, <1>2, <1>7 DEF TurnInv, ApprovalsOK
<1> QED
  BY <1>3, <1>4, <1>5, <1>6, <1>8 DEF JourneyInv, RowsInv, TurnInv

-----------------------------------------------------------------------------
(* Steps that write the process. *)

(* The innermost turn has a source. *)
LEMMA SourceType ==
  ASSUME TypeOK, ThreadOK
  PROVE  source \in Source /\ turnId \in Nat
<1>1. /\ lineage \in Seq(Source) /\ depth \in Nat /\ Len(lineage) \in Nat
      /\ base \in Nat /\ depth < Len(lineage)
  BY MailboxAssumption DEF ThreadOK, TypeOK
<1>2. depth + 1 \in 1 .. Len(lineage) /\ base + depth \in Nat
  BY <1>1
<1> HIDE DEF Source
<1> QED
  BY <1>1, <1>2 DEF source, turnId

(* The facts after a turn can be traced when those before it could be. *)
LEMMA TracedFacts ==
  ASSUME FactsHaveSources, facts' = FactsAfter(source),
         provenance' = ProvenanceAfter(source)
  PROVE  FactsHaveSources'
<1> SUFFICES ASSUME NEW x \in Slot
             PROVE  IF facts'[x] = NoValue THEN provenance'[x] = NoSource
                    ELSE /\ provenance'[x] \in DOMAIN Observes
                         /\ [kind |-> x[1], key |-> x[2], value |-> facts'[x]]
                              \in Observes[provenance'[x]]
  BY DEF FactsHaveSources
<1>1. CASE \E o \in Observed(source) : <<o.kind, o.key>> = x
  <2> DEFINE o == CHOOSE o \in Observed(source) : <<o.kind, o.key>> = x
  <2>1. o \in Observed(source) /\ <<o.kind, o.key>> = x
    BY <1>1
  <2>2. facts'[x] = o.value /\ provenance'[x] = source
    BY <1>1 DEF FactsAfter, ProvenanceAfter
  <2> HIDE DEF o
  <2>3. source \in DOMAIN Observes /\ o \in Observes[source]
    BY <2>1 DEF Observed
  <2>4. /\ o = [kind |-> o.kind, key |-> o.key, value |-> o.value]
        /\ o.value # NoValue
    BY <2>3, JourneyAssumption
  <2>5. o.kind = x[1] /\ o.key = x[2]
    BY <2>1
  <2> QED
    BY <2>2, <2>3, <2>4, <2>5
<1>2. CASE ~\E o \in Observed(source) : <<o.kind, o.key>> = x
  BY <1>2 DEF FactsAfter, ProvenanceAfter, FactsHaveSources
<1> QED
  BY <1>1, <1>2

(* A turn that completes the process leaves nothing to do. *)
LEMMA CompletingSettles ==
  ASSUME RowsInv, TurnInv, NextStatus(decision) = "completed",
         facts' = FactsAfter(source), UNCHANGED <<request, committed, delivered>>
  PROVE  CompletedIsSettled'
<1>1. Open = {} /\ Satisfied(FactsAfter(source))
  BY DEF NextStatus
<1>2. \A k \in DOMAIN Required : facts'[<<"authoritative", k>>] = Required[k]
  BY <1>1 DEF Satisfied
<1>3. ASSUME NEW a \in Actions
      PROVE  request'[a] \in {"none", "denied", "rejected", "superseded",
                              "succeeded", "failed"}
  <2>1. request[a] \in RequestStatus
    BY DEF RowsInv, TablesOK
  <2> QED
    BY <1>1, <2>1 DEF Open, RequestStatus
<1>4. ASSUME NEW i \in Undelivered', Kind[i] = "approve" PROVE FALSE
  <2>1. i \in Items /\ Approves(i) /\ i \notin Range(delivered)
    BY <1>4, RangeSeq DEF Undelivered, Approves, RowsInv, OutboxOK
  <2>2. request[about[i]] = "approved" /\ about[i] \in Actions
    BY <2>1 DEF TurnInv, ApprovalsOK
  <2> QED
    BY <1>1, <2>2 DEF Open
<1> QED
  BY <1>2, <1>3, <1>4 DEF CompletedIsSettled

(* The state of the process is written. *)
LEMMA WriteStateInv ==
  ASSUME TypeOK, JourneyInv, WriteState
  PROVE  JourneyInv'
<1>1. /\ RowsInv /\ TurnInv /\ pc = "state" /\ wrote'
      /\ UNCHANGED <<request, interventions, intervened, committed, about,
                     delivered>>
      /\ UNCHANGED <<pc, depth, todo, results, base, lineage, decision, job>>
      /\ dropped' \subseteq dropped
  BY DEF JourneyInv, WriteState, mailbox
<1>2. /\ facts' = FactsAfter(source) /\ provenance' = ProvenanceAfter(source)
      /\ status' = NextStatus(decision) /\ wakes' = EffectiveWakes(decision)
      /\ status' # "rejected"
  BY DEF WriteState, ApplyDecision
<1>3. TablesOK'
  <2>1. status' \in ProcessStatus
    BY <1>2 DEF NextStatus, ProcessStatus
  <2>2. decision.waits \subseteq EventTypes \cup {"timer", "human"}
    BY <1>1 DEF TurnInv, ThreadOK, Decision, NoDecision
  <2>3. wakes' \subseteq EventTypes \cup {"timer", "human", "approval", "operator"}
    BY <1>2, <2>2 DEF EffectiveWakes
  <2>4. source \in Source
    BY <1>1, SourceType DEF TurnInv
  <2>5. provenance' \in [Slot -> Source]
    <3>1. provenance \in [Slot -> Source]
      BY <1>1 DEF RowsInv, TablesOK
    <3> HIDE DEF Source, Slot, source
    <3> QED
      BY <1>2, <2>4, <3>1 DEF ProvenanceAfter
  <2>6. /\ request' \in [Actions -> RequestStatus]
        /\ \A v \in interventions' : v.turn \in Nat /\ v.source \in Source
        /\ intervened' \subseteq Nat
    BY <1>1 DEF RowsInv, TablesOK
  <2> QED
    BY <2>1, <2>3, <2>5, <2>6 DEF TablesOK
<1>4. OutboxOK'
  BY <1>1 DEF RowsInv, OutboxOK
<1>5. CompletedIsSettled'
  <2>1. CASE status' = "completed"
    BY <1>1, <1>2, <2>1, CompletingSettles
  <2>2. CASE status' # "completed"
    BY <2>2 DEF CompletedIsSettled
  <2> QED
    BY <2>1, <2>2
<1>6. FactsHaveSources'
  BY <1>1, <1>2, TracedFacts DEF RowsInv
<1>7. ThreadOK'
  BY <1>1 DEF TurnInv, ThreadOK
<1>8. ChainOK'
  BY <1>1 DEF TurnInv, ChainOK
<1>9. RequestOK'
  BY <1>1 DEF TurnInv, RequestOK
<1>10. ApprovalsOK'
  BY <1>1, RequestApprovals DEF TurnInv
<1> QED
  BY <1>3, <1>4, <1>5, <1>6, <1>7, <1>8, <1>9, <1>10
     DEF JourneyInv, RowsInv, TurnInv

(* An intervention is written. *)
LEMMA WriteInterventionInv ==
  ASSUME TypeOK, JourneyInv, WriteIntervention
  PROVE  JourneyInv'
<1>1. /\ RowsInv /\ TurnInv /\ pc \in {"limit", "failure"} /\ wrote'
      /\ UNCHANGED <<facts, provenance, request, committed, about, delivered>>
      /\ UNCHANGED <<pc, depth, todo, results, base, lineage, decision, job,
                     dropped>>
  BY DEF JourneyInv, WriteIntervention, mailbox
<1>2. PICK s \in Source : RecordIntervention(s)
  <2>1. source \in Source /\ job \in Source
    BY <1>1, SourceType DEF TurnInv, ThreadOK, Source
  <2> QED
    BY <2>1 DEF WriteIntervention
<1>3. /\ status' \in {status, "review"} /\ wakes' \subseteq wakes \cup {"operator"}
      /\ status = "completed" => status' = status
      /\ status' = "completed" => status = "completed"
  BY <1>2 DEF RecordIntervention, Permits
<1>4. /\ interventions' \subseteq interventions
                            \cup [turn : {turnId}, source : {s}]
      /\ intervened' \subseteq intervened \cup {turnId}
  BY <1>2 DEF RecordIntervention
<1>5. TablesOK'
  <2>1. turnId \in Nat
    BY <1>1, SourceType DEF TurnInv
  <2>2. \A v \in interventions' : v.turn \in Nat /\ v.source \in Source
    <3>1. \A v \in interventions : v.turn \in Nat /\ v.source \in Source
      BY <1>1 DEF RowsInv, TablesOK
    <3> HIDE DEF Source, turnId
    <3> QED
      BY <1>2, <1>4, <2>1, <3>1
  <2>3. intervened' \subseteq Nat
    BY <1>1, <1>4, <2>1 DEF RowsInv, TablesOK
  <2>4. /\ status' \in ProcessStatus /\ wakes' \subseteq EventTypes \cup
             {"timer", "human", "approval", "operator"}
    BY <1>1, <1>3 DEF RowsInv, TablesOK, ProcessStatus
  <2> QED
    BY <1>1, <2>2, <2>3, <2>4 DEF RowsInv, TablesOK
<1>6. OutboxOK' /\ CompletedIsSettled' /\ FactsHaveSources'
  BY <1>1, <1>3
     DEF RowsInv, OutboxOK, CompletedIsSettled, Undelivered, FactsHaveSources
<1>7. ThreadOK'
  BY <1>1 DEF TurnInv, ThreadOK
<1>8. ChainOK'
  BY <1>1 DEF TurnInv, ChainOK
<1>9. RequestOK'
  BY <1>1 DEF RequestOK
<1>10. ApprovalsOK'
  BY <1>1, RequestApprovals DEF TurnInv
<1> QED
  BY <1>5, <1>6, <1>7, <1>8, <1>9, <1>10 DEF JourneyInv, RowsInv, TurnInv

-----------------------------------------------------------------------------
(* The theorems. *)

(* Initially there is no row but the process's. *)
LEMMA JourneyInitInv == JourneyInit => JourneyInv
<1> SUFFICES ASSUME JourneyInit PROVE JourneyInv
  OBVIOUS
<1>1. /\ status = "active" /\ wakes = {}
      /\ facts = [x \in Slot |-> NoValue]
      /\ provenance = [x \in Slot |-> NoSource]
      /\ request = [a \in Actions |-> "none"]
      /\ interventions = {} /\ intervened = {}
      /\ committed = <<>> /\ delivered = <<>>
      /\ about = [i \in Items |-> NoSource]
      /\ base = 0 /\ lineage = <<NoSource>> /\ decision = NoDecision
      /\ wrote = FALSE /\ job = NoSource /\ dropped = {}
      /\ pc = "prestart" /\ depth = 0 /\ todo = 0 /\ results = FALSE
  BY DEF JourneyInit, Init
<1>2. NoSource \in Source
  BY DEF Source
<1>3. Range(committed) = {} /\ Range(delivered) = {} /\ committed \in Seq(Items)
  BY <1>1 DEF Range
<1>4. TablesOK
  <2> HIDE DEF Source, Slot
  <2> QED
    BY <1>1, <1>2 DEF TablesOK, ProcessStatus, RequestStatus
<1>5. OutboxOK
  <2> HIDE DEF Source
  <2> QED
    BY <1>1, <1>2, <1>3 DEF OutboxOK
<1>6. CompletedIsSettled /\ FactsHaveSources
  BY <1>1 DEF CompletedIsSettled, FactsHaveSources
<1>7. ThreadOK
  <2>1. lineage \in Seq(Source) /\ depth < Len(lineage)
    <3> HIDE DEF Source
    <3> QED
      BY <1>1, <1>2
  <2> QED
    BY <1>1, <2>1 DEF ThreadOK, NoDecision
<1>8. ChainOK /\ RequestOK
  BY <1>1 DEF ChainOK, RequestOK
<1>9. ApprovalsOK
  BY <1>3 DEF ApprovalsOK, Approves
<1> QED
  BY <1>4, <1>5, <1>6, <1>7, <1>8, <1>9 DEF JourneyInv, RowsInv, TurnInv

(* Every step keeps the invariant. *)
LEMMA JourneyNextInv ==
  TypeOK /\ Inv /\ JourneyInv /\ [JourneyNext]_journey => JourneyInv'
<1> SUFFICES ASSUME TypeOK, Inv, JourneyInv, [JourneyNext]_journey
             PROVE  JourneyInv'
  OBVIOUS
<1>1. CASE Workflow
  BY <1>1, HousekeepingInv, WakeByInv, AgentReturnsInv, WriteActionsInv,
     ActionsReturnInv, WriteStateInv, StateReturnsInv, TurnFailsInInv,
     ExecutingInv, SettlesInv, ExecuteLostInv, ExecuteIncompatibleInv,
     WriteInterventionInv, InterventionEndsInv DEF Workflow
<1>2. CASE UNCHANGED journey
  <2>1. /\ RowsStill /\ RowsInv /\ TurnInv /\ request' = request
        /\ UNCHANGED <<pc, depth, todo, results, base, lineage, decision, job,
                       wrote, dropped>>
    BY <1>2 DEF journey, mailbox, thread, rows, RowsStill, JourneyInv
  <2>2. ThreadOK' /\ ChainOK' /\ RequestOK'
    BY <2>1 DEF TurnInv, ThreadOK, ChainOK, RequestOK
  <2>3. ApprovalsOK'
    BY <2>1, StillApprovals DEF TurnInv
  <2> QED
    BY <2>1, <2>2, <2>3, StillRows DEF JourneyInv, TurnInv
<1> QED
  BY <1>1, <1>2, OperatorInv, DeliverInv, LateSettlesInv DEF JourneyNext

(* The rows of a process agree with one another, whatever operators,       *)
(* reviewers and adapters commit between any two steps of its turns, in    *)
(* whatever order the outbox delivers it, and whichever activity fails or  *)
(* is lost: they are well formed; a completed process has its required     *)
(* facts, no open request and no approval on its way (state.py, gateway.py,*)
(* control.py); and each fact is one its recorded source observed.         *)
THEOREM ProcessRowsAgree == JourneySpec => []RowsAgree
<1>1. JourneyInv => RowsAgree
  BY DEF JourneyInv, RowsInv, TurnInv, RowsAgree, JourneyTypeOK, TablesOK,
         OutboxOK, ThreadOK
<1> QED
  BY <1>1, JourneyInitInv, JourneyNextInv, JourneyRunsTheMailbox, Invariance,
     PTL DEF JourneySpec

-----------------------------------------------------------------------------
(* What the process waits for.                                             *)

(* Commands that the mailbox has yet to act upon. *)
Pending == {i \in Range(committed) \ Range(taken) : Kind[i] \in CommandKinds}

(* i was committed before j. *)
Sooner(i, j) ==
  \E m, n \in 1 .. Len(committed) :
    m < n /\ committed[m] = i /\ committed[n] = j

(* Messages are delivered in the order in which they are committed. *)
FifoOK ==
  /\ Distinct(committed)
  /\ Len(delivered) <= Len(committed)
  /\ \A n \in 1 .. Len(delivered) : delivered[n] = committed[n]

(* What ends a pause comes after it, in the mailbox too. *)
PausesOK ==
  /\ status = "paused" => wakes = {"operator"}
  /\ \A i \in Pending : Kind[i] = "takeover" =>
       \/ status = "paused"
       \/ \E j \in Pending : Kind[j] \in {"retry", "manual_wake"} /\ Sooner(i, j)

(* A mailbox that has not started has done nothing. *)
StartedOK ==
  /\ pc = "prestart" =>
       /\ plan = NoPlan
       /\ carried.started \/ (taken = <<>> /\ carried.plan = NoPlan)
  /\ pc # "prestart" =>
       started \/ (taken = <<>> /\ plan = NoPlan /\ pc \in {"loop", "over"})

(* The turn's own allowed action, which is executed next. *)
AtHand(a) ==
  /\ a = job
  /\ \/ pc = "execute"
     \/ /\ decision.act = "allow"
        /\ pc = "state" \/ (pc = "actions" /\ wrote)

(* An action under way is executed next, waits for the mailbox to hear of  *)
(* its approval, or is given up on.                                        *)
OpenOK ==
  \A a \in Actions : request[a] \in {"allowed", "approved", "executing"} =>
    \/ a \in dropped
    \/ AtHand(a)
    \/ \E i \in Pending : Kind[i] = "approve" /\ about[i] = a

(* The decision that is written was valid, and its action is allowed or    *)
(* under review, unless a reviewer has said something since.               *)
DecisionOK ==
  pc \in {"actions", "state"} =>
    /\ decision \in Decision
    /\ decision.status = "waiting" => decision.waits # {}
    /\ decision.status = "active" => decision.act # "none" \/ decision.waits # {}
    /\ "human" \in decision.waits => decision.act = "require_approval"
    /\ pc = "state" /\ decision.act = "allow" => todo = 1
    /\ pc = "state" \/ wrote =>
         (decision.act = "require_approval" =>
            request[job] = "pending_approval" \/ Pending # {})

(* The interventions of a chain are of its innermost turns: there is none  *)
(* while it goes well, and one of the turn at hand only after it failed.   *)
InterventionsOK ==
  /\ \A t \in intervened : t < base + Len(lineage)
  /\ (\/ pc \in {"agent", "actions", "state"}
        \/ (pc \in {"execute", "reconcile"} /\ ~direct))
     => \A t \in intervened : t < base
  /\ pc \in {"limit", "failure"} =>
       /\ \A t \in intervened : t < base \/ t >= turnId
       /\ (turnId \in intervened /\ Pending = {}
           /\ status # "completed") => wakes = {"operator"}

(* A wake plan is the one of the rows. *)
Matches(p) ==
  /\ p.events = wakes \cap EventTypes
  /\ p.timer # "none" <=> "timer" \in wakes

(* Something, or somebody, will wake the process. *)
Moving ==
  \/ wakes \cap EventTypes # {} \/ "timer" \in wakes \/ "operator" \in wakes
  \/ NeedsHuman # {}

Waits(p) == Matches(p) /\ ("deny" \notin Outcomes => Moving)

(* Where the mailbox has, or is about to get, its wake plan. *)
RestOK ==
  status # "completed" /\ Pending = {} /\ dropped = {} =>
    /\ pc = "loop" /\ ~closed /\ started => Waits(plan)
    /\ pc = "prestart" /\ carried.started => Waits(carried.plan)
    /\ pc = "state" /\ wrote =>
         Matches(revision) /\ (todo = 0 => Waits(revision))
    /\ pc \in {"limit", "failure"} /\ wrote => wakes = {"operator"}

WaitInv == /\ FifoOK /\ PausesOK /\ StartedOK /\ OpenOK /\ DecisionOK
           /\ InterventionsOK /\ RestOK

(* Nothing is acted upon that was not delivered, and nothing delivered     *)
(* that was not committed.                                                 *)
LEMMA TakenIsCommitted ==
  ASSUME Inv, OutboxOK
  PROVE  /\ Range(taken) \subseteq Range(delivered)
         /\ Range(taken) \subseteq Range(committed)
         /\ Range(committed) \subseteq Items
         /\ pc # "prestart" =>
              \A i \in Range(buffer) : i \notin Range(taken)
                                       /\ i \in Range(committed)
<1>1. Range(taken) \subseteq Range(delivered)
  BY DEF Inv, Books
<1>2. Range(committed) \subseteq Items
  BY RangeSeq DEF OutboxOK
<1>3. pc # "prestart" =>
        \A i \in Range(buffer) : i \notin Range(taken) /\ i \in Range(delivered)
  BY DEF Inv, Books
<1> QED
  BY <1>1, <1>2, <1>3 DEF OutboxOK

(* What interrupts a turn is a command, or the mailbox is closed. *)
LEMMA PreemptedPending ==
  ASSUME Inv, OutboxOK, Preempted, pc # "prestart", ~closed
  PROVE  Pending # {}
<1>1. PICK i \in Range(buffer) : Kind[i] \in {"takeover"}
  BY DEF Preempted, Buffered
<1>2. i \in Pending
  BY <1>1, TakenIsCommitted DEF Pending, CommandKinds, Controls
<1> QED
  BY <1>2

(* A message is committed: commands are pending. *)
LEMMA CommitPending ==
  ASSUME Inv, OutboxOK, NEW i \in Items, NEW x \in Source, Commit(i, x),
         delivered' = delivered, taken' = taken
  PROVE  /\ Kind[i] \in CommandKinds => Pending' = Pending \cup {i}
         /\ Kind[i] \notin CommandKinds => Pending' = Pending
         /\ i \notin Pending
         /\ \A j \in Pending : about'[j] = about[j]
         /\ about'[i] = x
<1>1. /\ OutboxOK' /\ i \notin Range(committed)
      /\ Range(committed') = Range(committed) \cup {i}
      /\ about'[i] = x /\ \A j \in Items : j # i => about'[j] = about[j]
  BY CommitFacts
<1>2. Range(taken) \subseteq Range(committed) /\ Range(committed) \subseteq Items
  BY TakenIsCommitted
<1> QED
  BY <1>1, <1>2 DEF Pending

(* It comes after every other one. *)
LEMMA CommitOrder ==
  ASSUME OutboxOK, FifoOK, NEW i \in Items, NEW x \in Source, Commit(i, x),
         delivered' = delivered, Len(delivered) \in Nat
  PROVE  /\ FifoOK'
         /\ \A j, k : Sooner(j, k) => Sooner(j, k)'
         /\ \A j \in Range(committed) : Sooner(j, i)'
<1>1. committed \in Seq(Items) /\ Len(committed) \in Nat
  BY DEF OutboxOK
<1>2. i \notin Range(committed) /\ committed' = Append(committed, i)
  BY DEF Commit
<1>3. /\ Len(committed') = Len(committed) + 1 /\ committed' \in Seq(Items)
      /\ \A m \in 1 .. Len(committed) : committed'[m] = committed[m]
      /\ committed'[Len(committed) + 1] = i
  BY <1>1, <1>2, AppendFacts
<1>4. Distinct(committed')
  BY <1>1, <1>2, AppendDistinct DEF FifoOK
<1>5. FifoOK'
  <2>1. Len(delivered) <= Len(committed')
    BY <1>1, <1>3 DEF FifoOK
  <2>2. ASSUME NEW n \in 1 .. Len(delivered)
        PROVE  delivered[n] = committed'[n]
    <3>1. n \in 1 .. Len(committed)
      BY <1>1 DEF FifoOK
    <3> QED
      BY <1>3, <3>1 DEF FifoOK
  <2> QED
    BY <1>4, <2>1, <2>2 DEF FifoOK
<1>6. ASSUME NEW j, NEW k, Sooner(j, k) PROVE Sooner(j, k)'
  <2>1. PICK m, n \in 1 .. Len(committed) :
          m < n /\ committed[m] = j /\ committed[n] = k
    BY <1>6 DEF Sooner
  <2>2. m \in 1 .. Len(committed') /\ n \in 1 .. Len(committed')
    BY <1>1, <1>3
  <2> QED
    BY <1>3, <2>1, <2>2 DEF Sooner
<1>7. ASSUME NEW j \in Range(committed) PROVE Sooner(j, i)'
  <2>1. PICK m \in 1 .. Len(committed) : committed[m] = j
    BY <1>1, RangeSeq
  <2>2. /\ m \in 1 .. Len(committed') /\ Len(committed) + 1 \in 1 .. Len(committed')
        /\ m < Len(committed) + 1
    BY <1>1, <1>3
  <2> QED
    BY <1>3, <2>1, <2>2 DEF Sooner
<1> QED
  BY <1>5, <1>6, <1>7

(* A command is committed: something is pending, so the mailbox is not at  *)
(* rest.                                                                   *)
LEMMA CommandWait ==
  ASSUME Inv, JourneyInv, WaitInv, NEW i \in Items, NEW x \in Source,
         Commit(i, x), Kind[i] \in CommandKinds, UNCHANGED <<mailbox, thread>>,
         intervened' = intervened,
         \A a \in Actions : request'[a] \in {"allowed", "approved", "executing"} =>
           request'[a] = request[a] \/ (Kind[i] = "approve" /\ x = a),
         PausesOK'
  PROVE  WaitInv'
<1>1. /\ UNCHANGED <<carried, started, plan, closed, pc, direct, depth, todo,
                     delivered, taken>>
      /\ UNCHANGED <<base, lineage, decision, wrote, revision, job, dropped>>
  BY DEF mailbox, thread
<1>2. Pending' = Pending \cup {i} /\ about'[i] = x
      /\ \A j \in Pending : about'[j] = about[j]
  BY <1>1, CommitPending DEF JourneyInv, RowsInv
<1>3. FifoOK'
  <2>1. delivered \in Seq(Items)
    BY DEF Inv, AreSequences
  <2> QED
    BY <1>1, <2>1, CommitOrder DEF WaitInv, JourneyInv, RowsInv
<1>4. StartedOK'
  BY <1>1 DEF WaitInv, StartedOK
<1>5. OpenOK'
  <2> SUFFICES ASSUME NEW a \in Actions,
                      request'[a] \in {"allowed", "approved", "executing"}
               PROVE  \/ a \in dropped'
                      \/ AtHand(a)'
                      \/ \E j \in Pending' : Kind[j] = "approve" /\ about'[j] = a
    BY DEF OpenOK
  <2>1. CASE request'[a] = request[a]
    <3>1. \/ a \in dropped
          \/ AtHand(a)
          \/ \E j \in Pending : Kind[j] = "approve" /\ about[j] = a
      BY <2>1 DEF WaitInv, OpenOK
    <3> QED
      BY <1>1, <1>2, <3>1 DEF AtHand
  <2>2. CASE Kind[i] = "approve" /\ x = a
    BY <1>2, <2>2
  <2> QED
    BY <2>1, <2>2
<1>6. DecisionOK'
  BY <1>1, <1>2 DEF WaitInv, DecisionOK
<1>7. InterventionsOK'
  BY <1>1, <1>2 DEF WaitInv, InterventionsOK, turnId
<1>8. RestOK'
  BY <1>2 DEF RestOK
<1> QED
  BY <1>3, <1>4, <1>5, <1>6, <1>7, <1>8 DEF WaitInv

(* The pauses, when the status does not change. *)
LEMMA CommandPauses ==
  ASSUME Inv, JourneyInv, WaitInv, NEW i \in Items, NEW x \in Source,
         Commit(i, x), Kind[i] # "takeover",
         UNCHANGED <<delivered, taken, status, wakes>>
  PROVE  PausesOK'
<1>1. OutboxOK /\ FifoOK /\ PausesOK /\ Len(delivered) \in Nat
  BY DEF JourneyInv, RowsInv, WaitInv, Inv, AreSequences
<1>2. Pending' \subseteq Pending \cup {i} /\ Pending \subseteq Pending'
  BY <1>1, CommitPending
<1>3. \A j, k : Sooner(j, k) => Sooner(j, k)'
  BY <1>1, CommitOrder
<1> HIDE DEF Sooner
<1> QED
  BY <1>1, <1>2, <1>3 DEF PausesOK

(* What ends a pause is committed after what began it. *)
LEMMA ResumePauses ==
  ASSUME Inv, JourneyInv, WaitInv, NEW i \in Items, NEW x \in Source,
         Commit(i, x), Kind[i] \in {"retry", "manual_wake"},
         UNCHANGED <<delivered, taken>>, status' # "paused"
  PROVE  PausesOK'
<1>1. OutboxOK /\ FifoOK /\ Len(delivered) \in Nat
  BY DEF JourneyInv, RowsInv, WaitInv, Inv, AreSequences
<1>2. Pending' = Pending \cup {i}
  BY <1>1, CommitPending DEF CommandKinds, Controls
<1>3. \A j \in Range(committed) : Sooner(j, i)'
  BY <1>1, CommitOrder
<1>4. \A j \in Pending : j \in Range(committed)
  BY DEF Pending
<1> HIDE DEF Sooner
<1> QED
  BY <1>2, <1>3, <1>4 DEF PausesOK

(* Every step of an operator, a reviewer or an adapter. *)
LEMMA OperatorWait ==
  ASSUME Inv, JourneyInv, WaitInv, Operator
  PROVE  WaitInv'
<1>1. \A j \in Items : j \in Source
  BY DEF Source
<1>2. \A a \in Actions : a \in Source
  BY DEF Source
<1>3. ASSUME UNCHANGED <<mailbox, thread>>
      PROVE  UNCHANGED <<delivered, taken>>
  BY <1>3 DEF mailbox
<1>4. ASSUME NEW i \in Items, Ingest(i) PROVE WaitInv'
  <2>1. /\ Commit(i, i) /\ UNCHANGED <<mailbox, thread>>
        /\ UNCHANGED <<status, wakes, request, intervened>>
        /\ Kind[i] \notin CommandKinds /\ Kind[i] # "takeover"
    BY <1>4, MailboxAssumption
       DEF Ingest, process, CommandKinds, Controls
  <2>2. /\ UNCHANGED <<carried, started, plan, closed, pc, direct, depth, todo,
                       delivered, taken>>
        /\ UNCHANGED <<base, lineage, decision, wrote, revision, job, dropped>>
    BY <2>1 DEF mailbox, thread
  <2>3. Pending' = Pending /\ \A j \in Pending : about'[j] = about[j]
    BY <1>1, <2>1, <2>2, CommitPending DEF JourneyInv, RowsInv
  <2>4. FifoOK'
    <3>1. delivered \in Seq(Items)
      BY DEF Inv, AreSequences
    <3> QED
      BY <1>1, <2>1, <2>2, <3>1, CommitOrder DEF WaitInv, JourneyInv, RowsInv
  <2>5. PausesOK'
    BY <1>1, <2>1, <2>2, CommandPauses
  <2>6. StartedOK' /\ DecisionOK'
    BY <2>1, <2>2, <2>3 DEF WaitInv, StartedOK, DecisionOK
  <2>7. OpenOK'
    BY <2>1, <2>2, <2>3 DEF WaitInv, OpenOK, AtHand
  <2>8. InterventionsOK'
    BY <2>1, <2>2, <2>3 DEF WaitInv, InterventionsOK, turnId
  <2>9. RestOK'
    BY <2>1, <2>2, <2>3 DEF WaitInv, RestOK, Waits, Matches, Moving, NeedsHuman
  <2> QED
    BY <2>4, <2>5, <2>6, <2>7, <2>8, <2>9 DEF WaitInv
<1>5. ASSUME NEW i \in Items, WakeUp(i) PROVE WaitInv'
  <2>1. /\ Commit(i, i) /\ UNCHANGED <<mailbox, thread>>
        /\ UNCHANGED <<status, wakes, request, intervened>>
        /\ Kind[i] \in CommandKinds /\ Kind[i] # "takeover"
    BY <1>5 DEF WakeUp, process, CommandKinds
  <2>2. PausesOK'
    BY <1>1, <1>3, <2>1, CommandPauses
  <2> QED
    BY <1>1, <2>1, <2>2, CommandWait
<1>6. ASSUME NEW i \in Items, Takeover(i) PROVE WaitInv'
  <2>1. /\ Commit(i, i) /\ UNCHANGED <<mailbox, thread>>
        /\ UNCHANGED <<request, intervened>>
        /\ Kind[i] \in CommandKinds
        /\ status' = "paused" /\ wakes' = {"operator"}
    BY <1>6 DEF Takeover, CommandKinds, Controls, thread
  <2>2. PausesOK'
    BY <2>1 DEF PausesOK
  <2> QED
    BY <1>1, <2>1, <2>2, CommandWait
<1>7. ASSUME NEW i \in Items, Resume(i) PROVE WaitInv'
  <2>1. /\ Commit(i, i) /\ UNCHANGED <<mailbox, thread>>
        /\ UNCHANGED <<request, intervened>>
        /\ Kind[i] \in CommandKinds /\ Kind[i] \in {"retry", "manual_wake"}
        /\ status' # "paused"
    BY <1>7 DEF Resume, CommandKinds
  <2>2. PausesOK'
    BY <1>1, <1>3, <2>1, ResumePauses
  <2> QED
    BY <1>1, <2>1, <2>2, CommandWait
<1>8. ASSUME NEW i \in Items, NEW v \in interventions, Retry(i, v)
      PROVE  WaitInv'
  <2>1. /\ Commit(i, v.source) /\ UNCHANGED <<mailbox, thread>>
        /\ UNCHANGED request /\ intervened' = intervened
        /\ Kind[i] \in CommandKinds /\ Kind[i] \in {"retry", "manual_wake"}
        /\ status' # "paused"
    BY <1>8 DEF Retry, CommandKinds, Controls
  <2>2. v.source \in Source
    BY DEF JourneyInv, RowsInv, TablesOK
  <2>3. PausesOK'
    BY <1>3, <2>1, <2>2, ResumePauses
  <2> QED
    BY <2>1, <2>2, <2>3, CommandWait
<1>9. ASSUME NEW i \in Items, NEW a \in Actions, Review(i, a) PROVE WaitInv'
  <2>1. PICK x \in Source :
          Commit(i, x) /\ (Kind[i] = "approve" => x = a)
    BY <1>1, <1>2, <1>9 DEF Review
  <2>2. /\ UNCHANGED <<mailbox, thread>>
        /\ UNCHANGED <<status, wakes, intervened>>
        /\ Kind[i] \in CommandKinds /\ Kind[i] # "takeover"
    BY <1>9 DEF Review, process, CommandKinds, Reviews
  <2>3. ASSUME NEW b \in Actions,
               request'[b] \in {"allowed", "approved", "executing"}
        PROVE  request'[b] = request[b] \/ (Kind[i] = "approve" /\ x = b)
    <3>1. request \in [Actions -> RequestStatus]
      BY DEF JourneyInv, RowsInv, TablesOK
    <3> QED
      BY <1>9, <2>1, <2>3, <3>1 DEF Review
  <2>4. PausesOK'
    BY <1>3, <2>1, <2>2, CommandPauses
  <2> QED
    BY <2>1, <2>2, <2>3, <2>4, CommandWait
<1>10. ASSUME NEW i \in Items, NEW a \in Actions, ResolveUnknown(i, a)
       PROVE  WaitInv'
  <2>1. /\ Commit(i, a) /\ UNCHANGED <<mailbox, thread>>
        /\ UNCHANGED <<status, wakes, intervened>>
        /\ Kind[i] \in CommandKinds /\ Kind[i] # "takeover"
    BY <1>10 DEF ResolveUnknown, process, CommandKinds
  <2>2. ASSUME NEW b \in Actions,
               request'[b] \in {"allowed", "approved", "executing"}
        PROVE  request'[b] = request[b]
    <3>1. request \in [Actions -> RequestStatus]
      BY DEF JourneyInv, RowsInv, TablesOK
    <3> QED
      BY <1>10, <2>2, <3>1 DEF ResolveUnknown
  <2>3. PausesOK'
    BY <1>2, <1>3, <2>1, CommandPauses
  <2> QED
    BY <1>2, <2>1, <2>2, <2>3, CommandWait
<1> QED
  BY <1>4, <1>5, <1>6, <1>7, <1>8, <1>9, <1>10 DEF Operator

(* The dispatcher delivers the next message. *)
LEMMA DeliverWait ==
  ASSUME Inv, JourneyInv, WaitInv, ~Reordered, NEW i \in Items, Deliver(i)
  PROVE  WaitInv'
<1>1. /\ UNCHANGED <<status, wakes, request, intervened, committed, about>>
      /\ UNCHANGED <<carried, started, plan, closed, pc, direct, depth, todo,
                     taken>>
      /\ UNCHANGED <<base, lineage, decision, wrote, revision, job, dropped>>
  BY DEF Deliver, Receive, rows, process, thread, turn
<1>2. Pending' = Pending
  BY <1>1 DEF Pending
<1>3. FifoOK'
  <2>1. /\ i \in Range(committed) /\ i \notin Range(delivered)
        /\ i = committed[Len(delivered) + 1]
        /\ delivered' = Append(delivered, i)
    BY DEF Deliver, Undelivered, Receive
  <2>2. delivered \in Seq(Items) /\ committed \in Seq(Items)
    BY DEF Inv, AreSequences, JourneyInv, RowsInv, OutboxOK
  <2>3. /\ Len(delivered) \in Nat /\ Len(committed) \in Nat
        /\ Len(delivered') = Len(delivered) + 1
        /\ \A n \in 1 .. Len(delivered) : delivered'[n] = delivered[n]
        /\ delivered'[Len(delivered) + 1] = i
    BY <2>1, <2>2, AppendFacts
  <2>4. /\ Distinct(committed) /\ Len(delivered) <= Len(committed)
        /\ \A n \in 1 .. Len(delivered) : delivered[n] = committed[n]
    BY DEF WaitInv, FifoOK
  <2>5. Len(delivered) # Len(committed)
    <3> SUFFICES ASSUME Len(delivered) = Len(committed) PROVE FALSE
      OBVIOUS
    <3>1. PICK n \in 1 .. Len(committed) : committed[n] = i
      BY <2>1, <2>2, RangeSeq
    <3>2. n \in 1 .. Len(delivered) /\ delivered[n] = i
      BY <2>4, <3>1
    <3> QED
      BY <2>1, <2>2, <3>2, RangeSeq
  <2>6. ASSUME NEW n \in 1 .. Len(delivered')
        PROVE  delivered'[n] = committed[n]
    <3>1. n \in 1 .. Len(delivered) \/ n = Len(delivered) + 1
      BY <2>3
    <3> QED
      BY <2>1, <2>3, <2>4, <3>1
  <2>7. Len(delivered') <= Len(committed)
    BY <2>3, <2>4, <2>5
  <2> QED
    BY <1>1, <2>4, <2>6, <2>7 DEF FifoOK
<1>4. PausesOK'
  BY <1>1, <1>2 DEF WaitInv, PausesOK, Sooner
<1>5. StartedOK' /\ DecisionOK'
  BY <1>1, <1>2 DEF WaitInv, StartedOK, DecisionOK
<1>6. OpenOK'
  BY <1>1, <1>2 DEF WaitInv, OpenOK, AtHand
<1>7. InterventionsOK'
  BY <1>1, <1>2 DEF WaitInv, InterventionsOK, turnId
<1>8. RestOK'
  BY <1>1, <1>2 DEF WaitInv, RestOK, Waits, Matches, Moving, NeedsHuman
<1> QED
  BY <1>3, <1>4, <1>5, <1>6, <1>7, <1>8 DEF WaitInv

(* Steps of the workflow that take up no item, and write neither the       *)
(* status nor the wake conditions.                                         *)
WaitStill ==
  /\ UNCHANGED <<status, wakes, intervened, committed, about>>
  /\ UNCHANGED <<delivered, taken>>

(* What they leave as it was. *)
LEMMA StillWait ==
  ASSUME WaitInv, WaitStill
  PROVE  Pending' = Pending /\ FifoOK' /\ PausesOK'
<1>1. Pending' = Pending
  BY DEF WaitStill, Pending
<1>2. FifoOK' /\ PausesOK'
  BY <1>1 DEF WaitInv, WaitStill, FifoOK, PausesOK, Sooner
<1> QED
  BY <1>1, <1>2

(* Rollover and time: the wake plan is kept. *)
LEMMA HousekeepingWait ==
  ASSUME TypeOK, Inv, JourneyInv, WaitInv, Housekeeping
  PROVE  WaitInv'
<1>1. /\ WaitStill /\ UNCHANGED <<closed, direct, depth, todo, request>>
      /\ UNCHANGED <<base, lineage, decision, wrote, revision, job, dropped>>
  BY DEF Housekeeping, TimerDue, Restore, ContinueAsNew, Finish, turn, input,
         rows, process, thread, WaitStill
<1>2. Pending' = Pending /\ FifoOK' /\ PausesOK'
  BY <1>1, StillWait
<1>3. \/ pc' = pc
      \/ pc = "prestart" /\ pc' = "loop"
      \/ pc = "loop" /\ pc' \in {"prestart", "over"}
  BY DEF Housekeeping, TimerDue, Restore, ContinueAsNew, Finish
<1>4. StartedOK'
  <2> USE DEF WaitInv, StartedOK, NoPlan
  <2>1. CASE TimerDue
    BY <2>1, <1>1 DEF TimerDue, WaitStill
  <2>2. CASE Restore
    BY <2>2, <1>1 DEF Restore, WaitStill
  <2>3. CASE ContinueAsNew
    BY <2>3, <1>1 DEF ContinueAsNew, WaitStill
  <2>4. CASE Finish
    BY <2>4, <1>1 DEF Finish, WaitStill
  <2> QED
    BY <2>1, <2>2, <2>3, <2>4 DEF Housekeeping
<1>5. DecisionOK'
  BY <1>1, <1>2, <1>3 DEF WaitInv, DecisionOK
<1>6. OpenOK'
  BY <1>1, <1>2, <1>3 DEF WaitInv, OpenOK, AtHand, WaitStill
<1>7. InterventionsOK'
  BY <1>1, <1>2, <1>3 DEF WaitInv, InterventionsOK, turnId, WaitStill
<1>8. RestOK'
  <2>1. /\ wakes' = wakes /\ status' = status
        /\ \A p : Waits(p)' <=> Waits(p)
        /\ \A p : Matches(p)' <=> Matches(p)
    BY <1>1 DEF Waits, Matches, Moving, NeedsHuman, WaitStill
  <2>2. CASE TimerDue
    <3>1. Waits(plan) => Waits(plan')
      BY <2>2 DEF TimerDue, Waits, Matches
    <3>2. UNCHANGED <<pc, carried, started>>
      BY <2>2 DEF TimerDue
    <3> HIDE DEF Waits, Matches
    <3> QED
      BY <1>1, <1>2, <2>1, <3>1, <3>2 DEF WaitInv, RestOK
  <2>3. CASE Restore
    <3>1. /\ pc = "prestart" /\ pc' = "loop" /\ started' = carried.started
          /\ plan' = carried.plan
      BY <2>3 DEF Restore, WaitInv, StartedOK, NoPlan
    <3> HIDE DEF Waits, Matches
    <3> QED
      BY <1>1, <1>2, <2>1, <3>1 DEF WaitInv, RestOK
  <2>4. CASE ContinueAsNew
    <3>1. /\ pc = "loop" /\ ~closed /\ pc' = "prestart"
          /\ carried'.started = started /\ carried'.plan = plan
      BY <2>4 DEF ContinueAsNew
    <3> HIDE DEF Waits, Matches
    <3> QED
      BY <1>1, <1>2, <2>1, <3>1 DEF WaitInv, RestOK
  <2>5. CASE Finish
    BY <2>5 DEF Finish, RestOK
  <2> QED
    BY <2>2, <2>3, <2>4, <2>5 DEF Housekeeping
<1> QED
  BY <1>2, <1>4, <1>5, <1>6, <1>7, <1>8 DEF WaitInv

(* The first item of some kinds is taken. *)
LEMMA FirstTaken ==
  ASSUME Inv, pc = "loop", NEW kinds, Buffered(kinds), Take(kinds)
  PROVE  \E x \in Range(buffer) :
           /\ x = buffer[First(kinds)] /\ Kind[x] \in kinds /\ x \in Items
           /\ Last(taken') = x /\ Range(taken') = Range(taken) \cup {x}
           /\ \A j \in Range(buffer) :
                Kind[j] \in kinds /\ j # x => Before(x, j)
<1>1. buffer \in Seq(Items) /\ taken \in Seq(Items) /\ carried.seen = {}
  BY DEF Inv, AreSequences, CarriedOver
<1>2. PICK n : n = First(kinds)
  OBVIOUS
<1>3. /\ n \in 1 .. Len(buffer) /\ Kind[buffer[n]] \in kinds
      /\ \A m \in 1 .. Len(buffer) : Kind[buffer[m]] \in kinds => n <= m
  <2> HIDE DEF First
  <2> QED
    BY <1>1, <1>2, FirstFacts
<1>4. PICK x : x = buffer[n]
  OBVIOUS
<1>5. x \in Items /\ x \in Range(buffer)
  BY <1>1, <1>3, <1>4, RangeSeq
<1>6. taken' = Append(taken, x)
  BY <1>2, <1>4 DEF Take
<1>7. Last(taken') = x /\ Range(taken') = Range(taken) \cup {x}
  BY <1>1, <1>5, <1>6, AppendFacts DEF Last
<1>8. ASSUME NEW j \in Range(buffer), Kind[j] \in kinds, j # x
      PROVE  Before(x, j)
  <2>1. PICK m \in 1 .. Len(buffer) : buffer[m] = j
    BY <1>1, RangeSeq
  <2>2. n < m
    BY <1>1, <1>3, <1>4, <1>8, <2>1
  <2> HIDE DEF Before
  <2> QED
    BY <1>1, <1>3, <1>4, <2>1, <2>2 DEF Inv, Ordered
<1> HIDE DEF First, Before
<1> QED
  BY <1>2, <1>3, <1>4, <1>5, <1>7, <1>8

(* What the mailbox does with the item that wakes it. *)
TakesUp(x) ==
  \/ Kind[x] = "approve" /\ pc' = "execute" /\ direct' = TRUE
  \/ Kind[x] = "takeover" /\ pc' = "loop" /\ plan' = ParkedPlan
  \/ Kind[x] \notin {"approve", "takeover"} /\ pc' = "agent"

(* A takeover is taken before what ends its pause. *)
InTurn(x) ==
  /\ Kind[x] = "manual_wake" => ~Buffered(Controls)
  /\ Kind[x] = "retry" =>
       \A j \in Range(buffer) : Kind[j] \in Controls /\ j # x => Before(x, j)

(* The mailbox wakes for the timer, or for an item in its turn. *)
LEMMA TakenUp ==
  ASSUME TypeOK, Inv, WakeBy
  PROVE  /\ pc = "loop" /\ started' = TRUE
         /\ \/ WakeFor("timer") /\ pc' = "agent" /\ taken' = taken
            \/ \E x \in Range(buffer) :
                 /\ WakeFor(about[x]) /\ x \in Items
                 /\ Range(taken') = Range(taken) \cup {x}
                 /\ TakesUp(x) /\ InTurn(x)
<1> DEFINE ByItem(kinds) ==
      /\ pc = "loop" /\ Buffered(kinds) /\ Take(kinds)
      /\ WakeFor(about[Last(taken')])
<1> DEFINE Goal == \E x \in Range(buffer) :
                 /\ WakeFor(about[x]) /\ x \in Items
                 /\ Range(taken') = Range(taken) \cup {x}
                 /\ TakesUp(x) /\ InTurn(x)
<1>1. ASSUME NEW kinds, ByItem(kinds),
             Kind[buffer[First(kinds)]] \in kinds =>
               TakesUp(buffer[First(kinds)]),
             "manual_wake" \in kinds => ~Buffered(Controls),
             "retry" \in kinds => Controls \subseteq kinds
      PROVE  Goal
  <2>1. PICK x \in Range(buffer) :
           /\ x = buffer[First(kinds)] /\ Kind[x] \in kinds /\ x \in Items
           /\ Last(taken') = x /\ Range(taken') = Range(taken) \cup {x}
           /\ \A j \in Range(buffer) :
                Kind[j] \in kinds /\ j # x => Before(x, j)
    BY <1>1, FirstTaken
  <2> HIDE DEF First, Before
  <2>2. TakesUp(x) /\ WakeFor(about[x])
    <3> HIDE DEF TakesUp, WakeFor
    <3> QED
      BY <1>1, <2>1
  <2>3. InTurn(x)
    BY <1>1, <2>1 DEF InTurn
  <2> HIDE DEF TakesUp, WakeFor, InTurn
  <2> QED
    BY <2>1, <2>2, <2>3
<1> HIDE DEF Goal, First
<1> USE DEF Wakes, NextWake, BeginTurn, TakesUp
<1>2. ASSUME WakeInitial, WakeFor(about[Last(taken')]) PROVE Goal
  <2>1. ByItem(EventTypes) /\ pc' = "agent"
    BY <1>2 DEF WakeInitial
  <2> QED
    BY <1>1, <2>1, MailboxAssumption DEF CommandKinds, Reviews, Controls
<1>3. ASSUME WakeReview, WakeFor(about[Last(taken')]) PROVE Goal
  <2>1. ByItem(Reviews)
    BY <1>3 DEF WakeReview
  <2>2. Kind[buffer[First(Reviews)]] \in Reviews =>
          TakesUp(buffer[First(Reviews)])
    BY <1>3 DEF WakeReview, Reviews
  <2> HIDE DEF TakesUp
  <2> QED
    BY <1>1, <2>1, <2>2 DEF Reviews
<1>4. ASSUME WakeResolution, WakeFor(about[Last(taken')]) PROVE Goal
  <2>1. ByItem({"resolution"}) /\ pc' = "agent"
    BY <1>4 DEF WakeResolution
  <2> QED
    BY <1>1, <2>1
<1>5. ASSUME WakeControl, WakeFor(about[Last(taken')]) PROVE Goal
  <2>1. ByItem(Controls)
    BY <1>5 DEF WakeControl
  <2>2. Kind[buffer[First(Controls)]] \in Controls =>
          TakesUp(buffer[First(Controls)])
    BY <1>5 DEF WakeControl, Controls
  <2> HIDE DEF TakesUp
  <2> QED
    BY <1>1, <2>1, <2>2 DEF Controls
<1>6. ASSUME WakeManual, WakeFor(about[Last(taken')]) PROVE Goal
  <2>1. ByItem({"manual_wake"}) /\ pc' = "agent" /\ ~Buffered(Controls)
    BY <1>6 DEF WakeManual
  <2> QED
    BY <1>1, <2>1
<1>7. ASSUME WakeEvent, WakeFor(about[Last(taken')]) PROVE Goal
  <2>1. ByItem(plan.events) /\ pc' = "agent" /\ plan.events \subseteq EventTypes
    BY <1>7 DEF WakeEvent, TypeOK, Plan
  <2> QED
    BY <1>1, <2>1, MailboxAssumption DEF CommandKinds, Reviews, Controls
<1>8. ASSUME WakeTimer PROVE pc' = "agent" /\ taken' = taken
  BY <1>8 DEF WakeTimer
<1>9. pc = "loop" /\ started' = TRUE
  BY DEF WakeBy, WakeInitial, WakeReview, WakeResolution, WakeControl,
         WakeManual, WakeEvent, WakeTimer, Take
<1> QED
  BY <1>2, <1>3, <1>4, <1>5, <1>6, <1>7, <1>8, <1>9 DEF WakeBy, Goal

(* What is committed sooner is delivered sooner. *)
LEMMA SoonerDelivered ==
  ASSUME Inv, OutboxOK, FifoOK, NEW i, NEW x \in Range(delivered), Sooner(i, x)
  PROVE  i \in Range(delivered) /\ ~Before(x, i)
<1>1. /\ delivered \in Seq(Items) /\ Len(delivered) \in Nat
      /\ committed \in Seq(Items) /\ Len(committed) \in Nat
  BY DEF Inv, AreSequences, OutboxOK
<1>2. PICK m, n \in 1 .. Len(committed) :
        m < n /\ committed[m] = i /\ committed[n] = x
  BY DEF Sooner
<1>3. PICK k \in 1 .. Len(delivered) : delivered[k] = x
  BY <1>1, RangeSeq
<1>4. k = n
  <2>1. k \in 1 .. Len(committed) /\ committed[k] = x
    BY <1>1, <1>3 DEF FifoOK
  <2> QED
    BY <1>2, <2>1 DEF FifoOK, Distinct
<1>5. m \in 1 .. Len(delivered) /\ delivered[m] = i
  BY <1>1, <1>2, <1>3, <1>4 DEF FifoOK
<1>6. i \in Range(delivered)
  BY <1>1, <1>5, RangeSeq
<1>7. ~(n < m)
  BY <1>1, <1>2
<1> QED
  BY <1>2, <1>3, <1>4, <1>5, <1>6, <1>7 DEF Before

(* The loop takes up an item or the timer. *)
LEMMA WakeByWait ==
  ASSUME TypeOK, Inv, JourneyInv, WaitInv, WakeBy
  PROVE  WaitInv'
<1>1. pc = "loop" /\ started' = TRUE /\ delivered' = delivered
  BY TakenUp, WokenBy
<1>2. PICK s : WakeFor(s)
  BY TakenUp
<1>3. /\ UNCHANGED <<status, wakes, request, intervened, committed, about,
                     wrote, dropped>>
      /\ pc' = "agent" => /\ lineage' = <<s>> /\ base' = base + Len(lineage)
      /\ pc' # "agent" => UNCHANGED <<lineage, base>>
  BY <1>2 DEF WakeFor, rows, process
<1>4. OutboxOK /\ ~wrote
  BY <1>1 DEF JourneyInv, RowsInv, TurnInv, ChainOK
<1>5. FifoOK'
  BY <1>1, <1>3 DEF WaitInv, FifoOK
<1>6. StartedOK'
  BY <1>1, TakenUp DEF StartedOK, TakesUp
<1>7. DecisionOK'
  BY TakenUp DEF DecisionOK, TakesUp
<1>8. InterventionsOK'
  <2>1. base \in Nat /\ Len(lineage) \in Nat
    BY DEF JourneyInv, TurnInv, ThreadOK
  <2>2. \A t \in intervened : t \in Nat /\ t < base + Len(lineage)
    BY DEF JourneyInv, RowsInv, TablesOK, WaitInv, InterventionsOK
  <2>3. CASE pc' = "agent"
    <3>1. intervened' = intervened /\ Len(lineage') = 1
          /\ base' = base + Len(lineage)
      BY <1>3, <2>3
    <3> QED
      BY <2>1, <2>2, <2>3, <3>1 DEF InterventionsOK
  <2>4. CASE pc' # "agent"
    <3>1. pc' = "loop" \/ (pc' = "execute" /\ direct')
      BY <2>4, TakenUp DEF TakesUp
    <3> QED
      BY <1>3, <2>2, <2>4, <3>1 DEF InterventionsOK
  <2> QED
    BY <2>3, <2>4
<1>9. CASE WakeFor("timer") /\ pc' = "agent" /\ taken' = taken
  <2>1. Pending' = Pending
    BY <1>3, <1>9 DEF Pending
  <2>2. PausesOK'
    BY <1>3, <2>1 DEF WaitInv, PausesOK, Sooner
  <2>3. OpenOK'
    BY <1>1, <1>3, <2>1 DEF WaitInv, OpenOK, AtHand
  <2>4. RestOK'
    BY <1>9 DEF RestOK
  <2> QED
    BY <1>5, <1>6, <1>7, <1>8, <2>2, <2>3, <2>4 DEF WaitInv
<1>10. ASSUME NEW x \in Range(buffer), WakeFor(about[x]), x \in Items,
              Range(taken') = Range(taken) \cup {x}, TakesUp(x), InTurn(x)
       PROVE  WaitInv'
  <2>1. Pending' = Pending \ {x}
    BY <1>3, <1>10 DEF Pending
  <2>2. x \in Range(committed) /\ x \notin Range(taken) /\ x \in Range(delivered)
    BY <1>1, <1>4, TakenIsCommitted DEF Inv, Books
  <2>3. PausesOK'
    <3>1. status' = "paused" => wakes' = {"operator"}
      BY <1>3 DEF WaitInv, PausesOK
    <3>2. ASSUME NEW i \in Pending', Kind[i] = "takeover", status' # "paused"
          PROVE  \E j \in Pending' : /\ Kind[j] \in {"retry", "manual_wake"}
                                     /\ Sooner(i, j)'
      <4>1. i \in Pending /\ i # x
        BY <2>1
      <4>2. PICK j \in Pending : /\ Kind[j] \in {"retry", "manual_wake"}
                                 /\ Sooner(i, j)
        BY <1>3, <3>2, <4>1 DEF WaitInv, PausesOK
      <4>3. CASE j # x
        BY <1>3, <2>1, <4>2, <4>3 DEF Sooner
      <4>4. CASE j = x
        <5>1. i \in Range(delivered) /\ ~Before(x, i)
          BY <1>4, <2>2, <4>2, <4>4, SoonerDelivered DEF WaitInv
        <5>2. i \in Range(buffer)
          BY <1>1, <4>1, <5>1 DEF Inv, Books, CarriedOver, Pending
        <5>3. Kind[i] \in Controls
          BY <3>2 DEF Controls
        <5> HIDE DEF Before
        <5> QED
          BY <1>10, <4>1, <4>2, <4>4, <5>1, <5>2, <5>3 DEF InTurn, Buffered
      <4> QED
        BY <4>3, <4>4
    <3> QED
      BY <3>1, <3>2 DEF PausesOK
  <2>4. OpenOK'
    <3> SUFFICES ASSUME NEW a \in Actions,
                        request'[a] \in {"allowed", "approved", "executing"}
                 PROVE  \/ a \in dropped'
                        \/ AtHand(a)'
                        \/ \E j \in Pending' : Kind[j] = "approve" /\ about'[j] = a
      BY DEF OpenOK
    <3>1. a \in dropped \/ \E j \in Pending : Kind[j] = "approve" /\ about[j] = a
      BY <1>1, <1>3 DEF WaitInv, OpenOK, AtHand
    <3>2. ASSUME Kind[x] = "approve", about[x] = a PROVE AtHand(a)'
      BY <1>10, <3>2 DEF AtHand, TakesUp, WakeFor
    <3> QED
      BY <1>3, <2>1, <3>1, <3>2
  <2>5. RestOK'
    <3> SUFFICES ASSUME Pending' = {}, pc' = "loop" PROVE Waits(plan)'
      BY <1>10 DEF RestOK, TakesUp
    <3>1. Kind[x] = "takeover" /\ plan' = ParkedPlan
      BY <1>10 DEF TakesUp
    <3>2. x \in Pending
      BY <2>2, <3>1 DEF Pending, CommandKinds, Controls
    <3>3. status = "paused"
      BY <2>1, <3>1, <3>2 DEF WaitInv, PausesOK
    <3>4. wakes' = {"operator"}
      BY <1>3, <3>3 DEF WaitInv, PausesOK
    <3> QED
      BY <3>1, <3>4, JourneyAssumption
         DEF Waits, Matches, Moving, ParkedPlan
  <2> QED
    BY <1>5, <1>6, <1>7, <1>8, <2>3, <2>4, <2>5 DEF WaitInv
<1> QED
  BY <1>9, <1>10, TakenUp

(* A turn leaves its activities, or the follow-up turn begins.  An action  *)
(* that was at hand has moved on, or is given up on.                       *)
LEMMA LeavesWait ==
  ASSUME WaitInv, WaitStill, pc \notin {"prestart", "loop", "over"},
         pc' \notin {"prestart", "actions", "state", "execute"},
         started' = started, dropped \subseteq dropped',
         \A a \in Actions : request'[a] \in {"allowed", "approved", "executing"} =>
           request'[a] = request[a] /\ (AtHand(a) => a \in dropped'),
         InterventionsOK', RestOK'
  PROVE  WaitInv'
<1>1. Pending' = Pending /\ FifoOK' /\ PausesOK' /\ about' = about
  BY StillWait DEF WaitStill
<1>2. StartedOK'
  BY DEF WaitInv, StartedOK
<1>3. OpenOK'
  BY <1>1 DEF WaitInv, OpenOK
<1>4. DecisionOK'
  BY DEF DecisionOK
<1> QED
  BY <1>1, <1>2, <1>3, <1>4 DEF WaitInv

(* What the steps of an activity leave alone. *)
ActivityStill ==
  /\ WaitStill /\ started' = started
  /\ UNCHANGED <<request, base, lineage>>

(* A turn is interrupted. *)
LEMMA InterruptedWait ==
  ASSUME Inv, JourneyInv, WaitInv, ActivityStill, Preempted,
         pc \notin {"prestart", "loop", "over"}, pc' = "loop",
         closed' = closed, dropped \subseteq dropped',
         \A a \in Actions : AtHand(a) => a \in dropped'
  PROVE  WaitInv'
<1>1. Pending' = Pending
  BY StillWait DEF ActivityStill
<1>2. closed \/ Pending # {}
  BY PreemptedPending DEF JourneyInv, RowsInv
<1>3. InterventionsOK'
  BY DEF ActivityStill, WaitStill, WaitInv, InterventionsOK
<1>4. RestOK'
  BY <1>1, <1>2 DEF RestOK
<1> QED
  BY <1>3, <1>4, LeavesWait DEF ActivityStill

(* An error reaches the handler of the turn. *)
LEMMA HandledWait ==
  ASSUME TypeOK, JourneyInv, WaitInv, ActivityStill,
         \/ pc \in {"agent", "actions", "state"}
         \/ pc \in {"execute", "reconcile"} /\ ~direct,
         pc' = "failure", depth' = depth, ~wrote', dropped \subseteq dropped',
         \A a \in Actions : AtHand(a) => a \in dropped'
  PROVE  WaitInv'
<1>1. /\ base \in Nat /\ depth \in Nat
      /\ \A t \in intervened : t \in Nat
  BY MailboxAssumption DEF TypeOK, JourneyInv, RowsInv, TablesOK, TurnInv,
                           ThreadOK
<1>2. \A t \in intervened : t < base /\ t < base + Len(lineage)
  BY DEF WaitInv, InterventionsOK
<1>3. InterventionsOK'
  <2>1. /\ intervened' = intervened /\ base' = base
        /\ lineage' = lineage /\ turnId' = base + depth
    BY DEF ActivityStill, WaitStill, turnId
  <2>2. \A t \in intervened : t # base + depth
    BY <1>1, <1>2
  <2> QED
    BY <1>2, <2>1, <2>2 DEF InterventionsOK
<1>4. RestOK'
  BY DEF RestOK
<1> QED
  BY <1>3, <1>4, LeavesWait DEF ActivityStill

(* The action at hand of a turn that ends is the dropped one. *)
LEMMA DropsAtHand ==
  ASSUME JourneyInv, pc \in {"agent", "actions", "state"},
         pc' \notin {"state", "execute"}, dropped' = dropped \cup Drops
  PROVE  dropped \subseteq dropped' /\ \A a \in Actions : AtHand(a) => a \in dropped'
<1>1. ASSUME NEW a \in Actions, AtHand(a) PROVE a \in Drops
  <2>1. /\ a = job /\ decision.act = "allow"
        /\ pc = "state" \/ (pc = "actions" /\ wrote)
    BY <1>1 DEF AtHand
  <2>2. request[job] = "allowed"
    BY <2>1 DEF JourneyInv, TurnInv, RequestOK
  <2> QED
    BY <2>1, <2>2 DEF Drops
<1> QED
  BY <1>1

(* A decision comes back. *)
LEMMA AgentReturnsWait ==
  ASSUME TypeOK, Inv, JourneyInv, WaitInv, AgentReturns
  PROVE  WaitInv'
<1>1. /\ pc = "agent" /\ ActivityStill /\ wrote' = wrote /\ dropped' = dropped
      /\ closed' = closed /\ direct' = direct
  BY DEF AgentReturns, AgentDecides, ActivityStill, WaitStill, unsignalled,
         input, rows, process
<1>2. ~wrote
  BY <1>1 DEF JourneyInv, TurnInv, ChainOK
<1>3. CASE Preempted
  <2>1. pc' = "loop"
    BY <1>3 DEF AgentReturns, AgentDecides, Return
  <2> QED
    BY <1>1, <1>3, <2>1, InterruptedWait DEF AtHand
<1>4. CASE ~Preempted
  <2>1. pc' = "actions"
    BY <1>4 DEF AgentReturns, AgentDecides
  <2>2. decision' \in Decision /\ \E f : Valid(decision', f)
    BY <1>4 DEF AgentReturns
  <2>3. Pending' = Pending /\ FifoOK' /\ PausesOK'
    BY <1>1, StillWait DEF ActivityStill
  <2>4. StartedOK'
    BY <1>1, <2>1 DEF ActivityStill, WaitInv, StartedOK
  <2>5. OpenOK'
    BY <1>1, <2>3 DEF WaitInv, OpenOK, AtHand, ActivityStill, WaitStill
  <2>6. DecisionOK'
    BY <1>1, <1>2, <2>1, <2>2 DEF DecisionOK, Valid
  <2>7. InterventionsOK'
    BY <1>1, <2>1 DEF WaitInv, InterventionsOK, ActivityStill, WaitStill
  <2>8. RestOK'
    BY <2>1 DEF RestOK
  <2> QED
    BY <2>3, <2>4, <2>5, <2>6, <2>7, <2>8 DEF WaitInv
<1> QED
  BY <1>3, <1>4

(* The gateway writes the action's request. *)
LEMMA WriteActionsWait ==
  ASSUME TypeOK, Inv, JourneyInv, WaitInv, WriteActions
  PROVE  WaitInv'
<1>1. /\ pc = "actions" /\ ~wrote /\ wrote' /\ WaitStill
      /\ UNCHANGED <<carried, started, plan, closed, pc, direct, depth, todo>>
      /\ UNCHANGED <<base, lineage, decision, job, dropped>>
  BY DEF WriteActions, WaitStill, mailbox, process
<1>2. Pending' = Pending /\ FifoOK' /\ PausesOK'
  BY <1>1, StillWait
<1>3. /\ request \in [Actions -> RequestStatus]
      /\ decision.act # "none" => job \in Actions
      /\ decision \in Decision
  BY <1>1 DEF JourneyInv, RowsInv, TablesOK, TurnInv, ThreadOK, WaitInv,
              DecisionOK
<1>4. request' = IF decision.act = "none" THEN request
                 ELSE [request EXCEPT ![job] = InitialStatus[decision.act]]
  BY DEF WriteActions, PersistDecision
<1>5. decision.act \in {"none", "allow", "require_approval", "deny"}
  BY <1>3, JourneyAssumption DEF Decision
<1>6. StartedOK' /\ InterventionsOK'
  BY <1>1, <1>2 DEF WaitInv, StartedOK, InterventionsOK, WaitStill, turnId
<1>7. OpenOK'
  <2> SUFFICES ASSUME NEW a \in Actions,
                      request'[a] \in {"allowed", "approved", "executing"}
               PROVE  \/ a \in dropped'
                      \/ AtHand(a)'
                      \/ \E j \in Pending' : Kind[j] = "approve" /\ about'[j] = a
    BY DEF OpenOK
  <2>1. CASE request'[a] = request[a]
    <3>1. ~AtHand(a)
      BY <1>1 DEF AtHand
    <3> QED
      BY <1>1, <1>2, <2>1, <3>1 DEF WaitInv, OpenOK, WaitStill
  <2>2. CASE request'[a] # request[a]
    <3>1. a = job /\ request'[a] = InitialStatus[decision.act]
          /\ decision.act # "none"
      BY <1>3, <1>4, <2>2
    <3>2. decision.act = "allow"
      BY <1>5, <3>1 DEF InitialStatus
    <3> QED
      BY <1>1, <3>1, <3>2 DEF AtHand
  <2> QED
    BY <2>1, <2>2
<1>8. DecisionOK'
  <2>1. decision.act = "require_approval" => request'[job] = "pending_approval"
    BY <1>3, <1>4 DEF InitialStatus
  <2> QED
    BY <1>1, <2>1 DEF WaitInv, DecisionOK
<1>9. RestOK'
  BY <1>1 DEF RestOK
<1> QED
  BY <1>2, <1>6, <1>7, <1>8, <1>9 DEF WaitInv

(* Its answer comes back. *)
LEMMA ActionsReturnWait ==
  ASSUME TypeOK, Inv, JourneyInv, WaitInv, ActionsReturn
  PROVE  WaitInv'
<1>1. /\ pc = "actions" /\ wrote /\ ~wrote' /\ ActivityStill
      /\ UNCHANGED <<closed, direct, decision, job>>
      /\ dropped' = dropped \cup Drops
  BY DEF ActionsReturn, ActionsPersisted, ActivityStill, WaitStill,
         unsignalled, input, rows, process
<1>2. CASE Preempted
  <2>1. pc' = "loop"
    BY <1>2 DEF ActionsReturn, ActionsPersisted, Return
  <2>2. dropped \subseteq dropped' /\ \A a \in Actions : AtHand(a) => a \in dropped'
    BY <1>1, <2>1, DropsAtHand
  <2> QED
    BY <1>1, <1>2, <2>1, <2>2, InterruptedWait
<1>3. CASE ~Preempted
  <2>1. pc' = "state" /\ todo' = IF decision.act = "allow" THEN 1 ELSE 0
    BY <1>3 DEF ActionsReturn, ActionsPersisted
  <2>2. Pending' = Pending /\ FifoOK' /\ PausesOK'
    BY <1>1, StillWait DEF ActivityStill
  <2>3. dropped' = dropped
    BY <1>1, <2>1 DEF Drops
  <2>4. StartedOK'
    BY <1>1, <2>1 DEF ActivityStill, WaitInv, StartedOK
  <2>5. OpenOK'
    BY <1>1, <2>1, <2>2, <2>3
       DEF WaitInv, OpenOK, AtHand, ActivityStill, WaitStill
  <2>6. DecisionOK'
    BY <1>1, <2>1, <2>2 DEF WaitInv, DecisionOK, ActivityStill
  <2>7. InterventionsOK'
    BY <1>1, <2>1 DEF WaitInv, InterventionsOK, ActivityStill, WaitStill
  <2>8. RestOK'
    BY <1>1, <2>1 DEF RestOK
  <2> QED
    BY <2>2, <2>4, <2>5, <2>6, <2>7, <2>8 DEF WaitInv
<1> QED
  BY <1>2, <1>3

(* An activity of the turn fails for good. *)
LEMMA TurnFailsInWait ==
  ASSUME TypeOK, Inv, JourneyInv, WaitInv, TurnFailsIn
  PROVE  WaitInv'
<1>1. /\ pc \in {"agent", "actions", "state"} /\ ~wrote' /\ ActivityStill
      /\ dropped' = dropped \cup Drops
      /\ \/ Preempted /\ pc' = "loop" /\ closed' = closed
         \/ pc' = "failure" /\ depth' = depth
  BY DEF TurnFailsIn, TurnActivityFails, TurnFails, Return, ActivityStill,
         WaitStill, unsignalled, input, rows, process
<1>2. dropped \subseteq dropped' /\ \A a \in Actions : AtHand(a) => a \in dropped'
  BY <1>1, DropsAtHand
<1> QED
  BY <1>1, <1>2, InterruptedWait, HandledWait

(* What the process waits for is unchanged, as long as its rows are. *)
LEMMA WaitsStill ==
  ASSUME wakes' = wakes, request' = request
  PROVE  /\ \A p : Waits(p)' <=> Waits(p)
         /\ \A p : Matches(p)' <=> Matches(p)
BY DEF Waits, Matches, Moving, NeedsHuman

(* The wake conditions of a turn that leaves no action to execute: if      *)
(* nothing else is pending, a wake or a human is among them.               *)
LEMMA DecisionMoves ==
  ASSUME JourneyInv, WaitInv, pc = "state", todo = 0, Pending = {},
         dropped \cap Open = {},
         "deny" \notin Outcomes, NeedsHuman = {},
         NextStatus(decision) \notin {"rejected", "completed"}
  PROVE  \/ EffectiveWakes(decision) = {"operator"}
         \/ EffectiveWakes(decision) \cap EventTypes # {}
         \/ "timer" \in EffectiveWakes(decision)
<1>1. /\ decision \in Decision
      /\ decision.status = "waiting" => decision.waits # {}
      /\ decision.status = "active" => decision.act # "none" \/ decision.waits # {}
      /\ "human" \in decision.waits => decision.act = "require_approval"
      /\ decision.act # "allow"
      /\ decision.act = "require_approval" => request[job] = "pending_approval"
  BY DEF WaitInv, DecisionOK
<1>2. /\ \A a \in Actions : request[a] \notin {"pending_approval", "unknown"}
  BY DEF NeedsHuman
<1>3. Open = {}
  <2> SUFFICES ASSUME NEW a \in Open PROVE FALSE
    OBVIOUS
  <2>1. a \in Actions /\ request[a] \in {"allowed", "approved", "executing"}
    BY <1>2 DEF Open
  <2>2. ~AtHand(a) /\ a \notin dropped
    BY <1>1 DEF AtHand
  <2> QED
    BY <2>1, <2>2 DEF WaitInv, OpenOK
<1>4. decision.act \in {"none", "require_approval"}
      /\ decision.status \in {"active", "waiting", "completed", "escalated"}
      /\ decision.waits \subseteq EventTypes \cup {"timer", "human"}
  BY <1>1, JourneyAssumption DEF Decision
<1>5. decision.act = "none"
  <2>1. decision.act # "none" => job \in Actions
    BY DEF JourneyInv, TurnInv, ThreadOK
  <2> QED
    BY <1>1, <1>2, <1>4, <2>1
<1>6. /\ NextStatus(decision) =
           IF decision.status = "escalated" THEN "review"
           ELSE IF decision.status = "waiting" THEN "waiting" ELSE "active"
      /\ decision.status # "completed"
  BY <1>1, <1>3, <1>4, <1>5 DEF NextStatus
<1>7. EffectiveWakes(decision) =
        IF NextStatus(decision) = "review" /\ decision.waits = {}
        THEN {"operator"} ELSE decision.waits
  BY <1>2, <1>3 DEF EffectiveWakes
<1>8. decision.waits \subseteq EventTypes \cup {"timer"}
  BY <1>1, <1>4, <1>5
<1> HIDE DEF EffectiveWakes, NextStatus
<1> QED
  BY <1>1, <1>4, <1>5, <1>6, <1>7, <1>8

(* The state of the process is written. *)
LEMMA WriteStateWait ==
  ASSUME TypeOK, Inv, JourneyInv, WaitInv, WriteState
  PROVE  WaitInv'
<1>1. /\ pc = "state" /\ wrote' /\ Permits
      /\ UNCHANGED <<carried, started, plan, closed, pc, direct, depth, todo,
                     delivered, taken>>
      /\ UNCHANGED <<request, intervened, committed, about, base, lineage,
                     decision, job>>
      /\ dropped' = dropped \cap Open
  BY DEF WriteState, ApplyDecision, mailbox
<1>2. /\ status' = NextStatus(decision) /\ wakes' = EffectiveWakes(decision)
      /\ status' # "rejected"
      /\ status' # "completed" => revision' = PlanOf(wakes')
  BY DEF WriteState, ApplyDecision
<1>3. Pending' = Pending
  BY <1>1 DEF Pending
<1>4. FifoOK'
  BY <1>1 DEF WaitInv, FifoOK
<1>5. PausesOK'
  <2>1. status # "paused" /\ status' # "paused"
    BY <1>1, <1>2 DEF Permits, NextStatus
  <2> QED
    BY <1>1, <1>3, <2>1 DEF WaitInv, PausesOK, Sooner
<1>6. StartedOK' /\ DecisionOK'
  BY <1>1, <1>3 DEF WaitInv, StartedOK, DecisionOK
<1>7. OpenOK'
  <2>1. \A a \in Actions :
          request[a] \in {"allowed", "approved", "executing"} => a \in Open
    BY DEF Open
  <2> QED
    BY <1>1, <1>3, <2>1 DEF WaitInv, OpenOK, AtHand
<1>8. InterventionsOK'
  BY <1>1, <1>3 DEF WaitInv, InterventionsOK
<1>9. RestOK'
  <2> SUFFICES ASSUME status' # "completed", Pending' = {}, dropped' = {}
               PROVE  Matches(revision)' /\ (todo' = 0 => Waits(revision)')
    BY <1>1 DEF RestOK
  <2>1. Matches(revision)'
    BY <1>2 DEF Matches, PlanOf
  <2>2. ASSUME todo = 0, "deny" \notin Outcomes PROVE Moving'
    <3>1. CASE NeedsHuman # {}
      BY <1>1, <3>1 DEF Moving, NeedsHuman
    <3>2. CASE NeedsHuman = {}
      <4>1. \/ wakes' = {"operator"}
            \/ wakes' \cap EventTypes # {}
            \/ "timer" \in wakes'
        BY <1>1, <1>2, <1>3, <2>2, <3>2, DecisionMoves
      <4> QED
        BY <4>1 DEF Moving
    <3> QED
      BY <3>1, <3>2
  <2> QED
    BY <1>1, <2>1, <2>2 DEF Waits
<1> QED
  BY <1>3, <1>4, <1>5, <1>6, <1>7, <1>8, <1>9 DEF WaitInv

(* The state's answer comes back, with the wake plan. *)
LEMMA StateReturnsWait ==
  ASSUME TypeOK, Inv, JourneyInv, WaitInv, StateReturns
  PROVE  WaitInv'
<1>1. /\ pc = "state" /\ wrote /\ ~wrote' /\ ActivityStill
      /\ UNCHANGED <<decision, job>> /\ dropped' = dropped \cup Drops
      /\ Proceed(todo, FALSE, revision)
  BY DEF StateReturns, StatePersisted, ActivityStill, WaitStill, unsignalled,
         input, rows, process
<1>2. Pending' = Pending /\ FifoOK' /\ PausesOK'
  BY <1>1, StillWait DEF ActivityStill
<1>3. todo \in {0, 1}
  BY DEF JourneyInv, TurnInv, ChainOK
<1>4. CASE Preempted
  <2>1. pc' = "loop" /\ closed' = closed
    BY <1>1, <1>4 DEF Proceed, Return
  <2>2. dropped \subseteq dropped' /\ \A a \in Actions : AtHand(a) => a \in dropped'
    BY <1>1, <2>1, DropsAtHand
  <2> QED
    BY <1>1, <1>4, <2>1, <2>2, InterruptedWait
<1>5. CASE ~Preempted /\ todo = 1
  <2>1. pc' = "execute"
    BY <1>1, <1>5 DEF Proceed
  <2>2. dropped' = dropped
    BY <1>1, <2>1 DEF Drops
  <2>3. StartedOK' /\ DecisionOK' /\ RestOK'
    BY <1>1, <2>1 DEF ActivityStill, WaitInv, StartedOK, DecisionOK, RestOK
  <2>4. OpenOK'
    BY <1>1, <1>2, <2>1, <2>2
       DEF WaitInv, OpenOK, AtHand, ActivityStill, WaitStill
  <2>5. InterventionsOK'
    BY <1>1, <2>1 DEF WaitInv, InterventionsOK, ActivityStill, WaitStill
  <2> QED
    BY <1>2, <2>3, <2>4, <2>5 DEF WaitInv
<1>6. CASE ~Preempted /\ todo = 0
  <2>1. ApplyTurnOutcome(revision)
    BY <1>1, <1>6 DEF Proceed
  <2>2. pc' = "loop" /\ (~closed' => plan' = revision)
    BY <2>1 DEF ApplyTurnOutcome, Return
  <2>3. dropped \subseteq dropped' /\ \A a \in Actions : AtHand(a) => a \in dropped'
    BY <1>1, <2>2, DropsAtHand
  <2>4. InterventionsOK'
    BY <1>1, <2>2 DEF WaitInv, InterventionsOK, ActivityStill, WaitStill
  <2>5. RestOK'
    <3> SUFFICES ASSUME status' # "completed", Pending' = {}, dropped' = {},
                        ~closed'
                 PROVE  Waits(plan)'
      BY <2>2 DEF RestOK
    <3>1. dropped = {} /\ Pending = {} /\ status # "completed"
      BY <1>1, <1>2, <2>3 DEF ActivityStill, WaitStill
    <3>2. Waits(revision)
      BY <1>1, <1>6, <3>1 DEF WaitInv, RestOK
    <3>3. \A p : Waits(p)' <=> Waits(p)
      BY <1>1, WaitsStill DEF ActivityStill, WaitStill
    <3> QED
      BY <2>2, <3>2, <3>3
  <2> QED
    BY <1>1, <2>2, <2>3, <2>4, <2>5, LeavesWait DEF ActivityStill
<1> QED
  BY <1>3, <1>4, <1>5, <1>6

(* The first transaction of an execution, or its uncertain end. *)
LEMMA ExecutingWait ==
  ASSUME TypeOK, Inv, JourneyInv, WaitInv, ExecuteBegins \/ ExecuteUncertain
  PROVE  WaitInv'
<1>1. /\ pc = "execute" /\ WaitStill /\ job \in Actions
      /\ UNCHANGED <<started, direct, base, lineage, job, dropped>>
      /\ request \in [Actions -> RequestStatus]
  BY DEF ExecuteBegins, ExecuteUncertain, ExecuteUnknown, mailbox, thread,
         unsignalled, input, process, WaitStill, JourneyInv, RowsInv, TablesOK,
         TurnInv, ThreadOK
<1>2. Pending' = Pending /\ FifoOK' /\ PausesOK'
  BY <1>1, StillWait
<1>3. \/ pc' = "execute" /\ request' = [request EXCEPT ![job] = "executing"]
      \/ pc' = "reconcile" /\ request' = [request EXCEPT ![job] = "unknown"]
  BY <1>1 DEF ExecuteBegins, ExecuteUncertain, ExecuteUnknown, mailbox
<1>4. StartedOK' /\ DecisionOK' /\ RestOK'
  BY <1>1, <1>3 DEF WaitInv, StartedOK, DecisionOK, RestOK
<1>5. InterventionsOK'
  BY <1>1, <1>3 DEF WaitInv, InterventionsOK, WaitStill
<1>6. OpenOK'
  <2> SUFFICES ASSUME NEW a \in Actions,
                      request'[a] \in {"allowed", "approved", "executing"}
               PROVE  \/ a \in dropped'
                      \/ AtHand(a)'
                      \/ \E j \in Pending' : Kind[j] = "approve" /\ about'[j] = a
    BY DEF OpenOK
  <2>1. CASE a = job
    BY <1>1, <1>3, <2>1 DEF AtHand
  <2>2. CASE a # job
    <3>1. request'[a] = request[a] /\ ~AtHand(a)
      BY <1>1, <1>3, <2>2 DEF AtHand
    <3> QED
      BY <1>1, <1>2, <3>1 DEF WaitInv, OpenOK, WaitStill
  <2> QED
    BY <2>1, <2>2
<1> QED
  BY <1>2, <1>4, <1>5, <1>6 DEF WaitInv

(* A turn whose action settled ends here only when it is interrupted, and  *)
(* an approved action is always followed up.                               *)
LEMMA SettledHow ==
  ASSUME Executed(TRUE), todo \in {0, 1}
  PROVE  \/ pc' = "loop" /\ Preempted /\ closed' = closed
         \/ pc' = "agent"
         \/ pc' = "limit" /\ depth' = depth /\ ~direct
<1>1. CASE direct
  BY <1>1 DEF Executed, BeginTurn
<1>2. CASE ~direct
  <2>1. Proceed(todo - 1, TRUE, projection) /\ ~(todo - 1 > 0)
    <3>1. (results \/ TRUE) = TRUE
      BY Zenon
    <3>2. ~(todo - 1 > 0)
      OBVIOUS
    <3> QED
      BY <1>2, <3>1, <3>2 DEF Executed
  <2> QED
    BY <1>2, <2>1 DEF Proceed, Return, BeginTurn
<1> QED
  BY <1>1, <1>2

(* The result is there, and followed up. *)
LEMMA SettlesWait ==
  ASSUME TypeOK, Inv, JourneyInv, WaitInv, ExecuteSettles \/ ReconcileEnds
  PROVE  WaitInv'
<1>1. /\ pc \in {"execute", "reconcile"} /\ WaitStill /\ job \in Actions
      /\ Executed(TRUE) /\ FollowsUp /\ todo \in {0, 1}
      /\ UNCHANGED <<started, job, wrote, dropped>> /\ ~wrote
      /\ request \in [Actions -> RequestStatus]
  BY DEF ExecuteSettles, ReconcileEnds, ReconcileReturns, unsignalled, input,
         process, WaitStill, JourneyInv, RowsInv, TablesOK, TurnInv, ThreadOK,
         ChainOK
<1>2. Pending' = Pending
  BY <1>1, StillWait
<1>3. ASSUME NEW a \in Actions,
             request'[a] \in {"allowed", "approved", "executing"}
      PROVE  request'[a] = request[a] /\ ~AtHand(a)
  <2>1. CASE a # job
    BY <1>1, <2>1 DEF ExecuteSettles, ReconcileEnds, AtHand
  <2>2. CASE a = job /\ ExecuteSettles
    BY <1>1, <1>3, <2>2 DEF ExecuteSettles
  <2>3. CASE a = job /\ ReconcileEnds
    <3>1. pc = "reconcile"
      BY <2>3 DEF ReconcileEnds, ReconcileReturns
    <3>2. request'[a] = request[a]
      BY <1>1, <1>3, <2>3 DEF ReconcileEnds
    <3> QED
      BY <3>1, <3>2 DEF AtHand
  <2> QED
    BY <2>1, <2>2, <2>3
<1>4. RestOK'
  <2>1. pc' = "loop" => closed' \/ Pending # {}
    BY <1>1, SettledHow, PreemptedPending DEF JourneyInv, RowsInv
  <2> QED
    BY <1>1, <1>2, <2>1, SettledHow DEF RestOK
<1>5. InterventionsOK'
  <2>1. /\ base \in Nat /\ depth \in Nat /\ lineage \in Seq(Source)
        /\ Len(lineage) \in Nat /\ depth < Len(lineage)
        /\ \A t \in intervened : t \in Nat
    BY MailboxAssumption DEF TypeOK, JourneyInv, RowsInv, TablesOK, TurnInv,
                             ThreadOK
  <2>2. /\ \A t \in intervened : t < base + Len(lineage)
        /\ ~direct => \A t \in intervened : t < base
        /\ intervened' = intervened
    BY <1>1 DEF WaitInv, InterventionsOK, WaitStill
  <2>3. CASE pc' = "agent"
    <3>1. \A t \in intervened : t < base'
      BY <1>1, <2>2, <2>3 DEF FollowsUp
    <3>2. base' \in Nat
      BY <1>1, <2>1, <2>3 DEF FollowsUp
    <3>3. Len(lineage') \in Nat
      <4>1. job \in Source
        BY <1>1 DEF Source
      <4> HIDE DEF Source
      <4> QED
        BY <1>1, <2>1, <2>3, <4>1 DEF FollowsUp
    <3>4. \A t \in intervened : t < base' + Len(lineage')
      BY <2>1, <3>1, <3>2, <3>3
    <3> QED
      BY <2>2, <2>3, <3>1, <3>4 DEF InterventionsOK
  <2>4. CASE pc' = "loop"
    BY <1>1, <2>2, <2>4 DEF FollowsUp, InterventionsOK
  <2>5. CASE pc' = "limit" /\ depth' = depth /\ ~direct
    <3>1. base' = base /\ lineage' = lineage /\ turnId' = base + depth
      BY <1>1, <2>5 DEF FollowsUp, turnId
    <3>2. \A t \in intervened : t < base /\ t # base + depth
      BY <2>1, <2>2, <2>5
    <3> QED
      BY <2>2, <2>5, <3>1, <3>2 DEF InterventionsOK
  <2> QED
    BY <1>1, <2>3, <2>4, <2>5, SettledHow
<1>6. /\ pc \notin {"prestart", "loop", "over"}
      /\ pc' \notin {"prestart", "actions", "state", "execute"}
  BY <1>1, SettledHow
<1>7. /\ dropped \subseteq dropped' /\ started' = started
      /\ \A a \in Actions :
           request'[a] \in {"allowed", "approved", "executing"} =>
             request'[a] = request[a] /\ (AtHand(a) => a \in dropped')
  BY <1>1, <1>3
<1> QED
  BY <1>1, <1>4, <1>5, <1>6, <1>7, LeavesWait

(* The execution is lost, or the deployment no longer fits: the action is  *)
(* given up on, and the process may rest without a wake.                   *)
LEMMA GivesUpWait ==
  ASSUME TypeOK, Inv, JourneyInv, WaitInv, ExecuteLost \/ ExecuteIncompatible
  PROVE  WaitInv'
<1>1. /\ pc \in {"execute", "reconcile"} /\ ActivityStill /\ job \in Actions
      /\ dropped' = dropped \cup {job} /\ ~wrote'
  <2>1. /\ pc \in {"execute", "reconcile"} /\ ActivityStill
        /\ dropped' = dropped \cup {job} /\ wrote' = wrote
    BY DEF ExecuteLost, ExecuteIncompatible, ExecutionIncompatible,
           unsignalled, input, rows, process, WaitStill, ActivityStill
  <2> QED
    BY <2>1 DEF JourneyInv, TurnInv, ThreadOK, ChainOK
<1>2. \A a \in Actions : AtHand(a) => a \in dropped'
  BY <1>1 DEF AtHand
<1>3. \/ pc' \in {"loop", "failed"}
      \/ pc' = "failure" /\ depth' = depth /\ ~direct
  <2>1. ASSUME ExecuteLost PROVE pc' = "loop"
    BY <2>1, LostTurn DEF ExecuteLost, JourneyInv, TurnInv, ChainOK, Back
  <2>2. ASSUME ExecuteIncompatible
        PROVE  \/ pc' \in {"loop", "failed"}
               \/ pc' = "failure" /\ depth' = depth /\ ~direct
    BY <2>2 DEF ExecuteIncompatible, ExecutionIncompatible, ExecutionRaises,
                TurnFails, Return
  <2> QED
    BY <2>1, <2>2
<1>4. RestOK'
  BY <1>1 DEF RestOK
<1>5. CASE pc' \in {"loop", "failed"}
  <2>1. InterventionsOK'
    BY <1>1, <1>5 DEF WaitInv, InterventionsOK, ActivityStill, WaitStill
  <2> QED
    BY <1>1, <1>2, <1>4, <1>5, <2>1, LeavesWait DEF ActivityStill
<1>6. CASE pc' = "failure" /\ depth' = depth /\ ~direct
  BY <1>1, <1>2, <1>6, HandledWait
<1> QED
  BY <1>3, <1>5, <1>6

(* An execution that was given up on settles. *)
LEMMA LateSettlesWait ==
  ASSUME TypeOK, Inv, JourneyInv, WaitInv, NEW a \in Actions, LateSettles(a)
  PROVE  WaitInv'
<1>1. /\ WaitStill /\ a \in dropped /\ request[a] = "executing"
      /\ UNCHANGED <<carried, started, plan, closed, pc, direct, depth, todo>>
      /\ UNCHANGED <<base, lineage, decision, wrote, revision, job, dropped>>
  BY DEF LateSettles, WaitStill, mailbox, thread, process
<1>2. Pending' = Pending /\ FifoOK' /\ PausesOK'
  BY <1>1, StillWait
<1>3. PICK s \in {"succeeded", "failed", "unknown"} :
        request' = [request EXCEPT ![a] = s]
  BY DEF LateSettles
<1>4. request \in [Actions -> RequestStatus]
  BY DEF JourneyInv, RowsInv, TablesOK
<1>5. /\ request'[a] \notin {"allowed", "approved", "executing"}
      /\ \A b \in Actions : b # a => request'[b] = request[b]
  BY <1>3, <1>4
<1>6. StartedOK' /\ InterventionsOK'
  BY <1>1, <1>2 DEF WaitInv, StartedOK, InterventionsOK, WaitStill, turnId
<1>7. OpenOK'
  BY <1>1, <1>2, <1>5 DEF WaitInv, OpenOK, AtHand, WaitStill
<1>8. DecisionOK'
  <2>1. decision.act # "none" => job \in Actions
    BY DEF JourneyInv, TurnInv, ThreadOK
  <2>2. decision.act = "require_approval" /\ request[job] = "pending_approval"
        => request'[job] = "pending_approval"
    BY <1>1, <1>5, <2>1
  <2> QED
    BY <1>1, <1>2, <2>2 DEF WaitInv, DecisionOK
<1>9. RestOK'
  BY <1>1 DEF RestOK
<1> QED
  BY <1>2, <1>6, <1>7, <1>8, <1>9 DEF WaitInv

(* An intervention is written: the process waits for an operator. *)
LEMMA WriteInterventionWait ==
  ASSUME TypeOK, Inv, JourneyInv, WaitInv, WriteIntervention
  PROVE  WaitInv'
<1>1. /\ pc \in {"limit", "failure"} /\ wrote'
      /\ UNCHANGED <<carried, started, plan, closed, pc, direct, depth, todo,
                     delivered, taken>>
      /\ UNCHANGED <<request, committed, about, base, lineage, decision,
                     revision, job, dropped>>
  BY DEF WriteIntervention, mailbox
<1>2. PICK s : RecordIntervention(s)
  BY DEF WriteIntervention
<1>3. Pending' = Pending /\ turnId' = turnId
  BY <1>1 DEF Pending, turnId
<1>4. FifoOK' /\ StartedOK' /\ DecisionOK'
  BY <1>1 DEF WaitInv, FifoOK, StartedOK, DecisionOK
<1>5. OpenOK'
  BY <1>1, <1>3 DEF WaitInv, OpenOK, AtHand
<1>6. \/ Permits /\ status' = "review" /\ wakes' = {"operator"}
      \/ status' = status /\ wakes' = wakes
  BY <1>2 DEF RecordIntervention
<1>7. PausesOK'
  BY <1>1, <1>3, <1>6 DEF WaitInv, PausesOK, Sooner, Permits
<1>8. intervened' = intervened \/
        intervened' = intervened \cup {turnId}
  BY <1>2 DEF RecordIntervention
<1>9. ASSUME Pending = {}, status' # "completed" PROVE wakes' = {"operator"}
  <2>1. CASE turnId \in intervened
    BY <1>1, <1>2, <1>9, <2>1
       DEF RecordIntervention, WaitInv, InterventionsOK
  <2>2. CASE turnId \notin intervened
    <3>1. CASE Permits
      BY <1>2, <2>2, <3>1 DEF RecordIntervention
    <3>2. CASE ~Permits
      BY <1>2, <1>9, <2>2, <3>2
         DEF RecordIntervention, Permits, WaitInv, PausesOK
    <3> QED
      BY <3>1, <3>2
  <2> QED
    BY <2>1, <2>2
<1>10. InterventionsOK'
  <2>1. /\ base \in Nat /\ depth \in Nat /\ Len(lineage) \in Nat
        /\ depth < Len(lineage)
    BY MailboxAssumption DEF TypeOK, JourneyInv, TurnInv, ThreadOK
  <2>2. turnId < base + Len(lineage) /\ turnId >= turnId
    BY <2>1 DEF turnId
  <2>3. \A t \in intervened : /\ t < base + Len(lineage)
                              /\ t < base \/ t >= turnId
    BY <1>1 DEF WaitInv, InterventionsOK
  <2>4. \A t \in intervened' : /\ t < base + Len(lineage)
                               /\ t < base \/ t >= turnId
    <3> HIDE DEF turnId
    <3> QED
      BY <1>8, <2>2, <2>3
  <2> HIDE DEF turnId
  <2> QED
    BY <1>1, <1>3, <1>9, <2>4 DEF InterventionsOK
<1>11. RestOK'
  BY <1>1, <1>3, <1>9 DEF RestOK
<1> QED
  BY <1>3, <1>4, <1>5, <1>7, <1>10, <1>11 DEF WaitInv

(* The plan of a process that waits for an operator. *)
LEMMA ParkedWaits == wakes = {"operator"} => Waits(ParkedPlan)
BY JourneyAssumption DEF Waits, Matches, Moving, ParkedPlan

(* The intervention is recorded, or cannot be. *)
LEMMA InterventionEndsWait ==
  ASSUME TypeOK, Inv, JourneyInv, WaitInv, InterventionEnds
  PROVE  WaitInv'
<1>1. /\ pc \in {"limit", "failure"} /\ ~wrote' /\ ActivityStill
      /\ dropped' = dropped
  BY DEF InterventionEnds, InterventionRecorded, InterventionFails,
         ActivityStill, WaitStill, unsignalled, input, rows, process
<1>2. \A a \in Actions : ~AtHand(a)
  BY <1>1 DEF AtHand
<1>3. Pending' = Pending
  BY <1>1, StillWait DEF ActivityStill
<1>4. CASE wrote /\ InterventionRecorded
  <2>1. pc' = "loop" /\ plan' = ParkedPlan /\ closed' = closed
    BY <1>4 DEF InterventionRecorded, Return
  <2>2. InterventionsOK'
    BY <1>1, <2>1 DEF WaitInv, InterventionsOK, ActivityStill, WaitStill
  <2>3. RestOK'
    <3> SUFFICES ASSUME status' # "completed", Pending' = {}, dropped' = {}
                 PROVE  Waits(plan)'
      BY <2>1 DEF RestOK
    <3>1. wakes = {"operator"}
      BY <1>1, <1>3, <1>4 DEF WaitInv, RestOK, ActivityStill, WaitStill
    <3>2. \A p : Waits(p)' <=> Waits(p)
      BY <1>1, WaitsStill DEF ActivityStill, WaitStill
    <3> QED
      BY <2>1, <3>1, <3>2, ParkedWaits
  <2> QED
    BY <1>1, <1>2, <2>1, <2>2, <2>3, LeavesWait DEF ActivityStill
<1>5. CASE InterventionFails /\ Preempted /\ pc' = "loop"
  <2>1. closed' = closed
    BY <1>5 DEF InterventionFails, TurnFails
  <2> QED
    BY <1>1, <1>2, <1>5, <2>1, InterruptedWait
<1>6. CASE InterventionFails /\ pc' # "loop"
  <2>1. \/ pc' = "failure" /\ depth' = depth
        \/ pc' = "failure" /\ depth > 0 /\ depth' = depth - 1
        \/ pc' = "failed"
    BY <1>6 DEF InterventionFails, TurnFails, Return
  <2>2. /\ base \in Nat /\ depth \in Nat
        /\ \A t \in intervened : t \in Nat
    BY MailboxAssumption DEF TypeOK, JourneyInv, RowsInv, TablesOK, TurnInv,
                             ThreadOK
  <2>3. /\ \A t \in intervened : /\ t < base + Len(lineage)
                                 /\ t < base \/ t >= base + depth
        /\ (base + depth \in intervened /\ Pending = {}
            /\ status # "completed") => wakes = {"operator"}
    BY <1>1 DEF WaitInv, InterventionsOK, turnId
  <2>4. UNCHANGED <<intervened, base, lineage, status, wakes>>
    BY <1>1 DEF ActivityStill, WaitStill
  <2>5. InterventionsOK'
    <3>1. CASE pc' = "failure" /\ depth' = depth
      BY <1>3, <2>3, <2>4, <3>1 DEF InterventionsOK, turnId
    <3>2. CASE pc' = "failure" /\ depth > 0 /\ depth' = depth - 1
      <4>1. \A t \in intervened : t < base \/ t >= base + depth - 1
        BY <2>2, <2>3
      <4>2. \A t \in intervened : t # base + depth - 1
        BY <2>2, <2>3, <3>2
      <4>3. turnId' = base + depth - 1
        BY <2>2, <2>4, <3>2 DEF turnId
      <4> QED
        BY <2>3, <2>4, <3>2, <4>1, <4>2, <4>3 DEF InterventionsOK
    <3>3. CASE pc' = "failed"
      BY <2>3, <2>4, <3>3 DEF InterventionsOK
    <3> QED
      BY <2>1, <3>1, <3>2, <3>3
  <2>6. RestOK'
    BY <1>1, <2>1 DEF RestOK
  <2> QED
    BY <1>1, <1>2, <2>1, <2>5, <2>6, LeavesWait DEF ActivityStill
<1>7. InterventionFails /\ pc' = "loop" => Preempted
  BY <1>1 DEF InterventionFails, TurnFails
<1> QED
  BY <1>4, <1>5, <1>6, <1>7 DEF InterventionEnds

-----------------------------------------------------------------------------
(* The theorems. *)

(* Initially nothing is committed, and the mailbox has not started. *)
LEMMA InitWait == JourneyInit => WaitInv
<1> SUFFICES ASSUME JourneyInit PROVE WaitInv
  OBVIOUS
<1>1. /\ status = "active" /\ request = [a \in Actions |-> "none"]
      /\ intervened = {}
      /\ committed = <<>> /\ delivered = <<>>
      /\ taken = <<>> /\ pc = "prestart" /\ plan = NoPlan
      /\ carried = EmptyContinuation
  BY DEF JourneyInit, Init
<1>2. Pending = {}
  BY <1>1 DEF Pending, Range
<1>3. FifoOK
  BY <1>1 DEF FifoOK, Distinct
<1>4. PausesOK /\ StartedOK /\ OpenOK /\ DecisionOK /\ InterventionsOK
  BY <1>1, <1>2 DEF PausesOK, StartedOK, OpenOK, DecisionOK, InterventionsOK,
                    EmptyContinuation
<1>5. RestOK
  BY <1>1 DEF RestOK, EmptyContinuation
<1> QED
  BY <1>3, <1>4, <1>5 DEF WaitInv

(* Every step keeps the invariant, if messages are delivered in order. *)
LEMMA NextWait ==
  ~Reordered /\ TypeOK /\ Inv /\ JourneyInv /\ WaitInv /\ [JourneyNext]_journey
    => WaitInv'
<1> SUFFICES ASSUME ~Reordered, TypeOK, Inv, JourneyInv, WaitInv,
                    [JourneyNext]_journey
             PROVE  WaitInv'
  OBVIOUS
<1>1. CASE Workflow
  BY <1>1, HousekeepingWait, WakeByWait, AgentReturnsWait, WriteActionsWait,
     ActionsReturnWait, WriteStateWait, StateReturnsWait, TurnFailsInWait,
     ExecutingWait, SettlesWait, GivesUpWait, WriteInterventionWait,
     InterventionEndsWait DEF Workflow
<1>2. CASE UNCHANGED journey
  <2>1. /\ WaitStill /\ request' = request
        /\ UNCHANGED <<carried, started, plan, closed, pc, direct, depth, todo>>
        /\ UNCHANGED <<base, lineage, decision, wrote, revision, job, dropped>>
    BY <1>2 DEF journey, mailbox, thread, rows, process, WaitStill
  <2>2. Pending' = Pending /\ FifoOK' /\ PausesOK'
    BY <2>1, StillWait
  <2>3. StartedOK' /\ DecisionOK'
    BY <2>1, <2>2 DEF WaitInv, WaitStill, StartedOK, DecisionOK
  <2>4. OpenOK'
    BY <2>1, <2>2 DEF WaitInv, WaitStill, OpenOK, AtHand
  <2>5. InterventionsOK'
    BY <2>1, <2>2 DEF WaitInv, WaitStill, InterventionsOK, turnId
  <2>6. RestOK'
    BY <2>1, <2>2
       DEF WaitInv, WaitStill, RestOK, Waits, Matches, Moving, NeedsHuman
  <2> QED
    BY <2>2, <2>3, <2>4, <2>5, <2>6 DEF WaitInv
<1> QED
  BY <1>1, <1>2, OperatorWait, DeliverWait, LateSettlesWait DEF JourneyNext

(* Where nothing is under way, the mailbox has acted upon every command,   *)
(* and has a wake plan.                                                    *)
LEMMA QuiescentWaits ==
  ASSUME Inv, JourneyInv, WaitInv, Quiescent, dropped = {}, committed # <<>>
  PROVE  Waits(plan)
<1>1. /\ pc = "loop" /\ ~closed /\ Undelivered = {} /\ NextWake = "none"
      /\ status # "completed"
  BY DEF Quiescent
<1>2. committed \in Seq(Items)
  BY DEF JourneyInv, RowsInv, OutboxOK
<1>3. \A i \in Range(committed) \ Range(taken) : i \in Range(buffer) /\ i \in Items
  BY <1>1, <1>2, RangeSeq DEF Undelivered, Inv, Books, CarriedOver
<1>4. /\ ~Buffered(Reviews) /\ ~Buffered({"resolution"}) /\ ~Buffered(Controls)
      /\ ~Buffered({"manual_wake"})
      /\ ~started /\ ~plan.set => ~Buffered(EventTypes)
  BY <1>1 DEF NextWake
<1>5. Pending = {}
  BY <1>3, <1>4 DEF Pending, Buffered, CommandKinds
<1>6. started
  <2> SUFFICES ASSUME ~started PROVE FALSE
    OBVIOUS
  <2>1. taken = <<>> /\ plan = NoPlan
    BY <1>1 DEF WaitInv, StartedOK
  <2>2. Range(taken) = {} /\ ~plan.set
    BY <2>1 DEF Range, NoPlan
  <2>3. committed[1] \in Range(committed)
    BY <1>2, RangeSeq
  <2>4. PICK i \in Items : i \in Range(buffer)
    BY <1>3, <2>2, <2>3
  <2>5. Kind[i] \in EventTypes \cup CommandKinds
    BY MailboxAssumption
  <2> QED
    BY <1>4, <2>2, <2>4, <2>5 DEF Buffered, CommandKinds
<1> QED
  BY <1>1, <1>5, <1>6 DEF WaitInv, RestOK

(* If the outbox delivers in the order of the commits, PostgreSQL and the  *)
(* mailbox wait for the same whenever the mailbox sleeps, whatever turns   *)
(* fail, are interrupted or are retried, and whatever operators and        *)
(* reviewers commit meanwhile (state.py, mailbox.py:989-1030).             *)
THEOREM WakesAgree == ~Reordered => (JourneySpec => []SameWakes)
<1> SUFFICES ASSUME ~Reordered PROVE JourneySpec => []SameWakes
  OBVIOUS
<1>1. Inv /\ JourneyInv /\ WaitInv => SameWakes
  BY QuiescentWaits DEF SameWakes, Waits, Matches
<1>2. TypeOK /\ Inv /\ JourneyInv /\ WaitInv /\ [JourneyNext]_journey => WaitInv'
  BY NextWait
<1> QED
  BY <1>1, <1>2, JourneyInitInv, JourneyNextInv, InitWait,
     JourneyRunsTheMailbox, Invariance, PTL DEF JourneySpec

(* And if the definition denies none of its actions, no process sleeps for *)
(* good: a wake, a review, an operator or an intervention is there to end  *)
(* it, but behind an action whose execution was given up on                *)
(* (docs/reviews/2026-08-31-post-review-commit.md:111-116).                *)
THEOREM NobodyIsStranded ==
  ~Reordered /\ "deny" \notin Outcomes => (JourneySpec => []NeverStranded)
<1> SUFFICES ASSUME ~Reordered, "deny" \notin Outcomes
             PROVE  JourneySpec => []NeverStranded
  OBVIOUS
<1>1. Inv /\ JourneyInv /\ WaitInv => NeverStranded
  BY QuiescentWaits DEF NeverStranded, Progresses, Waits, Matches, Moving
<1>2. TypeOK /\ Inv /\ JourneyInv /\ WaitInv /\ [JourneyNext]_journey => WaitInv'
  BY NextWait
<1> QED
  BY <1>1, <1>2, JourneyInitInv, JourneyNextInv, InitWait,
     JourneyRunsTheMailbox, Invariance, PTL DEF JourneySpec
-----------------------------------------------------------------------------
(* The mailbox implements the queues. *)

(* Both modules speak of the same range. *)
LEMMA SameRange ==
  \A s : Promised!Range(s) = Range(s)
BY DEF Promised!Range, Range

(* An item that is acted upon is next in its queue: what arrived before it *)
(* and is not buffered has been acted upon.                                *)
LEMMA TakesIsAct ==
  ASSUME Inv, NEW kinds, Takes(kinds)
  PROVE  \E n \in 1 .. Len(delivered) : Promised!Act(n)
<1>1. /\ pc = "loop" /\ Buffered(kinds) /\ Take(kinds) /\ delivered' = delivered
      /\ \A i, j \in Items :
           SameQueue(i, j) /\ Kind[i] \in kinds => Kind[j] \in kinds
      /\ delivered \in Seq(Items) /\ carried.buffer = <<>> /\ carried.seen = {}
  BY DEF Takes, Inv, AreSequences, CarriedOver
<1>2. PICK x \in Range(buffer) :
        /\ x = buffer[First(kinds)] /\ Kind[x] \in kinds /\ x \in Items
        /\ \A j \in Range(buffer) : Kind[j] \in kinds /\ j # x => Before(x, j)
  BY <1>1, FirstTaken
<1>3. x \in Range(delivered) /\ x \notin Range(taken)
  BY <1>1, <1>2 DEF Inv, Books
<1>4. PICK n \in 1 .. Len(delivered) : delivered[n] = x
  BY <1>1, <1>3, RangeSeq
<1>5. ASSUME NEW m \in 1 .. n - 1, SameQueue(delivered[m], x)
      PROVE  delivered[m] \in Range(taken)
  <2>1. /\ m \in 1 .. Len(delivered) /\ m < n /\ Len(delivered) \in Nat
    BY <1>1, <1>4, <1>5, RangeSeq
  <2>2. delivered[m] \in Items /\ delivered[m] \in Range(delivered)
    BY <1>1, <2>1, RangeSeq
  <2>3. delivered[m] \in Range(buffer) \cup Range(taken)
    BY <1>1, <2>2 DEF Inv, Books
  <2>4. Kind[delivered[m]] \in kinds
    <3>1. SameQueue(x, delivered[m])
      BY <1>5 DEF SameQueue
    <3> QED
      BY <1>1, <1>2, <2>2, <3>1
  <2>5. ASSUME delivered[m] \in Range(buffer) PROVE FALSE
    <3>1. delivered[m] # x
      BY <1>4, <2>1 DEF Inv, NoRepeats, Distinct
    <3>2. Before(x, delivered[m])
      BY <1>2, <2>4, <2>5, <3>1
    <3> QED
      BY <1>4, <2>1, <3>2 DEF Before
  <2> QED
    BY <2>3, <2>5
<1>6. taken' = Append(taken, delivered[n])
  BY <1>1, <1>2, <1>4 DEF Take
<1> QED
  BY <1>1, <1>3, <1>4, <1>5, <1>6, SameRange DEF Promised!Act, Promised!IsNext

(* Every step is a step of the queues, or none. *)
LEMMA QueuesStep ==
  ASSUME TypeOK, Inv, [Next]_vars
  PROVE  [Promised!QueuesNext]_(Promised!qvars)
<1>1. CASE \E i \in Items : Receive(i)
  BY <1>1, SameRange
     DEF Receive, Promised!QueuesNext, Promised!Arrive, Promised!qvars
<1>2. CASE \E kinds : Takes(kinds)
  BY <1>2, TakesIsAct DEF Promised!QueuesNext
<1>3. CASE Restore \/ ContinueAsNew \/ Still
  BY <1>3 DEF Restore, ContinueAsNew, Still, Promised!qvars
<1>4. plan \in Plan
  BY DEF TypeOK
<1> QED
  BY <1>1, <1>2, <1>3, <1>4, StepKinds

(* An item acts once, and after what arrived before it in its queue,       *)
(* whatever is redelivered, carried over or preempted (receive_*, the loop *)
(* of run(), _continuation_input and _restore_continuation).               *)
THEOREM MailboxImplementsQueues == Spec => ImplementsQueues
<1>1. Init => Promised!QueuesInit
  BY DEF Init, Promised!QueuesInit
<1>2. TypeOK /\ Inv /\ [Next]_vars => [Promised!QueuesNext]_(Promised!qvars)
  BY QueuesStep
<1>3. Spec => Promised!QueuesSpec
  BY <1>1, <1>2, Invariance, PTL DEF Spec, Promised!QueuesSpec
<1> QED
  BY <1>3 DEF ImplementsQueues

(* So does the mailbox of a process as its reviewers, operators and        *)
(* executors use it.                                                       *)
THEOREM JourneyImplementsQueues == JourneySpec => ImplementsQueues
BY JourneyRunsTheMailbox, MailboxImplementsQueues
=============================================================================
