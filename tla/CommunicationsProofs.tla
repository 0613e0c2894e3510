------------------------ MODULE CommunicationsProofs ------------------------
(***************************************************************************)
(* Proofs about Communications for every finite set of outbound actions,   *)
(* every policy, every time zone and every bound on time, lag, events and  *)
(* crashes: the customer is not contacted beyond the limits, no provider   *)
(* call crosses an opt-out, and the blocks of the rate and the interval    *)
(* end exactly when they say.                                              *)
(***************************************************************************)
EXTENDS Communications, FiniteSetTheorems, WellFoundedInduction, TLAPS

USE DEF inbound, zone, EventKind

(* Counting: one more element, or fewer of them. *)
LEMMA OneMore ==
  ASSUME NEW S, IsFiniteSet(S), NEW d, d \notin S, NEW n \in Nat,
         ~(Cardinality(S) + 1 > n)
  PROVE  Cardinality(S \cup {d}) <= n
<1>1. Cardinality(S \cup {d}) = Cardinality(S) + 1 /\ Cardinality(S) \in Nat
  BY FS_AddElement, FS_CardinalityType
<1> QED
  BY <1>1

(* A subset of what is within a limit is within it. *)
LEMMA Fewer ==
  ASSUME NEW S, IsFiniteSet(S), NEW T, T \subseteq S, NEW n \in Nat,
         Cardinality(S) <= n
  PROVE  IsFiniteSet(T) /\ Cardinality(T) <= n
<1>1. /\ IsFiniteSet(T) /\ Cardinality(T) <= Cardinality(S)
      /\ Cardinality(S) \in Nat /\ Cardinality(T) \in Nat
  BY FS_Subset, FS_CardinalityType
<1> QED
  BY <1>1

(* The reserved messages are finitely many. *)
LEMMA OutboundFinite == IsFiniteSet(Outbound) /\ Outbound \subseteq Action
BY CommunicationsAssumption, FS_Subset DEF Outbound

-----------------------------------------------------------------------------
(* The inductive invariant, next to the properties themselves. *)

(* An executor at work has set its action to executing, with an attempt. *)
ExecutorOwns ==
  \A a \in Action : pc[a] # "idle" => status[a] = "executing" /\ attempted[a]

(* Before the first attempt nothing is under way, and an action that is    *)
(* not yet executed, or never will be, has none.                           *)
UntriedIsClean ==
  \A a \in Action :
    /\ status[a] \in {"none", "pending_approval", "allowed", "denied"} =>
         ~attempted[a]
    /\ ~attempted[a] => ~inFlight[a] /\ sentAt[a] = 0

(* What the executor records is an outcome. *)
RecordsOutcome == \A a \in Action : pc[a] = "record" => result[a] # "none"

(* Without an idempotency guarantee a call is authorized only once, and    *)
(* only a message that cannot escape any more is given up as failed.       *)
FailedIsHarmless ==
  \A a \in Action \ Idempotent :
    \/ pc[a] = "authorize"
    \/ pc[a] = "record" /\ result[a] = "failed"
    \/ status[a] = "failed"
    => ~inFlight[a] /\ sentAt[a] = 0

(* Reservations are dated in the past. *)
CreatedInPast == \A a \in Action : created[a] <= now

Inv ==
  /\ ContactWithinLimits /\ NoCallAcrossOptOut
  /\ ExecutorOwns /\ UntriedIsClean /\ RecordsOutcome /\ FailedIsHarmless
  /\ CreatedInPast

-----------------------------------------------------------------------------
(* Types. *)

(* Every step keeps the types. *)
LEMMA TypeStep == TypeOK /\ [Next]_vars => TypeOK'
<1> SUFFICES ASSUME TypeOK, [Next]_vars PROVE TypeOK'
  OBVIOUS
<1> USE CommunicationsAssumption DEF TypeOK, ReservedStatus
<1>1. ASSUME NEW D \in SUBSET Action, Reserve(D) PROVE TypeOK'
  BY <1>1 DEF Reserve
<1>2. ASSUME NEW a \in Action, Review(a) PROVE TypeOK'
  BY <1>2 DEF Review
<1>3. ASSUME NEW a \in Action, ExecuteBegin(a) PROVE TypeOK'
  BY <1>3 DEF ExecuteBegin
<1>4. ASSUME NEW a \in Action, Lookup(a) PROVE TypeOK'
  BY <1>4 DEF Lookup, Conclude
<1>5. ASSUME NEW a \in Action, Authorize(a) PROVE TypeOK'
  BY <1>5 DEF Authorize, Conclude
<1>6. ASSUME NEW a \in Action, Returns(a) PROVE TypeOK'
  BY <1>6 DEF Returns, Conclude
<1>7. ASSUME NEW a \in Action, Record(a) PROVE TypeOK'
  BY <1>7 DEF Record
<1>8. ASSUME NEW a \in Action, Send(a) PROVE TypeOK'
  BY <1>8 DEF Send
<1>9. ASSUME NEW a \in Action, Crash(a) PROVE TypeOK'
  BY <1>9 DEF Crash
<1>10. ASSUME NEW a \in Action, ResolveUnknown(a) PROVE TypeOK'
  BY <1>10 DEF ResolveUnknown
<1>11. ASSUME NEW kind \in EventKind, Receive(kind) PROVE TypeOK'
  <2>1. automated' \in BOOLEAN /\ optedOut' \in BOOLEAN
    BY <1>11 DEF Receive
  <2>2. reply' \in 0 .. MaxTime /\ latest' \in 0 .. MaxTime
    BY <1>11 DEF Receive
  <2> QED
    BY <1>11, <2>1, <2>2 DEF Receive
<1>12. CASE Tick
  BY <1>12 DEF Tick
<1>13. CASE UNCHANGED vars
  BY <1>13 DEF vars
<1> QED
  BY <1>1, <1>2, <1>3, <1>4, <1>5, <1>6, <1>7, <1>8, <1>9, <1>10, <1>11,
     <1>12, <1>13 DEF Next, Execute

-----------------------------------------------------------------------------
(* The life of one action. *)

(* Who owns an action, and what is clean before the first attempt. *)
LEMMA OwnerStep ==
  TypeOK /\ ExecutorOwns /\ UntriedIsClean /\ RecordsOutcome /\ [Next]_vars
    => ExecutorOwns' /\ UntriedIsClean' /\ RecordsOutcome'
<1> SUFFICES ASSUME TypeOK, ExecutorOwns, UntriedIsClean, RecordsOutcome,
                    [Next]_vars
             PROVE  ExecutorOwns' /\ UntriedIsClean' /\ RecordsOutcome'
  OBVIOUS
<1> USE DEF TypeOK, ExecutorOwns, UntriedIsClean, RecordsOutcome
<1>1. ASSUME NEW D \in SUBSET Action, Reserve(D)
      PROVE  ExecutorOwns' /\ UntriedIsClean' /\ RecordsOutcome'
  BY <1>1 DEF Reserve
<1>2. ASSUME NEW a \in Action, Review(a)
      PROVE  ExecutorOwns' /\ UntriedIsClean' /\ RecordsOutcome'
  BY <1>2 DEF Review
<1>3. ASSUME NEW a \in Action, ExecuteBegin(a)
      PROVE  ExecutorOwns' /\ UntriedIsClean' /\ RecordsOutcome'
  BY <1>3 DEF ExecuteBegin
<1>4. ASSUME NEW a \in Action, Lookup(a)
      PROVE  ExecutorOwns' /\ UntriedIsClean' /\ RecordsOutcome'
  BY <1>4 DEF Lookup, Conclude
<1>5. ASSUME NEW a \in Action, Authorize(a)
      PROVE  ExecutorOwns' /\ UntriedIsClean' /\ RecordsOutcome'
  BY <1>5 DEF Authorize, Conclude
<1>6. ASSUME NEW a \in Action, Returns(a)
      PROVE  ExecutorOwns' /\ UntriedIsClean' /\ RecordsOutcome'
  BY <1>6 DEF Returns, Conclude
<1>7. ASSUME NEW a \in Action, Record(a)
      PROVE  ExecutorOwns' /\ UntriedIsClean' /\ RecordsOutcome'
  BY <1>7 DEF Record
<1>8. ASSUME NEW a \in Action, Send(a)
      PROVE  ExecutorOwns' /\ UntriedIsClean' /\ RecordsOutcome'
  BY <1>8 DEF Send
<1>9. ASSUME NEW a \in Action, Crash(a)
      PROVE  ExecutorOwns' /\ UntriedIsClean' /\ RecordsOutcome'
  BY <1>9 DEF Crash
<1>10. ASSUME NEW a \in Action, ResolveUnknown(a)
       PROVE  ExecutorOwns' /\ UntriedIsClean' /\ RecordsOutcome'
  BY <1>10 DEF ResolveUnknown
<1>11. ASSUME UNCHANGED <<status, attempted, pc, result, inFlight, sentAt>>
       PROVE  ExecutorOwns' /\ UntriedIsClean' /\ RecordsOutcome'
  BY <1>11
<1> QED
  BY <1>1, <1>2, <1>3, <1>4, <1>5, <1>6, <1>7, <1>8, <1>9, <1>10, <1>11
  DEF Next, Execute, Receive, Tick, vars

(* Only what cannot escape any more is recorded as failed. *)
LEMMA FailedStep ==
  TypeOK /\ ExecutorOwns /\ UntriedIsClean /\ RecordsOutcome
    /\ FailedIsHarmless /\ [Next]_vars
    => FailedIsHarmless'
<1> SUFFICES ASSUME TypeOK, ExecutorOwns, UntriedIsClean, RecordsOutcome,
                    FailedIsHarmless, [Next]_vars
             PROVE  FailedIsHarmless'
  OBVIOUS
<1> USE DEF TypeOK, ExecutorOwns, UntriedIsClean, RecordsOutcome,
            FailedIsHarmless
<1>1. ASSUME NEW D \in SUBSET Action, Reserve(D)
      PROVE  FailedIsHarmless'
  BY <1>1 DEF Reserve
<1>2. ASSUME NEW a \in Action, Review(a)
      PROVE  FailedIsHarmless'
  BY <1>2 DEF Review
<1>3. ASSUME NEW a \in Action, ExecuteBegin(a)
      PROVE  FailedIsHarmless'
  BY <1>3 DEF ExecuteBegin
<1>4. ASSUME NEW a \in Action, Lookup(a)
      PROVE  FailedIsHarmless'
  BY <1>4 DEF Lookup, Conclude
<1>5. ASSUME NEW a \in Action, Authorize(a)
      PROVE  FailedIsHarmless'
  BY <1>5 DEF Authorize, Conclude
<1>6. ASSUME NEW a \in Action, Returns(a)
      PROVE  FailedIsHarmless'
  BY <1>6 DEF Returns, Conclude
<1>7. ASSUME NEW a \in Action, Record(a)
      PROVE  FailedIsHarmless'
  BY <1>7 DEF Record
<1>8. ASSUME NEW a \in Action, Send(a)
      PROVE  FailedIsHarmless'
  BY <1>8 DEF Send
<1>9. ASSUME NEW a \in Action, Crash(a)
      PROVE  FailedIsHarmless'
  BY <1>9 DEF Crash
<1>10. ASSUME NEW a \in Action, ResolveUnknown(a)
       PROVE  FailedIsHarmless'
  BY <1>10 DEF ResolveUnknown
<1>11. ASSUME UNCHANGED <<status, pc, result, inFlight, sentAt>>
       PROVE  FailedIsHarmless'
  BY <1>11
<1> QED
  BY <1>1, <1>2, <1>3, <1>4, <1>5, <1>6, <1>7, <1>8, <1>9, <1>10, <1>11
  DEF Next, Execute, Receive, Tick, vars

(* A message that was sent, or may still be, is neither unattempted nor    *)
(* failed, so that it is reserved.                                         *)
LEMMA EscapedIsReserved ==
  TypeOK /\ UntriedIsClean /\ FailedIsHarmless => EscapedStaysReserved
BY DEF TypeOK, UntriedIsClean, FailedIsHarmless, EscapedStaysReserved,
       ReservedStatus

(* The process lock is held while a provider is called: no event is        *)
(* committed meanwhile, and the policy was evaluated under the lock.       *)
LEMMA OptOutStep ==
  TypeOK /\ NoCallAcrossOptOut /\ [Next]_vars => NoCallAcrossOptOut'
<1> SUFFICES ASSUME TypeOK, NoCallAcrossOptOut, [Next]_vars
             PROVE  NoCallAcrossOptOut'
  OBVIOUS
<1> USE DEF TypeOK, NoCallAcrossOptOut
<1>1. ASSUME NEW a \in Action, ExecuteBegin(a) \/ Lookup(a) \/ Returns(a)
                               \/ Record(a) \/ Crash(a)
      PROVE  NoCallAcrossOptOut'
  BY <1>1 DEF ExecuteBegin, Lookup, Returns, Record, Crash, Conclude
<1>2. ASSUME NEW a \in Action, Authorize(a) PROVE NoCallAcrossOptOut'
  <2>1. CASE BlocksExecution(a, now)
    BY <1>2, <2>1 DEF Authorize, Conclude
  <2>2. CASE ~BlocksExecution(a, now)
    <3>1. ~optedOut /\ ~automated
      BY <2>2 DEF BlocksExecution, Blocked
    <3> QED
      BY <1>2, <2>2, <3>1 DEF Authorize
  <2> QED
    BY <2>1, <2>2
<1>3. ASSUME NEW kind \in EventKind, Receive(kind) PROVE NoCallAcrossOptOut'
  BY <1>3 DEF Receive, ProcessUnlocked
<1>4. ASSUME UNCHANGED <<pc, automated, optedOut>> PROVE NoCallAcrossOptOut'
  BY <1>4
<1> QED
  BY <1>1, <1>2, <1>3, <1>4
  DEF Next, Execute, Reserve, Review, Send, ResolveUnknown, Tick, vars

-----------------------------------------------------------------------------
(* The limits. *)

(* Fewer reserved messages, or a later reply, stay within the limits. *)
LEMMA LimitsShrink ==
  ASSUME TypeOK, TypeOK', ReservedWithinLimits, ReservedApart,
         Outbound' \subseteq Outbound, created' = created, reply' >= reply
  PROVE  ReservedWithinLimits' /\ ReservedApart'
<1> USE CommunicationsAssumption
<1>1. Cardinality(Outbound') <= Policy.total
  BY Fewer, OutboundFinite DEF ReservedWithinLimits
<1>2. ASSUME NEW b \in Outbound'
      PROVE  Cardinality({a \in Outbound' : created[b] <= created[a]
                              /\ created[a] + Ahead < created[b] + Policy.window})
               <= Policy.perWindow
  <2> DEFINE W == {a \in Outbound : created[b] <= created[a]
                              /\ created[a] + Ahead < created[b] + Policy.window}
  <2>1. IsFiniteSet(W) /\ Cardinality(W) <= Policy.perWindow
    BY <1>2, OutboundFinite, FS_Subset DEF ReservedWithinLimits
  <2>2. {a \in Outbound' : created[b] <= created[a]
                 /\ created[a] + Ahead < created[b] + Policy.window} \subseteq W
    OBVIOUS
  <2> QED
    BY <2>1, <2>2, Fewer
<1>3. {a \in Outbound' : created[a] > reply'} \subseteq
        {a \in Outbound : created[a] > reply}
  BY OutboundFinite DEF TypeOK
<1>4. Cardinality({a \in Outbound' : created[a] > reply'}) <= Policy.followUps
  <2>1. /\ IsFiniteSet({a \in Outbound : created[a] > reply})
        /\ Cardinality({a \in Outbound : created[a] > reply})
             <= Policy.followUps
    BY OutboundFinite, FS_Subset DEF ReservedWithinLimits, SinceReply
  <2> QED
    BY <1>3, <2>1, Fewer
<1>5. ReservedWithinLimits'
  BY <1>1, <1>2, <1>4 DEF ReservedWithinLimits, SinceReply
<1>6. ReservedApart'
  BY <1>3 DEF ReservedApart, SinceReply
<1> QED
  BY <1>5, <1>6

(* A reservation that the policy does not block, for each of its messages  *)
(* with the others counted, stays within the limits.                       *)
LEMMA LimitsReserve ==
  ASSUME TypeOK, ReservedWithinLimits, ReservedApart,
         NEW D \in SUBSET Action, Reserve(D)
  PROVE  ReservedWithinLimits' /\ ReservedApart'
<1> USE CommunicationsAssumption
<1>1. PICK start \in (now - Lag) .. now, t \in Int,
           outcome \in [D -> {"allowed", "pending_approval"}] :
        LET at == [a \in Action |-> IF a \in D THEN start ELSE created[a]]
        IN /\ t <= start + Ahead /\ ~BlocksReservation(D, at, t)
           /\ created' = at
           /\ status' = [a \in Action |-> IF a \in D THEN outcome[a]
                                           ELSE status[a]]
  <2>1. now \in Int /\ Lag \in Int /\ Ahead \in Int
    BY DEF TypeOK
  <2>2. \A s \in (now - Lag) .. now : \A w \in (now - Lag) .. (s + Ahead) :
          w \in Int /\ w <= s + Ahead
    BY <2>1
  <2>3. PICK start \in (now - Lag) .. now,
             outcome \in [D -> {"allowed", "pending_approval"}] :
          \E t \in (now - Lag) .. (start + Ahead) :
            LET at == [a \in Action |-> IF a \in D THEN start ELSE created[a]]
            IN /\ ~BlocksReservation(D, at, t)
               /\ created' = at
               /\ status' = [a \in Action |-> IF a \in D THEN outcome[a]
                                               ELSE status[a]]
    BY DEF Reserve
  <2>4. PICK t \in (now - Lag) .. (start + Ahead) :
            LET at == [a \in Action |-> IF a \in D THEN start ELSE created[a]]
            IN /\ ~BlocksReservation(D, at, t)
               /\ created' = at
               /\ status' = [a \in Action |-> IF a \in D THEN outcome[a]
                                               ELSE status[a]]
    BY <2>3
  <2>5. t \in Int /\ t <= start + Ahead
    BY <2>2
  <2> QED
    BY <2>4, <2>5
<1>2. PICK at : at = created'
  OBVIOUS
<1>3. /\ at \in [Action -> Int] /\ start \in Int /\ t \in Int
      /\ t <= start + Ahead /\ Ahead \in Nat
      /\ now \in Int /\ reply \in Int /\ reply' = reply
      /\ \A a \in D : at[a] = start
      /\ \A a \in Action \ D : at[a] = created[a]
  BY <1>1, <1>2 DEF TypeOK, Reserve
<1>4. PICK S : S = Outbound
  OBVIOUS
<1>5. PICK T : T = Outbound'
  OBVIOUS
<1>6. /\ T = S \cup D /\ S \cap D = {} /\ IsFiniteSet(S) /\ S \subseteq Action
      /\ T \subseteq Action
  <2>1. \A a \in D : status[a] = "none"
    BY DEF Reserve
  <2> QED
    BY <1>1, <1>4, <1>5, <2>1, OutboundFinite DEF Outbound, ReservedStatus
<1>7. IsFiniteSet(T) /\ IsFiniteSet(D)
  BY <1>6, FS_Subset
<1>8. PICK d : d \in D
  BY DEF Reserve
<1>9. ASSUME NEW c \in D
      PROVE  /\ T = (S \cup (D \ {c})) \cup {c}
             /\ c \notin S \cup (D \ {c})
             /\ IsFiniteSet(S \cup (D \ {c}))
             /\ ~OverTotal(S \cup (D \ {c}), 1)
             /\ ~OverRate(S \cup (D \ {c}), at, 1, t)
             /\ ~OverFollowUps(S \cup (D \ {c}), at, 1)
             /\ ~TooSoon(S \cup (D \ {c}), at, t)
  <2>1. T = (S \cup (D \ {c})) \cup {c} /\ c \notin S \cup (D \ {c})
    BY <1>6, <1>9
  <2>2. IsFiniteSet(S \cup (D \ {c}))
    BY <1>7, <2>1, FS_Subset
  <2>3. ~Blocked(S \cup (D \ {c}), S \cup (D \ {c}), at, 1, t)
    BY <1>1, <1>2, <1>4, <1>9 DEF BlocksReservation
  <2> QED
    BY <2>1, <2>2, <2>3 DEF Blocked
<1>10. PICK R : R = S \cup (D \ {d})
  OBVIOUS
<1>11. Cardinality(T) <= Policy.total
  BY <1>8, <1>9, OneMore DEF OverTotal
<1>12. ASSUME NEW b \in T
       PROVE  Cardinality({a \in T : at[b] <= at[a]
                              /\ at[a] + Ahead < at[b] + Policy.window})
                <= Policy.perWindow
  <2> DEFINE W == {a \in T : at[b] <= at[a] /\ at[a] + Ahead < at[b] + Policy.window}
  <2>1. CASE b \in S /\ W \cap D = {}
    <3>1. W = {a \in S : created[b] <= created[a]
                         /\ created[a] + Ahead < created[b] + Policy.window}
      BY <1>3, <1>6, <2>1
    <3>2. Cardinality({a \in S : created[b] <= created[a]
                         /\ created[a] + Ahead < created[b] + Policy.window})
            <= Policy.perWindow
      BY <1>4, <2>1 DEF ReservedWithinLimits
    <3> QED
      BY <3>1, <3>2
  <2>2. CASE W = {}
    <3>1. Cardinality({}) = 0 /\ 0 <= Policy.perWindow
      BY FS_EmptySet
    <3> QED
      BY <2>2, <3>1
  <2>3. CASE ~(b \in S /\ W \cap D = {}) /\ W # {}
    <3>1. at[b] <= start /\ start + Ahead < at[b] + Policy.window
      BY <1>3, <1>6, <2>3
    <3> DEFINE V == {a \in R : at[a] > t - Policy.window}
    <3>2. W \subseteq V \cup {d}
      BY <1>3, <1>6, <1>8, <1>9, <1>10, <3>1
    <3>3. IsFiniteSet(R) /\ d \notin R /\ V \subseteq R
      BY <1>8, <1>9, <1>10
    <3>4. IsFiniteSet(V) /\ IsFiniteSet(V \cup {d})
      BY <3>3, FS_Subset, FS_AddElement
    <3>5. ~(Cardinality(V) + 1 > Policy.perWindow)
      BY <1>8, <1>9, <1>10 DEF OverRate, InWindow
    <3>6. Cardinality(V \cup {d}) <= Policy.perWindow
      BY <3>3, <3>4, <3>5, OneMore
    <3> QED
      BY <3>2, <3>4, <3>6, Fewer
  <2> QED
    BY <2>1, <2>2, <2>3
<1>13. Cardinality({a \in T : at[a] > reply}) <= Policy.followUps
  <2>1. CASE start <= reply
    <3>1. {a \in T : at[a] > reply} = {a \in S : created[a] > reply}
      BY <1>3, <1>6, <2>1
    <3> QED
      BY <1>4, <3>1 DEF ReservedWithinLimits, SinceReply
  <2>2. CASE start > reply
    <3> DEFINE V == {a \in R : at[a] > reply}
    <3>1. {a \in T : at[a] > reply} = V \cup {d}
      BY <1>3, <1>6, <1>8, <1>9, <1>10, <2>2
    <3>2. IsFiniteSet(R) /\ d \notin R /\ V \subseteq R
      BY <1>8, <1>9, <1>10
    <3>3. IsFiniteSet(V)
      BY <3>2, FS_Subset
    <3>4. ~(Cardinality(V) + 1 > Policy.followUps)
      BY <1>8, <1>9, <1>10 DEF OverFollowUps, SinceReply
    <3> QED
      BY <3>1, <3>2, <3>3, <3>4, OneMore
  <2> QED
    BY <1>3, <2>1, <2>2
<1>14. ASSUME NEW c \in D, NEW b \in T, at[b] > reply, b # c
       PROVE  at[b] + Policy.interval <= at[c] + Ahead
  <2>1. b \in S \cup (D \ {c}) /\ ~TooSoon(S \cup (D \ {c}), at, t)
    BY <1>6, <1>9, <1>14
  <2>2. at[b] + Policy.interval <= t
    BY <1>3, <1>6, <1>14, <2>1 DEF TooSoon, SinceReply
  <2> QED
    BY <1>3, <1>6, <1>14, <2>2
<1>15. ASSUME NEW a \in T, NEW b \in T, at[a] > reply, at[b] > reply, a # b
       PROVE  \/ at[a] + Policy.interval <= at[b] + Ahead
              \/ at[b] + Policy.interval <= at[a] + Ahead
  <2>1. CASE a \in D \/ b \in D
    BY <1>14, <1>15, <2>1
  <2>2. CASE a \notin D /\ b \notin D
    BY <1>3, <1>4, <1>6, <1>15, <2>2 DEF ReservedApart, SinceReply
  <2> QED
    BY <2>1, <2>2
<1>16. ReservedWithinLimits'
  BY <1>2, <1>3, <1>5, <1>11, <1>12, <1>13 DEF ReservedWithinLimits, SinceReply
<1>17. ReservedApart'
  BY <1>2, <1>3, <1>5, <1>15 DEF ReservedApart, SinceReply
<1> QED
  BY <1>16, <1>17

(* Every other step leaves the reserved messages, or some of them. *)
LEMMA LimitsStep ==
  TypeOK /\ ExecutorOwns /\ RecordsOutcome /\ ReservedWithinLimits
    /\ ReservedApart /\ [Next]_vars
    => ReservedWithinLimits' /\ ReservedApart'
<1> SUFFICES ASSUME TypeOK, ExecutorOwns, RecordsOutcome,
                    ReservedWithinLimits, ReservedApart, [Next]_vars
             PROVE  ReservedWithinLimits' /\ ReservedApart'
  OBVIOUS
<1>1. TypeOK'
  BY TypeStep
<1>2. ASSUME NEW D \in SUBSET Action, Reserve(D)
      PROVE  ReservedWithinLimits' /\ ReservedApart'
  BY <1>2, LimitsReserve
<1>3. ASSUME Outbound' \subseteq Outbound, UNCHANGED <<created, reply>>
      PROVE  ReservedWithinLimits' /\ ReservedApart'
  BY <1>1, <1>3, LimitsShrink DEF TypeOK
<1>4. ASSUME NEW a \in Action,
             \/ Review(a) \/ ExecuteBegin(a) \/ Record(a) \/ ResolveUnknown(a)
      PROVE  ReservedWithinLimits' /\ ReservedApart'
  <2>1. Outbound' \subseteq Outbound /\ UNCHANGED <<created, reply>>
    <3>1. UNCHANGED <<created, reply>>
      BY <1>4 DEF Review, ExecuteBegin, Record, ResolveUnknown
    <3>2. status[a] \in ReservedStatus
      BY <1>4 DEF Review, ExecuteBegin, Record, ResolveUnknown, ExecutorOwns,
                  ReservedStatus
    <3>3. \A b \in Action : b # a => status'[b] = status[b]
      BY <1>4 DEF Review, ExecuteBegin, Record, ResolveUnknown, TypeOK
    <3> QED
      BY <3>1, <3>2, <3>3 DEF Outbound
  <2> QED
    BY <1>3, <2>1
<1>5. ASSUME NEW kind \in EventKind, Receive(kind)
      PROVE  ReservedWithinLimits' /\ ReservedApart'
  <2>1. created' = created /\ status' = status /\ reply' >= reply
    BY <1>5 DEF Receive, TypeOK
  <2> QED
    BY <1>1, <2>1, LimitsShrink DEF Outbound
<1>6. ASSUME UNCHANGED <<status, created, reply>>
      PROVE  ReservedWithinLimits' /\ ReservedApart'
  BY <1>3, <1>6 DEF Outbound
<1> QED
  BY <1>2, <1>4, <1>5, <1>6
  DEF Next, Execute, Lookup, Authorize, Returns, Send, Crash, Tick, vars,
      Conclude

(* A reservation is dated by the start of a transaction that has begun. *)
LEMMA PastStep == TypeOK /\ CreatedInPast /\ [Next]_vars => CreatedInPast'
<1> SUFFICES ASSUME TypeOK, CreatedInPast, [Next]_vars PROVE CreatedInPast'
  OBVIOUS
<1> USE CommunicationsAssumption DEF TypeOK, CreatedInPast
<1>1. ASSUME NEW D \in SUBSET Action, Reserve(D) PROVE CreatedInPast'
  BY <1>1 DEF Reserve
<1>2. CASE Tick
  BY <1>2 DEF Tick
<1>3. ASSUME UNCHANGED <<created, now>> PROVE CreatedInPast'
  BY <1>3
<1> QED
  BY <1>1, <1>2, <1>3
  DEF Next, Execute, Review, ExecuteBegin, Lookup, Authorize, Returns, Record,
      Send, Crash, ResolveUnknown, Receive, vars, Conclude

-----------------------------------------------------------------------------
(* The theorems. *)

(* A new process satisfies the invariant. *)
LEMMA InitInv == Init => Inv
<1> SUFFICES ASSUME Init PROVE Inv
  OBVIOUS
<1> USE CommunicationsAssumption DEF Init
<1>1. TypeOK
  <2>1. automated \in BOOLEAN /\ optedOut \in BOOLEAN
    OBVIOUS
  <2>2. /\ attempted \in [Action -> BOOLEAN]
        /\ inFlight \in [Action -> BOOLEAN]
    OBVIOUS
  <2> QED
    BY <2>1, <2>2 DEF TypeOK
<1>2. ExecutorOwns /\ UntriedIsClean /\ RecordsOutcome /\ FailedIsHarmless
  BY DEF ExecutorOwns, UntriedIsClean, RecordsOutcome, FailedIsHarmless
<1>3. CreatedInPast /\ NoCallAcrossOptOut
  BY DEF CreatedInPast, NoCallAcrossOptOut
<1>4. Outbound = {} /\ SinceReply(Outbound, created) = {}
  BY DEF Outbound, SinceReply, ReservedStatus
<1>5. ReservedWithinLimits /\ ReservedApart
  BY <1>4, FS_EmptySet DEF ReservedWithinLimits, ReservedApart
<1> QED
  BY <1>1, <1>2, <1>3, <1>5, EscapedIsReserved DEF Inv, ContactWithinLimits

(* Every step keeps it. *)
LEMMA NextInv == Inv /\ [Next]_vars => Inv'
<1> SUFFICES ASSUME Inv, [Next]_vars PROVE Inv'
  OBVIOUS
<1> USE DEF Inv, ContactWithinLimits
<1>1. TypeOK'
  BY TypeStep
<1>2. ExecutorOwns' /\ UntriedIsClean' /\ RecordsOutcome'
  BY OwnerStep
<1>3. FailedIsHarmless'
  BY FailedStep
<1>4. NoCallAcrossOptOut' /\ CreatedInPast'
  BY OptOutStep, PastStep
<1>5. ReservedWithinLimits' /\ ReservedApart'
  BY LimitsStep
<1>6. EscapedStaysReserved'
  BY <1>1, <1>2, <1>3, EscapedIsReserved, PTL
<1> QED
  BY <1>1, <1>2, <1>3, <1>4, <1>5, <1>6

(* The inductive invariant holds of every reachable state of the process,  *)
(* its actions, their executors and the inbound events.                    *)
THEOREM Invariance == Spec => []Inv
BY InitInv, NextInv, PTL DEF Spec

(* The customer is not contacted beyond the limits of the policy: however  *)
(* decisions reserve messages at clocks that lag or differ, reviews        *)
(* release or deny them, calls are lost and retried and replies arrive,    *)
(* the reserved messages stay within the total and the follow-ups since    *)
(* the last reply, and within the rate of every window and the interval    *)
(* less what the workflow's clock may be ahead; and what may have escaped  *)
(* stays reserved, unless the adapter guarantees idempotency: such an      *)
(* action is released when a retry of it is blocked.                       *)
THEOREM ContactIsWithinLimits == Spec => []ContactWithinLimits
BY Invariance, PTL DEF Inv

(* No provider is called once an opt-out or an automated response is       *)
(* committed: the executor evaluates the policy under the process lock,    *)
(* and keeps the lock until the provider has answered.                     *)
THEOREM NoCallCrossesOptOut == Spec => []NoCallAcrossOptOut
BY Invariance, PTL DEF Inv

-----------------------------------------------------------------------------
(* Blocks that pass with time: the rate and the interval. *)

(* Some natural numbers have a least one. *)
LEMMA LeastNatural ==
  ASSUME NEW S, S \subseteq Nat, S # {}
  PROVE  \E x \in S : \A y \in S : x <= y
<1> DEFINE Less == {ss \in Nat \X Nat : ss[1] < ss[2]}
<1>1. IsWellFoundedOn(Less, Nat)
  BY NatLessThanWellFounded DEF OpToRel
<1> HIDE DEF Less
<1>2. PICK x \in S : \A y \in S : ~(<<y, x>> \in Less)
  BY <1>1, WFMin
<1>3. ASSUME NEW y \in S PROVE x <= y
  <2>1. x \in Nat /\ y \in Nat /\ ~(<<y, x>> \in Less)
    BY <1>2
  <2>2. ~(y < x)
    BY <2>1 DEF Less
  <2> QED
    BY <2>1, <2>2
<1> QED
  BY <1>3

(* Min is the least of some natural numbers. *)
LEMMA LeastExists ==
  ASSUME NEW S, S \subseteq Nat, S # {}
  PROVE  Min(S) \in S /\ \A y \in S : Min(S) <= y
<1>1. PICK x \in S : \A y \in S : x <= y
  BY LeastNatural
<1> QED
  BY <1>1 DEF Min

(* Max is the greatest of some bounded numbers. *)
LEMMA GreatestExists ==
  ASSUME NEW n \in Nat, NEW S, S \subseteq 0 .. n, S # {}
  PROVE  Max(S) \in S /\ \A y \in S : Max(S) >= y
<1> DEFINE T == {m \in Nat : n - m \in S}
<1>1. PICK s : s \in S
  OBVIOUS
<1>2. n - s \in T
  BY <1>1
<1>3. T \subseteq Nat /\ T # {}
  BY <1>2
<1>4. PICK x \in T : \A y \in T : x <= y
  <2> HIDE DEF T
  <2> QED
    BY <1>3, LeastNatural
<1>5. \A y \in S : n - x >= y
  <2> SUFFICES ASSUME NEW y \in S PROVE n - x >= y
    OBVIOUS
  <2>1. n - y \in T
    OBVIOUS
  <2> QED
    BY <1>4, <2>1
<1>6. \E z \in S : \A y \in S : z >= y
  BY <1>4, <1>5
<1> QED
  BY <1>6 DEF Max

(* The rate is not exceeded any more when the oldest message leaves the    *)
(* window, and until then it is.                                           *)
LEMMA RateEnds ==
  ASSUME TypeOK, NEW t \in Int, t >= now,
         OverRate(Outbound, created, 1, t), InWindow(Outbound, created, t) # {},
         Cardinality(InWindow(Outbound, created, t)) <= Policy.perWindow
  PROVE  LET next == RateNext(Outbound, created, t)
         IN /\ ~OverRate(Outbound, created, 1, next)
            /\ \A u \in t .. (next - 1) : OverRate(Outbound, created, 1, u)
<1> USE CommunicationsAssumption
<1> DEFINE W == InWindow(Outbound, created, t)
           least == Min({created[a] : a \in W})
           next == least + Policy.window
<1>1. W \subseteq Outbound /\ Outbound \subseteq Action
  BY OutboundFinite DEF InWindow
<1>2. /\ least \in {created[a] : a \in W}
      /\ \A y \in {created[a] : a \in W} : least <= y
  <2>1. {created[a] : a \in W} \subseteq Nat /\ {created[a] : a \in W} # {}
    BY <1>1 DEF TypeOK
  <2> QED
    BY <2>1, LeastExists
<1>3. PICK b \in W : created[b] = least
  BY <1>2
<1>4. /\ least \in Int /\ least > t - Policy.window
      /\ \A a \in W : least <= created[a]
  BY <1>1, <1>2, <1>3 DEF InWindow, TypeOK
<1>5. IsFiniteSet(W) /\ Cardinality(W) <= Policy.perWindow
  BY <1>1, OutboundFinite, FS_Subset
<1> HIDE DEF least
<1>6. ~OverRate(Outbound, created, 1, next)
  <2> DEFINE V == InWindow(Outbound, created, next)
  <2>1. ASSUME NEW a \in V PROVE a \in W \ {b}
    <3>1. a \in Outbound /\ created[a] \in Int /\ created[a] > least
      BY <1>1, <1>4 DEF InWindow, TypeOK
    <3> QED
      BY <1>3, <1>4, <3>1 DEF InWindow
  <2>2. /\ IsFiniteSet(W \ {b}) /\ Cardinality(W \ {b}) = Cardinality(W) - 1
        /\ Cardinality(W) \in Nat
    BY <1>3, <1>5, FS_RemoveElement, FS_CardinalityType
  <2>3. /\ Cardinality(V) <= Cardinality(W \ {b}) /\ Cardinality(V) \in Nat
    BY <2>1, <2>2, FS_Subset, FS_CardinalityType
  <2> QED
    BY <1>5, <2>2, <2>3 DEF OverRate
<1>7. ASSUME NEW u \in t .. (next - 1) PROVE OverRate(Outbound, created, 1, u)
  <2> DEFINE V == InWindow(Outbound, created, u)
  <2>1. W \subseteq V
    BY <1>1, <1>4, <1>7 DEF InWindow, TypeOK
  <2>2. IsFiniteSet(V)
    BY OutboundFinite, FS_Subset DEF InWindow
  <2>3. /\ Cardinality(W) <= Cardinality(V) /\ Cardinality(V) \in Nat
        /\ Cardinality(W) \in Nat
    BY <1>5, <2>1, <2>2, FS_Subset, FS_CardinalityType
  <2> QED
    BY <2>3 DEF OverRate
<1>8. RateNext(Outbound, created, t) = next
  BY DEF RateNext, least
<1> QED
  BY <1>6, <1>7, <1>8

(* The interval is over when the last message is old enough. *)
LEMMA IntervalEnds ==
  ASSUME TypeOK, NEW t \in Int, TooSoon(Outbound, created, t)
  PROVE  LET next == IntervalNext(Outbound, created)
         IN /\ ~TooSoon(Outbound, created, next)
            /\ \A u \in t .. (next - 1) : TooSoon(Outbound, created, u)
<1> USE CommunicationsAssumption
<1> DEFINE W == SinceReply(Outbound, created)
           last == Max({created[a] : a \in W})
<1>1. W \subseteq Action /\ W # {}
  BY OutboundFinite DEF SinceReply, TooSoon
<1>2. /\ last \in {created[a] : a \in W}
      /\ \A y \in {created[a] : a \in W} : last >= y
  <2>1. /\ {created[a] : a \in W} \subseteq 0 .. MaxTime
        /\ {created[a] : a \in W} # {} /\ MaxTime \in Nat
    BY <1>1 DEF TypeOK
  <2> QED
    BY <2>1, GreatestExists
<1>3. PICK b \in W : created[b] = last
  BY <1>2
<1>4. last \in Int /\ \A a \in W : created[a] <= last
  BY <1>1, <1>2, <1>3 DEF TypeOK
<1> HIDE DEF last
<1>5. ~TooSoon(Outbound, created, last + Policy.interval)
  BY <1>1, <1>4 DEF TooSoon, TypeOK
<1>6. \A u \in t .. ((last + Policy.interval) - 1) : TooSoon(Outbound, created, u)
  BY <1>3, <1>4 DEF TooSoon
<1>7. IntervalNext(Outbound, created) = last + Policy.interval
  BY DEF IntervalNext, last
<1> QED
  BY <1>5, <1>6, <1>7

(* Both blocks end exactly at next_allowed_at. *)
LEMMA NextAllowedHolds == Inv => NextAllowedIsExact
<1> SUFFICES ASSUME Inv,
                    NEW t \in now .. (now + Policy.window + Policy.interval)
             PROVE
    /\ /\ OverRate(Outbound, created, 1, t)
       /\ Cardinality(InWindow(Outbound, created, t)) \in 1 .. Policy.perWindow
       => LET next == RateNext(Outbound, created, t)
          IN /\ ~OverRate(Outbound, created, 1, next)
             /\ \A u \in t .. (next - 1) : OverRate(Outbound, created, 1, u)
    /\ TooSoon(Outbound, created, t) =>
         LET next == IntervalNext(Outbound, created)
         IN /\ ~TooSoon(Outbound, created, next)
            /\ \A u \in t .. (next - 1) : TooSoon(Outbound, created, u)
  BY DEF NextAllowedIsExact
<1>1. t \in Int /\ t >= now
  BY CommunicationsAssumption DEF Inv, ContactWithinLimits, TypeOK
<1>2. Cardinality({}) = 0
  BY FS_EmptySet
<1>3. Policy.perWindow \in Nat
  BY CommunicationsAssumption
<1>4. Cardinality(InWindow(Outbound, created, t)) \in 1 .. Policy.perWindow =>
        /\ InWindow(Outbound, created, t) # {}
        /\ Cardinality(InWindow(Outbound, created, t)) <= Policy.perWindow
  BY <1>2, <1>3
<1> QED
  BY <1>1, <1>4, RateEnds, IntervalEnds DEF Inv, ContactWithinLimits

-----------------------------------------------------------------------------
(* Quiet hours. *)

(* The zone and the quiet hours, with what bounds them. *)
ZoneOK ==
  /\ Day \in Int /\ Day > 1 /\ Change \in Int
  /\ before \in Int /\ after \in Int
  /\ Shift \in Nat /\ Shift <= Day
  /\ before - after <= Shift /\ after - before <= Shift

(* What QuietInit says about the zone, and about the quiet hours if any. *)
LEMMA ZoneFacts ==
  ASSUME QuietInit
  PROVE  /\ ZoneOK
         /\ quiet # NoQuietHours => /\ quiet.start \in 0 .. (Day - 1)
                                    /\ quiet.end \in 0 .. (Day - 1)
                                    /\ quiet.start # quiet.end
BY QuietHoursAssumption
DEF QuietInit, Configurations, ZoneOK, Shift, AtLeast

(* A local time that the clock has reached lies in the past, by its        *)
(* earliest reading; one it has not reached yet lies in the future, by its *)
(* latest one.                                                             *)
LEMMA ReadingsBound ==
  ASSUME ZoneOK, NEW u \in Int, NEW v \in Int
  PROVE  /\ v <= Local(u) => Resolve(v, TRUE) <= u
         /\ Local(u) < v => u < Resolve(v, FALSE)
BY DEF ZoneOK, Resolve, OffsetOf, Local, AtLeast, AtMost

(* A local time has the readings of the two offsets. *)
LEMMA ReadingsType ==
  ASSUME ZoneOK, NEW v \in Int
  PROVE  /\ Resolve(v, TRUE) \in {v - before, v - after}
         /\ Resolve(v, FALSE) \in {v - before, v - after}
BY DEF ZoneOK, Resolve, OffsetOf, AtLeast, AtMost

(* The converses of ReadingsBound, away from the change. *)
LEMMA ReadingsExact ==
  ASSUME ZoneOK, NEW u \in Int, NEW v \in Int,
         u < Change - Shift \/ Change + Shift <= u
  PROVE  /\ Resolve(v, TRUE) <= u => v <= Local(u)
         /\ u < Resolve(v, FALSE) => Local(u) < v
BY DEF ZoneOK, Resolve, OffsetOf, Local, AtLeast, AtMost, Shift

(* The local times at which the period of a date begins and ends. *)
First(d) == d * Day + quiet.start
Last(d) == (d + (IF Overnight THEN 1 ELSE 0)) * Day + quiet.end

(* The date and the time of day that the clock shows. *)
LEMMA ClockFacts ==
  ASSUME ZoneOK, NEW u \in Int
  PROVE  /\ Local(u) \in Int /\ Date(u) \in Int
         /\ Local(u) % Day \in 0 .. (Day - 1)
         /\ Local(u) = Date(u) * Day + (Local(u) % Day)
BY DEF ZoneOK, Local, Date

(* A day earlier, and a day later. *)
LEMMA NextDay ==
  ASSUME NEW k \in Int, NEW n \in Int
  PROVE  /\ k * n \in Int /\ (k - 1) * n = k * n - n /\ (k + 1) * n = k * n + n
OBVIOUS

(* The remainder of what is less than a day, or less than a day ago. *)
LEMMA SmallRemainder ==
  ASSUME NEW n \in Nat \ {0}, NEW x \in Int
  PROVE  /\ 0 <= x /\ x < n => x % n = x
         /\ -n < x /\ x < 0 => x % n = x + n
OBVIOUS

(* The clock shows quiet hours exactly when it is between the nominal ends *)
(* of the period of today or yesterday.                                    *)
LEMMA QuietByPeriod ==
  ASSUME ZoneOK, quiet # NoQuietHours, NEW u \in Int,
         quiet.start \in 0 .. (Day - 1), quiet.end \in 0 .. (Day - 1),
         quiet.start # quiet.end
  PROVE  ClockIsQuiet(u) <=>
           \E d \in {Date(u) - 1, Date(u)} : First(d) <= Local(u) /\ Local(u) < Last(d)
<1>1. PICK k \in Int, t \in 0 .. (Day - 1) :
        k = Date(u) /\ t = Local(u) % Day /\ Local(u) = k * Day + t
  BY ClockFacts
<1>2. PICK n \in Int : n = k * Day
  BY <1>1 DEF ZoneOK
<1>3. /\ First(k) = n + quiet.start /\ First(k - 1) = n - Day + quiet.start
      /\ Last(k) = n + (IF Overnight THEN Day ELSE 0) + quiet.end
      /\ Last(k - 1) = n - (IF Overnight THEN 0 ELSE Day) + quiet.end
  <2>1. (k - 1) * Day = n - Day /\ (k + 1) * Day = n + Day
    BY <1>1, <1>2, NextDay DEF ZoneOK
  <2>2. k + 0 = k /\ k - 1 + 1 = k /\ k - 1 + 0 = k - 1
    BY <1>1
  <2>3. CASE Overnight
    BY <1>2, <2>1, <2>2, <2>3 DEF First, Last, ZoneOK
  <2>4. CASE ~Overnight
    BY <1>2, <2>1, <2>2, <2>4 DEF First, Last, ZoneOK
  <2> QED
    BY <2>3, <2>4
<1>4. Local(u) = n + t
  BY <1>1, <1>2
<1> DEFINE In(d) == First(d) <= Local(u) /\ Local(u) < Last(d)
<1>5. (\E d \in {Date(u) - 1, Date(u)} : In(d)) <=> In(k - 1) \/ In(k)
  BY <1>1
<1>6. CASE Overnight
  <2>1. ClockIsQuiet(u) <=> quiet.start <= t \/ t < quiet.end
    BY <1>1, <1>6 DEF ClockIsQuiet, Overnight, ZoneOK
  <2> QED
    BY <1>1, <1>2, <1>3, <1>4, <1>6, <1>5, <2>1 DEF ZoneOK
<1>7. CASE ~Overnight
  <2>1. ClockIsQuiet(u) <=> quiet.start <= t /\ t < quiet.end
    BY <1>1, <1>7 DEF ClockIsQuiet, Overnight, ZoneOK
  <2>2. ~In(k - 1)
    BY <1>2, <1>3, <1>4, <1>7 DEF ZoneOK
  <2>3. In(k) <=> quiet.start <= t /\ t < quiet.end
    BY <1>2, <1>3, <1>4, <1>7 DEF ZoneOK
  <2> QED
    BY <1>5, <2>1, <2>2, <2>3
<1> QED
  BY <1>6, <1>7

(* A block by quiet hours is a period of today or yesterday. *)
LEMMA BlockIsPeriod ==
  ASSUME ZoneOK, quiet # NoQuietHours, NEW u \in Nat
  PROVE  /\ (QuietHoursEnd(u) # Never) <=>
              \E d \in {Date(u) - 1, Date(u)} : Covers(d, u)
         /\ QuietHoursEnd(u) # Never =>
              \E d \in {Date(u) - 1, Date(u)} :
                Covers(d, u) /\ QuietHoursEnd(u) = EndOf(d)
<1>1. \A d : Covers(d, u) => EndOf(d) # Never
  BY DEF Covers, Never, ZoneOK
<1> QED
  BY <1>1 DEF QuietHoursEnd

(* The instants of a period are readings of its local times. *)
LEMMA PeriodType ==
  ASSUME ZoneOK, NEW d \in Int, quiet.start \in Int, quiet.end \in Int
  PROVE  /\ First(d) \in Int /\ Last(d) \in Int
         /\ StartOf(d) = Resolve(First(d), TRUE)
         /\ EndOf(d) = Resolve(Last(d), FALSE)
         /\ StartOf(d) \in Int /\ EndOf(d) \in Int
<1>1. First(d) \in Int /\ Last(d) \in Int
  BY DEF First, Last, ZoneOK
<1>2. StartOf(d) = Resolve(First(d), TRUE) /\ EndOf(d) = Resolve(Last(d), FALSE)
  BY DEF First, Last, StartOf, EndOf
<1>3. /\ Resolve(First(d), TRUE) \in {First(d) - before, First(d) - after}
      /\ Resolve(Last(d), FALSE) \in {Last(d) - before, Last(d) - after}
  BY <1>1, ReadingsType
<1>4. First(d) - before \in Int /\ First(d) - after \in Int
  BY <1>1 DEF ZoneOK
<1>5. Last(d) - before \in Int /\ Last(d) - after \in Int
  BY <1>1 DEF ZoneOK
<1> QED
  BY <1>1, <1>2, <1>3, <1>4, <1>5

(* Nothing is sent in quiet hours, and nothing else is blocked away from   *)
(* the change of the clock.                                                *)
LEMMA QuietHolds == QuietInit /\ now \in Nat => QuietByTheClock
<1> SUFFICES ASSUME QuietInit, now \in Nat PROVE QuietByTheClock
  OBVIOUS
<1>1. CASE quiet = NoQuietHours
  BY <1>1 DEF QuietByTheClock, ClockIsQuiet, QuietHoursEnd
<1>2. CASE quiet # NoQuietHours
  <2>1. /\ ZoneOK /\ quiet.start \in 0 .. (Day - 1)
        /\ quiet.end \in 0 .. (Day - 1) /\ quiet.start # quiet.end
    BY <1>2, ZoneFacts
  <2>2. now \in Int /\ quiet.start \in Int /\ quiet.end \in Int /\ Date(now) \in Int
    BY <2>1, ClockFacts DEF ZoneOK
  <2>3. ASSUME NEW d \in {Date(now) - 1, Date(now)},
               First(d) <= Local(now), Local(now) < Last(d)
        PROVE  Covers(d, now)
    <3>1. d \in Int
      BY <2>2
    <3>2. /\ First(d) \in Int /\ Last(d) \in Int
          /\ StartOf(d) = Resolve(First(d), TRUE)
          /\ EndOf(d) = Resolve(Last(d), FALSE)
      BY <2>1, <2>2, <3>1, PeriodType
    <3>3. Resolve(First(d), TRUE) <= now /\ now < Resolve(Last(d), FALSE)
      BY <2>1, <2>2, <2>3, <3>2, ReadingsBound
    <3> QED
      BY <3>2, <3>3 DEF Covers
  <2>4. ClockIsQuiet(now) => QuietHoursEnd(now) # Never
    BY <1>2, <2>1, <2>2, <2>3, QuietByPeriod, BlockIsPeriod
  <2>5. ASSUME NEW d \in {Date(now) - 1, Date(now)}, Covers(d, now),
               now < Change - Shift \/ Change + Shift <= now
        PROVE  First(d) <= Local(now) /\ Local(now) < Last(d)
    <3>1. d \in Int
      BY <2>2
    <3>2. /\ First(d) \in Int /\ Last(d) \in Int
          /\ StartOf(d) = Resolve(First(d), TRUE)
          /\ EndOf(d) = Resolve(Last(d), FALSE)
      BY <2>1, <2>2, <3>1, PeriodType
    <3>3. Resolve(First(d), TRUE) <= now /\ now < Resolve(Last(d), FALSE)
      BY <2>5, <3>2 DEF Covers
    <3> QED
      BY <2>1, <2>2, <2>5, <3>2, <3>3, ReadingsExact
  <2>6. ASSUME QuietHoursEnd(now) # Never,
               now < Change - Shift \/ Change + Shift <= now
        PROVE  ClockIsQuiet(now)
    BY <1>2, <2>1, <2>2, <2>5, <2>6, QuietByPeriod, BlockIsPeriod
  <2>7. Change \in Int /\ Shift \in Int
    BY <2>1 DEF ZoneOK
  <2> QED
    BY <2>2, <2>4, <2>6, <2>7 DEF QuietByTheClock
<1> QED
  BY <1>1, <1>2

(* Dates do not go back, where the change does not set the clock back to   *)
(* the day before.                                                         *)
LEMMA DatesAdvance ==
  ASSUME ZoneOK, Date(Change - 1) <= Date(Change),
         NEW x \in Int, NEW y \in Int, x <= y
  PROVE  Date(x) <= Date(y)
<1>1. ASSUME NEW v \in Int, NEW w \in Int, v <= w PROVE v \div Day <= w \div Day
  BY <1>1 DEF ZoneOK
<1>2. /\ Local(x) \in Int /\ Local(y) \in Int /\ Local(Change - 1) \in Int
      /\ Local(Change) \in Int
  BY ClockFacts DEF ZoneOK
<1>3. /\ Date(x) \in Int /\ Date(y) \in Int /\ Date(Change - 1) \in Int
      /\ Date(Change) \in Int
  BY ClockFacts DEF ZoneOK
<1>4. CASE x < Change /\ y < Change
  <2>1. Local(x) <= Local(y)
    BY <1>4 DEF Local, ZoneOK
  <2> QED
    BY <1>1, <1>2, <2>1 DEF Date
<1>5. CASE x >= Change
  <2>1. Local(x) <= Local(y)
    BY <1>5 DEF Local, ZoneOK
  <2> QED
    BY <1>1, <1>2, <2>1 DEF Date
<1>6. CASE x < Change /\ y >= Change
  <2>1. Local(x) <= Local(Change - 1) /\ Local(Change) <= Local(y)
    BY <1>6 DEF Local, ZoneOK
  <2>2. Date(x) <= Date(Change - 1) /\ Date(Change) <= Date(y)
    BY <1>1, <1>2, <2>1 DEF Date
  <2> QED
    BY <1>3, <2>2
<1> QED
  BY <1>4, <1>5, <1>6 DEF ZoneOK

(* Periods of different dates are whole days apart. *)
LEMMA DaysApart ==
  ASSUME ZoneOK, NEW j \in Int, NEW d \in Int, j < d,
         quiet.start \in Int, quiet.end \in Int
  PROVE  First(j) + Day <= First(d) /\ Last(j) + Day <= Last(d)
<1>1. ASSUME NEW i \in Int, NEW k \in Int, i < k PROVE i * Day + Day <= k * Day
  BY <1>1 DEF ZoneOK
<1>2. j * Day \in Int /\ d * Day \in Int /\ (j + 1) * Day \in Int
      /\ (d + 1) * Day \in Int /\ Day \in Int
  BY DEF ZoneOK
<1>3. j * Day + Day <= d * Day /\ (j + 1) * Day + Day <= (d + 1) * Day
  BY <1>1
<1>4. j + 0 = j /\ d + 0 = d
  OBVIOUS
<1> QED
  BY <1>2, <1>3, <1>4 DEF First, Last

(* Until the end that a block announces, every evaluation blocks. *)
LEMMA BlockIsKept ==
  ASSUME ZoneOK, Date(Change - 1) <= Date(Change),
         quiet.start \in 0 .. (Day - 1), quiet.end \in 0 .. (Day - 1),
         NEW w \in Int, NEW d \in {Date(w) - 1, Date(w)}, Covers(d, w),
         NEW u \in Int, w <= u, u < EndOf(d)
  PROVE  \E k \in {Date(u) - 1, Date(u)} : Covers(k, u)
<1>1. /\ Date(w) \in Int /\ d \in Int /\ Date(u) \in Int /\ Date(w) <= Date(u)
      /\ quiet.start \in Int /\ quiet.end \in Int
  <2>1. Date(w) \in Int /\ Date(u) \in Int
    BY ClockFacts
  <2>2. Date(w) <= Date(u)
    BY DatesAdvance
  <2>3. quiet.start \in Int /\ quiet.end \in Int
    BY DEF ZoneOK
  <2> QED
    BY <2>1, <2>2, <2>3
<1>2. CASE Date(u) <= d + 1
  <2>1. Covers(d, u)
    <3>1. StartOf(d) \in Int
      BY <1>1, PeriodType
    <3> QED
      BY <3>1 DEF Covers
  <2> QED
    BY <1>1, <1>2, <2>1
<1>3. CASE Date(u) > d + 1
  <2>1. PICK k \in Int, n \in Int : k = Date(u) /\ n = k * Day
    BY <1>1 DEF ZoneOK
  <2>2. Local(u) \in Int /\ n <= Local(u) /\ Local(u) < n + Day
    BY <2>1, ClockFacts DEF ZoneOK
  <2>3. Local(u) < Last(d) + Day
    <3>1. /\ Last(d) \in Int /\ EndOf(d) = Resolve(Last(d), FALSE)
          /\ Resolve(Last(d), FALSE) \in {Last(d) - before, Last(d) - after}
      BY <1>1, PeriodType, ReadingsType
    <3>2. u < Last(d) - before \/ u < Last(d) - after
      BY <3>1
    <3> QED
      BY <3>1, <3>2 DEF Local, ZoneOK
  <2>4. /\ First(k - 1) \in Int /\ Last(k - 1) \in Int /\ Last(d) \in Int
        /\ StartOf(k - 1) = Resolve(First(k - 1), TRUE)
        /\ EndOf(k - 1) = Resolve(Last(k - 1), FALSE)
    <3>1. k - 1 \in Int
      BY <2>1
    <3> QED
      BY <1>1, <3>1, PeriodType
  <2>5. Last(d) + Day <= Last(k - 1)
    BY <1>1, <1>3, <2>1, DaysApart
  <2>6. First(k - 1) <= Local(u)
    <3>1. First(k - 1) = n - Day + quiet.start
      BY <2>1, NextDay DEF First, ZoneOK
    <3> QED
      BY <1>1, <2>2, <3>1 DEF ZoneOK
  <2>7. Local(u) < Last(k - 1)
    BY <2>2, <2>3, <2>4, <2>5 DEF ZoneOK
  <2>8. Covers(k - 1, u)
    BY <2>4, <2>6, <2>7, ReadingsBound DEF Covers
  <2> QED
    BY <2>1, <2>8
<1> QED
  BY <1>1, <1>2, <1>3

(* And then none does, where the free hours are longer than the shift. *)
LEMMA BlockEnds ==
  ASSUME ZoneOK, quiet.start \in 0 .. (Day - 1), quiet.end \in 0 .. (Day - 1),
         quiet.start # quiet.end,
         Day - ((quiet.end - quiet.start) % Day) > Shift,
         NEW d \in Int, NEW j \in Int
  PROVE  ~Covers(j, EndOf(d))
<1>1. quiet.start \in Int /\ quiet.end \in Int
  BY DEF ZoneOK
<1>2. /\ First(j) \in Int /\ Last(d) \in Int /\ Last(j) \in Int
      /\ First(d) \in Int
      /\ StartOf(j) \in {First(j) - before, First(j) - after}
      /\ EndOf(d) \in {Last(d) - before, Last(d) - after}
      /\ EndOf(j) \in {Last(j) - before, Last(j) - after}
  BY <1>1, PeriodType, ReadingsType
<1>3. CASE j = d
  <2>1. EndOf(d) \in Int
    BY <1>1, PeriodType
  <2> QED
    BY <1>3, <2>1 DEF Covers
<1>4. CASE j < d
  <2>1. Last(j) + Day <= Last(d)
    BY <1>1, <1>4, DaysApart
  <2>2. EndOf(j) <= EndOf(d) /\ EndOf(j) \in Int /\ EndOf(d) \in Int
    BY <1>2, <2>1 DEF ZoneOK
  <2> QED
    BY <2>2 DEF Covers
<1>5. CASE j > d
  <2>1. First(d) + Day <= First(j)
    BY <1>1, <1>5, DaysApart
  <2>2. PICK length : length = (quiet.end - quiet.start) % Day
    OBVIOUS
  <2>3. length \in Int /\ Last(d) = First(d) + length
    <3>1. CASE Overnight
      <4>1. quiet.end - quiet.start < 0 /\ quiet.end - quiet.start > -Day
        BY <1>1, <3>1 DEF Overnight, ZoneOK
      <4>2. length = quiet.end - quiet.start + Day
        BY <1>1, <2>2, <4>1, SmallRemainder DEF ZoneOK
      <4>3. Last(d) = d * Day + Day + quiet.end /\ d * Day \in Int
        BY <3>1, NextDay DEF Last, ZoneOK
      <4> QED
        BY <1>1, <4>2, <4>3 DEF First, ZoneOK
    <3>2. CASE ~Overnight
      <4>1. quiet.end - quiet.start \in 0 .. (Day - 1)
        BY <1>1, <3>2 DEF Overnight, ZoneOK
      <4>2. length = quiet.end - quiet.start
        BY <1>1, <2>2, <4>1, SmallRemainder DEF ZoneOK
      <4>3. Last(d) = d * Day + quiet.end /\ d * Day \in Int
        BY <3>2 DEF Last, ZoneOK
      <4> QED
        BY <1>1, <4>2, <4>3 DEF First, ZoneOK
    <3> QED
      BY <3>1, <3>2
  <2>4. StartOf(j) > EndOf(d) /\ StartOf(j) \in Int /\ EndOf(d) \in Int
    BY <1>2, <2>1, <2>2, <2>3 DEF ZoneOK
  <2> QED
    BY <2>4 DEF Covers
<1> QED
  BY <1>3, <1>4, <1>5

(* The end that quiet hours announce is kept. *)
LEMMA EndHolds == QuietInit /\ now \in Nat => EndIsKept
<1> SUFFICES ASSUME QuietInit, now \in Nat, QuietHoursEnd(now) # Never,
                    Date(Change - 1) <= Date(Change)
             PROVE  /\ \A u \in now .. (QuietHoursEnd(now) - 1) :
                         QuietHoursEnd(u) # Never
                    /\ Day - ((quiet.end - quiet.start) % Day) > Shift =>
                         QuietHoursEnd(QuietHoursEnd(now)) = Never
  BY DEF EndIsKept
<1>1. quiet # NoQuietHours
  BY DEF QuietHoursEnd
<1>2. /\ ZoneOK /\ quiet.start \in 0 .. (Day - 1)
      /\ quiet.end \in 0 .. (Day - 1) /\ quiet.start # quiet.end
  BY <1>1, ZoneFacts
<1>3. PICK d \in {Date(now) - 1, Date(now)} :
        Covers(d, now) /\ QuietHoursEnd(now) = EndOf(d)
  BY <1>1, <1>2, BlockIsPeriod
<1>4. d \in Int /\ quiet.start \in Int /\ quiet.end \in Int /\ now \in Int
  BY <1>2, ClockFacts DEF ZoneOK
<1>5. EndOf(d) \in Int /\ now < EndOf(d)
  BY <1>2, <1>3, <1>4, PeriodType DEF Covers
<1>6. ASSUME NEW u \in now .. (EndOf(d) - 1) PROVE QuietHoursEnd(u) # Never
  <2>1. u \in Nat /\ u \in Int /\ now <= u /\ u < EndOf(d)
    BY <1>5
  <2>2. \E k \in {Date(u) - 1, Date(u)} : Covers(k, u)
    BY <1>2, <1>3, <1>4, <2>1, BlockIsKept
  <2> QED
    BY <1>1, <1>2, <2>1, <2>2, BlockIsPeriod
<1>7. ASSUME Day - ((quiet.end - quiet.start) % Day) > Shift
      PROVE  QuietHoursEnd(EndOf(d)) = Never
  <2>1. EndOf(d) \in Nat /\ EndOf(d) \in Int
    BY <1>5
  <2>2. Date(EndOf(d)) - 1 \in Int /\ Date(EndOf(d)) \in Int
    BY <1>2, <2>1, ClockFacts
  <2>3. \A k \in {Date(EndOf(d)) - 1, Date(EndOf(d))} : ~Covers(k, EndOf(d))
    BY <1>2, <1>4, <1>7, <2>2, BlockEnds
  <2> QED
    BY <1>1, <1>2, <2>1, <2>3, BlockIsPeriod
<1> QED
  BY <1>3, <1>6, <1>7

(* The zone and the quiet hours of a process do not change. *)
LEMMA ZoneIsFixed == Spec => []QuietInit
<1>1. Init => QuietInit
  BY DEF Init
<1>2. QuietInit /\ [Next]_vars => QuietInit'
  <2> SUFFICES ASSUME QuietInit, [Next]_vars PROVE QuietInit'
    OBVIOUS
  <2>1. UNCHANGED <<quiet, before, after>>
    BY DEF Next, Execute, Reserve, Review, ExecuteBegin, Lookup, Authorize,
           Returns, Record, Send, Crash, ResolveUnknown, Receive, Tick, vars
  <2> QED
    BY <2>1 DEF QuietInit
<1> QED
  BY <1>1, <1>2, PTL DEF Spec

(* Every block that passes with time is there when it should be and ends   *)
(* when it says (next_allowed_at): that of the rate and of the interval,   *)
(* and that of the quiet hours in any zone, for any change of its clock up *)
(* to a day, with the exceptions of EndIsKept.  Of a clock that is set     *)
(* back across midnight only the block is proved, not its end; and where   *)
(* the free hours are no longer than the change, the next quiet period may *)
(* already have begun at the end that was announced.                       *)
THEOREM BlocksEnd == Spec => []BlocksEndAsAnnounced
<1>1. Inv => now \in Nat
  BY DEF Inv, ContactWithinLimits, TypeOK
<1> QED
  BY <1>1, Invariance, ZoneIsFixed, NextAllowedHolds, QuietHolds, EndHolds, PTL
  DEF BlocksEndAsAnnounced
=============================================================================
