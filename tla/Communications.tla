--------------------------- MODULE Communications ---------------------------
(***************************************************************************)
(* What one process may send to its customer: the communication policy     *)
(* (communications/policy.py) as it is evaluated when a decision reserves  *)
(* outbound messages (actions/gateway.py) and again under the process lock *)
(* before a provider is called (actions/execution.py), from the action     *)
(* rows and the matched events of the process (communications/safety.py).  *)
(*                                                                         *)
(* Time is a bounded integer clock (now), 1 when the process is created;   *)
(* the quiet hours and the time zone are those of QuietHours.  A           *)
(* reservation is evaluated at the time of the workflow, which is          *)
(* Temporal's (mailbox.py:753), and dated by the start of its transaction, *)
(* which is the database's: both may lie up to Lag in the past, and        *)
(* Temporal's clock may be up to Ahead before the database's.  An event is *)
(* dated by its receipt, not its commit.                                   *)
(* An outbound action is run by one executor at a time, which may die; the *)
(* call it has made may then still reach the customer.                     *)
(***************************************************************************)
EXTENDS QuietHours, FiniteSets, FiniteSetsExt

CONSTANTS
  Action,       \* outbound actions of the process
  Policy,       \* the limits of CommunicationPolicy
  Idempotent,   \* those whose adapter guarantees idempotency
  MaxTime,      \* bound on the clock
  Lag,          \* bound on how far a time lies in the past when it is used
  Ahead,        \* bound on how far the workflow's clock runs ahead
  MaxEvents,    \* bound on inbound events
  MaxCrashes    \* bound on crashes

ASSUME CommunicationsAssumption ==
  /\ Policy \in [followUps : Nat, interval : Nat, total : Nat,
                 perWindow : Nat, window : Nat \ {0}, lifetime : Nat \ {0}]
  /\ Idempotent \subseteq Action /\ IsFiniteSet(Action)
  /\ MaxTime \in Nat \ {0} /\ Lag \in Nat /\ Ahead \in Nat
  /\ MaxEvents \in Nat /\ MaxCrashes \in Nat

(* _RESERVED_OUTBOUND_STATUSES; approved is "allowed" and reconciling is   *)
(* "unknown" here.                                                         *)
ReservedStatus ==
  {"allowed", "pending_approval", "executing", "succeeded", "unknown"}

VARIABLES
  status,     \* of each action request, "none" before it exists
  created,    \* its created_at
  attempted,  \* does it have an attempt?
  pc,         \* the next step of its executor
  result,     \* what the executor is about to record
  inFlight,   \* is a call to the provider under way, with or without executor?
  sentAt,     \* when the customer was sent the message, 0 if never
  reply,      \* the latest receipt of a human reply, 0 if none
  latest,     \* the latest receipt of a reply or an automated response
  automated,  \* was that one automated?
  optedOut,   \* is an opt-out committed?
  events,     \* the number of events so far
  crashes     \* the number of crashes so far

inbound == <<reply, latest, automated, optedOut, events>>
vars == <<now, zone, status, created, attempted, pc, result, inFlight,
          sentAt, inbound, crashes>>

Init ==
  /\ now = 1
  /\ QuietInit
  /\ status = [a \in Action |-> "none"]
  /\ created = [a \in Action |-> 0]
  /\ attempted = [a \in Action |-> FALSE]
  /\ pc = [a \in Action |-> "idle"]
  /\ result = [a \in Action |-> "none"]
  /\ inFlight = [a \in Action |-> FALSE]
  /\ sentAt = [a \in Action |-> 0]
  /\ reply = 0 /\ latest = 0 /\ automated = FALSE /\ optedOut = FALSE
  /\ events = 0 /\ crashes = 0

-----------------------------------------------------------------------------
(* evaluate_communication_safety at time t, for messages dated by at       *)

Expired(t) == t >= 1 + Policy.lifetime

InWindow(S, at, t) == {a \in S : at[a] > t - Policy.window}
SinceReply(S, at) == {a \in S : at[a] > reply}

OverTotal(S, reserve) == Cardinality(S) + reserve > Policy.total

OverRate(S, at, reserve, t) ==
  Cardinality(InWindow(S, at, t)) + reserve > Policy.perWindow
OverFollowUps(S, at, reserve) ==
  Cardinality(SinceReply(S, at)) + reserve > Policy.followUps
TooSoon(prior, at, t) ==
  \E a \in SinceReply(prior, at) : t < at[a] + Policy.interval

(* next_allowed_at of the two blocks that pass with time *)
RateNext(S, at, t) == Min({at[a] : a \in InWindow(S, at, t)}) + Policy.window
IntervalNext(prior, at) ==
  Max({at[a] : a \in SinceReply(prior, at)}) + Policy.interval

Blocked(S, prior, at, reserve, t) ==
  \/ Expired(t)
  \/ optedOut
  \/ automated
  \/ QuietHoursEnd(t) # Never
  \/ OverTotal(S, reserve)
  \/ OverRate(S, at, reserve, t)
  \/ OverFollowUps(S, at, reserve)
  \/ TooSoon(prior, at, t)

(* Mutant: only messages that were sent are counted. *)
OutboundSent ==
  {a \in Action : status[a] \in {"executing", "succeeded", "unknown"}}

(* CommunicationSafetyService.inspect *)
Outbound == {a \in Action : status[a] \in ReservedStatus}

BlocksReservation(D, at, t) ==
  \E a \in D : LET others == Outbound \cup (D \ {a})
               IN Blocked(others, others, at, 1, t)

BlocksExecution(a, t) == Blocked(Outbound, Outbound \ {a}, created, 0, t)

(* The process row is locked while a provider is called. *)
ProcessUnlocked == \A a \in Action : pc[a] # "calling"

-----------------------------------------------------------------------------
(* ActionGateway.persist_decision for the outbound actions of a decision:  *)
(* all of them, in one transaction, or none; each is allowed or waits for  *)
(* an approval (one that is denied is not reserved, and is left out).      *)

Reserve(D) ==
  /\ D # {} /\ \A a \in D : status[a] = "none"
  /\ ProcessUnlocked
  /\ \E start \in (now - Lag) .. now,
        outcome \in [D -> {"allowed", "pending_approval"}] :
       \E workflowNow \in (now - Lag) .. (start + Ahead) :
         LET at == [a \in Action |-> IF a \in D THEN start ELSE created[a]]
         IN /\ start > 0 /\ workflowNow > 0
            /\ ~BlocksReservation(D, at, workflowNow)
            /\ created' = at
            /\ status' = [a \in Action |-> IF a \in D THEN outcome[a]
                                            ELSE status[a]]
  /\ UNCHANGED <<now, zone, attempted, pc, result, inFlight, sentAt,
                 inbound, crashes>>

(* ReviewService.apply *)
Review(a) ==
  /\ status[a] = "pending_approval"
  /\ \E decision \in {"allowed", "denied"} :
       status' = [status EXCEPT ![a] = decision]
  /\ UNCHANGED <<now, zone, created, attempted, pc, result, inFlight,
                 sentAt, inbound, crashes>>

-----------------------------------------------------------------------------
(* ActionExecutor.execute *)

ExecuteBegin(a) ==
  /\ pc[a] = "idle"
  /\ status[a] \in {"allowed", "executing", "unknown"}
  /\ ProcessUnlocked
  /\ status' = [status EXCEPT ![a] = "executing"]
  /\ attempted' = [attempted EXCEPT ![a] = TRUE]
  /\ pc' = [pc EXCEPT ![a] = IF attempted[a] THEN "lookup" ELSE "authorize"]
  /\ UNCHANGED <<now, zone, created, result, inFlight, sentAt, inbound,
                 crashes>>

Conclude(a, outcome) ==
  /\ pc' = [pc EXCEPT ![a] = "record"]
  /\ result' = [result EXCEPT ![a] = outcome]

(* A lookup finds what was sent, finds nothing, or fails. *)
Lookup(a) ==
  /\ pc[a] = "lookup"
  /\ \/ sentAt[a] # 0 /\ Conclude(a, "succeeded")
     \/ Conclude(a, "unknown")
     \/ /\ sentAt[a] = 0 /\ a \in Idempotent
        /\ pc' = [pc EXCEPT ![a] = "authorize"]
        /\ UNCHANGED result
  /\ UNCHANGED <<now, zone, status, created, attempted, inFlight, sentAt,
                 inbound, crashes>>

(* The second transaction: the policy is evaluated under the lock, which   *)
(* is kept while the provider is called.                                   *)
Authorize(a) ==
  /\ pc[a] = "authorize"
  /\ ProcessUnlocked
  /\ IF BlocksExecution(a, now)
     THEN Conclude(a, "failed") /\ UNCHANGED inFlight
     ELSE /\ pc' = [pc EXCEPT ![a] = "calling"]
          /\ inFlight' = [inFlight EXCEPT ![a] = TRUE]
          /\ UNCHANGED result
  /\ UNCHANGED <<now, zone, status, created, attempted, sentAt, inbound, crashes>>

(* The provider sends the message, once for each idempotency key. *)
Send(a) ==
  /\ inFlight[a]
  /\ inFlight' = [inFlight EXCEPT ![a] = FALSE]
  /\ sentAt' = [sentAt EXCEPT ![a] = IF @ = 0 THEN now ELSE @]
  /\ UNCHANGED <<now, zone, status, created, attempted, pc, result,
                 inbound, crashes>>

(* The call returns, is refused for good, or is given up. *)
Returns(a) ==
  /\ pc[a] = "calling"
  /\ \/ ~inFlight[a] /\ Conclude(a, "succeeded") /\ UNCHANGED inFlight
     \/ /\ inFlight[a] /\ sentAt[a] = 0
        /\ inFlight' = [inFlight EXCEPT ![a] = FALSE]
        /\ Conclude(a, "failed")
     \/ Conclude(a, "unknown") /\ UNCHANGED inFlight
  /\ UNCHANGED <<now, zone, status, created, attempted, sentAt, inbound,
                 crashes>>

Record(a) ==
  /\ pc[a] = "record"
  /\ status' = [status EXCEPT ![a] = result[a]]
  /\ pc' = [pc EXCEPT ![a] = "idle"]
  /\ UNCHANGED <<now, zone, created, attempted, result, inFlight, sentAt,
                 inbound, crashes>>

Crash(a) ==
  /\ pc[a] # "idle"
  /\ crashes < MaxCrashes
  /\ crashes' = crashes + 1
  /\ pc' = [pc EXCEPT ![a] = "idle"]
  /\ UNCHANGED <<now, zone, status, created, attempted, result, inFlight,
                 sentAt, inbound>>

(* resolve_unknown: the operator has found out, once nothing is under way. *)
ResolveUnknown(a) ==
  /\ status[a] = "unknown" /\ pc[a] = "idle" /\ ~inFlight[a]
  /\ status' = [status EXCEPT ![a] = IF sentAt[a] # 0 THEN "succeeded" ELSE "failed"]
  /\ UNCHANGED <<now, zone, created, attempted, pc, result, inFlight,
                 sentAt, inbound, crashes>>

-----------------------------------------------------------------------------
(* Mutant: the process is not locked. *)
ReceiveUnlocked(kind) ==
  /\ events < MaxEvents
  /\ events' = events + 1
  /\ \E receivedAt \in (now - Lag) .. now :
       /\ receivedAt > 0
       /\ IF kind = "opt_out"
          THEN optedOut' = TRUE /\ UNCHANGED <<reply, latest, automated>>
          ELSE /\ reply' = IF kind = "reply" /\ receivedAt > reply
                           THEN receivedAt ELSE reply
               /\ latest' = IF receivedAt > latest THEN receivedAt ELSE latest
               /\ \/ receivedAt >= latest /\ automated' = (kind = "automated")
                  \/ receivedAt <= latest /\ UNCHANGED automated
               /\ UNCHANGED optedOut
  /\ UNCHANGED <<now, zone, status, created, attempted, pc, result,
                 inFlight, sentAt, crashes>>

(* A matched event is committed under the process lock.  Of events received *)
(* at one instant either may count as the latest.                          *)
Receive(kind) ==
  /\ events < MaxEvents
  /\ ProcessUnlocked
  /\ events' = events + 1
  /\ \E receivedAt \in (now - Lag) .. now :
       /\ receivedAt > 0
       /\ IF kind = "opt_out"
          THEN optedOut' = TRUE /\ UNCHANGED <<reply, latest, automated>>
          ELSE /\ reply' = IF kind = "reply" /\ receivedAt > reply
                           THEN receivedAt ELSE reply
               /\ latest' = IF receivedAt > latest THEN receivedAt ELSE latest
               /\ \/ receivedAt >= latest /\ automated' = (kind = "automated")
                  \/ receivedAt <= latest /\ UNCHANGED automated
               /\ UNCHANGED optedOut
  /\ UNCHANGED <<now, zone, status, created, attempted, pc, result,
                 inFlight, sentAt, crashes>>

Tick ==
  /\ now < MaxTime
  /\ now' = now + 1
  /\ UNCHANGED <<zone, status, created, attempted, pc, result, inFlight,
                 sentAt, inbound, crashes>>

EventKind == {"reply", "automated", "opt_out"}

Execute(a) ==
  \/ ExecuteBegin(a) \/ Lookup(a) \/ Authorize(a) \/ Returns(a) \/ Record(a)

Next ==
  \/ \E D \in SUBSET Action : Reserve(D)
  \/ \E a \in Action :
       Review(a) \/ Execute(a) \/ Send(a) \/ Crash(a) \/ ResolveUnknown(a)
  \/ \E kind \in EventKind : Receive(kind)
  \/ Tick

Spec == Init /\ [][Next]_vars

-----------------------------------------------------------------------------
(* Properties *)

(* Type invariant. *)
TypeOK ==
  /\ now \in 1 .. MaxTime
  /\ status \in [Action -> ReservedStatus \cup {"none", "denied", "failed"}]
  /\ created \in [Action -> 0 .. MaxTime]
  /\ attempted \in [Action -> BOOLEAN]
  /\ pc \in [Action -> {"idle", "lookup", "authorize", "calling", "record"}]
  /\ result \in [Action -> {"none", "succeeded", "failed", "unknown"}]
  /\ inFlight \in [Action -> BOOLEAN]
  /\ sentAt \in [Action -> 0 .. MaxTime]
  /\ reply \in 0 .. MaxTime /\ latest \in 0 .. MaxTime
  /\ automated \in BOOLEAN /\ optedOut \in BOOLEAN

(* The limits hold of the messages that are reserved, by the times of      *)
(* their reservation: in all, in every window, which is shorter by what    *)
(* the clock that admits them may be ahead of the one that dates them, and *)
(* since the last reply (policy.py:196).                                   *)
ReservedWithinLimits ==
  /\ Cardinality(Outbound) <= Policy.total
  /\ \A b \in Outbound :
       Cardinality({a \in Outbound : created[b] <= created[a]
                                     /\ created[a] + Ahead < created[b] + Policy.window})
         <= Policy.perWindow
  /\ Cardinality(SinceReply(Outbound, created)) <= Policy.followUps

(* Two reservations with no reply since the first are an interval apart,   *)
(* to within the same difference of the clocks.                            *)
ReservedApart ==
  \A a, b \in SinceReply(Outbound, created) :
    a # b => \/ created[a] + Policy.interval <= created[b] + Ahead
             \/ created[b] + Policy.interval <= created[a] + Ahead

(* A message that may have escaped stays reserved (safety-limits.md:76), so *)
(* that the limits hold of what the customer got.  An idempotent action is *)
(* exempt: blocked on a retry, it is recorded as failed whatever became of *)
(* the call before.                                                        *)
EscapedStaysReserved ==
  \A a \in Action \ Idempotent : sentAt[a] # 0 => status[a] \in ReservedStatus

(* The customer is not contacted beyond the limits of the policy, however  *)
(* reservations, reviews, lost calls and replies interleave.               *)
ContactWithinLimits ==
  TypeOK /\ ReservedWithinLimits /\ ReservedApart /\ EscapedStaysReserved

(* A block that is to pass with time passes exactly when it says: until    *)
(* then the next reservation stays blocked, then no longer for this reason.*)
(* That of the rate does so unless a window holds more than its limit,     *)
(* which takes a workflow's clock that is ahead of the database's.         *)
NextAllowedIsExact ==
  \A t \in now .. (now + Policy.window + Policy.interval) :
    /\ /\ OverRate(Outbound, created, 1, t)
       /\ Cardinality(InWindow(Outbound, created, t)) \in 1 .. Policy.perWindow
       => LET next == RateNext(Outbound, created, t)
          IN /\ ~OverRate(Outbound, created, 1, next)
             /\ \A u \in t .. (next - 1) : OverRate(Outbound, created, 1, u)
    /\ TooSoon(Outbound, created, t) =>
         LET next == IntervalNext(Outbound, created)
         IN /\ ~TooSoon(Outbound, created, next)
            /\ \A u \in t .. (next - 1) : TooSoon(Outbound, created, u)

(* A committed opt-out is not overtaken by a provider call, nor is an      *)
(* automated response (safety-limits.md:78-80): while a provider is being  *)
(* called neither is on record.                                            *)
NoCallAcrossOptOut ==
  \A a \in Action : pc[a] = "calling" => ~optedOut /\ ~automated

(* Every block that passes with time is there when it should be, and ends  *)
(* when it says: rate and interval, and quiet hours across a change of the *)
(* clock.                                                                  *)
BlocksEndAsAnnounced == NextAllowedIsExact /\ QuietByTheClock /\ EndIsKept
=============================================================================
