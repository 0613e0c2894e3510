------------------------------- MODULE Outbox -------------------------------
(***************************************************************************)
(* The transactional outbox of one tenant: dispatchers claim messages and  *)
(* deliver each as a Signal-With-Start to the mailbox workflow of its      *)
(* process (temporal/dispatcher.py), operators requeue dead letters        *)
(* (events/outbox_recovery.py), and the mailbox drops what it has already  *)
(* seen (the receive_* handlers of temporal/workflows/mailbox.py).         *)
(*                                                                         *)
(* All messages go to one process.  A dispatcher is one run_tenant loop of *)
(* one worker.  The claim token is a fresh UUID; since a dispatcher works  *)
(* on one claim at a time, and forgets it when it dies, the dispatcher's   *)
(* name identifies its claim.  Waiting for available_at is no step: a      *)
(* pending message is claimed whenever that is, and since available_at is  *)
(* the time the writing transaction began, or the time of a retry, the     *)
(* order of claims says nothing about the order of commits.                *)
(***************************************************************************)
EXTENDS Naturals, Sequences, SequencesExt

CONSTANTS
  Messages,
  Dispatchers,
  RequeueCommands,   \* ids of operators' requeue commands
  MaxAttempts,       \* max_attempts
  MaxCrashes,        \* bound on the crashes of dispatchers, in all
  SlowDispatchers    \* may stale_claim_after pass while the owner lives?

ASSUME OutboxAssumption ==
  /\ MaxAttempts \in Nat \ {0}
  /\ MaxCrashes \in Nat
  /\ SlowDispatchers \in BOOLEAN

(* No message and no dispatcher. *)
Nobody == "nobody"

ASSUME NobodyAssumption == Nobody \notin Messages \cup Dispatchers

VARIABLES
  status,     \* OutboxMessage.status; "none" before the commit
  attempts,   \* OutboxMessage.attempt_count, counted up to MaxAttempts + 1
  token,      \* OutboxMessage.claim_token
  stale,      \* claims older than stale_claim_after
  requeued,   \* OutboxRecoveryCommand rows
  tenantActive,
  pc, claim,  \* a dispatcher's control state and claimed message
  workflow,   \* external: the process's workflow in Temporal
  inbox,      \* messages in the order the workflow accepted them; its
              \* seen-id sets are the messages in here
  crashes

row == <<status, attempts, token, stale, requeued>>
dispatcher == <<pc, claim>>
vars == <<status, attempts, token, stale, requeued, tenantActive, pc, claim,
          workflow, inbox, crashes>>

Init ==
  /\ status = [m \in Messages |-> "none"]
  /\ attempts = [m \in Messages |-> 0]
  /\ token = [m \in Messages |-> Nobody]
  /\ stale = {}
  /\ requeued = {}
  /\ tenantActive = TRUE
  /\ pc = [d \in Dispatchers |-> "idle"]
  /\ claim = [d \in Dispatchers |-> Nobody]
  /\ workflow = "absent"
  /\ inbox = <<>>
  /\ crashes = 0

(* A business transaction that wrote the message commits. *)
Enqueue(m) ==
  /\ status[m] = "none"
  /\ status' = [status EXCEPT ![m] = "pending"]
  /\ UNCHANGED <<attempts, token, stale, requeued, tenantActive, dispatcher,
                 workflow, inbox, crashes>>

-----------------------------------------------------------------------------
(* A dispatcher. *)

(* Pending, or claimed too long ago. *)
Claimable(m) ==
  status[m] = "pending" \/ (status[m] = "publishing" /\ m \in stale)

(* _claim: take a claimable message under a new token.  A stale claim is   *)
(* taken over whatever its attempt count.                                  *)
Claim(d, m) ==
  /\ pc[d] = "idle" /\ tenantActive
  /\ Claimable(m)
  /\ status' = [status EXCEPT ![m] = "publishing"]
  /\ attempts' = [attempts EXCEPT ![m] =
                    IF @ > MaxAttempts THEN @ ELSE @ + 1]
  /\ token' = [token EXCEPT ![m] = d]
  /\ stale' = stale \ {m}
  /\ pc' = [pc EXCEPT ![d] = "claimed"]
  /\ claim' = [claim EXCEPT ![d] = m]
  /\ UNCHANGED <<requeued, tenantActive, workflow, inbox, crashes>>

(* receive_event, receive_review, receive_action_resolution and            *)
(* receive_control: append unless the id was seen.                         *)
Receive(m) ==
  inbox' = IF m \in Range(inbox) THEN inbox ELSE Append(inbox, m)

(* start_workflow with a start signal, accepted: the first one starts the  *)
(* workflow.  The reply may be lost, and then the dispatcher sees an error.*)
SignalAccepted(d) ==
  /\ pc[d] = "claimed"
  /\ workflow # "closed"
  /\ workflow' = "running"
  /\ Receive(claim[d])
  /\ \E r \in {"signalled", "failed"} : pc' = [pc EXCEPT ![d] = r]
  /\ UNCHANGED <<row, tenantActive, claim, crashes>>

(* Mutant: a failed delivery goes on as if it had been accepted. *)
SignalFailedSwallowed(d) ==
  /\ pc[d] = "claimed"
  /\ pc' = [pc EXCEPT ![d] = "signalled"]
  /\ UNCHANGED <<row, tenantActive, claim, workflow, inbox, crashes>>

(* start_workflow fails: Temporal is unreachable, or the workflow is       *)
(* closed and its id may not be used again (REJECT_DUPLICATE).             *)
SignalFailed(d) ==
  /\ pc[d] = "claimed"
  /\ pc' = [pc EXCEPT ![d] = "failed"]
  /\ UNCHANGED <<row, tenantActive, claim, workflow, inbox, crashes>>

(* Mutant: the update is keyed by the message id alone. *)
HoldsUnfenced(d) == TRUE

(* The row is still in publication under this dispatcher's token. *)
Holds(d) == status[claim[d]] = "publishing" /\ token[claim[d]] = d

(* The row leaves publication with status s: status, token and claimed_at. *)
Release(d, s) ==
  /\ status' = [status EXCEPT ![claim[d]] = s]
  /\ token' = [token EXCEPT ![claim[d]] = Nobody]
  /\ stale' = stale \ {claim[d]}

(* The end of dispatch_one after an accepted signal: PUBLISHED, or         *)
(* CLAIM_LOST and no change.                                               *)
MarkPublished(d) ==
  /\ pc[d] = "signalled"
  /\ IF Holds(d) THEN Release(d, "published")
     ELSE UNCHANGED <<status, token, stale>>
  /\ pc' = [pc EXCEPT ![d] = "idle"]
  /\ UNCHANGED <<attempts, requeued, tenantActive, claim, workflow, inbox,
                 crashes>>

(* Mutants: give up one attempt early, or never. *)
ExhaustedEarly(m) == attempts[m] + 1 >= MaxAttempts
ExhaustedNever(m) == FALSE

(* The attempts of the cycle are used up. *)
Exhausted(m) == attempts[m] >= MaxAttempts

(* _record_failure: back to pending, or a dead letter after MaxAttempts.   *)
(* The claimed message's attempt count is the row's while the claim holds. *)
RecordFailure(d) ==
  /\ pc[d] = "failed"
  /\ IF Holds(d)
     THEN Release(d, IF Exhausted(claim[d])
                     THEN "dead_letter" ELSE "pending")
     ELSE UNCHANGED <<status, token, stale>>
  /\ pc' = [pc EXCEPT ![d] = "idle"]
  /\ UNCHANGED <<attempts, requeued, tenantActive, claim, workflow, inbox,
                 crashes>>

(* The worker dies and restarts with no memory of its claim. *)
Crash(d) ==
  /\ pc[d] # "idle" /\ crashes < MaxCrashes
  /\ crashes' = crashes + 1
  /\ pc' = [pc EXCEPT ![d] = "idle"]
  /\ UNCHANGED <<row, tenantActive, claim, workflow, inbox>>

(* stale_claim_after passes. *)
Working(m) ==
  \E d \in Dispatchers : pc[d] # "idle" /\ claim[d] = m /\ token[m] = d

ClaimExpires(m) ==
  /\ status[m] = "publishing" /\ m \notin stale
  /\ SlowDispatchers \/ ~Working(m)
  /\ stale' = stale \cup {m}
  /\ UNCHANGED <<status, attempts, token, requeued, tenantActive, dispatcher,
                 workflow, inbox, crashes>>

-----------------------------------------------------------------------------
(* Operators and the environment. *)

(* OutboxRecoveryService.requeue: a new cycle for a dead letter; repeating *)
(* the command changes nothing.                                            *)
Requeue(c, m) ==
  /\ c \notin requeued
  /\ status[m] = "dead_letter"
  /\ requeued' = requeued \cup {c}
  /\ status' = [status EXCEPT ![m] = "pending"]
  /\ attempts' = [attempts EXCEPT ![m] = 0]
  /\ token' = [token EXCEPT ![m] = Nobody]
  /\ UNCHANGED <<stale, tenantActive, dispatcher, workflow, inbox, crashes>>

(* TenantSafetyService.set_status *)
SwitchTenant ==
  /\ tenantActive' = ~tenantActive
  /\ UNCHANGED <<row, dispatcher, workflow, inbox, crashes>>

(* External: the process ends and its workflow closes for good. *)
CloseWorkflow ==
  /\ workflow = "running" /\ workflow' = "closed"
  /\ UNCHANGED <<row, tenantActive, dispatcher, inbox, crashes>>

Finish(d) == MarkPublished(d) \/ RecordFailure(d)

Next ==
  \/ \E m \in Messages : Enqueue(m)
  \/ \E d \in Dispatchers, m \in Messages : Claim(d, m)
  \/ \E d \in Dispatchers : SignalAccepted(d)
  \/ \E d \in Dispatchers : SignalFailed(d)
  \/ \E d \in Dispatchers : MarkPublished(d)
  \/ \E d \in Dispatchers : RecordFailure(d)
  \/ \E d \in Dispatchers : Crash(d)
  \/ \E m \in Messages : ClaimExpires(m)
  \/ \E c \in RequeueCommands, m \in Messages : Requeue(c, m)
  \/ SwitchTenant
  \/ CloseWorkflow

Spec == Init /\ [][Next]_vars

(* A live dispatcher keeps polling and finishes what it claimed, and time  *)
(* passes.  Nothing is assumed of operators, of writers or of whether      *)
(* Temporal accepts a signal.                                              *)
Fairness ==
  /\ \A d \in Dispatchers :
       /\ WF_vars(\E m \in Messages : Claim(d, m))
       /\ WF_vars(SignalAccepted(d) \/ SignalFailed(d))
       /\ WF_vars(Finish(d))
  /\ \A m \in Messages : WF_vars(ClaimExpires(m))

FairSpec == Spec /\ Fairness

-----------------------------------------------------------------------------
(* Properties. *)

(* Type invariant, with the table's claim_state_consistent constraint. *)
TypeOK ==
  /\ status \in [Messages -> {"none", "pending", "publishing", "published",
                              "dead_letter"}]
  /\ attempts \in [Messages -> 0 .. (MaxAttempts + 1)]
  /\ token \in [Messages -> Dispatchers \cup {Nobody}]
  /\ \A m \in Messages : token[m] # Nobody <=> status[m] = "publishing"
  /\ stale \subseteq {m \in Messages : status[m] = "publishing"}
  /\ requeued \subseteq RequeueCommands
  /\ tenantActive \in BOOLEAN
  /\ pc \in [Dispatchers -> {"idle", "claimed", "signalled", "failed"}]
  /\ claim \in [Dispatchers -> Messages \cup {Nobody}]
  /\ workflow \in {"absent", "running", "closed"}
  /\ inbox \in Seq(Messages)
  /\ crashes \in 0 .. MaxCrashes

(* A message is marked published only when the mailbox has accepted it, no *)
(* matter how many dispatchers claimed it and which of their replies was   *)
(* lost (dispatcher.py:133-172).                                           *)
PublishedIsDelivered ==
  \A m \in Messages : status[m] = "published" => m \in Range(inbox)

(* Published is final: a slow dispatcher that lost its claim cannot put    *)
(* the message back or dead-letter it (the token in dispatcher.py:153-159, *)
(* 284-290).                                                               *)
PublishedIsFinal ==
  [][\A m \in Messages : status[m] = "published" => status'[m] = "published"]_vars

(* A message is dead-lettered only after MaxAttempts claims of its cycle,  *)
(* and by the last of them.                                                *)
DeadLetterIsEarned ==
  \A m \in Messages : status[m] = "dead_letter" => attempts[m] >= MaxAttempts

(* The rows of the outbox are well typed, each claim has its token, and no *)
(* message is given up before its attempts are spent                       *)
(* (dispatcher.py:255-297).                                                *)
RowsAreSound == TypeOK /\ DeadLetterIsEarned

(* If the tenant is not suspended forever, and from some time on no claim  *)
(* expires while its owner is at work, every committed message ends as     *)
(* published or, visibly to operators, as a dead letter, whatever became   *)
(* of earlier claims.                                                      *)
EventuallySettled ==
  <>[](tenantActive /\ \A m \in stale : ~Working(m)) =>
    \A m \in Messages :
      status[m] = "pending" ~> status[m] \in {"published", "dead_letter"}

(* README.md:104 and docs/temporal-recovery.md:48: delivery is attempted a *)
(* bounded number of times, and then the message is a dead letter.         *)
BoundedAttempts == \A m \in Messages : attempts[m] <= MaxAttempts

(* The promise this component implements. *)
Promised ==
  INSTANCE Delivery WITH
    promised <- {m \in Messages : status[m] # "none"},
    settled <- {m \in Messages : status[m] = "published"}

(* Every step of the outbox is a step of Delivery or changes nothing of    *)
(* what it speaks about.                                                   *)
ImplementsDelivery == Promised!DeliverySpec
=============================================================================
