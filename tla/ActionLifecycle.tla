--------------------------- MODULE ActionLifecycle ---------------------------
(***************************************************************************)
(* The life of an action request: proposed by a turn and classified by     *)
(* policy (actions/gateway.py), decided by a reviewer (reviews/service.py),*)
(* executed against a provider (actions/execution.py), reconciled by       *)
(* provider lookup, and, when nobody can tell what happened, resolved by   *)
(* an operator (actions/reconciliation.py), while other operators pause    *)
(* and resume the process (processes/control.py).                          *)
(*                                                                         *)
(* All actions belong to one process instance of one tenant.  Every        *)
(* database transaction is one step, because each one locks the process    *)
(* row or the request row before it reads what it decides on.  The one     *)
(* exception is the execution transaction that keeps both row locks while  *)
(* it waits for the provider: it is a step that takes the locks            *)
(* (pc = "calling"), a provider step, and the step that records the        *)
(* outcome.  The locks are not a variable of their own: a row is locked    *)
(* exactly while some executor is "calling".                               *)
(*                                                                         *)
(* An executor is one run of execute() or reconcile(), started at any time *)
(* and as often as one likes.  It may die between any two transactions, or *)
(* during the provider call, whose request may then still arrive.          *)
(***************************************************************************)
EXTENDS Naturals, FiniteSets

CONSTANTS
  Actions,            \* action requests; revision 1 is the only revision
  IdempotentActions,  \* those whose adapter has guarantees_idempotency
  Payloads,           \* payload hashes
  Executors,          \* concurrent runs of execute() and reconcile()
  Commands            \* ids of review commands

ASSUME IdempotentAssumption == IdempotentActions \subseteq Actions

(* A value that is no payload: the column of a row that does not exist. *)
NoPayload == "no_payload"

(* It is no payload hash. *)
ASSUME NoPayloadAssumption == NoPayload \notin Payloads

VARIABLES
  process,    \* ProcessInstance.status: "active" stands for the three
              \* statuses (active, waiting, review) that permit actions
  tenant,     \* may the tenant's processes execute?
  breaker,    \* does a breaker or a communication rule block the action?
  request,    \* ActionRequest.status, "none" before the row exists
  policy,     \* ActionPolicyRecord.outcome
  payload,    \* ActionRevision.payload_hash
  approval,   \* ApprovalRequest.status, and with it the thread's
  command,    \* ReviewMessage rows, by command id
  attempt,    \* ActionAttempt.status
  resolution, \* ActionReconciliationDecision.resolution
  outbox,     \* messages handed to the transactional outbox
  pc, job, outcome,   \* the executors' control state, action and result
  ledger,     \* external: what the provider recorded for the action's key
  inflight,   \* external: calls of dead executors that may still arrive
  effects,    \* external: how often the side effect happened
  sent        \* the payload last sent to the provider

control == <<process, tenant, breaker>>
proposal == <<policy, payload>>
review == <<approval, command>>
executors == <<pc, job, outcome>>
provider == <<ledger, inflight, effects>>
vars == <<process, tenant, breaker, request, policy, payload, approval,
          command, attempt, resolution, outbox, pc, job, outcome, ledger,
          inflight, effects, sent>>

PermissionOutcome == {"allow", "require_approval", "deny"}

TerminalStatus == {"succeeded", "failed", "conflict"}

(* _load_authorized_action's retryable_statuses. *)
RetryableStatus == {"executing", "unknown", "reconciling"} \cup TerminalStatus

ActionRequestStatus ==
  {"allowed", "pending_approval", "denied", "approved", "rejected",
   "superseded"} \cup RetryableStatus

(* The requests that keep a process from completing. *)
OpenStatus == {"allowed", "pending_approval", "approved", "executing",
               "unknown", "reconciling"}

ApprovalStatus == {"pending", "approved", "rejected", "superseded"}

ReviewCommandType == {"approve", "reject", "request_revision", "comment"}

ReviewMessage ==
  [action : Actions, type : ReviewCommandType, hash : Payloads]

NoMessage == [action |-> "none", type |-> "none", hash |-> NoPayload]

OutboxMessage ==
  [kind : {"process_review"}, id : Commands] \cup
  [kind : {"action_resolution"}, id : Actions] \cup
  [kind : {"process_control"}, id : {"takeover", "retry"}] \cup
  [kind : {"process_event"}, id : {"manual_wake"}]

-----------------------------------------------------------------------------
(* Row locks and authorization. *)

(* No transaction is holding the process row across a provider call. *)
ProcessUnlocked == \A e \in Executors : pc[e] # "calling"

(* Nor the row of this request, for those who lock only that one. *)
RequestUnlocked(a) == \A e \in Executors : pc[e] # "calling" \/ job[e] # a

(* The status fence of every command: neither paused nor terminal. *)
ProcessPermits == process = "active"

(* initial_action_request_status *)
initial_action_request_status(o) ==
  CASE o = "allow" -> "allowed"
    [] o = "require_approval" -> "pending_approval"
    [] o = "deny" -> "denied"

(* Mutant: the status of the request is trusted, and the approval is not   *)
(* looked up.                                                              *)
AuthorizedUnreviewed(a) ==
  /\ ProcessPermits
  /\ request[a] \in {"allowed", "pending_approval", "approved"} \cup RetryableStatus

(* _load_authorized_action: the exact payload is allowed, or approved, now. *)
Authorized(a) ==
  /\ ProcessPermits
  /\ \/ /\ policy[a] = "allow"
        /\ request[a] \in {"allowed"} \cup RetryableStatus
     \/ /\ policy[a] = "require_approval"
        /\ approval[a] = "approved"
        /\ request[a] \in {"approved"} \cup RetryableStatus

(* Mutant: an upsert instead of ON CONFLICT DO NOTHING. *)
IsNewActionUpsert(a) == TRUE

(* The action request does not exist yet. *)
IsNewAction(a) == request[a] = "none"

(* Mutant: only a rejected or superseded review is closed. *)
IsReviewPendingLoose(a) == approval[a] \in {"pending", "approved"}

(* The approval is pending, and its thread open. *)
IsReviewPending(a) == approval[a] = "pending"

(* Mutant: retry whatever the adapter guarantees. *)
MayRetryAlways(a) == TRUE

(* A retry of what may have been performed needs an adapter that           *)
(* guarantees idempotency.                                                 *)
MayRetry(a) == a \in IdempotentActions

Init ==
  /\ process = "active" /\ tenant = TRUE /\ breaker = FALSE
  /\ request = [a \in Actions |-> "none"]
  /\ policy = [a \in Actions |-> "none"]
  /\ payload = [a \in Actions |-> NoPayload]
  /\ approval = [a \in Actions |-> "none"]
  /\ command = [c \in Commands |-> NoMessage]
  /\ attempt = [a \in Actions |-> "none"]
  /\ resolution = [a \in Actions |-> "none"]
  /\ outbox = {}
  /\ pc = [e \in Executors |-> "idle"]
  /\ job = [e \in Executors |-> "none"]
  /\ outcome = [e \in Executors |-> "none"]
  /\ ledger = [a \in Actions |-> "none"]
  /\ inflight = {}
  /\ effects = [a \in Actions |-> 0]
  /\ sent = [a \in Actions |-> NoPayload]

-----------------------------------------------------------------------------
(* Proposal and review. *)

(* ActionGateway.persist_decision with _persist_action, for one proposal   *)
(* of a decision.  A decision with several proposals is several steps: no  *)
(* property here relates two proposals of one decision.  A replay finds    *)
(* the rows (ON CONFLICT DO NOTHING) and changes nothing, whatever payload *)
(* it carries.                                                             *)
PersistAction(a, p, o) ==
  /\ ProcessUnlocked /\ ProcessPermits /\ ~breaker
  /\ IsNewAction(a)
  /\ request' = [request EXCEPT ![a] = initial_action_request_status(o)]
  /\ policy' = [policy EXCEPT ![a] = o]
  /\ payload' = [payload EXCEPT ![a] = p]
  /\ approval' = IF o = "require_approval"
                 THEN [approval EXCEPT ![a] = "pending"] ELSE approval
  /\ UNCHANGED <<control, command, attempt, resolution, outbox, executors,
                 provider, sent>>

(* ReviewService.apply.  A repeated command id returns the stored result   *)
(* and changes nothing.                                                    *)
ApplyReview(c, a, type, hash) ==
  /\ ProcessUnlocked /\ ProcessPermits
  /\ command[c] = NoMessage
  /\ IsReviewPending(a)
  /\ type = "approve" => hash = payload[a]
  /\ approval' =
       [approval EXCEPT ![a] =
          CASE type = "approve" -> "approved"
            [] type = "reject" -> "rejected"
            [] type = "request_revision" -> "superseded"
            [] type = "comment" -> "pending"]
  /\ request' =
       [request EXCEPT ![a] =
          CASE type = "approve" -> "approved"
            [] type = "reject" -> "rejected"
            [] type = "request_revision" -> "superseded"
            [] type = "comment" -> @]
  /\ command' =
       [command EXCEPT ![c] = [action |-> a, type |-> type, hash |-> hash]]
  /\ outbox' = outbox \cup {[kind |-> "process_review", id |-> c]}
  /\ UNCHANGED <<control, proposal, attempt, resolution, executors,
                 provider, sent>>

-----------------------------------------------------------------------------
(* Execution. *)

(* Mutant: a settled attempt is not returned early. *)
ExecuteBeginSettled(e, a) ==
  /\ pc[e] = "idle"
  /\ ProcessUnlocked /\ tenant /\ Authorized(a)
  /\ attempt' = IF attempt[a] = "none"
                THEN [attempt EXCEPT ![a] = "executing"] ELSE attempt
  /\ request' = [request EXCEPT ![a] = "executing"]
  /\ pc' = [pc EXCEPT ![e] = IF attempt[a] = "none"
                             THEN "authorize" ELSE "lookup"]
  /\ job' = [job EXCEPT ![e] = a]
  /\ UNCHANGED <<control, proposal, review, resolution, outbox, outcome,
                 provider, sent>>

(* execute(), first transaction: reserve the attempt, or find the one that *)
(* an earlier run left unfinished.  A terminal attempt is returned as it   *)
(* is, and a rejected run changes nothing.                                 *)
ExecuteBegin(e, a) ==
  /\ pc[e] = "idle"
  /\ ProcessUnlocked /\ tenant /\ Authorized(a)
  /\ attempt[a] \notin TerminalStatus
  /\ attempt' = IF attempt[a] = "none"
                THEN [attempt EXCEPT ![a] = "executing"] ELSE attempt
  /\ request' = [request EXCEPT ![a] = "executing"]
  /\ pc' = [pc EXCEPT ![e] = IF attempt[a] = "none"
                             THEN "authorize" ELSE "lookup"]
  /\ job' = [job EXCEPT ![e] = a]
  /\ UNCHANGED <<control, proposal, review, resolution, outbox, outcome,
                 provider, sent>>

(* The result is r, and _record_terminal is next. *)
Conclude(e, r) ==
  /\ outcome' = [outcome EXCEPT ![e] = r]
  /\ pc' = [pc EXCEPT ![e] = "record"]

(* What the provider says it did under the key, if anything. *)
LedgerOutcome(a) == IF ledger[a] = "applied" THEN "succeeded" ELSE "conflict"

(* execute() on an unfinished attempt: lookup before retry.  The lookup    *)
(* may fail, may find the recorded outcome, or may find nothing, which     *)
(* proves nothing: the call may still be on its way.                       *)
ExecuteLookup(e) ==
  /\ pc[e] = "lookup"
  /\ \/ Conclude(e, "unknown")
     \/ /\ ledger[job[e]] # "none"
        /\ Conclude(e, LedgerOutcome(job[e]))
     \/ /\ MayRetry(job[e])
        /\ pc' = [pc EXCEPT ![e] = "authorize"]
        /\ UNCHANGED outcome
  /\ UNCHANGED <<control, request, proposal, review, attempt, resolution,
                 outbox, job, provider, sent>>

(* execute(), second transaction: authorize again under the row locks and  *)
(* send the request while they are held; a breaker or a communication rule *)
(* that blocks it is a recorded failure.                                   *)
ExecuteAuthorize(e) ==
  /\ pc[e] = "authorize"
  /\ ProcessUnlocked /\ tenant /\ Authorized(job[e])
  /\ IF breaker
     THEN Conclude(e, "failed") /\ UNCHANGED sent
     ELSE /\ pc' = [pc EXCEPT ![e] = "calling"]
          /\ sent' = [sent EXCEPT ![job[e]] = payload[job[e]]]
          /\ UNCHANGED outcome
  /\ UNCHANGED <<control, request, proposal, review, attempt, resolution,
                 outbox, job, provider>>

(* The same transaction when the tenant was suspended or the authorization *)
(* is gone: the run ends with an exception and the attempt stays as it is. *)
ExecuteRejected(e) ==
  /\ pc[e] = "authorize"
  /\ ProcessUnlocked /\ ~(tenant /\ Authorized(job[e]))
  /\ pc' = [pc EXCEPT ![e] = "idle"]
  /\ UNCHANGED <<control, request, proposal, review, attempt, resolution,
                 outbox, job, outcome, provider, sent>>

(* External: the provider performs the action.  An adapter that guarantees *)
(* idempotency performs it once for a key.                                 *)
Perform(a) ==
  /\ effects' = IF a \in IdempotentActions /\ ledger[a] = "applied"
                THEN effects ELSE [effects EXCEPT ![a] = @ + 1]
  /\ ledger' = [ledger EXCEPT ![a] = "applied"]

(* The provider answers, and the transaction that held the locks commits.  *)
(* Success, a definitive failure or conflict, or an error that leaves open *)
(* whether the action was performed.                                       *)
ProviderReturns(e) ==
  /\ pc[e] = "calling"
  /\ \/ ledger[job[e]] # "conflict" /\ Perform(job[e])
        /\ \E r \in {"succeeded", "unknown"} : Conclude(e, r)
     \/ ledger[job[e]] = "none"
        /\ \E r \in {"failed", "unknown"} : Conclude(e, r)
        /\ UNCHANGED <<effects, ledger>>
     \/ ledger[job[e]] # "applied"
        /\ ledger' = [ledger EXCEPT ![job[e]] = "conflict"]
        /\ \E r \in {"conflict", "unknown"} : Conclude(e, r)
        /\ UNCHANGED effects
  /\ UNCHANGED <<control, request, proposal, review, attempt, resolution,
                 outbox, job, inflight, sent>>

(* Mutant: the late recorder overwrites what is already settled. *)
RecordTerminalAlways(e) ==
  /\ pc[e] = "record" /\ RequestUnlocked(job[e])
  /\ pc' = [pc EXCEPT ![e] = "idle"]
  /\ attempt' = [attempt EXCEPT ![job[e]] = outcome[e]]
  /\ request' = [request EXCEPT ![job[e]] = outcome[e]]
  /\ UNCHANGED <<control, proposal, review, resolution, outbox, job, outcome,
                 provider, sent>>

(* _record_terminal: a terminal attempt is never overwritten. *)
RecordTerminal(e) ==
  /\ pc[e] = "record" /\ RequestUnlocked(job[e])
  /\ pc' = [pc EXCEPT ![e] = "idle"]
  /\ IF attempt[job[e]] \in TerminalStatus
     THEN UNCHANGED <<attempt, request>>
     ELSE /\ attempt' = [attempt EXCEPT ![job[e]] = outcome[e]]
          /\ request' = [request EXCEPT ![job[e]] = outcome[e]]
  /\ UNCHANGED <<control, proposal, review, resolution, outbox, job, outcome,
                 provider, sent>>

(* An executor dies, is cancelled or times out: an open transaction rolls  *)
(* back, and a request already sent may arrive later or not at all.        *)
Crash(e) ==
  /\ pc[e] # "idle"
  /\ pc' = [pc EXCEPT ![e] = "idle"]
  /\ inflight' = IF pc[e] = "calling" THEN inflight \cup {job[e]} ELSE inflight
  /\ UNCHANGED <<control, request, proposal, review, attempt, resolution,
                 outbox, job, outcome, ledger, effects, sent>>

(* External: the request of a dead executor arrives. *)
LateArrival(a) ==
  /\ a \in inflight
  /\ inflight' = inflight \ {a}
  /\ IF ledger[a] = "conflict" THEN UNCHANGED <<ledger, effects>>
     ELSE Perform(a)
  /\ UNCHANGED <<control, request, proposal, review, attempt, resolution,
                 outbox, executors, sent>>

-----------------------------------------------------------------------------
(* Reconciliation. *)

(* reconcile(), its transaction.  A suspended tenant may still reconcile. *)
ReconcileBegin(e, a) ==
  /\ pc[e] = "idle"
  /\ ProcessUnlocked /\ Authorized(a)
  /\ attempt[a] \notin TerminalStatus \cup {"none"}
  /\ attempt' = [attempt EXCEPT ![a] = "reconciling"]
  /\ request' = [request EXCEPT ![a] = "reconciling"]
  /\ pc' = [pc EXCEPT ![e] = "reconcile"]
  /\ job' = [job EXCEPT ![e] = a]
  /\ UNCHANGED <<control, proposal, review, resolution, outbox, outcome,
                 provider, sent>>

(* Mutant: a lookup that finds nothing is taken for an answer. *)
ReconcileLookupBlind(e) ==
  /\ pc[e] = "reconcile"
  /\ Conclude(e, LedgerOutcome(job[e]))
  /\ UNCHANGED <<control, request, proposal, review, attempt, resolution,
                 outbox, job, provider, sent>>

(* reconcile(): provider lookup only. *)
ReconcileLookup(e) ==
  /\ pc[e] = "reconcile"
  /\ \/ Conclude(e, "unknown")
     \/ ledger[job[e]] # "none" /\ Conclude(e, LedgerOutcome(job[e]))
  /\ UNCHANGED <<control, request, proposal, review, attempt, resolution,
                 outbox, job, provider, sent>>

(* ActionReconciliationService.resolve_unknown, by an operator who has     *)
(* evidence.  A repeated command finds the stored decision.                *)
ResolveUnknown(a, r) ==
  /\ RequestUnlocked(a)
  /\ resolution[a] = "none"
  /\ attempt[a] \in {"unknown", "reconciling"}
  /\ attempt' = [attempt EXCEPT ![a] = r]
  /\ request' = [request EXCEPT ![a] = r]
  /\ resolution' = [resolution EXCEPT ![a] = r]
  /\ outbox' = outbox \cup {[kind |-> "action_resolution", id |-> a]}
  /\ UNCHANGED <<control, proposal, review, executors, provider, sent>>

-----------------------------------------------------------------------------
(* Controls. *)

uncontrolled == <<request, proposal, review, attempt, resolution, executors,
                  provider, sent>>

(* apply_control: the message its command writes.  A second command of the *)
(* same type writes the same message here: commands are not told apart.    *)
EnqueueControl(type) ==
  outbox' = outbox \cup {[kind |-> "process_control", id |-> type]}

EnqueueManualWake ==
  outbox' = outbox \cup {[kind |-> "process_event", id |-> "manual_wake"]}

(* Mutant: the takeover does not wait for the process row's lock. *)
TakeoverUnfenced ==
  /\ process = "active" /\ process' = "paused"
  /\ EnqueueControl("takeover")
  /\ UNCHANGED <<tenant, breaker, uncontrolled>>

(* ProcessControlService.apply_control, TAKEOVER *)
Takeover ==
  /\ ProcessUnlocked /\ process = "active" /\ process' = "paused"
  /\ EnqueueControl("takeover")
  /\ UNCHANGED <<tenant, breaker, uncontrolled>>

(* RETRY, of an open intervention; a paused process is active again. *)
Retry ==
  /\ ProcessUnlocked /\ process # "completed" /\ process' = "active"
  /\ EnqueueControl("retry")
  /\ UNCHANGED <<tenant, breaker, uncontrolled>>

(* RESUME *)
Resume ==
  /\ ProcessUnlocked /\ process = "paused" /\ process' = "active"
  /\ EnqueueManualWake
  /\ UNCHANGED <<tenant, breaker, uncontrolled>>

(* WAKE *)
ManualWake ==
  /\ ProcessUnlocked /\ process = "active" /\ UNCHANGED process
  /\ EnqueueManualWake
  /\ UNCHANGED <<tenant, breaker, uncontrolled>>

(* Mutant: an action that is being executed does not count as open. *)
CompleteEarly ==
  /\ ProcessUnlocked /\ ProcessPermits
  /\ \A a \in Actions : request[a] \notin OpenStatus \ {"executing"}
  /\ process' = "completed"
  /\ UNCHANGED <<tenant, breaker, outbox, uncontrolled>>

(* ProcessStateService.apply_decision of a decision that completes the     *)
(* process: _next_status rejects it while an action is open.               *)
Complete ==
  /\ ProcessUnlocked /\ ProcessPermits
  /\ \A a \in Actions : request[a] \notin OpenStatus
  /\ process' = "completed"
  /\ UNCHANGED <<tenant, breaker, outbox, uncontrolled>>

(* A platform operator suspends or reactivates the tenant. *)
SwitchTenant ==
  tenant' = ~tenant /\ UNCHANGED <<process, breaker, outbox, uncontrolled>>

(* A breaker is tripped or reset, or a communication rule starts or stops  *)
(* to apply: neither takes a row lock.                                     *)
SwitchBreaker ==
  breaker' = ~breaker /\ UNCHANGED <<process, tenant, outbox, uncontrolled>>

ExecutorStep(e) ==
  \/ \E a \in Actions : ExecuteBegin(e, a) \/ ReconcileBegin(e, a)
  \/ ExecuteLookup(e)
  \/ ExecuteAuthorize(e)
  \/ ExecuteRejected(e)
  \/ ProviderReturns(e)
  \/ ReconcileLookup(e)
  \/ RecordTerminal(e)
  \/ Crash(e)

Next ==
  \/ \E a \in Actions, p \in Payloads, o \in PermissionOutcome :
       PersistAction(a, p, o)
  \/ \E c \in Commands, a \in Actions, t \in ReviewCommandType,
        h \in Payloads : ApplyReview(c, a, t, h)
  \/ \E e \in Executors : ExecutorStep(e)
  \/ \E a \in Actions : LateArrival(a)
  \/ \E a \in Actions, r \in {"succeeded", "failed"} : ResolveUnknown(a, r)
  \/ Takeover
  \/ Retry
  \/ Resume
  \/ ManualWake
  \/ Complete
  \/ SwitchTenant
  \/ SwitchBreaker

Spec == Init /\ [][Next]_vars

-----------------------------------------------------------------------------
(* Properties. *)

(* Type invariant: every row holds a value its column may hold. *)
TypeOK ==
  /\ process \in {"active", "paused", "completed"}
  /\ tenant \in BOOLEAN
  /\ breaker \in BOOLEAN
  /\ request \in [Actions -> ActionRequestStatus \cup {"none"}]
  /\ policy \in [Actions -> PermissionOutcome \cup {"none"}]
  /\ payload \in [Actions -> Payloads \cup {NoPayload}]
  /\ approval \in [Actions -> ApprovalStatus \cup {"none"}]
  /\ command \in [Commands -> ReviewMessage \cup {NoMessage}]
  /\ attempt \in [Actions -> RetryableStatus \cup {"none"}]
  /\ resolution \in [Actions -> {"none", "succeeded", "failed"}]
  /\ outbox \subseteq OutboxMessage
  /\ pc \in [Executors -> {"idle", "lookup", "authorize", "calling",
                           "reconcile", "record"}]
  /\ job \in [Executors -> Actions \cup {"none"}]
  /\ outcome \in [Executors -> TerminalStatus \cup {"unknown", "none"}]
  /\ ledger \in [Actions -> {"none", "applied", "conflict"}]
  /\ inflight \subseteq Actions
  /\ effects \in [Actions -> Nat]
  /\ sent \in [Actions -> Payloads \cup {NoPayload}]

(* However many runs of execute() and reconcile() overlap, die and are     *)
(* repeated, and however late a lost call arrives, the side effect of an   *)
(* action happens at most once: an adapter without idempotency is called   *)
(* only by the run that created the attempt (execution.py:165-185).        *)
SideEffectAtMostOnce == \A a \in Actions : effects[a] <= 1

(* A payload reaches the provider only if policy allowed the action or a   *)
(* reviewer approved exactly that payload of exactly that action           *)
(* (execution.py:464-503, reviews/service.py:113-130).                     *)
ExactApproval ==
  \A a \in Actions : sent[a] # NoPayload =>
    \/ policy[a] = "allow"
    \/ /\ policy[a] = "require_approval"
       /\ \E c \in Commands :
            command[c] = [action |-> a, type |-> "approve", hash |-> sent[a]]

(* A pause or a completion is serialized with the provider call: while a   *)
(* call is out the process is neither paused nor completed, and the action *)
(* is authorized (the comment at execution.py:238-241).                    *)
PauseFencesProvider ==
  \A e \in Executors : pc[e] = "calling" => Authorized(job[e])

(* Once an attempt is settled no late recorder, reconciliation or operator *)
(* changes the attempt or its request (execution.py:577-582).              *)
TerminalOutcomeIsFinal ==
  [][\A a \in Actions : attempt[a] \in TerminalStatus =>
       attempt'[a] = attempt[a] /\ request'[a] = request[a]]_vars

(* The request and its attempt never tell different stories: a settled     *)
(* attempt has a request of the same status, an unsettled one a request    *)
(* that still counts as open, an operator's resolution stands in both, and *)
(* only a request with an attempt has an execution status.                 *)
RequestTracksAttempt ==
  \A a \in Actions :
    /\ attempt[a] \in TerminalStatus => request[a] = attempt[a]
    /\ attempt[a] \in {"executing", "unknown", "reconciling"} =>
         request[a] \in {"executing", "unknown", "reconciling"}
    /\ request[a] \in RetryableStatus => attempt[a] # "none"
    /\ resolution[a] # "none" => attempt[a] = resolution[a]

(* What the platform records without an operator is what the provider did: *)
(* a success was performed, a conflict was not, and a failure was not      *)
(* either, at least where a retry could not have interfered.               *)
OutcomeIsTruthful ==
  \A a \in Actions : resolution[a] = "none" =>
    /\ attempt[a] = "succeeded" => effects[a] > 0
    /\ attempt[a] = "conflict" => ledger[a] = "conflict" /\ effects[a] = 0
    /\ attempt[a] = "failed" /\ a \notin IdempotentActions => effects[a] = 0

(* A review has one winner: of the commands applied to an action at most   *)
(* one decides it (README.md:83, "competing commands cannot both win").    *)
OneReviewWins ==
  \A c, d \in Commands :
    (/\ command[c].action = command[d].action
     /\ {command[c].type, command[d].type} \subseteq
          {"approve", "reject", "request_revision"}) => c = d

(* A completed process stays quiet: none of its actions is open, and none  *)
(* becomes open again (transitions.py:86-87, state.py:280-302).            *)
CompletedIsQuiet ==
  process = "completed" => \A a \in Actions : request[a] \notin OpenStatus

(* The rows of an action are well typed and tell one story. *)
RecordsAreCoherent == TypeOK /\ RequestTracksAttempt

(* The promise that this component implements. *)
Promised ==
  INSTANCE ActionPromise WITH
    proposed <- payload,
    permitted <- {a \in Actions : policy[a] = "allow" \/ approval[a] = "approved"},
    refused <- {a \in Actions : \/ policy[a] = "deny"
                                \/ approval[a] \in {"rejected", "superseded"}},
    settled <- [a \in Actions |-> IF attempt[a] \in TerminalStatus
                                  THEN attempt[a] ELSE "open"],
    byHand <- {a \in Actions : resolution[a] # "none"}

(* However executors, reviewers and operators interleave, die and repeat   *)
(* themselves, an action is decided once, sent only as it was permitted,   *)
(* performed at most once and settled once, and what the platform settles  *)
(* is and stays true (execution.py:102-286, 326-390, 419-594).             *)
ImplementsPromise == Promised!PromiseSpec

=============================================================================
