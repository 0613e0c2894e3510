------------------------------- MODULE Journey -------------------------------
(***************************************************************************)
(* One process across its three homes: the rows PostgreSQL keeps of it     *)
(* (processes/state.py, processes/control.py, the requests of              *)
(* actions/gateway.py), the commands the outbox still has to deliver, and  *)
(* its mailbox workflow.  The workflow is that of module Mailbox: every    *)
(* step of it here is a step there, together with what the activity that   *)
(* returns did to the database.                                            *)
(*                                                                         *)
(* An activity that writes commits in a step of its own, before it         *)
(* returns: it may return then, or its answers are lost, or the retry is   *)
(* refused, and the turn fails although the rows are there.  A retry that  *)
(* finds the rows of its turn changes nothing and is no step.  Operators   *)
(* and reviewers commit between any two steps.                             *)
(*                                                                         *)
(* A decision proposes at most one action, so a turn has one source: the   *)
(* event, review command or timer that woke the process, or the action     *)
(* whose result it follows.                                                *)
(***************************************************************************)
EXTENDS Mailbox

CONSTANTS
  Actions,    \* action requests the turns may propose
  Outcomes,   \* permissions the definition gives to its actions
  Keys,       \* keys of facts
  Observes,   \* the facts an event or a succeeded action brings
  Required,   \* completion_requirements: key -> expected value
  MaxFacts,   \* max_process_fact_entries
  MaxTimers,  \* bound on the decisions that set a timer
  Reordered   \* may the outbox deliver out of order?

Kinds == {"authoritative", "claim"}
Slot == Kinds \X Keys          \* a fact's place, and its provenance's key
NoValue == "no_value"
NoSource == "no_source"
Source == Items \cup Actions \cup {"timer", NoSource}

ASSUME JourneyAssumption ==
  /\ EventTypes \cap {"timer", "human", "approval", "operator"} = {}
  /\ Outcomes \subseteq {"allow", "require_approval", "deny"}
  /\ DOMAIN Observes \subseteq Items \cup Actions
  /\ \A s \in DOMAIN Observes : \A o \in Observes[s] :
       /\ o = [kind |-> o.kind, key |-> o.key, value |-> o.value]
       /\ o.value # NoValue
  /\ DOMAIN Required \subseteq Keys
  /\ MaxActions # 0
  /\ MaxFacts \in Nat /\ MaxTimers \in Nat
  /\ Reordered \in BOOLEAN

VARIABLES
  status,         \* ProcessInstance.status
  wakes,          \* current_wake_conditions
  facts,          \* authoritative_facts and customer_claims
  provenance,     \* fact_provenance
  request,        \* ActionRequest.status, "none" before the row exists
  interventions,  \* open interventions: the turn and its source
  intervened,     \* turns with an intervention, open or resolved
  committed,      \* commands and events, in the order they were committed
  about,          \* the action or the source each of them is about
  base,           \* the id of the chain's first turn; the next are base + 1...
  lineage,        \* what each turn of the chain is based on
  decision,       \* what run_agent_turn returned
  wrote,          \* has the running activity committed?
  revision,       \* outcome of the last ProcessStateRevision
  job,            \* the action the turn proposed, or that is executed
  timers,         \* decisions so far that set a timer
  dropped         \* history: actions nobody will execute or hear of again

mailbox == <<buffer, seen, carried, started, plan, closed, pc, direct, depth,
             todo, results, projection, turns, suggested, delivered, taken>>
process == <<status, wakes, facts, provenance>>
rows == <<process, request, interventions, intervened, committed, about>>
thread == <<base, lineage, decision, wrote, revision, job, timers,
            dropped>>
journey == <<mailbox, rows, thread>>

(* ProcessStatus; nothing in the code sets cancelled or failed. *)
ProcessStatus == {"active", "waiting", "review", "paused", "completed"}

(* The fence of every command and every persistence. *)
Permits == status \notin {"paused", "completed"}

RequestStatus == {"none", "allowed", "pending_approval", "denied", "approved",
                  "rejected", "superseded", "executing", "unknown",
                  "succeeded", "failed"}

(* Mutant: an approved request is not open any more. *)
OpenUnapproved ==
  {a \in Actions : request[a] \in
     {"allowed", "pending_approval", "executing", "unknown"}}

(* _load_open_actions *)
Open ==
  {a \in Actions : request[a] \in
     {"allowed", "pending_approval", "approved", "executing", "unknown"}}

NeedsHuman == {a \in Actions : request[a] \in {"pending_approval", "unknown"}}

-----------------------------------------------------------------------------
(* Facts. *)

(* What the innermost turn is based on, and its id. *)
source == lineage[depth + 1]
turnId == base + depth

(* The facts that come with a source: an action's only once it succeeded. *)
Observed(s) ==
  IF s \notin DOMAIN Observes \/ (s \in Actions /\ request[s] # "succeeded")
  THEN {} ELSE Observes[s]

(* apply_fact_observations: an observation replaces the fact of its kind   *)
(* and key, and the provenance with it.                                    *)
FactsAfter(s) ==
  [x \in Slot |->
     IF \E o \in Observed(s) : <<o.kind, o.key>> = x
     THEN (CHOOSE o \in Observed(s) : <<o.kind, o.key>> = x).value
     ELSE facts[x]]

ProvenanceAfter(s) ==
  [x \in Slot |->
     IF \E o \in Observed(s) : <<o.kind, o.key>> = x
     THEN s ELSE provenance[x]]

(* require_process_fact_projection *)
FactsFit(f) == Cardinality({x \in Slot : f[x] # NoValue}) <= MaxFacts

(* _require_safe_fact_projection: the facts of the turn would fit. *)
SafeProjection == FactsFit(FactsAfter(source))

(* _completion_facts, as they are when the actions are persisted. *)
CompletionFacts == FactsAfter(source)

(* No completion requirement is unsatisfied. *)
Satisfied(f) ==
  \A k \in DOMAIN Required : f[<<"authoritative", k>>] = Required[k]

-----------------------------------------------------------------------------
(* Decisions. *)

(* AgentDecision: status, permission of the proposed action, wakes. *)
Decision == [status : {"active", "waiting", "completed", "escalated"},
             act : Outcomes \cup {"none"},
             waits : SUBSET (EventTypes \cup {"timer", "human"})]

NoDecision == [status |-> "none", act |-> "none", waits |-> {}]

(* AgentDecision's validator and validate_decision, given facts. *)
Valid(d, f) ==
  /\ d.status = "waiting" => d.waits # {}
  /\ d.status = "active" => d.act # "none" \/ d.waits # {}
  /\ d.status = "completed" => d.act = "none" /\ Satisfied(f)
  /\ "human" \in d.waits => d.act = "require_approval"

(* _next_status: ProcessTransitionRejected is "rejected". *)
NextStatus(d) ==
  IF d.status = "completed" /\ Open # {} THEN "rejected"
  ELSE IF NeedsHuman # {} THEN "review"
  ELSE IF Open # {} THEN "active"
  ELSE IF d.status = "completed"
  THEN IF Satisfied(FactsAfter(source)) THEN "completed" ELSE "rejected"
  ELSE IF d.status = "escalated" \/ "human" \in d.waits THEN "review"
  ELSE IF d.status = "waiting" THEN "waiting"
  ELSE "active"

(* Mutant: an escalation without wakes waits for nothing. *)
EffectiveWakesBare(d) ==
  IF \E a \in Actions : request[a] = "pending_approval" THEN {"approval"}
  ELSE IF \E a \in Actions : request[a] = "unknown" THEN {"operator"}
  ELSE IF Open # {} \/ NextStatus(d) = "completed" THEN {}
  ELSE d.waits

(* _effective_wake_conditions *)
EffectiveWakes(d) ==
  IF \E a \in Actions : request[a] = "pending_approval" THEN {"approval"}
  ELSE IF \E a \in Actions : request[a] = "unknown" THEN {"operator"}
  ELSE IF Open # {} \/ NextStatus(d) = "completed" THEN {}
  ELSE IF NextStatus(d) = "review" /\ d.waits = {} THEN {"operator"}
  ELSE d.waits

(* The wake plan _apply_turn_outcome makes of wake conditions. *)
PlanOf(w) ==
  [set |-> TRUE, events |-> w \cap EventTypes,
   timer |-> IF "timer" \in w THEN "set" ELSE "none"]

JourneyInit ==
  /\ Init
  /\ status = "active" /\ wakes = {}
  /\ facts = [x \in Slot |-> NoValue]
  /\ provenance = [x \in Slot |-> NoSource]
  /\ request = [a \in Actions |-> "none"]
  /\ interventions = {} /\ intervened = {}
  /\ committed = <<>>
  /\ about = [i \in Items |-> NoSource]
  /\ base = 0 /\ lineage = <<NoSource>> /\ decision = NoDecision
  /\ wrote = FALSE /\ revision = NoPlan /\ job = NoSource /\ timers = 0
  /\ dropped = {}

-----------------------------------------------------------------------------
(* Commands and events are committed to PostgreSQL with their message. *)

Commit(i, x) ==
  /\ i \notin Range(committed)
  /\ committed' = Append(committed, i)
  /\ about' = [about EXCEPT ![i] = x]

(* An event is correlated to the process; a completed one only records it. *)
Ingest(i) ==
  /\ Kind[i] \in EventTypes
  /\ status # "completed"
  /\ Commit(i, i)
  /\ UNCHANGED <<mailbox, process, request, interventions, intervened,
                 thread>>

(* ReviewService.apply; feedback rejects, asks for a revision or comments. *)
Review(i, a) ==
  /\ Kind[i] \in Reviews
  /\ Permits
  /\ request[a] = "pending_approval"
  /\ Commit(i, IF Kind[i] = "approve" THEN a ELSE i)
  /\ \E s \in IF Kind[i] = "approve" THEN {"approved"}
               ELSE {"rejected", "superseded", "pending_approval"} :
       request' = [request EXCEPT ![a] = s]
  /\ UNCHANGED <<mailbox, process, interventions, intervened, thread>>

(* ActionResolutionService: an operator says what became of an action. *)
ResolveUnknown(i, a) ==
  /\ Kind[i] = "resolution"
  /\ request[a] = "unknown"
  /\ Commit(i, a)
  /\ \E s \in {"succeeded", "failed"} : request' = [request EXCEPT ![a] = s]
  /\ UNCHANGED <<mailbox, process, interventions, intervened, thread>>

(* apply_control, takeover. *)
Takeover(i) ==
  /\ Kind[i] = "takeover"
  /\ committed # <<>> /\ Permits
  /\ Commit(i, i)
  /\ status' = "paused" /\ wakes' = {"operator"}
  /\ UNCHANGED <<mailbox, facts, provenance, request, interventions,
                 intervened, base, lineage, decision, wrote, revision, job,
                 timers, dropped>>

(* apply_control, resume. *)
Resume(i) ==
  /\ Kind[i] = "manual_wake"
  /\ status = "paused" /\ status' = "active" /\ wakes' = {}
  /\ Commit(i, i)
  /\ UNCHANGED <<mailbox, facts, provenance, request, interventions,
                 intervened, thread>>

(* apply_control, wake. *)
WakeUp(i) ==
  /\ Kind[i] = "manual_wake"
  /\ committed # <<>> /\ Permits
  /\ Commit(i, i)
  /\ UNCHANGED <<mailbox, process, request, interventions, intervened,
                 thread>>

(* apply_control, retry: of a paused process too. *)
Retry(i, v) ==
  /\ Kind[i] = "retry"
  /\ v \in interventions /\ status # "completed"
  /\ Commit(i, v.source)
  /\ interventions' = interventions \ {v}
  /\ status' = "active" /\ wakes' = {}
  /\ UNCHANGED <<mailbox, facts, provenance, request, intervened, thread>>

Undelivered == Range(committed) \ Range(delivered)

(* The dispatcher delivers a message, in the order of the commits unless   *)
(* a retry or another dispatcher changed it.                               *)
Deliver(i) ==
  /\ i \in Undelivered
  /\ Reordered \/ i = committed[Len(delivered) + 1]
  /\ Receive(i)
  /\ UNCHANGED <<rows, thread>>

-----------------------------------------------------------------------------
(* The workflow, with the effects of its activities. *)

(* Rollover and time, as in the mailbox. *)
Housekeeping ==
  /\ TimerDue \/ Restore \/ ContinueAsNew \/ Finish
  /\ UNCHANGED <<rows, thread>>

(* The loop takes up an item or the timer: an approved action, a turn. *)
WakeFor(s) ==
  /\ job' = IF pc' = "execute" THEN s ELSE job
  /\ IF pc' = "agent"
     THEN /\ lineage' = <<s>> /\ base' = base + Len(lineage)
          /\ decision' = NoDecision
     ELSE UNCHANGED <<lineage, base, decision>>
  /\ UNCHANGED <<rows, wrote, revision, timers, dropped>>

WakeBy ==
  \/ /\ WakeInitial \/ WakeReview \/ WakeResolution \/ WakeControl
        \/ WakeManual \/ WakeEvent
     /\ WakeFor(about[Last(taken')])
  \/ WakeTimer /\ WakeFor("timer")

(* run_agent_turn returns a valid decision on the context it loaded; what  *)
(* it decides is nobody's business once the turn is preempted.             *)
AgentReturns ==
  /\ AgentDecides
  /\ SafeProjection
  /\ IF Preempted
     THEN UNCHANGED <<decision, timers, job>>
     ELSE \E d \in Decision :
            /\ Valid(d, FactsAfter(source))
            /\ "timer" \in d.waits => timers < MaxTimers
            /\ timers' = IF "timer" \in d.waits THEN timers + 1 ELSE timers
            /\ IF d.act = "none" THEN UNCHANGED job
               ELSE \E a \in Actions :
                      /\ request[a] = "none" /\ job' = a
            /\ decision' = d
  /\ UNCHANGED <<rows, base, lineage, wrote, revision, dropped>>

(* initial_action_request_status of the action's permission. *)
InitialStatus ==
  [allow |-> "allowed", require_approval |-> "pending_approval",
   deny |-> "denied"]

(* ActionGateway.persist_decision: the fence, and the request. *)
PersistDecision ==
  /\ Permits
  /\ request' = IF decision.act = "none" THEN request
                ELSE [request EXCEPT ![job] = InitialStatus[decision.act]]

(* persist_agent_actions commits: the decision is validated again. *)
WriteActions ==
  /\ pc = "actions" /\ ~wrote /\ wrote' = TRUE
  /\ Valid(decision, CompletionFacts)
  /\ PersistDecision
  /\ UNCHANGED <<mailbox, process, interventions, intervened, committed,
                 about, base, lineage, decision, revision, job, timers,
                 dropped>>

(* The turn's allowed action, if it ends here and nobody executes it. *)
Drops == IF pc' \notin {"state", "execute"} /\ decision.act = "allow"
            /\ request[job] = "allowed"
         THEN {job} ELSE {}

(* It returns. *)
ActionsReturn ==
  /\ wrote /\ wrote' = FALSE
  /\ ActionsPersisted(IF decision.act = "allow" THEN 1 ELSE 0)
  /\ dropped' = dropped \cup Drops
  /\ UNCHANGED <<rows, base, lineage, decision, revision, job, timers>>

(* ProcessStateService.apply_decision. *)
ApplyDecision ==
  /\ Permits
  /\ SafeProjection
  /\ NextStatus(decision) # "rejected"
  /\ facts' = FactsAfter(source) /\ provenance' = ProvenanceAfter(source)
  /\ status' = NextStatus(decision) /\ wakes' = EffectiveWakes(decision)
  /\ revision' = IF NextStatus(decision) = "completed" THEN NoPlan
                 ELSE PlanOf(EffectiveWakes(decision))

(* persist_process_state commits. *)
WriteState ==
  /\ pc = "state" /\ ~wrote /\ wrote' = TRUE
  /\ ApplyDecision
  /\ dropped' = dropped \cap Open
  /\ UNCHANGED <<mailbox, request, interventions, intervened, committed,
                 about, base, lineage, decision, job, timers>>

(* It returns what the revision of the turn says. *)
StateReturns ==
  /\ wrote /\ wrote' = FALSE
  /\ StatePersisted(revision)
  /\ dropped' = dropped \cup Drops
  /\ UNCHANGED <<rows, base, lineage, decision, revision, job, timers>>

(* One of the three fails for good, having committed or not. *)
TurnFailsIn ==
  /\ TurnActivityFails
  /\ wrote' = FALSE
  /\ dropped' = dropped \cup Drops
  /\ UNCHANGED <<rows, base, lineage, decision, revision, job, timers>>

(* execute_action, first transaction. *)
ExecuteBegins ==
  /\ pc = "execute"
  /\ request[job] \in {"allowed", "approved"} /\ Permits
  /\ request' = [request EXCEPT ![job] = "executing"]
  /\ UNCHANGED <<mailbox, process, interventions, intervened, committed,
                 about, thread>>

(* The follow-up turn on the action's result, if there is one. *)
FollowsUp ==
  IF pc' = "agent"
  THEN /\ lineage' = IF direct THEN <<job>> ELSE Append(lineage, job)
       /\ base' = IF direct THEN base + Len(lineage) ELSE base
       /\ decision' = NoDecision
  ELSE UNCHANGED <<lineage, base, decision>>

(* execute_action authorizes again, calls the provider and settles. *)
ExecuteSettles ==
  /\ pc = "execute" /\ Executed(TRUE) /\ UNCHANGED unsignalled
  /\ request[job] = "executing" /\ Permits
  /\ \E s \in {"succeeded", "failed"} :
       request' = [request EXCEPT ![job] = s]
  /\ FollowsUp
  /\ UNCHANGED <<process, interventions, intervened, committed, about,
                 wrote, revision, job, timers, dropped>>

(* It cannot tell what happened. *)
ExecuteUncertain ==
  /\ ExecuteUnknown
  /\ request[job] = "executing" /\ Permits
  /\ request' = [request EXCEPT ![job] = "unknown"]
  /\ UNCHANGED <<process, interventions, intervened, committed, about,
                 thread>>

(* reconcile_action finds the outcome or does not. *)
ReconcileEnds ==
  /\ ReconcileReturns
  /\ \E s \in IF request[job] = "unknown"
              THEN {"unknown", "succeeded", "failed"} ELSE {request[job]} :
       request' = [request EXCEPT ![job] = s]
  /\ FollowsUp
  /\ UNCHANGED <<process, interventions, intervened, committed, about,
                 wrote, revision, job, timers, dropped>>

(* execute_action is refused, or lost: it is attempted once. *)
ExecuteLost ==
  /\ pc = "execute" /\ Executed(FALSE) /\ UNCHANGED unsignalled
  /\ dropped' = dropped \cup {job}
  /\ UNCHANGED <<rows, base, lineage, decision, wrote, revision, job, timers>>

(* The deployment no longer fits the process. *)
ExecuteIncompatible ==
  /\ ExecutionIncompatible
  /\ dropped' = dropped \cup {job}
  /\ UNCHANGED <<rows, base, lineage, decision, wrote, revision, job, timers>>

(* An execution the mailbox no longer waits for settles after all. *)
LateSettles(a) ==
  /\ a \in dropped /\ request[a] = "executing"
  /\ \E s \in {"succeeded", "failed", "unknown"} :
       request' = [request EXCEPT ![a] = s]
  /\ UNCHANGED <<mailbox, process, interventions, intervened, committed,
                 about, thread>>

(* Mutant: the wake conditions are left as they were. *)
WriteInterventionOnly ==
  /\ pc \in {"limit", "failure"} /\ ~wrote /\ wrote' = TRUE
  /\ interventions' = interventions \cup
       {[turn |-> turnId, source |-> IF pc = "limit" THEN job ELSE source]}
  /\ intervened' = intervened \cup {turnId}
  /\ status' = IF Permits THEN "review" ELSE status
  /\ UNCHANGED <<mailbox, wakes, facts, provenance, request, committed, about,
                 base, lineage, decision, revision, job, timers,
                 dropped>>

(* ProcessControlService.record_intervention: once for a turn, even if the *)
(* first one has been resolved by then.                                    *)
RecordIntervention(s) ==
  IF turnId \in intervened
  THEN UNCHANGED <<interventions, intervened, status, wakes>>
  ELSE /\ interventions' = interventions \cup [turn : {turnId}, source : {s}]
       /\ intervened' = intervened \cup {turnId}
       /\ IF Permits
          THEN status' = "review" /\ wakes' = {"operator"}
          ELSE UNCHANGED <<status, wakes>>

(* record_process_intervention commits. *)
WriteIntervention ==
  /\ pc \in {"limit", "failure"} /\ ~wrote /\ wrote' = TRUE
  /\ RecordIntervention(IF pc = "limit" THEN job ELSE source)
  /\ UNCHANGED <<mailbox, facts, provenance, request, committed, about, base,
                 lineage, decision, revision, job, timers, dropped>>

(* It returns, or fails for good. *)
InterventionEnds ==
  /\ \/ wrote /\ InterventionRecorded
     \/ InterventionFails
  /\ wrote' = FALSE
  /\ UNCHANGED <<rows, base, lineage, decision, revision, job, timers, dropped>>

Operator ==
  \/ \E i \in Items :
       Ingest(i) \/ Takeover(i) \/ Resume(i) \/ WakeUp(i)
  \/ \E i \in Items, a \in Actions : Review(i, a) \/ ResolveUnknown(i, a)
  \/ \E i \in Items, v \in interventions : Retry(i, v)

Workflow ==
  \/ Housekeeping
  \/ WakeBy
  \/ AgentReturns \/ WriteActions \/ ActionsReturn \/ WriteState
  \/ StateReturns \/ TurnFailsIn
  \/ ExecuteBegins \/ ExecuteSettles \/ ExecuteUncertain \/ ReconcileEnds
  \/ ExecuteLost \/ ExecuteIncompatible
  \/ WriteIntervention \/ InterventionEnds

JourneyNext ==
  \/ Operator
  \/ \E i \in Items : Deliver(i)
  \/ Workflow
  \/ \E a \in Actions : LateSettles(a)

JourneySpec == JourneyInit /\ [][JourneyNext]_journey

-----------------------------------------------------------------------------
(* Properties. *)

(* Type invariant of the database's side. *)
JourneyTypeOK ==
  /\ status \in ProcessStatus
  /\ wakes \subseteq EventTypes \cup {"timer", "human", "approval", "operator"}
  /\ provenance \in [Slot -> Source]
  /\ request \in [Actions -> RequestStatus]
  /\ \A v \in interventions : v.turn \in Nat /\ v.source \in Source
  /\ intervened \subseteq Nat
  /\ Range(delivered) \subseteq Range(committed)
  /\ decision \in Decision \cup {NoDecision}
  /\ dropped \subseteq Actions
  /\ depth < Len(lineage)

(* Nothing is under way: every message is delivered, and the mailbox       *)
(* sleeps.                                                                 *)
Quiescent ==
  pc = "loop" /\ ~closed /\ Undelivered = {} /\ NextWake = "none"
  /\ turns < ContinueAfter /\ status # "completed"

(* Something will wake the process, or an operator or a reviewer is asked  *)
(* to: a wake condition, an open review or unknown outcome, an open        *)
(* intervention, a pause or an escalation.                                 *)
Progresses ==
  \/ committed = <<>>
  \/ plan.events # {} \/ plan.timer # "none"
  \/ NeedsHuman # {}
  \/ interventions # {}
  \/ status = "paused"
  \/ "operator" \in wakes

(* docs/reviews/2026-08-31-post-review-commit.md:111-116, "Every           *)
(* non-terminal decision should deterministically produce at least one of" *)
(* work, a wake or an operator's state: no process sleeps for good,        *)
(* whatever turns fail, are preempted or are retried, but behind an action *)
(* whose execution the mailbox has given up on (mailbox.py:248-253) or has *)
(* never begun (mailbox.py:832-842): such an action keeps the process      *)
(* active without a wake.                                                  *)
NeverStranded == Quiescent /\ dropped = {} => Progresses

(* PostgreSQL and the mailbox wait for the same, whenever the mailbox      *)
(* sleeps (state.py writes the wake conditions, mailbox.py:989-1030 the    *)
(* plan, from the same result), with the same exception.                   *)
SameWakes ==
  Quiescent /\ dropped = {} /\ committed # <<>> =>
    /\ plan.events = wakes \cap EventTypes
    /\ plan.timer # "none" <=> "timer" \in wakes

(* A completed process has nothing left to do: its requirements are        *)
(* authoritative facts, no request is open, and no approval of an action   *)
(* is still on its way to a mailbox that is about to end.  The news of a   *)
(* resolution may be: its action was settled when it was committed.        *)
CompletedIsSettled ==
  status = "completed" =>
    /\ \A k \in DOMAIN Required :
         facts[<<"authoritative", k>>] = Required[k]
    /\ \A a \in Actions :
         request[a] \in {"none", "denied", "rejected", "superseded",
                        "succeeded", "failed"}
    /\ \A i \in Undelivered : Kind[i] # "approve"

(* Each fact is one that its recorded source observed, of that kind: an    *)
(* operator can trace what completed the process (transitions.py:29-48).   *)
FactsHaveSources ==
  \A x \in Slot :
    IF facts[x] = NoValue THEN provenance[x] = NoSource
    ELSE /\ provenance[x] \in DOMAIN Observes
         /\ [kind |-> x[1], key |-> x[2], value |-> facts[x]]
              \in Observes[provenance[x]]

(* The rows of the process agree with one another: they are well formed,   *)
(* what is completed is settled, and what completed it can be traced.      *)
RowsAgree == JourneyTypeOK /\ CompletedIsSettled /\ FactsHaveSources
=============================================================================
