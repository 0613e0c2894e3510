------------------------------- MODULE Mailbox -------------------------------
(***************************************************************************)
(* The mailbox workflow of one process (temporal/workflows/mailbox.py): it *)
(* buffers signals, picks what wakes the process, runs turns one at a time,*)
(* follows up on action results in a bounded chain, parks itself for an    *)
(* operator, and carries its state over when it continues as new.          *)
(*                                                                         *)
(* The workflow is single-threaded: between two awaits nothing interferes, *)
(* so a step is what runs from the return of one await to the next one.    *)
(* Signals are handled at awaits.  Activities are the environment: each    *)
(* outstanding one returns any of its results, or an error after its       *)
(* retries.  Results that only put the workflow to sleep and try again (a  *)
(* suspended tenant) change nothing and are no step, unless the mailbox    *)
(* was closed meanwhile.                                                   *)
(*                                                                         *)
(* The four buffers of the code are one sequence here, told apart by the   *)
(* kind of their items, and so are the four sets of seen ids: the kinds    *)
(* are disjoint.  Wake, turn and execution records and the list of pending *)
(* actions decide nothing and are left out.                                *)
(***************************************************************************)
EXTENDS Naturals, Sequences, FiniteSets, SequencesExt

CONSTANTS
  Items,          \* everything that is ever signalled
  Kind,           \* the kind of each; that of a business event is its type
  EventTypes,     \* types of business events
  MaxActions,     \* bound on the allowed actions of one decision
  MaxChain,       \* the chain_depth that ends an automatic chain (5)
  ContinueAfter,  \* continue_as_new_after_turns
  MaxSuggested,   \* bound on the rollovers Temporal suggests
  TestSignals     \* are close and replace_wake_plan sent? (only tests do)

Reviews == {"approve", "feedback"}     \* feedback: all but approve
Controls == {"takeover", "retry"}
CommandKinds == Reviews \cup Controls \cup {"resolution", "manual_wake"}

ASSUME MailboxAssumption ==
  /\ EventTypes \cap CommandKinds = {}
  /\ Kind \in [Items -> EventTypes \cup CommandKinds]
  /\ MaxActions \in Nat
  /\ MaxChain \in Nat
  /\ ContinueAfter \in Nat \ {0}
  /\ MaxSuggested \in Nat
  /\ TestSignals \in BOOLEAN

VARIABLES
  buffer,      \* the buffered items, in order of arrival
  seen,        \* the ids seen by this run
  carried,     \* MailboxContinuation, until run() restores it
  started,
  plan,        \* _wake_plan with _timer_due_at
  closed,
  pc,          \* which await the workflow is in
  direct,      \* is the action executed for an approval, outside a turn?
  depth,       \* chain_depth of the innermost turn
  todo,        \* allowed actions of the turn not yet executed
  results,     \* does the turn have execution results?
  projection,  \* what persist_process_state returned
  turns,       \* _turns_since_continue, up to ContinueAfter
  suggested,   \* rollovers suggested by Temporal so far
  delivered,   \* history: items in the order they first arrived
  taken        \* history: items in the order they were acted upon

input == <<buffer, seen, delivered>>
turn == <<depth, todo, results, projection>>
vars == <<buffer, seen, carried, started, plan, closed, pc, direct, depth,
          todo, results, projection, turns, suggested, delivered, taken>>

(* A wake plan; human interactions are met by commands, which need none.   *)
Plan == [set : BOOLEAN, events : SUBSET EventTypes,
         timer : {"none", "set", "due"}]

(* No wake plan; as a projection, a terminal process. *)
NoPlan == [set |-> FALSE, events |-> {}, timer |-> "none"]

(* Only a command wakes the process: WakePlan(human_interactions=...). *)
ParkedPlan == [set |-> TRUE, events |-> {}, timer |-> "none"]

(* A new run's continuation: nothing. *)
EmptyContinuation ==
  [buffer |-> <<>>, seen |-> {}, started |-> FALSE, plan |-> NoPlan]

Min2(m, n) == IF m < n THEN m ELSE n

Over == pc \in {"over", "failed"}

Init ==
  /\ buffer = <<>> /\ seen = {} /\ delivered = <<>> /\ taken = <<>>
  /\ carried = EmptyContinuation
  /\ started = FALSE /\ plan = NoPlan /\ closed = FALSE
  /\ pc = "prestart" /\ direct = FALSE
  /\ depth = 0 /\ todo = 0 /\ results = FALSE /\ projection = NoPlan
  /\ turns = 0 /\ suggested = 0

-----------------------------------------------------------------------------
(* Signals, rollover and time. *)

(* receive_event, receive_review, receive_action_resolution and            *)
(* receive_control.  An id this run has seen changes nothing.  Any item    *)
(* may be delivered again at any time, before run() begins too.            *)
Receive(i) ==
  /\ ~Over
  /\ i \notin seen
  /\ seen' = seen \cup {i}
  /\ buffer' = Append(buffer, i)
  /\ delivered' = IF i \in Range(delivered) THEN delivered
                  ELSE Append(delivered, i)
  /\ UNCHANGED <<carried, started, plan, closed, pc, direct, turn, turns,
                 suggested, taken>>

(* replace_wake_plan *)
ReplaceWakePlan(p) ==
  /\ TestSignals /\ ~Over
  /\ plan' = p
  /\ UNCHANGED <<input, carried, started, closed, pc, direct, turn, turns,
                 suggested, taken>>

(* close *)
Close ==
  /\ TestSignals /\ ~Over
  /\ closed' = TRUE
  /\ UNCHANGED <<input, carried, started, plan, pc, direct, turn, turns,
                 suggested, taken>>

(* The plan's timer becomes due. *)
TimerDue ==
  /\ ~Over
  /\ plan.timer = "set"
  /\ plan' = [set |-> plan.set, events |-> plan.events, timer |-> "due"]
  /\ UNCHANGED <<input, carried, started, closed, pc, direct, turn, turns,
                 suggested, taken>>

(* Of the first n items that came before run(), those not yet seen. *)
Unseen[n \in Nat] ==
  IF n = 0 THEN <<>>
  ELSE IF buffer[n] \in carried.seen THEN Unseen[n - 1]
  ELSE Append(Unseen[n - 1], buffer[n])

(* Mutants: what came before run() is erased, or goes in front. *)
MergedErased == carried.buffer
MergedInFront == Unseen[Len(buffer)] \o carried.buffer

(* The carried buffer, then what came before run() and is not yet seen. *)
Merged == carried.buffer \o Unseen[Len(buffer)]

(* Mutant: the ids of items already acted upon are not restored. *)
RestoredSeenBuffered == Range(carried.buffer) \cup seen

(* The ids seen by the earlier runs and by this one. *)
RestoredSeen == carried.seen \cup seen

(* run() begins, with _restore_continuation. *)
Restore ==
  /\ pc = "prestart" /\ pc' = "loop"
  /\ buffer' = Merged
  /\ seen' = RestoredSeen
  /\ started' = carried.started
  /\ plan' = IF plan.set THEN plan ELSE carried.plan
  /\ carried' = EmptyContinuation
  /\ UNCHANGED <<closed, direct, turn, turns, suggested, delivered, taken>>

(* continue_as_new with _continuation_input: enough turns, or a suggestion *)
(* of Temporal's.  A new run starts with nothing but its input.            *)
ContinueAsNew ==
  /\ pc = "loop" /\ ~closed /\ pc' = "prestart"
  /\ \/ turns >= ContinueAfter /\ UNCHANGED suggested
     \/ turns < ContinueAfter /\ suggested < MaxSuggested
        /\ suggested' = suggested + 1
  /\ carried' = [buffer |-> buffer, seen |-> seen, started |-> started,
                 plan |-> plan]
  /\ buffer' = <<>> /\ seen' = {} /\ started' = FALSE /\ plan' = NoPlan
  /\ turns' = 0
  /\ UNCHANGED <<closed, direct, turn, delivered, taken>>

(* The loop ends and the workflow completes. *)
Finish ==
  /\ pc = "loop" /\ closed /\ pc' = "over"
  /\ UNCHANGED <<input, carried, started, plan, closed, direct, turn, turns,
                 suggested, taken>>

-----------------------------------------------------------------------------
(* What wakes the process. *)

Buffered(kinds) == \E i \in Range(buffer) : Kind[i] \in kinds

(* Mutant: resolutions are forgotten. *)
NextWakeNoResolution ==
  IF ~started /\ ~plan.set /\ Buffered(EventTypes) THEN "initial"
  ELSE IF Buffered(Reviews) THEN "review"
  ELSE IF Buffered(Controls) THEN "control"
  ELSE IF Buffered({"manual_wake"}) THEN "manual_wake"
  ELSE IF Buffered(plan.events) THEN "event"
  ELSE IF plan.timer = "due" THEN "timer"
  ELSE "none"

(* The order of the loop's tests. *)
NextWake ==
  IF ~started /\ ~plan.set /\ Buffered(EventTypes) THEN "initial"
  ELSE IF Buffered(Reviews) THEN "review"
  ELSE IF Buffered({"resolution"}) THEN "resolution"
  ELSE IF Buffered(Controls) THEN "control"
  ELSE IF Buffered({"manual_wake"}) THEN "manual_wake"
  ELSE IF Buffered(plan.events) THEN "event"
  ELSE IF plan.timer = "due" THEN "timer"
  ELSE "none"

Wakes(reason) ==
  pc = "loop" /\ ~closed /\ turns < ContinueAfter /\ NextWake = reason

(* The first buffered item of these kinds, and taking it. *)
First(kinds) == SelectInSeq(buffer, LAMBDA i : Kind[i] \in kinds)

Take(kinds) ==
  /\ buffer' = RemoveAt(buffer, First(kinds))
  /\ taken' = Append(taken, buffer[First(kinds)])
  /\ started' = TRUE

awake == <<seen, carried, closed, turns, suggested, delivered>>

(* _run_turn begins, at chain depth d, with its agent activity. *)
BeginTurn(d) ==
  /\ pc' = "agent" /\ direct' = FALSE
  /\ depth' = d /\ todo' = 0 /\ results' = FALSE /\ projection' = NoPlan

WakeInitial ==
  /\ Wakes("initial") /\ Take(EventTypes) /\ BeginTurn(0)
  /\ UNCHANGED <<awake, plan>>

(* An approval executes the action; other reviews are turns. *)
WakeReview ==
  /\ Wakes("review") /\ Take(Reviews) /\ plan' = NoPlan
  /\ IF Kind[buffer[First(Reviews)]] = "approve"
     THEN pc' = "execute" /\ direct' = TRUE /\ UNCHANGED turn
     ELSE BeginTurn(0)
  /\ UNCHANGED awake

WakeResolution ==
  /\ Wakes("resolution") /\ Take({"resolution"}) /\ plan' = NoPlan
  /\ BeginTurn(0)
  /\ UNCHANGED awake

(* Mutant: a takeover leaves the wake plan as it was. *)
WakeControlUnparked ==
  /\ Wakes("control") /\ Take(Controls)
  /\ IF Kind[buffer[First(Controls)]] = "takeover"
     THEN UNCHANGED <<plan, pc, direct, turn>>
     ELSE plan' = NoPlan /\ BeginTurn(0)
  /\ UNCHANGED awake

(* A takeover parks the process; a retry is a turn. *)
WakeControl ==
  /\ Wakes("control") /\ Take(Controls)
  /\ IF Kind[buffer[First(Controls)]] = "takeover"
     THEN plan' = ParkedPlan /\ UNCHANGED <<pc, direct, turn>>
     ELSE plan' = NoPlan /\ BeginTurn(0)
  /\ UNCHANGED awake

WakeManual ==
  /\ Wakes("manual_wake") /\ Take({"manual_wake"}) /\ plan' = NoPlan
  /\ BeginTurn(0)
  /\ UNCHANGED awake

WakeEvent ==
  /\ Wakes("event") /\ Take(plan.events) /\ plan' = NoPlan
  /\ BeginTurn(0)
  /\ UNCHANGED awake

WakeTimer ==
  /\ Wakes("timer") /\ started' = TRUE /\ plan' = NoPlan
  /\ BeginTurn(0)
  /\ UNCHANGED <<awake, buffer, taken>>

-----------------------------------------------------------------------------
(* A turn. *)

(* _lifecycle_preemption_pending *)
Preempted == closed \/ Buffered({"takeover"})

(* The innermost turn returns, and every turn that awaited it. *)
Return ==
  /\ pc' = "loop"
  /\ turns' = Min2(turns + depth + 1, ContinueAfter)
  /\ depth' = 0 /\ todo' = 0 /\ results' = FALSE /\ projection' = NoPlan

(* The activity error reaches the handler of the turn at depth d. *)
TurnFails(d) ==
  IF Preempted
  THEN Return /\ UNCHANGED <<plan, closed>>
  ELSE /\ pc' = "failure" /\ depth' = d
       /\ UNCHANGED <<todo, results, projection, turns, plan, closed>>

(* _apply_turn_outcome *)
ApplyTurnOutcome(p) ==
  /\ Return
  /\ IF p = NoPlan
     THEN closed' = TRUE /\ UNCHANGED plan
     ELSE plan' = p /\ UNCHANGED closed

(* chain_limit_reached *)
ChainEnds(d) == d >= MaxChain

(* Mutant: no look at the buffers between two actions. *)
ProceedUnchecked(n, r, p) ==
  IF n > 0
  THEN /\ pc' = "execute" /\ todo' = n /\ results' = r /\ projection' = p
       /\ UNCHANGED <<depth, turns, plan, closed, direct>>
  ELSE IF Preempted
  THEN Return /\ UNCHANGED <<plan, closed, direct>>
  ELSE IF r /\ ~ChainEnds(depth)
  THEN BeginTurn(depth + 1) /\ UNCHANGED <<turns, plan, closed>>
  ELSE IF r
  THEN /\ pc' = "limit" /\ todo' = 0 /\ results' = TRUE /\ projection' = p
       /\ UNCHANGED <<depth, turns, plan, closed, direct>>
  ELSE ApplyTurnOutcome(p) /\ UNCHANGED direct

(* The rest of the turn when n actions are left and r says whether there   *)
(* are results: the next action, the follow-up turn, or the outcome p.     *)
Proceed(n, r, p) ==
  IF Preempted
  THEN Return /\ UNCHANGED <<plan, closed, direct>>
  ELSE IF n > 0
  THEN /\ pc' = "execute" /\ todo' = n /\ results' = r /\ projection' = p
       /\ UNCHANGED <<depth, turns, plan, closed, direct>>
  ELSE IF r /\ ~ChainEnds(depth)
  THEN BeginTurn(depth + 1) /\ UNCHANGED <<turns, plan, closed>>
  ELSE IF r
  THEN /\ pc' = "limit" /\ todo' = 0 /\ results' = TRUE /\ projection' = p
       /\ UNCHANGED <<depth, turns, plan, closed, direct>>
  ELSE ApplyTurnOutcome(p) /\ UNCHANGED direct

unsignalled == <<input, carried, started, suggested, taken>>

(* run_agent_turn returns a decision. *)
AgentDecides ==
  /\ pc = "agent"
  /\ IF Preempted THEN Return
     ELSE pc' = "actions" /\ UNCHANGED <<turn, turns>>
  /\ UNCHANGED <<unsignalled, plan, closed, direct>>

(* run_agent_turn was refused to a suspended tenant, and the mailbox was   *)
(* closed during the sleep that follows.                                   *)
AgentSuspended ==
  /\ pc = "agent" /\ closed /\ Return
  /\ UNCHANGED <<unsignalled, plan, closed, direct>>

(* persist_agent_actions returns the decision's actions, of which n are    *)
(* allowed without approval.                                               *)
ActionsPersisted(n) ==
  /\ pc = "actions"
  /\ IF Preempted THEN Return
     ELSE /\ pc' = "state" /\ todo' = n
          /\ UNCHANGED <<depth, results, projection, turns>>
  /\ UNCHANGED <<unsignalled, plan, closed, direct>>

(* persist_process_state returns the projection p.  While an action is     *)
(* open the process is not completed and waits for nothing but commands.   *)
StatePersisted(p) ==
  /\ pc = "state"
  /\ todo > 0 => p = ParkedPlan
  /\ Proceed(todo, FALSE, p)
  /\ UNCHANGED unsignalled

(* One of these activities fails for good. *)
TurnActivityFails ==
  /\ pc \in {"agent", "actions", "state"}
  /\ TurnFails(depth)
  /\ UNCHANGED <<unsignalled, direct>>

(* _execute_pending_action returns, with a result or without. *)
Executed(r) ==
  IF ~direct THEN Proceed(todo - 1, results \/ r, projection)
  ELSE /\ UNCHANGED <<plan, closed, turns>>
       /\ IF r THEN BeginTurn(0)
          ELSE pc' = "loop" /\ direct' = FALSE /\ UNCHANGED turn

(* It raises: no turn would catch the error of an approved action. *)
ExecutionRaises ==
  IF ~direct THEN TurnFails(depth) /\ UNCHANGED direct
  ELSE pc' = "failed" /\ UNCHANGED <<direct, turn, turns, plan, closed>>

(* execute_action returns a definite result, or the activity is lost or    *)
(* refused and nobody knows; a suspended tenant's is tried again, unless   *)
(* the mailbox was closed during the sleep, which is the second case too.  *)
ExecuteReturns ==
  /\ pc = "execute"
  /\ \E r \in BOOLEAN : Executed(r)
  /\ UNCHANGED unsignalled

(* execute_action returns "unknown". *)
ExecuteUnknown ==
  /\ pc = "execute" /\ pc' = "reconcile"
  /\ UNCHANGED <<unsignalled, plan, closed, direct, turn, turns>>

(* reconcile_action returns or fails: the result stands. *)
ReconcileReturns ==
  /\ pc = "reconcile" /\ Executed(TRUE)
  /\ UNCHANGED unsignalled

(* Either of them raises DeploymentCompatibilityError. *)
ExecutionIncompatible ==
  /\ pc \in {"execute", "reconcile"} /\ ExecutionRaises
  /\ UNCHANGED unsignalled

(* record_process_intervention returns: the process waits for an operator. *)
InterventionRecorded ==
  /\ pc \in {"limit", "failure"}
  /\ Return /\ plan' = ParkedPlan
  /\ UNCHANGED <<unsignalled, closed, direct>>

(* It fails for good.  The handler of the turn catches the error of the    *)
(* chain limit's, the handler of the parent turn that of the handler's,    *)
(* and nothing that of the outermost handler's: the workflow fails.        *)
InterventionFails ==
  /\ \/ pc = "limit" /\ TurnFails(depth)
     \/ /\ pc = "failure" /\ depth > 0
        /\ IF Preempted
           THEN Return /\ UNCHANGED <<plan, closed>>
           ELSE /\ depth' = depth - 1
                /\ turns' = Min2(turns + 1, ContinueAfter)
                /\ UNCHANGED <<pc, todo, results, projection, plan, closed>>
     \/ /\ pc = "failure" /\ depth = 0 /\ pc' = "failed"
        /\ UNCHANGED <<turn, turns, plan, closed>>
  /\ UNCHANGED <<unsignalled, direct>>

-----------------------------------------------------------------------------

(* What a decision may wait for. *)
Projections == [set : {TRUE}, events : SUBSET EventTypes,
                timer : {"none", "set"}] \cup {NoPlan}

Wake == \/ WakeInitial \/ WakeReview \/ WakeResolution \/ WakeControl
        \/ WakeManual \/ WakeEvent \/ WakeTimer

ActivityReturns ==
  \/ AgentDecides
  \/ AgentSuspended
  \/ \E n \in 0 .. MaxActions : ActionsPersisted(n)
  \/ \E p \in Projections : StatePersisted(p)
  \/ TurnActivityFails
  \/ ExecuteReturns
  \/ ExecuteUnknown
  \/ ReconcileReturns
  \/ ExecutionIncompatible
  \/ InterventionRecorded
  \/ InterventionFails

Next ==
  \/ \E i \in Items : Receive(i)
  \/ \E p \in Projections \ {NoPlan} : ReplaceWakePlan(p)
  \/ Close
  \/ TimerDue
  \/ Restore
  \/ ContinueAsNew
  \/ Finish
  \/ Wake
  \/ ActivityReturns

Spec == Init /\ [][Next]_vars

(* The workflow's own code runs when it can, and every activity returns:   *)
(* each has a start_to_close_timeout and bounded retries.  That assumes    *)
(* that a tenant is not suspended forever, for the sleep between two tries *)
(* of a suspended tenant is no step.                                       *)
Fairness ==
  WF_vars(Restore \/ ContinueAsNew \/ Finish \/ Wake \/ ActivityReturns)

FairSpec == Spec /\ Fairness

-----------------------------------------------------------------------------
(* Properties. *)

Distinct(s) == \A m, n \in 1 .. Len(s) : s[m] = s[n] => m = n

(* Type invariant. *)
TypeOK ==
  /\ buffer \in Seq(Items) /\ taken \in Seq(Items)
  /\ delivered \in Seq(Items)
  /\ seen \subseteq Items
  /\ carried.buffer \in Seq(Items) /\ carried.seen \subseteq Items
  /\ carried.started \in BOOLEAN /\ carried.plan \in Plan
  /\ started \in BOOLEAN /\ plan \in Plan /\ closed \in BOOLEAN
  /\ pc \in {"prestart", "loop", "agent", "actions", "state", "execute",
             "reconcile", "limit", "failure", "over", "failed"}
  /\ direct \in BOOLEAN /\ results \in BOOLEAN
  /\ depth \in 0 .. MaxChain /\ todo \in 0 .. MaxActions
  /\ projection \in Plan
  /\ turns \in 0 .. ContinueAfter /\ suggested \in 0 .. MaxSuggested

(* Nothing that was signalled is lost: across rollovers, preempted turns   *)
(* and signals that arrive before run(), every item is buffered, carried   *)
(* over or acted upon (README.md:91, mailbox.py:534-661).                  *)
NothingLost ==
  \A i \in Range(delivered) :
    i \in Range(buffer) \cup Range(carried.buffer) \cup Range(taken)

(* Nothing is acted upon twice, however often the outbox delivers it and   *)
(* however often the workflow continues as new between two deliveries      *)
(* (the seen ids of the continuation, mailbox.py:440-532).                 *)
ActedUponOnce == Distinct(taken)

(* Items of one queue, or events of one type, are acted upon in the order  *)
(* in which they first arrived, rollovers included.                        *)
SameQueue(i, j) ==
  \/ Kind[i] = Kind[j]
  \/ {Kind[i], Kind[j]} \subseteq Reviews
  \/ {Kind[i], Kind[j]} \subseteq Controls

InOrder ==
  \A m, n \in 1 .. Len(taken) : m < n /\ SameQueue(taken[m], taken[n]) =>
    \A k, l \in 1 .. Len(delivered) :
      delivered[k] = taken[m] /\ delivered[l] = taken[n] => k < l

(* The mailbox implements first-in-first-out queues that act upon an item  *)
(* once, whatever is redelivered, carried over or preempted                *)
(* (mailbox.py:224-330, 359-389, 534-661).                                 *)
Promised == INSTANCE Queues WITH arrived <- delivered, done <- taken

ImplementsQueues == Promised!QueuesSpec

(* After a takeover the mailbox stays parked, over rollovers too: business *)
(* events and timers start no turn until a command does (mailbox.py:267-   *)
(* 273).                                                                   *)
TakeoverParks ==
  taken # <<>> /\ Kind[Last(taken)] = "takeover" =>
    /\ pc = "loop" => plan = ParkedPlan
    /\ pc = "prestart" => carried.plan = ParkedPlan

(* A takeover or a close that arrives during a turn ends it as soon as the *)
(* activity it waits for has returned: the turn starts no further          *)
(* activity, be it persistence, the next of its actions or a follow-up     *)
(* turn, save the reconciliation of the action whose outcome is unknown    *)
(* (mailbox.py:668-671 and its uses, 857 between two actions).  An         *)
(* activity that is refused to a suspended tenant has not returned here:   *)
(* after the sleep the code tries it again, and looks for a close but not  *)
(* for a takeover (mailbox.py:782-787).                                    *)
PreemptionStopsTurn ==
  [][(/\ closed \/ Buffered({"takeover"})
      /\ ~direct /\ pc \in {"agent", "actions", "state", "execute", "reconcile"})
     => \/ pc' = "loop"
        \/ UNCHANGED <<pc, direct, turn>>
        \/ pc = "execute" /\ pc' = "reconcile" /\ UNCHANGED <<direct, turn>>]_vars

(* A reviewer's, an operator's or an adapter's command is acted upon       *)
(* eventually, unless the workflow ends: no endless chain of action        *)
(* results, parked plan or rollover keeps it waiting.                      *)
CommandsAreHeard ==
  \A i \in Items : Kind[i] \in CommandKinds =>
    (i \in Range(buffer) ~> i \in Range(taken) \/ Over)

(* docs/decisions/008-mailbox-ordering.md:12, "Cancellation, takeover, and *)
(* safety commands have priority": nothing else wakes the process while a  *)
(* takeover is buffered.                                                   *)
TakeoverHasPriority ==
  [][Buffered({"takeover"}) /\ pc = "loop" /\ taken' # taken =>
       Kind[Last(taken')] = "takeover"]_vars
=============================================================================
