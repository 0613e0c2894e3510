# A verification project for tiramisu-agents

TLA+ models of the parts of tiramisu-agents whose correctness depends on
interleavings, crashes and redelivery, the TLC runs that check them on small
instances, and TLAPS proofs of the main safety properties for every instance.
Paths below are relative to `src/backend/src/tiramisu_agents/`.

## The system

A *process* is a long-lived business case of one tenant.  Events, reviews and
operators' commands are committed to PostgreSQL together with a message in a
transactional outbox; dispatchers deliver each message as a signal to the
process's Temporal workflow, the *mailbox*; the mailbox runs *turns*, in each of
which an agent proposes a decision, the decision's actions and the process's new
state are persisted, and allowed actions are executed against providers.  Their
results start follow-up turns.  Actions that need approval wait for a review.

| Component | State | Operations | Hard because |
|---|---|---|---|
| Action gateway `actions/gateway.py` | action request, revision, policy record, approval | persist a decision | retried activities, pauses and breakers in between |
| Reviews `reviews/service.py` | approval, thread, messages | approve, reject, request revision, comment | competing reviewers, repeated commands |
| Action execution `actions/execution.py` | action attempt, request status | execute, reconcile | crashes around the provider call, overlapping runs, stale authorization |
| Operator reconciliation `actions/reconciliation.py` | reconciliation decision | resolve an unknown outcome | races with late recorders |
| Process control `processes/control.py` | process status, interventions, commands | takeover, resume, retry, wake | races with provider calls and with the mailbox |
| Process state `processes/state.py`, `core/transitions.py` | status, facts, memory, wake conditions | apply a decision | completion against open actions, retried turns |
| Outbox dispatcher `temporal/dispatcher.py` | message status, attempts, claim token | claim, deliver, publish, record failure | slow or dying dispatchers, lost replies |
| Outbox recovery `events/outbox_recovery.py` | recovery commands | requeue | races with dispatchers |
| Mailbox `temporal/workflows/mailbox.py` | buffers, seen ids, wake plan, turn | signals, wakes, turns, rollover | signals during activities, rollover, nested failures |
| Agent turn `temporal/activities/agent_turn.py`, `core/policy.py`, `agents/openai_runner.py` | usage ledger | model calls with corrections | budgets, retries, executions that overlap |
| Ingestion, quarantine `events/` | inbox, correlations, resolutions | ingest, correlate, resolve | concurrent duplicates and bindings |
| Communication safety `communications/` | none (evaluates history) | rates, spacing, quiet hours, opt-out | boundaries, clock changes, messages that may have escaped |
| Budgets, breakers `budgets/` | ledger, breaker history | record usage, trip, reset | values read without a lock, clocks that disagree |
| Tenancy `security/` | tenant, credentials, safety events | provision, assign, suspend, issue, revoke | administrators and requests in separate transactions |
| HTTP API `api/` | none | authenticate, handle, read the timeline | rows that commit out of order |
| Provider stubs `adapters/stubs/business.py` | bookings, payments, calendar in memory | book, pay, confirm | restarts, repeated keys |

Correct means: a side effect happens at most once and only as approved; what is
recorded about it is true and final; a pause or a completion is respected; no
message is lost, repeated or stuck; the mailbox loses nothing, repeats nothing,
keeps the order of each queue and hears every command; an event reaches the one
process it is about; model spend and customer contact stay within their limits; a
process that sleeps has something that will wake it; and what operators see and
are told explains what happened.  `PROJECT.json` lists the hazards behind each,
with their lines.

## Modules

| Module | Models |
|---|---|
| `ActionLifecycle` | gateway, reviews, execution, reconciliation and controls for the actions of one process |
| `ActionPromise` | what the platform promises about an action, abstractly |
| `ActionLifecycleProofs` | the proofs of ActionLifecycle's properties and of its refinement of ActionPromise |
| `Outbox` | dispatchers, outbox rows, recovery, and the mailbox's deduplication |
| `Delivery` | what the outbox promises, abstractly |
| `OutboxProofs` | the proofs of Outbox's properties and of its refinement of Delivery |
| `Mailbox` | the mailbox workflow of one process |
| `Queues` | what a mailbox promises those who signal it, abstractly |
| `MailboxProofs` | the proofs of Mailbox's safety properties and of its refinement of Queues, and of those of `Journey` |
| `Journey` | EXTENDS `Mailbox`: the workflow composed with the rows of its process and the commands on their way |
| `Ingestion` | event ingress, correlation, quarantine and its resolution, and the move of a tenant |
| `IngestionProofs` | the proofs of its properties, `OnlyLocksBlock` excepted |
| `AgentTurn` | model calls: retries, corrections, fences, budgets, the usage ledger |
| `AgentTurnProofs` | the proofs of its safety properties |
| `Communications` | reservations of customer messages and the policy that limits them, with the executor's second check |
| `QuietHours` | extended by `Communications`: quiet hours in a zone whose offset changes |
| `CommunicationsProofs` | the proofs of the properties of both |
| `Breakers` | the history of the circuit breakers, and the checks that read it |
| `Tenancy` | tenant status and its audit, credentials, authenticated requests |
| `Timeline` | the operator's timeline of a process |
| `OperatorsProofs` | the proofs of the properties of these three |
| `Business` | the stubs for booking, payment and calendar, and the facts that survive them |
| `BusinessProofs` | the proof of its property |
| `MC*` | what happens in the instances that are checked |

Operators that a comment introduces as a *mutant* are faulty variants of the
definition that follows them.  Nothing uses them; they are there to show, when
substituted, that a property can fail.

### ActionLifecycle

One action per database transaction.  A transaction locks the process row, or the
request row, before it reads what it decides on, so it is one step.  The
transaction of `execute()` that keeps both locks while the provider is called is
three steps: `ExecuteAuthorize` takes the locks, `ProviderReturns` is the
provider's answer and the commit, `RecordTerminal` is the transaction after it.
Who needs the process row waits while some executor is `"calling"`
(`ProcessUnlocked`); who locks only the request waits for that request.

`active` stands for the statuses active, waiting and review, which permit the same
things here; cancelled and failed are read by the code and never written.
`approval.expires_at` is checked by the code and never set, so approvals do not
expire.  The revision is always 1: the code creates no other.  The decision's
several proposals are several steps.  Breakers and communication rules are one
switch, tenant suspension another; both are read without a lock.  A review thread's
status follows its approval's.  Outbox messages of controls are told apart by type
only.  The lineage of superseded proposals and the refusal of an unchanged
re-proposal after a conflict are left out.

The provider is external.  It performs an action, refuses it, or reports a
conflict, and its answer may be lost; a call of a dead executor may arrive later.
Its ledger is what `lookup` sees.  An adapter with `guarantees_idempotency`
performs a key once.

`ActionPromise` is the life cycle without executors, attempts, locks and crashes:
an action is proposed with one payload, permitted or refused once, sent only when
permitted and as proposed, performed at most once, and settled once.  What the
platform settles itself is true, and stays so: what it has settled as a conflict, or
as a failure that no retry could have upset, is not performed afterwards.  What an
operator settles is the operator's word.  `ActionLifecycle` implements it
(`ImplementsPromise`): permitted are the actions that policy allows or whose approval
is approved, settled are the attempts with a terminal status.

### Outbox and Delivery

One action per dispatcher transaction or signal.  A claim token is a fresh UUID;
the dispatcher's name stands for it, since a dispatcher works on one claim at a
time.  Time is two steps: a claim becomes stale (`ClaimExpires`), and a pending
message may be claimed at any moment.  The attempt count stops at
`MaxAttempts + 1`, which is all that the comparisons tell apart.
`Delivery` says: messages are promised, enter the mailbox at most once, and are
settled only after they entered.  `Outbox` implements it with published messages
as the settled ones.

### Mailbox

The workflow is single-threaded; a step is what runs between two awaits.  The four
buffers are one sequence whose items have kinds.  Activities return any of their
results or an error.  A wake plan keeps its event types and its timer; human
interactions wake nothing by themselves, since every command does.  Wake, turn and
execution records and the list of pending actions decide nothing on current
histories and are left out, and so are the branches for histories that predate the
process-state result and for mailboxes started without a process definition.
`close` and `replace_wake_plan` are sent by tests only; the constant `TestSignals`
admits them.

A turn looks for a takeover and a close when an activity has returned and before each
of its actions (`_lifecycle_preemption_pending`), so with one of them buffered it
starts nothing further: no persistence, no other action, no follow-up turn
(`PreemptionStopsTurn`).  It still waits for the activity it has started, which for a
suspended tenant is tried again after a sleep, and reconciles an action whose outcome
is unknown.

`Queues` has two sequences: what arrived and what was acted upon.  An item arrives
once, and is acted upon once and only when everything of its queue that arrived
before has been.  `Mailbox` implements it (`ImplementsQueues`), with the items in the
order of their first delivery: buffers, the state carried to the next run, redelivery
and deduplication are invisible.  This says more than that the two orders agree
(`InOrder`), as nothing of a queue may be passed over.

### Journey

Every step of the workflow is a step of `Mailbox` together with what its activity
did to PostgreSQL.  An activity that writes commits in a step of its own before it
returns, so a turn may fail although its rows are there; a retry that finds the
rows changes nothing and is no step.  A decision proposes at most one action.  The
rules of `validate_decision` that ask for progress and for completion are `Valid`;
lineage ids and the memory summary are left out.  `apply_decision` is
`ApplyDecision`, with the facts, their provenance, the next status and the
effective wake conditions of `core/transitions.py`.  `dropped` holds the actions
whose execution the mailbox has given up on or never began.  `intervened` holds the
turns that have an intervention, open or resolved: `record_process_intervention`
repeats none of them (`processes/control.py:68`).

### Ingestion

A transaction takes one step for each lock it waits for or statement that reads
what others write, and its writes appear with its commit.  The locks are those of
the code, in the code's order: the deployment, the command id, the source identity,
the references one after the other in sorted order, the event row, the process row.
`WaitsFor` says who waits for whose lock.  `LocksSuffice` says that a commit meets no conflict that the
locks should have excluded, and that no set of transactions waits in a circle.
`OnlyLocksBlock` is what ties `WaitsFor` to the actions: who waits for nobody can take
its next step.  Together they say that some transaction can always go on.

### AgentTurn

An *execution* is one attempt of the activity.  Temporal starts the next when the
last failed or was silent for two minutes; one that was silent goes on.  Fence,
call and record are three steps.  Usages and prices are small numbers; the cost is
rounded down as in the code.  What a decision says is left out.

### Communications and QuietHours

Time is a bounded clock.  A reservation is evaluated at the workflow's time and
dated by the start of its transaction, both up to `Lag` in the past.  The first is
Temporal's clock and the second the database's (`gateway.py:106`); the first may be
up to `Ahead` before the second, and what a rate window and an interval promise is
less by that difference.  Each action of a batch is blocked or reserved for itself.
The evaluator is one operator per rule.  `QuietHours` counts instants in units of which a day has
`Day`; the offset of the zone changes once, forward or back.  The reference
`ClockIsQuiet` reads what the clock of the zone shows.

### Breakers, Tenancy, Timeline

Three small modules that share no state and are checked in one instance.
`Breakers`: servers date their transitions with clocks that need not agree, and a
check reads two breakers in two statements.  `Tenancy`: administrators lock, read
and commit, and what they decide depends on what they read; a request is
authenticated, checked and handled in three transactions.  Safety events are a set,
since the table stores the start of a transaction and not the order of commits;
`statuses`, the statuses in that order, is a history variable that only the property
about requests uses.
`Timeline`: rows carry the start of their transaction and appear with its commit;
attempts are dated by the worker and events by the API server, whose clocks differ
from the database's by at most `Skew`.  The seven queries of a request are seven
steps with commits in between, each cut by itself, and an item is dated as its
statement found it; the answer is merged from what they found.  It assumes that the
worker's transactions about one process start at strictly later times, since a round
trip to Temporal lies between them, and that an activity that was given up writes
nothing late.

### Business

The memory of the stubs, which a restart empties, and the authoritative facts of
each process, which it does not.  A process makes one request per action and slot,
so these are the idempotency key.  `Rebook` admits a second booking of a process.
Amounts, customer replies and the stubs' clock are left out.

## Runs

Several instances have a `script`: a behaviour is about one of a few scenarios,
chosen at the start, that together cover the component's operations.  Where two
scenarios were composed, the states multiply and nothing new happens, because the
operations of one do not touch the rows of the other.

| Run | Instance | Result |
|---|---|---|
| `actions` | an action without idempotency with 2 executors, 2 payloads, 2 review commands; an idempotent one whose executors die; both in one process | all nine properties hold, refinement included (1,090,440 states) |
| `outbox` | 2 messages, 2 slow dispatchers, 1 requeue, 1 crash, 2 attempts, fair | claims, publication, dead letters, refinement, every message settles (439,708) |
| `outbox_attempts` | 1 message, 1 dispatcher, 2 attempts, 1 crash | **violation**: a recorded failure, a dispatcher that dies with the second claim, and a third claim |
| `mailbox` | 4 scripts of events, reviews, resolutions, controls and test signals; 2 actions, chain 2, rollover after 2 turns, fair | nothing lost, repeated, reordered or passed over (refinement of `Queues`); takeovers stop and park; commands are heard (360,886) |
| `mailbox_priority` | feedback, takeover | **violation**: the review goes first |
| `ingestion` | 5 scripts of up to 4 transactions over 3 references, 4 processes, 2 deployments | no late conflict, no circular wait, only locks block, correlation sound and final, nothing left behind (150,728) |
| `turns` | 4 scripts: 2 processes under one cap, a retry after a timeout, switches during a turn; 3 executions, 2 corrections, fair | ledger exact, overshoot and lateness bounded, turns end (278,404) |
| `contact` | 6 scripts: 4 messages reserved, 3 sent, 2 events, lost and retried calls, every quiet hours in 10 zones over 3 days; Temporal's clock ahead by up to 1 | limits, opt-out fence, announced ends (417,990) |
| `journey` | 3 scripts: takeover and resume with timers, every control, reviews and resolutions; 1 action, chain 1, rollover after 2 turns | never stranded, both sides wait for the same, completed is settled (1,060,518) |
| `journey_stranded` | one event, an action that may be denied | **violation**: an active process sleeps for good |
| `business` | 2 processes and 2 slots, or 1 process and 2 restarts | slots, keys and calendar agree (60,849) |
| `operators` | 2 operators, 2 breakers, 2 transitions each, 1 check; 2 administrators, 1 credential, 1 request, 2 safety events; a worker that writes 6 rows, or 3 writers that write 4, skew 1, limit 2, 1 timeline | breakers hold, timeline faithful, access accounted for (2,434,423) |

Why the bounds are enough.  Two executors are what an overlap takes; a third only
repeats the second's part, and the proofs cover every number.  Two commands compete
for one review, two payloads distinguish the approved from the other.  One crash
leaves a stale claim, and with a recorded failure before it passes the bound of two
attempts.
A chain limit of one or two has every transition of the code's five: begin, follow
up, hit the limit, fail at an inner and at the outer level.  Rollover after two
turns puts it between any two deliveries.  Three references in two pairs are what
a circular wait takes; four transactions put two operators and two events around
one quarantined event.  The budgets are two calls wide and the caps four, so that
each is reached and passed.  Four messages are one more than the
largest limit of the policy; the others are reached at different times.  A day of eight units with a shift of up to two has quiet hours
before, across and after the change, overnight or not.  A limit of two with six
rows cuts every kind of row the worker writes, and four rows put a commit of each
writer between the statements of a request.  Deadlock is checked for actions,
outbox and ingestion; the others may stop (a workflow completes or waits for a
signal that never comes; a bounded clock or history ends), so their configurations
turn it off.

What the instances leave out.  `journey` delivers messages in the order of their
commit (`Reordered = FALSE`) and its policy denies nothing; `dropped` actions are
excepted from `NeverStranded` and `SameWakes`.  `turns` states the overshoot for
behaviours in which no running execution was given up.  `EscapedStaysReserved` is
about adapters without idempotency, `OneBookingPerSlot` about a memory that was not
lost, and `business` does not rebook.  Each of these is where the code does
something else; see the next section.

Fairness.  `outbox` assumes that a dispatcher keeps polling and finishes what it
does (`run_tenant` loops forever, and a crashed worker is restarted) and that time
passes; nothing of operators, writers or Temporal.  `EventuallySettled` is
conditional: from some time on the tenant stays active and no claim expires under an
owner at work.  Claims may expire that way any number of times before, but a claim
that expired before every answer would never settle.  `mailbox` assumes that the
workflow runs when it can and that activities return: all have timeouts and bounded
retries.  `turns` assumes the same of Temporal and of each execution.

## Where code and documents differ

Three are runs of their own and findings in `PROJECT.json`.

* `outbox_attempts`: a stale claim is taken over without looking at the attempt
  count, so a message that makes its dispatcher die is never dead-lettered, against
  `README.md:104` and `docs/temporal-recovery.md:48`.
* `mailbox_priority`: reviews and resolutions are acted upon before a buffered
  takeover, as a comment in the code says and against
  `docs/decisions/008-mailbox-ordering.md:12`; the row locks still keep the provider
  from being called for a paused process (`PauseFencesProvider`).
* `journey_stranded`: a decision whose only action is denied was validated before
  the policy was known (`core/policy.py:190`), and leaves an active process with
  nothing to wait for, against `docs/reviews/2026-08-31-post-review-commit.md:112`.

The others were met while modelling.  They are why a property has an exception; to
see one, drop the exception or set the constant that is named.

* An execution that Temporal has given up on calls the model while its retry passes
  the same fence (`agent_turn.py:191`), so more than the single call of
  `budgets/policy.py:98` overshoots.  `OvershootByOneCall` without `timeouts = 0`.
* A model output that fails to validate raises before its usage is read
  (`openai_runner.py:193`); `docs/safety-limits.md:88` says that every call records
  its tokens.  `InvalidOutput` in `AgentTurn`.
* A check of two breakers can pass although one of the two was open at every moment
  of it (`breakers.py:161`): both were switched between its two statements.
  `EachClosedOnce` therefore speaks of each breaker by itself.
* Safety events are listed by `created_at`, the start of their transaction
  (`db/models/tenancy.py:145`), which comes before the wait for the row lock: listed
  that way, the `previous_status` of one need not be the `new_status` of the one
  before.  `AuditExplainsStatus` therefore counts them.
* The timeline can show an attempt before its action, when the worker's clock is
  behind the database's (`execution.py:141`).  `CauseFirst` without its condition on
  the attempt's time.
* The timeline can date an action by a decision that it does not show, because the
  decision committed between the two statements (`api/processes.py:831`, `869`).
* A retry of an idempotent action that communication rules block is recorded as
  failed and frees its reservation, although the first call may have been delivered
  (`execution.py:247`, against `docs/safety-limits.md:76`).
* Spacing is kept between reservations, by `created_at` (`safety.py:93`); after a
  late approval two messages can leave closer together
  (`docs/safety-limits.md:70`).
* Temporal's clock decides and the database's dates (`mailbox.py:753`,
  `gateway.py:106`).  With the first ahead, a rate window can hold more messages than
  its limit, and `next_allowed_at` is then too early.  `ReservedWithinLimits` without
  `Ahead`, and `NextAllowedIsExact` without its condition on the window.
* When the clock is set back across midnight, an evaluation before the announced end
  finds no quiet hours (`policy.py:255`).  `EndIsKept` without its condition on the
  date.
* An action whose execution is lost, or whose turn was cut short before
  `persist_process_state`, stays open with nothing to take it up
  (`mailbox.py:248, 879`).  `NeverStranded` without `dropped`.
* A takeover can reach the mailbox after the resume that followed it, because
  messages are claimed by `available_at` (`dispatcher.py:232`), and parks an active
  process.  `Journey` with `Reordered = TRUE`.
* A takeover and a resume that both commit during a model call leave no trace: the
  decision made before is persisted after (`gateway.py:102`;
  `docs/testing.md:58`).
* After a restart the booking stub gives a slot away again (`business.py:413`),
  although `docs/reviews/2026-08-31-post-review-commit.md:904` calls it restart-safe.
  `OneBookingPerSlot` without `restarts = 0`.
* A second booking of a process is entered into the calendar on the payment of the
  first (`business.py:532`).  `CalendarIsPaid` with `Rebook = TRUE`.

## Proofs

The eight `*Proofs` modules prove every property that the runs check, except those
listed at the end of this section, for every value of the constants.

Assumptions.  The placeholders for nothing are no payload, message, dispatcher,
administrator, credential, slot or key (`NoPayloadAssumption`, `NobodyAssumption`,
`TenancyAssumption`, `BusinessAssumption`).  Limits, prices, budgets and bounds are
natural numbers, and positive where the code requires it.  Transactions, commands
and moves are different things (`IngestionAssumption`), and so are event types and
commands (`MailboxAssumption`).  Event types are not the words for the other wake
conditions, which the code keeps apart by their class, and what an event or an
action brings are facts with a value (`JourneyAssumption`).  Sets may be infinite, except where the code counts
or adds over them: the actions of a process in `Communications`, and the processes
and possible usages in `AgentTurn`, which also has a process and a usage that is
not zero, since `OvershootByOneCall` compares with the largest call.  The clock of a
zone is changed by at most a day.

Sums, filters and sorted times are recursive functions or folds.  What the proofs
need of them is proved by taking a least counterexample, a natural number or the
cardinality of a set.

`ActionLifecycleProofs` proves all nine properties.  None of the deep ones is
inductive alone.  The argument:

* `Typed` adds to the type invariant that a working executor has an action and a
  recorder a result.
* `Coherent` adds that rows agree (policy, approval and request exist together and
  fit each other) and that work on an action implies an attempt.  It gives
  `RecordsAreCoherent` and, with it, `TerminalOutcomeIsFinal` and
  `CompletedIsQuiet`.
* `ApprovedAsStored`: an approved approval has an approving command with the stored
  payload.  It gives `ExactApproval`; `DecidedIsClosed` (a deciding command closes
  its approval) gives `OneReviewWins`.
* `OneCall`: for an action without idempotency at most one executor is or will be
  in the call, none if its effect happened or is in flight.  With `LedgerCounts`
  (the ledger says applied exactly when the effect happened) it gives
  `SideEffectAtMostOnce`, and with `ResultIsTruthful` and `RecordIsTruthful`, which
  say the same of results not yet recorded, `OutcomeIsTruthful`.
* `LifecycleKeepsPromise`, the refinement, needs one more invariant,
  `PermittedWork`: whatever has an attempt is permitted, and a call that is out or on
  its way was sent.  A step of an executor is then `Send`, `Perform`, `Settle` or
  nothing.  `Perform` is the hard one (`PerformRefines`): `OneCall` says that the
  effect has not happened yet, and `RecordIsTruthful` that nobody has settled the
  action as not performed while its call may still arrive.

`OutboxProofs` proves the safety properties from an invariant that says what a
dispatcher past its signal knows: its message is in the inbox.  The refinement
follows from it step by step.

`MailboxProofs` proves what the mailbox promises about what it is sent.

* `Books` says that what was delivered was seen, by this run or the one before, and
  that what was seen is buffered, carried or was acted upon, and never two of these.
  It gives `NothingLost`.  In a run that has not begun the carried items may be in
  the buffer too, as signals arrive before the workflow restores them; hence
  `CarriedOver` and the case `prestart`.
* `NoRepeats` gives `ActedUponOnce`.
* `Ordered` says of each sequence that its items of one queue are in the order of
  their first delivery, and that whatever was acted upon was delivered before what
  waits.  It gives `InOrder`.  The step that restores a buffer filters it (`Unseen`);
  `Embeds` relates the filtered sequence to the positions it comes from.
* `Parked` says that after a takeover the mailbox waits for a command in this run or
  the one it continues as.  It is inductive only without the tests' signal that
  replaces the wake plan, so `TakeoversPark` has that hypothesis, and
  `ParksUnlessTested` puts it into the state as the instance does.
* `PreemptedTurnsStop` needs no invariant beyond the types: each step that would
  start something looks at the buffer first.
* `MailboxImplementsQueues`: a delivery is an arrival or nothing, and taking an item
  is `Act`, since by `Ordered` it is the first of its queue in the buffer and by
  `Books` whatever arrived before it and is not in the buffer was acted upon.  With
  `JourneyRunsTheMailbox` it holds of a whole process too
  (`JourneyImplementsQueues`).

It goes on with `Journey`.  `JourneyRunsTheMailbox`: a journey is a behaviour of
`Mailbox`, since each step returns what some activity may return (`RevisionOK`) or
leaves the mailbox alone.  So the mailbox's invariants hold in it, and all that
follows uses them.

* `ProcessRowsAgree` holds whatever the order of delivery.  `ApprovalsOK` is the
  heart of it: an action is approved once, and until the mailbox hears of it the
  request stays approved and is not the one that is executed; so an open request
  keeps the process from completing while an approval is on its way.  `RequestOK` and
  `ChainOK` say which request the running turn has at hand.
* `WakesAgree` and `NobodyIsStranded` say what a sleeping process waits for.
  `RestOK` is the claim itself, made wherever the mailbox has its plan or is about to
  get it: in the loop, carried to the next run, in the revision that was written and
  not yet returned, in an intervention.  It is claimed only while no command is
  pending, as each of them changes one side first.  `PausesOK` says that what ends a
  pause is behind its takeover, so a mailbox that parks last finds the process
  paused; the mailbox's `Ordered` and `FifoOK` (delivery in the order of the commits)
  carry that through the buffer.  `OpenOK` says that an action under way is at
  hand, awaits its approval's message or is given up on; `DecisionOK` keeps what was
  valid about the decision; `InterventionsOK` says that an intervention of the turn
  that fails, open or resolved, is one its own handler has written, so repeating it finds the process
  waiting for an operator.
* Both assume `~Reordered`, and `NobodyIsStranded` that no action is denied.  Neither
  can be left out: with `Reordered = TRUE` TLC finds an active process that is parked
  for good by a takeover its resume has overtaken, and `journey_stranded` is the
  other.  That a dropped action may strand its process is in the properties
  themselves.

`IngestionProofs` proves correlation sound and final, nothing left behind, and that
the locks suffice.  The invariant has two halves.  `Transactions` says
what each transaction holds and knows between two of its steps: a lock has one
holder (`Exclusive`), a request that has read its references holds them and they are
still as it read them (`IsMatch`, `IsFresh`), a command holds the row and the process
it is about.  `Tables` says what the rows say in between.  A commit then needs only
what its own transaction knows, and leaves what others know alone since that is
about rows they have locked.

That no set of transactions waits in a circle (`LocksAreEnough`) follows from the
order of the locks.  `InOrder` says that a transaction holds only locks of the steps
it has passed, and of the references only those below all it still wants; the last
needs that the next reference is the least that is missing.  `OrderPreventsCircles`
takes a finite set in which everyone waits for another and removes the kinds of lock
from the last to the first: nobody waits for a process row, since its holder takes no
further lock; so nobody waits for an event row; of those that wait for a reference,
the one that wants the greatest waits for one who wants a greater; and so on.

`AgentTurnProofs`: a row of the ledger is a report of an execution that has begun
(`RowsAreReports`), no two are of one attempt (`RowsAreDistinct`), and what is
validated was recorded; that gives `LedgerIsExact`.  The ledger may lack a report:
of an output that was refused, or of an execution that was lost before it recorded.  `LateCalls` says that a call
that is allowed now is not late.  For the overshoot, `Alone` says that without
timeouts a process waits for its only live execution, `CallsWithinBudget` that its
spend is below the budget until that execution records, and `TenantSpend` reserves
one largest call for each process with a call under way: the fence is passed below
the cap, so each reservation fits.

`CommunicationsProofs`: the limits are inductive together with `CreatedInPast`
(reservations are dated in the past, whatever the lag) and with what protects the
reservation of an action without idempotency once its message may have escaped
(`ExecutorOwns`, `UntriedIsClean`, `FailedIsHarmless`).  They hold for every `Ahead`,
with windows and intervals that are shorter by it.  The announced ends of rate and interval follow from the
evaluator alone; those of quiet hours from the two lemmas about `Resolve`, which
says where a local time falls when it is skipped or happens twice.  `EndIsKept` makes
two exceptions: a clock set back across midnight, and free hours within the shift.

`OperatorsProofs` proves the properties of `Tenancy`, `Breakers` and `Timeline`.

* `AccessIsAccounted`.  The audit adds up because who changes the status holds the
  row lock since it read it (`Held`), so each commit adds one event of the other
  status (`OneMore`), and a tenant without a row has no events (`Fresh`).  A
  revocation is final for the same reason: who read a credential as active still
  holds its row.  Commands are authorised because validity only ends (`ValidityEnds`),
  so a credential that is valid when a request is authenticated was valid when it
  arrived, and because a moment at which the tenant was active stays in the audit
  (`ActiveStays`); `Admitted` carries both from one transaction of a request to the
  next, `Authorised` to its command.
* `BreakersHold`.  Who holds the lock of a breaker has read its latest row and is
  alone (`LockHolders`), so what it inserts is later than all rows and opposite to
  the last; `Chronicle` counts trips and resets.  `Checks` says that a check between
  its two reads knows the breakers that are closed now.
* `TimelineIsFaithful`.  `InTurn` says that the times of actions and decisions are in
  the order of turns, so cutting actions by the time of their proposal hides none
  that was decided after one that is shown.  `AfterTurn` says that the transaction of
  an attempt starts after its turn's decision, which needs that an undecided turn has
  no attempt.  `ReadOK` says what the statements that have run leave to the answer:
  items keep a date they had (`Dated`), an action found after its decision has the
  decision's time (`DecisionFirst`), and whatever a statement cut off has as many
  items behind it as are shown (`Behind`).  The rest is counting (`Faithful`).

`BusinessProofs` proves `BooksAgree` for processes that do not rebook.  `Account` says
that facts and attempt of a process are about one booking and one payment;
`BookingKnown` and `PaymentKnown` that what is in memory is known to its process or
its answer was lost and the adapter still has it; `FirstMemory` that before a restart
every booking that is known is in memory.

Only model-checked: liveness (`EventuallySettled`, `CommandsAreHeard`, `TurnEnds`) and
`OnlyLocksBlock`.  TLAPS does not handle fairness and ENABLED here.

## Not modelled

* Prompt and context construction (`agents/context.py` but for its check of facts),
  the memory summary and lineage ids: data that no modelled step decides on.
* The refusal of an unchanged re-proposal after a conflict, and revisions of
  actions: the code creates no second revision.
* Release pinning: a filter on what a dispatcher sees; there is one release here.
* Project authoring (`projects/`): a compiler without state at run time.
* Row-level security and migrations: properties of the database.
* API handlers other than the timeline, authentication and event ingress: they parse
  a request, call a modelled service and format its answer.
* The test kit and the prompts of the fictional deployment: drivers of the services.

## Plan

1. Two actions per decision in `Journey`: the chain then executes a list, and
   `ChainOK` and `RequestOK` speak about what is left of it.
