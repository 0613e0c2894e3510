------------------------------ MODULE AgentTurn ------------------------------
(***************************************************************************)
(* The model calls of one tenant's processes: the run_agent_turn activity  *)
(* (temporal/activities/agent_turn.py) as the mailbox workflow schedules   *)
(* it, the fence before every call (budgets/policy.py, budgets/ledger.py,  *)
(* budgets/breakers.py) and the usage ledger.                              *)
(*                                                                         *)
(* An execution is one attempt of the activity.  Temporal starts up to     *)
(* MaxTries of them for a turn, one after the other, the next when the     *)
(* last failed or was not heard of for two minutes; an execution given up  *)
(* that way runs on, and only its result is ignored.  The fence, the call  *)
(* and the record of its usage are three steps, with anything in between.  *)
(* What a decision says is left out: validation accepts it or does not.    *)
(***************************************************************************)
EXTENDS Naturals, FiniteSets, FiniteSetsExt

CONSTANTS
  Process,         \* the processes of the tenant
  Execution,       \* identities of executions: uuid4() of each
  Usage,           \* the usages a provider may report
  Price,           \* micro-USD for Unit input and output tokens
  Unit,            \* 1_000_000 in the code
  Budget,          \* ModelBudget of the processes' definition
  Caps,            \* TenantSpendCaps
  MaxCorrections,  \* _MAX_SEMANTIC_CORRECTIONS (2)
  MaxTries,        \* maximum_attempts of the activity (3)
  MaxTurns,        \* bound on the turns of a process
  LifetimeTurns,   \* turns that begin within the process lifetime
  MaxSwitches,     \* bound on operator switches
  MaxCrashes,      \* bound on crashes and provider failures
  MaxInvalid,      \* bound on answers that are no decision
  MaxTimeouts,     \* bound on executions given up while they run
  PlatformPaused,  \* the deployment's kill switch
  NoExecution

ModelUsage == [input : Nat, output : Nat]

ASSUME AgentTurnAssumption ==
  /\ IsFiniteSet(Process) /\ Process # {}
  /\ Usage \subseteq ModelUsage /\ IsFiniteSet(Usage)
  /\ \E u \in Usage : u.input + u.output > 0
  /\ Price \in [input : Nat, output : Nat]
  /\ Unit \in Nat \ {0}
  /\ Budget \in [input : Nat, output : Nat, total : Nat, cost : Nat]
  /\ Caps \in [tokens : Nat, cost : Nat]
  /\ MaxCorrections \in Nat /\ MaxTries \in Nat \ {0} /\ MaxTurns \in Nat
  /\ LifetimeTurns \in Nat /\ MaxSwitches \in Nat
  /\ MaxCrashes \in Nat /\ MaxInvalid \in Nat /\ MaxTimeouts \in Nat
  /\ PlatformPaused \in BOOLEAN
  /\ NoExecution \notin Execution

VARIABLES
  workflow,  \* what the workflow of each process does about its turn
  turn,      \* the number of that turn
  tries,     \* the attempts Temporal has started for this call of the activity
  current,   \* the execution whose result Temporal waits for
  pc,        \* the next step of each execution
  process,   \* the process it runs for, and
  of,        \* the turn
  attempt,   \* proposal_attempt_count
  outcome,   \* the usage the provider reported to it, to be recorded
  ledger,    \* ModelUsageLedger
  reported,  \* every usage report of the provider, with who received it
  tenant,    \* status of the tenant
  breaker,   \* is the breaker for model calls, or for everything, tripped?
  late,      \* calls an execution started since a block of which it knew not
  happened   \* switches, crashes, invalid answers and timeouts so far

execution == <<pc, process, of, attempt, outcome, late>>
vars == <<workflow, turn, tries, current, execution, ledger, reported,
          tenant, breaker, happened>>

Happenings == {"switches", "crashes", "invalid", "timeouts"}

Init ==
  /\ workflow = [p \in Process |-> "idle"]
  /\ turn = [p \in Process |-> 0]
  /\ tries = [p \in Process |-> 0]
  /\ current = [p \in Process |-> NoExecution]
  /\ pc = [e \in Execution |-> "unused"]
  /\ process \in [Execution -> {CHOOSE p \in Process : TRUE}]
  /\ of = [e \in Execution |-> 0]
  /\ attempt = [e \in Execution |-> 0]
  /\ outcome = [e \in Execution |-> [input |-> 0, output |-> 0]]
  /\ ledger = {}
  /\ reported = {}
  /\ tenant = "active"
  /\ breaker = FALSE
  /\ late = [e \in Execution |-> 0]
  /\ happened = [h \in Happenings |-> 0]

-----------------------------------------------------------------------------
(* Budgets *)

(* estimate_cost_micros: each part is rounded down. *)
EstimateCost(u) ==
  (u.input * Price.input) \div Unit + (u.output * Price.output) \div Unit

(* spent and tenant_spent: what the ledger's rows add up to. *)
Spent(rows) ==
  [input |-> MapThenSumSet(LAMBDA r : r.usage.input, rows),
   output |-> MapThenSumSet(LAMBDA r : r.usage.output, rows),
   cost |-> MapThenSumSet(LAMBDA r : r.cost, rows)]

RowsOf(p) == {r \in ledger : r.process = p}

(* Mutant: a budget that is just used up does not block. *)
ProcessBlockedBeyond(p) ==
  LET s == Spent(RowsOf(p))
  IN \/ s.input > Budget.input \/ s.output > Budget.output
     \/ s.input + s.output > Budget.total \/ s.cost > Budget.cost

(* evaluate_model_budget and evaluate_tenant_spend: spend that has reached *)
(* a cap blocks.                                                           *)
ProcessBlocked(p) ==
  LET s == Spent(RowsOf(p))
  IN \/ s.input >= Budget.input \/ s.output >= Budget.output
     \/ s.input + s.output >= Budget.total \/ s.cost >= Budget.cost

TenantBlocked ==
  LET s == Spent(ledger)
  IN s.input + s.output >= Caps.tokens \/ s.cost >= Caps.cost

(* _require_model_execution_allowed, but for the tenant's status. *)
Blocked(p, n) ==
  \/ n > LifetimeTurns
  \/ ProcessBlocked(p)
  \/ TenantBlocked
  \/ PlatformPaused
  \/ breaker

-----------------------------------------------------------------------------
(* The workflow and Temporal *)

(* A process is woken for another turn. *)
StartTurn(p) ==
  /\ workflow[p] \in {"idle", "decided", "intervention"}
  /\ turn[p] < MaxTurns
  /\ turn' = [turn EXCEPT ![p] = @ + 1]
  /\ workflow' = [workflow EXCEPT ![p] = "running"]
  /\ tries' = [tries EXCEPT ![p] = 0]
  /\ UNCHANGED <<current, execution, ledger, reported, tenant, breaker, happened>>

(* An attempt of the activity starts on some worker, under a fresh id. *)
Unused == {e \in Execution : pc[e] = "unused"}

Schedule(p) ==
  /\ workflow[p] = "running"
  /\ current[p] = NoExecution
  /\ tries[p] < MaxTries
  /\ Unused # {}
  /\ LET e == CHOOSE e \in Unused : TRUE
     IN /\ pc' = [pc EXCEPT ![e] = "load"]
        /\ process' = [process EXCEPT ![e] = p]
        /\ of' = [of EXCEPT ![e] = turn[p]]
        /\ current' = [current EXCEPT ![p] = e]
  /\ tries' = [tries EXCEPT ![p] = @ + 1]
  /\ UNCHANGED <<workflow, turn, attempt, outcome, late, ledger, reported,
                 tenant, breaker, happened>>

(* Mutant: off by one in the number of attempts. *)
GiveUpBeyond(p) ==
  /\ workflow[p] = "running"
  /\ current[p] = NoExecution
  /\ tries[p] > MaxTries
  /\ workflow' = [workflow EXCEPT ![p] = "intervention"]
  /\ UNCHANGED <<turn, tries, current, execution, ledger, reported, tenant,
                 breaker, happened>>

(* Temporal has no attempt left: an intervention is recorded. *)
GiveUp(p) ==
  /\ workflow[p] = "running"
  /\ current[p] = NoExecution
  /\ tries[p] = MaxTries
  /\ workflow' = [workflow EXCEPT ![p] = "intervention"]
  /\ UNCHANGED <<turn, tries, current, execution, ledger, reported, tenant,
                 breaker, happened>>

(* start_to_close_timeout: the execution is no longer waited for. *)
Timeout(p) ==
  /\ current[p] # NoExecution
  /\ happened["timeouts"] < MaxTimeouts
  /\ happened' = [happened EXCEPT !["timeouts"] = @ + 1]
  /\ current' = [current EXCEPT ![p] = NoExecution]
  /\ UNCHANGED <<workflow, turn, tries, execution, ledger, reported, tenant,
                 breaker>>

(* _SUSPENSION_RECHECK_DELAY is over: the activity is called anew. *)
Recheck(p) ==
  /\ workflow[p] = "asleep"
  /\ workflow' = [workflow EXCEPT ![p] = "running"]
  /\ tries' = [tries EXCEPT ![p] = 0]
  /\ UNCHANGED <<turn, current, execution, ledger, reported, tenant, breaker,
                 happened>>

(* The execution ends; the workflow hears of it if it still waits for it.  *)
(* A retryable failure leaves it running.                                  *)
Settle(e, result) ==
  LET p == process[e]
  IN
  /\ pc' = [pc EXCEPT ![e] = "ended"]
  /\ IF current[p] = e
     THEN /\ current' = [current EXCEPT ![p] = NoExecution]
          /\ workflow' = [workflow EXCEPT ![p] = result]
     ELSE UNCHANGED <<current, workflow>>
  /\ UNCHANGED <<turn, tries, process, of, attempt, tenant, breaker>>

-----------------------------------------------------------------------------
(* AgentTurnActivities.run_agent_turn *)

(* The context is loaded once, or exceeds the limits of a prompt. *)
Load(e) ==
  /\ pc[e] = "load"
  /\ \/ /\ tenant = "active"
        /\ pc' = [pc EXCEPT ![e] = "fence"]
        /\ attempt' = [attempt EXCEPT ![e] = 1]
        /\ UNCHANGED <<workflow, turn, tries, current, process, of, outcome,
                       late, ledger, reported, tenant, breaker, happened>>
     \/ /\ IF tenant = "active" THEN Settle(e, "intervention")
           ELSE Settle(e, "asleep")
        /\ UNCHANGED <<outcome, late, ledger, reported, happened>>

(* Mutant: the fence is passed once for each turn, not before each call. *)
FenceOnce(e) ==
  /\ pc[e] = "fence"
  /\ \/ /\ attempt[e] > 1 \/ (tenant = "active" /\ ~Blocked(process[e], of[e]))
        /\ pc' = [pc EXCEPT ![e] = "call"]
        /\ late' = [late EXCEPT ![e] = IF attempt[e] > 1 THEN @ ELSE 0]
        /\ UNCHANGED <<workflow, turn, tries, current, process, of, attempt,
                       outcome, ledger, reported, tenant, breaker, happened>>
     \/ /\ attempt[e] = 1 /\ (tenant # "active" \/ Blocked(process[e], of[e]))
        /\ Settle(e, IF tenant = "active" THEN "intervention" ELSE "asleep")
        /\ UNCHANGED <<outcome, late, ledger, reported, happened>>

(* _require_model_execution_allowed, before every call. *)
Fence(e) ==
  /\ pc[e] = "fence"
  /\ \/ /\ tenant = "active" /\ ~Blocked(process[e], of[e])
        /\ pc' = [pc EXCEPT ![e] = "call"]
        /\ late' = [late EXCEPT ![e] = 0]
        /\ UNCHANGED <<workflow, turn, tries, current, process, of, attempt,
                       outcome, ledger, reported, tenant, breaker, happened>>
     \/ /\ tenant # "active" \/ Blocked(process[e], of[e])
        /\ Settle(e, IF tenant = "active" THEN "intervention" ELSE "asleep")
        /\ UNCHANGED <<outcome, late, ledger, reported, happened>>

(* The runner sends the prompt, or finds it too long. *)
Call(e) ==
  /\ pc[e] = "call"
  /\ \/ /\ pc' = [pc EXCEPT ![e] = "wait"]
        /\ late' = [late EXCEPT ![e] =
                      IF tenant = "active" /\ ~Blocked(process[e], of[e])
                      THEN @ ELSE @ + 1]
        /\ UNCHANGED <<workflow, turn, tries, current, process, of, attempt,
                       outcome, ledger, reported, tenant, breaker, happened>>
     \/ /\ Settle(e, "intervention")
        /\ UNCHANGED <<outcome, late, ledger, reported, happened>>

(* The provider answers and reports the usage of the call. *)
Answer(e) ==
  /\ pc[e] = "wait"
  /\ \E u \in Usage :
       /\ pc' = [pc EXCEPT ![e] = "record"]
       /\ outcome' = [outcome EXCEPT ![e] = u]
       /\ reported' = reported \cup
            {[process |-> process[e], turn |-> of[e], execution |-> e,
              attempt |-> attempt[e], usage |-> u]}
  /\ UNCHANGED <<workflow, turn, tries, current, process, of, attempt, late,
                 ledger, tenant, breaker, happened>>

(* The answer is no valid decision: the runner raises before it reads the  *)
(* usage, and the attempt may be retried.                                  *)
InvalidOutput(e) ==
  /\ pc[e] = "wait"
  /\ happened["invalid"] < MaxInvalid
  /\ happened' = [happened EXCEPT !["invalid"] = @ + 1]
  /\ \E u \in Usage :
       reported' = reported \cup
         {[process |-> process[e], turn |-> of[e], execution |-> e,
           attempt |-> attempt[e], usage |-> u]}
  /\ Settle(e, "running")
  /\ UNCHANGED <<outcome, late, ledger>>

(* The provider fails without a report, or the worker dies anywhere. *)
Crash(e) ==
  /\ pc[e] \notin {"unused", "ended"}
  /\ happened["crashes"] < MaxCrashes
  /\ happened' = [happened EXCEPT !["crashes"] = @ + 1]
  /\ Settle(e, "running")
  /\ UNCHANGED <<outcome, late, ledger, reported>>

(* Mutant: rows of one turn share an identity whatever their execution. *)
IdentityOfTurn(r) == <<r.process, r.turn, r.attempt>>

(* _record_model_usage, in a transaction of its own.  A row is identified  *)
(* by process, turn, execution and attempt; one with this identity and     *)
(* another content is an error.                                            *)
Identity(r) == <<r.process, r.turn, r.execution, r.attempt>>

NewRow(e) ==
  [process |-> process[e], turn |-> of[e], execution |-> e,
   attempt |-> attempt[e], usage |-> outcome[e],
   cost |-> EstimateCost(outcome[e])]

(* The worker does not start without a price for its model (worker.py:84), *)
(* so the cost can be estimated: UnknownModelPrice (agent_turn.py:354) is  *)
(* left out.                                                               *)
Record(e) ==
  LET same == {r \in ledger : Identity(r) = Identity(NewRow(e))}
  IN
  /\ pc[e] = "record"
  /\ IF \A r \in same : r.usage = outcome[e]
     THEN /\ ledger' = IF same = {} THEN ledger \cup {NewRow(e)} ELSE ledger
          /\ pc' = [pc EXCEPT ![e] = "validate"]
          /\ UNCHANGED <<workflow, turn, tries, current, process, of, attempt,
                         outcome, late, reported, tenant, breaker, happened>>
     ELSE /\ Settle(e, "running")
          /\ UNCHANGED <<outcome, late, ledger, reported, happened>>

(* validate_decision: accept, ask for a correction, or give up. *)
Validate(e) ==
  /\ pc[e] = "validate"
  /\ \/ /\ Settle(e, "decided")
        /\ UNCHANGED <<outcome, late, ledger, reported, happened>>
     \/ /\ attempt[e] > MaxCorrections
        /\ Settle(e, "intervention")
        /\ UNCHANGED <<outcome, late, ledger, reported, happened>>
     \/ /\ attempt[e] <= MaxCorrections
        /\ attempt' = [attempt EXCEPT ![e] = @ + 1]
        /\ pc' = [pc EXCEPT ![e] = "fence"]
        /\ UNCHANGED <<workflow, turn, tries, current, process, of, outcome,
                       late, ledger, reported, tenant, breaker, happened>>

-----------------------------------------------------------------------------
(* The operator *)

SwitchTenant ==
  /\ happened["switches"] < MaxSwitches
  /\ happened' = [happened EXCEPT !["switches"] = @ + 1]
  /\ tenant' = IF tenant = "active" THEN "suspended" ELSE "active"
  /\ UNCHANGED <<workflow, turn, tries, current, execution, ledger, reported,
                 breaker>>

SwitchBreaker ==
  /\ happened["switches"] < MaxSwitches
  /\ happened' = [happened EXCEPT !["switches"] = @ + 1]
  /\ breaker' = ~breaker
  /\ UNCHANGED <<workflow, turn, tries, current, execution, ledger, reported,
                 tenant>>

Temporal(p) == Schedule(p) \/ GiveUp(p) \/ Recheck(p)

Run(e) ==
  Load(e) \/ Fence(e) \/ Call(e) \/ Answer(e) \/ Record(e) \/ Validate(e)

Next ==
  \/ \E p \in Process : StartTurn(p) \/ Temporal(p) \/ Timeout(p)
  \/ \E e \in Execution : Run(e) \/ InvalidOutput(e) \/ Crash(e)
  \/ SwitchTenant
  \/ SwitchBreaker

(* Temporal retries and a worker runs what it has started. *)
Fairness ==
  /\ \A p \in Process : WF_vars(Temporal(p))
  /\ \A e \in Execution : WF_vars(Run(e))

Spec == Init /\ [][Next]_vars
FairSpec == Spec /\ Fairness

-----------------------------------------------------------------------------
(* Properties *)

Rows ==
  [process : Process, turn : 0 .. MaxTurns, execution : Execution,
   attempt : 1 .. (MaxCorrections + 1), usage : Usage, cost : Nat]

(* Type invariant. *)
TypeOK ==
  /\ workflow \in [Process -> {"idle", "running", "asleep", "decided",
                               "intervention"}]
  /\ turn \in [Process -> 0 .. MaxTurns]
  /\ tries \in [Process -> 0 .. MaxTries]
  /\ current \in [Process -> Execution \cup {NoExecution}]
  /\ pc \in [Execution -> {"unused", "load", "fence", "call", "wait", "record",
                           "validate", "ended"}]
  /\ process \in [Execution -> Process]
  /\ of \in [Execution -> 0 .. MaxTurns]
  /\ attempt \in [Execution -> 0 .. (MaxCorrections + 1)]
  /\ outcome \in [Execution -> Usage \cup {[input |-> 0, output |-> 0]}]
  /\ ledger \subseteq Rows
  /\ tenant \in {"active", "suspended"}
  /\ breaker \in BOOLEAN
  /\ late \in [Execution -> Nat]
  /\ happened \in [Happenings -> Nat]

(* The ledger neither invents nor repeats spend, however often an activity *)
(* is retried: the rows are well formed, each is one usage report of the   *)
(* provider, and a report whose answer got as far as validation has its    *)
(* row.  Reports of refused output or of a lost activity have none.        *)
LedgerIsExact ==
  /\ TypeOK
  /\ \A r \in ledger :
       [process |-> r.process, turn |-> r.turn, execution |-> r.execution,
        attempt |-> r.attempt, usage |-> r.usage] \in reported
  /\ \A r, s \in ledger : r # s => r.execution # s.execution \/ r.attempt # s.attempt
  /\ \A e \in Execution : pc[e] = "validate" =>
       \E r \in ledger : r.execution = e /\ r.attempt = attempt[e]

(* A process exceeds its budget by less than one call, as long as no       *)
(* execution was given up while it ran (policy.py:98), and the tenant      *)
(* exceeds its cap by less than one call of each process.                  *)
Largest == Max({u.input + u.output : u \in Usage})
Tokens(rows) == Spent(rows).input + Spent(rows).output
OvershootByOneCall ==
  happened["timeouts"] = 0 =>
    /\ \A p \in Process : Tokens(RowsOf(p)) < Budget.total + Largest
    /\ Tokens(ledger) < Caps.tokens + Cardinality(Process) * Largest

(* Whatever stops model calls (a suspension, a breaker, a cap), stops each *)
(* execution after at most the one call it had already been allowed.       *)
AtMostOneLateCall == \A e \in Execution : late[e] <= 1

(* A turn comes to a decision or to an operator, unless its tenant is      *)
(* suspended again or the instance runs out of executions.                 *)
TurnEnds ==
  \A p \in Process :
    workflow[p] \in {"running", "asleep"} ~>
      \/ workflow[p] \in {"decided", "intervention"}
      \/ tenant = "suspended"
      \/ \A e \in Execution : pc[e] # "unused"
=============================================================================
