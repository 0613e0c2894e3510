------------------------------ MODULE Ingestion ------------------------------
(***************************************************************************)
(* Event ingress of one tenant (events/ingestion.py), the operator's       *)
(* resolution of quarantined events (events/quarantine.py) and the move of *)
(* the tenant to another deployment (security/deployment_assignment.py),   *)
(* served concurrently by any number of API processes.                     *)
(*                                                                         *)
(* A transaction is a sequence of steps, one for each lock it waits for or *)
(* statement that reads what others write.  Its own writes become visible  *)
(* in its last step, the commit, which also releases its locks; until then *)
(* it may be lost with its connection, which leaves no trace.              *)
(*                                                                         *)
(* An event is known by the request that carries it: event_id is chosen by *)
(* the caller, so two requests may carry the same source identity under    *)
(* different ids and with different content.  References are numbered in   *)
(* the order in which lock_correlation_keys sorts their keys.              *)
(***************************************************************************)
EXTENDS Naturals, FiniteSets

CONSTANTS
  Request,      \* calls of POST /v1/events
  Command,      \* calls of POST /v1/quarantine/{id}/resolve
  Assigner,     \* calls of TenantDeploymentService.assign
  Process,      \* process ids, used or not yet
  Reference,    \* external references
  SourceKey,    \* (source, source_event_id) of events
  CommandId,    \* ids of resolution commands
  Deployment,   \* logical deployments
  Content,      \* what each request carries
  Resolution,   \* what each command asks for
  Target,       \* the deployment each assigner asks for
  Existing,     \* processes that exist at the start
  NoOne         \* no process, request or command

Unassigned == "unassigned"
Txn == Request \cup Command \cup Assigner

Contents ==
  [key : SourceKey, references : SUBSET Reference,
   process : Process \cup {NoOne}, trigger : BOOLEAN, reserved : BOOLEAN,
   api : Deployment]

Resolutions ==
  [id : CommandId, event : Request, process : Process,
   bind : SUBSET Reference, api : Deployment]

ASSUME IngestionAssumption ==
  /\ Reference \subseteq Nat
  /\ Content \in [Request -> Contents]
  /\ Resolution \in [Command -> Resolutions]
  /\ Target \in [Assigner -> Deployment]
  /\ Existing \subseteq Process
  /\ Unassigned \notin Deployment
  /\ Request \cap Command = {}
  /\ Request \cap Assigner = {}
  /\ Command \cap Assigner = {}
  /\ NoOne \notin Process \cup Request \cup Command

Terminal == {"completed"}            \* completed, cancelled or failed
ProcessStatus == {"absent", "active"} \cup Terminal

Matched ==
  {"single_process_match", "process_created_from_trigger",
   "terminal_process_record_only", "operator_quarantine_resolution"}
Quarantined ==
  {"ambiguous_external_references", "no_process_match",
   "explicit_process_not_found"}

VARIABLES
  tenant,      \* status and deployment of the tenant
  status,      \* of each process
  deployment,  \* of each process, NoOne before it exists
  owner,       \* of each reference: ExternalCorrelation
  inbox,       \* correlation_reason of each event, "absent" without a row
  assigned,    \* process_instance_id of each event row
  delivery,    \* the outbox row of each event: none, pending or published
  destination, \* the process that row is for
  resolution,  \* the command stored under each id
  pc,          \* the next step of each transaction
  locks,       \* the locks each transaction holds
  choice,      \* the process it has chosen
  verdict      \* the correlation_reason it has chosen

tables == <<tenant, status, deployment, owner, inbox, assigned, delivery,
            destination, resolution>>
vars == <<tables, pc, locks, choice, verdict>>

DeploymentLock == <<"tenant-deployment">>
SourceLock(k) == <<"event", k>>
ReferenceLock(x) == <<"reference", x>>
CommandLock(i) == <<"quarantine-command", i>>
RowLock(r) == <<"inbox", r>>
ProcessLock(p) == <<"process", p>>

(* Does another transaction hold the lock? *)
Free(l, t) == \A u \in Txn \ {t} : l \notin locks[u]

Idle == {"idle", "answered", "refused", "internal_error"}

Init ==
  /\ \E d \in Deployment \cup {Unassigned} :
       /\ tenant = [status |-> "active", deployment |-> d]
       /\ deployment = [p \in Process |-> IF p \in Existing THEN d ELSE NoOne]
  /\ \E ended \in SUBSET Existing :
       status = [p \in Process |-> IF p \in ended THEN "completed"
                                  ELSE IF p \in Existing THEN "active"
                                  ELSE "absent"]
  /\ owner = [x \in Reference |-> NoOne]
  /\ inbox = [r \in Request |-> "absent"]
  /\ assigned = [r \in Request |-> NoOne]
  /\ delivery = [r \in Request |-> "none"]
  /\ destination = [r \in Request |-> NoOne]
  /\ resolution = [i \in CommandId |-> NoOne]
  /\ pc = [t \in Txn |-> "idle"]
  /\ locks = [t \in Txn |-> {}]
  /\ choice = [t \in Txn |-> NoOne]
  /\ verdict = [t \in Txn |-> "none"]

-----------------------------------------------------------------------------
(* Steps shared by the transactions *)

Goto(t, label) == pc' = [pc EXCEPT ![t] = label]
Take(t, l) == locks' = [locks EXCEPT ![t] = @ \cup {l}]

(* The transaction ends, by commit or by rollback: it forgets and releases. *)
End(t, label) ==
  /\ Goto(t, label)
  /\ locks' = [locks EXCEPT ![t] = {}]
  /\ choice' = [choice EXCEPT ![t] = NoOne]
  /\ verdict' = [verdict EXCEPT ![t] = "none"]

Refuse(t) == End(t, "refused") /\ UNCHANGED tables

(* Mutant: the lock of the deployment is not shared by ingress. *)
RequireIngressTenantAlone(t, api, next) ==
  /\ Free(DeploymentLock, t)
  /\ IF tenant.deployment = api /\ tenant.status = "active"
     THEN /\ Take(t, DeploymentLock) /\ Goto(t, next)
          /\ UNCHANGED <<tables, choice, verdict>>
     ELSE Refuse(t)

(* require_ingress_tenant, for a request or command served by api: waits   *)
(* for an assignment to end, not for other ingress.  The assignment is     *)
(* always compared: a server that is configured without a release skips    *)
(* that (ingestion.py:161), and is not modelled.                           *)
RequireIngressTenant(t, api, next) ==
  /\ \A a \in Assigner : DeploymentLock \notin locks[a]
  /\ IF tenant.deployment = api /\ tenant.status = "active"
     THEN /\ Take(t, DeploymentLock) /\ Goto(t, next)
          /\ UNCHANGED <<tables, choice, verdict>>
     ELSE Refuse(t)

(* lock_correlation_keys, one key after the other, in order. *)
NextReference(t, wanted) ==
  CHOOSE x \in {y \in wanted : ReferenceLock(y) \notin locks[t]} :
    \A y \in wanted : ReferenceLock(y) \notin locks[t] => x <= y

(* Mutant: the keys are taken in the order the event lists them. *)
LockCorrelationKeysUnsorted(t, wanted, next) ==
  IF \A x \in wanted : ReferenceLock(x) \in locks[t]
  THEN Goto(t, next) /\ UNCHANGED <<tables, locks, choice, verdict>>
  ELSE /\ \E x \in wanted :
            /\ ReferenceLock(x) \notin locks[t]
            /\ Free(ReferenceLock(x), t)
            /\ Take(t, ReferenceLock(x))
       /\ UNCHANGED <<tables, pc, choice, verdict>>

LockCorrelationKeys(t, wanted, next) ==
  IF \A x \in wanted : ReferenceLock(x) \in locks[t]
  THEN Goto(t, next) /\ UNCHANGED <<tables, locks, choice, verdict>>
  ELSE LET x == NextReference(t, wanted)
       IN /\ Free(ReferenceLock(x), t)
          /\ Take(t, ReferenceLock(x))
          /\ UNCHANGED <<tables, pc, choice, verdict>>

(* persist_references: another owner is an error, an unowned one is added. *)
MayBind(p, refs) == \A x \in refs : owner[x] \in {NoOne, p}

PersistReferences(p, refs) ==
  owner' = [x \in Reference |-> IF x \in refs THEN p ELSE owner[x]]

(* schedule_delivery: one outbox row for each event, for one destination. *)
ScheduleDelivery(r, p) ==
  /\ delivery' = [delivery EXCEPT ![r] = IF @ = "none" THEN "pending" ELSE @]
  /\ destination' = [destination EXCEPT ![r] = p]
DeliveryConflict(r, p) == delivery[r] # "none" /\ destination[r] # p

-----------------------------------------------------------------------------
(* EventIngestionService.ingest *)

IngestBegin(r) ==
  /\ pc[r] \in Idle
  /\ IF Content[r].reserved
     THEN Refuse(r)
     ELSE RequireIngressTenant(r, Content[r].api, "source")

(* The source identity is locked; a row with it answers the request. *)
SameSource(r) ==
  {s \in Request : inbox[s] # "absent" /\ Content[s].key = Content[r].key}

(* Mutant: the source identity is not locked. *)
IngestLockSourceNot(r) ==
  /\ pc[r] = "source"
  /\ IF SameSource(r) # {}
     THEN End(r, "answered") /\ UNCHANGED tables
     ELSE IF Content[r].trigger /\ Content[r].references = {}
     THEN Refuse(r)
     ELSE /\ Goto(r, "references")
          /\ UNCHANGED <<tables, locks, choice, verdict>>

IngestLockSource(r) ==
  /\ pc[r] = "source"
  /\ Free(SourceLock(Content[r].key), r)
  /\ IF SameSource(r) # {}
     THEN End(r, "answered") /\ UNCHANGED tables
     ELSE IF Content[r].trigger /\ Content[r].references = {}
     THEN Refuse(r)
     ELSE /\ Take(r, SourceLock(Content[r].key)) /\ Goto(r, "references")
          /\ UNCHANGED <<tables, choice, verdict>>

IngestLockReferences(r) ==
  /\ pc[r] = "references"
  /\ LockCorrelationKeys(r, Content[r].references, "resolve")

(* _resolve_process *)
Candidates(r) ==
  ({owner[x] : x \in Content[r].references} \cup {Content[r].process}) \ {NoOne}

ExplicitMissing(r) ==
  Content[r].process # NoOne /\ status[Content[r].process] = "absent"

Decide(r, p, reason, next) ==
  /\ choice' = [choice EXCEPT ![r] = p]
  /\ verdict' = [verdict EXCEPT ![r] = reason]
  /\ Goto(r, next)
  /\ UNCHANGED <<tables, locks>>

IngestResolve(r) ==
  /\ pc[r] = "resolve"
  /\ \/ /\ ExplicitMissing(r)
        /\ Decide(r, NoOne, "explicit_process_not_found", "insert")
     \/ /\ ~ExplicitMissing(r)
        /\ Cardinality(Candidates(r)) > 1
        /\ Decide(r, NoOne, "ambiguous_external_references", "insert")
     \/ /\ ~ExplicitMissing(r)
        /\ \E p \in Process :
             /\ Candidates(r) = {p}
             /\ Decide(r, p, "single_process_match", "process")
     \/ /\ ~ExplicitMissing(r) /\ Candidates(r) = {} /\ ~Content[r].trigger
        /\ Decide(r, NoOne, "no_process_match", "insert")
     \/ /\ ~ExplicitMissing(r) /\ Candidates(r) = {} /\ Content[r].trigger
        /\ \E p \in Process :                    \* _create_process
             /\ status[p] = "absent"
             /\ \A u \in Txn : choice[u] # p
             /\ Decide(r, p, "process_created_from_trigger", "insert")

(* The matched process is locked before its status is read. *)
RecordOnly(p, reason) ==
  IF status[p] \in Terminal THEN "terminal_process_record_only" ELSE reason

(* Mutant: the process is read without FOR UPDATE. *)
IngestLockProcessNot(r) ==
  /\ pc[r] = "process"
  /\ verdict' = [verdict EXCEPT ![r] = RecordOnly(choice[r], @)]
  /\ Goto(r, "insert")
  /\ UNCHANGED <<tables, locks, choice>>

IngestLockProcess(r) ==
  /\ pc[r] = "process"
  /\ Free(ProcessLock(choice[r]), r)
  /\ Take(r, ProcessLock(choice[r]))
  /\ verdict' = [verdict EXCEPT ![r] = RecordOnly(choice[r], @)]
  /\ Goto(r, "insert")
  /\ UNCHANGED <<tables, choice>>

(* The process it created, its references, the inbox row and the delivery, *)
(* then the commit.  A check that fails is an internal error.  If the      *)
(* source event has a row by now, that row is the answer and nothing is    *)
(* scheduled, but the rest of the transaction commits.                     *)
IngestFails(r) ==
  verdict[r] \in Matched /\ ( \/ ~MayBind(choice[r], Content[r].references)
                             \/ DeliveryConflict(r, choice[r]) )

IngestCommit(r) ==
  /\ IF verdict[r] = "process_created_from_trigger"
     THEN /\ status' = [status EXCEPT ![choice[r]] = "active"]
          /\ deployment' = [deployment EXCEPT ![choice[r]] = Content[r].api]
     ELSE UNCHANGED <<status, deployment>>
  /\ IF verdict[r] \in Matched
     THEN PersistReferences(choice[r], Content[r].references)
     ELSE UNCHANGED owner
  /\ IF SameSource(r) # {}
     THEN UNCHANGED <<inbox, assigned>>
     ELSE /\ inbox' = [inbox EXCEPT ![r] = verdict[r]]
          /\ assigned' = [assigned EXCEPT ![r] = choice[r]]
  /\ IF /\ SameSource(r) = {}
        /\ verdict[r] \in Matched \ {"terminal_process_record_only"}
     THEN ScheduleDelivery(r, choice[r])
     ELSE UNCHANGED <<delivery, destination>>
  /\ UNCHANGED <<tenant, resolution>>
  /\ End(r, "answered")

(* Event ids are distinct here: one that another event has is refused by   *)
(* the primary key (ingestion.py:132), which leaves nothing behind.        *)
IngestInsert(r) ==
  /\ pc[r] = "insert"
  /\ IF IngestFails(r)
     THEN End(r, "internal_error") /\ UNCHANGED tables
     ELSE IngestCommit(r)

-----------------------------------------------------------------------------
(* QuarantineResolutionService.resolve *)

ResolveBegin(c) ==
  /\ pc[c] \in Idle
  /\ RequireIngressTenant(c, Resolution[c].api, "command")

(* The command id is locked.  A stored command with it answers a repeat    *)
(* and refuses another content.                                            *)
SameRequest(x, y) ==
  x.event = y.event /\ x.process = y.process /\ x.bind = y.bind

ResolveLockCommand(c) ==
  LET do == Resolution[c]
      stored == resolution[do.id]
  IN
  /\ pc[c] = "command"
  /\ Free(CommandLock(do.id), c)
  /\ IF stored # NoOne
     THEN /\ End(c, IF SameRequest(Resolution[stored], do)
                    THEN "answered" ELSE "refused")
          /\ UNCHANGED tables
     ELSE IF inbox[do.event] = "absent"
             \/ ~(do.bind \subseteq Content[do.event].references)
     THEN Refuse(c)
     ELSE /\ Take(c, CommandLock(do.id)) /\ Goto(c, "source")
          /\ UNCHANGED <<tables, choice, verdict>>

ResolveLockSource(c) ==
  LET k == Content[Resolution[c].event].key
  IN
  /\ pc[c] = "source"
  /\ Free(SourceLock(k), c)
  /\ Take(c, SourceLock(k))
  /\ Goto(c, "references")
  /\ UNCHANGED <<tables, choice, verdict>>

ResolveLockReferences(c) ==
  /\ pc[c] = "references"
  /\ LockCorrelationKeys(c, Content[Resolution[c].event].references, "row")

(* The inbox row is locked and read again: it must still be quarantined. *)
ResolveLockRow(c) ==
  LET r == Resolution[c].event
  IN
  /\ pc[c] = "row"
  /\ Free(RowLock(r), c)
  /\ IF inbox[r] \in Quarantined /\ assigned[r] = NoOne
     THEN /\ Take(c, RowLock(r)) /\ Goto(c, "process")
          /\ UNCHANGED <<tables, choice, verdict>>
     ELSE Refuse(c)

ResolveLockProcess(c) ==
  LET p == Resolution[c].process
  IN
  /\ pc[c] = "process"
  /\ Free(ProcessLock(p), c)
  /\ IF status[p] # "absent" /\ deployment[p] = tenant.deployment
     THEN /\ Take(c, ProcessLock(p)) /\ Goto(c, "insert")
          /\ choice' = [choice EXCEPT ![c] = p]
          /\ verdict' = [verdict EXCEPT
                           ![c] = RecordOnly(p, "operator_quarantine_resolution")]
          /\ UNCHANGED tables
     ELSE Refuse(c)

(* The references it selected, the audit row, the inbox row and the        *)
(* delivery, then the commit.  A selected reference of another process is  *)
(* a conflict; so is what the constraints of the audit table refuse, a     *)
(* second resolution of an event or one that was not quarantined.          *)
ResolveFails(c) ==
  LET do == Resolution[c]
  IN \/ ~MayBind(choice[c], do.bind)
     \/ resolution[do.id] # NoOne
     \/ inbox[do.event] \notin Quarantined
     \/ \E i \in CommandId : /\ resolution[i] # NoOne
                             /\ Resolution[resolution[i]].event = do.event

ResolveCommit(c) ==
  LET do == Resolution[c]
  IN
  /\ pc[c] = "insert"
  /\ ~ResolveFails(c)
  /\ PersistReferences(choice[c], do.bind)
  /\ resolution' = [resolution EXCEPT ![do.id] = c]
  /\ inbox' = [inbox EXCEPT ![do.event] = verdict[c]]
  /\ assigned' = [assigned EXCEPT ![do.event] = choice[c]]
  /\ IF verdict[c] # "terminal_process_record_only"
     THEN ScheduleDelivery(do.event, choice[c])
     ELSE UNCHANGED <<delivery, destination>>
  /\ UNCHANGED <<tenant, status, deployment>>
  /\ End(c, "answered")

ResolveConflict(c) ==
  /\ pc[c] = "insert"
  /\ ResolveFails(c)
  /\ Refuse(c)

-----------------------------------------------------------------------------
(* TenantDeploymentService.assign: waits for all ingress to end. *)

(* Mutant: the move does not wait for ingress. *)
AssignBeginUnlocked(a) ==
  /\ pc[a] \in Idle
  /\ tenant.deployment # Target[a]
  /\ Goto(a, "assign")
  /\ UNCHANGED <<tables, locks, choice, verdict>>

AssignBegin(a) ==
  /\ pc[a] \in Idle
  /\ tenant.deployment # Target[a]
  /\ Free(DeploymentLock, a)
  /\ Take(a, DeploymentLock)
  /\ Goto(a, "assign")
  /\ UNCHANGED <<tables, choice, verdict>>

(* What forbids a move: live processes, or deliveries not published yet. *)
Outstanding ==
  \/ \E p \in Process : status[p] \notin Terminal \cup {"absent"}
  \/ \E r \in Request : /\ delivery[r] = "pending"
                        /\ deployment[destination[r]] = tenant.deployment

AssignCommit(a) ==
  /\ pc[a] = "assign"
  /\ IF tenant.deployment # Unassigned /\ Outstanding
     THEN Refuse(a)
     ELSE /\ tenant' = [status |-> tenant.status, deployment |-> Target[a]]
          /\ UNCHANGED <<status, deployment, owner, inbox, assigned, delivery,
                         destination, resolution>>
          /\ End(a, "answered")

-----------------------------------------------------------------------------
(* The surroundings *)

(* TenantSafetyService.set_status *)
SwitchTenant ==
  /\ tenant' = [status |-> IF tenant.status = "active" THEN "suspended"
                           ELSE "active",
                deployment |-> tenant.deployment]
  /\ UNCHANGED <<status, deployment, owner, inbox, assigned, delivery,
                 destination, resolution, pc, locks, choice, verdict>>

(* A decision, a failure or an operator ends the process under its lock. *)
CompleteProcess(p) ==
  /\ status[p] = "active"
  /\ \A t \in Txn : ProcessLock(p) \notin locks[t]
  /\ status' = [status EXCEPT ![p] = "completed"]
  /\ UNCHANGED <<tenant, deployment, owner, inbox, assigned, delivery,
                 destination, resolution, pc, locks, choice, verdict>>

(* The dispatcher publishes the delivery. *)
Publish(r) ==
  /\ delivery[r] = "pending"
  /\ delivery' = [delivery EXCEPT ![r] = "published"]
  /\ UNCHANGED <<tenant, status, deployment, owner, inbox, assigned,
                 destination, resolution, pc, locks, choice, verdict>>

(* The connection is lost: the transaction is rolled back. *)
Disconnect(t) ==
  /\ pc[t] \notin Idle
  /\ End(t, "idle")
  /\ UNCHANGED tables

Ingest(r) ==
  \/ IngestBegin(r) \/ IngestLockSource(r) \/ IngestLockReferences(r)
  \/ IngestResolve(r) \/ IngestLockProcess(r) \/ IngestInsert(r)

Resolve(c) ==
  \/ ResolveBegin(c) \/ ResolveLockCommand(c) \/ ResolveLockSource(c)
  \/ ResolveLockReferences(c) \/ ResolveLockRow(c) \/ ResolveLockProcess(c)
  \/ ResolveCommit(c) \/ ResolveConflict(c)

Assign(a) == AssignBegin(a) \/ AssignCommit(a)

Next ==
  \/ \E r \in Request : Ingest(r) \/ Publish(r)
  \/ \E c \in Command : Resolve(c)
  \/ \E a \in Assigner : Assign(a)
  \/ \E t \in Txn : Disconnect(t)
  \/ \E p \in Process : CompleteProcess(p)
  \/ SwitchTenant

Spec == Init /\ [][Next]_vars

-----------------------------------------------------------------------------
(* Properties *)

(* Type invariant. *)
TypeOK ==
  /\ tenant \in [status : {"active", "suspended"},
                 deployment : Deployment \cup {Unassigned}]
  /\ status \in [Process -> ProcessStatus]
  /\ deployment \in [Process -> Deployment \cup {Unassigned, NoOne}]
  /\ owner \in [Reference -> Process \cup {NoOne}]
  /\ inbox \in [Request -> Matched \cup Quarantined \cup {"absent"}]
  /\ assigned \in [Request -> Process \cup {NoOne}]
  /\ delivery \in [Request -> {"none", "pending", "published"}]
  /\ destination \in [Request -> Process \cup {NoOne}]
  /\ resolution \in [CommandId -> Command \cup {NoOne}]
  /\ pc \in [Txn -> Idle \cup {"command", "source", "references", "resolve",
                               "row", "process", "insert", "assign"}]
  /\ choice \in [Txn -> Process \cup {NoOne}]
  /\ verdict \in [Txn -> Matched \cup Quarantined \cup {"none"}]

(* The locks suffice: no request ever runs into "external reference        *)
(* changed ownership" or a delivery for another process (ingestion.py:201, *)
(* :339), whatever the interleaving of ingress, resolutions and ends.      *)
NoInternalError == \A r \in Request : pc[r] # "internal_error"

(* A process exists for an event: whichever of several requests with one   *)
(* source identity wins, the others leave no process without its trigger   *)
(* behind (ingestion.py:74, :129).                                         *)
NoOrphanProcess ==
  \A p \in Process \ Existing :
    status[p] # "absent" =>
      \E r \in Request : /\ inbox[r] = "process_created_from_trigger"
                         /\ assigned[r] = p

(* An event that was correlated automatically agrees with all of its       *)
(* references: each belongs to the process the event was given to, and the *)
(* explicit process, if any, is that process.                              *)
MatchesEveryReference ==
  \A r \in Request :
    inbox[r] \in Matched /\ (\A i \in CommandId :
                               resolution[i] # NoOne =>
                                 Resolution[resolution[i]].event # r) =>
      /\ \A x \in Content[r].references : owner[x] = assigned[r]
      /\ Content[r].process \in {NoOne, assigned[r]}

(* Triggers that share a reference start one process, not two. *)
OneProcessPerReference ==
  \A r, s \in Request :
    /\ inbox[r] = "process_created_from_trigger"
    /\ inbox[s] = "process_created_from_trigger"
    /\ Content[r].references \cap Content[s].references # {}
    => r = s

(* A row and its delivery agree: exactly the matched events that were not  *)
(* merely recorded have an outbox row, and it is for their process.        *)
DeliveredToItsProcess ==
  \A r \in Request :
    /\ delivery[r] # "none"
         <=> inbox[r] \in Matched \ {"terminal_process_record_only"}
    /\ delivery[r] # "none" => destination[r] = assigned[r]
    /\ inbox[r] \in Matched => status[assigned[r]] # "absent"

(* The audit is the truth about a resolved event: its row names the        *)
(* process of the one command that resolved it, and every reference that   *)
(* command selected belongs to that process.                               *)
ResolvedAsRecorded ==
  \A i \in CommandId : resolution[i] # NoOne =>
    LET do == Resolution[resolution[i]]
    IN /\ inbox[do.event] \in Matched /\ assigned[do.event] = do.process
       /\ \A x \in do.bind : owner[x] = do.process
       /\ \A j \in CommandId \ {i} :
            resolution[j] # NoOne => Resolution[resolution[j]].event # do.event

(* Once a tenant has a deployment, its live processes and its deliveries   *)
(* in flight are those of that deployment (or of the time before it had    *)
(* one): a move leaves nothing behind for workers that no longer serve it. *)
NothingLeftBehind ==
  \A p \in Process :
    \/ status[p] = "active"
    \/ \E r \in Request : delivery[r] = "pending" /\ destination[r] = p
    => deployment[p] \in {tenant.deployment, Unassigned}

(* A delivery is scheduled only for a process that is live at that moment, *)
(* and an event is recorded without one only when its process has ended.   *)
ScheduledWhileLive ==
  [][\A r \in Request :
       /\ delivery[r] = "none" /\ delivery'[r] # "none"
            => status'[destination'[r]] = "active"
       /\ inbox[r] # inbox'[r] /\ inbox'[r] = "terminal_process_record_only"
            => status[assigned'[r]] \in Terminal]_vars

(* A reference keeps its owner, and an event its process, for good. *)
OwnershipNeverChanges ==
  [][/\ \A x \in Reference : owner[x] # NoOne => owner'[x] = owner[x]
     /\ \A r \in Request : assigned[r] # NoOne => assigned'[r] = assigned[r]]_vars

(* What a transaction waits for.  Its next step needs at most one lock,    *)
(* and waits for the transactions that hold it; the lock of the deployment *)
(* excludes only a move.                                                   *)
EventOf(t) == IF t \in Command THEN Resolution[t].event ELSE t

Wants(t, l) ==
  \/ pc[t] \in Idle /\ l = DeploymentLock
  \/ pc[t] = "command" /\ l = CommandLock(Resolution[t].id)
  \/ pc[t] = "source" /\ l = SourceLock(Content[EventOf(t)].key)
  \/ LET refs == Content[EventOf(t)].references
     IN /\ pc[t] = "references"
        /\ \E x \in refs : ReferenceLock(x) \notin locks[t]
        /\ l = ReferenceLock(NextReference(t, refs))
  \/ pc[t] = "row" /\ l = RowLock(EventOf(t))
  \/ /\ pc[t] = "process"
     /\ l = ProcessLock(IF t \in Command THEN Resolution[t].process
                        ELSE choice[t])

WaitsFor(t, u) ==
  /\ t # u
  /\ \E l \in locks[u] :
       Wants(t, l) /\ (l = DeploymentLock => t \in Assigner \/ u \in Assigner)

(* No set of transactions waits for one another, however many are in it:   *)
(* of those that hold locks (a wait ends with them) one waits for nobody   *)
(* else in the set.  The locks are taken in one order: tenant deployment,  *)
(* command id, source identity, sorted references, event row, process row  *)
(* (ingestion.py:72-93, quarantine.py:53-112).                             *)
NoCircularWait ==
  \A D \in SUBSET {t \in Txn : locks[t] # {}} :
    D # {} /\ IsFiniteSet(D) =>
      \E t \in D : \A u \in D : ~WaitsFor(t, u)

(* The locks of ingress, resolution and assignment are enough, and not too *)
(* many.                                                                   *)
LocksSuffice == NoInternalError /\ NoCircularWait

(* Nothing but a lock that another transaction holds keeps one from its    *)
(* next step: no wait is missing from WaitsFor, none outlives the locks,   *)
(* and ingress never waits for other ingress of the tenant as such.        *)
OnlyLocksBlock ==
  /\ \A r \in Request :
       (\A u \in Txn : ~WaitsFor(r, u)) => ENABLED Ingest(r)
  /\ \A c \in Command :
       (\A u \in Txn : ~WaitsFor(c, u)) => ENABLED Resolve(c)
  /\ \A a \in Assigner :
       /\ \A u \in Txn : ~WaitsFor(a, u)
       /\ pc[a] \in Idle => tenant.deployment # Target[a]
       => ENABLED Assign(a)

(* Every event is where it belongs, once: rows, owners, processes, audit   *)
(* and deliveries tell one story.                                          *)
CorrelationIsSound ==
  /\ TypeOK
  /\ OneProcessPerReference /\ NoOrphanProcess
  /\ MatchesEveryReference /\ ResolvedAsRecorded
  /\ DeliveredToItsProcess

(* And it stays there: what is scheduled is scheduled for a live process,  *)
(* and nothing changes hands later.                                        *)
CorrelationIsFinal == ScheduledWhileLive /\ OwnershipNeverChanges
=============================================================================
