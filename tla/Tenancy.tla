------------------------------ MODULE Tenancy ------------------------------
(***************************************************************************)
(* The control plane of one tenant: provisioning, suspension and           *)
(* resumption with their safety events, credentials, and the requests that *)
(* operators make with them.                                               *)
(*                                                                         *)
(* An administrator's transaction takes a row lock, reads, and commits in  *)
(* a step of its own.  A request is three transactions: it is              *)
(* authenticated, the deployment is checked, and only then does its        *)
(* handler commit a command; anything may change in between.               *)
(*                                                                         *)
(* The safety events are a set: their table stores no order of commits,    *)
(* for created_at is the start of the transaction, which comes before the  *)
(* wait for the tenant's row lock (db/models/tenancy.py:145).  The order   *)
(* in which statuses were committed is a history variable, and only what   *)
(* the model says about requests uses it.                                  *)
(***************************************************************************)
EXTENDS Naturals, Sequences, FiniteSets

CONSTANTS
  Admin,       \* administrators (security/admin_cli.py)
  Credential,  \* credentials that may be issued
  Request,     \* requests that may arrive
  None,        \* no administrator, no credential
  EventId,     \* ids of safety events, and so a bound on them
  MaxTime      \* bound on the clock

ASSUME TenancyAssumption ==
  /\ MaxTime \in Nat
  /\ None \notin Admin \cup Credential

Status == {"active", "suspended"}

VARIABLES
  tenant,      \* status of the tenant, "none" until it is provisioned
  deployment,  \* deployment_id: this deployment or another
  events,      \* the rows of tenant_safety_events
  statuses,    \* history: the statuses these committed, in order
  tenantLock,  \* who holds the row lock on the tenant
  credential,  \* the credentials
  credLock,    \* who holds the row lock on each
  admin,       \* the transaction each administrator has open
  request,     \* the requests
  commands,    \* the commands that were committed
  clock

audit == <<events, statuses>>
tenancy == <<tenant, deployment, events, statuses, tenantLock, credential,
             credLock, admin, request, commands, clock>>

NoTransaction == [op |-> "none", saw |-> "none", want |-> "none", cred |-> None]
Unissued ==
  [status |-> "none", expires |-> 0, revokedAt |-> 0, revokedBy |-> None]
NotArrived == [phase |-> "none", cred |-> None, valid |-> FALSE, since |-> 0]

TenancyInit ==
  /\ tenant = "none" /\ deployment = "unassigned"
  /\ events = {} /\ statuses = <<>> /\ tenantLock = None
  /\ credential = [c \in Credential |-> Unissued]
  /\ credLock = [c \in Credential |-> None]
  /\ admin = [a \in Admin |-> NoTransaction]
  /\ request = [r \in Request |-> NotArrived]
  /\ commands = {} /\ clock = 0

Open(a, op, saw, want, c) ==
  /\ admin[a] = NoTransaction
  /\ admin' = [admin EXCEPT ![a] =
                 [op |-> op, saw |-> saw, want |-> want, cred |-> c]]

Close(a) == admin' = [admin EXCEPT ![a] = NoTransaction]

-----------------------------------------------------------------------------
(* Provisioning and assignment. *)

(* ensure_local_development_tenant looks for the tenant, *)
EnsureFind(a) ==
  /\ Open(a, "ensure", tenant, "active", None)
  /\ UNCHANGED <<tenant, deployment, audit, tenantLock, credential, credLock,
                 request, commands, clock>>

(* and creates it, unless it is there: then it is left as it is, also when *)
(* another administrator was faster and the insert is refused.             *)
EnsureCommit(a) ==
  /\ admin[a].op = "ensure"
  /\ tenant' = IF admin[a].saw = "none" /\ tenant = "none" THEN "active" ELSE tenant
  /\ Close(a)
  /\ UNCHANGED <<deployment, audit, tenantLock, credential, credLock, request,
                 commands, clock>>

(* assign, of a tenant without work; Ingestion models what it waits for. *)
Assign(d) ==
  /\ tenant # "none" /\ tenantLock = None
  /\ d # deployment
  /\ deployment' = d
  /\ UNCHANGED <<tenant, audit, tenantLock, credential, credLock, admin,
                 request, commands, clock>>

-----------------------------------------------------------------------------
(* TenantSafetyService.set_status *)

(* Mutant: SELECT without FOR UPDATE. *)
StatusLockNot(a, s) ==
  /\ tenant # "none"
  /\ Open(a, "set_status", tenant, s, None)
  /\ UNCHANGED <<tenant, deployment, audit, tenantLock, credential, credLock,
                 request, commands, clock>>

StatusLock(a, s) ==
  /\ tenant # "none" /\ tenantLock = None
  /\ Open(a, "set_status", tenant, s, None)
  /\ tenantLock' = a
  /\ UNCHANGED <<tenant, deployment, audit, credential, credLock, request,
                 commands, clock>>

Unlock(a) == tenantLock' = IF tenantLock = a THEN None ELSE tenantLock

(* A transition to the status the tenant has is refused. *)
StatusRefused(a) ==
  /\ admin[a].op = "set_status" /\ admin[a].saw = admin[a].want
  /\ Unlock(a) /\ Close(a)
  /\ UNCHANGED <<tenant, deployment, audit, credential, credLock, request,
                 commands, clock>>

StatusCommit(a) ==
  /\ admin[a].op = "set_status" /\ admin[a].saw # admin[a].want
  /\ \E i \in EventId :
       /\ \A e \in events : e.id # i
       /\ events' = events \cup {[id |-> i, actor |-> a,
                                 previous |-> admin[a].saw,
                                 new |-> admin[a].want]}
  /\ statuses' = Append(statuses, admin[a].want)
  /\ tenant' = admin[a].want
  /\ Unlock(a) /\ Close(a)
  /\ UNCHANGED <<deployment, credential, credLock, request, commands, clock>>

-----------------------------------------------------------------------------
(* TenantCredentialService *)

(* issue: an expiry is in the future. *)
Issue(c, e) ==
  /\ tenant # "none"
  /\ credential[c].status = "none"
  /\ e > clock
  /\ credential' = [credential EXCEPT ![c] =
                      [status |-> "active", expires |-> e, revokedAt |-> 0,
                       revokedBy |-> None]]
  /\ UNCHANGED <<tenant, deployment, audit, tenantLock, credLock, admin,
                 request, commands, clock>>

RevokeLock(a, c) ==
  /\ credential[c].status # "none" /\ credLock[c] = None
  /\ Open(a, "revoke", credential[c].status, "revoked", c)
  /\ credLock' = [credLock EXCEPT ![c] = a]
  /\ UNCHANGED <<tenant, deployment, audit, tenantLock, credential, request,
                 commands, clock>>

(* A credential that was read as revoked is left alone, any other is       *)
(* overwritten.                                                            *)
Revoked(a, c) ==
  IF admin[a].saw = "revoked" THEN c
  ELSE [status |-> "revoked", expires |-> c.expires, revokedAt |-> clock,
        revokedBy |-> a]

RevokeCommit(a) ==
  /\ admin[a].op = "revoke"
  /\ LET c == admin[a].cred
     IN /\ credential' = [credential EXCEPT ![c] = Revoked(a, @)]
        /\ credLock' = [credLock EXCEPT ![c] =
                          IF @ = a THEN None ELSE @]
  /\ Close(a)
  /\ UNCHANGED <<tenant, deployment, audit, tenantLock, request, commands,
                 clock>>

(* The connection of an administrator is lost. *)
Disconnect(a) ==
  /\ admin[a] # NoTransaction
  /\ Unlock(a) /\ Close(a)
  /\ credLock' = [c \in Credential |-> IF credLock[c] = a THEN None ELSE credLock[c]]
  /\ UNCHANGED <<tenant, deployment, audit, credential, request, commands, clock>>

-----------------------------------------------------------------------------
(* A request. *)

Valid(c) == credential[c].status = "active" /\ clock < credential[c].expires

(* It arrives with the token of an issued credential. *)
Arrive(r, c) ==
  /\ request[r].phase = "none"
  /\ credential[c].status # "none"
  /\ request' = [request EXCEPT ![r] =
                   [phase |-> "received", cred |-> c, valid |-> Valid(c),
                    since |-> Len(statuses)]]
  /\ UNCHANGED <<tenant, deployment, audit, tenantLock, credential, credLock,
                 admin, commands, clock>>

(* _authenticate_bearer *)
Authenticates(c) == Valid(c) /\ tenant = "active"

Proceed(r, from, ok, to) ==
  /\ request[r].phase = from
  /\ request' = [request EXCEPT ![r] =
                   [phase |-> IF ok THEN to ELSE "refused", cred |-> @.cred,
                    valid |-> @.valid, since |-> @.since]]
  /\ UNCHANGED <<tenant, deployment, audit, tenantLock, credential, credLock,
                 admin, clock>>

Authenticate(r) ==
  /\ Proceed(r, "received", Authenticates(request[r].cred), "authenticated")
  /\ UNCHANGED commands

(* _require_deployment_assignment *)
RequireAssignment(r) ==
  /\ Proceed(r, "authenticated", deployment = "here", "assigned")
  /\ UNCHANGED commands

(* The handler of a review command, a control, a breaker or a requeue      *)
(* refuses it (a scope, a role, a conflict) or commits it.                 *)
Handle(r) ==
  \E ok \in BOOLEAN :
    /\ Proceed(r, "assigned", ok, "done")
    /\ commands' = IF ok
                   THEN commands \cup {[by |-> request[r], until |-> Len(statuses)]}
                   ELSE commands

TenancyTick ==
  /\ clock < MaxTime
  /\ clock' = clock + 1
  /\ UNCHANGED <<tenant, deployment, audit, tenantLock, credential, credLock,
                 admin, request, commands>>

TenancyNext ==
  \/ \E a \in Admin :
       \/ EnsureFind(a) \/ EnsureCommit(a)
       \/ \E s \in Status : StatusLock(a, s)
       \/ StatusRefused(a) \/ StatusCommit(a)
       \/ \E c \in Credential : RevokeLock(a, c)
       \/ RevokeCommit(a) \/ Disconnect(a)
  \/ \E d \in {"here", "elsewhere"} : Assign(d)
  \/ \E c \in Credential, e \in 1..(MaxTime + 1) : Issue(c, e)
  \/ \E r \in Request :
       \/ \E c \in Credential : Arrive(r, c)
       \/ Authenticate(r) \/ RequireAssignment(r) \/ Handle(r)
  \/ TenancyTick

TenancySpec == TenancyInit /\ [][TenancyNext]_tenancy

-----------------------------------------------------------------------------
(* Properties. *)

(* Type invariant, with revocation_state_consistent of the table. *)
TenancyTypeOK ==
  /\ tenant \in Status \cup {"none"}
  /\ events \subseteq [id : EventId, actor : Admin, previous : Status,
                       new : Status]
  /\ tenantLock \in Admin \cup {None}
  /\ credLock \in [Credential -> Admin \cup {None}]
  /\ \A c \in Credential :
       /\ credential[c].status \in {"none", "active", "revoked"}
       /\ credential[c].revokedBy \in Admin \cup {None}
       /\ credential[c].status = "revoked" <=> credential[c].revokedBy # None
  /\ \A a \in Admin : admin[a].op \in {"none", "ensure", "set_status", "revoke"}
  /\ \A r \in Request : request[r].cred \in Credential \cup {None}

(* Suspensions and resumptions that were recorded. *)
Recorded(s) == Cardinality({e \in events : e.new = s})

(* The safety events add up to the status of the tenant: each records a    *)
(* transition, as many are resumptions as are suspensions, and one more is *)
(* a suspension exactly while the tenant is suspended (tenancy.py:97-115,  *)
(* "Repeating the current status is rejected so operators cannot mistake a *)
(* no-op for a new transition"), however administrators race.              *)
AuditExplainsStatus ==
  /\ \A e \in events : e.new # e.previous
  /\ Recorded("suspended") =
       Recorded("active") + IF tenant = "suspended" THEN 1 ELSE 0

(* The status after the first n transitions. *)
StatusAfter(n) == IF n = 0 THEN "active" ELSE statuses[n]

(* No command of a request that arrived after its credential was revoked   *)
(* or had expired, nor of one that only saw the tenant suspended           *)
(* (operator_auth.py:177-185); commands may only come from requests that   *)
(* had been authenticated before.                                          *)
CommandsWereAuthorised ==
  \A k \in commands :
    /\ k.by.valid
    /\ \E n \in k.by.since..k.until : StatusAfter(n) = "active"

(* A revocation is final: who revoked a credential, and when, is never     *)
(* overwritten by a later or concurrent revocation                         *)
(* (credential_service.py:88-98).                                          *)
RevocationIsFinal ==
  [][\A c \in Credential :
       credential[c].status = "revoked" => credential'[c] = credential[c]]_tenancy

(* Who may act, and who said so, can be told at any time: the audit        *)
(* explains the status, commands were authorised, and no revocation is     *)
(* lost or rewritten.                                                      *)
AccessIsAccounted ==
  /\ [](TenancyTypeOK /\ AuditExplainsStatus /\ CommandsWereAuthorised)
  /\ RevocationIsFinal
=============================================================================
