--------------------------- MODULE OperatorsProofs ---------------------------
(***************************************************************************)
(* Proofs about what operators rely on, for any number of them: that       *)
(* access to a tenant is accounted for (module Tenancy), that its breakers *)
(* say what was last said and are obeyed (module Breakers), and that the   *)
(* timeline of a process is its newest part, causes first (Timeline).      *)
(***************************************************************************)
EXTENDS Tenancy, Breakers, Timeline, FiniteSetTheorems, TLAPS

-----------------------------------------------------------------------------
(* Tenancy. *)

(* What the variables hold. *)
CredentialRow ==
  [status : {"none", "active", "revoked"}, expires : Nat, revokedAt : Nat,
   revokedBy : Admin \cup {None}]
AdminRow ==
  [op : {"none", "ensure", "set_status", "revoke"},
   saw : {"none", "active", "suspended", "revoked"},
   want : {"none", "active", "suspended", "revoked"},
   cred : Credential \cup {None}]
RequestRow ==
  [phase : {"none", "received", "authenticated", "assigned", "done", "refused"},
   cred : Credential \cup {None}, valid : BOOLEAN, since : Nat]
EventRow == [id : EventId, actor : Admin, previous : Status, new : Status]

Typed ==
  /\ tenant \in Status \cup {"none"}
  /\ events \subseteq EventRow /\ statuses \in Seq(Status)
  /\ tenantLock \in Admin \cup {None}
  /\ credential \in [Credential -> CredentialRow]
  /\ credLock \in [Credential -> Admin \cup {None}]
  /\ admin \in [Admin -> AdminRow]
  /\ request \in [Request -> RequestRow]
  /\ clock \in Nat

(* Who changes the status of the tenant or of a credential holds the row   *)
(* lock, so that what was read is still so.                                *)
Held ==
  \A a \in Admin :
    /\ admin[a].op = "set_status" =>
         /\ tenantLock = a
         /\ tenant # "none" /\ admin[a].saw = tenant
         /\ admin[a].want \in Status
    /\ admin[a].op = "revoke" =>
         /\ admin[a].cred \in Credential
         /\ credLock[admin[a].cred] = a
         /\ credential[admin[a].cred].status # "none"
         /\ admin[a].saw = credential[admin[a].cred].status

(* A credential names who revoked it exactly when it is revoked. *)
Signed ==
  \A c \in Credential :
    credential[c].status = "revoked" <=> credential[c].revokedBy # None

(* A tenant that is not provisioned has no safety events. *)
Fresh == tenant = "none" => events = {} /\ statuses = <<>>

(* The statuses that were committed end with the one the tenant has. *)
Current == tenant # "none" => tenant = StatusAfter(Len(statuses))

(* The tenant was active at a moment between s and e. *)
WasActive(s, e) == \E n \in s..e : StatusAfter(n) = "active"

(* A request that is still to be authenticated can be so only if its       *)
(* credential was valid when it arrived; one that has been was, and met an *)
(* active tenant.                                                          *)
AdmittedRequest(r) ==
  /\ request[r].phase # "none" =>
       /\ request[r].cred \in Credential
       /\ credential[request[r].cred].status # "none"
       /\ request[r].since <= Len(statuses)
  /\ request[r].phase = "received" /\ Valid(request[r].cred)
       => request[r].valid
  /\ request[r].phase \in {"authenticated", "assigned"} =>
       request[r].valid /\ WasActive(request[r].since, Len(statuses))

Admitted == \A r \in Request : AdmittedRequest(r)

(* Commands keep what their requests had. *)
Authorised ==
  \A k \in commands :
    /\ k.by.valid
    /\ k.by.since \in Nat /\ k.until \in Nat /\ k.until <= Len(statuses)
    /\ WasActive(k.by.since, k.until)

IInv ==
  /\ Typed /\ Held /\ Signed /\ Fresh /\ Current
  /\ IsFiniteSet(events) /\ AuditExplainsStatus
  /\ Admitted /\ Authorised

-----------------------------------------------------------------------------
(* The rows keep their types. *)
LEMMA TypedStep ==
  ASSUME Typed, Held, [TenancyNext]_tenancy
  PROVE  Typed'
<1> USE TenancyAssumption DEF audit
<1>1. ASSUME NEW a \in Admin, EnsureFind(a)
      PROVE  Typed'
  BY <1>1
  DEF Typed, Held, AdminRow, CredentialRow, RequestRow, EventRow, Status,
      EnsureFind, Open
<1>2. ASSUME NEW a \in Admin, EnsureCommit(a)
      PROVE  Typed'
  BY <1>2
  DEF Typed, Held, AdminRow, CredentialRow, RequestRow, EventRow, Status,
      EnsureCommit, Close, NoTransaction
<1>3. ASSUME NEW a \in Admin, NEW s \in Status, StatusLock(a, s)
      PROVE  Typed'
  BY <1>3
  DEF Typed, Held, AdminRow, CredentialRow, RequestRow, EventRow, Status,
      StatusLock, Open
<1>4. ASSUME NEW a \in Admin, StatusRefused(a)
      PROVE  Typed'
  BY <1>4
  DEF Typed, Held, AdminRow, CredentialRow, RequestRow, EventRow, Status,
      StatusRefused, Unlock, Close, NoTransaction
<1>5. ASSUME NEW a \in Admin, StatusCommit(a)
      PROVE  Typed'
  BY <1>5
  DEF Typed, Held, AdminRow, CredentialRow, RequestRow, EventRow, Status,
      StatusCommit, Unlock, Close, NoTransaction
<1>6. ASSUME NEW a \in Admin, NEW c \in Credential, RevokeLock(a, c)
      PROVE  Typed'
  BY <1>6
  DEF Typed, Held, AdminRow, CredentialRow, RequestRow, EventRow, Status,
      RevokeLock, Open
<1>7. ASSUME NEW a \in Admin, RevokeCommit(a)
      PROVE  Typed'
  BY <1>7
  DEF Typed, Held, AdminRow, CredentialRow, RequestRow, EventRow, Status,
      RevokeCommit, Close, NoTransaction, Revoked
<1>8. ASSUME NEW a \in Admin, Disconnect(a)
      PROVE  Typed'
  BY <1>8
  DEF Typed, Held, AdminRow, CredentialRow, RequestRow, EventRow, Status,
      Disconnect, Unlock, Close, NoTransaction
<1>9. ASSUME NEW d \in {"here", "elsewhere"}, Assign(d)
      PROVE  Typed'
  BY <1>9
  DEF Typed, Held, AdminRow, CredentialRow, RequestRow, EventRow, Status, Assign
<1>10. ASSUME NEW c \in Credential, NEW e \in 1..(MaxTime + 1), Issue(c, e)
      PROVE  Typed'
  BY <1>10
  DEF Typed, Held, AdminRow, CredentialRow, RequestRow, EventRow, Status, Issue
<1>11. ASSUME NEW r \in Request, NEW c \in Credential, Arrive(r, c)
      PROVE  Typed'
  BY <1>11
  DEF Typed, Held, AdminRow, CredentialRow, RequestRow, EventRow, Status,
      Arrive, Valid
<1>12. ASSUME NEW r \in Request, Authenticate(r)
      PROVE  Typed'
  BY <1>12
  DEF Typed, Held, AdminRow, CredentialRow, RequestRow, EventRow, Status,
      Authenticate, Proceed
<1>13. ASSUME NEW r \in Request, RequireAssignment(r)
      PROVE  Typed'
  BY <1>13
  DEF Typed, Held, AdminRow, CredentialRow, RequestRow, EventRow, Status,
      RequireAssignment, Proceed
<1>14. ASSUME NEW r \in Request, Handle(r)
      PROVE  Typed'
  BY <1>14
  DEF Typed, Held, AdminRow, CredentialRow, RequestRow, EventRow, Status,
      Handle, Proceed
<1>15. ASSUME TenancyTick
      PROVE  Typed'
  BY <1>15
  DEF Typed, Held, AdminRow, CredentialRow, RequestRow, EventRow, Status,
      TenancyTick
<1>16. CASE UNCHANGED tenancy
  BY <1>16
  DEF Typed, Held, AdminRow, CredentialRow, RequestRow, EventRow, Status,
      tenancy
<1> QED
  BY <1>1, <1>2, <1>3, <1>4, <1>5, <1>6, <1>7, <1>8, <1>9, <1>10, <1>11, <1>12,
     <1>13, <1>14, <1>15, <1>16
  DEF TenancyNext
(* Locks are kept until the transaction ends. *)
LEMMA HeldStep ==
  ASSUME Typed, Held, [TenancyNext]_tenancy
  PROVE  Held'
<1> USE TenancyAssumption
<1>1. ASSUME NEW a \in Admin, EnsureFind(a)
      PROVE  Held'
  BY <1>1 DEF Typed, Held, AdminRow, EnsureFind, Open
<1>2. ASSUME NEW a \in Admin, EnsureCommit(a)
      PROVE  Held'
  BY <1>2 DEF Typed, Held, AdminRow, EnsureCommit, Close, NoTransaction
<1>3. ASSUME NEW a \in Admin, NEW s \in Status, StatusLock(a, s)
      PROVE  Held'
  BY <1>3 DEF Typed, Held, AdminRow, StatusLock, Open
<1>4. ASSUME NEW a \in Admin, StatusRefused(a) \/ StatusCommit(a)
      PROVE  Held'
  BY <1>4 DEF Typed, Held, AdminRow, StatusRefused, StatusCommit, Unlock, Close,
              NoTransaction
<1>5. ASSUME NEW a \in Admin, NEW c \in Credential, RevokeLock(a, c)
      PROVE  Held'
  BY <1>5 DEF Typed, Held, AdminRow, RevokeLock, Open
<1>6. ASSUME NEW a \in Admin, RevokeCommit(a)
      PROVE  Held'
  BY <1>6 DEF Typed, Held, AdminRow, RevokeCommit, Close, NoTransaction
<1>7. ASSUME NEW a \in Admin, Disconnect(a)
      PROVE  Held'
  BY <1>7 DEF Typed, Held, AdminRow, Disconnect, Unlock, Close, NoTransaction
<1>8. ASSUME NEW c \in Credential, NEW e \in 1..(MaxTime + 1), Issue(c, e)
      PROVE  Held'
  BY <1>8 DEF Typed, Held, AdminRow, CredentialRow, Issue
<1>9. ASSUME UNCHANGED <<tenant, tenantLock, admin, credential, credLock>>
      PROVE  Held'
  BY <1>9 DEF Held
<1> QED
  BY <1>1, <1>2, <1>3, <1>4, <1>5, <1>6, <1>7, <1>8, <1>9
  DEF TenancyNext, Assign, Arrive, Authenticate, RequireAssignment, Handle,
      Proceed, TenancyTick, tenancy, audit

(* A revocation is signed, and only a revocation is. *)
LEMMA SignedStep ==
  ASSUME Typed, Held, Signed, [TenancyNext]_tenancy
  PROVE  Signed'
<1> USE TenancyAssumption
<1>1. ASSUME NEW a \in Admin, RevokeCommit(a)
      PROVE  Signed'
  BY <1>1 DEF Typed, Held, Signed, CredentialRow, RevokeCommit, Revoked
<1>2. ASSUME NEW c \in Credential, NEW e \in 1..(MaxTime + 1), Issue(c, e)
      PROVE  Signed'
  BY <1>2 DEF Typed, Signed, CredentialRow, Issue
<1>3. ASSUME UNCHANGED credential
      PROVE  Signed'
  BY <1>3 DEF Signed
<1> QED
  BY <1>1, <1>2, <1>3
  DEF TenancyNext, EnsureFind, EnsureCommit, StatusLock, StatusRefused,
      StatusCommit, RevokeLock, Disconnect, Assign, Arrive, Authenticate,
      RequireAssignment, Handle, Proceed, TenancyTick, tenancy, audit

(* What was committed of the status stays so. *)
LEMMA AppendKeepsStatus ==
  ASSUME Typed, NEW x \in Status, statuses' = Append(statuses, x)
  PROVE  /\ Len(statuses') = Len(statuses) + 1
         /\ StatusAfter(Len(statuses))' = x
         /\ \A n \in 0..Len(statuses) : StatusAfter(n)' = StatusAfter(n)
<1>1. /\ Len(statuses') = Len(statuses) + 1
      /\ statuses'[Len(statuses) + 1] = x
      /\ \A n \in 1..Len(statuses) : statuses'[n] = statuses[n]
  BY DEF Typed
<1>2. Len(statuses) \in Nat
  BY DEF Typed
<1> QED
  BY <1>1, <1>2 DEF StatusAfter

(* A safety event is written by the holder of the lock, from what it read. *)
LEMMA CommitRecords ==
  ASSUME Typed, Held, NEW a \in Admin, StatusCommit(a)
  PROVE  /\ tenant # "none" /\ tenant' \in Status /\ tenant' # tenant
         /\ statuses' = Append(statuses, tenant')
         /\ \E x \in EventRow : /\ x \notin events
                                /\ x.previous = tenant /\ x.new = tenant'
                                /\ events' = events \cup {x}
<1>1. /\ tenant # "none" /\ tenant' \in Status /\ tenant' # tenant
      /\ admin[a].saw = tenant /\ admin[a].want = tenant'
      /\ statuses' = Append(statuses, tenant')
  BY DEF Held, StatusCommit
<1>2. PICK i \in EventId :
        /\ \A e \in events : e.id # i
        /\ events' = events \cup {[id |-> i, actor |-> a, previous |-> tenant,
                                  new |-> tenant']}
  BY <1>1 DEF StatusCommit
<1>3. tenant \in Status
  BY <1>1 DEF Typed
<1>4. PICK x : x = [id |-> i, actor |-> a, previous |-> tenant, new |-> tenant']
  OBVIOUS
<1>5. x \in EventRow /\ x.id = i /\ x.previous = tenant /\ x.new = tenant'
  BY <1>1, <1>3, <1>4 DEF EventRow
<1> QED
  BY <1>1, <1>2, <1>4, <1>5

(* One more event of a status is counted as one. *)
LEMMA OneMore ==
  ASSUME NEW E, IsFiniteSet(E), NEW x, x \notin E, NEW s
  PROVE  /\ IsFiniteSet(E \cup {x})
         /\ Cardinality({e \in E : e.new = s}) \in Nat
         /\ Cardinality({e \in E \cup {x} : e.new = s}) =
              Cardinality({e \in E : e.new = s}) + IF x.new = s THEN 1 ELSE 0
<1>1. PICK F : F = {e \in E : e.new = s}
  OBVIOUS
<1>2. IsFiniteSet(F) /\ Cardinality(F) \in Nat /\ IsFiniteSet(E \cup {x})
  BY <1>1, FS_Subset, FS_CardinalityType, FS_AddElement
<1>3. CASE x.new = s
  <2>1. {e \in E \cup {x} : e.new = s} = F \cup {x} /\ x \notin F
    BY <1>1, <1>3
  <2>2. Cardinality(F \cup {x}) = Cardinality(F) + 1
    BY <1>2, <2>1, FS_AddElement
  <2> QED
    BY <1>1, <1>2, <1>3, <2>1, <2>2
<1>4. CASE x.new # s
  <2>1. {e \in E \cup {x} : e.new = s} = F
    BY <1>1, <1>4
  <2>2. Cardinality(F) = Cardinality(F) + IF x.new = s THEN 1 ELSE 0
    BY <1>2, <1>4
  <2>3. Cardinality({e \in E \cup {x} : e.new = s}) = Cardinality(F)
    BY <2>1
  <2> QED
    BY <1>1, <1>2, <2>2, <2>3
<1> QED
  BY <1>3, <1>4

(* The audit goes on adding up. *)
LEMMA AuditStep ==
  ASSUME Typed, Held, Fresh, Current, IsFiniteSet(events), AuditExplainsStatus,
         [TenancyNext]_tenancy
  PROVE  Fresh' /\ Current' /\ IsFiniteSet(events') /\ AuditExplainsStatus'
<1> DEFINE Goal == /\ Fresh' /\ Current' /\ IsFiniteSet(events')
                   /\ AuditExplainsStatus'
<1>1. ASSUME NEW a \in Admin, EnsureCommit(a)
      PROVE  Goal
  <2>1. /\ events' = events /\ statuses' = statuses
        /\ tenant' = tenant \/ (tenant = "none" /\ tenant' = "active")
    BY <1>1 DEF EnsureCommit, audit
  <2>2. Fresh' /\ Current'
    BY <2>1 DEF Fresh, Current, StatusAfter
  <2>3. Recorded("suspended")' = Recorded("suspended")
        /\ Recorded("active")' = Recorded("active")
    BY <2>1 DEF Recorded
  <2> QED
    BY <2>1, <2>2, <2>3 DEF AuditExplainsStatus
<1>2. ASSUME NEW a \in Admin, StatusCommit(a)
      PROVE  Goal
  <2>1. /\ tenant # "none" /\ tenant' \in Status /\ tenant' # tenant
        /\ statuses' = Append(statuses, tenant')
    BY <1>2, CommitRecords
  <2>2. PICK x \in EventRow : /\ x \notin events
                             /\ x.previous = tenant /\ x.new = tenant'
                             /\ events' = events \cup {x}
    BY <1>2, CommitRecords
  <2>3. Fresh'
    BY <2>1 DEF Fresh, Status
  <2>4. Current'
    BY <2>1, AppendKeepsStatus DEF Current
  <2>5. /\ IsFiniteSet(events')
        /\ Recorded("suspended") \in Nat /\ Recorded("active") \in Nat
        /\ Recorded("suspended")' =
             Recorded("suspended") + IF tenant' = "suspended" THEN 1 ELSE 0
        /\ Recorded("active")' =
             Recorded("active") + IF tenant' = "active" THEN 1 ELSE 0
    <3>1. \A s : /\ IsFiniteSet(events \cup {x})
                 /\ Cardinality({e \in events : e.new = s}) \in Nat
                 /\ Cardinality({e \in events \cup {x} : e.new = s}) =
                      Cardinality({e \in events : e.new = s})
                        + IF x.new = s THEN 1 ELSE 0
      BY <2>2, OneMore
    <3> QED
      BY <2>2, <3>1 DEF Recorded
  <2>6. \/ tenant = "active" /\ tenant' = "suspended"
        \/ tenant = "suspended" /\ tenant' = "active"
    BY <2>1 DEF Typed, Status
  <2>7. /\ \A e \in events' : e.new # e.previous
        /\ Recorded("suspended")' =
             Recorded("active")' + IF tenant' = "suspended" THEN 1 ELSE 0
    BY <2>1, <2>2, <2>5, <2>6 DEF AuditExplainsStatus
  <2> QED
    BY <2>3, <2>4, <2>5, <2>7 DEF AuditExplainsStatus
<1>3. ASSUME UNCHANGED <<tenant, audit>>
      PROVE  Goal
  BY <1>3 DEF Fresh, Current, AuditExplainsStatus, Recorded, StatusAfter, audit
<1> QED
  BY <1>1, <1>2, <1>3
  DEF TenancyNext, EnsureFind, StatusLock, StatusRefused, RevokeLock, RevokeCommit,
      Disconnect, Assign, Issue, Arrive, Authenticate, RequireAssignment, Handle,
      Proceed, TenancyTick, tenancy, audit

(* Transitions are only added. *)
LEMMA EventsGrow ==
  ASSUME Typed, Held, [TenancyNext]_tenancy
  PROVE  Len(statuses) <= Len(statuses') /\ Len(statuses) \in Nat /\ Len(statuses') \in Nat
<1>1. ASSUME NEW a \in Admin, StatusCommit(a)
      PROVE  Len(statuses') = Len(statuses) + 1
  BY <1>1, CommitRecords, AppendKeepsStatus
<1>2. Len(statuses) \in Nat
  BY DEF Typed
<1> QED
  BY <1>1, <1>2
  DEF TenancyNext, EnsureFind, EnsureCommit, StatusLock, StatusRefused,
      RevokeLock, RevokeCommit, Disconnect, Assign, Issue, Arrive, Authenticate,
      RequireAssignment, Handle, Proceed, TenancyTick, tenancy, audit

(* A moment at which the tenant was active stays one. *)
LEMMA ActiveStays ==
  ASSUME Typed, Held, [TenancyNext]_tenancy,
         NEW s \in Nat, NEW e \in Nat, e <= Len(statuses), WasActive(s, e)
  PROVE  /\ WasActive(s, e)' /\ WasActive(s, Len(statuses))'
         /\ Len(statuses) <= Len(statuses')
<1>1. PICK n \in s..e : StatusAfter(n) = "active"
  BY DEF WasActive
<1>2. Len(statuses) \in Nat /\ n \in 0..Len(statuses)
  BY <1>1 DEF Typed
<1>3. Len(statuses') \in Nat /\ Len(statuses) <= Len(statuses')
  BY EventsGrow
<1>4. StatusAfter(n)' = StatusAfter(n)
  <2>1. ASSUME NEW a \in Admin, StatusCommit(a)
        PROVE  StatusAfter(n)' = StatusAfter(n)
    BY <2>1, <1>2, CommitRecords, AppendKeepsStatus
  <2>2. ASSUME UNCHANGED statuses
        PROVE  StatusAfter(n)' = StatusAfter(n)
    BY <2>2 DEF StatusAfter
  <2> QED
    BY <2>1, <2>2
    DEF TenancyNext, EnsureFind, EnsureCommit, StatusLock, StatusRefused,
        RevokeLock, RevokeCommit, Disconnect, Assign, Issue, Arrive, Authenticate,
        RequireAssignment, Handle, Proceed, TenancyTick, tenancy, audit
<1>5. n \in s..e /\ n \in s..Len(statuses')
  BY <1>1, <1>2, <1>3
<1> QED
  BY <1>1, <1>3, <1>4, <1>5 DEF WasActive

(* A credential that is valid was valid before, once it is issued. *)
LEMMA ValidityEnds ==
  ASSUME Typed, Held, [TenancyNext]_tenancy, NEW c \in Credential,
         credential[c].status # "none"
  PROVE  credential'[c].status # "none" /\ (Valid(c)' => Valid(c))
<1> USE TenancyAssumption
<1>1. ASSUME NEW a \in Admin, RevokeCommit(a)
      PROVE  credential'[c].status # "none" /\ (Valid(c)' => Valid(c))
  BY <1>1 DEF Typed, Held, CredentialRow, RevokeCommit, Revoked, Valid
<1>2. ASSUME NEW d \in Credential, NEW e \in 1..(MaxTime + 1), Issue(d, e)
      PROVE  credential'[c].status # "none" /\ (Valid(c)' => Valid(c))
  BY <1>2 DEF Typed, CredentialRow, Issue, Valid
<1>3. ASSUME TenancyTick
      PROVE  credential'[c].status # "none" /\ (Valid(c)' => Valid(c))
  BY <1>3 DEF Typed, CredentialRow, TenancyTick, Valid
<1>4. ASSUME UNCHANGED <<credential, clock>>
      PROVE  credential'[c].status # "none" /\ (Valid(c)' => Valid(c))
  BY <1>4 DEF Valid
<1> QED
  BY <1>1, <1>2, <1>3, <1>4
  DEF TenancyNext, EnsureFind, EnsureCommit, StatusLock, StatusRefused,
      StatusCommit, RevokeLock, Disconnect, Assign, Arrive, Authenticate,
      RequireAssignment, Handle, Proceed, tenancy, audit
(* A request keeps what it was admitted with, on its way to its handler. *)
LEMMA AdmittedStep ==
  ASSUME IInv, [TenancyNext]_tenancy
  PROVE  Admitted'
<1> SUFFICES ASSUME NEW r \in Request
             PROVE  AdmittedRequest(r)'
  BY DEF Admitted
<1>0. /\ Typed /\ Held /\ AdmittedRequest(r) /\ request[r] \in RequestRow
      /\ Len(statuses) <= Len(statuses') /\ Len(statuses) \in Nat /\ Len(statuses') \in Nat
  BY EventsGrow DEF IInv, Admitted, Typed
<1>1. CASE request'[r] = request[r]
  <2>1. ASSUME request[r].phase # "none"
        PROVE  /\ request[r].cred \in Credential
               /\ credential'[request[r].cred].status # "none"
               /\ Valid(request[r].cred)' => Valid(request[r].cred)
               /\ request[r].since <= Len(statuses')
    <3>1. request[r].cred \in Credential /\ request[r].since \in Nat
          /\ credential[request[r].cred].status # "none"
          /\ request[r].since <= Len(statuses)
      BY <2>1, <1>0 DEF AdmittedRequest, RequestRow
    <3>2. \A c \in Credential : credential[c].status # "none" =>
            credential'[c].status # "none" /\ (Valid(c)' => Valid(c))
      BY <1>0, ValidityEnds
    <3> QED
      BY <3>1, <3>2, <1>0, <1>1 DEF Valid
  <2>2. ASSUME request[r].phase \in {"authenticated", "assigned"}
        PROVE  request[r].valid /\ WasActive(request[r].since, Len(statuses))'
    <3>1. request[r].valid /\ WasActive(request[r].since, Len(statuses))
          /\ request[r].since \in Nat
      BY <2>2, <1>0 DEF AdmittedRequest, RequestRow
    <3>2. \A n \in Nat : WasActive(n, Len(statuses)) => WasActive(n, Len(statuses))'
      BY <1>0, ActiveStays
    <3>3. request'[r].since = request[r].since
      BY <1>1
    <3> QED
      BY <3>1, <3>2, <3>3 DEF WasActive, StatusAfter
  <2>3. request[r].phase = "received" /\ Valid(request[r].cred) =>
          request[r].valid
    BY <1>0 DEF AdmittedRequest
  <2> QED
    BY <1>1, <2>1, <2>2, <2>3 DEF AdmittedRequest
<1>2. ASSUME NEW c \in Credential, Arrive(r, c)
      PROVE  AdmittedRequest(r)'
  BY <1>0, <1>2 DEF AdmittedRequest, Arrive, Valid, Typed
<1>3. CASE Authenticate(r)
  BY <1>0, <1>3
  DEF AdmittedRequest, Authenticate, Authenticates, Proceed, Valid,
                    Typed, WasActive, StatusAfter, IInv, Current, audit
<1>4. CASE RequireAssignment(r)
  BY <1>0, <1>4 DEF AdmittedRequest, RequireAssignment, Proceed, Valid, Typed, audit,
                    WasActive, StatusAfter
<1>5. CASE Handle(r)
  BY <1>0, <1>5 DEF AdmittedRequest, Handle, Proceed, Valid, Typed, audit
<1>6. ASSUME NEW q \in Request, q # r,
             \/ \E c \in Credential : Arrive(q, c)
             \/ Authenticate(q) \/ RequireAssignment(q) \/ Handle(q)
      PROVE  request'[r] = request[r]
  BY <1>6, <1>0
  DEF Arrive, Authenticate, RequireAssignment, Handle, Proceed, Typed
<1> QED
  BY <1>1, <1>2, <1>3, <1>4, <1>5, <1>6
  DEF TenancyNext, EnsureFind, EnsureCommit, StatusLock, StatusRefused,
      StatusCommit, RevokeLock, RevokeCommit, Disconnect, Assign, Issue,
      TenancyTick, tenancy, audit
(* A command keeps what its request had when it was committed. *)
LEMMA AuthorisedStep ==
  ASSUME IInv, [TenancyNext]_tenancy
  PROVE  Authorised'
<1>0. /\ Typed /\ Held /\ Admitted /\ Authorised
      /\ Len(statuses) <= Len(statuses') /\ Len(statuses) \in Nat /\ Len(statuses') \in Nat
  BY EventsGrow DEF IInv
<1>1. ASSUME NEW k \in commands
      PROVE  /\ k.by.valid
             /\ k.by.since \in Nat /\ k.until \in Nat /\ k.until <= Len(statuses')
             /\ WasActive(k.by.since, k.until)'
  <2>1. /\ k.by.valid
        /\ k.by.since \in Nat /\ k.until \in Nat /\ k.until <= Len(statuses)
        /\ WasActive(k.by.since, k.until)
    BY <1>0 DEF Authorised
  <2>2. WasActive(k.by.since, k.until)'
    BY <1>0, <2>1, ActiveStays
  <2> QED
    BY <1>0, <2>1, <2>2
<1>2. ASSUME NEW r \in Request, Handle(r)
      PROVE  Authorised'
  <2>0. PICK k : k = [by |-> request[r], until |-> Len(statuses)]
    OBVIOUS
  <2>1. /\ statuses' = statuses /\ request[r].phase = "assigned"
        /\ commands' \subseteq commands \cup {k}
    BY <1>2, <2>0 DEF Handle, Proceed, audit
  <2>2. /\ request[r].valid /\ request[r].since \in Nat
        /\ WasActive(request[r].since, Len(statuses))
    BY <1>0, <2>1 DEF Admitted, AdmittedRequest, Typed, RequestRow
  <2>3. k.by = request[r] /\ k.until = Len(statuses)
    BY <2>0
  <2>4. WasActive(k.by.since, k.until)'
    <3>1. PICK n \in request[r].since..Len(statuses) : StatusAfter(n) = "active"
      BY <2>2 DEF WasActive
    <3>2. StatusAfter(n)' = "active"
      BY <3>1, <2>1 DEF StatusAfter
    <3>3. n \in k.by.since..k.until
      BY <3>1, <2>3
    <3> QED
      BY <3>2, <3>3 DEF WasActive
  <2>5. \A j \in commands' : j \in commands \/ j = k
    BY <2>1
  <2>6. /\ k.by.valid /\ k.by.since \in Nat
        /\ k.until \in Nat /\ k.until <= Len(statuses')
    BY <1>0, <2>1, <2>2, <2>3
  <2> QED
    BY <1>1, <2>4, <2>5, <2>6 DEF Authorised
<1>3. ASSUME UNCHANGED commands
      PROVE  Authorised'
  BY <1>1, <1>3 DEF Authorised
<1> QED
  BY <1>2, <1>3
  DEF TenancyNext, EnsureFind, EnsureCommit, StatusLock, StatusRefused,
      StatusCommit, RevokeLock, RevokeCommit, Disconnect, Assign, Issue, Arrive,
      Authenticate, RequireAssignment, Proceed, TenancyTick, tenancy, audit

-----------------------------------------------------------------------------
(* The invariant holds at the start. *)
LEMMA IInvInit ==
  ASSUME TenancyInit
  PROVE  IInv
<1> USE TenancyAssumption
<1>1. Typed
  BY DEF TenancyInit, Typed, Unissued, NotArrived, NoTransaction, AdminRow,
         CredentialRow, RequestRow
<1>2. Held /\ Signed /\ Fresh /\ Current
  BY DEF TenancyInit, Held, Signed, Fresh, Current, Unissued, NoTransaction
<1>3. Admitted /\ Authorised
  BY DEF TenancyInit, Admitted, AdmittedRequest, Authorised, NotArrived
<1>4. IsFiniteSet(events) /\ AuditExplainsStatus
  <2>1. events = {} /\ \A s : {e \in events : e.new = s} = {}
    BY DEF TenancyInit
  <2>2. Recorded("suspended") = 0 /\ Recorded("active") = 0
    BY <2>1, FS_EmptySet DEF Recorded
  <2>3. tenant = "none"
    BY DEF TenancyInit
  <2> QED
    BY <2>1, <2>2, <2>3, FS_EmptySet DEF AuditExplainsStatus
<1> QED
  BY <1>1, <1>2, <1>3, <1>4 DEF IInv

(* And every step keeps it. *)
LEMMA IInvStep ==
  ASSUME IInv, [TenancyNext]_tenancy
  PROVE  IInv'
<1>1. Typed' /\ Held' /\ Signed'
  BY TypedStep, HeldStep, SignedStep DEF IInv
<1>2. Fresh' /\ Current' /\ IsFiniteSet(events') /\ AuditExplainsStatus'
  BY AuditStep DEF IInv
<1>3. Admitted' /\ Authorised'
  BY AdmittedStep, AuthorisedStep
<1> QED
  BY <1>1, <1>2, <1>3 DEF IInv

(* It implies what is promised of the states, *)
LEMMA IInvImplies ==
  ASSUME IInv
  PROVE  TenancyTypeOK /\ AuditExplainsStatus /\ CommandsWereAuthorised
<1>1. TenancyTypeOK
  BY
  DEF IInv, Typed, Signed, TenancyTypeOK, CredentialRow, AdminRow, RequestRow,
         EventRow
<1>2. CommandsWereAuthorised
  BY DEF IInv, Authorised, WasActive, CommandsWereAuthorised
<1> QED
  BY <1>1, <1>2 DEF IInv

(* and of the steps: a revoked credential never changes again. *)
LEMMA RevokedStays ==
  ASSUME IInv, [TenancyNext]_tenancy, NEW c \in Credential,
         credential[c].status = "revoked"
  PROVE  credential'[c] = credential[c]
<1>1. Typed /\ Held
  BY DEF IInv
<1>2. ASSUME NEW a \in Admin, RevokeCommit(a)
      PROVE  credential'[c] = credential[c]
  BY <1>1, <1>2 DEF Typed, Held, RevokeCommit, Revoked
<1>3. ASSUME NEW d \in Credential, NEW e \in 1..(MaxTime + 1), Issue(d, e)
      PROVE  credential'[c] = credential[c]
  BY <1>1, <1>3 DEF Typed, Issue
<1> QED
  BY <1>2, <1>3
  DEF TenancyNext, EnsureFind, EnsureCommit, StatusLock, StatusRefused,
      StatusCommit, RevokeLock, Disconnect, Assign, Arrive, Authenticate,
      RequireAssignment, Handle, Proceed, TenancyTick, tenancy, audit

(* Access is accounted for, whatever administrators and requests do at     *)
(* once: the safety events add up to the status, in whatever order they    *)
(* are listed; no command comes from a request that was not entitled to it *)
(* when it arrived; and no revocation is lost or rewritten                 *)
(* (security/tenancy.py, security/credential_service.py,                   *)
(* api/operator_auth.py).                                                  *)
THEOREM AccessIsAccountedFor == TenancySpec => AccessIsAccounted
<1>1. TenancyInit => IInv
  BY IInvInit
<1>2. IInv /\ [TenancyNext]_tenancy => IInv'
  BY IInvStep
<1>3. IInv => TenancyTypeOK /\ AuditExplainsStatus /\ CommandsWereAuthorised
  BY IInvImplies
<1>4. IInv /\ [TenancyNext]_tenancy =>
        [\A c \in Credential :
           credential[c].status = "revoked" => credential'[c] = credential[c]]_tenancy
  BY RevokedStays
<1> QED
  BY <1>1, <1>2, <1>3, <1>4, PTL
  DEF TenancySpec, AccessIsAccounted, RevocationIsFinal

-----------------------------------------------------------------------------
(* Breakers. *)

(* A row that follows all others. *)
Newest(r, R) == \A s \in R : s.at < r.at \/ (s.at = r.at /\ s.id <= r.id)

(* The history of a breaker: rows with times of their own, one of them the *)
(* newest, trips and resets in turn, and the last one as committed.        *)
Chronicle(b) ==
  /\ IsFiniteSet(history[b])
  /\ \A r \in history[b] : r.at # 0
  /\ history[b] # {} => \E r \in history[b] : Newest(r, history[b])
  /\ \A r, s \in history[b] : r # s => r.at # s.at
  /\ \A r \in history[b] :
       r.tripped <=> Cardinality({s \in history[b] : s.at < r.at}) % 2 = 0
  /\ last[b] <=> Cardinality(history[b]) % 2 = 1
  /\ Latest(b).tripped = last[b]

(* The transaction that holds the lock of a breaker has read its latest    *)
(* row, and is the only one.                                               *)
LockHolders ==
  /\ \A o \in Operator, b \in Breaker :
       pc[o] = "insert" /\ wants[o][1] = b => found[o] = Latest(b)
  /\ \A o, u \in Operator :
       pc[o] = "insert" /\ pc[u] = "insert" /\ wants[o][1] = wants[u][1] => o = u

(* A check that has found the first breaker closed knows since when.       *)
Checks ==
  \A c \in Check :
    /\ check[c] = "narrow" => /\ All \in UNION closed[c]
                              /\ {b \in Breaker : ~last[b]} \in closed[c]
    /\ check[c] = "allowed" => {All, Narrow[c]} \subseteq UNION closed[c]

BreakersInv ==
  /\ BreakersTypeOK
  /\ \A b \in Breaker : Chronicle(b)
  /\ LockHolders /\ Checks

(* Odd and even numbers alternate. *)
LEMMA Parity ==
  ASSUME NEW n \in Nat
  PROVE  /\ n % 2 = 0 \/ n % 2 = 1
         /\ (n + 1) % 2 = 1 <=> n % 2 = 0
         /\ (n + 1) % 2 = 0 <=> n % 2 = 1
OBVIOUS

(* The latest row is a row. *)
LEMMA LatestType ==
  ASSUME NEW b \in Breaker, history[b] \subseteq BreakerRow, Chronicle(b)
  PROVE  /\ Latest(b) \in BreakerRow
         /\ history[b] = {} => Latest(b) = Closed
         /\ history[b] # {} =>
              /\ Latest(b) \in history[b] /\ Newest(Latest(b), history[b])
              /\ Latest(b) # Closed
<1>1. CASE history[b] = {}
  BY <1>1 DEF Latest, Closed, BreakerRow
<1>2. CASE history[b] # {}
  <2>1. PICK r \in history[b] : Newest(r, history[b])
    BY <1>2 DEF Chronicle
  <2>2. PICK l : l = CHOOSE x \in history[b] : Newest(x, history[b])
    OBVIOUS
  <2>3. l \in history[b] /\ Newest(l, history[b])
    BY <2>1, <2>2
  <2>4. l = Latest(b)
    BY <1>2, <2>2 DEF Latest, Newest
  <2>5. l.at # 0
    BY <2>3 DEF Chronicle
  <2> QED
    BY <1>2, <2>3, <2>4, <2>5 DEF Closed
<1> QED
  BY <1>1, <1>2

(* A row later than all others continues the history. *)
LEMMA ChronicleGrows ==
  ASSUME NEW b \in Breaker, history[b] \subseteq BreakerRow, Chronicle(b),
         last[b] \in BOOLEAN, NEW n \in BreakerRow, n.at # 0,
         \A s \in history[b] : s.at < n.at, n.tripped = ~last[b],
         history'[b] = history[b] \cup {n}, last'[b] = n.tripped
  PROVE  Chronicle(b)'
<1> DEFINE H == history[b]
<1>1. PICK G : G = history'[b]
  OBVIOUS
<1>2. /\ IsFiniteSet(H) /\ n \notin H /\ G = H \cup {n} /\ n.at \in Nat
      /\ \A s \in H : s.at \in Nat /\ s.at # 0
  BY <1>1 DEF Chronicle, BreakerRow
<1>3. /\ IsFiniteSet(G) /\ Cardinality(G) = Cardinality(H) + 1
      /\ Cardinality(H) \in Nat
  BY <1>2, FS_AddElement, FS_CardinalityType
<1>4. n \in G /\ Newest(n, G)
  <2>1. \A s \in G : s.at < n.at \/ s = n
    BY <1>2
  <2>2. n.id <= n.id
    BY DEF BreakerRow
  <2> QED
    BY <1>2, <2>1, <2>2 DEF Newest
<1>5. \A r, s \in G : r # s => r.at # s.at
  BY <1>2 DEF Chronicle
<1>6. n.tripped <=> Cardinality(H) % 2 = 0
  <2>1. last[b] <=> Cardinality(H) % 2 = 1
    BY DEF Chronicle
  <2>2. Cardinality(H) % 2 = 0 <=> ~(Cardinality(H) % 2 = 1)
    BY <1>3, Parity
  <2> QED
    BY <2>1, <2>2
<1>7. {s \in G : s.at < n.at} = H
  BY <1>2
<1>8. \A r \in H : {s \in G : s.at < r.at} = {s \in H : s.at < r.at}
  BY <1>2
<1>9. ASSUME NEW r \in G
      PROVE  r.tripped <=> Cardinality({s \in G : s.at < r.at}) % 2 = 0
  <2>1. CASE r = n
    BY <1>6, <1>7, <2>1
  <2>2. CASE r \in H
    <3>1. r.tripped <=> Cardinality({s \in H : s.at < r.at}) % 2 = 0
      BY <2>2 DEF Chronicle
    <3> QED
      BY <1>8, <2>2, <3>1
  <2> QED
    BY <1>2, <2>1, <2>2
<1>10. last'[b] <=> Cardinality(G) % 2 = 1
  <2>1. Cardinality(G) % 2 = 1 <=> Cardinality(H) % 2 = 0
    BY <1>3, Parity
  <2> QED
    BY <1>6, <2>1
<1>11. PICK l : l = CHOOSE x \in G : Newest(x, G)
  OBVIOUS
<1>12. l \in G /\ Newest(l, G)
  BY <1>4, <1>11
<1>13. l = n
  BY <1>2, <1>12 DEF Newest
<1>14. Latest(b)' = l
  BY <1>1, <1>4, <1>11 DEF Latest, Newest
<1>15. Latest(b)'.tripped = last'[b]
  BY <1>13, <1>14
<1>16. \A r \in G : r.at # 0
  BY <1>2
<1> QED
  BY <1>1, <1>3, <1>4, <1>5, <1>9, <1>10, <1>15, <1>16 DEF Chronicle

(* A breaker whose rows stay keeps its latest row and its history. *)
LEMMA ChronicleKept ==
  ASSUME NEW b \in Breaker, Chronicle(b),
         history'[b] = history[b], last'[b] = last[b]
  PROVE  Chronicle(b)' /\ Latest(b)' = Latest(b)
<1>1. PICK G : G = history[b]
  OBVIOUS
<1>2. Latest(b)' = Latest(b)
  BY <1>1 DEF Latest
<1> QED
  BY <1>1, <1>2 DEF Chronicle

(* Before the first transition every breaker is closed. *)
LEMMA BreakersStart ==
  ASSUME BreakersAssumption
  PROVE  BreakersInit => BreakersInv
<1> SUFFICES ASSUME BreakersInit PROVE BreakersInv
  OBVIOUS
<1>1. Closed \in BreakerRow
  BY DEF Closed, BreakerRow
<1>2. BreakersTypeOK
  BY <1>1, BreakersAssumption DEF BreakersInit, BreakersTypeOK
<1>3. ASSUME NEW b \in Breaker
      PROVE  Chronicle(b)
  <2>1. history[b] = {} /\ last[b] = FALSE
    BY DEF BreakersInit
  <2>2. Latest(b) = Closed
    BY <2>1 DEF Latest
  <2>3. Latest(b).tripped = FALSE
    BY <2>2 DEF Closed
  <2>4. IsFiniteSet(history[b]) /\ Cardinality(history[b]) = 0
    BY <2>1, FS_EmptySet
  <2>5. ~(Cardinality(history[b]) % 2 = 1)
    BY <2>4
  <2> QED
    BY <2>1, <2>3, <2>4, <2>5 DEF Chronicle
<1>4. LockHolders /\ Checks
  BY DEF BreakersInit, LockHolders, Checks
<1> QED
  BY <1>2, <1>3, <1>4 DEF BreakersInv

(* trip and reset take the lock of the breaker and read its latest row. *)
LEMMA LockStep ==
  ASSUME BreakersAssumption, BreakersInv,
         NEW o \in Operator, NEW b \in Breaker, NEW tripped \in BOOLEAN,
         Lock(o, b, tripped)
  PROVE  BreakersInv'
<1>1. /\ pc[o] = "idle" /\ ~Locked(b)
      /\ wants' = [wants EXCEPT ![o] = <<b, tripped>>]
      /\ found' = [found EXCEPT ![o] = Latest(b)]
      /\ pc' = [pc EXCEPT ![o] = "insert"]
      /\ history' = history /\ last' = last /\ check' = check
      /\ closed' = closed
  BY DEF Lock
<1>2. BreakersTypeOK /\ (\A d \in Breaker : Chronicle(d)) /\ LockHolders /\ Checks
  BY DEF BreakersInv
<1>3. Latest(b) \in BreakerRow
  <2>1. history[b] \subseteq BreakerRow
    BY <1>2 DEF BreakersTypeOK
  <2> QED
    BY <1>2, <2>1, LatestType
<1>4. \A d \in Breaker : Chronicle(d)' /\ Latest(d)' = Latest(d)
  BY <1>1, <1>2, ChronicleKept
<1>5. BreakersTypeOK'
  <2>1. <<b, tripped>> \in Breaker \X BOOLEAN
    OBVIOUS
  <2>2. wants' \in [Operator -> Breaker \X BOOLEAN]
    BY <1>1, <1>2, <2>1 DEF BreakersTypeOK
  <2>3. found' \in [Operator -> BreakerRow]
    BY <1>1, <1>2, <1>3 DEF BreakersTypeOK
  <2>4. pc' \in [Operator -> {"idle", "insert"}]
    BY <1>1, <1>2 DEF BreakersTypeOK
  <2> QED
    BY <1>1, <1>2, <2>2, <2>3, <2>4 DEF BreakersTypeOK
<1>6. LockHolders'
  <2>1. \A u \in Operator : wants[u][1] \in Breaker
    BY <1>2 DEF BreakersTypeOK
  <2>2. /\ wants'[o] = <<b, tripped>> /\ found'[o] = Latest(b)
        /\ \A u \in Operator \ {o} : /\ wants'[u] = wants[u]
                                     /\ found'[u] = found[u]
                                     /\ pc'[u] = pc[u]
    BY <1>1, <1>2 DEF BreakersTypeOK
  <2>3. \A u \in Operator : pc[u] = "insert" => wants[u][1] # b
    BY <1>1 DEF Locked
  <2>4. wants'[o][1] = b
    BY <2>2
  <2>5. ASSUME NEW u \in Operator, NEW d \in Breaker,
               pc'[u] = "insert", wants'[u][1] = d
        PROVE  found'[u] = Latest(d)'
    <3>1. Latest(d)' = Latest(d)
      BY <1>4
    <3>2. CASE u = o
      BY <2>2, <2>4, <2>5, <3>1, <3>2
    <3>3. CASE u # o
      BY <1>2, <2>2, <2>5, <3>1, <3>3 DEF LockHolders
    <3> QED
      BY <3>2, <3>3
  <2>6. ASSUME NEW u \in Operator, NEW v \in Operator,
               pc'[u] = "insert", pc'[v] = "insert",
               wants'[u][1] = wants'[v][1]
        PROVE  u = v
    BY <1>2, <2>2, <2>3, <2>4, <2>6 DEF LockHolders
  <2> QED
    BY <2>5, <2>6 DEF LockHolders
<1>7. Checks'
  BY <1>1, <1>2 DEF Checks
<1> QED
  BY <1>4, <1>5, <1>6, <1>7 DEF BreakersInv

(* A transaction that ends without a row gives its lock back. *)
LEMMA ReleaseStep ==
  ASSUME BreakersInv, NEW o \in Operator,
         pc' = [pc EXCEPT ![o] = "idle"],
         UNCHANGED <<history, last, wants, found, check, closed>>
  PROVE  BreakersInv'
<1>1. BreakersTypeOK /\ (\A d \in Breaker : Chronicle(d)) /\ LockHolders /\ Checks
  BY DEF BreakersInv
<1>2. \A d \in Breaker : Chronicle(d)' /\ Latest(d)' = Latest(d)
  BY <1>1, ChronicleKept
<1>3. BreakersTypeOK'
  BY <1>1 DEF BreakersTypeOK
<1>4. \A u \in Operator : pc'[u] = "insert" => pc[u] = "insert"
  BY <1>1 DEF BreakersTypeOK
<1>5. LockHolders'
  <2>1. ASSUME NEW u \in Operator, NEW d \in Breaker,
               pc'[u] = "insert", wants'[u][1] = d
        PROVE  found'[u] = Latest(d)'
    <3>1. Latest(d)' = Latest(d)
      BY <1>2
    <3> QED
      BY <1>1, <1>4, <2>1, <3>1 DEF LockHolders
  <2>2. ASSUME NEW u \in Operator, NEW v \in Operator,
               pc'[u] = "insert", pc'[v] = "insert",
               wants'[u][1] = wants'[v][1]
        PROVE  u = v
    BY <1>1, <1>4, <2>2 DEF LockHolders
  <2> QED
    BY <2>1, <2>2 DEF LockHolders
<1>6. Checks'
  BY <1>1 DEF Checks
<1> QED
  BY <1>2, <1>3, <1>5, <1>6 DEF BreakersInv

(* A transition is dated after the row it follows, which is the breaker's  *)
(* latest as long as the lock is held.                                     *)
LEMMA TransitionIsLater ==
  ASSUME NEW b \in Breaker, history[b] \subseteq BreakerRow, Chronicle(b),
         NEW now \in Nat, now # 0
  PROVE  /\ TransitionedAt(Latest(b), now) \in Nat
         /\ TransitionedAt(Latest(b), now) # 0
         /\ \A s \in history[b] : s.at < TransitionedAt(Latest(b), now)
<1>1. PICK l : l = Latest(b)
  OBVIOUS
<1>2. l \in BreakerRow
  BY <1>1, LatestType
<1>3. l.at \in Nat
  BY <1>2 DEF BreakerRow
<1>4. CASE history[b] = {}
  BY <1>1, <1>3, <1>4 DEF TransitionedAt
<1>5. CASE history[b] # {}
  <2>1. l # Closed /\ Newest(l, history[b])
    BY <1>1, <1>5, LatestType
  <2>2. \A s \in history[b] : s.at \in Nat /\ s.at <= l.at
    BY <1>3, <2>1 DEF Newest, BreakerRow
  <2>3. /\ TransitionedAt(l, now) \in Nat
        /\ TransitionedAt(l, now) >= l.at + 1
    BY <1>3, <2>1 DEF TransitionedAt
  <2> QED
    BY <1>1, <1>3, <2>2, <2>3
<1> QED
  BY <1>4, <1>5

(* A transition follows the breaker's latest row. *)
LEMMA TransitionStep ==
  ASSUME BreakersAssumption, BreakersInv, NEW o \in Operator, Transition(o)
  PROVE  BreakersInv'
<1>1. BreakersTypeOK /\ (\A d \in Breaker : Chronicle(d)) /\ LockHolders /\ Checks
  BY DEF BreakersInv
<1>2. PICK b, tripped : b = wants[o][1] /\ tripped = wants[o][2]
  OBVIOUS
<1>3. b \in Breaker /\ tripped \in BOOLEAN
  BY <1>1, <1>2 DEF BreakersTypeOK
<1>4. /\ pc[o] = "insert" /\ pc' = [pc EXCEPT ![o] = "idle"]
      /\ wants' = wants /\ found' = found /\ check' = check
  BY DEF Transition
<1>5. CASE found[o].tripped = tripped
  <2>1. history' = history /\ last' = last /\ closed' = closed
    BY <1>2, <1>5 DEF Transition
  <2> QED
    BY <1>4, <2>1, ReleaseStep
<1>6. CASE found[o].tripped # tripped
  <2>1. PICK now \in 1 .. MaxClock, id \in 0 .. 1 :
          history' = [history EXCEPT ![b] = @ \cup
            {[at |-> TransitionedAt(found[o], now), id |-> id,
              tripped |-> tripped]}]
    BY <1>2, <1>6 DEF Transition
  <2>2. /\ last' = [last EXCEPT ![b] = tripped]
        /\ closed' = [c \in Check |->
             IF check[c] = "narrow"
             THEN closed[c] \cup {{d \in Breaker : ~last'[d]}}
             ELSE closed[c]]
    BY <1>2, <1>6 DEF Transition
  <2>3. now \in Nat /\ now # 0
    BY <2>1, BreakersAssumption
  <2>4. found[o] = Latest(b)
    BY <1>1, <1>2, <1>3, <1>4 DEF LockHolders
  <2>5. PICK at : at = TransitionedAt(found[o], now)
    OBVIOUS
  <2>6. history[b] \subseteq BreakerRow
    BY <1>1, <1>3 DEF BreakersTypeOK
  <2>7. at \in Nat /\ at # 0 /\ \A s \in history[b] : s.at < at
    BY <1>1, <1>3, <2>3, <2>4, <2>5, <2>6, TransitionIsLater
  <2>8. PICK n : n = [at |-> at, id |-> id, tripped |-> tripped]
    OBVIOUS
  <2>9. n \in BreakerRow /\ n.at = at /\ n.tripped = tripped
    BY <1>3, <2>1, <2>7, <2>8 DEF BreakerRow
  <2>10. history' = [history EXCEPT ![b] = history[b] \cup {n}]
    BY <2>1, <2>5, <2>8
  <2>11. /\ history'[b] = history[b] \cup {n} /\ last'[b] = tripped
         /\ \A d \in Breaker \ {b} : /\ history'[d] = history[d]
                                     /\ last'[d] = last[d]
    BY <1>1, <1>3, <2>2, <2>10 DEF BreakersTypeOK
  <2>12. tripped = ~last[b]
    <3>1. Latest(b).tripped = last[b]
      BY <1>1, <1>3 DEF Chronicle
    <3>2. last[b] # tripped
      BY <1>6, <2>4, <3>1
    <3>3. last[b] \in BOOLEAN
      BY <1>1, <1>3 DEF BreakersTypeOK
    <3> QED
      BY <1>3, <3>2, <3>3
  <2>13. Chronicle(b)'
    <3>1. Chronicle(b) /\ last[b] \in BOOLEAN
      BY <1>1, <1>3 DEF BreakersTypeOK
    <3>2. n.at # 0 /\ (\A s \in history[b] : s.at < n.at)
      BY <2>7, <2>9
    <3>3. n.tripped = ~last[b]
      BY <2>9, <2>12
    <3>4. last'[b] = n.tripped
      BY <2>9, <2>11
    <3> QED
      BY <1>3, <2>6, <2>9, <2>11, <3>1, <3>2, <3>3, <3>4, ChronicleGrows
  <2>14. \A d \in Breaker \ {b} : Chronicle(d)' /\ Latest(d)' = Latest(d)
    BY <1>1, <2>11, ChronicleKept
  <2>15. BreakersTypeOK'
    <3>1. history' \in [Breaker -> SUBSET BreakerRow]
      BY <1>1, <1>3, <2>6, <2>9, <2>10 DEF BreakersTypeOK
    <3>2. last' \in [Breaker -> BOOLEAN]
      BY <1>1, <1>3, <2>2 DEF BreakersTypeOK
    <3>3. pc' \in [Operator -> {"idle", "insert"}]
      BY <1>1, <1>4 DEF BreakersTypeOK
    <3>4. closed' \in [Check -> SUBSET SUBSET Breaker]
      BY <1>1, <2>2 DEF BreakersTypeOK
    <3> QED
      BY <1>1, <1>4, <3>1, <3>2, <3>3, <3>4 DEF BreakersTypeOK
  <2>16. LockHolders'
    <3>1. \A u \in Operator :
            pc'[u] = "insert" => pc[u] = "insert" /\ wants[u][1] # b
      <4>1. \A u \in Operator : pc'[u] = "insert" => pc[u] = "insert" /\ u # o
        BY <1>1, <1>4 DEF BreakersTypeOK
      <4> QED
        BY <1>1, <1>2, <1>4, <4>1 DEF LockHolders
    <3>2. ASSUME NEW u \in Operator, NEW d \in Breaker,
                 pc'[u] = "insert", wants'[u][1] = d
          PROVE  found'[u] = Latest(d)'
      <4>1. d # b /\ pc[u] = "insert" /\ wants[u][1] = d
        BY <1>4, <3>1, <3>2
      <4>2. Latest(d)' = Latest(d)
        BY <2>14, <4>1
      <4> QED
        BY <1>1, <1>4, <4>1, <4>2 DEF LockHolders
    <3>3. ASSUME NEW u \in Operator, NEW v \in Operator,
                 pc'[u] = "insert", pc'[v] = "insert",
                 wants'[u][1] = wants'[v][1]
          PROVE  u = v
      BY <1>1, <1>4, <3>1, <3>3 DEF LockHolders
    <3> QED
      BY <3>2, <3>3 DEF LockHolders
  <2>17. Checks'
    <3>1. \A c \in Check : closed[c] \subseteq closed'[c]
      BY <2>2
    <3>2. \A c \in Check : check[c] = "narrow" =>
            {d \in Breaker : ~last'[d]} \in closed'[c]
      BY <2>2
    <3>3. ASSUME NEW c \in Check
          PROVE  UNION closed[c] \subseteq UNION closed'[c]
      BY <3>1
    <3> QED
      BY <1>1, <1>4, <3>2, <3>3 DEF Checks
  <2> QED
    BY <2>13, <2>14, <2>15, <2>16, <2>17 DEF BreakersInv
<1> QED
  BY <1>5, <1>6

(* The two reads of a check. *)
LEMMA ReadStep ==
  ASSUME BreakersAssumption, BreakersInv, NEW c \in Check,
         ReadAll(c) \/ ReadNarrow(c)
  PROVE  BreakersInv'
<1>1. BreakersTypeOK /\ (\A d \in Breaker : Chronicle(d)) /\ LockHolders /\ Checks
  BY DEF BreakersInv
<1>2. /\ history' = history /\ last' = last /\ pc' = pc
      /\ wants' = wants /\ found' = found
  BY DEF ReadAll, ReadNarrow
<1>3. \A d \in Breaker : Chronicle(d)' /\ Latest(d)' = Latest(d)
  BY <1>1, <1>2, ChronicleKept
<1>4. LockHolders'
  <2>1. ASSUME NEW u \in Operator, NEW d \in Breaker,
               pc'[u] = "insert", wants'[u][1] = d
        PROVE  found'[u] = Latest(d)'
    <3>1. Latest(d)' = Latest(d)
      BY <1>3
    <3> QED
      BY <1>1, <1>2, <2>1, <3>1 DEF LockHolders
  <2>2. ASSUME NEW u \in Operator, NEW v \in Operator,
               pc'[u] = "insert", pc'[v] = "insert",
               wants'[u][1] = wants'[v][1]
        PROVE  u = v
    BY <1>1, <1>2, <2>2 DEF LockHolders
  <2> QED
    BY <2>1, <2>2 DEF LockHolders
<1>5. \A d \in Breaker : Latest(d).tripped = last[d]
  BY <1>1 DEF Chronicle
<1>6. CASE ReadAll(c)
  <2>1. PICK now : now = {b \in Breaker : ~last[b]}
    OBVIOUS
  <2>2. /\ check' = [check EXCEPT ![c] = IF last[All] THEN "blocked"
                                         ELSE "narrow"]
        /\ closed' = [closed EXCEPT ![c] = {now}]
    BY <1>5, <1>6, <2>1, BreakersAssumption DEF ReadAll
  <2>3. now \in SUBSET Breaker /\ (~last[All] => All \in now)
    BY <2>1, BreakersAssumption
  <2>4. BreakersTypeOK'
    <3>1. check' \in [Check -> {"idle", "narrow", "blocked", "allowed"}]
      BY <1>1, <2>2 DEF BreakersTypeOK
    <3>2. closed' \in [Check -> SUBSET SUBSET Breaker]
      BY <1>1, <2>2, <2>3 DEF BreakersTypeOK
    <3> QED
      BY <1>1, <1>2, <3>1, <3>2 DEF BreakersTypeOK
  <2>5. /\ check'[c] # "allowed" /\ (check'[c] = "narrow" => ~last[All])
        /\ closed'[c] = {now}
        /\ \A k \in Check \ {c} : check'[k] = check[k] /\ closed'[k] = closed[k]
    BY <1>1, <2>2 DEF BreakersTypeOK
  <2>6. {b \in Breaker : ~last'[b]} = now
    BY <1>2, <2>1
  <2>7. Checks'
    BY <1>1, <1>2, <2>1, <2>3, <2>5, <2>6 DEF Checks
  <2> QED
    BY <1>3, <1>4, <2>4, <2>7 DEF BreakersInv
<1>7. CASE ReadNarrow(c)
  <2>1. Narrow[c] \in Breaker
    BY BreakersAssumption
  <2>2. /\ check[c] = "narrow" /\ closed' = closed
        /\ check' = [check EXCEPT ![c] = IF last[Narrow[c]] THEN "blocked"
                                         ELSE "allowed"]
    BY <1>5, <1>7, <2>1 DEF ReadNarrow
  <2>3. BreakersTypeOK'
    BY <1>1, <1>2, <2>2 DEF BreakersTypeOK
  <2>4. /\ check'[c] # "narrow" /\ (check'[c] = "allowed" => ~last[Narrow[c]])
        /\ \A k \in Check \ {c} : check'[k] = check[k]
    BY <1>1, <2>2 DEF BreakersTypeOK
  <2>5. check'[c] = "allowed" => {All, Narrow[c]} \subseteq UNION closed[c]
    <3>1. PICK now : now = {b \in Breaker : ~last[b]}
      OBVIOUS
    <3>2. All \in UNION closed[c] /\ now \in closed[c]
      BY <1>1, <2>2, <3>1 DEF Checks
    <3>3. check'[c] = "allowed" => Narrow[c] \in now
      BY <2>1, <2>4, <3>1
    <3> QED
      BY <3>2, <3>3
  <2>6. Checks'
    BY <1>1, <1>2, <2>2, <2>4, <2>5 DEF Checks
  <2> QED
    BY <1>3, <1>4, <2>3, <2>6 DEF BreakersInv
<1> QED
  BY <1>6, <1>7

(* The breakers say what the operators last said, and are obeyed: whatever *)
(* the interleaving of trips, resets and checks and whatever the clocks of *)
(* the servers show, the row that wins is the one committed last, the      *)
(* history alternates in the order of its times, and a check that lets     *)
(* something pass met each of its breakers closed.                         *)
THEOREM BreakersAreObeyed == BreakersSpec => []BreakersHold
<1>1. BreakersInit => BreakersInv
  BY BreakersAssumption, BreakersStart
<1>2. BreakersInv /\ [BreakersNext]_breakers => BreakersInv'
  <2> SUFFICES ASSUME BreakersInv, [BreakersNext]_breakers PROVE BreakersInv'
    OBVIOUS
  <2>1. ASSUME NEW o \in Operator, NEW b \in Breaker, NEW tripped \in BOOLEAN,
               Lock(o, b, tripped)
        PROVE  BreakersInv'
    BY <2>1, BreakersAssumption, LockStep
  <2>2. ASSUME NEW o \in Operator, Transition(o)
        PROVE  BreakersInv'
    BY <2>2, BreakersAssumption, TransitionStep
  <2>3. ASSUME NEW o \in Operator, LoseConnection(o)
        PROVE  BreakersInv'
    BY <2>3, ReleaseStep DEF LoseConnection
  <2>4. ASSUME NEW c \in Check, ReadAll(c) \/ ReadNarrow(c)
        PROVE  BreakersInv'
    BY <2>4, BreakersAssumption, ReadStep
  <2>5. CASE UNCHANGED breakers
    <3>1. /\ history' = history /\ last' = last /\ pc' = pc /\ wants' = wants
          /\ found' = found /\ check' = check /\ closed' = closed
      BY <2>5 DEF breakers
    <3>2. \A d \in Breaker : Chronicle(d)' /\ Latest(d)' = Latest(d)
      BY <3>1, ChronicleKept DEF BreakersInv
    <3>3. BreakersTypeOK' /\ Checks'
      BY <3>1 DEF BreakersInv, BreakersTypeOK, Checks
    <3>4. LockHolders'
      BY <3>1, <3>2 DEF BreakersInv, LockHolders
    <3> QED
      BY <3>2, <3>3, <3>4 DEF BreakersInv
  <2> QED
    BY <2>1, <2>2, <2>3, <2>4, <2>5 DEF BreakersNext
<1>3. BreakersInv => BreakersHold
  BY DEF BreakersInv, BreakersHold, LatestIsLast, HistoryAlternates,
         EachClosedOnce, Chronicle, Checks
<1> QED
  BY <1>1, <1>2, <1>3, PTL DEF BreakersSpec

-----------------------------------------------------------------------------
(* Timeline. *)

TimelineRow ==
  [kind : Kind, id : Nat, created : Nat, start : Nat, turn : Nat, action : Nat]

(* The rows of the worker are those of a turn, and the database dates      *)
(* actions and decisions.                                                  *)
Turns ==
  /\ rows \subseteq TimelineRow /\ open \in [Writer -> SUBSET TimelineRow]
  /\ turn \in Nat /\ time \in Nat
  /\ \A w \in Writer \ {"worker"} : \A r \in open[w] : r.turn = 0
  /\ \A r \in Written :
       /\ r.turn <= turn
       /\ r.turn = 0 => r.kind \notin {"action", "decision", "attempt"}
       /\ r.kind \in {"action", "decision"} => r.created = r.start

(* Ids are given once. *)
Ids ==
  /\ IsFiniteSet(Written)
  /\ \A r \in Written : r.id <= Cardinality(Written)
  /\ \A r, s \in Written : r.id = s.id => r = s

(* A turn has at most one action and one decision, and turns follow each   *)
(* other: the times of actions and decisions are in the order of turns.    *)
InTurn ==
  /\ \A x, y \in Written :
       x.turn = y.turn /\ x.kind = y.kind /\ x.kind \in {"action", "decision"}
         => x = y
  /\ \A a, d \in Written :
       a.kind = "action" /\ d.kind = "decision" =>
         /\ a.turn = d.turn => a.created < d.created
         /\ d.turn < a.turn => d.created < a.created
  /\ \A a, b \in Written :
       a.kind = "action" /\ b.kind = "action" /\ a.turn < b.turn =>
         a.created < b.created

(* An attempt is of an action, and begun after its turn; a turn that has    *)
(* yet to be decided has neither decision nor attempt.                     *)
AfterTurn ==
  /\ \A t \in Written :
       t.kind = "attempt" =>
         /\ \E a \in rows : /\ a.kind = "action" /\ a.id = t.action
                            /\ a.turn = t.turn /\ a.created < t.start
         /\ \A d \in Written :
              d.kind = "decision" /\ d.turn = t.turn => d.created < t.start
  /\ phase \in {"acting", "acted"} =>
       /\ turn # 0
       /\ \A r \in Written : r.kind \in {"decision", "attempt"} => r.turn < turn

Story == Turns /\ Ids /\ InTurn /\ AfterTurn

(* The kinds. *)
LEMMA KindIs ==
  /\ Kind = {"event", "decision", "action", "attempt", "review", "intervention",
             "control"}
  /\ \A k \in Kind : Name[k] \in Nat
  /\ \A i \in 1..7 : /\ Statement[i] \in Kind
                     /\ Statement[i] = "decision" <=> i = 2
                     /\ Statement[i] = "action" <=> i = 3
<1>1. \A i : i \in 1..7 <=> i \in {1, 2, 3, 4, 5, 6, 7}
  OBVIOUS
<1>2. /\ Statement[1] = "event" /\ Statement[2] = "decision"
      /\ Statement[3] = "action" /\ Statement[4] = "attempt"
      /\ Statement[5] = "review" /\ Statement[6] = "intervention"
      /\ Statement[7] = "control"
  BY DEF Statement
<1>3. Kind = {"event", "decision", "action", "attempt", "review",
              "intervention", "control"}
  BY <1>1, <1>2 DEF Kind
<1>4. \A k \in Kind : Name[k] \in Nat
  BY <1>3 DEF Name
<1> QED
  BY <1>1, <1>2, <1>3, <1>4

(* A row that a transaction begins is written, a commit writes no other. *)
LEMMA WrittenGrows ==
  ASSUME NEW w, NEW n, open \in [Writer -> SUBSET TimelineRow], Begin(w, {n})
  PROVE  Written' = Written \cup {n}
<1>1. /\ w \in Writer /\ open[w] = {} /\ rows' = rows
      /\ open' = [open EXCEPT ![w] = {n}]
  BY DEF Begin
<1>2. open'[w] = {n} /\ \A v \in Writer \ {w} : open'[v] = open[v]
  BY <1>1
<1>3. ASSUME NEW x
      PROVE  x \in Written' <=> x \in Written \cup {n}
  <2>1. x \in Written' <=> x \in rows \/ \E v \in Writer : x \in open'[v]
    BY <1>1 DEF Written
  <2>2. x \in Written <=> x \in rows \/ \E v \in Writer : x \in open[v]
    BY DEF Written
  <2>3. (\E v \in Writer : x \in open'[v]) <=>
          x = n \/ \E v \in Writer : x \in open[v]
    BY <1>1, <1>2
  <2> QED
    BY <2>1, <2>2, <2>3
<1> QED
  BY <1>3

(* A commit changes nothing of what is written. *)
LEMMA WrittenStays ==
  ASSUME NEW w \in Writer, open \in [Writer -> SUBSET TimelineRow], Commit(w)
  PROVE  Written' = Written
<1>1. rows' = rows \cup open[w] /\ open' = [open EXCEPT ![w] = {}]
  BY DEF Commit
<1>2. open'[w] = {} /\ \A v \in Writer \ {w} : open'[v] = open[v]
  BY <1>1
<1>3. ASSUME NEW x
      PROVE  x \in Written' <=> x \in Written
  <2>1. x \in Written' <=> x \in rows' \/ \E v \in Writer : x \in open'[v]
    BY DEF Written
  <2>2. x \in Written <=> x \in rows \/ \E v \in Writer : x \in open[v]
    BY DEF Written
  <2> QED
    BY <1>1, <1>2, <2>1, <2>2
<1> QED
  BY <1>3

(* A row that is begun has an id of its own. *)
LEMMA BeginIds ==
  ASSUME Turns, Ids, NEW w, NEW k \in Kind, NEW t \in Nat, NEW a \in Nat,
         NEW c \in Nat, Begin(w, {Row(k, t, a, c)})
  PROVE  /\ Ids' /\ Row(k, t, a, c) \in TimelineRow
         /\ Row(k, t, a, c) \notin Written
         /\ Written' = Written \cup {Row(k, t, a, c)}
<1>1. PICK n : n = Row(k, t, a, c)
  OBVIOUS
<1>2. PICK W : W = Written
  OBVIOUS
<1>3. IsFiniteSet(W) /\ Cardinality(W) \in Nat
  BY <1>2, FS_CardinalityType DEF Ids
<1>4. /\ n \in TimelineRow /\ n.id = Cardinality(W) + 1
  BY <1>1, <1>2, <1>3 DEF Row, TimelineRow, Turns
<1>5. \A r \in W : r.id \in Nat /\ r.id <= Cardinality(W)
  BY <1>2 DEF Turns, Ids, Written, TimelineRow
<1>6. n \notin W
  BY <1>3, <1>4, <1>5
<1>7. Written' = W \cup {n}
  BY <1>1, <1>2, WrittenGrows DEF Turns
<1>8. IsFiniteSet(W \cup {n}) /\ Cardinality(W \cup {n}) = Cardinality(W) + 1
  BY <1>3, <1>6, FS_AddElement
<1>9. Ids'
  <2>1. \A r \in W \cup {n} : r.id <= Cardinality(W) + 1
    BY <1>3, <1>4, <1>5
  <2>2. \A r, s \in W \cup {n} : r.id = s.id => r = s
    BY <1>2, <1>3, <1>4, <1>5 DEF Ids
  <2> QED
    BY <1>7, <1>8, <2>1, <2>2 DEF Ids
<1> QED
  BY <1>1, <1>2, <1>4, <1>6, <1>7, <1>9

(* What a worker begins is later than all it wrote. *)
LEMMA WorkerIsLater ==
  ASSUME Turns, NEW new, Begin("worker", new)
  PROVE  \A r \in Written : r.turn # 0 => r.start < time
<1>1. /\ open["worker"] = {}
      /\ \A r \in rows : r.turn # 0 => r.start < time
  BY DEF Begin
<1>2. \A r \in Written : r.turn # 0 => r \in rows
  BY <1>1 DEF Turns, Written
<1> QED
  BY <1>1, <1>2

(* The rows of other writers are of no turn. *)
LEMMA BeginTurns ==
  ASSUME Turns, Ids, NEW w, NEW k \in Kind, NEW t \in Nat, NEW a \in Nat,
         NEW c \in Nat, Begin(w, {Row(k, t, a, c)}),
         turn' \in Nat, turn <= turn', t <= turn', w # "worker" => t = 0,
         t = 0 => k \notin {"action", "decision", "attempt"},
         k \in {"action", "decision"} => c = time
  PROVE  Turns'
<1>1. PICK n : n = Row(k, t, a, c)
  OBVIOUS
<1>2. /\ n \in TimelineRow /\ n.kind = k /\ n.turn = t /\ n.created = c
      /\ n.start = time /\ Written' = Written \cup {n}
  <2>1. n \in TimelineRow /\ Written' = Written \cup {n}
    BY <1>1, BeginIds
  <2>2. n.kind = k /\ n.turn = t /\ n.created = c /\ n.start = time
    BY <1>1 DEF Row
  <2> QED
    BY <2>1, <2>2
<1>3. /\ w \in Writer /\ rows' = rows /\ time' = time
      /\ open' = [open EXCEPT ![w] = {n}]
  BY <1>1 DEF Begin
<1>4. open' \in [Writer -> SUBSET TimelineRow]
  BY <1>2, <1>3 DEF Turns
<1>5. open'[w] = {n} /\ \A v \in Writer \ {w} : open'[v] = open[v]
  BY <1>3 DEF Turns
<1>6. \A v \in Writer \ {"worker"} : \A r \in open'[v] : r.turn = 0
  BY <1>2, <1>5 DEF Turns
<1>7. \A r \in Written : r.turn \in Nat
  BY DEF Turns, Written, TimelineRow
<1>8. ASSUME NEW r \in Written'
      PROVE  /\ r.turn <= turn'
             /\ r.turn = 0 => r.kind \notin {"action", "decision", "attempt"}
             /\ r.kind \in {"action", "decision"} => r.created = r.start
  BY <1>2, <1>7, <1>8 DEF Turns
<1> QED
  BY <1>3, <1>4, <1>6, <1>8 DEF Turns

(* persist_agent_actions begins a turn. *)
LEMMA ActStory ==
  ASSUME Story, Act
  PROVE  Story'
<1>1. PICK n : n = Row("action", turn + 1, 0, time)
  OBVIOUS
<1>2. Begin("worker", {n}) /\ turn' = turn + 1 /\ phase' = "acting"
  BY <1>1 DEF Act
<1>3. turn \in Nat /\ time \in Nat /\ Turns /\ Ids
  BY DEF Story, Turns
<1>4. Ids' /\ n \in TimelineRow /\ Written' = Written \cup {n} /\ rows' = rows
  <2>1. "action" \in Kind /\ turn + 1 \in Nat /\ 0 \in Nat
    BY <1>3, KindIs
  <2> QED
    BY <1>1, <1>2, <1>3, <2>1, BeginIds DEF Begin
<1>5. n.kind = "action" /\ n.turn = turn + 1 /\ n.created = time
      /\ n.start = time
  BY <1>1 DEF Row
<1>6. Turns'
  <2>1. "action" \in Kind /\ turn + 1 \in Nat /\ 0 \in Nat /\ turn <= turn'
        /\ turn' \in Nat /\ turn + 1 <= turn' /\ turn + 1 # 0
    BY <1>2, <1>3, KindIs
  <2> QED
    BY <1>1, <1>2, <1>3, <2>1, BeginTurns
<1>7. \A r \in Written : /\ r.turn \in Nat /\ r.turn <= turn /\ r.created \in Nat
                         /\ r.kind \in {"action", "decision", "attempt"} =>
                              r.turn # 0 /\ r.start < time
                         /\ r.kind \in {"action", "decision"} => r.created < time
  BY <1>2, <1>3, WorkerIsLater DEF Turns, Written, TimelineRow
<1>8. InTurn'
  <2>1. ASSUME NEW x \in Written', NEW y \in Written', x.turn = y.turn,
               x.kind = y.kind, x.kind \in {"action", "decision"}
        PROVE  x = y
    BY <1>3, <1>4, <1>5, <1>7, <2>1 DEF Story, InTurn
  <2>2. ASSUME NEW a \in Written', NEW d \in Written',
               a.kind = "action", d.kind = "decision"
        PROVE  /\ a.turn = d.turn => a.created < d.created
               /\ d.turn < a.turn => d.created < a.created
    BY <1>3, <1>4, <1>5, <1>7, <2>2 DEF Story, InTurn
  <2>3. ASSUME NEW a \in Written', NEW b \in Written',
               a.kind = "action", b.kind = "action", a.turn < b.turn
        PROVE  a.created < b.created
    BY <1>3, <1>4, <1>5, <1>7, <2>3 DEF Story, InTurn
  <2> QED
    BY <2>1, <2>2, <2>3 DEF InTurn
<1>9. AfterTurn'
  <2>1. ASSUME NEW t \in Written', t.kind = "attempt"
        PROVE  /\ \E a \in rows' : /\ a.kind = "action" /\ a.id = t.action
                                   /\ a.turn = t.turn /\ a.created < t.start
               /\ \A d \in Written' : d.kind = "decision" /\ d.turn = t.turn =>
                    d.created < t.start
    BY <1>4, <1>5, <2>1 DEF Story, AfterTurn
  <2>2. \A r \in Written' : r.kind \in {"decision", "attempt"} => r.turn < turn'
    BY <1>2, <1>3, <1>4, <1>5, <1>7
  <2>3. turn' # 0
    BY <1>2, <1>3
  <2> QED
    BY <2>1, <2>2, <2>3 DEF AfterTurn
<1> QED
  BY <1>4, <1>6, <1>8, <1>9 DEF Story

(* persist_process_state decides the turn, record_process_intervention     *)
(* leaves it undecided.                                                    *)
LEMMA SettleStory ==
  ASSUME Story, Settle
  PROVE  Story'
<1>1. PICK k \in {"decision", "intervention"} :
        Begin("worker", {Row(k, turn, 0, time)})
  BY DEF Settle
<1>2. PICK n : n = Row(k, turn, 0, time)
  OBVIOUS
<1>3. phase = "acted" /\ phase' = "settling" /\ turn' = turn
  BY DEF Settle
<1>4. turn \in Nat /\ time \in Nat /\ Turns /\ Ids
  BY DEF Story, Turns
<1>5. Ids' /\ n \in TimelineRow /\ Written' = Written \cup {n} /\ rows' = rows
  <2>1. k \in Kind /\ 0 \in Nat
    BY KindIs
  <2> QED
    BY <1>1, <1>2, <1>4, <2>1, BeginIds DEF Begin
<1>6. n.kind = k /\ n.turn = turn /\ n.created = time
      /\ n.start = time
  BY <1>2 DEF Row
<1>7. turn # 0 /\ \A r \in Written :
        r.kind \in {"decision", "attempt"} => r.turn < turn
  BY <1>3 DEF Story, AfterTurn
<1>8. Turns'
  <2>1. k \in Kind /\ 0 \in Nat /\ turn <= turn' /\ turn' \in Nat
    BY <1>3, <1>4, KindIs
  <2> QED
    BY <1>1, <1>3, <1>4, <1>7, <2>1, BeginTurns
<1>9. \A r \in Written : /\ r.turn \in Nat /\ r.turn <= turn /\ r.created \in Nat
                         /\ r.kind \in {"action", "decision", "attempt"} =>
                              r.turn # 0 /\ r.start < time
                         /\ r.kind \in {"action", "decision"} => r.created < time
  BY <1>1, <1>4, WorkerIsLater DEF Turns, Written, TimelineRow
<1>10. InTurn'
  <2>1. ASSUME NEW x \in Written', NEW y \in Written', x.turn = y.turn,
               x.kind = y.kind, x.kind \in {"action", "decision"}
        PROVE  x = y
    BY <1>1, <1>4, <1>5, <1>6, <1>7, <1>9, <2>1 DEF Story, InTurn
  <2>2. ASSUME NEW a \in Written', NEW d \in Written',
               a.kind = "action", d.kind = "decision"
        PROVE  /\ a.turn = d.turn => a.created < d.created
               /\ d.turn < a.turn => d.created < a.created
    BY <1>1, <1>4, <1>5, <1>6, <1>9, <2>2 DEF Story, InTurn
  <2>3. ASSUME NEW a \in Written', NEW b \in Written',
               a.kind = "action", b.kind = "action", a.turn < b.turn
        PROVE  a.created < b.created
    BY <1>1, <1>5, <1>6, <2>3 DEF Story, InTurn
  <2> QED
    BY <2>1, <2>2, <2>3 DEF InTurn
<1>11. AfterTurn'
  <2>1. ASSUME NEW t \in Written', t.kind = "attempt"
        PROVE  /\ \E a \in rows' : /\ a.kind = "action" /\ a.id = t.action
                                   /\ a.turn = t.turn /\ a.created < t.start
               /\ \A d \in Written' : d.kind = "decision" /\ d.turn = t.turn =>
                    d.created < t.start
    <3>1. t \in Written /\ t.turn < turn
      BY <1>1, <1>5, <1>6, <1>7, <2>1
    <3> QED
      BY <1>4, <1>5, <1>6, <1>9, <2>1, <3>1 DEF Story, AfterTurn
  <2> QED
    BY <1>3, <2>1 DEF AfterTurn
<1> QED
  BY <1>5, <1>8, <1>10, <1>11 DEF Story

(* execute_action writes an attempt of an action between turns. *)
LEMMA AttemptStory ==
  ASSUME Story, Attempt
  PROVE  Story'
<1>1. PICK a \in Actions, c \in Elsewhere :
        Begin("worker", {Row("attempt", a.turn, a.id, c)})
  BY DEF Attempt
<1>2. PICK n : n = Row("attempt", a.turn, a.id, c)
  OBVIOUS
<1>3. phase' = "settling" /\ turn' = turn
  BY DEF Attempt
<1>4. turn \in Nat /\ time \in Nat /\ Turns /\ Ids
  BY DEF Story, Turns
<1>5. /\ a \in rows /\ a \in Written /\ a.kind = "action" /\ a.turn \in Nat
      /\ a.id \in Nat /\ a.turn # 0 /\ a.turn <= turn /\ c \in Nat
  BY <1>4 DEF Actions, Turns, Written, TimelineRow, Elsewhere
<1>6. Ids' /\ n \in TimelineRow /\ Written' = Written \cup {n} /\ rows' = rows
  <2>1. "attempt" \in Kind
    BY KindIs
  <2> QED
    BY <1>1, <1>2, <1>4, <1>5, <2>1, BeginIds DEF Begin
<1>7. /\ n.kind = "attempt" /\ n.turn = a.turn /\ n.action = a.id
      /\ n.start = time
  BY <1>2 DEF Row
<1>8. Turns'
  <2>1. "attempt" \in Kind /\ turn <= turn' /\ turn' \in Nat
    BY <1>3, <1>4, KindIs
  <2> QED
    BY <1>1, <1>3, <1>4, <1>5, <2>1, BeginTurns
<1>9. \A r \in Written : r.kind \in {"action", "decision"} => r.created < time
  BY <1>1, <1>4, WorkerIsLater DEF Turns
<1>10. InTurn'
  BY <1>6, <1>7 DEF Story, InTurn
<1>11. AfterTurn'
  <2>1. ASSUME NEW t \in Written', t.kind = "attempt"
        PROVE  /\ \E x \in rows' : /\ x.kind = "action" /\ x.id = t.action
                                   /\ x.turn = t.turn /\ x.created < t.start
               /\ \A d \in Written' : d.kind = "decision" /\ d.turn = t.turn =>
                    d.created < t.start
    <3>1. CASE t = n
      BY <1>5, <1>6, <1>7, <1>9, <3>1
    <3>2. CASE t \in Written
      BY <1>6, <1>7, <2>1, <3>2 DEF Story, AfterTurn
    <3> QED
      BY <1>6, <3>1, <3>2
  <2> QED
    BY <1>3, <2>1 DEF AfterTurn
<1> QED
  BY <1>6, <1>8, <1>10, <1>11 DEF Story

(* Ingestion and operators write rows of no turn. *)
LEMMA OtherStory ==
  ASSUME Story, NEW w, NEW k \in {"event", "review", "control"}, NEW a \in Nat,
         NEW c \in Nat, Begin(w, {Row(k, 0, a, c)}), w # "worker",
         UNCHANGED <<phase, turn>>
  PROVE  Story'
<1>1. PICK n : n = Row(k, 0, a, c)
  OBVIOUS
<1>2. turn \in Nat /\ Turns /\ Ids /\ k \in Kind /\ 0 \in Nat
  BY KindIs DEF Story, Turns
<1>3. Ids' /\ n \in TimelineRow /\ Written' = Written \cup {n} /\ rows' = rows
  BY <1>1, <1>2, BeginIds DEF Begin
<1>4. n.kind = k
  BY <1>1 DEF Row
<1>5. Turns'
  BY <1>2, BeginTurns
<1>6. InTurn'
  BY <1>3, <1>4 DEF Story, InTurn
<1>7. AfterTurn'
  BY <1>3, <1>4 DEF Story, AfterTurn
<1> QED
  BY <1>3, <1>5, <1>6, <1>7 DEF Story

(* A commit shows what was written. *)
LEMMA CommitStory ==
  ASSUME Story, NEW w \in Writer, Commit(w)
  PROVE  Story'
<1>1. /\ rows' = rows \cup open[w] /\ open' = [open EXCEPT ![w] = {}]
      /\ phase' \in {"acting", "acted"} => phase \in {"acting", "acted"}
      /\ turn' = turn /\ time' = time
  BY DEF Commit
<1>2. Written' = Written
  BY WrittenStays DEF Story, Turns
<1>3. Turns'
  <2>1. rows' \subseteq TimelineRow /\ open' \in [Writer -> SUBSET TimelineRow]
    BY <1>1 DEF Story, Turns
  <2>2. \A v \in Writer : open'[v] \subseteq open[v]
    BY <1>1 DEF Story, Turns
  <2> QED
    BY <1>1, <1>2, <2>1, <2>2 DEF Story, Turns
<1>4. Ids' /\ InTurn'
  BY <1>2 DEF Story, Ids, InTurn
<1>5. AfterTurn'
  BY <1>1, <1>2 DEF Story, AfterTurn
<1> QED
  BY <1>3, <1>4, <1>5 DEF Story

(* The lexicographic order, written out. *)
LEMMA LessIs ==
  ASSUME NEW a, NEW b
  PROVE  Less(a, b) <=>
           \/ a[1] < b[1]
           \/ a[1] = b[1] /\ a[2] < b[2]
           \/ a[1] = b[1] /\ a[2] = b[2] /\ a[3] < b[3]
           \/ a[1] = b[1] /\ a[2] = b[2] /\ a[3] = b[3] /\ a[4] < b[4]
<1>1. \A i : i \in 1 .. 4 <=> i \in {1, 2, 3, 4}
  OBVIOUS
<1>2. /\ \A j : j \in 1 .. (1 - 1) <=> FALSE
      /\ \A j : j \in 1 .. (2 - 1) <=> j = 1
      /\ \A j : j \in 1 .. (3 - 1) <=> j \in {1, 2}
      /\ \A j : j \in 1 .. (4 - 1) <=> j \in {1, 2, 3}
  OBVIOUS
<1>3. Less(a, b) <=> \E i \in {1, 2, 3, 4} :
        a[i] < b[i] /\ \A j \in 1 .. (i - 1) : a[j] = b[j]
  BY <1>1 DEF Less
<1>4. Less(a, b) <=>
        \/ a[1] < b[1] /\ \A j \in 1 .. (1 - 1) : a[j] = b[j]
        \/ a[2] < b[2] /\ \A j \in 1 .. (2 - 1) : a[j] = b[j]
        \/ a[3] < b[3] /\ \A j \in 1 .. (3 - 1) : a[j] = b[j]
        \/ a[4] < b[4] /\ \A j \in 1 .. (4 - 1) : a[j] = b[j]
  BY <1>3
<1> QED
  BY <1>2, <1>4

(* When a row is shown to have occurred. *)
LEMMA Occurs ==
  ASSUME Story, NEW r \in rows
  PROVE  /\ OccurredAt(r) \in Nat
         /\ r.kind # "action" => OccurredAt(r) = r.created
         /\ r.kind = "action" =>
              \A d \in rows : d.kind = "decision" /\ d.turn = r.turn =>
                OccurredAt(r) = d.created
         /\ \/ OccurredAt(r) = r.created
            \/ \E d \in rows : /\ d.kind = "decision" /\ d.turn = r.turn
                               /\ r.kind = "action"
                               /\ OccurredAt(r) = d.created
<1>1. \A x \in rows : x \in Written /\ x.created \in Nat
  BY DEF Story, Turns, Written, TimelineRow
<1>2. PICK decided : decided = {d \in rows : d.kind = "decision" /\ d.turn = r.turn}
  OBVIOUS
<1>3. PICK c : c = CHOOSE d \in decided : TRUE
  OBVIOUS
<1>4. OccurredAt(r) = IF r.kind = "action" /\ decided # {}
                      THEN c.created ELSE r.created
  BY <1>2, <1>3 DEF OccurredAt
<1>5. decided # {} => c \in decided
  BY <1>3
<1>6. \A d \in decided : d = c
  BY <1>1, <1>2, <1>5 DEF Story, InTurn
<1>7. CASE r.kind = "action" /\ decided # {}
  BY <1>1, <1>2, <1>4, <1>5, <1>6, <1>7
<1>8. CASE ~(r.kind = "action" /\ decided # {})
  <2>1. OccurredAt(r) = r.created
    BY <1>4, <1>8
  <2>2. r.kind = "action" => \A d \in rows : ~(d.kind = "decision" /\ d.turn = r.turn)
    BY <1>2, <1>8
  <2> QED
    BY <1>1, <2>1, <2>2
<1> QED
  BY <1>7, <1>8

(* Rows of one kind occurred in the order of their times: an action that   *)
(* was proposed later is also decided later.                               *)
LEMMA KindsInOrder ==
  ASSUME Story, NEW x \in rows, NEW y \in rows, x.kind = y.kind,
         y.created <= x.created
  PROVE  OccurredAt(y) <= OccurredAt(x)
<1>1. \A r \in rows : /\ r \in Written /\ r.created \in Nat /\ r.turn \in Nat
                      /\ OccurredAt(r) \in Nat
  BY Occurs DEF Story, Turns, Written, TimelineRow
<1>2. CASE x.kind # "action"
  BY <1>2, Occurs
<1>3. CASE x.kind = "action" /\ x.turn = y.turn
  <2>1. x = y
    BY <1>1, <1>3 DEF Story, InTurn
  <2> QED
    BY <1>1, <2>1
<1>4. CASE x.kind = "action" /\ x.turn # y.turn
  <2>1. y.turn < x.turn
    <3>1. x.turn < y.turn => x.created < y.created
      BY <1>1, <1>4 DEF Story, InTurn
    <3> QED
      BY <1>1, <1>4, <3>1
  <2>2. x.created <= OccurredAt(x)
    BY <1>1, <1>4, Occurs DEF Story, InTurn
  <2>3. OccurredAt(y) <= x.created
    <3>1. CASE OccurredAt(y) = y.created
      BY <3>1
    <3>2. CASE \E d \in rows : /\ d.kind = "decision" /\ d.turn = y.turn
                               /\ OccurredAt(y) = d.created
      BY <1>1, <1>4, <2>1, <3>2 DEF Story, InTurn
    <3> QED
      BY <3>1, <3>2, Occurs
  <2> QED
    BY <1>1, <2>2, <2>3
<1> QED
  BY <1>2, <1>3, <1>4

Item == [row : TimelineRow, at : Nat]

(* The order of items: by when they occurred, then actions last. *)
LEMMA Ordered ==
  ASSUME NEW x \in Item, NEW y \in Item
  PROVE  /\ x.at < y.at => Precedes(x, y)
         /\ x.at = y.at /\ x.row.kind # "action" /\ y.row.kind = "action"
              => Precedes(x, y)
         /\ ~Precedes(x, x)
         /\ \A z \in Item : Precedes(x, y) /\ Precedes(y, z) => Precedes(x, z)
<1> DEFINE A(r) == IF r.row.kind = "action" THEN 1 ELSE 0
           N(r) == Name[r.row.kind]
<1>1. \A r \in Item : A(r) \in Nat
  OBVIOUS
<1>2. \A r \in Item : r.at \in Nat /\ r.row.kind \in Kind /\ r.row.id \in Nat
  BY DEF Item, TimelineRow
<1>3. \A r \in Item : N(r) \in Nat
  BY <1>2, KindIs
<1>4. \A r \in Item : SortKey(r) = <<r.at, A(r), N(r), r.row.id>>
  BY DEF SortKey
<1>5. x.row.kind # "action" /\ y.row.kind = "action" => A(x) < A(y)
  OBVIOUS
<1> HIDE DEF A, N
<1>6. \A r, s \in Item : Precedes(r, s) <=>
        \/ r.at < s.at
        \/ r.at = s.at /\ A(r) < A(s)
        \/ r.at = s.at /\ A(r) = A(s) /\ N(r) < N(s)
        \/ r.at = s.at /\ A(r) = A(s) /\ N(r) = N(s) /\ r.row.id < s.row.id
  <2> SUFFICES ASSUME NEW r \in Item, NEW s \in Item
               PROVE  Precedes(r, s) <=>
        \/ r.at < s.at
        \/ r.at = s.at /\ A(r) < A(s)
        \/ r.at = s.at /\ A(r) = A(s) /\ N(r) < N(s)
        \/ r.at = s.at /\ A(r) = A(s) /\ N(r) = N(s) /\ r.row.id < s.row.id
    OBVIOUS
  <2>1. PICK a, b : /\ a = <<r.at, A(r), N(r), r.row.id>>
                    /\ b = <<s.at, A(s), N(s), s.row.id>>
    OBVIOUS
  <2>2. /\ a[1] = r.at /\ a[2] = A(r) /\ a[3] = N(r) /\ a[4] = r.row.id
        /\ b[1] = s.at /\ b[2] = A(s) /\ b[3] = N(s) /\ b[4] = s.row.id
    BY <2>1
  <2>3. Precedes(r, s) <=> Less(a, b)
    BY <1>4, <2>1 DEF Precedes
  <2>4. Less(a, b) <=>
        \/ a[1] < b[1]
        \/ a[1] = b[1] /\ a[2] < b[2]
        \/ a[1] = b[1] /\ a[2] = b[2] /\ a[3] < b[3]
        \/ a[1] = b[1] /\ a[2] = b[2] /\ a[3] = b[3] /\ a[4] < b[4]
    BY LessIs
  <2> QED
    BY <2>2, <2>3, <2>4
<1>7. /\ x.at < y.at => Precedes(x, y)
      /\ x.at = y.at /\ A(x) < A(y) => Precedes(x, y)
      /\ ~Precedes(x, x)
  BY <1>1, <1>2, <1>3, <1>6
<1>8. ASSUME NEW z \in Item, Precedes(x, y), Precedes(y, z)
      PROVE  Precedes(x, z)
  BY <1>1, <1>2, <1>3, <1>6, <1>8
<1> QED
  BY <1>5, <1>7, <1>8

-----------------------------------------------------------------------------
(* What the statements of a request have found so far.                     *)

(* An item stands for a committed row, and an action carries its own time  *)
(* or that of a decision of its turn.                                      *)
Dated ==
  \A x \in seen :
    /\ x.row \in rows
    /\ x.row.kind # "action" => x.at = x.row.created
    /\ \/ x.at = x.row.created
       \/ \E d \in rows : /\ d.kind = "decision" /\ d.turn = x.row.turn
                          /\ x.at = d.created

(* Decisions are read before actions, so an action has the time of its     *)
(* decision whenever that was found.                                       *)
DecisionFirst ==
  /\ step <= 2 => \A x \in seen : x.row.kind # "action"
  /\ \A d, a \in seen :
       d.row.kind = "decision" /\ a.row.kind = "action" /\ d.row.turn = a.row.turn
         => a.at = d.at

(* What a LIMIT cut off has as many items after it as are shown. *)
Behind ==
  \A y \in seen \ picked :
    \E S \in SUBSET picked : Cardinality(S) = Limit /\ \A z \in S : y.at <= z.at

ReadOK ==
  /\ step \in 0..7
  /\ seen \subseteq Item /\ IsFiniteSet(seen) /\ picked \subseteq seen
  /\ Dated /\ DecisionFirst /\ Behind
  /\ shown = IF step = 7 THEN Last(picked) ELSE {}

(* Commits between the statements leave what was read as it is. *)
LEMMA ReadStays ==
  ASSUME ReadOK, UNCHANGED reading, rows \subseteq rows'
  PROVE  ReadOK'
<1>1. step' = step /\ seen' = seen /\ picked' = picked /\ shown' = shown
  BY DEF reading
<1>2. Dated'
  BY <1>1 DEF ReadOK, Dated
<1>3. DecisionFirst' /\ Behind'
  BY <1>1 DEF ReadOK, DecisionFirst, Behind
<1>4. shown' = IF step' = 7 THEN Last(picked)' ELSE {}
  BY <1>1 DEF ReadOK, Last, Precedes, SortKey
<1> QED
  BY <1>1, <1>2, <1>3, <1>4 DEF ReadOK

(* A statement finds committed rows of its kind, as they are dated then. *)
LEMMA FoundIs ==
  ASSUME Story, NEW k
  PROVE  /\ Found(k) \subseteq Item /\ IsFiniteSet(Found(k))
         /\ \A x \in Found(k) : /\ x.row \in rows /\ x.row.kind = k
                                /\ x.at = OccurredAt(x.row)
<1>1. PICK Q : Q = {q \in rows : q.kind = k}
  OBVIOUS
<1>2. IsFiniteSet(Q)
  <2>1. Q \subseteq Written
    BY <1>1 DEF Written
  <2> QED
    BY <2>1, FS_Subset DEF Story, Ids
<1>3. Found(k) = {[row |-> r, at |-> OccurredAt(r)] : r \in Q}
  BY <1>1 DEF Found
<1>4. IsFiniteSet(Found(k))
  <2>1. PICK f : f = [r \in Q |-> [row |-> r, at |-> OccurredAt(r)]]
    OBVIOUS
  <2>2. f \in Surjection(Q, Found(k))
    BY <1>3, <2>1 DEF Surjection
  <2> QED
    BY <1>2, <2>2, FS_Surjection
<1>5. ASSUME NEW x \in Found(k)
      PROVE  /\ x \in Item /\ x.row \in rows /\ x.row.kind = k
             /\ x.at = OccurredAt(x.row)
  <2>1. PICK r \in rows : r.kind = k /\ x = [row |-> r, at |-> OccurredAt(r)]
    BY <1>1, <1>3
  <2>2. r \in TimelineRow /\ OccurredAt(r) \in Nat
    BY Occurs DEF Story, Turns
  <2> QED
    BY <2>1, <2>2 DEF Item
<1> QED
  BY <1>4, <1>5

(* What the LIMIT of a statement cuts off is behind Limit items of it. *)
LEMMA NewestFirst ==
  ASSUME TimelineAssumption, Story, NEW k, NEW S \in SUBSET Found(k),
         NewestOf(S, Found(k)), NEW y \in Found(k) \ S
  PROVE  Cardinality(S) = Limit /\ \A z \in S : y.at <= z.at
<1>1. PICK K : K = Found(k)
  OBVIOUS
<1>2. IsFiniteSet(K) /\ S \subseteq K /\ S # K
  BY <1>1, FoundIs
<1>3. Cardinality(S) # Cardinality(K)
  BY <1>2, FS_Subset
<1>4. Cardinality(S) = Limit
  BY <1>1, <1>3 DEF NewestOf
<1>5. ASSUME NEW z \in S
      PROVE  y.at <= z.at
  <2>1. y.row.created <= z.row.created
    BY <1>1 DEF NewestOf
  <2>2. /\ y.row \in rows /\ z.row \in rows /\ y.row.kind = z.row.kind
        /\ y.at = OccurredAt(y.row) /\ z.at = OccurredAt(z.row)
    BY FoundIs
  <2> QED
    BY <2>1, <2>2, KindsInOrder
<1> QED
  BY <1>4, <1>5

(* The next statement. *)
LEMMA Loaded ==
  ASSUME TimelineAssumption, Story, ReadOK, LoadTimeline
  PROVE  ReadOK'
<1>1. PICK k : k = Statement[step + 1]
  OBVIOUS
<1>2. PICK K : K = Found(k)
  OBVIOUS
<1>3. PICK S \in SUBSET K : /\ NewestOf(S, K)
                           /\ seen' = seen \cup K /\ picked' = picked \cup S
  BY <1>1, <1>2 DEF LoadTimeline
<1>4. /\ step \in 0..6 /\ step' = step + 1 /\ rows' = rows
      /\ shown' = IF step = 6 THEN Last(picked') ELSE {}
  BY DEF LoadTimeline, ReadOK
<1>5. /\ K \subseteq Item /\ IsFiniteSet(K)
      /\ \A x \in K : /\ x.row \in rows /\ x.row.kind = k
                      /\ x.at = OccurredAt(x.row)
  BY <1>2, FoundIs
<1>6. /\ k = "decision" <=> step = 1
      /\ k = "action" <=> step = 2
  <2>1. step + 1 \in 1..7
    BY <1>4
  <2> QED
    BY <1>1, <1>4, <2>1, KindIs
<1>7. /\ seen' \subseteq Item /\ IsFiniteSet(seen') /\ picked' \subseteq seen'
  BY <1>3, <1>5, FS_Union DEF ReadOK
<1>8. Dated'
  <2>1. ASSUME NEW x \in K
        PROVE  /\ x.row \in rows
               /\ x.row.kind # "action" => x.at = x.row.created
               /\ \/ x.at = x.row.created
                  \/ \E d \in rows : /\ d.kind = "decision"
                                     /\ d.turn = x.row.turn
                                     /\ x.at = d.created
    BY <1>5, Occurs
  <2> QED
    BY <1>3, <1>4, <2>1 DEF ReadOK, Dated
<1>9. DecisionFirst'
  <2>1. ASSUME step' <= 2, NEW x \in seen'
        PROVE  x.row.kind # "action"
    BY <1>3, <1>4, <1>5, <1>6, <2>1 DEF ReadOK, DecisionFirst
  <2>2. ASSUME NEW d \in seen', NEW a \in seen', d.row.kind = "decision",
               a.row.kind = "action", d.row.turn = a.row.turn
        PROVE  a.at = d.at
    <3>1. CASE a \in K
      <4>1. step = 2 /\ d \in seen
        BY <1>3, <1>5, <1>6, <2>2, <3>1
      <4>2. d.row \in rows /\ d.at = d.row.created
        BY <2>2, <4>1 DEF ReadOK, Dated
      <4>3. a.row \in rows /\ a.at = OccurredAt(a.row)
        BY <1>5, <3>1
      <4> QED
        BY <2>2, <4>2, <4>3, Occurs
    <3>2. CASE a \in seen
      <4>1. ~(step <= 2)
        BY <2>2, <3>2 DEF ReadOK, DecisionFirst
      <4>2. d \in seen
        BY <1>3, <1>4, <1>5, <1>6, <2>2, <4>1
      <4> QED
        BY <2>2, <3>2, <4>2 DEF ReadOK, DecisionFirst
    <3> QED
      BY <1>3, <3>1, <3>2
  <2> QED
    BY <2>1, <2>2 DEF DecisionFirst
<1>10. Behind'
  <2> SUFFICES ASSUME NEW y \in seen' \ picked'
               PROVE  \E T \in SUBSET picked' :
                        Cardinality(T) = Limit /\ \A z \in T : y.at <= z.at
    BY DEF Behind
  <2>1. CASE y \in seen \ picked
    BY <1>3, <2>1 DEF ReadOK, Behind
  <2>2. CASE y \in K \ S
    <3>1. Cardinality(S) = Limit /\ \A z \in S : y.at <= z.at
      BY <1>2, <1>3, <2>2, NewestFirst
    <3> QED
      BY <1>3, <3>1
  <2> QED
    BY <1>3, <2>1, <2>2
<1>11. shown' = IF step' = 7 THEN Last(picked') ELSE {}
  BY <1>4
<1> QED
  BY <1>4, <1>7, <1>8, <1>9, <1>10, <1>11 DEF ReadOK

(* The answer is the newest part of what was read, causes first. *)
LEMMA Faithful ==
  ASSUME TimelineAssumption, Story, ReadOK
  PROVE  TimelineIsFaithful
<1>1. /\ seen \subseteq Item /\ picked \subseteq seen /\ IsFiniteSet(picked)
      /\ Limit \in Nat
      /\ \A x \in shown :
           x \in picked /\ Cardinality({z \in picked : Precedes(x, z)}) < Limit
      /\ shown # {} => \A y \in picked \ shown :
           ~(Cardinality({z \in picked : Precedes(y, z)}) < Limit)
  <2>1. IsFiniteSet(picked)
    BY FS_Subset DEF ReadOK
  <2> QED
    BY <2>1, TimelineAssumption DEF ReadOK, Last
<1>2. ASSUME NEW x \in picked
      PROVE  /\ IsFiniteSet({z \in picked : Precedes(x, z)})
             /\ Cardinality({z \in picked : Precedes(x, z)}) \in Nat
  <2>1. {z \in picked : Precedes(x, z)} \subseteq picked
    OBVIOUS
  <2> QED
    BY <1>1, <2>1, FS_Subset, FS_CardinalityType
<1>3. ASSUME NEW x \in shown, NEW y \in seen \ shown
      PROVE  y.at <= x.at
  <2>1. x \in Item /\ y \in Item /\ x.at \in Nat /\ y.at \in Nat
    BY <1>1 DEF Item
  <2>2. SUFFICES ASSUME x.at < y.at
                 PROVE  FALSE
    BY <2>1
  <2>3. PICK X : X = {z \in picked : Precedes(x, z)}
    OBVIOUS
  <2>4. /\ IsFiniteSet(X) /\ Cardinality(X) \in Nat /\ Cardinality(X) < Limit
    BY <1>1, <1>2, <2>3
  <2>5. CASE y \in picked
    <3>1. PICK Y : Y = {z \in picked : Precedes(y, z)}
      OBVIOUS
    <3>2. IsFiniteSet(Y) /\ Cardinality(Y) \in Nat /\ ~(Cardinality(Y) < Limit)
      BY <1>1, <1>2, <1>3, <2>5, <3>1
    <3>3. Precedes(x, y)
      BY <2>1, <2>2, Ordered
    <3>4. Y \subseteq X
      BY <1>1, <2>1, <2>3, <3>1, <3>3, Ordered
    <3>5. Cardinality(Y) <= Cardinality(X)
      BY <2>4, <3>4, FS_Subset
    <3> QED
      BY <1>1, <2>4, <3>2, <3>5
  <2>6. CASE y \notin picked
    <3>1. PICK S \in SUBSET picked :
            Cardinality(S) = Limit /\ \A z \in S : y.at <= z.at
      BY <1>3, <2>6 DEF ReadOK, Behind
    <3>2. S \subseteq X
      <4> SUFFICES ASSUME NEW z \in S PROVE z \in X
        OBVIOUS
      <4>1. z \in picked /\ z \in Item /\ z.at \in Nat /\ y.at <= z.at
        BY <1>1, <3>1 DEF Item
      <4>2. x.at < z.at
        BY <2>1, <2>2, <4>1
      <4> QED
        BY <2>1, <2>3, <4>1, <4>2, Ordered
    <3>3. Cardinality(S) <= Cardinality(X)
      BY <2>4, <3>2, FS_Subset
    <3> QED
      BY <1>1, <2>4, <3>1, <3>3
  <2> QED
    BY <2>5, <2>6
<1>4. \A r \in rows : r \in Written /\ r \in TimelineRow
  BY DEF Story, Turns, Written
<1>5. ASSUME NEW x \in shown, NEW y \in shown, x.row.kind = "decision",
             y.row.kind = "action", x.row.turn = y.row.turn
      PROVE  Precedes(x, y)
  <2>1. x \in seen /\ y \in seen /\ x \in Item /\ y \in Item
    BY <1>1
  <2>2. y.at = x.at
    BY <1>5, <2>1 DEF ReadOK, DecisionFirst
  <2> QED
    BY <1>5, <2>1, <2>2, Ordered
<1>6. ASSUME NEW x \in shown, NEW y \in shown, x.row.kind = "action",
             y.row.kind = "attempt", y.row.action = x.row.id,
             y.row.start <= y.row.created
      PROVE  Precedes(x, y)
  <2>1. /\ x \in Item /\ y \in Item /\ x.row \in rows /\ y.row \in rows
        /\ y.at = y.row.created
        /\ \/ x.at = x.row.created
           \/ \E d \in rows : /\ d.kind = "decision" /\ d.turn = x.row.turn
                              /\ x.at = d.created
    BY <1>1, <1>6 DEF ReadOK, Dated
  <2>2. PICK a \in rows : /\ a.kind = "action" /\ a.id = y.row.action
                          /\ a.turn = y.row.turn /\ a.created < y.row.start
    BY <1>4, <1>6, <2>1 DEF Story, AfterTurn
  <2>3. a = x.row
    BY <1>4, <1>6, <2>1, <2>2 DEF Story, Ids
  <2>4. \A d \in rows : d.kind = "decision" /\ d.turn = y.row.turn =>
          d.created < y.row.start
    BY <1>4, <1>6, <2>1 DEF Story, AfterTurn
  <2>5. x.at < y.row.start
    BY <2>1, <2>2, <2>3, <2>4
  <2>6. x.at \in Nat /\ y.row.start \in Nat /\ y.row.created \in Nat
    BY <2>1 DEF Item, TimelineRow
  <2> QED
    BY <1>6, <2>1, <2>5, <2>6, Ordered
<1> QED
  BY <1>3, <1>5, <1>6 DEF TimelineIsFaithful, NewestAreShown, CauseFirst

(* An operator reads the end of the story, causes first: for any number of *)
(* turns, rows and writers whose transactions commit in any order, also    *)
(* between the seven statements of the request, nothing that they found    *)
(* and the limit hides is dated after an item that is shown, a decision    *)
(* comes before the actions of its turn, and an action before its attempts *)
(* save those that a worker dated before their transaction, its clock      *)
(* being behind the database's.                                            *)
THEOREM TimelineTellsTheStory == TimelineSpec => []TimelineIsFaithful
<1>1. TimelineInit => Story /\ ReadOK
  <2> SUFFICES ASSUME TimelineInit PROVE Story /\ ReadOK
    OBVIOUS
  <2>1. Written = {}
    BY DEF TimelineInit, Written
  <2>2. Turns /\ InTurn /\ AfterTurn
    BY <2>1 DEF TimelineInit, Turns, InTurn, AfterTurn
  <2>3. Ids
    BY <2>1, FS_EmptySet DEF Ids
  <2>4. ReadOK
    BY FS_EmptySet DEF TimelineInit, ReadOK, Dated, DecisionFirst, Behind
  <2> QED
    BY <2>2, <2>3, <2>4 DEF Story
<1>2. Story /\ ReadOK /\ [TimelineNext]_timeline => Story' /\ ReadOK'
  <2> SUFFICES ASSUME Story, ReadOK, [TimelineNext]_timeline
               PROVE  Story' /\ ReadOK'
    OBVIOUS
  <2>1. CASE Act
    BY <2>1, ActStory, ReadStays DEF Act, Begin
  <2>2. CASE Settle
    <3>1. UNCHANGED reading /\ rows' = rows
      BY <2>2 DEF Settle, Begin
    <3> QED
      BY <2>2, <3>1, SettleStory, ReadStays
  <2>3. CASE Attempt
    <3>1. UNCHANGED reading /\ rows' = rows
      BY <2>3 DEF Attempt, Begin
    <3> QED
      BY <2>3, <3>1, AttemptStory, ReadStays
  <2>4. CASE Ingest
    <3>1. PICK c \in Nat : Begin("ingestion", {Row("event", 0, 0, c)})
      BY <2>4 DEF Ingest, Elsewhere
    <3>2. UNCHANGED <<phase, turn>> /\ UNCHANGED reading /\ rows' = rows
      BY <2>4, <3>1 DEF Ingest, Begin
    <3> QED
      BY <3>1, <3>2, OtherStory, ReadStays
  <2>5. CASE Operate
    <3>1. PICK k \in {"review", "control"}, a \in Nat :
            Begin("operator", {Row(k, 0, a, time)})
      BY <2>5 DEF Operate, Actions, Story, Turns, TimelineRow
    <3>2. /\ UNCHANGED <<phase, turn>> /\ UNCHANGED reading /\ rows' = rows
          /\ time \in Nat
      BY <2>5, <3>1 DEF Operate, Begin, Story, Turns
    <3> QED
      BY <3>1, <3>2, OtherStory, ReadStays
  <2>6. CASE TimePasses
    <3>1. /\ rows' = rows /\ open' = open /\ phase' = phase /\ turn' = turn
          /\ time' = time + 1 /\ UNCHANGED reading
      BY <2>6 DEF TimePasses
    <3>2. Written' = Written
      BY <3>1 DEF Written
    <3>3. Story'
      BY <3>1, <3>2 DEF Story, Turns, Ids, InTurn, AfterTurn
    <3> QED
      BY <3>1, <3>3, ReadStays
  <2>7. ASSUME NEW w \in Writer, Commit(w)
        PROVE  Story' /\ ReadOK'
    BY <2>7, CommitStory, ReadStays DEF Commit
  <2>8. CASE LoadTimeline
    <3>1. /\ rows' = rows /\ open' = open /\ phase' = phase /\ turn' = turn
          /\ time' = time
      BY <2>8 DEF LoadTimeline
    <3>2. Written' = Written
      BY <3>1 DEF Written
    <3>3. Story'
      BY <3>1, <3>2 DEF Story, Turns, Ids, InTurn, AfterTurn
    <3> QED
      BY <2>8, <3>3, Loaded, TimelineAssumption
  <2>9. CASE UNCHANGED timeline
    <3>1. /\ rows' = rows /\ open' = open /\ phase' = phase /\ turn' = turn
          /\ time' = time /\ UNCHANGED reading
      BY <2>9 DEF timeline, reading
    <3>2. Written' = Written
      BY <3>1 DEF Written
    <3>3. Story'
      BY <3>1, <3>2 DEF Story, Turns, Ids, InTurn, AfterTurn
    <3> QED
      BY <3>1, <3>3, ReadStays
  <2> QED
    BY <2>1, <2>2, <2>3, <2>4, <2>5, <2>6, <2>7, <2>8, <2>9 DEF TimelineNext
<1>3. Story /\ ReadOK => TimelineIsFaithful
  BY Faithful, TimelineAssumption
<1> QED
  BY <1>1, <1>2, <1>3, PTL DEF TimelineSpec
=============================================================================
