--------------------------- MODULE IngestionProofs ---------------------------
(***************************************************************************)
(* Correlation is sound whatever the interleaving of ingress, resolutions, *)
(* moves and ends: proofs for every set of requests, commands, references  *)
(* and processes.                                                          *)
(*                                                                         *)
(* A transaction knows something about the tables (that its source event   *)
(* has no row, who owns its references, whether its process is live), and  *)
(* what it knows stays true because of a lock it holds.  The invariant has *)
(* one part about the tables, one about what each transaction holds and    *)
(* knows, and one that says that locks exclude.                            *)
(***************************************************************************)
EXTENDS Ingestion, FiniteSetTheorems, WellFoundedInduction, TLAPS

-----------------------------------------------------------------------------
(* Locks and local state. *)

(* Locks of different things are different. *)
LEMMA LockNames ==
  /\ \A k : SourceLock(k) # DeploymentLock
  /\ \A x : ReferenceLock(x) # DeploymentLock
  /\ \A p : ProcessLock(p) # DeploymentLock
  /\ \A i : CommandLock(i) # DeploymentLock
  /\ \A r : RowLock(r) # DeploymentLock
BY DEF SourceLock, ReferenceLock, ProcessLock, DeploymentLock, CommandLock,
       RowLock

(* The local state of transactions. *)
Locals ==
  /\ pc \in [Txn -> Idle \cup {"command", "source", "references", "resolve",
                               "row", "process", "insert", "assign"}]
  /\ choice \in [Txn -> Process \cup {NoOne}]
  /\ verdict \in [Txn -> Matched \cup Quarantined \cup {"none"}]
  /\ locks = [t \in Txn |-> locks[t]]

(* A step leaves the local state of u alone. *)
Same(u) ==
  /\ pc'[u] = pc[u] /\ locks'[u] = locks[u]
  /\ choice'[u] = choice[u] /\ verdict'[u] = verdict[u]

Only(t) == \A u \in Txn \ {t} : Same(u)

(* The end of a transaction is its own affair. *)
LEMMA EndEffect ==
  ASSUME Locals, NEW t \in Txn, NEW label \in Idle, End(t, label)
  PROVE  /\ Locals' /\ Only(t)
         /\ pc'[t] = label /\ locks'[t] = {}
         /\ choice'[t] = NoOne /\ verdict'[t] = "none"
BY DEF Locals, Only, Same, End, Goto

(* So is a step from one lock to the next. *)
LEMMA TakeEffect ==
  ASSUME Locals, NEW t \in Txn, NEW l, Take(t, l),
         NEW label \in {"command", "source", "references", "resolve", "row",
                        "process", "insert", "assign"},
         Goto(t, label), UNCHANGED <<choice, verdict>>
  PROVE  /\ Locals' /\ Only(t)
         /\ pc'[t] = label /\ locks'[t] = locks[t] \cup {l}
         /\ choice'[t] = choice[t] /\ verdict'[t] = verdict[t]
BY DEF Locals, Only, Same, Take, Goto

-----------------------------------------------------------------------------
(* The invariant. *)

(* A lock has one holder, but for the deployment lock that ingress shares. *)
Exclusive ==
  \A t, u \in Txn : t # u =>
    \A l \in locks[t] \cap locks[u] :
      l = DeploymentLock /\ t \notin Assigner /\ u \notin Assigner

(* The one process that the references and the event name. *)
IsMatch(r) ==
  /\ choice[r] \in Process /\ status[choice[r]] # "absent"
  /\ \A x \in Content[r].references : owner[x] \in {NoOne, choice[r]}
  /\ Content[r].process \in {NoOne, choice[r]}

(* A new process that nobody else has chosen, for references nobody owns. *)
IsFresh(r) ==
  /\ choice[r] \in Process /\ status[choice[r]] = "absent"
  /\ \A x \in Content[r].references : owner[x] = NoOne
  /\ Content[r].process = NoOne
  /\ \A u \in Txn \ {r} : choice[u] # choice[r]

(* What a request holds and knows. *)
RequestOK(r) ==
  /\ pc[r] \in {"source", "references", "resolve", "process", "insert"} =>
       DeploymentLock \in locks[r] /\ tenant.deployment = Content[r].api
  /\ pc[r] \in {"references", "resolve", "process", "insert"} =>
       SourceLock(Content[r].key) \in locks[r] /\ SameSource(r) = {}
  /\ pc[r] \in {"resolve", "process", "insert"} =>
       \A x \in Content[r].references : ReferenceLock(x) \in locks[r]
  /\ pc[r] = "process" => verdict[r] = "single_process_match" /\ IsMatch(r)
  /\ pc[r] = "insert" =>
       \/ verdict[r] \in Quarantined /\ choice[r] = NoOne
       \/ /\ verdict[r] = RecordOnly(choice[r], "single_process_match")
          /\ ProcessLock(choice[r]) \in locks[r] /\ IsMatch(r)
       \/ verdict[r] = "process_created_from_trigger" /\ IsFresh(r)
  /\ pc[r] # "internal_error"

(* What a command holds and knows. *)
CommandOK(c) ==
  /\ pc[c] \in {"source", "references", "row", "process", "insert"} =>
       /\ inbox[Resolution[c].event] # "absent"
       /\ Resolution[c].bind \subseteq Content[Resolution[c].event].references
  /\ pc[c] \in {"row", "process", "insert"} =>
       \A x \in Content[Resolution[c].event].references :
         ReferenceLock(x) \in locks[c]
  /\ pc[c] = "insert" =>
       /\ choice[c] = Resolution[c].process
       /\ ProcessLock(choice[c]) \in locks[c] /\ status[choice[c]] # "absent"
       /\ verdict[c] = RecordOnly(choice[c], "operator_quarantine_resolution")

AssignerOK(a) == pc[a] = "assign" => DeploymentLock \in locks[a]

Transactions ==
  /\ Locals /\ Exclusive
  /\ \A r \in Request : RequestOK(r)
  /\ \A c \in Command : CommandOK(c)
  /\ \A a \in Assigner : AssignerOK(a)

(* References belong to processes that exist. *)
OwnersExist == \A x \in Reference : owner[x] # NoOne => status[owner[x]] # "absent"

(* Exactly the matched events have a process. *)
RowsAssigned ==
  \A r \in Request : IF inbox[r] \in Matched THEN assigned[r] \in Process
                     ELSE assigned[r] = NoOne

(* What a command resolved was not correlated automatically. *)
ResolvedByHand ==
  \A i \in CommandId : resolution[i] # NoOne =>
    inbox[Resolution[resolution[i]].event]
      \in {"operator_quarantine_resolution", "terminal_process_record_only"}

Tables ==
  /\ OwnersExist /\ RowsAssigned /\ ResolvedByHand
  /\ OneProcessPerReference /\ NoOrphanProcess
  /\ MatchesEveryReference /\ ResolvedAsRecorded
  /\ DeliveredToItsProcess /\ NothingLeftBehind

Inv == TypeOK /\ Transactions /\ Tables

-----------------------------------------------------------------------------
(* What a transaction knows stays true while others move. *)

(* The names of the constants' parts. *)
LEMMA Parts ==
  /\ \A r \in Request :
       /\ Content[r].references \subseteq Reference
       /\ Content[r].process \in Process \cup {NoOne}
       /\ Content[r].api \in Deployment /\ r \in Txn
       /\ r \notin Command /\ r \notin Assigner
  /\ \A c \in Command :
       /\ Resolution[c].event \in Request /\ Resolution[c].process \in Process
       /\ Resolution[c].bind \subseteq Reference
       /\ Resolution[c].id \in CommandId /\ c \in Txn
       /\ c \notin Request /\ c \notin Assigner
  /\ \A a \in Assigner :
       Target[a] \in Deployment /\ a \in Txn /\ a \notin Request /\ a \notin Command
  /\ \A t \in Txn : t \in Request \/ t \in Command \/ t \in Assigner
  /\ NoOne \notin Process /\ NoOne \notin Request /\ NoOne \notin Command
<1>1. /\ Content \in [Request -> Contents]
      /\ Resolution \in [Command -> Resolutions]
      /\ Target \in [Assigner -> Deployment]
      /\ Request \cap Command = {} /\ Request \cap Assigner = {}
      /\ Command \cap Assigner = {}
      /\ NoOne \notin Process \cup Request \cup Command
  BY IngestionAssumption
<1>2. \A r \in Request :
        /\ Content[r].references \subseteq Reference
        /\ Content[r].process \in Process \cup {NoOne}
        /\ Content[r].api \in Deployment
  BY <1>1 DEF Contents
<1>3. \A c \in Command :
       /\ Resolution[c].event \in Request /\ Resolution[c].process \in Process
       /\ Resolution[c].bind \subseteq Reference
       /\ Resolution[c].id \in CommandId
  BY <1>1 DEF Resolutions
<1> QED
  BY <1>1, <1>2, <1>3 DEF Txn

(* A request that does not move keeps what it knows, as long as a step     *)
(* changes only what the request has not locked.                           *)
LEMMA RequestKept ==
  ASSUME NEW r \in Request, RequestOK(r), Same(r),
         DeploymentLock \in locks[r] => tenant'.deployment = tenant.deployment,
         \A x \in Reference :
           ReferenceLock(x) \in locks[r] => owner'[x] = owner[x],
         SourceLock(Content[r].key) \in locks[r] =>
           \A s \in Request : Content[s].key = Content[r].key =>
             (inbox'[s] = "absent" <=> inbox[s] = "absent"),
         choice[r] \in Process =>
           \/ status'[choice[r]] = status[choice[r]]
           \/ /\ status[choice[r]] # "absent" /\ status'[choice[r]] # "absent"
              /\ ProcessLock(choice[r]) \notin locks[r],
         choice[r] \in Process /\ status[choice[r]] = "absent" =>
           \A u \in Txn \ {r} : choice'[u] = choice[r] => choice[u] = choice[r]
  PROVE  RequestOK(r)'
<1>1. Content[r].references \subseteq Reference /\ Quarantined \cap Matched = {}
  BY Parts DEF Quarantined, Matched
<1>2. /\ pc'[r] = pc[r] /\ locks'[r] = locks[r]
      /\ choice'[r] = choice[r] /\ verdict'[r] = verdict[r]
  BY DEF Same
<1>3. pc[r] \in {"source", "references", "resolve", "process", "insert"} =>
       DeploymentLock \in locks[r] /\ tenant'.deployment = Content[r].api
  BY DEF RequestOK
<1>4. pc[r] \in {"references", "resolve", "process", "insert"} =>
        SourceLock(Content[r].key) \in locks[r] /\ SameSource(r)' = {}
  BY DEF RequestOK, SameSource
<1>5. pc[r] \in {"resolve", "process", "insert"} =>
       \A x \in Content[r].references :
         ReferenceLock(x) \in locks[r] /\ owner'[x] = owner[x]
  BY <1>1 DEF RequestOK
<1>6. pc[r] = "process" =>
        verdict[r] = "single_process_match" /\ IsMatch(r)'
  BY <1>2, <1>5 DEF RequestOK, IsMatch
<1>7. ASSUME pc[r] = "insert"
      PROVE  \/ verdict[r] \in Quarantined /\ choice[r] = NoOne
             \/ /\ verdict[r] = RecordOnly(choice[r], "single_process_match")'
                /\ ProcessLock(choice[r]) \in locks[r] /\ IsMatch(r)'
             \/ verdict[r] = "process_created_from_trigger" /\ IsFresh(r)'
  <2>1. CASE verdict[r] \in Quarantined /\ choice[r] = NoOne
    BY <2>1
  <2>2. CASE /\ verdict[r] = RecordOnly(choice[r], "single_process_match")
             /\ ProcessLock(choice[r]) \in locks[r] /\ IsMatch(r)
    <3>1. choice[r] \in Process /\ status'[choice[r]] = status[choice[r]]
      BY <2>2 DEF IsMatch
    <3>2. IsMatch(r)'
      BY <1>2, <1>5, <1>7, <2>2, <3>1 DEF IsMatch
    <3> QED
      BY <1>2, <2>2, <3>1, <3>2 DEF RecordOnly
  <2>3. CASE verdict[r] = "process_created_from_trigger" /\ IsFresh(r)
    <3>1. /\ choice[r] \in Process /\ status'[choice[r]] = status[choice[r]]
          /\ \A u \in Txn \ {r} : choice'[u] # choice[r]
      BY <2>3 DEF IsFresh
    <3>2. IsFresh(r)'
      BY <1>2, <1>5, <1>7, <2>3, <3>1 DEF IsFresh
    <3> QED
      BY <2>3, <3>2
  <2> QED
    BY <1>7, <2>1, <2>2, <2>3 DEF RequestOK
<1>8. pc[r] # "internal_error"
  BY DEF RequestOK
<1> QED
  BY <1>2, <1>3, <1>4, <1>5, <1>6, <1>7, <1>8 DEF RequestOK

(* So does a command. *)
LEMMA CommandKept ==
  ASSUME NEW c \in Command, CommandOK(c), Same(c),
         \A s \in Request : inbox[s] # "absent" => inbox'[s] # "absent",
         choice[c] \in Process =>
           \/ status'[choice[c]] = status[choice[c]]
           \/ /\ status'[choice[c]] # "absent"
              /\ ProcessLock(choice[c]) \notin locks[c]
  PROVE  CommandOK(c)'
<1>1. Resolution[c].event \in Request /\ Resolution[c].process \in Process
  BY Parts
<1> QED
  BY <1>1 DEF CommandOK, Same, RecordOnly

(* So does an assigner. *)
LEMMA AssignerKept ==
  ASSUME NEW a \in Assigner, AssignerOK(a), Same(a)
  PROVE  AssignerOK(a)'
BY DEF AssignerOK, Same

-----------------------------------------------------------------------------
(* Steps of a transaction that leave the tables alone. *)

(* Such a step keeps the invariant if it takes only what is free, chooses  *)
(* no process that another creates, and knows what it should.              *)
LEMMA OwnStep ==
  ASSUME Inv, UNCHANGED tables, NEW t \in Txn, Locals', Only(t),
         \A l \in locks'[t] \ locks[t] :
           \/ Free(l, t)
           \/ /\ l = DeploymentLock /\ t \notin Assigner
              /\ \A a \in Assigner : DeploymentLock \notin locks[a],
         \/ choice'[t] = choice[t]
         \/ choice'[t] \notin Process
         \/ status[choice'[t]] # "absent"
         \/ \A u \in Txn : choice[u] # choice'[t],
         t \in Request => RequestOK(t)',
         t \in Command => CommandOK(t)',
         t \in Assigner => AssignerOK(t)'
  PROVE  Inv'
<1>1. TypeOK'
  BY DEF Inv, TypeOK, Locals, tables
<1>2. Tables'
  <2>1. OwnersExist' /\ RowsAssigned' /\ ResolvedByHand'
    BY DEF Inv, Tables, tables, OwnersExist, RowsAssigned, ResolvedByHand
  <2>2. OneProcessPerReference' /\ NoOrphanProcess' /\ MatchesEveryReference'
    BY DEF Inv, Tables, tables, OneProcessPerReference, NoOrphanProcess,
           MatchesEveryReference
  <2>3. ResolvedAsRecorded' /\ DeliveredToItsProcess' /\ NothingLeftBehind'
    BY DEF Inv, Tables, tables, ResolvedAsRecorded, DeliveredToItsProcess,
           NothingLeftBehind
  <2> QED
    BY <2>1, <2>2, <2>3 DEF Tables
<1>3. Exclusive'
  <2>1. Exclusive
    BY DEF Inv, Transactions
  <2>2. ASSUME NEW u \in Txn \ {t}, NEW l \in locks'[t] \cap locks'[u]
        PROVE  l = DeploymentLock /\ t \notin Assigner /\ u \notin Assigner
    <3>1. locks'[u] = locks[u]
      BY DEF Only, Same
    <3>2. CASE l \in locks[t]
      BY <2>1, <2>2, <3>1, <3>2 DEF Exclusive
    <3>3. CASE l \notin locks[t]
      BY <2>2, <3>1, <3>3 DEF Free
    <3> QED
      BY <3>2, <3>3
  <2>3. ASSUME NEW u \in Txn \ {t}, NEW v \in Txn \ {t}, u # v,
               NEW l \in locks'[u] \cap locks'[v]
        PROVE  l = DeploymentLock /\ u \notin Assigner /\ v \notin Assigner
    BY <2>1, <2>3 DEF Only, Same, Exclusive
  <2> QED
    BY <2>2, <2>3 DEF Exclusive
<1>4. ASSUME NEW r \in Request PROVE RequestOK(r)'
  <2>1. CASE r = t
    BY <2>1
  <2>2. CASE r # t
    <3>1. Same(r) /\ RequestOK(r)
      BY <2>2, Parts DEF Only, Inv, Transactions
    <3>2. choice[r] \in Process /\ status[choice[r]] = "absent" =>
            \A u \in Txn \ {r} : choice'[u] = choice[r] => choice[u] = choice[r]
      <4> SUFFICES ASSUME choice[r] \in Process, status[choice[r]] = "absent",
                          NEW u \in Txn \ {r}, choice'[u] = choice[r]
                   PROVE  choice[u] = choice[r]
        OBVIOUS
      <4>1. r \in Txn
        BY Parts
      <4>2. CASE u = t
        BY <4>1, <4>2
      <4>3. CASE u # t
        BY <4>3 DEF Only, Same
      <4> QED
        BY <4>2, <4>3
    <3> QED
      BY <3>1, <3>2, RequestKept DEF tables
  <2> QED
    BY <2>1, <2>2
<1>5. ASSUME NEW c \in Command PROVE CommandOK(c)'
  <2>1. CASE c = t
    BY <2>1
  <2>2. CASE c # t
    <3>1. Same(c) /\ CommandOK(c)
      BY <2>2, Parts DEF Only, Inv, Transactions
    <3> QED
      BY <3>1, CommandKept DEF tables
  <2> QED
    BY <2>1, <2>2
<1>6. ASSUME NEW a \in Assigner PROVE AssignerOK(a)'
  <2>1. CASE a = t
    BY <2>1
  <2>2. CASE a # t
    <3>1. Same(a) /\ AssignerOK(a)
      BY <2>2, Parts DEF Only, Inv, Transactions
    <3> QED
      BY <3>1, AssignerKept
  <2> QED
    BY <2>1, <2>2
<1> QED
  BY <1>1, <1>2, <1>3, <1>4, <1>5, <1>6 DEF Inv, Transactions

(* A transaction may end at any time. *)
LEMMA EndStep ==
  ASSUME Inv, UNCHANGED tables, NEW t \in Txn,
         NEW label \in Idle \ {"internal_error"}, End(t, label)
  PROVE  Inv'
<1>1. Locals
  BY DEF Inv, Transactions
<1>2. /\ Locals' /\ Only(t)
      /\ pc'[t] = label /\ locks'[t] = {}
      /\ choice'[t] = NoOne /\ verdict'[t] = "none"
  BY <1>1, EndEffect
<1>3. RequestOK(t)' /\ CommandOK(t)' /\ AssignerOK(t)'
  BY <1>2 DEF RequestOK, CommandOK, AssignerOK, Idle
<1>4. choice'[t] \notin Process
  BY <1>2, Parts
<1> QED
  BY <1>2, <1>3, <1>4, OwnStep

(* A step to the next lock, when the transaction knows what it should. *)
LEMMA LockStep ==
  ASSUME Inv, UNCHANGED <<tables, choice, verdict>>, NEW t \in Txn, NEW l,
         Take(t, l),
         NEW label \in {"command", "source", "references", "resolve", "row",
                        "process", "insert", "assign"},
         Goto(t, label),
         \/ Free(l, t)
         \/ /\ l = DeploymentLock /\ t \notin Assigner
            /\ \A a \in Assigner : DeploymentLock \notin locks[a],
         (pc'[t] = label /\ locks'[t] = locks[t] \cup {l} /\ choice'[t] = choice[t]
           /\ verdict'[t] = verdict[t]) =>
           /\ t \in Request => RequestOK(t)'
           /\ t \in Command => CommandOK(t)'
           /\ t \in Assigner => AssignerOK(t)'
  PROVE  Inv'
<1>1. Locals
  BY DEF Inv, Transactions
<1>2. /\ Locals' /\ Only(t)
      /\ pc'[t] = label /\ locks'[t] = locks[t] \cup {l}
      /\ choice'[t] = choice[t] /\ verdict'[t] = verdict[t]
  BY <1>1, TakeEffect
<1> QED
  BY <1>2, OwnStep

(* require_ingress_tenant, for a transaction that begins. *)
LEMMA BeginStep ==
  ASSUME Inv, NEW t \in Request \cup Command, NEW api, NEW label,
         RequireIngressTenant(t, api, label),
         \/ t \in Request /\ api = Content[t].api /\ label = "source"
         \/ t \in Command /\ label = "command"
  PROVE  Inv'
<1>1. t \in Txn /\ t \notin Assigner /\ (t \in Request => t \notin Command)
  BY Parts
<1>2. CASE Refuse(t)
  BY <1>1, <1>2, EndStep DEF Refuse, Idle
<1>3. CASE /\ Take(t, DeploymentLock) /\ Goto(t, label)
           /\ UNCHANGED <<tables, choice, verdict>>
           /\ tenant.deployment = api
  <2>1. ASSUME pc'[t] = label, locks'[t] = locks[t] \cup {DeploymentLock}
        PROVE  /\ t \in Request => RequestOK(t)'
               /\ t \in Command => CommandOK(t)'
    BY <1>1, <1>3, <2>1 DEF RequestOK, CommandOK, tables
  <2>2. \A a \in Assigner : DeploymentLock \notin locks[a]
    BY DEF RequireIngressTenant
  <2> QED
    BY <1>1, <1>3, <2>1, <2>2, LockStep
<1> QED
  BY <1>2, <1>3 DEF RequireIngressTenant

(* lock_correlation_keys takes the next key, or has them all.  Taking a    *)
(* key changes nothing that the transaction knows.                         *)
LEMMA KeysStep ==
  ASSUME Inv, NEW t \in Request \cup Command, NEW wanted,
         wanted \subseteq Reference, NEW label \in {"resolve", "row"},
         pc[t] = "references", LockCorrelationKeys(t, wanted, label),
         t \in Request => wanted = Content[t].references /\ label = "resolve",
         t \in Command => wanted = Content[Resolution[t].event].references
                          /\ label = "row"
  PROVE  Inv'
<1>1. t \in Txn /\ t \notin Assigner /\ Locals
      /\ (t \in Request => t \notin Command)
  BY Parts DEF Inv, Transactions
<1>2. (t \in Request => RequestOK(t)) /\ (t \in Command => CommandOK(t))
  BY DEF Inv, Transactions
<1>3. CASE /\ \A x \in wanted : ReferenceLock(x) \in locks[t]
           /\ Goto(t, label) /\ UNCHANGED <<tables, locks, choice, verdict>>
  <2>1. Locals' /\ Only(t) /\ pc'[t] = label
        /\ locks'[t] = locks[t] /\ choice'[t] = choice[t]
    BY <1>1, <1>3 DEF Locals, Only, Same, Goto
  <2>2. ASSUME t \in Request PROVE RequestOK(t)'
    BY <1>1, <1>2, <1>3, <2>1, <2>2 DEF RequestOK, SameSource, tables
  <2>3. ASSUME t \in Command PROVE CommandOK(t)'
    BY <1>1, <1>2, <1>3, <2>1, <2>3 DEF CommandOK, tables
  <2> QED
    BY <1>1, <1>3, <2>1, <2>2, <2>3, OwnStep
<1>4. ASSUME NEW x, Free(ReferenceLock(x), t), Take(t, ReferenceLock(x)),
             UNCHANGED <<tables, pc, choice, verdict>>
      PROVE  Inv'
  <2>1. /\ Locals' /\ Only(t) /\ pc'[t] = "references"
        /\ locks'[t] = locks[t] \cup {ReferenceLock(x)}
        /\ choice'[t] = choice[t]
    BY <1>1, <1>4 DEF Locals, Only, Same, Take
  <2>2. ASSUME t \in Request PROVE RequestOK(t)'
    BY <1>2, <1>4, <2>1, <2>2 DEF RequestOK, SameSource, tables
  <2>3. ASSUME t \in Command PROVE CommandOK(t)'
    BY <1>2, <1>4, <2>1, <2>3 DEF CommandOK, tables
  <2> QED
    BY <1>1, <1>4, <2>1, <2>2, <2>3, OwnStep
<1>5. PICK x : x = NextReference(t, wanted)
  OBVIOUS
<1> QED
  BY <1>3, <1>4, <1>5 DEF LockCorrelationKeys

(* The steps of ingest before its last. *)
LEMMA IngestSteps ==
  ASSUME Inv, NEW r \in Request,
         \/ IngestBegin(r) \/ IngestLockSource(r) \/ IngestLockReferences(r)
         \/ IngestResolve(r) \/ IngestLockProcess(r)
  PROVE  Inv'
<1>1. /\ r \in Txn /\ r \notin Command /\ r \notin Assigner
      /\ Content[r].references \subseteq Reference
      /\ Content[r].process \in Process \cup {NoOne}
      /\ Locals /\ RequestOK(r) /\ TypeOK /\ Tables /\ NoOne \notin Process
  BY Parts DEF Inv, Transactions
<1>2. CASE IngestBegin(r)
  <2>1. CASE Refuse(r)
    BY <1>1, <2>1, EndStep DEF Refuse, Idle
  <2>2. CASE RequireIngressTenant(r, Content[r].api, "source")
    <3>1. PICK api, label : api = Content[r].api /\ label = "source"
      OBVIOUS
    <3>2. RequireIngressTenant(r, api, label)
      BY <2>2, <3>1
    <3> QED
      BY <3>1, <3>2, BeginStep
  <2> QED
    BY <1>2, <2>1, <2>2 DEF IngestBegin
<1>3. CASE IngestLockSource(r)
  <2>1. CASE End(r, "answered") /\ UNCHANGED tables
    BY <1>1, <2>1, EndStep DEF Idle
  <2>2. CASE Refuse(r)
    BY <1>1, <2>2, EndStep DEF Refuse, Idle
  <2>3. CASE /\ SameSource(r) = {}
             /\ Take(r, SourceLock(Content[r].key)) /\ Goto(r, "references")
             /\ UNCHANGED <<tables, choice, verdict>>
    <3>1. pc[r] = "source" /\ Free(SourceLock(Content[r].key), r)
      BY <1>3 DEF IngestLockSource
    <3>2. ASSUME pc'[r] = "references",
                 locks'[r] = locks[r] \cup {SourceLock(Content[r].key)}
          PROVE  RequestOK(r)'
      BY <1>1, <2>3, <3>1, <3>2 DEF RequestOK, SameSource, tables
    <3> QED
      BY <1>1, <2>3, <3>1, <3>2, LockStep
  <2>4. \/ End(r, "answered") /\ UNCHANGED tables
        \/ Refuse(r)
        \/ /\ SameSource(r) = {}
           /\ Take(r, SourceLock(Content[r].key)) /\ Goto(r, "references")
           /\ UNCHANGED <<tables, choice, verdict>>
    <3>1. CASE SameSource(r) # {}
      BY <1>3, <3>1 DEF IngestLockSource
    <3>2. CASE SameSource(r) = {}
      BY <1>3, <3>2 DEF IngestLockSource
    <3> QED
      BY <3>1, <3>2
  <2> QED
    BY <2>1, <2>2, <2>3, <2>4
<1>4. CASE IngestLockReferences(r)
  BY <1>1, <1>4, KeysStep DEF IngestLockReferences
<1>5. CASE IngestResolve(r)
  <2> DEFINE Reasons == Quarantined \cup {"single_process_match",
                          "process_created_from_trigger"}
  <2>1. ASSUME NEW p \in Process \cup {NoOne}, NEW reason \in Reasons,
               NEW label \in {"process", "insert"},
               Decide(r, p, reason, label),
               \/ /\ reason \in Quarantined /\ p = NoOne /\ label = "insert"
               \/ /\ reason = "single_process_match" /\ label = "process"
                  /\ ~ExplicitMissing(r) /\ Candidates(r) = {p} /\ p # NoOne
               \/ /\ reason = "process_created_from_trigger"
                  /\ label = "insert" /\ Candidates(r) = {} /\ p # NoOne
                  /\ status[p] = "absent" /\ \A u \in Txn : choice[u] # p
        PROVE  Inv'
    <3>1. /\ UNCHANGED <<tables, locks>>
          /\ pc' = [pc EXCEPT ![r] = label]
          /\ choice' = [choice EXCEPT ![r] = p]
          /\ verdict' = [verdict EXCEPT ![r] = reason]
      BY <2>1 DEF Decide, Goto
    <3>2. /\ Locals' /\ Only(r) /\ pc'[r] = label /\ locks'[r] = locks[r]
          /\ choice'[r] = p /\ verdict'[r] = reason
      BY <1>1, <3>1 DEF Locals, Only, Same, Quarantined, Matched
    <3>3. /\ pc[r] = "resolve"
          /\ DeploymentLock \in locks[r] /\ tenant.deployment = Content[r].api
          /\ SourceLock(Content[r].key) \in locks[r] /\ SameSource(r) = {}
          /\ \A x \in Content[r].references : ReferenceLock(x) \in locks[r]
      BY <1>1, <1>5 DEF RequestOK, IngestResolve
    <3>4. CASE reason = "single_process_match"
      <4>1. /\ Candidates(r) = {p} /\ ~ExplicitMissing(r) /\ p # NoOne
            /\ label = "process"
        BY <2>1, <3>4 DEF Quarantined
      <4>2. \A x \in Content[r].references : owner[x] \in {NoOne, p}
        BY <4>1 DEF Candidates
      <4>3. Content[r].process \in {NoOne, p}
        BY <4>1 DEF Candidates
      <4>4. status[p] # "absent"
        <5>1. CASE Content[r].process = p
          BY <4>1, <5>1 DEF ExplicitMissing
        <5>2. CASE \E x \in Content[r].references : owner[x] = p
          BY <1>1, <4>1, <5>2 DEF Tables, OwnersExist
        <5> QED
          BY <4>1, <5>1, <5>2 DEF Candidates
      <4>5. IsMatch(r)'
        BY <2>1, <3>1, <3>2, <4>1, <4>2, <4>3, <4>4 DEF IsMatch, tables
      <4>6. RequestOK(r)'
        BY <3>1, <3>2, <3>3, <3>4, <4>1, <4>5
           DEF RequestOK, SameSource, tables
      <4> QED
        BY <1>1, <3>1, <3>2, <4>4, <4>6, OwnStep
    <3>5. CASE reason = "process_created_from_trigger"
      <4>1. /\ Candidates(r) = {} /\ p # NoOne /\ label = "insert"
            /\ status[p] = "absent" /\ \A u \in Txn : choice[u] # p
        BY <2>1, <3>5 DEF Quarantined
      <4>2. /\ \A x \in Content[r].references : owner[x] = NoOne
            /\ Content[r].process = NoOne
        BY <4>1 DEF Candidates
      <4>3. \A u \in Txn \ {r} : choice'[u] # p
        BY <3>2, <4>1 DEF Only, Same
      <4>4. IsFresh(r)'
        BY <2>1, <3>1, <3>2, <4>1, <4>2, <4>3 DEF IsFresh, tables
      <4>5. RequestOK(r)'
        BY <3>1, <3>2, <3>3, <3>5, <4>1, <4>4
           DEF RequestOK, SameSource, tables
      <4> QED
        BY <1>1, <3>1, <3>2, <4>1, <4>5, OwnStep
    <3>6. CASE reason \in Quarantined
      <4>1. p = NoOne /\ label = "insert"
        BY <2>1, <3>6 DEF Quarantined
      <4>2. RequestOK(r)'
        BY <3>1, <3>2, <3>3, <3>6, <4>1 DEF RequestOK, SameSource, tables
      <4> QED
        BY <1>1, <3>1, <3>2, <4>1, <4>2, OwnStep
    <3> QED
      BY <2>1, <3>4, <3>5, <3>6
  <2>2. CASE \E reason \in Quarantined : Decide(r, NoOne, reason, "insert")
    BY <2>1, <2>2
  <2>3. CASE /\ ~ExplicitMissing(r)
             /\ \E p \in Process :
                  /\ Candidates(r) = {p}
                  /\ Decide(r, p, "single_process_match", "process")
    BY <1>1, <2>1, <2>3
  <2>4. CASE /\ Candidates(r) = {}
             /\ \E p \in Process :
                  /\ status[p] = "absent" /\ \A u \in Txn : choice[u] # p
                  /\ Decide(r, p, "process_created_from_trigger", "insert")
    BY <1>1, <2>1, <2>4
  <2> QED
    BY <1>5, <2>2, <2>3, <2>4 DEF IngestResolve, Quarantined
<1>6. CASE IngestLockProcess(r)
  <2>1. /\ pc[r] = "process" /\ Free(ProcessLock(choice[r]), r)
        /\ locks' = [locks EXCEPT ![r] = @ \cup {ProcessLock(choice[r])}]
        /\ pc' = [pc EXCEPT ![r] = "insert"]
        /\ verdict' = [verdict EXCEPT ![r] = RecordOnly(choice[r], @)]
        /\ UNCHANGED <<tables, choice>>
    BY <1>6 DEF IngestLockProcess, Take, Goto
  <2>2. verdict[r] = "single_process_match" /\ IsMatch(r)
    BY <1>1, <2>1 DEF RequestOK
  <2>3. PICK v : v = RecordOnly(choice[r], "single_process_match")
    OBVIOUS
  <2>4. v \in Matched
    BY <2>3 DEF RecordOnly, Matched
  <2>5. verdict' = [verdict EXCEPT ![r] = v]
    BY <1>1, <2>1, <2>2, <2>3
  <2>6. /\ Locals' /\ Only(r) /\ pc'[r] = "insert" /\ choice'[r] = choice[r]
        /\ locks'[r] = locks[r] \cup {ProcessLock(choice[r])}
        /\ verdict'[r] = v
    BY <1>1, <2>1, <2>4, <2>5 DEF Locals, Only, Same
  <2>7. IsMatch(r)' /\ v = RecordOnly(choice[r], "single_process_match")'
    BY <2>1, <2>2, <2>3 DEF IsMatch, RecordOnly, tables
  <2>8. RequestOK(r)'
    BY <1>1, <2>1, <2>6, <2>7 DEF RequestOK, SameSource, tables
  <2> QED
    BY <1>1, <2>1, <2>6, <2>8, OwnStep
<1> QED
  BY <1>2, <1>3, <1>4, <1>5, <1>6

(* The steps of resolve before its last. *)
LEMMA ResolveSteps ==
  ASSUME Inv, NEW c \in Command,
         \/ ResolveBegin(c) \/ ResolveLockCommand(c) \/ ResolveLockSource(c)
         \/ ResolveLockReferences(c) \/ ResolveLockRow(c)
         \/ ResolveLockProcess(c) \/ ResolveConflict(c)
  PROVE  Inv'
<1> DEFINE do == Resolution[c]
<1>1. /\ c \in Txn /\ c \notin Request /\ c \notin Assigner
      /\ do.event \in Request /\ do.process \in Process
      /\ Content[do.event].references \subseteq Reference
      /\ Locals /\ CommandOK(c) /\ NoOne \notin Process
  BY Parts DEF Inv, Transactions
<1>2. CASE Refuse(c)
  BY <1>1, <1>2, EndStep DEF Refuse, Idle
<1>3. CASE ResolveBegin(c)
  <2>1. PICK api, label : api = do.api /\ label = "command"
    OBVIOUS
  <2>2. RequireIngressTenant(c, api, label)
    BY <1>3, <2>1 DEF ResolveBegin
  <2> QED
    BY <2>1, <2>2, BeginStep
<1>4. CASE ResolveLockCommand(c)
  <2>1. CASE resolution[do.id] # NoOne
    <3>1. PICK label \in {"answered", "refused"} :
            End(c, label) /\ UNCHANGED tables
      BY <1>4, <2>1 DEF ResolveLockCommand
    <3> QED
      BY <1>1, <3>1, EndStep DEF Idle
  <2>2. CASE resolution[do.id] = NoOne
    <3>1. CASE \/ inbox[do.event] = "absent"
               \/ ~(do.bind \subseteq Content[do.event].references)
      BY <1>2, <1>4, <2>2, <3>1 DEF ResolveLockCommand
    <3>2. CASE /\ inbox[do.event] # "absent"
               /\ do.bind \subseteq Content[do.event].references
      <4>1. /\ pc[c] = "command" /\ Free(CommandLock(do.id), c)
            /\ Take(c, CommandLock(do.id)) /\ Goto(c, "source")
            /\ UNCHANGED <<tables, choice, verdict>>
        BY <1>4, <2>2, <3>2 DEF ResolveLockCommand
      <4>2. ASSUME pc'[c] = "source" PROVE CommandOK(c)'
        BY <3>2, <4>1, <4>2 DEF CommandOK, tables
      <4>3. PICK l : l = CommandLock(do.id)
        OBVIOUS
      <4>4. Free(l, c) /\ Take(c, l) /\ Goto(c, "source")
        BY <4>1, <4>3
      <4> QED
        BY <1>1, <4>1, <4>2, <4>4, LockStep
    <3> QED
      BY <3>1, <3>2
  <2> QED
    BY <2>1, <2>2
<1>5. CASE ResolveLockSource(c)
  <2>1. PICK l : l = SourceLock(Content[do.event].key)
    OBVIOUS
  <2>2. /\ pc[c] = "source" /\ Free(l, c) /\ Take(c, l)
        /\ Goto(c, "references") /\ UNCHANGED <<tables, choice, verdict>>
    BY <1>5, <2>1 DEF ResolveLockSource
  <2>3. ASSUME pc'[c] = "references" PROVE CommandOK(c)'
    BY <1>1, <2>2, <2>3 DEF CommandOK, tables
  <2> QED
    BY <1>1, <2>2, <2>3, LockStep
<1>6. CASE ResolveLockReferences(c)
  <2>1. PICK wanted : wanted = Content[do.event].references
    OBVIOUS
  <2>2. pc[c] = "references" /\ LockCorrelationKeys(c, wanted, "row")
    BY <1>6, <2>1 DEF ResolveLockReferences
  <2> QED
    BY <1>1, <2>1, <2>2, KeysStep
<1>7. CASE ResolveLockRow(c)
  <2>1. CASE ~(inbox[do.event] \in Quarantined /\ assigned[do.event] = NoOne)
    BY <1>2, <1>7, <2>1 DEF ResolveLockRow
  <2>2. CASE inbox[do.event] \in Quarantined /\ assigned[do.event] = NoOne
    <3>1. PICK l : l = RowLock(do.event)
      OBVIOUS
    <3>2. /\ pc[c] = "row" /\ Free(l, c) /\ Take(c, l)
          /\ Goto(c, "process") /\ UNCHANGED <<tables, choice, verdict>>
      BY <1>7, <2>2, <3>1 DEF ResolveLockRow
    <3>3. ASSUME pc'[c] = "process", locks'[c] = locks[c] \cup {l}
          PROVE  CommandOK(c)'
      BY <1>1, <3>2, <3>3 DEF CommandOK, tables
    <3> QED
      BY <1>1, <3>2, <3>3, LockStep
  <2> QED
    BY <2>1, <2>2
<1>8. CASE ResolveLockProcess(c)
  <2>1. PICK p : p = do.process
    OBVIOUS
  <2>2. CASE ~(status[p] # "absent" /\ deployment[p] = tenant.deployment)
    BY <1>2, <1>8, <2>1, <2>2 DEF ResolveLockProcess
  <2>3. CASE status[p] # "absent" /\ deployment[p] = tenant.deployment
    <3>1. PICK v : v = RecordOnly(p, "operator_quarantine_resolution")
      OBVIOUS
    <3>2. v \in Matched
      BY <3>1 DEF RecordOnly, Matched
    <3>3. /\ pc[c] = "process" /\ Free(ProcessLock(p), c)
          /\ locks' = [locks EXCEPT ![c] = @ \cup {ProcessLock(p)}]
          /\ pc' = [pc EXCEPT ![c] = "insert"]
          /\ choice' = [choice EXCEPT ![c] = p]
          /\ verdict' = [verdict EXCEPT ![c] = v]
          /\ UNCHANGED tables
      BY <1>8, <2>1, <2>3, <3>1 DEF ResolveLockProcess, Take, Goto
    <3>4. /\ Locals' /\ Only(c) /\ pc'[c] = "insert" /\ choice'[c] = p
          /\ locks'[c] = locks[c] \cup {ProcessLock(p)} /\ verdict'[c] = v
      BY <1>1, <2>1, <3>2, <3>3 DEF Locals, Only, Same
    <3>5. v = RecordOnly(p, "operator_quarantine_resolution")'
      BY <3>1, <3>3 DEF RecordOnly, tables
    <3>6. CommandOK(c)'
      BY <1>1, <2>1, <2>3, <3>3, <3>4, <3>5 DEF CommandOK, RecordOnly, tables
    <3> QED
      BY <1>1, <2>3, <3>3, <3>4, <3>6, OwnStep
  <2> QED
    BY <2>2, <2>3
<1> QED
  BY <1>2, <1>3, <1>4, <1>5, <1>6, <1>7, <1>8 DEF ResolveConflict

(* The move of a tenant begins, or is refused. *)
LEMMA AssignSteps ==
  ASSUME Inv, NEW a \in Assigner, AssignBegin(a) \/ Refuse(a)
  PROVE  Inv'
<1>1. a \in Txn /\ a \notin Request /\ a \notin Command
  BY Parts
<1>2. CASE Refuse(a)
  BY <1>1, <1>2, EndStep DEF Refuse, Idle
<1>3. CASE AssignBegin(a)
  <2>1. /\ Free(DeploymentLock, a) /\ Take(a, DeploymentLock)
        /\ Goto(a, "assign") /\ UNCHANGED <<tables, choice, verdict>>
    BY <1>3 DEF AssignBegin
  <2>2. PICK l : l = DeploymentLock
    OBVIOUS
  <2>3. ASSUME locks'[a] = locks[a] \cup {l} PROVE AssignerOK(a)'
    BY <2>2, <2>3 DEF AssignerOK
  <2> QED
    BY <1>1, <2>1, <2>2, <2>3, LockStep
<1> QED
  BY <1>2, <1>3

-----------------------------------------------------------------------------
(* The surroundings. *)

(* A switch of the tenant, the end of a process or a delivery. *)
LEMMA SurroundingSteps ==
  ASSUME Inv, \/ SwitchTenant
              \/ \E p \in Process : CompleteProcess(p)
              \/ \E r \in Request : Publish(r)
  PROVE  Inv'
<1>1. /\ UNCHANGED <<deployment, owner, inbox, assigned, destination,
                     resolution, pc, locks, choice, verdict>>
  BY DEF SwitchTenant, CompleteProcess, Publish
<1>2. TypeOK /\ Transactions /\ Tables
  BY DEF Inv
<1>3. /\ tenant' \in [status : {"active", "suspended"},
                      deployment : Deployment \cup {Unassigned}]
      /\ tenant'.deployment = tenant.deployment
  BY <1>2 DEF SwitchTenant, CompleteProcess, Publish, TypeOK
<1>4. /\ status' \in [Process -> ProcessStatus]
      /\ \A p \in Process :
           \/ status'[p] = status[p]
           \/ /\ status[p] = "active" /\ status'[p] = "completed"
              /\ \A t \in Txn : ProcessLock(p) \notin locks[t]
  <2>1. status \in [Process -> ProcessStatus]
    BY <1>2 DEF TypeOK
  <2>2. CASE \E p \in Process : CompleteProcess(p)
    BY <2>1, <2>2 DEF CompleteProcess, ProcessStatus, Terminal
  <2> QED
    BY <2>1, <2>2 DEF SwitchTenant, Publish
<1>5. /\ delivery' \in [Request -> {"none", "pending", "published"}]
      /\ \A r \in Request :
           \/ delivery'[r] = delivery[r]
           \/ delivery[r] = "pending" /\ delivery'[r] = "published"
  <2>1. delivery \in [Request -> {"none", "pending", "published"}]
    BY <1>2 DEF TypeOK
  <2>2. CASE \E r \in Request : Publish(r)
    BY <2>1, <2>2 DEF Publish
  <2> QED
    BY <2>1, <2>2 DEF SwitchTenant, CompleteProcess
<1>6. TypeOK'
  BY <1>1, <1>2, <1>3, <1>4, <1>5 DEF TypeOK
<1>7. Transactions'
  <2>1. \A t \in Txn : Same(t)
    BY <1>1 DEF Same
  <2>2. Locals' /\ Exclusive'
    BY <1>1, <1>2 DEF Transactions, Locals, Exclusive
  <2>3. ASSUME NEW r \in Request PROVE RequestOK(r)'
    <3>1. RequestOK(r) /\ Same(r) /\ r \in Txn
      BY <1>2, <2>1, Parts DEF Transactions
    <3>2. choice[r] \in Process =>
           \/ status'[choice[r]] = status[choice[r]]
           \/ /\ status[choice[r]] # "absent" /\ status'[choice[r]] # "absent"
              /\ ProcessLock(choice[r]) \notin locks[r]
      BY <1>4, <3>1
    <3> QED
      BY <1>1, <1>3, <3>1, <3>2, RequestKept
  <2>4. ASSUME NEW c \in Command PROVE CommandOK(c)'
    <3>1. CommandOK(c) /\ Same(c) /\ c \in Txn
      BY <1>2, <2>1, Parts DEF Transactions
    <3>2. choice[c] \in Process =>
           \/ status'[choice[c]] = status[choice[c]]
           \/ /\ status'[choice[c]] # "absent"
              /\ ProcessLock(choice[c]) \notin locks[c]
      BY <1>4, <3>1
    <3> QED
      BY <1>1, <3>1, <3>2, CommandKept
  <2>5. ASSUME NEW a \in Assigner PROVE AssignerOK(a)'
    BY <1>2, <2>1, <2>5, Parts, AssignerKept DEF Transactions
  <2> QED
    BY <2>2, <2>3, <2>4, <2>5 DEF Transactions
<1>8. \A p \in Process : /\ status'[p] = "absent" <=> status[p] = "absent"
                         /\ status'[p] = "active" => status[p] = "active"
  BY <1>4
<1>9. \A r \in Request : /\ delivery'[r] = "none" <=> delivery[r] = "none"
                         /\ delivery'[r] = "pending" => delivery[r] = "pending"
  BY <1>5
<1>10. OwnersExist' /\ RowsAssigned' /\ ResolvedByHand'
  BY <1>1, <1>2, <1>8 DEF TypeOK, Tables, OwnersExist, RowsAssigned,
                          ResolvedByHand
<1>11. OneProcessPerReference' /\ MatchesEveryReference' /\ ResolvedAsRecorded'
  BY <1>1, <1>2 DEF Tables, OneProcessPerReference, MatchesEveryReference,
                    ResolvedAsRecorded
<1>12. NoOrphanProcess'
  BY <1>1, <1>2, <1>8 DEF Tables, NoOrphanProcess
<1>13. DeliveredToItsProcess'
  <2>1. \A r \in Request : inbox[r] \in Matched => assigned[r] \in Process
    BY <1>2 DEF Tables, RowsAssigned
  <2> QED
    BY <1>1, <1>2, <1>8, <1>9, <2>1 DEF Tables, DeliveredToItsProcess
<1>14. NothingLeftBehind'
  BY <1>1, <1>2, <1>3, <1>8, <1>9 DEF Tables, NothingLeftBehind
<1> QED
  BY <1>6, <1>7, <1>10, <1>11, <1>12, <1>13, <1>14 DEF Inv, Tables

-----------------------------------------------------------------------------
(* Commits. *)

(* A commit changes only what its transaction has locked, or a process     *)
(* that no other has chosen; so the others keep what they know.            *)
LEMMA CommitKept ==
  ASSUME Transactions, NEW t \in Txn, End(t, "answered"),
         tenant'.deployment # tenant.deployment =>
           DeploymentLock \in locks[t] /\ t \in Assigner,
         \A x \in Reference :
           owner'[x] # owner[x] => ReferenceLock(x) \in locks[t],
         \A s \in Request :
           /\ inbox[s] # "absent" => inbox'[s] # "absent"
           /\ inbox[s] = "absent" /\ inbox'[s] # "absent" =>
                SourceLock(Content[s].key) \in locks[t],
         \A p \in Process :
           status'[p] # status[p] => \A u \in Txn \ {t} : choice[u] # p
  PROVE  Transactions'
<1>1. Locals /\ Exclusive
  BY DEF Transactions
<1>2. /\ Locals' /\ Only(t) /\ pc'[t] = "answered" /\ locks'[t] = {}
      /\ choice'[t] = NoOne
  <2>1. "answered" \in Idle
    BY DEF Idle
  <2> QED
    BY <1>1, <2>1, EndEffect
<1>3. Exclusive'
  BY <1>1, <1>2 DEF Exclusive, Only, Same
<1>4. ASSUME NEW r \in Request PROVE RequestOK(r)'
  <2>1. CASE r = t
    BY <1>2, <2>1 DEF RequestOK
  <2>2. CASE r # t
    <3>1. RequestOK(r) /\ Same(r) /\ r \in Txn \ {t}
      BY <1>2, <2>2, Parts DEF Transactions, Only
    <3>2. DeploymentLock \in locks[r] => tenant'.deployment = tenant.deployment
      BY <1>1, <3>1 DEF Exclusive
    <3>3. \A x \in Reference :
            ReferenceLock(x) \in locks[r] => owner'[x] = owner[x]
      BY <1>1, <3>1, LockNames DEF Exclusive
    <3>4. SourceLock(Content[r].key) \in locks[r] =>
            \A s \in Request : Content[s].key = Content[r].key =>
              (inbox'[s] = "absent" <=> inbox[s] = "absent")
      BY <1>1, <3>1, LockNames DEF Exclusive
    <3>5. choice[r] \in Process => status'[choice[r]] = status[choice[r]]
      BY <3>1
    <3>6. choice[r] \in Process =>
            \A u \in Txn \ {r} : choice'[u] = choice[r] => choice[u] = choice[r]
      BY <1>2, Parts DEF Only, Same
    <3> QED
      BY <3>1, <3>2, <3>3, <3>4, <3>5, <3>6, RequestKept
  <2> QED
    BY <2>1, <2>2
<1>5. ASSUME NEW c \in Command PROVE CommandOK(c)'
  <2>1. CASE c = t
    BY <1>2, <2>1 DEF CommandOK
  <2>2. CASE c # t
    <3>1. CommandOK(c) /\ Same(c) /\ c \in Txn \ {t}
      BY <1>2, <2>2, Parts DEF Transactions, Only
    <3> QED
      BY <3>1, CommandKept
  <2> QED
    BY <2>1, <2>2
<1>6. ASSUME NEW a \in Assigner PROVE AssignerOK(a)'
  <2>1. CASE a = t
    BY <1>2, <2>1 DEF AssignerOK
  <2>2. CASE a # t
    BY <1>2, <2>2, Parts, AssignerKept DEF Transactions, Only
  <2> QED
    BY <2>1, <2>2
<1> QED
  BY <1>2, <1>3, <1>4, <1>5, <1>6 DEF Transactions

(* The commit of a move: what is live or under way belongs to the          *)
(* deployment that is left, or to none.                                    *)
LEMMA AssignCommits ==
  ASSUME Inv, NEW a \in Assigner, AssignCommit(a)
  PROVE  Inv'
<1>1. CASE Refuse(a)
  BY <1>1, AssignSteps
<1>2. CASE ~(tenant.deployment # Unassigned /\ Outstanding)
  <2>1. TypeOK /\ Transactions /\ Tables /\ pc[a] = "assign" /\ a \in Txn
    BY Parts DEF Inv, AssignCommit
  <2>2. /\ tenant' = [status |-> tenant.status, deployment |-> Target[a]]
        /\ UNCHANGED <<status, deployment, owner, inbox, assigned, delivery,
                       destination, resolution>>
        /\ End(a, "answered")
    BY <1>2 DEF AssignCommit
  <2>3. DeploymentLock \in locks[a]
    BY <2>1 DEF Transactions, AssignerOK
  <2>4. Transactions'
    BY <2>1, <2>2, <2>3, CommitKept
  <2>5. TypeOK'
    <3>1. tenant' \in [status : {"active", "suspended"},
                       deployment : Deployment \cup {Unassigned}]
      BY <2>1, <2>2, Parts DEF TypeOK
    <3> QED
      BY <2>1, <2>2, <2>4, <3>1 DEF TypeOK, Transactions, Locals
  <2>6. OwnersExist' /\ RowsAssigned' /\ ResolvedByHand'
        /\ OneProcessPerReference'
    BY <2>1, <2>2 DEF Tables, OwnersExist, RowsAssigned, ResolvedByHand,
                      OneProcessPerReference
  <2>7. NoOrphanProcess' /\ MatchesEveryReference' /\ ResolvedAsRecorded'
        /\ DeliveredToItsProcess'
    BY <2>1, <2>2 DEF Tables, NoOrphanProcess, MatchesEveryReference,
                      ResolvedAsRecorded, DeliveredToItsProcess
  <2>8. NothingLeftBehind'
    <3>1. ASSUME NEW p \in Process,
                 \/ status[p] = "active"
                 \/ \E r \in Request : delivery[r] = "pending" /\ destination[r] = p
          PROVE  deployment[p] = Unassigned
      <4>1. deployment[p] \in {tenant.deployment, Unassigned}
        BY <2>1, <3>1 DEF Tables, NothingLeftBehind
      <4>2. CASE tenant.deployment = Unassigned
        BY <4>1, <4>2
      <4>3. CASE ~Outstanding
        <5>1. status[p] # "active"
          BY <4>3 DEF Outstanding, Terminal
        <5>2. PICK r \in Request : delivery[r] = "pending" /\ destination[r] = p
          BY <3>1, <5>1
        <5>3. deployment[p] # tenant.deployment
          BY <4>3, <5>2 DEF Outstanding
        <5> QED
          BY <4>1, <5>3
      <4> QED
        BY <1>2, <4>2, <4>3
    <3> QED
      BY <2>2, <3>1 DEF NothingLeftBehind
  <2> QED
    BY <2>4, <2>5, <2>6, <2>7, <2>8 DEF Inv, Tables
<1> QED
  BY <1>1, <1>2 DEF AssignCommit

(* A request never fails at its commit: its references have no other owner *)
(* and its event has neither a row nor a delivery.                         *)
LEMMA IngestSucceeds ==
  ASSUME Inv, NEW r \in Request, IngestInsert(r)
  PROVE  /\ IngestCommit(r) /\ pc[r] = "insert" /\ SameSource(r) = {}
         /\ inbox[r] = "absent" /\ delivery[r] = "none" /\ assigned[r] = NoOne
<1>1. pc[r] = "insert" /\ RequestOK(r) /\ Tables /\ TypeOK
  BY DEF IngestInsert, Inv, Transactions
<1>2. SameSource(r) = {} /\ inbox[r] = "absent"
  BY <1>1 DEF RequestOK, SameSource
<1>3. delivery[r] = "none"
  BY <1>1, <1>2 DEF Tables, DeliveredToItsProcess, Matched
<1>4. assigned[r] = NoOne
  BY <1>1, <1>2 DEF Tables, RowsAssigned, Matched
<1>5. verdict[r] \in Matched => MayBind(choice[r], Content[r].references)
  BY <1>1 DEF RequestOK, IsMatch, IsFresh, MayBind, Quarantined, Matched
<1>6. ~IngestFails(r)
  BY <1>3, <1>5 DEF IngestFails, DeliveryConflict
<1> QED
  BY <1>1, <1>2, <1>3, <1>4, <1>6 DEF IngestInsert

(* What a commit that gives event r the verdict v and the process q, and   *)
(* binds some references to q, does to the tables.                         *)
Commits(r, q, v, bound) ==
  /\ tenant' = tenant
  /\ inbox[r] \notin Matched /\ v \in Matched \cup Quarantined
  /\ inbox' = [inbox EXCEPT ![r] = v]
  /\ assigned' = [assigned EXCEPT ![r] = q]
  /\ IF v \in Matched
     THEN /\ q \in Process /\ status'[q] # "absent"
          /\ \A x \in Reference :
               owner'[x] = IF x \in bound THEN q ELSE owner[x]
          /\ \A x \in bound : owner[x] \in {NoOne, q}
     ELSE q = NoOne /\ owner' = owner
  /\ \A p \in Process :
       \/ status'[p] = status[p] /\ deployment'[p] = deployment[p]
       \/ /\ status[p] = "absent" /\ status'[p] = "active"
          /\ p = q /\ v = "process_created_from_trigger"
          /\ deployment'[p] = tenant.deployment
  /\ IF v \in Matched \ {"terminal_process_record_only"}
     THEN /\ delivery' = [delivery EXCEPT ![r] = "pending"]
          /\ destination' = [destination EXCEPT ![r] = q]
          /\ status'[q] = "active"
     ELSE /\ UNCHANGED <<delivery, destination>>
          /\ v = "terminal_process_record_only" => status[q] \in Terminal

(* Such a commit keeps these parts of the invariant. *)
LEMMA CommitTables ==
  ASSUME TypeOK, Tables, NEW r \in Request, NEW q, NEW v, NEW bound,
         Commits(r, q, v, bound)
  PROVE  /\ OwnersExist' /\ RowsAssigned' /\ NoOrphanProcess'
         /\ DeliveredToItsProcess' /\ NothingLeftBehind'
<1>1. /\ inbox \in [Request -> Matched \cup Quarantined \cup {"absent"}]
      /\ assigned \in [Request -> Process \cup {NoOne}]
      /\ delivery \in [Request -> {"none", "pending", "published"}]
      /\ destination \in [Request -> Process \cup {NoOne}]
      /\ owner \in [Reference -> Process \cup {NoOne}]
      /\ NoOne \notin Process /\ Matched \cap Quarantined = {}
  BY Parts DEF TypeOK, Matched, Quarantined
<1>2. /\ inbox'[r] = v /\ assigned'[r] = q
      /\ \A s \in Request \ {r} :
           inbox'[s] = inbox[s] /\ assigned'[s] = assigned[s]
  BY <1>1 DEF Commits
<1>3. \A p \in Process :
        /\ status[p] # "absent" =>
             status'[p] = status[p] /\ deployment'[p] = deployment[p]
        /\ status[p] = "absent" /\ status'[p] # "absent" =>
             /\ status'[p] = "active" /\ p = q
             /\ v = "process_created_from_trigger"
             /\ deployment'[p] = tenant.deployment
  BY DEF Commits
<1>4. /\ v \in Matched => q \in Process /\ status'[q] # "absent"
      /\ v \notin Matched => q = NoOne
      /\ inbox[r] \notin Matched /\ v \in Matched \cup Quarantined
  BY DEF Commits
<1>5. OwnersExist'
  <2>1. ASSUME NEW x \in Reference, owner'[x] # NoOne
        PROVE  status'[owner'[x]] # "absent"
    <3>1. CASE owner'[x] = owner[x]
      BY <1>1, <1>3, <2>1, <3>1 DEF Tables, OwnersExist
    <3>2. CASE owner'[x] = q /\ v \in Matched
      BY <1>4, <3>2
    <3> QED
      BY <3>1, <3>2 DEF Commits
  <2> QED
    BY <2>1 DEF OwnersExist
<1>6. RowsAssigned'
  BY <1>2, <1>4 DEF Tables, RowsAssigned
<1>7. NoOrphanProcess'
  <2>1. ASSUME NEW p \in Process \ Existing, status'[p] # "absent"
        PROVE  \E s \in Request : /\ inbox'[s] = "process_created_from_trigger"
                                  /\ assigned'[s] = p
    <3>1. CASE status[p] = "absent"
      BY <1>2, <1>3, <2>1, <3>1
    <3>2. CASE status[p] # "absent"
      <4>1. PICK s \in Request : /\ inbox[s] = "process_created_from_trigger"
                                 /\ assigned[s] = p
        BY <3>2 DEF Tables, NoOrphanProcess
      <4>2. s # r
        BY <1>4, <4>1 DEF Matched
      <4> QED
        BY <1>2, <4>1, <4>2
    <3> QED
      BY <3>1, <3>2
  <2> QED
    BY <2>1 DEF NoOrphanProcess
<1>8. /\ delivery[r] = "none"
      /\ \A s \in Request \ {r} :
           delivery'[s] = delivery[s] /\ destination'[s] = destination[s]
      /\ IF v \in Matched \ {"terminal_process_record_only"}
         THEN /\ delivery'[r] = "pending" /\ destination'[r] = q
              /\ status'[q] = "active"
         ELSE delivery'[r] = delivery[r] /\ destination'[r] = destination[r]
  <2>1. delivery[r] = "none"
    BY <1>1, <1>4 DEF Tables, DeliveredToItsProcess
  <2> QED
    BY <1>1, <2>1 DEF Commits
<1>9. DeliveredToItsProcess'
  <2>1. ASSUME NEW s \in Request
        PROVE  /\ delivery'[s] # "none"
                    <=> inbox'[s] \in Matched \ {"terminal_process_record_only"}
               /\ delivery'[s] # "none" => destination'[s] = assigned'[s]
               /\ inbox'[s] \in Matched => status'[assigned'[s]] # "absent"
    <3>1. CASE s = r
      BY <1>2, <1>4, <1>8, <3>1
    <3>2. CASE s # r
      <4>1. /\ delivery[s] # "none"
                 <=> inbox[s] \in Matched \ {"terminal_process_record_only"}
            /\ delivery[s] # "none" => destination[s] = assigned[s]
            /\ inbox[s] \in Matched =>
                 assigned[s] \in Process /\ status[assigned[s]] # "absent"
        BY DEF Tables, DeliveredToItsProcess, RowsAssigned
      <4> QED
        BY <1>2, <1>3, <1>8, <3>2, <4>1
    <3> QED
      BY <3>1, <3>2
  <2> QED
    BY <2>1 DEF DeliveredToItsProcess
<1>10. NothingLeftBehind'
  <2>1. ASSUME NEW p \in Process,
               \/ status'[p] = "active"
               \/ \E s \in Request : delivery'[s] = "pending" /\ destination'[s] = p
        PROVE  deployment'[p] \in {tenant.deployment, Unassigned}
    <3>1. CASE status'[p] = "active"
      <4>1. CASE status[p] = "absent"
        BY <1>3, <3>1, <4>1
      <4>2. CASE status[p] # "absent"
        BY <1>3, <3>1, <4>2 DEF Tables, NothingLeftBehind
      <4> QED
        BY <4>1, <4>2
    <3>2. CASE status'[p] # "active"
      <4>1. PICK s \in Request : delivery'[s] = "pending" /\ destination'[s] = p
        BY <2>1, <3>2
      <4>2. s # r
        BY <1>8, <3>2, <4>1
      <4>3. delivery[s] = "pending" /\ destination[s] = p
        BY <1>8, <4>1, <4>2
      <4>4. status[p] # "absent"
        BY <4>3 DEF Tables, DeliveredToItsProcess
      <4> QED
        BY <1>3, <4>3, <4>4 DEF Tables, NothingLeftBehind
    <3> QED
      BY <3>1, <3>2
  <2> QED
    BY <2>1 DEF NothingLeftBehind, Commits
<1> QED
  BY <1>5, <1>6, <1>7, <1>9, <1>10

(* It changes the owner of no reference that has one, and the process of   *)
(* no event that has one.                                                  *)
LEMMA CommitIsFinal ==
  ASSUME TypeOK, Tables, NEW r \in Request, NEW q, NEW v, NEW bound,
         Commits(r, q, v, bound)
  PROVE  /\ \A x \in Reference : owner[x] # NoOne => owner'[x] = owner[x]
         /\ \A s \in Request : assigned[s] # NoOne => assigned'[s] = assigned[s]
         /\ \A s \in Request :
              /\ delivery[s] = "none" /\ delivery'[s] # "none"
                   => status'[destination'[s]] = "active"
              /\ inbox[s] # inbox'[s]
                 /\ inbox'[s] = "terminal_process_record_only"
                   => status[assigned'[s]] \in Terminal
<1>1. /\ inbox \in [Request -> Matched \cup Quarantined \cup {"absent"}]
      /\ assigned \in [Request -> Process \cup {NoOne}]
      /\ delivery \in [Request -> {"none", "pending", "published"}]
      /\ destination \in [Request -> Process \cup {NoOne}]
  BY DEF TypeOK
<1>2. \A x \in Reference : owner[x] # NoOne => owner'[x] = owner[x]
  BY DEF Commits
<1>3. assigned[r] = NoOne
  BY DEF Commits, Tables, RowsAssigned
<1>4. \A s \in Request : assigned[s] # NoOne => assigned'[s] = assigned[s]
  BY <1>1, <1>3 DEF Commits
<1>5. ASSUME NEW s \in Request, delivery[s] = "none", delivery'[s] # "none"
      PROVE  status'[destination'[s]] = "active"
  BY <1>1, <1>5 DEF Commits
<1>6. ASSUME NEW s \in Request, inbox[s] # inbox'[s],
             inbox'[s] = "terminal_process_record_only"
      PROVE  status[assigned'[s]] \in Terminal
  BY <1>1, <1>6 DEF Commits
<1> QED
  BY <1>2, <1>4, <1>5, <1>6

(* The commit of ingest is one. *)
LEMMA IngestIsCommit ==
  ASSUME Inv, NEW r \in Request, IngestInsert(r)
  PROVE  /\ Commits(r, choice[r], verdict[r], Content[r].references)
         /\ resolution' = resolution
         /\ verdict[r] \in Matched =>
              Content[r].process \in {NoOne, choice[r]}
         /\ verdict[r] = "process_created_from_trigger" =>
              \A x \in Content[r].references : owner[x] = NoOne
         /\ owner' \in [Reference -> Process \cup {NoOne}]
         /\ status' \in [Process -> ProcessStatus]
         /\ deployment' \in [Process -> Deployment \cup {Unassigned, NoOne}]
<1>1. /\ IngestCommit(r) /\ pc[r] = "insert" /\ SameSource(r) = {}
      /\ inbox[r] = "absent" /\ delivery[r] = "none" /\ assigned[r] = NoOne
  BY IngestSucceeds
<1>2. RequestOK(r) /\ TypeOK /\ Tables /\ NoOne \notin Process
      /\ tenant.deployment = Content[r].api /\ Content[r].api \in Deployment
      /\ Content[r].references \subseteq Reference
  BY <1>1, Parts DEF Inv, Transactions, RequestOK
<1>3. PICK q, v : q = choice[r] /\ v = verdict[r]
  OBVIOUS
<1>4. \/ v \in Quarantined /\ q = NoOne
      \/ /\ v = RecordOnly(q, "single_process_match") /\ IsMatch(r)
      \/ v = "process_created_from_trigger" /\ IsFresh(r)
  BY <1>1, <1>2, <1>3 DEF RequestOK
<1>5. /\ v \in Quarantined => v \notin Matched
      /\ \A p : RecordOnly(p, "single_process_match") \in Matched
      /\ \A p : RecordOnly(p, "single_process_match")
                  # "process_created_from_trigger"
      /\ "process_created_from_trigger" \in Matched
      /\ inbox[r] \notin Matched
  BY <1>1 DEF Quarantined, Matched, RecordOnly
<1>6. v \in Matched => /\ q \in Process
                       /\ Content[r].process \in {NoOne, q}
                       /\ \A x \in Content[r].references : owner[x] \in {NoOne, q}
  BY <1>3, <1>4, <1>5 DEF IsMatch, IsFresh
<1>7. v \notin Matched => q = NoOne /\ v \in Quarantined
  BY <1>4, <1>5
<1>8. /\ inbox' = [inbox EXCEPT ![r] = v]
      /\ assigned' = [assigned EXCEPT ![r] = q]
      /\ tenant' = tenant /\ resolution' = resolution
  BY <1>1, <1>3 DEF IngestCommit
<1>9. /\ v \in Matched => owner' = [x \in Reference |->
           IF x \in Content[r].references THEN q ELSE owner[x]]
      /\ v \notin Matched => owner' = owner
  BY <1>1, <1>3 DEF IngestCommit, PersistReferences
<1>10. IF v = "process_created_from_trigger"
       THEN /\ status' = [status EXCEPT ![q] = "active"]
            /\ deployment' = [deployment EXCEPT ![q] = Content[r].api]
       ELSE status' = status /\ deployment' = deployment
  BY <1>1, <1>3 DEF IngestCommit
<1>11. IF v \in Matched \ {"terminal_process_record_only"}
       THEN /\ delivery' = [delivery EXCEPT ![r] = "pending"]
            /\ destination' = [destination EXCEPT ![r] = q]
       ELSE UNCHANGED <<delivery, destination>>
  BY <1>1, <1>2, <1>3 DEF IngestCommit, ScheduleDelivery, TypeOK
<1>12. /\ status \in [Process -> ProcessStatus]
       /\ deployment \in [Process -> Deployment \cup {Unassigned, NoOne}]
       /\ owner \in [Reference -> Process \cup {NoOne}]
  BY <1>2 DEF TypeOK
<1>13. v = "process_created_from_trigger" =>
         /\ q \in Process /\ status[q] = "absent"
         /\ \A x \in Content[r].references : owner[x] = NoOne
  BY <1>3, <1>4, <1>5 DEF IsFresh
<1>14. \A p \in Process :
         \/ status'[p] = status[p] /\ deployment'[p] = deployment[p]
         \/ /\ status[p] = "absent" /\ status'[p] = "active"
            /\ p = q /\ v = "process_created_from_trigger"
            /\ deployment'[p] = tenant.deployment
  BY <1>2, <1>10, <1>12, <1>13
<1>15. v \in Matched => status'[q] # "absent"
  <2>1. CASE v = "process_created_from_trigger"
    BY <1>10, <1>12, <1>13, <2>1
  <2>2. CASE v # "process_created_from_trigger"
    BY <1>3, <1>4, <1>5, <1>10, <2>2 DEF IsMatch
  <2> QED
    BY <2>1, <2>2
<1>16. ASSUME v \in Matched \ {"terminal_process_record_only"}
       PROVE  status'[q] = "active"
  <2>1. CASE v = "process_created_from_trigger"
    BY <1>10, <1>12, <1>13, <2>1
  <2>2. CASE v # "process_created_from_trigger"
    <3>1. status[q] \notin Terminal /\ status[q] # "absent"
      BY <1>3, <1>4, <1>5, <1>16, <2>2 DEF IsMatch, RecordOnly
    <3> QED
      BY <1>6, <1>10, <1>12, <1>16, <2>2, <3>1 DEF ProcessStatus
  <2> QED
    BY <2>1, <2>2
<1>17. v = "terminal_process_record_only" => status[q] \in Terminal
  BY <1>4, <1>5 DEF RecordOnly, Matched, Quarantined
<1>18. Commits(r, q, v, Content[r].references)
  <2>1. IF v \in Matched
        THEN /\ q \in Process /\ status'[q] # "absent"
             /\ \A x \in Reference : owner'[x] =
                  IF x \in Content[r].references THEN q ELSE owner[x]
             /\ \A x \in Content[r].references : owner[x] \in {NoOne, q}
        ELSE q = NoOne /\ owner' = owner
    BY <1>6, <1>7, <1>9, <1>15
  <2>2. IF v \in Matched \ {"terminal_process_record_only"}
        THEN /\ delivery' = [delivery EXCEPT ![r] = "pending"]
             /\ destination' = [destination EXCEPT ![r] = q]
             /\ status'[q] = "active"
        ELSE /\ UNCHANGED <<delivery, destination>>
             /\ v = "terminal_process_record_only" => status[q] \in Terminal
    BY <1>11, <1>16, <1>17
  <2>3. v \in Matched \cup Quarantined
    BY <1>7
  <2> QED
    BY <1>5, <1>8, <1>14, <2>1, <2>2, <2>3 DEF Commits
<1>19. /\ owner' \in [Reference -> Process \cup {NoOne}]
       /\ status' \in [Process -> ProcessStatus]
       /\ deployment' \in [Process -> Deployment \cup {Unassigned, NoOne}]
  <2>1. owner' \in [Reference -> Process \cup {NoOne}]
    BY <1>6, <1>9, <1>12
  <2>2. status' \in [Process -> ProcessStatus]
    BY <1>10, <1>12 DEF ProcessStatus
  <2>3. deployment' \in [Process -> Deployment \cup {Unassigned, NoOne}]
    BY <1>2, <1>10, <1>12
  <2> QED
    BY <2>1, <2>2, <2>3
<1> QED
  BY <1>3, <1>6, <1>8, <1>13, <1>18, <1>19

(* The commit of ingest keeps the invariant. *)
LEMMA IngestCommits ==
  ASSUME Inv, NEW r \in Request, IngestInsert(r)
  PROVE  Inv'
<1>1. /\ IngestCommit(r) /\ pc[r] = "insert" /\ SameSource(r) = {}
      /\ inbox[r] = "absent" /\ delivery[r] = "none" /\ assigned[r] = NoOne
  BY IngestSucceeds
<1>2. /\ TypeOK /\ Transactions /\ Tables /\ RequestOK(r) /\ r \in Txn
      /\ NoOne \notin Process /\ Content[r].references \subseteq Reference
  BY Parts DEF Inv, Transactions
<1>3. PICK q, v : q = choice[r] /\ v = verdict[r]
  OBVIOUS
<1>4. /\ Commits(r, q, v, Content[r].references)
      /\ resolution' = resolution
      /\ v \in Matched => Content[r].process \in {NoOne, q}
      /\ v = "process_created_from_trigger" =>
           \A x \in Content[r].references : owner[x] = NoOne
      /\ owner' \in [Reference -> Process \cup {NoOne}]
      /\ status' \in [Process -> ProcessStatus]
      /\ deployment' \in [Process -> Deployment \cup {Unassigned, NoOne}]
  BY <1>3, IngestIsCommit
<1>5. /\ inbox \in [Request -> Matched \cup Quarantined \cup {"absent"}]
      /\ assigned \in [Request -> Process \cup {NoOne}]
      /\ delivery \in [Request -> {"none", "pending", "published"}]
      /\ destination \in [Request -> Process \cup {NoOne}]
      /\ q \in Process \cup {NoOne} /\ v \in Matched \cup Quarantined
      /\ resolution \in [CommandId -> Command \cup {NoOne}]
  BY <1>2, <1>4 DEF TypeOK, Commits
<1>6. /\ inbox'[r] = v /\ assigned'[r] = q
      /\ \A s \in Request \ {r} :
           inbox'[s] = inbox[s] /\ assigned'[s] = assigned[s]
  BY <1>4, <1>5 DEF Commits
<1>7. Transactions'
  <2>1. End(r, "answered") /\ tenant' = tenant
    BY <1>1 DEF IngestCommit
  <2>2. \A x \in Reference :
          owner'[x] # owner[x] => ReferenceLock(x) \in locks[r]
    BY <1>1, <1>2, <1>4 DEF RequestOK, Commits
  <2>3. \A s \in Request :
           /\ inbox[s] # "absent" => inbox'[s] # "absent"
           /\ inbox[s] = "absent" /\ inbox'[s] # "absent" =>
                SourceLock(Content[s].key) \in locks[r]
    BY <1>1, <1>2, <1>5, <1>6 DEF RequestOK
  <2>4. ASSUME NEW p \in Process, status'[p] # status[p],
               NEW u \in Txn \ {r}
        PROVE  choice[u] # p
    <3>1. p = q /\ v = "process_created_from_trigger"
      BY <1>4, <2>4 DEF Commits
    <3>2. IsFresh(r)
      BY <1>1, <1>2, <1>3, <3>1 DEF RequestOK, RecordOnly, Quarantined
    <3> QED
      BY <1>3, <3>1, <3>2 DEF IsFresh
  <2> QED
    BY <1>2, <2>1, <2>2, <2>3, <2>4, CommitKept
<1>8. TypeOK'
  <2>1. /\ inbox' \in [Request -> Matched \cup Quarantined \cup {"absent"}]
        /\ assigned' \in [Request -> Process \cup {NoOne}]
    BY <1>4, <1>5 DEF Commits
  <2>2. /\ delivery' \in [Request -> {"none", "pending", "published"}]
        /\ destination' \in [Request -> Process \cup {NoOne}]
    BY <1>4, <1>5 DEF Commits
  <2>3. tenant' = tenant
    BY <1>4 DEF Commits
  <2> QED
    BY <1>2, <1>4, <1>7, <2>1, <2>2, <2>3 DEF TypeOK, Transactions, Locals
<1>9. /\ OwnersExist' /\ RowsAssigned' /\ NoOrphanProcess'
      /\ DeliveredToItsProcess' /\ NothingLeftBehind'
  BY <1>2, <1>4, CommitTables
<1>10. \A i \in CommandId : resolution[i] # NoOne =>
         /\ Resolution[resolution[i]].event \in Request \ {r}
         /\ inbox[Resolution[resolution[i]].event] \in
              {"operator_quarantine_resolution", "terminal_process_record_only"}
  <2>1. \A i \in CommandId : resolution[i] # NoOne =>
          Resolution[resolution[i]].event \in Request
    BY <1>5, Parts
  <2> QED
    BY <1>1, <1>2, <2>1 DEF Tables, ResolvedByHand
<1>11. ResolvedByHand'
  BY <1>4, <1>6, <1>10 DEF ResolvedByHand
<1>12. \A x \in Reference : owner[x] # NoOne => owner'[x] = owner[x]
  BY <1>2, <1>4, CommitIsFinal
<1>13. MatchesEveryReference'
  <2>1. ASSUME NEW s \in Request, inbox'[s] \in Matched,
               \A i \in CommandId : resolution[i] # NoOne =>
                 Resolution[resolution[i]].event # s
        PROVE  /\ \A x \in Content[s].references : owner'[x] = assigned'[s]
               /\ Content[s].process \in {NoOne, assigned'[s]}
    <3>1. CASE s = r
      BY <1>2, <1>4, <1>6, <2>1, <3>1 DEF Commits
    <3>2. CASE s # r
      <4>1. /\ inbox[s] \in Matched /\ assigned'[s] = assigned[s]
            /\ assigned[s] \in Process
        BY <1>2, <1>6, <2>1, <3>2 DEF Tables, RowsAssigned
      <4>2. /\ \A x \in Content[s].references : owner[x] = assigned[s]
            /\ Content[s].process \in {NoOne, assigned[s]}
        BY <1>2, <2>1, <4>1 DEF Tables, MatchesEveryReference
      <4>3. Content[s].references \subseteq Reference
        BY Parts
      <4> QED
        BY <1>2, <1>12, <4>1, <4>2, <4>3
    <3> QED
      BY <3>1, <3>2
  <2> QED
    BY <1>4, <2>1 DEF MatchesEveryReference
<1>14. ResolvedAsRecorded'
  <2>1. ASSUME NEW i \in CommandId, resolution[i] # NoOne,
               NEW do, do = Resolution[resolution[i]]
        PROVE  /\ inbox'[do.event] \in Matched
               /\ assigned'[do.event] = do.process
               /\ \A x \in do.bind : owner'[x] = do.process
               /\ \A j \in CommandId \ {i} :
                    resolution[j] # NoOne =>
                      Resolution[resolution[j]].event # do.event
    <3>1. /\ inbox[do.event] \in Matched /\ assigned[do.event] = do.process
          /\ \A x \in do.bind : owner[x] = do.process
          /\ \A j \in CommandId \ {i} :
               resolution[j] # NoOne =>
                 Resolution[resolution[j]].event # do.event
      BY <1>2, <2>1 DEF Tables, ResolvedAsRecorded
    <3>2. do.bind \subseteq Reference /\ do.process # NoOne
      BY <1>5, <2>1, Parts
    <3>3. do.event \in Request \ {r}
      BY <1>10, <2>1
    <3> QED
      BY <1>6, <1>12, <3>1, <3>2, <3>3
  <2> QED
    BY <1>4, <2>1 DEF ResolvedAsRecorded
<1>15. OneProcessPerReference'
  <2>1. ASSUME NEW s \in Request \ {r},
               inbox[s] = "process_created_from_trigger",
               v = "process_created_from_trigger",
               NEW x \in Content[r].references \cap Content[s].references
        PROVE  FALSE
    <3>1. inbox[s] \in Matched /\ \A i \in CommandId :
            resolution[i] # NoOne => Resolution[resolution[i]].event # s
      BY <1>10, <2>1 DEF Matched
    <3>2. owner[x] = assigned[s] /\ assigned[s] \in Process
      BY <1>2, <2>1, <3>1 DEF Tables, MatchesEveryReference, RowsAssigned
    <3> QED
      BY <1>2, <1>4, <2>1, <3>2
  <2>2. OneProcessPerReference
    BY <1>2 DEF Tables
  <2> QED
    BY <1>6, <2>1, <2>2 DEF OneProcessPerReference
<1> QED
  BY <1>7, <1>8, <1>9, <1>11, <1>13, <1>14, <1>15 DEF Inv, Tables

(* The commit of a resolution is one. *)
LEMMA ResolveIsCommit ==
  ASSUME Inv, NEW c \in Command, ResolveCommit(c)
  PROVE  /\ Commits(Resolution[c].event, Resolution[c].process, verdict[c],
                    Resolution[c].bind)
         /\ verdict[c] \in {"operator_quarantine_resolution",
                            "terminal_process_record_only"}
         /\ resolution' = [resolution EXCEPT ![Resolution[c].id] = c]
         /\ owner' \in [Reference -> Process \cup {NoOne}]
         /\ UNCHANGED <<status, deployment>>
<1>1. PICK do : do = Resolution[c]
  OBVIOUS
<1>2. PICK q, v : q = choice[c] /\ v = verdict[c]
  OBVIOUS
<1>3. TypeOK /\ Tables /\ CommandOK(c) /\ NoOne \notin Process
      /\ do.event \in Request /\ do.process \in Process
      /\ do.bind \subseteq Reference
  BY <1>1, Parts DEF Inv, Transactions
<1>4. /\ pc[c] = "insert" /\ ~ResolveFails(c)
      /\ owner' = [x \in Reference |-> IF x \in do.bind THEN q ELSE owner[x]]
      /\ resolution' = [resolution EXCEPT ![do.id] = c]
      /\ inbox' = [inbox EXCEPT ![do.event] = v]
      /\ assigned' = [assigned EXCEPT ![do.event] = q]
      /\ UNCHANGED <<tenant, status, deployment>>
  BY <1>1, <1>2 DEF ResolveCommit, PersistReferences
<1>5. IF v # "terminal_process_record_only"
      THEN ScheduleDelivery(do.event, q)
      ELSE UNCHANGED <<delivery, destination>>
  BY <1>1, <1>2 DEF ResolveCommit
<1>6. /\ q = do.process /\ status[q] # "absent"
      /\ v = RecordOnly(q, "operator_quarantine_resolution")
  BY <1>1, <1>2, <1>3, <1>4 DEF CommandOK
<1>7. /\ v \in {"operator_quarantine_resolution",
                "terminal_process_record_only"}
      /\ v = "terminal_process_record_only" <=> status[q] \in Terminal
  BY <1>6 DEF RecordOnly
<1>8. /\ \A x \in do.bind : owner[x] \in {NoOne, q}
      /\ inbox[do.event] \in Quarantined
  BY <1>1, <1>2, <1>4 DEF ResolveFails, MayBind
<1>9. inbox[do.event] \notin Matched /\ v \in Matched
  BY <1>7, <1>8 DEF Matched, Quarantined
<1>10. delivery[do.event] = "none"
  BY <1>3, <1>9 DEF Tables, DeliveredToItsProcess
<1>11. /\ status \in [Process -> ProcessStatus]
       /\ owner \in [Reference -> Process \cup {NoOne}]
       /\ delivery \in [Request -> {"none", "pending", "published"}]
  BY <1>3 DEF TypeOK
<1>12. IF v \in Matched \ {"terminal_process_record_only"}
       THEN /\ delivery' = [delivery EXCEPT ![do.event] = "pending"]
            /\ destination' = [destination EXCEPT ![do.event] = q]
            /\ status'[q] = "active"
       ELSE /\ UNCHANGED <<delivery, destination>>
            /\ v = "terminal_process_record_only" => status[q] \in Terminal
  <2>1. CASE v = "terminal_process_record_only"
    BY <1>5, <1>7, <2>1
  <2>2. CASE v # "terminal_process_record_only"
    <3>1. /\ delivery' = [delivery EXCEPT ![do.event] = "pending"]
          /\ destination' = [destination EXCEPT ![do.event] = q]
      BY <1>5, <1>3, <1>10, <1>11, <2>2 DEF ScheduleDelivery
    <3>2. status'[q] = "active"
      BY <1>3, <1>4, <1>6, <1>7, <1>11, <2>2 DEF ProcessStatus
    <3> QED
      BY <1>9, <2>2, <3>1, <3>2
  <2> QED
    BY <2>1, <2>2
<1>13. owner' \in [Reference -> Process \cup {NoOne}]
  BY <1>3, <1>4, <1>6, <1>11
<1>14. Commits(do.event, q, v, do.bind)
  <2>1. /\ q \in Process /\ status'[q] # "absent"
        /\ \A x \in Reference : owner'[x] = IF x \in do.bind THEN q ELSE owner[x]
    BY <1>3, <1>4, <1>6
  <2> QED
    BY <1>4, <1>8, <1>9, <1>12, <2>1 DEF Commits
<1> QED
  BY <1>1, <1>2, <1>4, <1>6, <1>7, <1>13, <1>14

(* The commit of a resolution keeps the invariant. *)
LEMMA ResolveCommits ==
  ASSUME Inv, NEW c \in Command, ResolveCommit(c)
  PROVE  Inv'
<1>1. PICK do : do = Resolution[c]
  OBVIOUS
<1>2. PICK r, q, v : r = do.event /\ q = do.process /\ v = verdict[c]
  OBVIOUS
<1>3. /\ TypeOK /\ Transactions /\ Tables /\ CommandOK(c) /\ c \in Txn
      /\ r \in Request /\ q \in Process /\ do.bind \subseteq Reference
      /\ do.id \in CommandId /\ c # NoOne /\ NoOne \notin Process
  BY <1>1, <1>2, Parts DEF Inv, Transactions
<1>4. /\ Commits(r, q, v, do.bind)
      /\ v \in {"operator_quarantine_resolution",
                "terminal_process_record_only"}
      /\ resolution' = [resolution EXCEPT ![do.id] = c]
      /\ owner' \in [Reference -> Process \cup {NoOne}]
      /\ UNCHANGED <<status, deployment>>
  BY <1>1, <1>2, ResolveIsCommit
<1>5. /\ inbox \in [Request -> Matched \cup Quarantined \cup {"absent"}]
      /\ assigned \in [Request -> Process \cup {NoOne}]
      /\ delivery \in [Request -> {"none", "pending", "published"}]
      /\ destination \in [Request -> Process \cup {NoOne}]
      /\ resolution \in [CommandId -> Command \cup {NoOne}]
      /\ v \in Matched
  BY <1>3, <1>4 DEF TypeOK, Matched
<1>6. /\ pc[c] = "insert" /\ inbox[r] \in Quarantined
      /\ \A i \in CommandId : resolution[i] # NoOne =>
           Resolution[resolution[i]].event # r
      /\ resolution[do.id] = NoOne /\ End(c, "answered")
  BY <1>1, <1>2 DEF ResolveCommit, ResolveFails
<1>7. /\ inbox'[r] = v /\ assigned'[r] = q
      /\ \A s \in Request \ {r} :
           inbox'[s] = inbox[s] /\ assigned'[s] = assigned[s]
      /\ resolution'[do.id] = c
      /\ \A i \in CommandId \ {do.id} : resolution'[i] = resolution[i]
  BY <1>3, <1>4, <1>5 DEF Commits
<1>8. Transactions'
  <2>1. tenant' = tenant
    BY <1>4 DEF Commits
  <2>2. \A x \in Reference :
          owner'[x] # owner[x] => ReferenceLock(x) \in locks[c]
    <3>1. /\ do.bind \subseteq Content[r].references
          /\ \A x \in Content[r].references : ReferenceLock(x) \in locks[c]
      BY <1>1, <1>2, <1>3, <1>6 DEF CommandOK
    <3> QED
      BY <1>4, <1>5, <3>1 DEF Commits
  <2>3. \A s \in Request :
           /\ inbox[s] # "absent" => inbox'[s] # "absent"
           /\ inbox[s] = "absent" => inbox'[s] = "absent"
    <3>1. v # "absent" /\ inbox[r] # "absent"
      BY <1>4, <1>6 DEF Quarantined
    <3> QED
      BY <1>7, <3>1
  <2> QED
    BY <1>3, <1>4, <1>6, <2>1, <2>2, <2>3, CommitKept
<1>9. TypeOK'
  <2>1. /\ inbox' \in [Request -> Matched \cup Quarantined \cup {"absent"}]
        /\ assigned' \in [Request -> Process \cup {NoOne}]
    BY <1>3, <1>4, <1>5 DEF Commits
  <2>2. /\ delivery' \in [Request -> {"none", "pending", "published"}]
        /\ destination' \in [Request -> Process \cup {NoOne}]
    BY <1>3, <1>4, <1>5 DEF Commits
  <2>3. tenant' = tenant /\ resolution' \in [CommandId -> Command \cup {NoOne}]
    BY <1>3, <1>4, <1>5 DEF Commits
  <2> QED
    BY <1>3, <1>4, <1>8, <2>1, <2>2, <2>3 DEF TypeOK, Transactions, Locals
<1>10. /\ OwnersExist' /\ RowsAssigned' /\ NoOrphanProcess'
       /\ DeliveredToItsProcess' /\ NothingLeftBehind'
  BY <1>3, <1>4, CommitTables
<1>11. /\ \A x \in Reference : owner[x] # NoOne => owner'[x] = owner[x]
       /\ \A x \in do.bind : owner'[x] = q
  <2>1. \A x \in Reference : owner[x] # NoOne => owner'[x] = owner[x]
    BY <1>3, <1>4, CommitIsFinal
  <2>2. \A x \in do.bind : owner'[x] = q
    BY <1>3, <1>4, <1>5 DEF Commits
  <2> QED
    BY <2>1, <2>2
<1>12. ASSUME NEW i \in CommandId \ {do.id}, resolution[i] # NoOne
       PROVE  /\ Resolution[resolution[i]].event \in Request \ {r}
              /\ Resolution[resolution[i]].bind \subseteq Reference
              /\ Resolution[resolution[i]].process \in Process
  BY <1>5, <1>6, <1>12, Parts
<1>13. ResolvedByHand'
  <2>1. ASSUME NEW i \in CommandId, resolution'[i] # NoOne
        PROVE  inbox'[Resolution[resolution'[i]].event] \in
                 {"operator_quarantine_resolution",
                  "terminal_process_record_only"}
    <3>1. CASE i = do.id
      BY <1>1, <1>2, <1>4, <1>7, <3>1
    <3>2. CASE i # do.id
      BY <1>3, <1>7, <1>12, <2>1, <3>2 DEF Tables, ResolvedByHand
    <3> QED
      BY <3>1, <3>2
  <2> QED
    BY <2>1 DEF ResolvedByHand
<1>14. MatchesEveryReference'
  <2>1. ASSUME NEW s \in Request, inbox'[s] \in Matched,
               \A i \in CommandId : resolution'[i] # NoOne =>
                 Resolution[resolution'[i]].event # s
        PROVE  /\ \A x \in Content[s].references : owner'[x] = assigned'[s]
               /\ Content[s].process \in {NoOne, assigned'[s]}
    <3>1. s # r
      BY <1>1, <1>2, <1>3, <1>7, <2>1
    <3>2. /\ inbox[s] \in Matched /\ assigned'[s] = assigned[s]
          /\ assigned[s] \in Process
      BY <1>3, <1>7, <2>1, <3>1 DEF Tables, RowsAssigned
    <3>3. \A i \in CommandId : resolution[i] # NoOne =>
            Resolution[resolution[i]].event # s
      BY <1>6, <1>7, <2>1
    <3>4. /\ \A x \in Content[s].references : owner[x] = assigned[s]
          /\ Content[s].process \in {NoOne, assigned[s]}
      BY <1>3, <3>2, <3>3 DEF Tables, MatchesEveryReference
    <3>5. Content[s].references \subseteq Reference
      BY Parts
    <3> QED
      BY <1>3, <1>11, <3>2, <3>4, <3>5
  <2> QED
    BY <2>1 DEF MatchesEveryReference
<1>15. ResolvedAsRecorded'
  <2>1. ASSUME NEW i \in CommandId, resolution'[i] # NoOne,
               NEW it, it = Resolution[resolution'[i]]
        PROVE  /\ inbox'[it.event] \in Matched
               /\ assigned'[it.event] = it.process
               /\ \A x \in it.bind : owner'[x] = it.process
               /\ \A j \in CommandId \ {i} :
                    resolution'[j] # NoOne =>
                      Resolution[resolution'[j]].event # it.event
    <3>1. CASE i = do.id
      <4>1. it = do
        BY <1>1, <1>7, <2>1, <3>1
      <4>2. \A j \in CommandId \ {i} : resolution'[j] # NoOne =>
              Resolution[resolution'[j]].event # r
        BY <1>6, <1>7, <3>1
      <4> QED
        BY <1>2, <1>5, <1>7, <1>11, <4>1, <4>2
    <3>2. CASE i # do.id
      <4>1. it = Resolution[resolution[i]] /\ resolution[i] # NoOne
        BY <1>7, <2>1, <3>2
      <4>2. /\ inbox[it.event] \in Matched /\ assigned[it.event] = it.process
            /\ \A x \in it.bind : owner[x] = it.process
            /\ \A j \in CommandId \ {i} :
                 resolution[j] # NoOne =>
                   Resolution[resolution[j]].event # it.event
        BY <1>3, <4>1 DEF Tables, ResolvedAsRecorded
      <4>3. /\ it.event \in Request \ {r} /\ it.bind \subseteq Reference
            /\ it.process # NoOne
        BY <1>3, <1>12, <3>2, <4>1
      <4>4. \A j \in CommandId \ {i} : resolution'[j] # NoOne =>
              Resolution[resolution'[j]].event # it.event
        <5>1. ASSUME NEW j \in CommandId \ {i}, resolution'[j] # NoOne
              PROVE  Resolution[resolution'[j]].event # it.event
          <6>1. CASE j = do.id
            BY <1>1, <1>2, <1>7, <4>3, <6>1
          <6>2. CASE j # do.id
            BY <1>7, <4>2, <5>1, <6>2
          <6> QED
            BY <6>1, <6>2
        <5> QED
          BY <5>1
      <4> QED
        BY <1>7, <1>11, <4>2, <4>3, <4>4
    <3> QED
      BY <3>1, <3>2
  <2> QED
    BY <2>1 DEF ResolvedAsRecorded
<1>16. OneProcessPerReference'
  <2>1. \A s \in Request : inbox'[s] = "process_created_from_trigger" =>
          inbox[s] = "process_created_from_trigger"
    BY <1>4, <1>7
  <2> QED
    BY <1>3, <2>1 DEF Tables, OneProcessPerReference
<1> QED
  BY <1>8, <1>9, <1>10, <1>13, <1>14, <1>15, <1>16 DEF Inv, Tables

-----------------------------------------------------------------------------
(* The theorems. *)

(* At first nothing runs and nothing has arrived. *)
LEMMA InitInv ==
  Init => Inv
<1> SUFFICES ASSUME Init PROVE Inv
  OBVIOUS
<1>1. /\ \A t \in Txn : pc[t] = "idle" /\ locks[t] = {}
      /\ \A r \in Request : inbox[r] = "absent" /\ assigned[r] = NoOne
                             /\ delivery[r] = "none"
      /\ \A x \in Reference : owner[x] = NoOne
      /\ \A i \in CommandId : resolution[i] = NoOne
  BY DEF Init
<1>2. PICK d \in Deployment \cup {Unassigned} :
        /\ tenant = [status |-> "active", deployment |-> d]
        /\ deployment = [p \in Process |-> IF p \in Existing THEN d ELSE NoOne]
  BY DEF Init
<1>3. PICK ended \in SUBSET Existing :
        status = [p \in Process |-> IF p \in ended THEN "completed"
                                    ELSE IF p \in Existing THEN "active"
                                    ELSE "absent"]
  BY DEF Init
<1>4. Locals
  BY DEF Init, Locals, Idle
<1>5. TypeOK
  <2>1. tenant \in [status : {"active", "suspended"},
                    deployment : Deployment \cup {Unassigned}]
    BY <1>2
  <2>2. deployment \in [Process -> Deployment \cup {Unassigned, NoOne}]
    BY <1>2
  <2>3. status \in [Process -> ProcessStatus]
    BY <1>3 DEF ProcessStatus, Terminal
  <2>4. /\ owner \in [Reference -> Process \cup {NoOne}]
        /\ inbox \in [Request -> Matched \cup Quarantined \cup {"absent"}]
        /\ assigned \in [Request -> Process \cup {NoOne}]
        /\ delivery \in [Request -> {"none", "pending", "published"}]
        /\ destination \in [Request -> Process \cup {NoOne}]
        /\ resolution \in [CommandId -> Command \cup {NoOne}]
    BY DEF Init
  <2> QED
    BY <1>4, <2>1, <2>2, <2>3, <2>4 DEF TypeOK, Locals
<1>6. Transactions
  <2>1. Exclusive
    BY <1>1 DEF Exclusive
  <2>2. \A t \in Txn : RequestOK(t) /\ CommandOK(t) /\ AssignerOK(t)
    BY <1>1 DEF RequestOK, CommandOK, AssignerOK
  <2> QED
    BY <1>4, <2>1, <2>2, Parts DEF Transactions
<1>7. OwnersExist /\ RowsAssigned /\ ResolvedByHand /\ OneProcessPerReference
  BY <1>1 DEF OwnersExist, RowsAssigned, ResolvedByHand,
              OneProcessPerReference, Matched
<1>8. NoOrphanProcess /\ MatchesEveryReference /\ ResolvedAsRecorded
  BY <1>1, <1>3 DEF NoOrphanProcess, MatchesEveryReference,
                    ResolvedAsRecorded, Matched
<1>9. DeliveredToItsProcess
  BY <1>1 DEF DeliveredToItsProcess, Matched
<1>10. NothingLeftBehind
  BY <1>1, <1>2, <1>3 DEF NothingLeftBehind
<1> QED
  BY <1>5, <1>6, <1>7, <1>8, <1>9, <1>10 DEF Inv, Tables

(* Every step keeps the invariant. *)
LEMMA NextInv ==
  Inv /\ [Next]_vars => Inv'
<1> SUFFICES ASSUME Inv, [Next]_vars PROVE Inv'
  OBVIOUS
<1>1. ASSUME NEW r \in Request, Ingest(r) PROVE Inv'
  BY <1>1, IngestSteps, IngestCommits DEF Ingest
<1>2. ASSUME NEW c \in Command, Resolve(c) PROVE Inv'
  BY <1>2, ResolveSteps, ResolveCommits DEF Resolve
<1>3. ASSUME NEW a \in Assigner, Assign(a) PROVE Inv'
  BY <1>3, AssignSteps, AssignCommits DEF Assign
<1>4. ASSUME NEW t \in Txn, Disconnect(t) PROVE Inv'
  BY <1>4, EndStep DEF Disconnect, Idle
<1>5. CASE \/ \E r \in Request : Publish(r)
           \/ \E p \in Process : CompleteProcess(p)
           \/ SwitchTenant
  BY <1>5, SurroundingSteps
<1>6. CASE UNCHANGED vars
  <2>1. CASE Txn = {}
    <3>1. TypeOK' /\ Locals'
      BY <1>6 DEF Inv, TypeOK, Transactions, Locals, vars, tables
    <3>2. Transactions'
      BY <1>6, <2>1, <3>1, Parts DEF Transactions, Exclusive
    <3>3. OwnersExist' /\ RowsAssigned' /\ ResolvedByHand'
      BY <1>6 DEF Inv, Tables, tables, vars, OwnersExist, RowsAssigned,
                  ResolvedByHand
    <3>4. OneProcessPerReference' /\ NoOrphanProcess' /\ MatchesEveryReference'
      BY <1>6 DEF Inv, Tables, tables, vars, OneProcessPerReference,
                  NoOrphanProcess, MatchesEveryReference
    <3>5. ResolvedAsRecorded' /\ DeliveredToItsProcess' /\ NothingLeftBehind'
      BY <1>6 DEF Inv, Tables, tables, vars, ResolvedAsRecorded,
                  DeliveredToItsProcess, NothingLeftBehind
    <3> QED
      BY <3>1, <3>2, <3>3, <3>4, <3>5 DEF Inv, Tables
  <2>2. CASE Txn # {}
    <3>1. PICK t \in Txn : TRUE
      BY <2>2
    <3>2. /\ UNCHANGED tables /\ locks' = locks /\ choice' = choice
          /\ pc' = pc /\ verdict' = verdict /\ Locals' /\ Only(t)
      BY <1>6 DEF vars, Inv, Transactions, Locals, Only, Same
    <3>3. Same(t)
      BY <3>2 DEF Same
    <3>4. t \in Request => RequestOK(t)'
      BY <3>2, <3>3, RequestKept DEF tables, Inv, Transactions
    <3>5. t \in Command => CommandOK(t)'
      BY <3>2, <3>3, CommandKept DEF tables, Inv, Transactions
    <3>6. t \in Assigner => AssignerOK(t)'
      BY <3>2, <3>3, AssignerKept DEF Inv, Transactions
    <3> QED
      BY <3>2, <3>4, <3>5, <3>6, OwnStep
  <2> QED
    BY <2>1, <2>2
<1> QED
  BY <1>1, <1>2, <1>3, <1>4, <1>5, <1>6 DEF Next

(* Steps that are no commit leave rows and owners alone, and schedule      *)
(* nothing.                                                                *)
LEMMA QuietSteps ==
  ASSUME TypeOK, [Next]_vars
  PROVE  \/ /\ UNCHANGED <<owner, inbox, assigned>>
            /\ \A r \in Request : delivery[r] = "none" => delivery'[r] = "none"
         \/ \E r \in Request : IngestInsert(r)
         \/ \E c \in Command : ResolveCommit(c)
<1> DEFINE Quiet == /\ UNCHANGED <<owner, inbox, assigned>>
                    /\ \A r \in Request :
                         delivery[r] = "none" => delivery'[r] = "none"
<1>1. UNCHANGED tables => Quiet
  BY DEF tables
<1>2. \A t : Refuse(t) => UNCHANGED tables
  BY DEF Refuse
<1>3. \A t, api, label :
        RequireIngressTenant(t, api, label) => UNCHANGED tables
  BY <1>2 DEF RequireIngressTenant
<1>4. \A t, wanted, label :
        LockCorrelationKeys(t, wanted, label) => UNCHANGED tables
  BY DEF LockCorrelationKeys
<1>5. ASSUME NEW r \in Request, Ingest(r) PROVE Quiet \/ IngestInsert(r)
  <2>1. CASE IngestBegin(r) \/ IngestLockReferences(r)
    BY <1>1, <1>2, <1>3, <1>4, <2>1 DEF IngestBegin, IngestLockReferences
  <2>2. CASE IngestLockSource(r)
    <3>1. CASE SameSource(r) # {}
      BY <1>1, <2>2, <3>1 DEF IngestLockSource
    <3>2. CASE SameSource(r) = {}
      BY <1>1, <1>2, <2>2, <3>2 DEF IngestLockSource
    <3> QED
      BY <3>1, <3>2
  <2>3. CASE IngestResolve(r)
    BY <1>1, <2>3 DEF IngestResolve, Decide
  <2>4. CASE IngestLockProcess(r)
    BY <1>1, <2>4 DEF IngestLockProcess
  <2> QED
    BY <1>5, <2>1, <2>2, <2>3, <2>4 DEF Ingest
<1>6. ASSUME NEW c \in Command, Resolve(c) PROVE Quiet \/ ResolveCommit(c)
  <2>1. CASE ResolveBegin(c) \/ ResolveLockReferences(c) \/ ResolveConflict(c)
    BY <1>1, <1>2, <1>3, <1>4, <2>1
       DEF ResolveBegin, ResolveLockReferences, ResolveConflict
  <2>2. CASE ResolveLockCommand(c)
    BY <1>1, <1>2, <2>2 DEF ResolveLockCommand
  <2>3. CASE ResolveLockSource(c) \/ ResolveLockRow(c) \/ ResolveLockProcess(c)
    BY <1>1, <1>2, <2>3
       DEF ResolveLockSource, ResolveLockRow, ResolveLockProcess
  <2> QED
    BY <1>6, <2>1, <2>2, <2>3 DEF Resolve
<1>7. ASSUME NEW a \in Assigner, Assign(a) PROVE Quiet
  BY <1>1, <1>2, <1>7 DEF Assign, AssignBegin, AssignCommit
<1>8. ASSUME NEW t \in Txn, Disconnect(t) PROVE Quiet
  BY <1>1, <1>8 DEF Disconnect
<1>9. CASE SwitchTenant \/ \E p \in Process : CompleteProcess(p)
  BY <1>9 DEF SwitchTenant, CompleteProcess
<1>10. ASSUME NEW r \in Request, Publish(r) PROVE Quiet
  BY <1>10 DEF Publish, TypeOK
<1>11. CASE UNCHANGED vars
  BY <1>1, <1>11 DEF vars
<1> QED
  BY <1>5, <1>6, <1>7, <1>8, <1>9, <1>10, <1>11 DEF Next

(* The invariant holds in every reachable state. *)
THEOREM Invariance == Spec => []Inv
BY InitInv, NextInv, PTL DEF Spec

(* Rows, owners, processes, audit and deliveries tell one story, whatever  *)
(* the interleaving (EventIngestionService.ingest,                         *)
(* QuarantineResolutionService.resolve).                                   *)
THEOREM CorrelationStaysSound == Spec => []CorrelationIsSound
<1>1. Inv => CorrelationIsSound
  BY DEF Inv, Tables, CorrelationIsSound
<1> QED
  BY <1>1, Invariance, PTL

(* A move of the tenant leaves no live process and no delivery behind      *)
(* (TenantDeploymentService.assign).                                       *)
THEOREM MovesLeaveNothing == Spec => []NothingLeftBehind
<1>1. Inv => NothingLeftBehind
  BY DEF Inv, Tables
<1> QED
  BY <1>1, Invariance, PTL

(* What is scheduled is scheduled for a live process, and no reference or  *)
(* event changes hands later (persist_references, schedule_delivery).      *)
THEOREM CorrelationLasts == Spec => CorrelationIsFinal
<1>1. ASSUME Inv, [Next]_vars
      PROVE  /\ \A x \in Reference : owner[x] # NoOne => owner'[x] = owner[x]
             /\ \A r \in Request : assigned[r] # NoOne => assigned'[r] = assigned[r]
             /\ \A r \in Request :
                  /\ delivery[r] = "none" /\ delivery'[r] # "none"
                       => status'[destination'[r]] = "active"
                  /\ inbox[r] # inbox'[r]
                     /\ inbox'[r] = "terminal_process_record_only"
                       => status[assigned'[r]] \in Terminal
  <2>1. TypeOK /\ Tables
    BY <1>1 DEF Inv
  <2>2. CASE /\ UNCHANGED <<owner, inbox, assigned>>
             /\ \A r \in Request : delivery[r] = "none" => delivery'[r] = "none"
    BY <2>2
  <2>3. ASSUME NEW r \in Request, IngestInsert(r)
        PROVE  Commits(r, choice[r], verdict[r], Content[r].references)
    BY <1>1, <2>3, IngestIsCommit
  <2>4. ASSUME NEW c \in Command, ResolveCommit(c)
        PROVE  \E r, q, v, bound : r \in Request /\ Commits(r, q, v, bound)
    BY <1>1, <2>4, ResolveIsCommit, Parts
  <2>5. CASE \E r, q, v, bound : r \in Request /\ Commits(r, q, v, bound)
    <3>1. PICK r, q, v, bound : r \in Request /\ Commits(r, q, v, bound)
      BY <2>5
    <3> QED
      BY <2>1, <3>1, CommitIsFinal
  <2> QED
    BY <1>1, <2>1, <2>2, <2>3, <2>4, <2>5, QuietSteps
<1>2. Inv /\ [Next]_vars =>
        [\A r \in Request :
           /\ delivery[r] = "none" /\ delivery'[r] # "none"
                => status'[destination'[r]] = "active"
           /\ inbox[r] # inbox'[r] /\ inbox'[r] = "terminal_process_record_only"
                => status[assigned'[r]] \in Terminal]_vars
  BY <1>1
<1>3. Inv /\ [Next]_vars =>
        [/\ \A x \in Reference : owner[x] # NoOne => owner'[x] = owner[x]
         /\ \A r \in Request :
              assigned[r] # NoOne => assigned'[r] = assigned[r]]_vars
  BY <1>1
<1>4. Spec => ScheduledWhileLive
  BY <1>2, Invariance, PTL DEF Spec, ScheduledWhileLive
<1>5. Spec => OwnershipNeverChanges
  BY <1>3, Invariance, PTL DEF Spec, OwnershipNeverChanges
<1> QED
  BY <1>4, <1>5 DEF CorrelationIsFinal

-----------------------------------------------------------------------------
(* Nobody waits in a circle. *)

(* A set of numbers has a least one. *)
LEMMA LeastNumber ==
  ASSUME NEW S \in SUBSET Nat, S # {}
  PROVE  \E x \in S : \A y \in S : x <= y
<1>1. IsWellFoundedOn(OpToRel(<, Nat), Nat)
  BY NatLessThanWellFounded
<1>2. PICK x \in S : \A y \in S : ~(<<y, x>> \in OpToRel(<, Nat))
  BY <1>1, WFMin
<1>3. \A y \in S : ~(y < x)
  BY <1>2 DEF OpToRel
<1> QED
  BY <1>3

(* A finite set of numbers has a greatest one. *)
LEMMA GreatestNumber ==
  ASSUME NEW S \in SUBSET Nat, S # {}, IsFiniteSet(S)
  PROVE  \E x \in S : \A y \in S : y <= x
<1> DEFINE Above(x) == {y \in S : x < y}
           Counts == {Cardinality(Above(x)) : x \in S}
<1>1. \A x \in S : IsFiniteSet(Above(x)) /\ Cardinality(Above(x)) \in Nat
  BY FS_Subset, FS_CardinalityType
<1>2. Counts \in SUBSET Nat /\ Counts # {}
  BY <1>1
<1>3. PICK n \in Counts : \A m \in Counts : n <= m
  <2> HIDE DEF Counts
  <2> QED
    BY <1>2, LeastNumber
<1>4. PICK x \in S : n = Cardinality(Above(x))
  BY <1>3
<1>5. ASSUME NEW y \in S, x < y PROVE FALSE
  <2>1. Above(y) \subseteq Above(x) /\ y \in Above(x) /\ y \notin Above(y)
    <3>1. x \in Nat /\ y \in Nat /\ \A z \in S : z \in Nat /\ (y < z => x < z)
      BY <1>5
    <3>2. y \notin Above(y)
      BY <3>1
    <3>3. Above(y) \subseteq Above(x)
      BY <3>1
    <3> QED
      BY <1>5, <3>2, <3>3
  <2>2. Cardinality(Above(y)) <= Cardinality(Above(x))
        /\ (Cardinality(Above(y)) = Cardinality(Above(x)) => Above(y) = Above(x))
    <3> HIDE DEF Above
    <3> QED
      BY <1>1, <2>1, FS_Subset
  <2>3. n <= Cardinality(Above(y))
    BY <1>3
  <2> QED
    BY <1>1, <1>4, <2>1, <2>2, <2>3
<1> QED
  BY <1>5

(* The kinds of locks differ, and a reference has a lock of its own. *)
LEMMA LockKinds ==
  /\ \A x, y : ReferenceLock(x) = ReferenceLock(y) => x = y
  /\ \A x, i : ReferenceLock(x) # CommandLock(i)
  /\ \A x, k : ReferenceLock(x) # SourceLock(k)
  /\ \A x, r : ReferenceLock(x) # RowLock(r)
  /\ \A x, p : ReferenceLock(x) # ProcessLock(p)
  /\ \A i, k : CommandLock(i) # SourceLock(k)
  /\ \A i, r : CommandLock(i) # RowLock(r)
  /\ \A i, p : CommandLock(i) # ProcessLock(p)
  /\ \A k, r : SourceLock(k) # RowLock(r)
  /\ \A k, p : SourceLock(k) # ProcessLock(p)
  /\ \A r, p : RowLock(r) # ProcessLock(p)
BY DEF ReferenceLock, CommandLock, SourceLock, RowLock, ProcessLock

(* The references that a transaction locks, and those it has yet to lock.  *)
References(t) == Content[EventOf(t)].references

Missing(t) == {x \in References(t) : ReferenceLock(x) \notin locks[t]}

(* A transaction that holds a lock has passed the step that takes it; the  *)
(* references it holds come before those it has yet to lock.               *)
Passed(t, l) ==
  \/ l = DeploymentLock /\ pc[t] \notin Idle
  \/ /\ pc[t] \in {"source", "references", "resolve", "row", "process",
                  "insert"}
     /\ \E i : l = CommandLock(i)
  \/ /\ pc[t] \in {"references", "resolve", "row", "process", "insert"}
     /\ \E k : l = SourceLock(k)
  \/ /\ pc[t] = "references"
     /\ \E x \in Reference : l = ReferenceLock(x) /\ \A y \in Missing(t) : x < y
  \/ /\ pc[t] \in {"resolve", "row", "process", "insert"}
     /\ \E x \in Reference : l = ReferenceLock(x)
  \/ /\ pc[t] \in {"process", "insert"}
     /\ \E r : l = RowLock(r)
  \/ /\ pc[t] = "insert"
     /\ \E p : l = ProcessLock(p)

InOrder ==
  /\ \A t \in Txn : \A l \in locks[t] : Passed(t, l)
  /\ \A a \in Assigner : pc[a] \in Idle \cup {"assign"}

(* The next reference is the least of those missing. *)
LEMMA NextIsLeast ==
  ASSUME NEW t \in Request \cup Command, Missing(t) # {}
  PROVE  /\ NextReference(t, References(t)) \in Missing(t)
         /\ \A y \in Missing(t) : NextReference(t, References(t)) <= y
<1>1. References(t) \subseteq Reference /\ Reference \subseteq Nat
  BY Parts, IngestionAssumption DEF References, EventOf
<1>2. Missing(t) \in SUBSET Nat
  BY <1>1 DEF Missing
<1>3. \E x \in Missing(t) : \A y \in Missing(t) : x <= y
  BY <1>2, LeastNumber
<1>4. \E x \in {y \in References(t) : ReferenceLock(y) \notin locks[t]} :
        \A y \in References(t) : ReferenceLock(y) \notin locks[t] => x <= y
  BY <1>3 DEF Missing
<1>5. /\ NextReference(t, References(t))
           \in {y \in References(t) : ReferenceLock(y) \notin locks[t]}
      /\ \A y \in References(t) : ReferenceLock(y) \notin locks[t]
           => NextReference(t, References(t)) <= y
  BY <1>4 DEF NextReference
<1> QED
  BY <1>5 DEF Missing

(* No circle, where locks are held in order. *)
LEMMA OrderPreventsCircles ==
  ASSUME Locals, InOrder
  PROVE  NoCircularWait
<1> SUFFICES ASSUME NEW D, D \subseteq {t \in Txn : locks[t] # {}},
                    D # {}, IsFiniteSet(D),
                    \A t \in D : \E u \in D : WaitsFor(t, u)
             PROVE  FALSE
  BY DEF NoCircularWait
<1>1. \A t \in D : /\ t \in Txn /\ locks[t] # {}
                   /\ \A l \in locks[t] : Passed(t, l)
  BY DEF InOrder
<1>2. \A t \in D : \E u \in D : \E l \in locks[u] : Wants(t, l) /\ Passed(u, l)
  BY <1>1 DEF WaitsFor
<1>3. \A t \in D : pc[t] \notin Idle
  <2>1. ASSUME NEW t \in D PROVE pc[t] \notin Idle
    <3>1. PICK l \in locks[t] : Passed(t, l)
      BY <1>1
    <3> QED
      BY <3>1 DEF Passed, Idle
  <2> QED
    BY <2>1
<1>4. \A t \in D : pc[t] \notin {"insert", "resolve", "assign"}
  BY <1>2 DEF Wants, Idle
<1>5. \A t \in D : pc[t] # "process"
  <2>1. ASSUME NEW t \in D, pc[t] = "process" PROVE FALSE
    <3>1. PICK u \in D : \E p : Passed(u, ProcessLock(p))
      <4>1. \A l : Wants(t, l) => \E p : l = ProcessLock(p)
        BY <2>1 DEF Wants, Idle
      <4> QED
        BY <1>2, <4>1
    <3>2. pc[u] = "insert"
      BY <3>1, LockKinds, LockNames DEF Passed
    <3> QED
      BY <1>4, <3>2
  <2> QED
    BY <2>1
<1>6. \A t \in D : pc[t] # "row"
  <2>1. ASSUME NEW t \in D, pc[t] = "row" PROVE FALSE
    <3>1. PICK u \in D : \E r : Passed(u, RowLock(r))
      BY <1>2, <2>1 DEF Wants, Idle
    <3>2. pc[u] \in {"process", "insert"}
      BY <3>1, LockKinds, LockNames DEF Passed
    <3> QED
      BY <1>4, <1>5, <3>2
  <2> QED
    BY <2>1
<1>7. \A t \in D : pc[t] # "references"
  <2> DEFINE Waiting == {t \in D : pc[t] = "references"}
             Wanted(t) == NextReference(t, References(t))
  <2>1. ASSUME NEW t \in Waiting
        PROVE  /\ Wanted(t) \in Nat
               /\ \E u \in Waiting : Wanted(t) < Wanted(u)
    <3>1. t \in D /\ pc[t] = "references"
      OBVIOUS
    <3>2. PICK u \in D : \E l \in locks[u] : Wants(t, l) /\ Passed(u, l)
      BY <1>2
    <3> PICK l \in locks[u] : Wants(t, l) /\ Passed(u, l)
      BY <3>2
    <3>3. Missing(t) # {} /\ l = ReferenceLock(Wanted(t))
      BY <3>1 DEF Wants, Idle, Missing, References
    <3>4. PICK x \in Reference :
            /\ ReferenceLock(Wanted(t)) = ReferenceLock(x)
            /\ pc[u] = "references" => \A y \in Missing(u) : x < y
            /\ pc[u] \in {"references", "resolve", "row", "process", "insert"}
      BY <3>3, LockKinds, LockNames DEF Passed
    <3>5. x = Wanted(t) /\ x \in Nat
      BY <3>4, LockKinds, IngestionAssumption
    <3>6. u \in Waiting
      BY <1>4, <1>5, <1>6, <3>4
    <3>7. Missing(u) # {}
      <4>1. PICK m : Wants(u, m)
        BY <1>2, <3>6
      <4> QED
        BY <3>6, <4>1 DEF Wants, Idle, Missing, References
    <3>8. u \in Request \cup Command
      BY <1>1, <3>6 DEF Txn, InOrder, Idle
    <3>9. Wanted(u) \in Missing(u)
      BY <3>7, <3>8, NextIsLeast
    <3> QED
      BY <3>4, <3>5, <3>6, <3>9
  <2> DEFINE W == {Wanted(t) : t \in Waiting}
  <2>2. IsFiniteSet(Waiting)
    BY FS_Subset
  <2>3. IsFiniteSet(W)
    <3> DEFINE wanted == [t \in Waiting |-> Wanted(t)]
    <3>1. wanted \in Surjection(Waiting, W)
      BY DEF Surjection
    <3> HIDE DEF Waiting, W, wanted
    <3> QED
      BY <2>2, <3>1, FS_Surjection
  <2>4. W \in SUBSET Nat
    BY <2>1
  <2>5. \A x \in W : \E y \in W : x < y
    BY <2>1
  <2>6. W = {}
    <3> HIDE DEF W
    <3>1. ASSUME W # {} PROVE FALSE
      <4>1. PICK x \in W : \A y \in W : y <= x
        BY <2>3, <2>4, <3>1, GreatestNumber
      <4>2. PICK y \in W : x < y
        BY <2>5
      <4> QED
        BY <2>4, <4>1, <4>2
    <3> QED
      BY <3>1
  <2>7. Waiting = {}
    BY <2>6
  <2> QED
    BY <2>7
<1>8. \A t \in D : pc[t] # "source"
  <2>1. ASSUME NEW t \in D, pc[t] = "source" PROVE FALSE
    <3>1. PICK u \in D : \E k : Passed(u, SourceLock(k))
      BY <1>2, <2>1 DEF Wants, Idle
    <3>2. pc[u] \in {"references", "resolve", "row", "process", "insert"}
      BY <3>1, LockKinds, LockNames DEF Passed
    <3> QED
      BY <1>4, <1>5, <1>6, <1>7, <3>2
  <2> QED
    BY <2>1
<1>9. \A t \in D : pc[t] # "command"
  <2>1. ASSUME NEW t \in D, pc[t] = "command" PROVE FALSE
    <3>1. PICK u \in D : \E i : Passed(u, CommandLock(i))
      BY <1>2, <2>1 DEF Wants, Idle
    <3>2. pc[u] \in {"source", "references", "resolve", "row", "process",
                  "insert"}
      BY <3>1, LockKinds, LockNames DEF Passed
    <3> QED
      BY <1>4, <1>5, <1>6, <1>7, <1>8, <3>2
  <2> QED
    BY <2>1
<1>10. PICK t \in D : t \in Txn
  BY <1>1
<1> QED
  BY <1>3, <1>4, <1>5, <1>6, <1>7, <1>8, <1>9, <1>10 DEF Locals

(* A step of one transaction keeps the order if what that transaction      *)
(* holds afterwards is in order.                                           *)
LEMMA OrderKept ==
  ASSUME InOrder, NEW t \in Txn, Only(t),
         \A l \in locks'[t] : Passed(t, l)',
         t \in Assigner => pc'[t] \in Idle \cup {"assign"}
  PROVE  InOrder'
<1>1. ASSUME NEW u \in Txn, NEW l \in locks'[u] PROVE Passed(u, l)'
  <2>1. CASE u = t
    BY <1>1, <2>1
  <2>2. CASE u # t
    <3>1. pc'[u] = pc[u] /\ locks'[u] = locks[u]
      BY <2>2 DEF Only, Same
    <3>2. Missing(u)' = Missing(u)
      BY <3>1 DEF Missing, References, EventOf
    <3>3. Passed(u, l)
      BY <1>1, <3>1 DEF InOrder
    <3> QED
      BY <3>1, <3>2, <3>3 DEF Passed
  <2> QED
    BY <2>1, <2>2
<1>2. ASSUME NEW a \in Assigner PROVE pc'[a] \in Idle \cup {"assign"}
  BY Parts DEF InOrder, Only, Same
<1> QED
  BY <1>1, <1>2 DEF InOrder

(* A transaction that ends holds nothing. *)
LEMMA EndInOrder ==
  ASSUME Locals, InOrder, NEW t \in Txn, NEW label \in Idle, End(t, label)
  PROVE  InOrder'
<1>1. Only(t) /\ locks'[t] = {} /\ pc'[t] \in Idle
  BY EndEffect
<1> QED
  BY <1>1, OrderKept

(* One that takes the lock of its step and goes on is past that step. *)
LEMMA TakeInOrder ==
  ASSUME Locals, InOrder, NEW t \in Txn, Only(t), NEW l,
         locks'[t] \subseteq locks[t] \cup {l},
         \/ /\ pc[t] \in Idle /\ l = DeploymentLock
            /\ \/ t \notin Assigner /\ pc'[t] \in {"command", "source"}
               \/ pc'[t] = "assign"
         \/ /\ t \notin Assigner
            /\ \/ /\ pc[t] = "command" /\ pc'[t] = "source"
                  /\ \E i : l = CommandLock(i)
               \/ /\ pc[t] = "source" /\ pc'[t] = "references"
                  /\ \E k : l = SourceLock(k)
               \/ /\ pc[t] = "references" /\ pc'[t] \in {"resolve", "row"}
                  /\ l = DeploymentLock
               \/ /\ pc[t] = "resolve" /\ pc'[t] \in {"process", "insert"}
                  /\ l = DeploymentLock
               \/ /\ pc[t] = "row" /\ pc'[t] = "process"
                  /\ \E r : l = RowLock(r)
               \/ /\ pc[t] = "process" /\ pc'[t] = "insert"
                  /\ \E p : l = ProcessLock(p)
  PROVE  InOrder'
<1>1. ASSUME NEW m \in locks'[t] PROVE Passed(t, m)'
  <2>1. CASE m \in locks[t]
    <3>1. Passed(t, m)
      BY <2>1 DEF InOrder
    <3>2. pc[t] \notin Idle
      BY <3>1 DEF Passed, Idle
    <3>3. CASE pc[t] = "command" /\ pc'[t] = "source"
      BY <3>1, <3>3 DEF Passed, Idle
    <3>4. CASE pc[t] = "source" /\ pc'[t] = "references"
      BY <3>1, <3>4 DEF Passed, Idle
    <3>5. CASE pc[t] = "references" /\ pc'[t] \in {"resolve", "row"}
      BY <3>1, <3>5 DEF Passed, Idle
    <3>6. CASE pc[t] = "resolve" /\ pc'[t] \in {"process", "insert"}
      BY <3>1, <3>6 DEF Passed, Idle
    <3>7. CASE pc[t] = "row" /\ pc'[t] = "process"
      BY <3>1, <3>7 DEF Passed, Idle
    <3>8. CASE pc[t] = "process" /\ pc'[t] = "insert"
      BY <3>1, <3>8 DEF Passed, Idle
    <3> QED
      BY <3>2, <3>3, <3>4, <3>5, <3>6, <3>7, <3>8
  <2>2. CASE m = l
    BY <2>2 DEF Passed, Idle
  <2> QED
    BY <2>1, <2>2
<1> QED
  BY <1>1, OrderKept

(* The references are locked one after the other, the least first. *)
LEMMA KeysInOrder ==
  ASSUME Locals, InOrder, NEW t \in Request \cup Command,
         NEW label \in {"resolve", "row"}, pc[t] = "references",
         LockCorrelationKeys(t, References(t), label)
  PROVE  InOrder'
<1>1. t \in Txn /\ t \notin Assigner
  BY Parts
<1>2. CASE Missing(t) = {}
  <2>1. Goto(t, label) /\ UNCHANGED <<locks, choice, verdict>>
    BY <1>2 DEF LockCorrelationKeys, Missing
  <2>2. Only(t) /\ pc'[t] = label /\ locks'[t] = locks[t]
    BY <1>1, <2>1 DEF Only, Same, Goto, Locals
  <2> QED
    BY <1>1, <2>2, TakeInOrder
<1>3. CASE Missing(t) # {}
  <2>1. PICK x : x = NextReference(t, References(t))
    OBVIOUS
  <2>2. x \in Missing(t) /\ \A y \in Missing(t) : x <= y
    BY <1>3, <2>1, NextIsLeast
  <2>3. Take(t, ReferenceLock(x)) /\ UNCHANGED <<pc, choice, verdict>>
    BY <1>3, <2>1 DEF LockCorrelationKeys, Missing
  <2>4. Only(t) /\ pc'[t] = pc[t] /\ locks'[t] = locks[t] \cup {ReferenceLock(x)}
    BY <1>1, <2>3 DEF Only, Same, Take, Locals
  <2>5. References(t) \subseteq Reference /\ Reference \subseteq Nat
    BY Parts, IngestionAssumption DEF References, EventOf
  <2>6. Missing(t)' = Missing(t) \ {x}
    BY <2>4, LockKinds DEF Missing, References, EventOf
  <2>7. x \in Reference /\ \A y \in Missing(t)' : x < y
    <3>1. Missing(t) \subseteq Nat /\ x \in Reference
      BY <2>2, <2>5 DEF Missing
    <3> QED
      BY <2>2, <2>6, <3>1
  <2>8. ASSUME NEW l \in locks'[t] PROVE Passed(t, l)'
    <3>1. CASE l = ReferenceLock(x)
      BY <2>4, <2>7, <3>1 DEF Passed
    <3>2. CASE l \in locks[t]
      <4>1. Passed(t, l)
        BY <1>1, <3>2 DEF InOrder
      <4>2. Missing(t)' \subseteq Missing(t)
        BY <2>6
      <4> QED
        BY <2>4, <4>1, <4>2 DEF Passed
    <3> QED
      BY <2>4, <3>1, <3>2
  <2> QED
    BY <1>1, <2>4, <2>8, OrderKept
<1> QED
  BY <1>2, <1>3

(* Every step keeps the order. *)
LEMMA NextInOrder ==
  ASSUME Locals, InOrder, [Next]_vars
  PROVE  InOrder'
<1>1. ASSUME NEW t \in Txn, Refuse(t) PROVE InOrder'
  BY <1>1, EndInOrder DEF Refuse, Idle
<1>2. ASSUME NEW t \in Txn, t \notin Assigner, NEW api,
             NEW label \in {"command", "source"}, pc[t] \in Idle,
             RequireIngressTenant(t, api, label)
      PROVE  InOrder'
  <2>1. CASE Refuse(t)
    BY <1>1, <2>1
  <2>2. CASE /\ Take(t, DeploymentLock) /\ Goto(t, label)
             /\ UNCHANGED <<choice, verdict>>
    BY <1>2, <2>2, TakeEffect, TakeInOrder
  <2> QED
    BY <1>2, <2>1, <2>2 DEF RequireIngressTenant
<1>3. ASSUME NEW r \in Request, Ingest(r) PROVE InOrder'
  <2>1. r \in Txn /\ r \notin Assigner /\ EventOf(r) = r
    BY Parts DEF EventOf
  <2>2. CASE IngestBegin(r)
    BY <1>1, <1>2, <2>1, <2>2 DEF IngestBegin
  <2>3. CASE IngestLockSource(r)
    <3>1. CASE SameSource(r) # {}
      BY <2>1, <2>3, <3>1, EndInOrder DEF IngestLockSource, Idle
    <3>2. CASE SameSource(r) = {} /\ Refuse(r)
      BY <1>1, <2>1, <3>2
    <3>3. CASE /\ Take(r, SourceLock(Content[r].key)) /\ Goto(r, "references")
               /\ UNCHANGED <<choice, verdict>> /\ pc[r] = "source"
      BY <2>1, <3>3, TakeEffect, TakeInOrder
    <3> QED
      BY <2>3, <3>1, <3>2, <3>3 DEF IngestLockSource
  <2>4. CASE IngestLockReferences(r)
    BY <2>1, <2>4, KeysInOrder DEF IngestLockReferences, References
  <2>5. CASE IngestResolve(r)
    <3>1. PICK next \in {"process", "insert"} :
            pc[r] = "resolve" /\ \E p, reason : Decide(r, p, reason, next)
      BY <2>5 DEF IngestResolve
    <3>2. Only(r) /\ pc'[r] = next /\ locks'[r] = locks[r]
      BY <2>1, <3>1 DEF Only, Same, Decide, Goto, Locals
    <3> QED
      BY <2>1, <3>1, <3>2, TakeInOrder
  <2>6. CASE IngestLockProcess(r)
    <3>1. /\ Only(r) /\ pc'[r] = "insert" /\ pc[r] = "process"
          /\ locks'[r] = locks[r] \cup {ProcessLock(choice[r])}
      BY <2>1, <2>6 DEF Only, Same, IngestLockProcess, Take, Goto, Locals
    <3> QED
      BY <2>1, <3>1, TakeInOrder
  <2>7. CASE IngestInsert(r)
    <3>1. \E label \in Idle : End(r, label)
      BY <2>7 DEF IngestInsert, IngestCommit, Idle
    <3> QED
      BY <2>1, <3>1, EndInOrder
  <2> QED
    BY <1>3, <2>2, <2>3, <2>4, <2>5, <2>6, <2>7 DEF Ingest
<1>4. ASSUME NEW c \in Command, Resolve(c) PROVE InOrder'
  <2>1. c \in Txn /\ c \notin Assigner /\ EventOf(c) = Resolution[c].event
    BY Parts DEF EventOf
  <2>2. CASE ResolveBegin(c)
    BY <1>1, <1>2, <2>1, <2>2 DEF ResolveBegin
  <2>3. CASE ResolveLockCommand(c)
    <3>1. CASE \E label \in Idle : End(c, label)
      BY <2>1, <3>1, EndInOrder
    <3>2. CASE /\ Take(c, CommandLock(Resolution[c].id)) /\ Goto(c, "source")
               /\ UNCHANGED <<choice, verdict>> /\ pc[c] = "command"
      BY <2>1, <3>2, TakeEffect, TakeInOrder
    <3> QED
      BY <2>3, <3>1, <3>2 DEF ResolveLockCommand, Refuse, Idle
  <2>4. CASE ResolveLockSource(c)
    <3>1. PICK k : /\ Take(c, SourceLock(k)) /\ Goto(c, "references")
                   /\ UNCHANGED <<choice, verdict>> /\ pc[c] = "source"
      BY <2>4 DEF ResolveLockSource
    <3> QED
      BY <2>1, <3>1, TakeEffect, TakeInOrder
  <2>5. CASE ResolveLockReferences(c)
    BY <2>1, <2>5, KeysInOrder DEF ResolveLockReferences, References
  <2>6. CASE ResolveLockRow(c)
    <3>1. CASE /\ Take(c, RowLock(Resolution[c].event)) /\ Goto(c, "process")
               /\ UNCHANGED <<choice, verdict>> /\ pc[c] = "row"
      BY <2>1, <3>1, TakeEffect, TakeInOrder
    <3> QED
      BY <1>1, <2>1, <2>6, <3>1 DEF ResolveLockRow
  <2>7. CASE ResolveLockProcess(c)
    <3>1. CASE Refuse(c)
      BY <1>1, <2>1, <3>1
    <3>2. CASE ~Refuse(c)
      <4>1. /\ Only(c) /\ pc'[c] = "insert" /\ pc[c] = "process"
            /\ locks'[c] = locks[c] \cup {ProcessLock(Resolution[c].process)}
        BY <2>1, <2>7, <3>2
           DEF Only, Same, ResolveLockProcess, Take, Goto, Locals
      <4> QED
        BY <2>1, <4>1, TakeInOrder
    <3> QED
      BY <3>1, <3>2
  <2>8. CASE ResolveCommit(c) \/ ResolveConflict(c)
    <3>1. \E label \in Idle : End(c, label)
      BY <2>8 DEF ResolveCommit, ResolveConflict, Refuse, Idle
    <3> QED
      BY <2>1, <3>1, EndInOrder
  <2> QED
    BY <1>4, <2>2, <2>3, <2>4, <2>5, <2>6, <2>7, <2>8 DEF Resolve
<1>5. ASSUME NEW a \in Assigner, Assign(a) PROVE InOrder'
  <2>1. a \in Txn
    BY Parts
  <2>2. CASE AssignBegin(a)
    BY <2>1, <2>2, TakeEffect, TakeInOrder DEF AssignBegin
  <2>3. CASE AssignCommit(a)
    <3>1. \E label \in Idle : End(a, label)
      BY <2>3 DEF AssignCommit, Refuse, Idle
    <3> QED
      BY <2>1, <3>1, EndInOrder
  <2> QED
    BY <1>5, <2>2, <2>3 DEF Assign
<1>6. ASSUME NEW t \in Txn, Disconnect(t) PROVE InOrder'
  BY <1>6, EndInOrder DEF Disconnect, Idle
<1>7. CASE UNCHANGED <<pc, locks>>
  <2>1. \A t : Missing(t)' = Missing(t)
    BY <1>7 DEF Missing, References, EventOf
  <2>2. \A t, l : Passed(t, l)' <=> Passed(t, l)
    BY <1>7, <2>1 DEF Passed
  <2> QED
    BY <1>7, <2>2 DEF InOrder
<1>8. CASE \/ \E r \in Request : Publish(r)
           \/ \E p \in Process : CompleteProcess(p)
           \/ SwitchTenant \/ UNCHANGED vars
  BY <1>7, <1>8 DEF Publish, CompleteProcess, SwitchTenant, vars
<1> QED
  BY <1>3, <1>4, <1>5, <1>6, <1>8 DEF Next

(* The locks suffice and nobody waits in a circle: no request fails at its *)
(* commit, and of any transactions that hold locks one waits for none of   *)
(* the others (lock_source_event_key, lock_correlation_keys and the row    *)
(* locks of ingest and resolve).                                           *)
THEOREM LocksAreEnough == Spec => []LocksSuffice
<1>1. Init => InOrder
  BY DEF Init, InOrder, Idle, Txn
<1>2. Inv => Locals /\ NoInternalError
  BY DEF Inv, Transactions, RequestOK, NoInternalError
<1>3. Inv /\ InOrder /\ [Next]_vars => InOrder'
  BY <1>2, NextInOrder
<1>4. Spec => []InOrder
  BY <1>1, <1>3, Invariance, PTL DEF Spec
<1>5. Inv /\ InOrder => LocksSuffice
  BY <1>2, OrderPreventsCircles DEF LocksSuffice
<1> QED
  BY <1>4, <1>5, Invariance, PTL
=============================================================================
