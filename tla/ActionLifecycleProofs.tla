------------------------ MODULE ActionLifecycleProofs ------------------------
(***************************************************************************)
(* Proofs that the properties of ActionLifecycle hold for every set of     *)
(* actions, payloads, executors and review commands.                       *)
(***************************************************************************)
EXTENDS ActionLifecycle, TLAPS

-----------------------------------------------------------------------------
(* Typing. *)

USE DEF control, proposal, review, executors, provider, uncontrolled,
        EnqueueControl, EnqueueManualWake

(* A working executor works on an action, and a recorder has a result.     *)
ExecutorHasJob ==
  \A e \in Executors :
    /\ pc[e] # "idle" => job[e] \in Actions
    /\ pc[e] = "record" => outcome[e] \in TerminalStatus \cup {"unknown"}

Typed == TypeOK /\ ExecutorHasJob

USE DEF PermissionOutcome, TerminalStatus, RetryableStatus,
        ActionRequestStatus, ApprovalStatus, ReviewCommandType,
        ReviewMessage, OutboxMessage

(* The initial rows are well typed. *)
LEMMA InitTyped == Init => Typed
<1> SUFFICES ASSUME Init PROVE Typed
  OBVIOUS
<1>1. TypeOK
  BY DEF Init, TypeOK
<1>2. ExecutorHasJob
  BY DEF Init, ExecutorHasJob
<1> QED
  BY <1>1, <1>2 DEF Typed

(* Every transaction and every provider step keeps the rows well typed.    *)
LEMMA NextTyped == Typed /\ [Next]_vars => Typed'
<1> SUFFICES ASSUME Typed, [Next]_vars PROVE Typed'
  OBVIOUS
<1> USE DEF Typed, TypeOK, ExecutorHasJob
<1>1. CASE UNCHANGED vars
  BY <1>1 DEF vars
<1>2. ASSUME NEW a \in Actions, NEW p \in Payloads,
             NEW o \in PermissionOutcome, PersistAction(a, p, o)
      PROVE Typed'
  BY <1>2 DEF PersistAction, initial_action_request_status
<1>3. ASSUME NEW c \in Commands, NEW a \in Actions,
             NEW t \in ReviewCommandType, NEW h \in Payloads,
             ApplyReview(c, a, t, h)
      PROVE Typed'
  BY <1>3 DEF ApplyReview
<1>4. ASSUME NEW e \in Executors, NEW a \in Actions, ExecuteBegin(e, a)
      PROVE Typed'
  BY <1>4 DEF ExecuteBegin
<1>5. ASSUME NEW e \in Executors, NEW a \in Actions, ReconcileBegin(e, a)
      PROVE Typed'
  BY <1>5 DEF ReconcileBegin
<1>6. ASSUME NEW e \in Executors, ExecuteLookup(e) PROVE Typed'
  BY <1>6 DEF ExecuteLookup, Conclude, LedgerOutcome
<1>7. ASSUME NEW e \in Executors, ExecuteAuthorize(e) PROVE Typed'
  BY <1>7 DEF ExecuteAuthorize, Conclude
<1>8. ASSUME NEW e \in Executors, ExecuteRejected(e) PROVE Typed'
  BY <1>8 DEF ExecuteRejected
<1>9. ASSUME NEW e \in Executors, ProviderReturns(e) PROVE Typed'
  BY <1>9 DEF ProviderReturns, Conclude, Perform
<1>10. ASSUME NEW e \in Executors, ReconcileLookup(e) PROVE Typed'
  BY <1>10 DEF ReconcileLookup, Conclude, LedgerOutcome
<1>11. ASSUME NEW e \in Executors, RecordTerminal(e) PROVE Typed'
  BY <1>11 DEF RecordTerminal
<1>12. ASSUME NEW e \in Executors, Crash(e) PROVE Typed'
  BY <1>12 DEF Crash
<1>13. ASSUME NEW a \in Actions, LateArrival(a) PROVE Typed'
  BY <1>13 DEF LateArrival, Perform
<1>14. ASSUME NEW a \in Actions, NEW r \in {"succeeded", "failed"},
              ResolveUnknown(a, r)
       PROVE Typed'
  BY <1>14 DEF ResolveUnknown
<1>15. CASE Takeover \/ Retry \/ Resume \/ ManualWake \/ Complete
  BY <1>15 DEF Takeover, Retry, Resume, ManualWake, Complete
<1>16. CASE SwitchTenant
  <2>1. tenant' \in BOOLEAN
    BY <1>16, Zenon DEF SwitchTenant
  <2> QED
    BY <1>16, <2>1 DEF SwitchTenant
<1>17. CASE SwitchBreaker
  <2>1. breaker' \in BOOLEAN
    BY <1>17, Zenon DEF SwitchBreaker
  <2> QED
    BY <1>17, <2>1 DEF SwitchBreaker
<1> QED
  BY <1>1, <1>2, <1>3, <1>4, <1>5, <1>6, <1>7, <1>8, <1>9, <1>10, <1>11,
     <1>12, <1>13, <1>14, <1>15, <1>16, <1>17 DEF Next, ExecutorStep

(* Every row always holds values of its columns: the gateway, the review   *)
(* service, the executor and the reconciliation service write no other.    *)
THEOREM TypeCorrect == Spec => []TypeOK
<1>1. Typed => TypeOK
  BY DEF Typed
<1> QED
  BY <1>1, InitTyped, NextTyped, PTL DEF Spec

-----------------------------------------------------------------------------
(* The inductive invariants. *)

(* The rows of an action appear together, and an undecided review has an   *)
(* untouched request.                                                      *)
RowsAgree ==
  \A a \in Actions :
    /\ request[a] = "none" =>
         /\ policy[a] = "none" /\ approval[a] = "none"
         /\ sent[a] = NoPayload /\ attempt[a] = "none"
    /\ approval[a] # "none" => policy[a] = "require_approval"
    /\ approval[a] = "pending" => request[a] = "pending_approval"

(* Who works on an action has reserved its attempt. *)
WorkHasAttempt ==
  \A e \in Executors : pc[e] # "idle" => attempt[job[e]] # "none"

Coherent == Typed /\ RequestTracksAttempt /\ RowsAgree /\ WorkHasAttempt

(* An approval was given by a command for the payload that is stored, and  *)
(* what was sent is what is stored and was authorized.                     *)
ApprovedAsStored ==
  \A a \in Actions :
    /\ approval[a] = "approved" =>
         \E c \in Commands :
           command[c] = [action |-> a, type |-> "approve", hash |-> payload[a]]
    /\ sent[a] # NoPayload =>
         /\ sent[a] = payload[a]
         /\ \/ policy[a] = "allow"
            \/ policy[a] = "require_approval" /\ approval[a] = "approved"

(* A review that a command decided is no longer pending. *)
DecidedIsClosed ==
  \A c \in Commands, a \in Actions :
    /\ command[c].action = a
    /\ command[c].type \in {"approve", "reject", "request_revision"}
    => approval[a] \notin {"none", "pending"}

(* Executor e may still send, or has sent, the request of action a. *)
Caller(e, a) == job[e] = a /\ pc[e] \in {"authorize", "calling"}

(* Nothing sends, or will deliver, a request of action a any more, and     *)
(* none had an effect.                                                     *)
NeverPerformed(a) ==
  /\ \A e \in Executors : ~Caller(e, a)
  /\ a \notin inflight
  /\ effects[a] = 0

(* Without idempotency the one call is with the run that reserved the      *)
(* attempt, or on its way from its dead body, or it had its effect.        *)
OneCall ==
  \A a \in Actions \ IdempotentActions :
    /\ attempt[a] = "none" => NeverPerformed(a)
    /\ \A e, f \in Executors : Caller(e, a) /\ Caller(f, a) => e = f
    /\ \A e \in Executors : Caller(e, a) => a \notin inflight
    /\ (a \in inflight \/ \E e \in Executors : Caller(e, a)) => effects[a] = 0

(* The provider's ledger counts the effects. *)
LedgerCounts ==
  \A a \in Actions : effects[a] = IF ledger[a] = "applied" THEN 1 ELSE 0

(* A result that waits to be recorded is what the provider did. *)
ResultIsTruthful ==
  \A e \in Executors : pc[e] = "record" =>
    /\ outcome[e] = "succeeded" => ledger[job[e]] = "applied"
    /\ outcome[e] = "conflict" => ledger[job[e]] = "conflict"
    /\ outcome[e] = "failed" /\ job[e] \notin IdempotentActions =>
         NeverPerformed(job[e])

(* And so is what has been recorded. *)
RecordIsTruthful ==
  \A a \in Actions : resolution[a] = "none" =>
    /\ attempt[a] = "succeeded" => ledger[a] = "applied"
    /\ attempt[a] = "conflict" => ledger[a] = "conflict"
    /\ attempt[a] = "failed" /\ a \notin IdempotentActions =>
         NeverPerformed(a)

-----------------------------------------------------------------------------
(* Each is preserved by every step. *)

(* The process row's lock keeps the status fence closed while a call is    *)
(* out, and the request row's lock keeps the request as it was authorized. *)
LEMMA NextFenced ==
  Typed /\ PauseFencesProvider /\ [Next]_vars => PauseFencesProvider'
<1> SUFFICES ASSUME Typed, PauseFencesProvider, [Next]_vars PROVE PauseFencesProvider'
  OBVIOUS
<1> USE DEF Typed, TypeOK, ExecutorHasJob, PauseFencesProvider, Authorized,
      ProcessPermits, ProcessUnlocked, RequestUnlocked
<1>1. CASE UNCHANGED vars
  BY <1>1 DEF vars
<1>2. ASSUME NEW a \in Actions, NEW p \in Payloads,
             NEW o \in PermissionOutcome, PersistAction(a, p, o)
      PROVE PauseFencesProvider'
  BY <1>2 DEF PersistAction, IsNewAction, initial_action_request_status
<1>3. ASSUME NEW c \in Commands, NEW a \in Actions,
             NEW t \in ReviewCommandType, NEW h \in Payloads,
             ApplyReview(c, a, t, h) PROVE PauseFencesProvider'
  BY <1>3 DEF ApplyReview, IsReviewPending
<1>4. ASSUME NEW e \in Executors, NEW a \in Actions, ExecuteBegin(e, a)
      PROVE PauseFencesProvider'
  BY <1>4 DEF ExecuteBegin, Authorized
<1>5. ASSUME NEW e \in Executors, NEW a \in Actions, ReconcileBegin(e, a)
      PROVE PauseFencesProvider'
  BY <1>5 DEF ReconcileBegin, Authorized
<1>6. ASSUME NEW e \in Executors, ExecuteLookup(e) PROVE PauseFencesProvider'
  BY <1>6 DEF ExecuteLookup, MayRetry, Conclude, LedgerOutcome
<1>7. ASSUME NEW e \in Executors, ExecuteAuthorize(e)
      PROVE PauseFencesProvider'
  BY <1>7 DEF ExecuteAuthorize, Authorized, Conclude
<1>8. ASSUME NEW e \in Executors, ExecuteRejected(e)
      PROVE PauseFencesProvider'
  BY <1>8 DEF ExecuteRejected
<1>9. ASSUME NEW e \in Executors, ProviderReturns(e)
      PROVE PauseFencesProvider'
  BY <1>9 DEF ProviderReturns, Conclude, Perform
<1>10. ASSUME NEW e \in Executors, ReconcileLookup(e)
       PROVE PauseFencesProvider'
  BY <1>10 DEF ReconcileLookup, Conclude, LedgerOutcome
<1>11. ASSUME NEW e \in Executors, RecordTerminal(e)
       PROVE PauseFencesProvider'
  BY <1>11 DEF RecordTerminal
<1>12. ASSUME NEW e \in Executors, Crash(e) PROVE PauseFencesProvider'
  BY <1>12 DEF Crash
<1>13. ASSUME NEW a \in Actions, LateArrival(a) PROVE PauseFencesProvider'
  BY <1>13 DEF LateArrival, Perform
<1>14. ASSUME NEW a \in Actions, NEW r \in {"succeeded", "failed"},
              ResolveUnknown(a, r) PROVE PauseFencesProvider'
  BY <1>14 DEF ResolveUnknown
<1>15. CASE Takeover \/ Retry \/ Resume \/ ManualWake \/ Complete
  BY <1>15 DEF Takeover, Retry, Resume, ManualWake, Complete
<1>16. CASE SwitchTenant \/ SwitchBreaker
  BY <1>16 DEF SwitchTenant, SwitchBreaker
<1> QED
  BY <1>1, <1>2, <1>3, <1>4, <1>5, <1>6, <1>7, <1>8, <1>9, <1>10, <1>11,
     <1>12, <1>13, <1>14, <1>15, <1>16 DEF Next, ExecutorStep

(* The request and the attempt move together. *)
LEMMA NextTracks ==
  Coherent /\ [Next]_vars => (RequestTracksAttempt /\ RowsAgree /\ WorkHasAttempt)'
<1> SUFFICES ASSUME Coherent, [Next]_vars PROVE (RequestTracksAttempt /\ RowsAgree /\ WorkHasAttempt)'
  OBVIOUS
<1> USE DEF Coherent, Typed, TypeOK, ExecutorHasJob, RequestTracksAttempt,
      RowsAgree, WorkHasAttempt, ProcessPermits
<1>1. CASE UNCHANGED vars
  BY <1>1 DEF vars
<1>2. ASSUME NEW a \in Actions, NEW p \in Payloads,
             NEW o \in PermissionOutcome, PersistAction(a, p, o)
      PROVE (RequestTracksAttempt /\ RowsAgree /\ WorkHasAttempt)'
  BY <1>2 DEF PersistAction, IsNewAction, initial_action_request_status
<1>3. ASSUME NEW c \in Commands, NEW a \in Actions,
             NEW t \in ReviewCommandType, NEW h \in Payloads,
             ApplyReview(c, a, t, h)
      PROVE (RequestTracksAttempt /\ RowsAgree /\ WorkHasAttempt)'
  BY <1>3 DEF ApplyReview, IsReviewPending
<1>4. ASSUME NEW e \in Executors, NEW a \in Actions, ExecuteBegin(e, a)
      PROVE (RequestTracksAttempt /\ RowsAgree /\ WorkHasAttempt)'
  BY <1>4 DEF ExecuteBegin, Authorized
<1>5. ASSUME NEW e \in Executors, NEW a \in Actions, ReconcileBegin(e, a)
      PROVE (RequestTracksAttempt /\ RowsAgree /\ WorkHasAttempt)'
  BY <1>5 DEF ReconcileBegin, Authorized
<1>6. ASSUME NEW e \in Executors, ExecuteLookup(e)
      PROVE (RequestTracksAttempt /\ RowsAgree /\ WorkHasAttempt)'
  BY <1>6 DEF ExecuteLookup, MayRetry, Conclude, LedgerOutcome
<1>7. ASSUME NEW e \in Executors, ExecuteAuthorize(e)
      PROVE (RequestTracksAttempt /\ RowsAgree /\ WorkHasAttempt)'
  BY <1>7 DEF ExecuteAuthorize, Authorized, Conclude
<1>8. ASSUME NEW e \in Executors, ExecuteRejected(e)
      PROVE (RequestTracksAttempt /\ RowsAgree /\ WorkHasAttempt)'
  BY <1>8 DEF ExecuteRejected
<1>9. ASSUME NEW e \in Executors, ProviderReturns(e)
      PROVE (RequestTracksAttempt /\ RowsAgree /\ WorkHasAttempt)'
  BY <1>9 DEF ProviderReturns, Conclude, Perform
<1>10. ASSUME NEW e \in Executors, ReconcileLookup(e)
       PROVE (RequestTracksAttempt /\ RowsAgree /\ WorkHasAttempt)'
  BY <1>10 DEF ReconcileLookup, Conclude, LedgerOutcome
<1>11. ASSUME NEW e \in Executors, RecordTerminal(e)
       PROVE (RequestTracksAttempt /\ RowsAgree /\ WorkHasAttempt)'
  BY <1>11 DEF RecordTerminal
<1>12. ASSUME NEW e \in Executors, Crash(e)
       PROVE (RequestTracksAttempt /\ RowsAgree /\ WorkHasAttempt)'
  BY <1>12 DEF Crash
<1>13. ASSUME NEW a \in Actions, LateArrival(a)
       PROVE (RequestTracksAttempt /\ RowsAgree /\ WorkHasAttempt)'
  BY <1>13 DEF LateArrival, Perform
<1>14. ASSUME NEW a \in Actions, NEW r \in {"succeeded", "failed"},
              ResolveUnknown(a, r)
       PROVE (RequestTracksAttempt /\ RowsAgree /\ WorkHasAttempt)'
  BY <1>14 DEF ResolveUnknown
<1>15. CASE Takeover \/ Retry \/ Resume \/ ManualWake \/ Complete
  BY <1>15 DEF Takeover, Retry, Resume, ManualWake, Complete
<1>16. CASE SwitchTenant \/ SwitchBreaker
  BY <1>16 DEF SwitchTenant, SwitchBreaker
<1> QED
  BY <1>1, <1>2, <1>3, <1>4, <1>5, <1>6, <1>7, <1>8, <1>9, <1>10, <1>11,
     <1>12, <1>13, <1>14, <1>15, <1>16 DEF Next, ExecutorStep

(* Payload, policy and approval are written once. *)
LEMMA NextApproved ==
  Coherent /\ ApprovedAsStored /\ [Next]_vars => ApprovedAsStored'
<1> SUFFICES ASSUME Coherent, ApprovedAsStored, [Next]_vars PROVE ApprovedAsStored'
  OBVIOUS
<1> USE DEF Coherent, Typed, TypeOK, ExecutorHasJob, RequestTracksAttempt,
      RowsAgree, WorkHasAttempt, ApprovedAsStored, NoMessage, ProcessPermits
<1>1. CASE UNCHANGED vars
  BY <1>1 DEF vars
<1>2. ASSUME NEW a \in Actions, NEW p \in Payloads,
             NEW o \in PermissionOutcome, PersistAction(a, p, o)
      PROVE ApprovedAsStored'
  BY <1>2 DEF PersistAction, IsNewAction, initial_action_request_status
<1>3. ASSUME NEW c \in Commands, NEW a \in Actions,
             NEW t \in ReviewCommandType, NEW h \in Payloads,
             ApplyReview(c, a, t, h) PROVE ApprovedAsStored'
  BY <1>3 DEF ApplyReview, IsReviewPending
<1>4. ASSUME NEW e \in Executors, NEW a \in Actions, ExecuteBegin(e, a)
      PROVE ApprovedAsStored'
  BY <1>4 DEF ExecuteBegin, Authorized
<1>5. ASSUME NEW e \in Executors, NEW a \in Actions, ReconcileBegin(e, a)
      PROVE ApprovedAsStored'
  BY <1>5 DEF ReconcileBegin, Authorized
<1>6. ASSUME NEW e \in Executors, ExecuteLookup(e) PROVE ApprovedAsStored'
  BY <1>6 DEF ExecuteLookup, MayRetry, Conclude, LedgerOutcome
<1>7. ASSUME NEW e \in Executors, ExecuteAuthorize(e) PROVE ApprovedAsStored'
  BY <1>7 DEF ExecuteAuthorize, Authorized, Conclude
<1>8. ASSUME NEW e \in Executors, ExecuteRejected(e) PROVE ApprovedAsStored'
  BY <1>8 DEF ExecuteRejected
<1>9. ASSUME NEW e \in Executors, ProviderReturns(e) PROVE ApprovedAsStored'
  BY <1>9 DEF ProviderReturns, Conclude, Perform
<1>10. ASSUME NEW e \in Executors, ReconcileLookup(e) PROVE ApprovedAsStored'
  BY <1>10 DEF ReconcileLookup, Conclude, LedgerOutcome
<1>11. ASSUME NEW e \in Executors, RecordTerminal(e) PROVE ApprovedAsStored'
  BY <1>11 DEF RecordTerminal
<1>12. ASSUME NEW e \in Executors, Crash(e) PROVE ApprovedAsStored'
  BY <1>12 DEF Crash
<1>13. ASSUME NEW a \in Actions, LateArrival(a) PROVE ApprovedAsStored'
  BY <1>13 DEF LateArrival, Perform
<1>14. ASSUME NEW a \in Actions, NEW r \in {"succeeded", "failed"},
              ResolveUnknown(a, r) PROVE ApprovedAsStored'
  BY <1>14 DEF ResolveUnknown
<1>15. CASE Takeover \/ Retry \/ Resume \/ ManualWake \/ Complete
  BY <1>15 DEF Takeover, Retry, Resume, ManualWake, Complete
<1>16. CASE SwitchTenant \/ SwitchBreaker
  BY <1>16 DEF SwitchTenant, SwitchBreaker
<1> QED
  BY <1>1, <1>2, <1>3, <1>4, <1>5, <1>6, <1>7, <1>8, <1>9, <1>10, <1>11,
     <1>12, <1>13, <1>14, <1>15, <1>16 DEF Next, ExecutorStep

(* A decision closes the review for good, and closes it to all others. *)
LEMMA NextDecided ==
  Coherent /\ DecidedIsClosed /\ OneReviewWins /\ [Next]_vars => (DecidedIsClosed /\ OneReviewWins)'
<1> SUFFICES ASSUME Coherent, DecidedIsClosed, OneReviewWins, [Next]_vars PROVE (DecidedIsClosed /\ OneReviewWins)'
  OBVIOUS
<1> USE DEF Coherent, Typed, TypeOK, ExecutorHasJob, RequestTracksAttempt,
      RowsAgree, WorkHasAttempt, DecidedIsClosed, OneReviewWins, NoMessage
<1>1. CASE UNCHANGED vars
  BY <1>1 DEF vars
<1>2. ASSUME NEW a \in Actions, NEW p \in Payloads,
             NEW o \in PermissionOutcome, PersistAction(a, p, o)
      PROVE (DecidedIsClosed /\ OneReviewWins)'
  BY <1>2 DEF PersistAction, IsNewAction, initial_action_request_status
<1>3. ASSUME NEW c \in Commands, NEW a \in Actions,
             NEW t \in ReviewCommandType, NEW h \in Payloads,
             ApplyReview(c, a, t, h) PROVE (DecidedIsClosed /\ OneReviewWins)'
  BY <1>3 DEF ApplyReview, IsReviewPending
<1>4. ASSUME NEW e \in Executors, NEW a \in Actions, ExecuteBegin(e, a)
      PROVE (DecidedIsClosed /\ OneReviewWins)'
  BY <1>4 DEF ExecuteBegin, Authorized
<1>5. ASSUME NEW e \in Executors, NEW a \in Actions, ReconcileBegin(e, a)
      PROVE (DecidedIsClosed /\ OneReviewWins)'
  BY <1>5 DEF ReconcileBegin, Authorized
<1>6. ASSUME NEW e \in Executors, ExecuteLookup(e)
      PROVE (DecidedIsClosed /\ OneReviewWins)'
  BY <1>6 DEF ExecuteLookup, MayRetry, Conclude, LedgerOutcome
<1>7. ASSUME NEW e \in Executors, ExecuteAuthorize(e)
      PROVE (DecidedIsClosed /\ OneReviewWins)'
  BY <1>7 DEF ExecuteAuthorize, Authorized, Conclude
<1>8. ASSUME NEW e \in Executors, ExecuteRejected(e)
      PROVE (DecidedIsClosed /\ OneReviewWins)'
  BY <1>8 DEF ExecuteRejected
<1>9. ASSUME NEW e \in Executors, ProviderReturns(e)
      PROVE (DecidedIsClosed /\ OneReviewWins)'
  BY <1>9 DEF ProviderReturns, Conclude, Perform
<1>10. ASSUME NEW e \in Executors, ReconcileLookup(e)
       PROVE (DecidedIsClosed /\ OneReviewWins)'
  BY <1>10 DEF ReconcileLookup, Conclude, LedgerOutcome
<1>11. ASSUME NEW e \in Executors, RecordTerminal(e)
       PROVE (DecidedIsClosed /\ OneReviewWins)'
  BY <1>11 DEF RecordTerminal
<1>12. ASSUME NEW e \in Executors, Crash(e)
       PROVE (DecidedIsClosed /\ OneReviewWins)'
  BY <1>12 DEF Crash
<1>13. ASSUME NEW a \in Actions, LateArrival(a)
       PROVE (DecidedIsClosed /\ OneReviewWins)'
  BY <1>13 DEF LateArrival, Perform
<1>14. ASSUME NEW a \in Actions, NEW r \in {"succeeded", "failed"},
              ResolveUnknown(a, r) PROVE (DecidedIsClosed /\ OneReviewWins)'
  BY <1>14 DEF ResolveUnknown
<1>15. CASE Takeover \/ Retry \/ Resume \/ ManualWake \/ Complete
  BY <1>15 DEF Takeover, Retry, Resume, ManualWake, Complete
<1>16. CASE SwitchTenant \/ SwitchBreaker
  BY <1>16 DEF SwitchTenant, SwitchBreaker
<1> QED
  BY <1>1, <1>2, <1>3, <1>4, <1>5, <1>6, <1>7, <1>8, <1>9, <1>10, <1>11,
     <1>12, <1>13, <1>14, <1>15, <1>16 DEF Next, ExecutorStep

(* Nothing opens an action of a completed process. *)
LEMMA NextQuiet ==
  Coherent /\ CompletedIsQuiet /\ [Next]_vars => CompletedIsQuiet'
<1> SUFFICES ASSUME Coherent, CompletedIsQuiet, [Next]_vars PROVE CompletedIsQuiet'
  OBVIOUS
<1> USE DEF Coherent, Typed, TypeOK, ExecutorHasJob, RequestTracksAttempt,
      RowsAgree, WorkHasAttempt, CompletedIsQuiet, OpenStatus, ProcessPermits
<1>1. CASE UNCHANGED vars
  BY <1>1 DEF vars
<1>2. ASSUME NEW a \in Actions, NEW p \in Payloads,
             NEW o \in PermissionOutcome, PersistAction(a, p, o)
      PROVE CompletedIsQuiet'
  BY <1>2 DEF PersistAction, IsNewAction, initial_action_request_status
<1>3. ASSUME NEW c \in Commands, NEW a \in Actions,
             NEW t \in ReviewCommandType, NEW h \in Payloads,
             ApplyReview(c, a, t, h) PROVE CompletedIsQuiet'
  BY <1>3 DEF ApplyReview, IsReviewPending
<1>4. ASSUME NEW e \in Executors, NEW a \in Actions, ExecuteBegin(e, a)
      PROVE CompletedIsQuiet'
  BY <1>4 DEF ExecuteBegin, Authorized
<1>5. ASSUME NEW e \in Executors, NEW a \in Actions, ReconcileBegin(e, a)
      PROVE CompletedIsQuiet'
  BY <1>5 DEF ReconcileBegin, Authorized
<1>6. ASSUME NEW e \in Executors, ExecuteLookup(e) PROVE CompletedIsQuiet'
  BY <1>6 DEF ExecuteLookup, MayRetry, Conclude, LedgerOutcome
<1>7. ASSUME NEW e \in Executors, ExecuteAuthorize(e) PROVE CompletedIsQuiet'
  BY <1>7 DEF ExecuteAuthorize, Authorized, Conclude
<1>8. ASSUME NEW e \in Executors, ExecuteRejected(e) PROVE CompletedIsQuiet'
  BY <1>8 DEF ExecuteRejected
<1>9. ASSUME NEW e \in Executors, ProviderReturns(e) PROVE CompletedIsQuiet'
  BY <1>9 DEF ProviderReturns, Conclude, Perform
<1>10. ASSUME NEW e \in Executors, ReconcileLookup(e) PROVE CompletedIsQuiet'
  BY <1>10 DEF ReconcileLookup, Conclude, LedgerOutcome
<1>11. ASSUME NEW e \in Executors, RecordTerminal(e) PROVE CompletedIsQuiet'
  BY <1>11 DEF RecordTerminal
<1>12. ASSUME NEW e \in Executors, Crash(e) PROVE CompletedIsQuiet'
  BY <1>12 DEF Crash
<1>13. ASSUME NEW a \in Actions, LateArrival(a) PROVE CompletedIsQuiet'
  BY <1>13 DEF LateArrival, Perform
<1>14. ASSUME NEW a \in Actions, NEW r \in {"succeeded", "failed"},
              ResolveUnknown(a, r) PROVE CompletedIsQuiet'
  BY <1>14 DEF ResolveUnknown
<1>15. CASE Takeover \/ Retry \/ Resume \/ ManualWake \/ Complete
  BY <1>15 DEF Takeover, Retry, Resume, ManualWake, Complete
<1>16. CASE SwitchTenant \/ SwitchBreaker
  BY <1>16 DEF SwitchTenant, SwitchBreaker
<1> QED
  BY <1>1, <1>2, <1>3, <1>4, <1>5, <1>6, <1>7, <1>8, <1>9, <1>10, <1>11,
     <1>12, <1>13, <1>14, <1>15, <1>16 DEF Next, ExecutorStep

(* The right to call a provider that is not idempotent is never copied. *)
LEMMA NextOneCall ==
  Coherent /\ OneCall /\ [Next]_vars => OneCall'
<1> SUFFICES ASSUME Coherent, OneCall, [Next]_vars PROVE OneCall'
  OBVIOUS
<1> USE DEF Coherent, Typed, TypeOK, ExecutorHasJob, RequestTracksAttempt,
      RowsAgree, WorkHasAttempt, OneCall, Caller, NeverPerformed
<1>1. CASE UNCHANGED vars
  BY <1>1 DEF vars
<1>2. ASSUME NEW a \in Actions, NEW p \in Payloads,
             NEW o \in PermissionOutcome, PersistAction(a, p, o)
      PROVE OneCall'
  BY <1>2 DEF PersistAction, IsNewAction, initial_action_request_status
<1>3. ASSUME NEW c \in Commands, NEW a \in Actions,
             NEW t \in ReviewCommandType, NEW h \in Payloads,
             ApplyReview(c, a, t, h) PROVE OneCall'
  BY <1>3 DEF ApplyReview, IsReviewPending
<1>4. ASSUME NEW e \in Executors, NEW a \in Actions, ExecuteBegin(e, a)
      PROVE OneCall'
  BY <1>4 DEF ExecuteBegin, Authorized
<1>5. ASSUME NEW e \in Executors, NEW a \in Actions, ReconcileBegin(e, a)
      PROVE OneCall'
  BY <1>5 DEF ReconcileBegin, Authorized
<1>6. ASSUME NEW e \in Executors, ExecuteLookup(e) PROVE OneCall'
  BY <1>6 DEF ExecuteLookup, MayRetry, Conclude, LedgerOutcome
<1>7. ASSUME NEW e \in Executors, ExecuteAuthorize(e) PROVE OneCall'
  BY <1>7 DEF ExecuteAuthorize, Authorized, Conclude
<1>8. ASSUME NEW e \in Executors, ExecuteRejected(e) PROVE OneCall'
  BY <1>8 DEF ExecuteRejected
<1>9. ASSUME NEW e \in Executors, ProviderReturns(e) PROVE OneCall'
  BY <1>9 DEF ProviderReturns, Conclude, Perform
<1>10. ASSUME NEW e \in Executors, ReconcileLookup(e) PROVE OneCall'
  BY <1>10 DEF ReconcileLookup, Conclude, LedgerOutcome
<1>11. ASSUME NEW e \in Executors, RecordTerminal(e) PROVE OneCall'
  BY <1>11 DEF RecordTerminal
<1>12. ASSUME NEW e \in Executors, Crash(e) PROVE OneCall'
  BY <1>12 DEF Crash
<1>13. ASSUME NEW a \in Actions, LateArrival(a) PROVE OneCall'
  BY <1>13 DEF LateArrival, Perform
<1>14. ASSUME NEW a \in Actions, NEW r \in {"succeeded", "failed"},
              ResolveUnknown(a, r) PROVE OneCall'
  BY <1>14 DEF ResolveUnknown
<1>15. CASE Takeover \/ Retry \/ Resume \/ ManualWake \/ Complete
  BY <1>15 DEF Takeover, Retry, Resume, ManualWake, Complete
<1>16. CASE SwitchTenant \/ SwitchBreaker
  BY <1>16 DEF SwitchTenant, SwitchBreaker
<1> QED
  BY <1>1, <1>2, <1>3, <1>4, <1>5, <1>6, <1>7, <1>8, <1>9, <1>10, <1>11,
     <1>12, <1>13, <1>14, <1>15, <1>16 DEF Next, ExecutorStep

(* So each effect is the first one. *)
LEMMA NextLedger ==
  Coherent /\ OneCall /\ LedgerCounts /\ [Next]_vars => LedgerCounts'
<1> SUFFICES ASSUME Coherent, OneCall, LedgerCounts, [Next]_vars PROVE LedgerCounts'
  OBVIOUS
<1> USE DEF Coherent, Typed, TypeOK, ExecutorHasJob, RequestTracksAttempt,
      RowsAgree, WorkHasAttempt, OneCall, Caller, LedgerCounts
<1>1. CASE UNCHANGED vars
  BY <1>1 DEF vars
<1>2. ASSUME NEW a \in Actions, NEW p \in Payloads,
             NEW o \in PermissionOutcome, PersistAction(a, p, o)
      PROVE LedgerCounts'
  BY <1>2 DEF PersistAction, IsNewAction, initial_action_request_status
<1>3. ASSUME NEW c \in Commands, NEW a \in Actions,
             NEW t \in ReviewCommandType, NEW h \in Payloads,
             ApplyReview(c, a, t, h) PROVE LedgerCounts'
  BY <1>3 DEF ApplyReview, IsReviewPending
<1>4. ASSUME NEW e \in Executors, NEW a \in Actions, ExecuteBegin(e, a)
      PROVE LedgerCounts'
  BY <1>4 DEF ExecuteBegin, Authorized
<1>5. ASSUME NEW e \in Executors, NEW a \in Actions, ReconcileBegin(e, a)
      PROVE LedgerCounts'
  BY <1>5 DEF ReconcileBegin, Authorized
<1>6. ASSUME NEW e \in Executors, ExecuteLookup(e) PROVE LedgerCounts'
  BY <1>6 DEF ExecuteLookup, MayRetry, Conclude, LedgerOutcome
<1>7. ASSUME NEW e \in Executors, ExecuteAuthorize(e) PROVE LedgerCounts'
  BY <1>7 DEF ExecuteAuthorize, Authorized, Conclude
<1>8. ASSUME NEW e \in Executors, ExecuteRejected(e) PROVE LedgerCounts'
  BY <1>8 DEF ExecuteRejected
<1>9. ASSUME NEW e \in Executors, ProviderReturns(e) PROVE LedgerCounts'
  BY <1>9 DEF ProviderReturns, Conclude, Perform
<1>10. ASSUME NEW e \in Executors, ReconcileLookup(e) PROVE LedgerCounts'
  BY <1>10 DEF ReconcileLookup, Conclude, LedgerOutcome
<1>11. ASSUME NEW e \in Executors, RecordTerminal(e) PROVE LedgerCounts'
  BY <1>11 DEF RecordTerminal
<1>12. ASSUME NEW e \in Executors, Crash(e) PROVE LedgerCounts'
  BY <1>12 DEF Crash
<1>13. ASSUME NEW a \in Actions, LateArrival(a) PROVE LedgerCounts'
  BY <1>13 DEF LateArrival, Perform
<1>14. ASSUME NEW a \in Actions, NEW r \in {"succeeded", "failed"},
              ResolveUnknown(a, r) PROVE LedgerCounts'
  BY <1>14 DEF ResolveUnknown
<1>15. CASE Takeover \/ Retry \/ Resume \/ ManualWake \/ Complete
  BY <1>15 DEF Takeover, Retry, Resume, ManualWake, Complete
<1>16. CASE SwitchTenant \/ SwitchBreaker
  BY <1>16 DEF SwitchTenant, SwitchBreaker
<1> QED
  BY <1>1, <1>2, <1>3, <1>4, <1>5, <1>6, <1>7, <1>8, <1>9, <1>10, <1>11,
     <1>12, <1>13, <1>14, <1>15, <1>16 DEF Next, ExecutorStep

(* What is recorded is what the provider did. *)
LEMMA NextTruthful ==
  Coherent /\ OneCall /\ ResultIsTruthful /\ RecordIsTruthful /\ [Next]_vars => (ResultIsTruthful /\ RecordIsTruthful)'
<1> SUFFICES ASSUME Coherent, OneCall, ResultIsTruthful, RecordIsTruthful, [Next]_vars PROVE (ResultIsTruthful /\ RecordIsTruthful)'
  OBVIOUS
<1> USE DEF Coherent, Typed, TypeOK, ExecutorHasJob, RequestTracksAttempt,
      RowsAgree, WorkHasAttempt, OneCall, Caller, NeverPerformed,
      ResultIsTruthful, RecordIsTruthful
<1>1. CASE UNCHANGED vars
  BY <1>1 DEF vars
<1>2. ASSUME NEW a \in Actions, NEW p \in Payloads,
             NEW o \in PermissionOutcome, PersistAction(a, p, o)
      PROVE (ResultIsTruthful /\ RecordIsTruthful)'
  BY <1>2 DEF PersistAction, IsNewAction, initial_action_request_status
<1>3. ASSUME NEW c \in Commands, NEW a \in Actions,
             NEW t \in ReviewCommandType, NEW h \in Payloads,
             ApplyReview(c, a, t, h)
      PROVE (ResultIsTruthful /\ RecordIsTruthful)'
  BY <1>3 DEF ApplyReview, IsReviewPending
<1>4. ASSUME NEW e \in Executors, NEW a \in Actions, ExecuteBegin(e, a)
      PROVE (ResultIsTruthful /\ RecordIsTruthful)'
  BY <1>4 DEF ExecuteBegin, Authorized
<1>5. ASSUME NEW e \in Executors, NEW a \in Actions, ReconcileBegin(e, a)
      PROVE (ResultIsTruthful /\ RecordIsTruthful)'
  BY <1>5 DEF ReconcileBegin, Authorized
<1>6. ASSUME NEW e \in Executors, ExecuteLookup(e)
      PROVE (ResultIsTruthful /\ RecordIsTruthful)'
  BY <1>6 DEF ExecuteLookup, MayRetry, Conclude, LedgerOutcome
<1>7. ASSUME NEW e \in Executors, ExecuteAuthorize(e)
      PROVE (ResultIsTruthful /\ RecordIsTruthful)'
  BY <1>7 DEF ExecuteAuthorize, Authorized, Conclude
<1>8. ASSUME NEW e \in Executors, ExecuteRejected(e)
      PROVE (ResultIsTruthful /\ RecordIsTruthful)'
  BY <1>8 DEF ExecuteRejected
<1>9. ASSUME NEW e \in Executors, ProviderReturns(e)
      PROVE (ResultIsTruthful /\ RecordIsTruthful)'
  <2>1. ASSUME ledger[job[e]] # "conflict", Perform(job[e]),
               NEW r \in {"succeeded", "unknown"}, Conclude(e, r)
        PROVE (ResultIsTruthful /\ RecordIsTruthful)'
    BY <1>9, <2>1 DEF ProviderReturns, Conclude, Perform
  <2>2. ASSUME ledger[job[e]] = "none", UNCHANGED <<effects, ledger>>,
               NEW r \in {"failed", "unknown"}, Conclude(e, r)
        PROVE (ResultIsTruthful /\ RecordIsTruthful)'
    BY <1>9, <2>2 DEF ProviderReturns, Conclude
  <2>3. ASSUME ledger[job[e]] # "applied", UNCHANGED effects,
               ledger' = [ledger EXCEPT ![job[e]] = "conflict"],
               NEW r \in {"conflict", "unknown"}, Conclude(e, r)
        PROVE (ResultIsTruthful /\ RecordIsTruthful)'
    BY <1>9, <2>3 DEF ProviderReturns, Conclude
  <2> QED
    BY <1>9, <2>1, <2>2, <2>3 DEF ProviderReturns
<1>10. ASSUME NEW e \in Executors, ReconcileLookup(e)
       PROVE (ResultIsTruthful /\ RecordIsTruthful)'
  BY <1>10 DEF ReconcileLookup, Conclude, LedgerOutcome
<1>11. ASSUME NEW e \in Executors, RecordTerminal(e)
       PROVE (ResultIsTruthful /\ RecordIsTruthful)'
  BY <1>11 DEF RecordTerminal
<1>12. ASSUME NEW e \in Executors, Crash(e)
       PROVE (ResultIsTruthful /\ RecordIsTruthful)'
  BY <1>12 DEF Crash
<1>13. ASSUME NEW a \in Actions, LateArrival(a)
       PROVE (ResultIsTruthful /\ RecordIsTruthful)'
  BY <1>13 DEF LateArrival, Perform
<1>14. ASSUME NEW a \in Actions, NEW r \in {"succeeded", "failed"},
              ResolveUnknown(a, r)
       PROVE (ResultIsTruthful /\ RecordIsTruthful)'
  BY <1>14 DEF ResolveUnknown
<1>15. CASE Takeover \/ Retry \/ Resume \/ ManualWake \/ Complete
  BY <1>15 DEF Takeover, Retry, Resume, ManualWake, Complete
<1>16. CASE SwitchTenant \/ SwitchBreaker
  BY <1>16 DEF SwitchTenant, SwitchBreaker
<1> QED
  BY <1>1, <1>2, <1>3, <1>4, <1>5, <1>6, <1>7, <1>8, <1>9, <1>10, <1>11,
     <1>12, <1>13, <1>14, <1>15, <1>16 DEF Next, ExecutorStep

-----------------------------------------------------------------------------
(* The theorems. *)

Inv ==
  /\ Coherent /\ PauseFencesProvider /\ ApprovedAsStored
  /\ DecidedIsClosed /\ OneReviewWins /\ CompletedIsQuiet
  /\ OneCall /\ LedgerCounts /\ ResultIsTruthful /\ RecordIsTruthful

(* Before the first proposal all of it holds. *)
LEMMA InitInv == Init => Inv
<1> SUFFICES ASSUME Init PROVE Inv
  OBVIOUS
<1>1. Coherent
  BY InitTyped
  DEF Init, Coherent, RequestTracksAttempt, RowsAgree, WorkHasAttempt
<1>2. PauseFencesProvider /\ ApprovedAsStored
  BY DEF Init, PauseFencesProvider, ApprovedAsStored
<1>3. DecidedIsClosed /\ OneReviewWins /\ CompletedIsQuiet
  BY DEF Init, DecidedIsClosed, OneReviewWins, CompletedIsQuiet, NoMessage
<1>4. OneCall /\ LedgerCounts
  BY DEF Init, OneCall, NeverPerformed, Caller, LedgerCounts
<1>5. ResultIsTruthful /\ RecordIsTruthful
  BY DEF Init, ResultIsTruthful, RecordIsTruthful
<1> QED
  BY <1>1, <1>2, <1>3, <1>4, <1>5 DEF Inv

(* The conjunction of the inductive invariants is an invariant. *)
LEMMA InvInvariant == Spec => []Inv
<1>1. Inv /\ [Next]_vars => Inv'
  BY NextTyped, NextFenced, NextTracks, NextApproved, NextDecided, NextQuiet,
     NextOneCall, NextLedger, NextTruthful DEF Inv, Coherent
<1> QED
  BY InitInv, <1>1, PTL DEF Spec

(* The side effect of an action happens at most once, whatever the runs of *)
(* execute() and reconcile() do to each other and wherever they die.       *)
THEOREM AtMostOnce == Spec => []SideEffectAtMostOnce
<1>1. Inv => SideEffectAtMostOnce
  BY DEF Inv, Coherent, Typed, TypeOK, LedgerCounts, SideEffectAtMostOnce
<1> QED
  BY InvInvariant, <1>1, PTL

(* Only an allowed payload, or exactly the approved one, is ever sent. *)
THEOREM OnlyApprovedIsSent == Spec => []ExactApproval
<1>1. Inv => ExactApproval
  BY DEF Inv, ApprovedAsStored, ExactApproval
<1> QED
  BY InvInvariant, <1>1, PTL

(* A takeover or a completion never overlaps a provider call. *)
THEOREM PauseIsFenced == Spec => []PauseFencesProvider
<1>1. Inv => PauseFencesProvider
  BY DEF Inv
<1> QED
  BY InvInvariant, <1>1, PTL

(* Request, attempt and operator resolution hold values of their columns  *)
(* and never contradict each other.                                        *)
THEOREM RequestAndAttemptAgree == Spec => []RecordsAreCoherent
<1>1. Inv => RecordsAreCoherent
  BY DEF Inv, Coherent, Typed, RecordsAreCoherent
<1> QED
  BY InvInvariant, <1>1, PTL

(* A settled attempt and its request never change again. *)
THEOREM SettledIsFinal == Spec => TerminalOutcomeIsFinal
<1> DEFINE Final ==
      \A a \in Actions : attempt[a] \in TerminalStatus =>
        attempt'[a] = attempt[a] /\ request'[a] = request[a]
<1>1. Inv /\ [Next]_vars => [Final]_vars
  <2> SUFFICES ASSUME Inv, Next PROVE Final
    OBVIOUS
  <2> SUFFICES ASSUME NEW b \in Actions, attempt[b] \in TerminalStatus
               PROVE attempt'[b] = attempt[b] /\ request'[b] = request[b]
    BY DEF Final
  <2> USE DEF Inv, Coherent, Typed, TypeOK, ExecutorHasJob, RowsAgree,
          RequestTracksAttempt
  <2>1. ASSUME NEW a \in Actions, NEW p \in Payloads,
               NEW o \in PermissionOutcome, PersistAction(a, p, o)
        PROVE attempt'[b] = attempt[b] /\ request'[b] = request[b]
    BY <2>1 DEF PersistAction, IsNewAction
  <2>2. ASSUME NEW c \in Commands, NEW a \in Actions,
               NEW t \in ReviewCommandType, NEW h \in Payloads,
               ApplyReview(c, a, t, h)
        PROVE attempt'[b] = attempt[b] /\ request'[b] = request[b]
    BY <2>2 DEF ApplyReview, IsReviewPending
  <2>3. ASSUME NEW e \in Executors, ExecutorStep(e)
        PROVE attempt'[b] = attempt[b] /\ request'[b] = request[b]
    BY <2>3 DEF ExecutorStep, ExecuteBegin, ReconcileBegin, ExecuteLookup,
       ExecuteAuthorize, ExecuteRejected, ProviderReturns, ReconcileLookup,
       RecordTerminal, Crash
  <2>4. ASSUME NEW a \in Actions, NEW r \in {"succeeded", "failed"},
               ResolveUnknown(a, r)
        PROVE attempt'[b] = attempt[b] /\ request'[b] = request[b]
    BY <2>4 DEF ResolveUnknown
  <2>5. CASE \/ \E a \in Actions : LateArrival(a)
             \/ Takeover \/ Retry \/ Resume \/ ManualWake \/ Complete
             \/ SwitchTenant \/ SwitchBreaker
    BY <2>5 DEF LateArrival, Takeover, Retry, Resume, ManualWake, Complete, SwitchTenant,
       SwitchBreaker
  <2> QED
    BY <2>1, <2>2, <2>3, <2>4, <2>5 DEF Next
<1>2. Spec => [][Final]_vars
  BY InvInvariant, <1>1, PTL DEF Spec
<1> QED
  BY <1>2 DEF TerminalOutcomeIsFinal

(* The platform's own record of an attempt is what the provider did. *)
THEOREM RecordsAreTruthful == Spec => []OutcomeIsTruthful
<1>1. Inv => OutcomeIsTruthful
  BY DEF Inv, LedgerCounts, RecordIsTruthful, NeverPerformed,
     OutcomeIsTruthful
<1> QED
  BY InvInvariant, <1>1, PTL

(* Of two deciding review commands for one action only one is applied. *)
THEOREM ReviewHasOneWinner == Spec => []OneReviewWins
<1>1. Inv => OneReviewWins
  BY DEF Inv
<1> QED
  BY InvInvariant, <1>1, PTL

(* A completed process has no open action, now or later. *)
THEOREM CompletionIsQuiet == Spec => []CompletedIsQuiet
<1>1. Inv => CompletedIsQuiet
  BY DEF Inv
<1> QED
  BY InvInvariant, <1>1, PTL

-----------------------------------------------------------------------------
(* The life cycle implements the promise. *)

(* The promise's view of the rows. *)
Permitted == {a \in Actions : policy[a] = "allow" \/ approval[a] = "approved"}

Refused ==
  {a \in Actions : policy[a] = "deny" \/ approval[a] \in {"rejected", "superseded"}}

Settled ==
  [a \in Actions |-> IF attempt[a] \in TerminalStatus THEN attempt[a] ELSE "open"]

ByHand == {a \in Actions : resolution[a] # "none"}

View == <<payload, Permitted, Refused, sent, effects, Settled, ByHand>>

(* A proposal has a payload, who works on an action works on a permitted   *)
(* one, and a call that is out, or on its way, was sent.                   *)
PermittedWork ==
  /\ \A a \in Actions :
       /\ request[a] = "none" <=> payload[a] = NoPayload
       /\ attempt[a] # "none" => a \in Permitted
       /\ a \in inflight => sent[a] # NoPayload
  /\ \A e \in Executors : pc[e] = "calling" => sent[job[e]] # NoPayload

(* Every step keeps that. *)
LEMMA NextPermitted ==
  Inv /\ PermittedWork /\ [Next]_vars => PermittedWork'
<1> SUFFICES ASSUME Inv, PermittedWork, [Next]_vars PROVE PermittedWork'
  OBVIOUS
<1> USE NoPayloadAssumption
    DEF Inv, Coherent, Typed, TypeOK, ExecutorHasJob, RowsAgree,
        WorkHasAttempt, RequestTracksAttempt, PermittedWork, Permitted
<1>1. CASE UNCHANGED vars
  BY <1>1 DEF vars
<1>2. ASSUME NEW a \in Actions, NEW p \in Payloads,
             NEW o \in PermissionOutcome, PersistAction(a, p, o)
      PROVE  PermittedWork'
  BY <1>2 DEF PersistAction, IsNewAction, initial_action_request_status
<1>3. ASSUME NEW c \in Commands, NEW a \in Actions,
             NEW t \in ReviewCommandType, NEW h \in Payloads,
             ApplyReview(c, a, t, h)
      PROVE  PermittedWork'
  BY <1>3 DEF ApplyReview, IsReviewPending
<1>4. ASSUME NEW e \in Executors, NEW a \in Actions,
             ExecuteBegin(e, a) \/ ReconcileBegin(e, a)
      PROVE  PermittedWork'
  BY <1>4 DEF ExecuteBegin, ReconcileBegin, Authorized
<1>5. ASSUME NEW e \in Executors,
             ExecuteLookup(e) \/ ExecuteRejected(e) \/ ReconcileLookup(e)
      PROVE  PermittedWork'
  BY <1>5 DEF ExecuteLookup, ExecuteRejected, ReconcileLookup, Conclude
<1>6. ASSUME NEW e \in Executors, ExecuteAuthorize(e) PROVE PermittedWork'
  BY <1>6 DEF ExecuteAuthorize, Conclude, Authorized
<1>7. ASSUME NEW e \in Executors, ProviderReturns(e) PROVE PermittedWork'
  BY <1>7 DEF ProviderReturns, Conclude, Perform
<1>8. ASSUME NEW e \in Executors, RecordTerminal(e) PROVE PermittedWork'
  BY <1>8 DEF RecordTerminal
<1>9. ASSUME NEW e \in Executors, Crash(e) PROVE PermittedWork'
  BY <1>9 DEF Crash
<1>10. ASSUME NEW a \in Actions, LateArrival(a) PROVE PermittedWork'
  BY <1>10 DEF LateArrival, Perform
<1>11. ASSUME NEW a \in Actions, NEW r \in {"succeeded", "failed"},
              ResolveUnknown(a, r)
       PROVE  PermittedWork'
  BY <1>11 DEF ResolveUnknown
<1>12. CASE \/ Takeover \/ Retry \/ Resume \/ ManualWake \/ Complete
            \/ SwitchTenant \/ SwitchBreaker
  BY <1>12 DEF Takeover, Retry, Resume, ManualWake, Complete, SwitchTenant,
               SwitchBreaker
<1> QED
  BY <1>1, <1>2, <1>3, <1>4, <1>5, <1>6, <1>7, <1>8, <1>9, <1>10, <1>11,
     <1>12 DEF Next, ExecutorStep

(* Rows that a step leaves alone look the same. *)
LEMMA SameView ==
  ASSUME UNCHANGED <<payload, policy, approval, sent, effects, attempt, resolution>>
  PROVE  UNCHANGED View
BY DEF View, Permitted, Refused, Settled, ByHand

(* Who performs an action: it was sent, has had no effect yet, and the     *)
(* platform has not settled it as not performed.                           *)
LEMMA PerformRefines ==
  ASSUME Inv, PermittedWork, NEW a \in Actions, Perform(a),
         ledger[a] # "conflict",
         a \in inflight \/ \E e \in Executors : pc[e] = "calling" /\ job[e] = a,
         UNCHANGED <<payload, policy, approval, sent, attempt, resolution>>
  PROVE  Promised!Perform(a) \/ UNCHANGED View
<1>1. Permitted' = Permitted /\ Refused' = Refused /\ Settled' = Settled
      /\ ByHand' = ByHand
  BY DEF Permitted, Refused, Settled, ByHand
<1>2. sent[a] # NoPayload
  BY DEF PermittedWork
<1>3. CASE a \in IdempotentActions /\ ledger[a] = "applied"
  BY <1>1, <1>3 DEF Perform, View
<1>4. CASE ~(a \in IdempotentActions /\ ledger[a] = "applied")
  <2>1. effects[a] = 0
    BY <1>4 DEF Inv, LedgerCounts, OneCall, Caller
  <2>2. effects' = [effects EXCEPT ![a] = 1]
    BY <1>4, <2>1 DEF Perform, Inv, Coherent, Typed, TypeOK
  <2>3. Settled[a] \in Promised!Negative(a) => a \in ByHand
    BY DEF Settled, ByHand, Promised!Negative, Inv, RecordIsTruthful,
           NeverPerformed, Caller
  <2> QED
    BY <1>1, <1>2, <2>1, <2>2, <2>3
       DEF Promised!Perform, Permitted, Refused, Settled, ByHand
<1> QED
  BY <1>3, <1>4

(* Every step keeps the promise, or leaves its view alone. *)
LEMMA PromiseStep ==
  ASSUME Inv, PermittedWork, [Next]_vars
  PROVE  Promised!PromiseNext \/ UNCHANGED View
<1> USE NoPayloadAssumption
<1>1. CASE UNCHANGED vars
  BY <1>1, SameView DEF vars
<1>2. ASSUME NEW a \in Actions, NEW p \in Payloads,
             NEW o \in PermissionOutcome, PersistAction(a, p, o)
      PROVE  Promised!Propose(a, p)
  <2>1. /\ payload[a] = NoPayload /\ policy[a] = "none" /\ approval[a] = "none"
    BY <1>2 DEF PersistAction, IsNewAction, Inv, Coherent, RowsAgree,
                PermittedWork
  <2>2. /\ Settled' = Settled /\ ByHand' = ByHand
    BY <1>2 DEF PersistAction, Settled, ByHand
  <2>3. /\ payload' = [payload EXCEPT ![a] = p]
        /\ UNCHANGED <<sent, effects, attempt, resolution>>
    BY <1>2 DEF PersistAction
  <2>4. /\ policy \in [Actions -> PermissionOutcome \cup {"none"}]
        /\ approval \in [Actions -> ApprovalStatus \cup {"none"}]
    BY DEF Inv, Coherent, Typed, TypeOK
  <2>5. CASE o = "allow"
    <3>1. Permitted' = Permitted \cup {a} /\ Refused' = Refused
      BY <1>2, <2>1, <2>4, <2>5 DEF PersistAction, Permitted, Refused
    <3> QED
      BY <2>1, <2>2, <2>3, <3>1
         DEF Promised!Propose, Permitted, Refused, Settled, ByHand
  <2>6. CASE o = "deny"
    <3>1. Permitted' = Permitted /\ Refused' = Refused \cup {a}
      BY <1>2, <2>1, <2>4, <2>6 DEF PersistAction, Permitted, Refused
    <3> QED
      BY <2>1, <2>2, <2>3, <3>1
         DEF Promised!Propose, Permitted, Refused, Settled, ByHand
  <2>7. CASE o = "require_approval"
    <3>1. Permitted' = Permitted /\ Refused' = Refused
      BY <1>2, <2>1, <2>4, <2>7 DEF PersistAction, Permitted, Refused
    <3> QED
      BY <2>1, <2>2, <2>3, <3>1
         DEF Promised!Propose, Permitted, Refused, Settled, ByHand
  <2> QED
    BY <2>5, <2>6, <2>7
<1>3. ASSUME NEW c \in Commands, NEW a \in Actions,
             NEW t \in ReviewCommandType, NEW h \in Payloads,
             ApplyReview(c, a, t, h)
      PROVE  Promised!Permit(a) \/ Promised!Refuse(a) \/ UNCHANGED View
  <2>1. /\ payload[a] # NoPayload /\ policy[a] = "require_approval"
        /\ approval[a] = "pending"
    BY <1>3 DEF ApplyReview, IsReviewPending, Inv, Coherent, RowsAgree,
                PermittedWork
  <2>2. /\ Settled' = Settled /\ ByHand' = ByHand
        /\ UNCHANGED <<payload, policy, sent, effects>>
    BY <1>3 DEF ApplyReview, Settled, ByHand
  <2>3. approval \in [Actions -> ApprovalStatus \cup {"none"}]
    BY DEF Inv, Coherent, Typed, TypeOK
  <2>4. a \notin Permitted \cup Refused
    BY <2>1 DEF Permitted, Refused
  <2>5. CASE t = "approve"
    <3>1. Permitted' = Permitted \cup {a} /\ Refused' = Refused
      BY <1>3, <2>1, <2>2, <2>3, <2>5 DEF ApplyReview, Permitted, Refused
    <3> QED
      BY <2>1, <2>2, <2>4, <3>1 DEF Promised!Permit, Promised!Undecided,
         Permitted, Refused, Settled, ByHand
  <2>6. CASE t \in {"reject", "request_revision"}
    <3>1. Permitted' = Permitted /\ Refused' = Refused \cup {a}
      BY <1>3, <2>1, <2>2, <2>3, <2>6 DEF ApplyReview, Permitted, Refused
    <3> QED
      BY <2>1, <2>2, <2>4, <3>1 DEF Promised!Refuse, Promised!Undecided,
         Permitted, Refused, Settled, ByHand
  <2>7. CASE t = "comment"
    <3>1. Permitted' = Permitted /\ Refused' = Refused
      BY <1>3, <2>1, <2>2, <2>3, <2>7 DEF ApplyReview, Permitted, Refused
    <3> QED
      BY <2>2, <3>1 DEF View
  <2> QED
    BY <2>5, <2>6, <2>7
<1>4. ASSUME NEW e \in Executors, NEW a \in Actions,
             ExecuteBegin(e, a) \/ ReconcileBegin(e, a)
      PROVE  UNCHANGED View
  <2>1. UNCHANGED <<payload, policy, approval, sent, effects, resolution>>
    BY <1>4 DEF ExecuteBegin, ReconcileBegin
  <2>2. Settled' = Settled
    BY <1>4 DEF ExecuteBegin, ReconcileBegin, Settled, Inv, Coherent, Typed,
                TypeOK
  <2> QED
    BY <2>1, <2>2 DEF View, Permitted, Refused, ByHand
<1>5. ASSUME NEW e \in Executors,
             ExecuteLookup(e) \/ ExecuteRejected(e) \/ ReconcileLookup(e)
             \/ Crash(e)
      PROVE  UNCHANGED View
  BY <1>5, SameView DEF ExecuteLookup, ExecuteRejected, ReconcileLookup, Crash
<1>6. ASSUME NEW e \in Executors, ExecuteAuthorize(e)
      PROVE  (\E a \in Actions : Promised!Send(a)) \/ UNCHANGED View
  <2>1. /\ job[e] \in Actions /\ job[e] \in Permitted
        /\ UNCHANGED <<payload, policy, approval, effects, attempt, resolution>>
    BY <1>6 DEF ExecuteAuthorize, Authorized, Permitted, Inv, Coherent, Typed,
                ExecutorHasJob
  <2>2. CASE breaker
    BY <1>6, <2>1, <2>2, SameView DEF ExecuteAuthorize
  <2>3. CASE ~breaker
    BY <1>6, <2>1, <2>3 DEF ExecuteAuthorize, Promised!Send, Permitted
  <2> QED
    BY <2>2, <2>3
<1>7. ASSUME NEW e \in Executors, ProviderReturns(e)
      PROVE  (\E a \in Actions : Promised!Perform(a)) \/ UNCHANGED View
  <2>1. /\ job[e] \in Actions /\ pc[e] = "calling"
        /\ UNCHANGED <<payload, policy, approval, sent, attempt, resolution>>
    BY <1>7 DEF ProviderReturns, Inv, Coherent, Typed, ExecutorHasJob
  <2>2. CASE ledger[job[e]] # "conflict" /\ Perform(job[e])
    <3>1. PICK a \in Actions : a = job[e]
      BY <2>1
    <3> QED
      BY <2>1, <2>2, <3>1, PerformRefines
  <2>3. CASE UNCHANGED effects
    BY <2>1, <2>3, SameView
  <2> QED
    BY <1>7, <2>2, <2>3 DEF ProviderReturns
<1>8. ASSUME NEW e \in Executors, RecordTerminal(e)
      PROVE  \/ \E a \in Actions : \E o \in Promised!Outcome : Promised!Settle(a, o)
             \/ UNCHANGED View
  <2>1. /\ job[e] \in Actions /\ job[e] \in Permitted
        /\ UNCHANGED <<payload, policy, approval, sent, effects, resolution>>
    BY <1>8 DEF RecordTerminal, Inv, Coherent, Typed, ExecutorHasJob,
                WorkHasAttempt, PermittedWork
  <2>2. outcome[e] \in TerminalStatus \cup {"unknown"}
    BY <1>8 DEF RecordTerminal, Inv, Coherent, Typed, ExecutorHasJob
  <2>3. attempt \in [Actions -> RetryableStatus \cup {"none"}]
    BY DEF Inv, Coherent, Typed, TypeOK
  <2>4. CASE attempt[job[e]] \in TerminalStatus \/ outcome[e] = "unknown"
    <3>1. Settled' = Settled
      BY <1>8, <2>3, <2>4 DEF RecordTerminal, Settled
    <3> QED
      BY <2>1, <3>1 DEF View, Permitted, Refused, ByHand
  <2>5. CASE attempt[job[e]] \notin TerminalStatus /\ outcome[e] \in TerminalStatus
    <3>1. PICK a \in Actions, o \in TerminalStatus :
                 a = job[e] /\ o = outcome[e]
      BY <2>1, <2>5
    <3>2. /\ Settled' = [Settled EXCEPT ![a] = o]
          /\ Settled[a] = "open"
      BY <1>8, <2>3, <2>5, <3>1 DEF RecordTerminal, Settled
    <3>3. /\ o = "succeeded" => effects[a] = 1
          /\ o \in Promised!Negative(a) => effects[a] = 0
      BY <1>8, <3>1 DEF RecordTerminal, Inv, ResultIsTruthful, LedgerCounts,
         NeverPerformed, Promised!Negative
    <3>4. Promised!Settle(a, o)
      BY <2>1, <3>1, <3>2, <3>3
         DEF Promised!Settle, Permitted, Refused, Settled, ByHand
    <3>5. o \in Promised!Outcome
      BY DEF Promised!Outcome
    <3> QED
      BY <3>4, <3>5
  <2> QED
    BY <2>2, <2>4, <2>5
<1>9. ASSUME NEW a \in Actions, LateArrival(a)
      PROVE  Promised!Perform(a) \/ UNCHANGED View
  <2>1. /\ a \in inflight
        /\ UNCHANGED <<payload, policy, approval, sent, attempt, resolution>>
    BY <1>9 DEF LateArrival
  <2>2. CASE ledger[a] = "conflict"
    BY <1>9, <2>1, <2>2, SameView DEF LateArrival
  <2>3. CASE ledger[a] # "conflict"
    BY <1>9, <2>1, <2>3, PerformRefines DEF LateArrival
  <2> QED
    BY <2>2, <2>3
<1>10. ASSUME NEW a \in Actions, NEW r \in {"succeeded", "failed"},
              ResolveUnknown(a, r)
       PROVE  Promised!SettleByHand(a, r)
  <2>1. /\ a \in Permitted /\ Settled[a] = "open"
        /\ UNCHANGED <<payload, policy, approval, sent, effects>>
    BY <1>10 DEF ResolveUnknown, PermittedWork, Settled
  <2>2. /\ attempt' = [attempt EXCEPT ![a] = r]
        /\ resolution' = [resolution EXCEPT ![a] = r]
        /\ attempt \in [Actions -> RetryableStatus \cup {"none"}]
        /\ resolution \in [Actions -> {"none", "succeeded", "failed"}]
    BY <1>10 DEF ResolveUnknown, Inv, Coherent, Typed, TypeOK
  <2>3. Settled' = [Settled EXCEPT ![a] = r]
    BY <2>2 DEF Settled
  <2>4. ByHand' = ByHand \cup {a}
    BY <2>2 DEF ByHand
  <2> QED
    BY <2>1, <2>3, <2>4
       DEF Promised!SettleByHand, Permitted, Refused, Settled, ByHand
<1>11. CASE \/ Takeover \/ Retry \/ Resume \/ ManualWake \/ Complete
            \/ SwitchTenant \/ SwitchBreaker
  BY <1>11, SameView DEF Takeover, Retry, Resume, ManualWake, Complete,
     SwitchTenant, SwitchBreaker
<1> HIDE DEF View
<1> QED
  BY <1>1, <1>2, <1>3, <1>4, <1>5, <1>6, <1>7, <1>8, <1>9, <1>10, <1>11
     DEF Next, ExecutorStep, Promised!PromiseNext

(* The platform keeps its promise about actions: decided once, sent only   *)
(* as permitted, performed at most once, settled once and truthfully, for  *)
(* any number of executors, reviewers and operators.                       *)
THEOREM LifecycleKeepsPromise == Spec => ImplementsPromise
<1>1. Init => Promised!PromiseInit
  BY DEF Init, Promised!PromiseInit
<1>2. Init => PermittedWork
  BY NoPayloadAssumption DEF Init, PermittedWork, Permitted
<1>3. Spec => []PermittedWork
  BY <1>2, InvInvariant, NextPermitted, PTL DEF Spec
<1>4. UNCHANGED View => UNCHANGED Promised!pvars
  BY DEF View, Permitted, Refused, Settled, ByHand, Promised!pvars
<1>5. Inv /\ PermittedWork /\ [Next]_vars
        => [Promised!PromiseNext]_(Promised!pvars)
  BY <1>4, PromiseStep
<1>6. Spec => Promised!PromiseSpec
  BY <1>1, <1>3, <1>5, InvInvariant, PTL DEF Spec, Promised!PromiseSpec
<1> QED
  BY <1>6 DEF ImplementsPromise
=============================================================================
