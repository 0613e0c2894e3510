---------------------------- MODULE OutboxProofs ----------------------------
(***************************************************************************)
(* Proofs about Outbox for every set of messages, dispatchers and requeue  *)
(* commands, and every bound on attempts and crashes: the safety           *)
(* properties, and that the outbox implements Delivery.                    *)
(***************************************************************************)
EXTENDS Outbox, TLAPS

USE DEF row, dispatcher

(* What appending does to the set of accepted messages. *)
LEMMA RangeAppend ==
  ASSUME NEW S, NEW s \in Seq(S), NEW m \in S
  PROVE  /\ Append(s, m) \in Seq(S)
         /\ Range(Append(s, m)) = Range(s) \cup {m}
<1>1. /\ Append(s, m) \in Seq(S)
      /\ Len(Append(s, m)) = Len(s) + 1
      /\ \A i \in 1 .. Len(s) : Append(s, m)[i] = s[i]
      /\ Append(s, m)[Len(s) + 1] = m
  OBVIOUS
<1>2. DOMAIN s = 1 .. Len(s) /\ DOMAIN Append(s, m) = 1 .. (Len(s) + 1)
  BY <1>1
<1>3. ASSUME NEW x PROVE x \in Range(Append(s, m)) <=> x \in Range(s) \cup {m}
  BY <1>1, <1>2 DEF Range
<1> QED
  BY <1>1, <1>3

(* The receive handlers leave a sequence that has the message, and has     *)
(* everything it had.                                                      *)
LEMMA ReceiveAccepts ==
  ASSUME NEW m \in Messages, inbox \in Seq(Messages), Receive(m)
  PROVE  inbox' \in Seq(Messages) /\ Range(inbox') = Range(inbox) \cup {m}
<1>1. CASE m \in Range(inbox)
  BY <1>1 DEF Receive
<1>2. CASE m \notin Range(inbox)
  BY <1>2, RangeAppend DEF Receive
<1> QED
  BY <1>1, <1>2

-----------------------------------------------------------------------------
(* The inductive invariant. *)

(* A working dispatcher has claimed a committed message. *)
WorkIsCommitted ==
  \A d \in Dispatchers : pc[d] # "idle" =>
    claim[d] \in Messages /\ status[claim[d]] # "none"

(* What a dispatcher knows to be accepted is in the mailbox. *)
SignalledIsDelivered ==
  \A d \in Dispatchers : pc[d] = "signalled" => claim[d] \in Range(inbox)

(* Only committed messages are in the mailbox. *)
InboxIsCommitted ==
  \A m \in Messages : m \in Range(inbox) => status[m] # "none"

Inv ==
  /\ TypeOK /\ WorkIsCommitted /\ SignalledIsDelivered /\ InboxIsCommitted
  /\ PublishedIsDelivered /\ DeadLetterIsEarned

(* The empty outbox satisfies it. *)
LEMMA InitInv == Init => Inv
<1> SUFFICES ASSUME Init PROVE Inv
  OBVIOUS
<1>1. TypeOK
  BY OutboxAssumption, NobodyAssumption DEF Init, TypeOK
<1>2. WorkIsCommitted /\ SignalledIsDelivered /\ PublishedIsDelivered
  BY DEF Init, WorkIsCommitted, SignalledIsDelivered, PublishedIsDelivered
<1>3. InboxIsCommitted /\ DeadLetterIsEarned
  BY DEF Init, InboxIsCommitted, DeadLetterIsEarned, Range
<1> QED
  BY <1>1, <1>2, <1>3 DEF Inv

(* Every step of a dispatcher, an operator or the environment keeps it. *)
LEMMA NextInv == Inv /\ [Next]_vars => Inv'
<1> SUFFICES ASSUME Inv, [Next]_vars PROVE Inv'
  OBVIOUS
<1> USE OutboxAssumption, NobodyAssumption
    DEF Inv, TypeOK, WorkIsCommitted, SignalledIsDelivered, InboxIsCommitted,
        PublishedIsDelivered, DeadLetterIsEarned
<1>1. CASE UNCHANGED vars
  BY <1>1 DEF vars
<1>2. ASSUME NEW m \in Messages, Enqueue(m) PROVE Inv'
  BY <1>2 DEF Enqueue
<1>3. ASSUME NEW d \in Dispatchers, NEW m \in Messages, Claim(d, m)
      PROVE Inv'
  BY <1>3 DEF Claim, Claimable
<1>4. ASSUME NEW d \in Dispatchers, SignalAccepted(d) PROVE Inv'
  <2>1. inbox' \in Seq(Messages) /\ Range(inbox') = Range(inbox) \cup {claim[d]}
    BY <1>4, ReceiveAccepts DEF SignalAccepted
  <2> QED
    BY <1>4, <2>1 DEF SignalAccepted
<1>5. ASSUME NEW d \in Dispatchers, SignalFailed(d) PROVE Inv'
  BY <1>5 DEF SignalFailed
<1>6. ASSUME NEW d \in Dispatchers, MarkPublished(d) PROVE Inv'
  <2>1. CASE Holds(d)
    <3>1. /\ claim[d] \in Messages /\ claim[d] \in Range(inbox)
          /\ status' = [status EXCEPT ![claim[d]] = "published"]
          /\ token' = [token EXCEPT ![claim[d]] = Nobody]
          /\ stale' = stale \ {claim[d]}
          /\ pc' = [pc EXCEPT ![d] = "idle"]
          /\ UNCHANGED <<attempts, requeued, tenantActive, claim, workflow,
                         inbox, crashes>>
      BY <1>6, <2>1 DEF MarkPublished, Release
    <3>2. TypeOK'
      BY <3>1
    <3> QED
      BY <3>1, <3>2
  <2>2. CASE ~Holds(d)
    BY <1>6, <2>2 DEF MarkPublished
  <2> QED
    BY <2>1, <2>2
<1>7. ASSUME NEW d \in Dispatchers, RecordFailure(d) PROVE Inv'
  <2>1. CASE Holds(d)
    <3>1. PICK s \in {"dead_letter", "pending"} :
            /\ s = "dead_letter" => attempts[claim[d]] >= MaxAttempts
            /\ claim[d] \in Messages
            /\ status' = [status EXCEPT ![claim[d]] = s]
            /\ token' = [token EXCEPT ![claim[d]] = Nobody]
            /\ stale' = stale \ {claim[d]}
            /\ pc' = [pc EXCEPT ![d] = "idle"]
            /\ UNCHANGED <<attempts, requeued, tenantActive, claim, workflow,
                           inbox, crashes>>
      BY <1>7, <2>1 DEF RecordFailure, Release, Exhausted
    <3>2. TypeOK'
      BY <3>1
    <3> QED
      BY <3>1, <3>2
  <2>2. CASE ~Holds(d)
    BY <1>7, <2>2 DEF RecordFailure
  <2> QED
    BY <2>1, <2>2
<1>8. ASSUME NEW d \in Dispatchers, Crash(d) PROVE Inv'
  BY <1>8 DEF Crash
<1>9. ASSUME NEW m \in Messages, ClaimExpires(m) PROVE Inv'
  BY <1>9 DEF ClaimExpires
<1>10. ASSUME NEW c \in RequeueCommands, NEW m \in Messages, Requeue(c, m)
       PROVE Inv'
  BY <1>10 DEF Requeue
<1>11. CASE SwitchTenant
  <2>1. tenantActive' \in BOOLEAN
    BY <1>11, Zenon DEF SwitchTenant
  <2> QED
    BY <1>11, <2>1 DEF SwitchTenant
<1>12. CASE CloseWorkflow
  BY <1>12 DEF CloseWorkflow
<1> QED
  BY <1>1, <1>2, <1>3, <1>4, <1>5, <1>6, <1>7, <1>8, <1>9, <1>10, <1>11,
     <1>12 DEF Next

(* The conjunction is an invariant of the outbox. *)
LEMMA InvInvariant == Spec => []Inv
  BY InitInv, NextInv, PTL DEF Spec

-----------------------------------------------------------------------------
(* The theorems. *)

(* Every row is well formed, and has a claim token exactly while it is in  *)
(* publication.                                                            *)
THEOREM TypeCorrect == Spec => []TypeOK
<1>1. Inv => TypeOK
  BY DEF Inv
<1> QED
  BY InvInvariant, <1>1, PTL

(* What is marked published is in the mailbox. *)
THEOREM PublishedWasDelivered == Spec => []PublishedIsDelivered
<1>1. Inv => PublishedIsDelivered
  BY DEF Inv
<1> QED
  BY InvInvariant, <1>1, PTL

(* The rows stay consistent, and no dispatcher gives a message up early. *)
THEOREM DeadLettersAreEarned == Spec => []RowsAreSound
<1>1. Inv => RowsAreSound
  BY DEF Inv, RowsAreSound
<1> QED
  BY InvInvariant, <1>1, PTL

(* A published message stays published. *)
THEOREM PublishedStays == Spec => PublishedIsFinal
<1> DEFINE Final == \A m \in Messages :
                      status[m] = "published" => status'[m] = "published"
<1>1. Inv /\ [Next]_vars => [Final]_vars
  <2> SUFFICES ASSUME Inv, Next PROVE Final
    OBVIOUS
  <2> USE DEF Inv, TypeOK, WorkIsCommitted
  <2>1. ASSUME NEW d \in Dispatchers, MarkPublished(d) \/ RecordFailure(d)
        PROVE Final
    BY <2>1 DEF MarkPublished, RecordFailure, Holds, Release
  <2>2. ASSUME NEW d \in Dispatchers,
               SignalAccepted(d) \/ SignalFailed(d) \/ Crash(d)
        PROVE Final
    BY <2>2 DEF SignalAccepted, SignalFailed, Crash
  <2>3. ASSUME NEW d \in Dispatchers, NEW m \in Messages, Claim(d, m)
        PROVE Final
    BY <2>3 DEF Claim, Claimable
  <2>4. ASSUME NEW m \in Messages, Enqueue(m) \/ ClaimExpires(m)
        PROVE Final
    BY <2>4 DEF Enqueue, ClaimExpires
  <2>5. ASSUME NEW c \in RequeueCommands, NEW m \in Messages, Requeue(c, m)
        PROVE Final
    BY <2>5 DEF Requeue
  <2>6. CASE SwitchTenant \/ CloseWorkflow
    BY <2>6 DEF SwitchTenant, CloseWorkflow
  <2> QED
    BY <2>1, <2>2, <2>3, <2>4, <2>5, <2>6 DEF Next
<1>2. Spec => [][Final]_vars
  BY InvInvariant, <1>1, PTL DEF Spec
<1> QED
  BY <1>2 DEF PublishedIsFinal

-----------------------------------------------------------------------------
(* The outbox implements Delivery. *)

USE DEF Promised!dvars

(* An empty outbox has promised nothing. *)
LEMMA InitRefines == Init => Promised!DeliveryInit
  BY DEF Init, Promised!DeliveryInit

(* A commit is a promise, the first accepted signal a delivery, and the    *)
(* mark of the claim's holder the settlement; no other step is visible.    *)
LEMMA NextRefines ==
  Inv /\ [Next]_vars => [Promised!DeliveryNext]_(Promised!dvars)
<1> SUFFICES ASSUME Inv, [Next]_vars
             PROVE  [Promised!DeliveryNext]_(Promised!dvars)
  OBVIOUS
<1> DEFINE promised == {m \in Messages : status[m] # "none"}
           settled == {m \in Messages : status[m] = "published"}
           Hidden == promised' = promised /\ settled' = settled /\ inbox' = inbox
<1> USE DEF Inv, TypeOK, WorkIsCommitted, SignalledIsDelivered
<1>1. ASSUME UNCHANGED vars PROVE Hidden
  BY <1>1 DEF vars
<1>2. ASSUME NEW m \in Messages, Enqueue(m) PROVE Promised!Promise(m)
  BY <1>2 DEF Enqueue, Promised!Promise
<1>3. ASSUME NEW d \in Dispatchers, NEW m \in Messages, Claim(d, m)
      PROVE Hidden
  BY <1>3 DEF Claim, Claimable
<1>4. ASSUME NEW d \in Dispatchers, SignalAccepted(d),
             NEW m \in Messages, m = claim[d]
      PROVE Promised!Deliver(m) \/ Hidden
  <2>1. claim[d] \in promised /\ promised' = promised /\ settled' = settled
    BY <1>4 DEF SignalAccepted
  <2>2. CASE claim[d] \in Range(inbox)
    BY <1>4, <2>1, <2>2 DEF SignalAccepted, Receive
  <2>3. CASE claim[d] \notin Range(inbox)
    BY <1>4, <2>1, <2>3 DEF SignalAccepted, Receive, Promised!Deliver,
       Range, Promised!Range
  <2> QED
    BY <2>2, <2>3
<1>5. ASSUME NEW d \in Dispatchers, SignalFailed(d) \/ Crash(d) PROVE Hidden
  BY <1>5 DEF SignalFailed, Crash
<1>6. ASSUME NEW d \in Dispatchers, MarkPublished(d),
             NEW m \in Messages, m = claim[d]
      PROVE Promised!Settle(m) \/ Hidden
  <2>1. CASE Holds(d)
    <3>1. promised' = promised /\ settled' = settled \cup {claim[d]}
      BY <1>6, <2>1 DEF MarkPublished, Holds, Release
    <3> QED
      BY <1>6, <3>1 DEF MarkPublished, Promised!Settle, Range, Promised!Range
  <2>2. CASE ~Holds(d)
    BY <1>6, <2>2 DEF MarkPublished
  <2> QED
    BY <2>1, <2>2
<1>7. ASSUME NEW d \in Dispatchers, RecordFailure(d) PROVE Hidden
  BY <1>7 DEF RecordFailure, Holds, Release
<1>8. ASSUME NEW m \in Messages, ClaimExpires(m) PROVE Hidden
  BY <1>8 DEF ClaimExpires
<1>9. ASSUME NEW c \in RequeueCommands, NEW m \in Messages, Requeue(c, m)
      PROVE Hidden
  BY <1>9 DEF Requeue
<1>10. ASSUME SwitchTenant \/ CloseWorkflow PROVE Hidden
  BY <1>10 DEF SwitchTenant, CloseWorkflow
<1>11. ASSUME NEW d \in Dispatchers, SignalAccepted(d) \/ MarkPublished(d)
       PROVE claim[d] \in Messages
  BY <1>11 DEF SignalAccepted, MarkPublished
<1> HIDE DEF Inv, TypeOK, WorkIsCommitted, SignalledIsDelivered, Hidden
<1>12. (\E m \in Messages : \/ Promised!Promise(m)
                            \/ Promised!Deliver(m)
                            \/ Promised!Settle(m)) \/ Hidden
  <2>1. CASE UNCHANGED vars
    BY <1>1, <2>1
  <2>2. CASE Next
    <3>1. CASE \E m \in Messages : Enqueue(m)
      BY <1>2, <3>1
    <3>2. CASE \E d \in Dispatchers : SignalAccepted(d)
      BY <1>4, <1>11, <3>2
    <3>3. CASE \E d \in Dispatchers : MarkPublished(d)
      BY <1>6, <1>11, <3>3
    <3> QED
      BY <1>3, <1>5, <1>7, <1>8, <1>9, <1>10, <2>2, <3>1, <3>2, <3>3 DEF Next
  <2> QED
    BY <2>1, <2>2
<1>13. Hidden => UNCHANGED Promised!dvars
  BY DEF Hidden
<1> QED
  BY <1>12, <1>13 DEF Promised!DeliveryNext

(* The dispatchers keep the promise the outbox makes to its writers. *)
THEOREM OutboxImplementsDelivery == Spec => ImplementsDelivery
<1>1. Spec => Promised!DeliverySpec
  BY InitRefines, NextRefines, InvInvariant, PTL
  DEF Spec, Promised!DeliverySpec
<1> QED
  BY <1>1 DEF ImplementsDelivery
=============================================================================
