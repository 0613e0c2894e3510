------------------------------ MODULE Delivery ------------------------------
(***************************************************************************)
(* What the transactional outbox promises its writers: a committed message *)
(* may reach the mailbox of its process, it enters that mailbox's buffers  *)
(* at most once, and it is acknowledged, once and for all, only after it   *)
(* has entered.  Nothing is promised about the order of two messages.      *)
(***************************************************************************)
EXTENDS Sequences, SequencesExt

CONSTANT Messages

VARIABLES
  promised,   \* committed messages
  inbox,      \* messages in the order they entered the mailbox
  settled     \* messages acknowledged as delivered

dvars == <<promised, inbox, settled>>

DeliveryInit == promised = {} /\ inbox = <<>> /\ settled = {}

Promise(m) ==
  /\ m \notin promised
  /\ promised' = promised \cup {m}
  /\ UNCHANGED <<inbox, settled>>

Deliver(m) ==
  /\ m \in promised
  /\ m \notin Range(inbox)
  /\ inbox' = Append(inbox, m)
  /\ UNCHANGED <<promised, settled>>

Settle(m) ==
  /\ m \in Range(inbox)
  /\ settled' = settled \cup {m}
  /\ UNCHANGED <<promised, inbox>>

DeliveryNext == \E m \in Messages : Promise(m) \/ Deliver(m) \/ Settle(m)

DeliverySpec == DeliveryInit /\ [][DeliveryNext]_dvars
=============================================================================
