---------------------------- MODULE ActionPromise ----------------------------
(***************************************************************************)
(* What the platform promises about the actions that agents propose.  An   *)
(* action is proposed once, with one payload, and is permitted or refused  *)
(* once, by policy or by a reviewer.  Only a permitted one is sent, with   *)
(* that payload; its side effect happens at most once; and its outcome is  *)
(* settled once.  What the platform settles itself is true, and stays so:  *)
(* an action settled as a conflict or, where no retry can interfere, as a  *)
(* failure is not performed later.                                         *)
(***************************************************************************)
EXTENDS Naturals

CONSTANTS
  Actions, IdempotentActions, Payloads,
  NoPayload   \* no payload yet

VARIABLES
  proposed,   \* the payload of each action
  permitted,  \* actions that policy or a reviewer has permitted
  refused,    \* actions that policy or a reviewer has refused
  sent,       \* the payload of each action that was last sent
  effects,    \* how often the side effect of each has happened
  settled,    \* the recorded outcome of each, or "open"
  byHand      \* actions that an operator has settled

pvars == <<proposed, permitted, refused, sent, effects, settled, byHand>>

Outcome == {"succeeded", "failed", "conflict"}

PromiseInit ==
  /\ proposed = [a \in Actions |-> NoPayload]
  /\ permitted = {} /\ refused = {}
  /\ sent = [a \in Actions |-> NoPayload]
  /\ effects = [a \in Actions |-> 0]
  /\ settled = [a \in Actions |-> "open"]
  /\ byHand = {}

Undecided(a) == a \notin permitted \cup refused

(* Policy permits or refuses an action at once, or leaves it to a reviewer. *)
Propose(a, p) ==
  /\ proposed[a] = NoPayload
  /\ proposed' = [proposed EXCEPT ![a] = p]
  /\ \/ permitted' = permitted \cup {a} /\ UNCHANGED refused
     \/ refused' = refused \cup {a} /\ UNCHANGED permitted
     \/ UNCHANGED <<permitted, refused>>
  /\ UNCHANGED <<sent, effects, settled, byHand>>

Permit(a) ==
  /\ proposed[a] # NoPayload /\ Undecided(a)
  /\ permitted' = permitted \cup {a}
  /\ UNCHANGED <<proposed, refused, sent, effects, settled, byHand>>

Refuse(a) ==
  /\ proposed[a] # NoPayload /\ Undecided(a)
  /\ refused' = refused \cup {a}
  /\ UNCHANGED <<proposed, permitted, sent, effects, settled, byHand>>

Send(a) ==
  /\ a \in permitted
  /\ sent' = [sent EXCEPT ![a] = proposed[a]]
  /\ UNCHANGED <<proposed, permitted, refused, effects, settled, byHand>>

(* The outcomes that say that an action was not performed. *)
Negative(a) ==
  {"conflict"} \cup (IF a \in IdempotentActions THEN {} ELSE {"failed"})

Perform(a) ==
  /\ sent[a] # NoPayload
  /\ effects[a] = 0
  /\ settled[a] \in Negative(a) => a \in byHand
  /\ effects' = [effects EXCEPT ![a] = 1]
  /\ UNCHANGED <<proposed, permitted, refused, sent, settled, byHand>>

Settle(a, o) ==
  /\ a \in permitted /\ settled[a] = "open"
  /\ o = "succeeded" => effects[a] = 1
  /\ o \in Negative(a) => effects[a] = 0
  /\ settled' = [settled EXCEPT ![a] = o]
  /\ UNCHANGED <<proposed, permitted, refused, sent, effects, byHand>>

SettleByHand(a, o) ==
  /\ a \in permitted /\ settled[a] = "open"
  /\ settled' = [settled EXCEPT ![a] = o]
  /\ byHand' = byHand \cup {a}
  /\ UNCHANGED <<proposed, permitted, refused, sent, effects>>

PromiseNext ==
  \E a \in Actions :
    \/ \E p \in Payloads : Propose(a, p)
    \/ Permit(a) \/ Refuse(a) \/ Send(a) \/ Perform(a)
    \/ \E o \in Outcome : Settle(a, o)
    \/ \E o \in {"succeeded", "failed"} : SettleByHand(a, o)

PromiseSpec == PromiseInit /\ [][PromiseNext]_pvars
=============================================================================
