------------------------------ MODULE MCMailbox ------------------------------
(* Model-checking instances of Mailbox: what is signalled. *)
EXTENDS Mailbox, TLC

CONSTANTS
  e1, e2, approve, feedback, resolve, takeover, retry, wake,
  Scripts   \* what is signalled in a behaviour

MCKind ==
  e1 :> "enquiry" @@ e2 :> "enquiry" @@ approve :> "approve" @@
  feedback :> "feedback" @@ resolve :> "resolution" @@ takeover :> "takeover" @@
  retry :> "retry" @@ wake :> "manual_wake"

(* A behaviour is about one of these: the order of events around a         *)
(* takeover, commands of every priority, and a turn that is interrupted,   *)
(* by the signals that only tests send too.                                *)
EveryScript ==
  {[items |-> {e1, e2, approve, takeover}, tests |-> FALSE],
   [items |-> {feedback, resolve, retry}, tests |-> FALSE],
   [items |-> {resolve, retry, wake}, tests |-> FALSE],
   [items |-> {e1, takeover}, tests |-> TRUE]}

(* A takeover that arrives with a review. *)
PriorityScript == {[items |-> {feedback, takeover}, tests |-> FALSE]}

VARIABLE script

MCInit == Init /\ script \in Scripts

MCNext ==
  /\ \/ \E i \in script.items : Receive(i)
     \/ /\ script.tests
        /\ Close \/ \E p \in Projections \ {NoPlan} : ReplaceWakePlan(p)
     \/ TimerDue \/ Restore \/ ContinueAsNew \/ Finish \/ Wake
     \/ ActivityReturns
  /\ UNCHANGED script

MCSpec == MCInit /\ [][MCNext]_<<vars, script>> /\ Fairness

(* After a takeover the mailbox stays parked until a command, unless a     *)
(* test has replaced its wake plan (mailbox.py:267-273, 391-396).          *)
ParkedUntilCommand == ~script.tests => TakeoverParks
=============================================================================
