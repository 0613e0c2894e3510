------------------------------- MODULE Queues -------------------------------
(***************************************************************************)
(* What the mailbox of a process promises those who signal it: an item     *)
(* arrives once, however often it is signalled; it is acted upon at most   *)
(* once; and only when everything of its queue that arrived before it has  *)
(* been.  Nothing is promised about the order of two queues.               *)
(***************************************************************************)
EXTENDS Naturals, Sequences, SequencesExt

CONSTANTS
  Items,
  SameQueue(_, _)   \* are two items in the same queue?

VARIABLES
  arrived,   \* items in the order of their first arrival
  done       \* items in the order in which they were acted upon

qvars == <<arrived, done>>

QueuesInit == arrived = <<>> /\ done = <<>>

Arrive(i) ==
  /\ i \notin Range(arrived)
  /\ arrived' = Append(arrived, i)
  /\ UNCHANGED done

(* The item at position n is next in its queue. *)
IsNext(n) ==
  \A m \in 1 .. n - 1 :
    SameQueue(arrived[m], arrived[n]) => arrived[m] \in Range(done)

Act(n) ==
  /\ arrived[n] \notin Range(done)
  /\ IsNext(n)
  /\ done' = Append(done, arrived[n])
  /\ UNCHANGED arrived

QueuesNext ==
  \/ \E i \in Items : Arrive(i)
  \/ \E n \in 1 .. Len(arrived) : Act(n)

QueuesSpec == QueuesInit /\ [][QueuesNext]_qvars
=============================================================================
