-------------------------- MODULE MCCommunications --------------------------
(* A model-checking instance of Communications. *)
EXTENDS Communications, TLC

CONSTANTS a1, a2, a3, a4

TightPolicy ==
  [followUps |-> 2, interval |-> 2, total |-> 3, perWindow |-> 2, window |-> 3,
   lifetime |-> 5]

(* The zones that are checked, west and east of Greenwich. *)
Offsets == -5 .. 4
OneHour == [start |-> 2, end |-> 3]

(* A behaviour is about one of these: more messages than the total, which  *)
(* are reserved and reviewed; several that are sent; several events; calls *)
(* that are lost and retried, with another message or an event; a customer *)
(* in any zone with any quiet hours, over several days.                    *)
Scripts ==
  {[actions |-> 4, retried |-> Idempotent, sent |-> FALSE, time |-> 6,
    events |-> 1, crashes |-> 0, zones |-> FALSE],
   [actions |-> 3, retried |-> {}, sent |-> TRUE, time |-> 3,
    events |-> 1, crashes |-> 0, zones |-> FALSE],
   [actions |-> 2, retried |-> {}, sent |-> TRUE, time |-> 3,
    events |-> 2, crashes |-> 0, zones |-> FALSE],
   [actions |-> 2, retried |-> Idempotent, sent |-> TRUE, time |-> 3,
    events |-> 0, crashes |-> 1, zones |-> FALSE],
   [actions |-> 1, retried |-> Idempotent, sent |-> TRUE, time |-> 3,
    events |-> 1, crashes |-> 1, zones |-> FALSE],
   [actions |-> 0, retried |-> {}, sent |-> FALSE, time |-> 0,
    events |-> 0, crashes |-> 0, zones |-> TRUE]}

VARIABLE script

MCInit ==
  /\ Init
  /\ script \in Scripts
  /\ script.zones \/ (quiet = OneHour /\ before = 0 /\ after = 0)

(* In the last script only time passes. *)
MCNext ==
  /\ UNCHANGED script
  /\ \/ script.zones /\ Tick
     \/ /\ ~script.zones /\ Next
        /\ Cardinality({a \in Action : status'[a] # "none"}) <= script.actions
        /\ \A a \in Idempotent \ script.retried : status'[a] = "none"
        /\ script.sent \/ pc' = pc
        /\ now' <= script.time
        /\ events' <= script.events
        /\ crashes' <= script.crashes

MCSpec == MCInit /\ [][MCNext]_<<vars, script>>

Symmetry == Permutations(Action \ Idempotent)
=============================================================================
