------------------------------ MODULE MCJourney ------------------------------
(* Model-checking instances of Journey: what is sent to the process. *)
EXTENDS Journey

CONSTANTS e1, e2, approval, feedback, resolution, takeover, manual, retry,
          a1,
          Scripts   \* what is sent in a behaviour

MCKind ==
  (e1 :> "reply") @@ (e2 :> "reply") @@ (approval :> "approve")
  @@ (feedback :> "feedback") @@ (resolution :> "resolution")
  @@ (takeover :> "takeover") @@ (manual :> "manual_wake")
  @@ (retry :> "retry")

(* The customer claims a payment; the bank's event and the action's result *)
(* establish it.                                                           *)
Paid(kind, value) == [kind |-> kind, key |-> "paid", value |-> value]
MCObserves ==
  (e1 :> {Paid("claim", "yes")})
  @@ (e2 :> {Paid("authoritative", "yes")})
  @@ (a1 :> {Paid("authoritative", "yes")})

MCRequired == [paid |-> "yes"]

(* A behaviour is about one of these: a takeover of a process that may     *)
(* wait for a timer; every control of the operator; reviews and resolutions *)
(* of its action.                                                          *)
EveryScript ==
  {[items |-> {e1, takeover, manual}, timers |-> 1],
   [items |-> {e1, takeover, manual, retry}, timers |-> 0],
   [items |-> {e1, e2, approval, feedback, resolution}, timers |-> 0]}

(* A single event. *)
EventScript == {[items |-> {e1}, timers |-> 1]}

VARIABLE script

MCInit == JourneyInit /\ script \in Scripts

MCNext ==
  /\ JourneyNext
  /\ Range(committed') \subseteq script.items
  /\ timers' <= script.timers
  /\ UNCHANGED script

MCSpec == MCInit /\ [][MCNext]_<<journey, script>>
=============================================================================
