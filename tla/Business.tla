------------------------------ MODULE Business ------------------------------
(***************************************************************************)
(* The fictional business providers (adapters/stubs/business.py): messages,*)
(* booking, payment and calendar in the memory of a worker, as the         *)
(* processes of several customers use them.  What a process knows is its   *)
(* authoritative facts, which PostgreSQL keeps and every provider request  *)
(* carries (actions/execution.py); a worker may be restarted between any   *)
(* two steps, and its memory is then gone.                                 *)
(*                                                                         *)
(* An idempotency key is derived from one revision of one action request.  *)
(* A process makes one request per action and slot or booking here, so     *)
(* these three are the key; a slot refused is not asked for anew.  The     *)
(* provider's reference is the key.  An attempt is made in a step of its   *)
(* own; the call that follows is answered, or the answer is lost and the   *)
(* attempt is looked up or made again.                                     *)
(***************************************************************************)
EXTENDS Naturals, FiniteSets

CONSTANTS
  Process,      \* the processes, one per customer
  Slots,        \* available_slots
  Rebook,       \* may a process that has a booking propose another?
  MaxRestarts,  \* bound on restarts of the worker
  None          \* no fact, no row

(* Idempotency keys, and the references made of them. *)
BookingKey == {<<p, "propose_booking", s>> : p \in Process, s \in Slots}
PaymentKey == {<<p, "request_payment", b>> : p \in Process, b \in BookingKey}
CalendarKey ==
  {<<p, "create_calendar_event", b>> : p \in Process, b \in BookingKey}
OtherKey ==
  {<<p, a, None>> : p \in Process, a \in {"send_message", "find_available_slots"}}
Key == BookingKey \cup PaymentKey \cup CalendarKey \cup OtherKey

ASSUME BusinessAssumption ==
  /\ Rebook \in BOOLEAN
  /\ MaxRestarts \in Nat
  /\ None \notin Slots \cup Key \cup {"pending", "completed"}

(* What an adapter answers, and keeps under the key: a result, a conflict. *)
NoOutcome == [status |-> "none", slots |-> {}]
Succeeded(slots) == [status |-> "succeeded", slots |-> slots]
Conflict(slots) == [status |-> "conflict", slots |-> slots]
Failed == [status |-> "failed", slots |-> {}]

VARIABLES
  messages,   \* outbound_messages
  bookings,   \* bookings: reference and slot
  payments,   \* payment_requests: reference -> status, "none" if there is none
  calendar,   \* calendar_events: the booking each is for
  outcome,    \* _results and _conflicts of the adapters
  performed,  \* how often each key was performed in this memory
  facts,      \* authoritative_facts of each process
  attempt,    \* the key each process has an unsettled attempt for
  paid,       \* the payments that were completed
  restarts    \* restarts so far

memory == <<messages, bookings, payments, calendar, outcome, performed>>
vars == <<memory, facts, attempt, paid, restarts>>

NoFacts == [looked |-> FALSE, slots |-> {}, booking |-> None, slot |-> None,
            payment |-> None, status |-> None, calendar |-> FALSE,
            message |-> FALSE]

Init ==
  /\ messages = {} /\ bookings = {} /\ calendar = {}
  /\ payments = [k \in PaymentKey |-> None]
  /\ outcome = [k \in Key |-> NoOutcome]
  /\ performed = [k \in Key |-> 0]
  /\ facts = [p \in Process |-> NoFacts]
  /\ attempt = [p \in Process |-> None]
  /\ paid = {} /\ restarts = 0

Taken(s) == \E b \in bookings : b.slot = s
Free == {s \in Slots : ~Taken(s)}
References == {b.ref : b \in bookings}

-----------------------------------------------------------------------------
(* _perform of the adapters: the answer to a new key. *)

FindAvailableSlots == Succeeded(Free)

(* booking.available_slots of the facts, or all the provider has. *)
Offered(p) == IF facts[p].looked THEN facts[p].slots ELSE Slots

(* Mutant: the bookings of others are not looked at. *)
ProposeBookingBlind(p, s) ==
  IF s \notin Offered(p) THEN Failed ELSE Succeeded({})

ProposeBooking(p, s) ==
  IF s \notin Offered(p) THEN Failed
  ELSE IF Taken(s) THEN Conflict(Free)
  ELSE Succeeded({})

(* The booking is confirmed in memory or by the facts of the process. *)
Confirmed(p, b) == b \in References \/ facts[p].booking = b

RequestPayment(p, b) == IF Confirmed(p, b) THEN Succeeded({}) ELSE Failed

(* The payment is completed in memory or by the facts; the event is to be  *)
(* at the slot of the facts, which a booking in memory must have.          *)
CreateCalendarEvent(p, b) ==
  IF /\ Confirmed(p, b)
     /\ \/ \E k \in PaymentKey : k[3] = b /\ payments[k] = "completed"
        \/ facts[p].status = "completed"
     /\ b \in References => [ref |-> b, slot |-> facts[p].slot] \in bookings
  THEN Succeeded({}) ELSE Failed

Perform(k) ==
  CASE k[2] = "send_message" -> Succeeded({})
    [] k[2] = "find_available_slots" -> FindAvailableSlots
    [] k[2] = "propose_booking" -> ProposeBooking(k[1], k[3])
    [] k[2] = "request_payment" -> RequestPayment(k[1], k[3])
    [] k[2] = "create_calendar_event" -> CreateCalendarEvent(k[1], k[3])

(* What it leaves in memory when it succeeds. *)
Remember(k) ==
  /\ messages' = IF k[2] = "send_message" THEN messages \cup {k} ELSE messages
  /\ bookings' = IF k \in BookingKey
                 THEN bookings \cup {[ref |-> k, slot |-> k[3]]} ELSE bookings
  /\ payments' = IF k \in PaymentKey
                 THEN [payments EXCEPT ![k] = "pending"] ELSE payments
  /\ calendar' = IF k \in CalendarKey THEN calendar \cup {k[3]} ELSE calendar
  /\ performed' = [performed EXCEPT ![k] = @ + 1]

(* The facts of the answer. *)
Observe(f, k, o) ==
  IF o.status = "failed" THEN f
  ELSE IF o.status = "conflict" \/ k[2] = "find_available_slots"
  THEN [f EXCEPT !.looked = TRUE, !.slots = o.slots]
  ELSE CASE k[2] = "send_message" -> [f EXCEPT !.message = TRUE]
         [] k[2] = "propose_booking" ->
              [f EXCEPT !.booking = k, !.slot = k[3]]
         [] k[2] = "request_payment" ->
              [f EXCEPT !.payment = k, !.status = "pending"]
         [] k[2] = "create_calendar_event" -> [f EXCEPT !.calendar = TRUE]

-----------------------------------------------------------------------------
(* The agent proposes an action from the facts of its process, and the     *)
(* executor writes the attempt.                                            *)
Wanted(f, k) ==
  CASE k[2] = "send_message" -> ~f.message
    [] k[2] = "find_available_slots" -> ~f.looked
    [] k[2] = "propose_booking" ->
         f.booking = None \/ (Rebook /\ f.booking # k /\ ~f.calendar)
    [] k[2] = "request_payment" -> f.booking = k[3] /\ f.payment = None
    [] k[2] = "create_calendar_event" -> f.booking = k[3] /\ ~f.calendar

Propose(k) ==
  /\ attempt[k[1]] = None
  /\ Wanted(facts[k[1]], k)
  /\ attempt' = [attempt EXCEPT ![k[1]] = k]
  /\ UNCHANGED <<memory, facts, paid, restarts>>

(* The answer is recorded, and its facts with it, or it is lost. *)
Answered(k, o) ==
  \/ /\ attempt' = [attempt EXCEPT ![k[1]] = None]
     /\ facts' = [facts EXCEPT ![k[1]] = Observe(@, k, o)]
  \/ UNCHANGED <<attempt, facts>>

Known(k) == outcome[k]

(* _StatefulActionAdapter.execute, of a new attempt or again. *)
Execute(k) ==
  /\ attempt[k[1]] = k
  /\ IF Known(k) # NoOutcome
     THEN Answered(k, Known(k)) /\ UNCHANGED memory
     ELSE /\ Answered(k, Perform(k))
          /\ outcome' = IF Perform(k) = Failed THEN outcome
                        ELSE [outcome EXCEPT ![k] = Perform(k)]
          /\ IF Perform(k).status = "succeeded" THEN Remember(k)
             ELSE UNCHANGED <<messages, bookings, payments, calendar, performed>>
  /\ UNCHANGED <<paid, restarts>>

(* lookup: an answer that was lost is found, if the memory still has it. *)
Lookup(k) ==
  /\ attempt[k[1]] = k
  /\ outcome[k] # NoOutcome
  /\ attempt' = [attempt EXCEPT ![k[1]] = None]
  /\ facts' = [facts EXCEPT ![k[1]] = Observe(@, k, outcome[k])]
  /\ UNCHANGED <<memory, paid, restarts>>

(* confirm_booking: the provider confirms by an event. *)
ConfirmBooking(b) ==
  /\ b \in bookings
  /\ facts' = [facts EXCEPT
       ![b.ref[1]] = [@ EXCEPT !.booking = b.ref, !.slot = b.slot]]
  /\ UNCHANGED <<memory, attempt, paid, restarts>>

(* complete_payment, or the same event from outside this memory. *)
CompletePayment(k) ==
  /\ k \notin paid
  /\ payments[k] # None \/ facts[k[1]].payment = k
  /\ paid' = paid \cup {k}
  /\ payments' = IF payments[k] = None THEN payments
                 ELSE [payments EXCEPT ![k] = "completed"]
  /\ facts' = [facts EXCEPT
       ![k[1]] = [@ EXCEPT !.payment = k, !.status = "completed"]]
  /\ UNCHANGED <<messages, bookings, calendar, outcome, performed, attempt,
                 restarts>>

(* apply_event of a completed payment: the memory follows the facts. *)
ApplyEvent(k) ==
  /\ k \in paid
  /\ payments' = [payments EXCEPT ![k] = "completed"]
  /\ bookings' = IF k[3] \in References \/ payments[k] # None
                    \/ facts[k[1]].slot = None
                 THEN bookings
                 ELSE bookings \cup {[ref |-> k[3], slot |-> facts[k[1]].slot]}
  /\ UNCHANGED <<messages, calendar, outcome, performed, facts, attempt, paid,
                 restarts>>

(* The worker is restarted: a new StubBusinessState and new adapters. *)
Restart ==
  /\ restarts < MaxRestarts
  /\ restarts' = restarts + 1
  /\ messages' = {} /\ bookings' = {} /\ calendar' = {}
  /\ payments' = [k \in PaymentKey |-> None]
  /\ outcome' = [k \in Key |-> NoOutcome]
  /\ performed' = [k \in Key |-> 0]
  /\ UNCHANGED <<facts, attempt, paid>>

Next ==
  \/ \E k \in Key : Propose(k) \/ Execute(k) \/ Lookup(k)
  \/ \E b \in bookings : ConfirmBooking(b)
  \/ \E k \in PaymentKey : CompletePayment(k) \/ ApplyEvent(k)
  \/ Restart

Spec == Init /\ [][Next]_vars

-----------------------------------------------------------------------------
(* Properties. *)

(* Type invariant. *)
TypeOK ==
  /\ bookings \subseteq [ref : BookingKey, slot : Slots]
  /\ payments \in [PaymentKey -> {None, "pending", "completed"}]
  /\ calendar \subseteq BookingKey
  /\ \A p \in Process :
       /\ attempt[p] \in {k \in Key : k[1] = p} \cup {None}
       /\ facts[p].slot = None <=> facts[p].booking = None
       /\ facts[p].booking \in BookingKey \cup {None}
       /\ facts[p].status = None <=> facts[p].payment = None
  /\ paid \subseteq PaymentKey

(* No two processes hold the same slot, whatever answers are lost and      *)
(* retried, as long as the worker keeps its memory (business.py:413-427).  *)
OneBookingPerSlot ==
  restarts = 0 =>
    \A p, q \in Process :
      p # q /\ facts[p].booking # None => facts[p].slot # facts[q].slot

(* guarantees_idempotency: a key takes effect at most once in a memory,    *)
(* however often it is executed (business.py:318-332).                     *)
OncePerKey == \A k \in Key : performed[k] <= 1

(* "calendar event requires completed payment" (business.py:533): a        *)
(* booking is in the calendar only once a payment for it is completed,     *)
(* across restarts too.                                                    *)
CalendarIsPaid == \A b \in calendar : \E k \in paid : k[3] = b

(* The providers keep their books: no key takes effect twice in a memory,  *)
(* no slot is sold twice before the memory is lost for the first time, and *)
(* nothing unpaid is in the calendar even after that.                      *)
BooksAgree == TypeOK /\ OneBookingPerSlot /\ OncePerKey /\ CalendarIsPaid
=============================================================================
