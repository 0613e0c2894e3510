---------------------------- MODULE BusinessProofs ----------------------------
(***************************************************************************)
(* The proof that the business providers keep their books, for any number  *)
(* of processes, slots and restarts of the worker, as long as a process    *)
(* that has a booking proposes no other.                                   *)
(***************************************************************************)
EXTENDS Business, TLAPS

(* The row a booking request leaves. *)
BookingRow(k) == [ref |-> k, slot |-> k[3]]

(* What the variables hold. *)
Tables ==
  /\ \A b \in bookings : b.ref \in BookingKey /\ b = BookingRow(b.ref)
  /\ payments \in [PaymentKey -> {None, "pending", "completed"}]
  /\ calendar \subseteq BookingKey
  /\ DOMAIN outcome = Key
  /\ performed \in [Key -> Nat]
  /\ DOMAIN facts = Process
  /\ attempt \in [Process -> Key \cup {None}]
  /\ paid \subseteq PaymentKey
  /\ restarts \in Nat

(* What a process knows is about one booking and one payment, and so is    *)
(* what it has attempted.                                                  *)
Account(p) ==
  /\ attempt[p] = None \/ (attempt[p] \in Key /\ attempt[p][1] = p)
  /\ \/ facts[p].booking = None /\ facts[p].slot = None
     \/ /\ facts[p].booking \in BookingKey /\ facts[p].booking[1] = p
        /\ facts[p].slot = facts[p].booking[3]
  /\ \/ facts[p].payment = None /\ facts[p].status = None
     \/ /\ facts[p].payment \in PaymentKey /\ facts[p].payment[1] = p
        /\ facts[p].payment[3] = facts[p].booking
        /\ facts[p].status \in {"pending", "completed"}
        /\ facts[p].status = "completed" => facts[p].payment \in paid
  /\ attempt[p] \in BookingKey => facts[p].booking \in {None, attempt[p]}
  /\ attempt[p] \in PaymentKey \cup CalendarKey =>
       facts[p].booking = attempt[p][3]
  /\ attempt[p] \in PaymentKey => facts[p].payment \in {None, attempt[p]}

(* A booking in memory is known to its process or will be: the answer was  *)
(* lost, and the adapter still has it.                                     *)
BookingKnown(k) ==
  /\ BookingRow(k) \in bookings =>
       \/ facts[k[1]].booking = k
       \/ /\ facts[k[1]].booking = None /\ attempt[k[1]] = k
          /\ outcome[k].status = "succeeded"
  /\ outcome[k].status = "succeeded" => BookingRow(k) \in bookings

(* The same of a payment request; a completed one is paid. *)
PaymentKnown(k) ==
  /\ payments[k] # None =>
       \/ facts[k[1]].payment = k
       \/ /\ facts[k[1]].payment = None /\ attempt[k[1]] = k
          /\ outcome[k].status = "succeeded"
  /\ payments[k] = "completed" => k \in paid
  /\ k \in paid => facts[k[1]].payment = k

(* The adapter keeps the answer of what it has performed. *)
PerformedOnce(k) ==
  /\ performed[k] <= 1
  /\ outcome[k] = NoOutcome => performed[k] = 0
  /\ outcome[k] = NoOutcome \/ outcome[k].status \in {"succeeded", "conflict"}

(* In the first memory every booking that is known is a row, and no slot   *)
(* is in two rows.                                                         *)
FirstMemory ==
  restarts = 0 =>
    /\ \A p \in Process :
         facts[p].booking # None => BookingRow(facts[p].booking) \in bookings
    /\ \A b, c \in bookings : b.slot = c.slot => b = c

Inv ==
  /\ Tables
  /\ \A p \in Process : Account(p)
  /\ \A k \in BookingKey : BookingKnown(k)
  /\ \A k \in PaymentKey : PaymentKnown(k)
  /\ \A k \in Key : PerformedOnce(k)
  /\ FirstMemory /\ CalendarIsPaid

-----------------------------------------------------------------------------
(* The keys. *)

(* A key names its process, its action and what the action is about. *)
LEMMA Keys ==
  /\ \A k \in Key : k[1] \in Process
  /\ \A k \in BookingKey : k \in Key /\ k[2] = "propose_booking" /\ k[3] \in Slots
  /\ \A k \in PaymentKey :
       k \in Key /\ k[2] = "request_payment" /\ k[3] \in BookingKey
  /\ \A k \in CalendarKey :
       k \in Key /\ k[2] = "create_calendar_event" /\ k[3] \in BookingKey
  /\ \A k \in OtherKey :
       k \in Key /\ k[2] \in {"send_message", "find_available_slots"}
  /\ Key = BookingKey \cup PaymentKey \cup CalendarKey \cup OtherKey
<1>1. \A k \in BookingKey :
        k[1] \in Process /\ k[2] = "propose_booking" /\ k[3] \in Slots
  BY DEF BookingKey
<1>2. \A k \in PaymentKey :
        k[1] \in Process /\ k[2] = "request_payment" /\ k[3] \in BookingKey
  BY DEF PaymentKey
<1>3. \A k \in CalendarKey :
        k[1] \in Process /\ k[2] = "create_calendar_event" /\ k[3] \in BookingKey
  BY DEF CalendarKey
<1>4. \A k \in OtherKey :
        k[1] \in Process /\ k[2] \in {"send_message", "find_available_slots"}
  BY DEF OtherKey
<1> QED
  BY <1>1, <1>2, <1>3, <1>4 DEF Key

(* No key is of two kinds, and None is none. *)
LEMMA KeysDiffer ==
  ASSUME BusinessAssumption
  PROVE  /\ \A k \in BookingKey : k \notin PaymentKey \cup CalendarKey /\ k # None
         /\ \A k \in PaymentKey : k \notin BookingKey \cup CalendarKey /\ k # None
         /\ \A k \in CalendarKey : k \notin BookingKey \cup PaymentKey /\ k # None
         /\ \A k \in OtherKey : k \notin BookingKey \cup PaymentKey \cup CalendarKey
         /\ \A k \in BookingKey : k[3] # None
BY Keys DEF BusinessAssumption

(* Rows and the requests they are of. *)
LEMMA Rows ==
  /\ \A k, l : BookingRow(k) = BookingRow(l) => k = l
  /\ \A k : BookingRow(k).ref = k /\ BookingRow(k).slot = k[3]
BY DEF BookingRow

(* The facts an answer leaves. *)
LEMMA Observed ==
  ASSUME NEW f, NEW k \in Key, NEW o,
         o.status \in {"succeeded", "conflict", "failed"}
  PROVE  /\ k \in BookingKey /\ o.status = "succeeded" =>
              /\ Observe(f, k, o).booking = k /\ Observe(f, k, o).slot = k[3]
              /\ Observe(f, k, o).payment = f.payment
              /\ Observe(f, k, o).status = f.status
         /\ k \in PaymentKey /\ o.status = "succeeded" =>
              /\ Observe(f, k, o).booking = f.booking
              /\ Observe(f, k, o).slot = f.slot
              /\ Observe(f, k, o).payment = k
              /\ Observe(f, k, o).status = "pending"
         /\ o.status # "succeeded" \/ k \notin BookingKey \cup PaymentKey =>
              /\ Observe(f, k, o).booking = f.booking
              /\ Observe(f, k, o).slot = f.slot
              /\ Observe(f, k, o).payment = f.payment
              /\ Observe(f, k, o).status = f.status
<1>1. CASE o.status = "failed"
  BY <1>1 DEF Observe
<1>2. CASE o.status # "failed" /\ (o.status = "conflict" \/ k[2] = "find_available_slots")
  BY <1>2, Keys DEF Observe
<1>3. CASE o.status = "succeeded" /\ k[2] # "find_available_slots"
  <2>1. CASE k \in BookingKey
    BY <1>3, <2>1, Keys DEF Observe
  <2>2. CASE k \in PaymentKey
    BY <1>3, <2>2, Keys DEF Observe
  <2>3. CASE k \in CalendarKey
    BY <1>3, <2>3, Keys DEF Observe
  <2>4. CASE k \in OtherKey
    BY <1>3, <2>4, Keys DEF Observe
  <2> QED
    BY <2>1, <2>2, <2>3, <2>4, Keys
<1> QED
  BY <1>1, <1>2, <1>3

-----------------------------------------------------------------------------
(* What a step leaves alone. *)

(* A process that neither attempts nor learns anything keeps its account. *)
LEMMA AccountKept ==
  ASSUME NEW p \in Process, Account(p), attempt'[p] = attempt[p],
         facts'[p] = facts[p], paid \subseteq paid'
  PROVE  Account(p)'
BY DEF Account

(* A booking whose row and process stay as they are is as known as before. *)
LEMMA BookingKept ==
  ASSUME NEW k \in BookingKey, BookingKnown(k),
         BookingRow(k) \in bookings' <=> BookingRow(k) \in bookings,
         facts'[k[1]].booking = facts[k[1]].booking,
         attempt'[k[1]] = attempt[k[1]], outcome'[k] = outcome[k]
  PROVE  BookingKnown(k)'
BY DEF BookingKnown, BookingRow

(* The same of a payment. *)
LEMMA PaymentKept ==
  ASSUME NEW k \in PaymentKey, PaymentKnown(k), payments'[k] = payments[k],
         k \in paid' <=> k \in paid,
         facts'[k[1]].payment = facts[k[1]].payment,
         attempt'[k[1]] = attempt[k[1]], outcome'[k] = outcome[k]
  PROVE  PaymentKnown(k)'
BY DEF PaymentKnown

(* Initially nobody knows anything. *)
LEMMA InvInit ==
  ASSUME BusinessAssumption
  PROVE  Init => Inv
<1> SUFFICES ASSUME Init PROVE Inv
  OBVIOUS
<1>1. \A p \in Process : /\ facts[p].booking = None /\ facts[p].slot = None
                         /\ facts[p].payment = None /\ facts[p].status = None
                         /\ attempt[p] = None
  BY DEF Init, NoFacts
<1>2. Tables
  BY DEF Init, Tables
<1>3. \A p \in Process : Account(p)
  BY <1>1, Keys, KeysDiffer, BusinessAssumption DEF Account, BusinessAssumption
<1>4. \A k \in Key : outcome[k] = NoOutcome /\ performed[k] = 0
  BY DEF Init
<1>5. \A k \in BookingKey : BookingKnown(k)
  BY <1>4, Keys DEF Init, BookingKnown, NoOutcome
<1>6. \A k \in PaymentKey : PaymentKnown(k)
  BY BusinessAssumption DEF Init, PaymentKnown, BusinessAssumption
<1>7. \A k \in Key : PerformedOnce(k)
  BY <1>4 DEF PerformedOnce
<1>8. FirstMemory /\ CalendarIsPaid
  BY <1>1 DEF Init, FirstMemory, CalendarIsPaid
<1> QED
  BY <1>2, <1>3, <1>5, <1>6, <1>7, <1>8 DEF Inv

-----------------------------------------------------------------------------
(* The actions. *)

(* A process that has a booking proposes no other, and pays for and enters *)
(* in the calendar the one it has.                                         *)
LEMMA ProposeStep ==
  ASSUME BusinessAssumption, Rebook = FALSE, Inv, NEW k \in Key, Propose(k)
  PROVE  Inv'
<1>1. PICK p \in Process : p = k[1]
  BY Keys
<1>2. /\ attempt[p] = None /\ Wanted(facts[p], k)
      /\ attempt' = [attempt EXCEPT ![p] = k]
      /\ facts' = facts /\ paid' = paid /\ restarts' = restarts
      /\ messages' = messages /\ bookings' = bookings /\ payments' = payments
      /\ calendar' = calendar /\ outcome' = outcome /\ performed' = performed
  BY <1>1 DEF Propose, memory
<1>3. /\ attempt'[p] = k
      /\ \A q \in Process \ {p} : attempt'[q] = attempt[q]
  BY <1>2 DEF Inv, Tables
<1>4. Tables'
  BY <1>2 DEF Inv, Tables
<1>5. /\ k \in BookingKey => facts[p].booking = None
      /\ k \in PaymentKey => facts[p].booking = k[3] /\ facts[p].payment = None
      /\ k \in CalendarKey => facts[p].booking = k[3]
  BY <1>2, Keys DEF Wanted
<1>6. Account(p)'
  BY <1>1, <1>2, <1>3, <1>5, Keys, KeysDiffer DEF Inv, Account
<1>7. \A q \in Process \ {p} : Account(q)'
  BY <1>2, <1>3, AccountKept DEF Inv
<1>8. ASSUME NEW l \in BookingKey
      PROVE  BookingKnown(l)'
  <2>1. l[1] \in Process /\ l # None
    BY Keys, KeysDiffer
  <2>2. CASE l[1] = p
    BY <1>2, <2>1, <2>2 DEF Inv, BookingKnown, BookingRow
  <2>3. CASE l[1] # p
    BY <1>2, <1>3, <2>1, <2>3, BookingKept DEF Inv
  <2> QED
    BY <2>2, <2>3
<1>9. ASSUME NEW l \in PaymentKey
      PROVE  PaymentKnown(l)'
  <2>1. l[1] \in Process /\ l # None
    BY Keys, KeysDiffer
  <2>2. CASE l[1] = p
    BY <1>2, <2>1, <2>2 DEF Inv, PaymentKnown
  <2>3. CASE l[1] # p
    BY <1>2, <1>3, <2>1, <2>3, PaymentKept DEF Inv
  <2> QED
    BY <2>2, <2>3
<1>10. \A l \in Key : PerformedOnce(l)'
  BY <1>2 DEF Inv, PerformedOnce
<1>11. FirstMemory' /\ CalendarIsPaid'
  BY <1>2 DEF Inv, FirstMemory, CalendarIsPaid, BookingRow
<1> QED
  BY <1>4, <1>6, <1>7, <1>8, <1>9, <1>10, <1>11 DEF Inv

(* What an answer changes: a process learns of its own booking or payment, *)
(* once and for all.                                                       *)
LEMMA Learned ==
  ASSUME BusinessAssumption, Inv, NEW k \in Key, NEW p \in Process, p = k[1],
         attempt[p] = k, paid' = paid, NEW o,
         o.status \in {"succeeded", "conflict", "failed"}, Answered(k, o)
  PROVE  /\ \A q \in Process : Account(q)'
         /\ \A q \in Process \ {p} :
              attempt'[q] = attempt[q] /\ facts'[q] = facts[q]
         /\ \A q \in Process :
              /\ facts[q].booking # None => facts'[q].booking = facts[q].booking
              /\ facts[q].payment # None => facts'[q].payment = facts[q].payment
         /\ facts'[p].booking = facts[p].booking
              \/ (k \in BookingKey /\ o.status = "succeeded" /\ facts'[p].booking = k)
         /\ \/ attempt'[p] = k /\ facts'[p] = facts[p]
            \/ /\ attempt'[p] = None
               /\ k \in BookingKey /\ o.status = "succeeded" =>
                    facts'[p].booking = k
               /\ k \in PaymentKey /\ o.status = "succeeded" =>
                    facts'[p].payment = k
         /\ attempt' \in [Process -> Key \cup {None}] /\ DOMAIN facts' = Process
<1>1. Tables /\ Account(p)
  BY DEF Inv
<1>2. CASE UNCHANGED <<attempt, facts>>
  <2>1. \A q \in Process : Account(q)'
    BY <1>2, AccountKept DEF Inv
  <2> QED
    BY <1>1, <1>2, <2>1 DEF Tables
<1>3. CASE /\ attempt' = [attempt EXCEPT ![p] = None]
           /\ facts' = [facts EXCEPT ![p] = Observe(facts[p], k, o)]
  <2>1. /\ attempt'[p] = None /\ facts'[p] = Observe(facts[p], k, o)
        /\ \A q \in Process \ {p} :
             attempt'[q] = attempt[q] /\ facts'[q] = facts[q]
        /\ attempt' \in [Process -> Key \cup {None}] /\ DOMAIN facts' = Process
    BY <1>1, <1>3 DEF Tables
  <2>2. \A q \in Process \ {p} : Account(q)'
    BY <2>1, AccountKept DEF Inv
  <2>3. CASE k \in BookingKey /\ o.status = "succeeded"
    <3>1. /\ facts'[p].booking = k /\ facts'[p].slot = k[3]
          /\ facts'[p].payment = facts[p].payment
          /\ facts'[p].status = facts[p].status
      BY <2>1, <2>3, Observed
    <3>2. facts[p].booking \in {None, k}
      BY <1>1, <2>3 DEF Account
    <3>3. Account(p)'
      BY <1>1, <2>1, <2>3, <3>1, <3>2, Keys, KeysDiffer DEF Account
    <3> QED
      BY <2>1, <2>2, <2>3, <3>1, <3>2, <3>3, Keys, KeysDiffer
  <2>4. CASE k \in PaymentKey /\ o.status = "succeeded"
    <3>1. /\ facts'[p].booking = facts[p].booking
          /\ facts'[p].slot = facts[p].slot
          /\ facts'[p].payment = k /\ facts'[p].status = "pending"
      BY <2>1, <2>4, Observed
    <3>2. facts[p].payment \in {None, k} /\ facts[p].booking = k[3]
      BY <1>1, <2>4 DEF Account
    <3>3. Account(p)'
      BY <1>1, <2>1, <2>4, <3>1, <3>2, Keys, KeysDiffer DEF Account
    <3> QED
      BY <2>1, <2>2, <2>4, <3>1, <3>2, <3>3, Keys, KeysDiffer
  <2>5. CASE o.status # "succeeded" \/ k \notin BookingKey \cup PaymentKey
    <3>1. /\ facts'[p].booking = facts[p].booking
          /\ facts'[p].slot = facts[p].slot
          /\ facts'[p].payment = facts[p].payment
          /\ facts'[p].status = facts[p].status
      BY <2>1, <2>5, Observed
    <3>2. Account(p)'
      BY <1>1, <2>1, <3>1, Keys, KeysDiffer DEF Account
    <3> QED
      BY <2>1, <2>2, <2>5, <3>1, <3>2
  <2> QED
    BY <2>3, <2>4, <2>5
<1> QED
  BY <1>2, <1>3 DEF Answered

(* An answer that the memory has is learned, and nothing else changes. *)
LEMMA RetoldStep ==
  ASSUME BusinessAssumption, Inv, NEW k \in Key, attempt[k[1]] = k,
         outcome[k] # NoOutcome, Answered(k, outcome[k]),
         UNCHANGED <<messages, bookings, payments, calendar, outcome, performed>>,
         paid' = paid, restarts' = restarts
  PROVE  Inv'
<1>1. PICK p \in Process : p = k[1]
  BY Keys
<1>2. PICK o : o = outcome[k]
  OBVIOUS
<1>3. o.status \in {"succeeded", "conflict"} /\ Answered(k, o)
  BY <1>2 DEF Inv, PerformedOnce
<1>4. /\ \A q \in Process : Account(q)'
      /\ \A q \in Process \ {p} :
           attempt'[q] = attempt[q] /\ facts'[q] = facts[q]
      /\ \A q \in Process :
           /\ facts[q].booking # None => facts'[q].booking = facts[q].booking
           /\ facts[q].payment # None => facts'[q].payment = facts[q].payment
      /\ facts'[p].booking = facts[p].booking
           \/ (k \in BookingKey /\ o.status = "succeeded" /\ facts'[p].booking = k)
      /\ \/ attempt'[p] = k /\ facts'[p] = facts[p]
         \/ /\ attempt'[p] = None
            /\ k \in BookingKey /\ o.status = "succeeded" =>
                 facts'[p].booking = k
            /\ k \in PaymentKey /\ o.status = "succeeded" =>
                 facts'[p].payment = k
      /\ attempt' \in [Process -> Key \cup {None}] /\ DOMAIN facts' = Process
  BY <1>1, <1>3, Learned
<1>5. Tables'
  BY <1>4 DEF Inv, Tables
<1>6. ASSUME NEW l \in BookingKey
      PROVE  BookingKnown(l)'
  <2>1. l[1] \in Process /\ l # None /\ BookingKnown(l)
    BY Keys, KeysDiffer DEF Inv
  <2>2. CASE facts[l[1]].booking = l
    <3>1. facts'[l[1]].booking = l
      BY <1>4, <2>1, <2>2
    <3> QED
      BY <2>1, <3>1 DEF BookingKnown, BookingRow
  <2>3. CASE facts[l[1]].booking # l
    BY <1>1, <1>2, <1>4, <2>1, <2>3 DEF BookingKnown, BookingRow
  <2> QED
    BY <2>2, <2>3
<1>7. ASSUME NEW l \in PaymentKey
      PROVE  PaymentKnown(l)'
  <2>1. l[1] \in Process /\ l # None /\ PaymentKnown(l)
    BY Keys, KeysDiffer DEF Inv
  <2>2. CASE facts[l[1]].payment = l
    <3>1. facts'[l[1]].payment = l
      BY <1>4, <2>1, <2>2
    <3> QED
      BY <2>1, <3>1 DEF PaymentKnown
  <2>3. CASE facts[l[1]].payment # l
    BY <1>1, <1>2, <1>4, <2>1, <2>3 DEF PaymentKnown
  <2> QED
    BY <2>2, <2>3
<1>8. \A l \in Key : PerformedOnce(l)'
  BY DEF Inv, PerformedOnce
<1>9. FirstMemory'
  <2>1. ASSUME NEW q \in Process, facts'[q].booking # None, restarts = 0
        PROVE  BookingRow(facts'[q].booking) \in bookings
    <3>1. CASE facts'[q].booking = facts[q].booking
      BY <2>1, <3>1 DEF Inv, FirstMemory
    <3>2. CASE facts'[q].booking # facts[q].booking
      <4>1. q = p /\ k \in BookingKey /\ o.status = "succeeded"
            /\ facts'[q].booking = k
        BY <1>4, <3>2
      <4> QED
        BY <1>2, <4>1 DEF Inv, BookingKnown
    <3> QED
      BY <3>1, <3>2
  <2> QED
    BY <2>1 DEF Inv, FirstMemory, BookingRow
<1>10. CalendarIsPaid'
  BY DEF Inv, CalendarIsPaid
<1> QED
  BY <1>4, <1>5, <1>6, <1>7, <1>8, <1>9, <1>10 DEF Inv

(* What the adapters answer. *)
LEMMA Performs ==
  ASSUME BusinessAssumption, Inv, NEW k \in Key, attempt[k[1]] = k
  PROVE  /\ Perform(k).status \in {"succeeded", "conflict", "failed"}
         /\ Perform(k) = Failed <=> Perform(k).status = "failed"
         /\ k \in BookingKey /\ Perform(k).status = "succeeded" => ~Taken(k[3])
         /\ k \in CalendarKey /\ Perform(k).status = "succeeded" =>
              \E l \in paid : l[3] = k[3]
<1>1. Failed.status = "failed"
  BY DEF Failed
<1>2. CASE k \in BookingKey
  <2>1. Perform(k) = ProposeBooking(k[1], k[3])
    BY <1>2, Keys DEF Perform
  <2> QED
    BY <1>1, <1>2, <2>1, KeysDiffer DEF ProposeBooking, Succeeded, Conflict, Failed
<1>3. CASE k \in PaymentKey
  <2>1. Perform(k) = RequestPayment(k[1], k[3])
    BY <1>3, Keys DEF Perform
  <2> QED
    BY <1>1, <1>3, <2>1, KeysDiffer DEF RequestPayment, Succeeded, Failed
<1>4. CASE k \in CalendarKey
  <2>1. Perform(k) = CreateCalendarEvent(k[1], k[3])
    BY <1>4, Keys DEF Perform
  <2>2. ASSUME Perform(k).status = "succeeded"
        PROVE  \E l \in paid : l[3] = k[3]
    <3>1. PICK p \in Process : p = k[1]
      BY Keys
    <3>2. \/ \E l \in PaymentKey : l[3] = k[3] /\ payments[l] = "completed"
          \/ facts[p].status = "completed"
      BY <1>1, <2>1, <2>2, <3>1 DEF CreateCalendarEvent
    <3>3. CASE \E l \in PaymentKey : l[3] = k[3] /\ payments[l] = "completed"
      BY <3>3 DEF Inv, PaymentKnown
    <3>4. CASE facts[p].status = "completed"
      <4>1. facts[p].booking = k[3]
        BY <1>4, <3>1 DEF Inv, Account
      <4>2. facts[p].payment \in paid /\ facts[p].payment[3] = facts[p].booking
        BY <3>4, BusinessAssumption DEF Inv, Account, BusinessAssumption
      <4> QED
        BY <4>1, <4>2
    <3> QED
      BY <3>2, <3>3, <3>4
  <2> QED
    BY <1>1, <1>4, <2>1, <2>2, KeysDiffer DEF CreateCalendarEvent, Succeeded, Failed
<1>5. CASE k \in OtherKey
  <2>1. Perform(k) \in {Succeeded({}), FindAvailableSlots}
    BY <1>5, Keys DEF Perform
  <2> QED
    BY <1>1, <1>5, <2>1, KeysDiffer DEF FindAvailableSlots, Succeeded, Failed
<1> QED
  BY <1>2, <1>3, <1>4, <1>5, Keys

(* A key that the memory does not have is performed. *)
LEMMA PerformedStep ==
  ASSUME BusinessAssumption, Inv, NEW k \in Key, Execute(k),
         outcome[k] = NoOutcome
  PROVE  Inv'
<1>1. PICK p \in Process : p = k[1]
  BY Keys
<1>2. PICK o : o = Perform(k)
  OBVIOUS
<1>3. /\ attempt[p] = k /\ Answered(k, o)
      /\ outcome' = IF o = Failed THEN outcome ELSE [outcome EXCEPT ![k] = o]
      /\ IF o.status = "succeeded" THEN Remember(k)
         ELSE UNCHANGED <<messages, bookings, payments, calendar, performed>>
      /\ paid' = paid /\ restarts' = restarts
  BY <1>1, <1>2 DEF Execute, Known
<1>4. /\ o.status \in {"succeeded", "conflict", "failed"}
      /\ o = Failed <=> o.status = "failed"
      /\ k \in BookingKey /\ o.status = "succeeded" => ~Taken(k[3])
      /\ k \in CalendarKey /\ o.status = "succeeded" => \E l \in paid : l[3] = k[3]
  BY <1>1, <1>2, <1>3, Performs
<1>5. /\ \A q \in Process : Account(q)'
      /\ \A q \in Process \ {p} :
           attempt'[q] = attempt[q] /\ facts'[q] = facts[q]
      /\ \A q \in Process :
           /\ facts[q].booking # None => facts'[q].booking = facts[q].booking
           /\ facts[q].payment # None => facts'[q].payment = facts[q].payment
      /\ facts'[p].booking = facts[p].booking
           \/ (k \in BookingKey /\ o.status = "succeeded" /\ facts'[p].booking = k)
      /\ \/ attempt'[p] = k /\ facts'[p] = facts[p]
         \/ /\ attempt'[p] = None
            /\ k \in BookingKey /\ o.status = "succeeded" =>
                 facts'[p].booking = k
            /\ k \in PaymentKey /\ o.status = "succeeded" =>
                 facts'[p].payment = k
      /\ attempt' \in [Process -> Key \cup {None}] /\ DOMAIN facts' = Process
  BY <1>1, <1>3, <1>4, Learned
<1>6. /\ bookings' = IF o.status = "succeeded" /\ k \in BookingKey
                     THEN bookings \cup {BookingRow(k)} ELSE bookings
      /\ payments' = IF o.status = "succeeded" /\ k \in PaymentKey
                     THEN [payments EXCEPT ![k] = "pending"] ELSE payments
      /\ calendar' = IF o.status = "succeeded" /\ k \in CalendarKey
                     THEN calendar \cup {k[3]} ELSE calendar
      /\ performed' = IF o.status = "succeeded"
                      THEN [performed EXCEPT ![k] = performed[k] + 1]
                      ELSE performed
  BY <1>3 DEF Remember, BookingRow
<1>7. /\ DOMAIN outcome' = Key
      /\ outcome'[k] = IF o = Failed THEN outcome[k] ELSE o
      /\ \A l \in Key \ {k} : outcome'[l] = outcome[l]
  BY <1>3 DEF Inv, Tables
<1>8. Tables'
  <2>1. \A b \in bookings' : b.ref \in BookingKey /\ b = BookingRow(b.ref)
    BY <1>6, Rows DEF Inv, Tables
  <2>2. payments' \in [PaymentKey -> {None, "pending", "completed"}]
    BY <1>6 DEF Inv, Tables
  <2>3. calendar' \subseteq BookingKey
    BY <1>6, Keys DEF Inv, Tables
  <2>4. performed' \in [Key -> Nat]
    BY <1>6 DEF Inv, Tables
  <2> QED
    BY <1>3, <1>5, <1>7, <2>1, <2>2, <2>3, <2>4 DEF Inv, Tables, BookingRow
<1>9. NoOutcome.status = "none"
  BY DEF NoOutcome
<1>10. ASSUME NEW l \in BookingKey
       PROVE  BookingKnown(l)'
  <2>1. l[1] \in Process /\ l # None /\ BookingKnown(l) /\ l \in Key
    BY Keys, KeysDiffer DEF Inv
  <2>2. CASE l = k
    <3>1. CASE o.status = "succeeded"
      <4>1. facts[p].booking \in {None, k}
        BY <1>1, <1>3, <2>2 DEF Inv, Account
      <4> QED
        BY <1>1, <1>4, <1>5, <1>6, <1>7, <2>2, <3>1, <4>1
        DEF BookingKnown, BookingRow
    <3>2. CASE o.status # "succeeded"
      <4>1. outcome'[k].status # "succeeded" /\ bookings' = bookings
        BY <1>6, <1>7, <1>9, <3>2
      <4>2. BookingRow(k) \in bookings => facts[p].booking = k
        BY <1>1, <1>9, <2>1, <2>2 DEF BookingKnown
      <4> QED
        BY <1>1, <1>5, <2>1, <2>2, <4>1, <4>2 DEF BookingKnown, BookingRow
    <3> QED
      BY <3>1, <3>2
  <2>3. CASE l # k
    <3>1. outcome'[l] = outcome[l]
          /\ (BookingRow(l) \in bookings' <=> BookingRow(l) \in bookings)
      BY <1>6, <1>7, <2>1, <2>3, Rows
    <3>2. CASE l[1] = p
      <4>1. BookingRow(l) \in bookings => facts[p].booking = l
        BY <1>3, <2>1, <2>3, <3>2 DEF BookingKnown
      <4> QED
        BY <1>5, <2>1, <3>1, <3>2, <4>1 DEF BookingKnown, BookingRow
    <3>3. CASE l[1] # p
      BY <1>5, <2>1, <3>1, <3>3, BookingKept
    <3> QED
      BY <3>2, <3>3
  <2> QED
    BY <2>2, <2>3
<1>11. ASSUME NEW l \in PaymentKey
       PROVE  PaymentKnown(l)'
  <2>1. l[1] \in Process /\ l # None /\ PaymentKnown(l) /\ l \in Key
    BY Keys, KeysDiffer DEF Inv
  <2>2. CASE l = k
    <3>1. CASE o.status = "succeeded"
      <4>1. facts[p].payment \in {None, k}
        BY <1>1, <1>3, <2>2 DEF Inv, Account
      <4>2. payments'[k] = "pending" /\ outcome'[k] = o
        BY <1>4, <1>6, <1>7, <2>2, <3>1 DEF Inv, Tables
      <4>3. k \in paid => facts'[p].payment = k
        BY <1>1, <1>5, <2>1, <2>2 DEF PaymentKnown
      <4> QED
        BY <1>1, <1>3, <1>5, <2>2, <3>1, <4>1, <4>2, <4>3 DEF PaymentKnown
    <3>2. CASE o.status # "succeeded"
      <4>1. payments' = payments
        BY <1>6, <3>2
      <4>2. payments[k] # None => facts[p].payment = k
        BY <1>1, <1>9, <2>1, <2>2 DEF PaymentKnown
      <4> QED
        BY <1>1, <1>3, <1>5, <2>1, <2>2, <4>1, <4>2 DEF PaymentKnown
    <3> QED
      BY <3>1, <3>2
  <2>3. CASE l # k
    <3>1. outcome'[l] = outcome[l] /\ payments'[l] = payments[l]
      BY <1>6, <1>7, <2>1, <2>3 DEF Inv, Tables
    <3>2. CASE l[1] = p
      <4>1. payments[l] # None => facts[p].payment = l
        BY <1>3, <2>1, <2>3, <3>2 DEF PaymentKnown
      <4> QED
        BY <1>3, <1>5, <2>1, <3>1, <3>2, <4>1 DEF PaymentKnown
    <3>3. CASE l[1] # p
      BY <1>3, <1>5, <2>1, <3>1, <3>3, PaymentKept
    <3> QED
      BY <3>2, <3>3
  <2> QED
    BY <2>2, <2>3
<1>12. ASSUME NEW l \in Key
       PROVE  PerformedOnce(l)'
  <2>1. PerformedOnce(l) /\ performed[l] \in Nat
    BY DEF Inv, Tables
  <2>2. CASE l = k
    <3>1. performed[k] = 0
      BY <2>1, <2>2 DEF PerformedOnce
    <3>2. o.status = "succeeded" =>
            performed'[k] = 1 /\ outcome'[k] = o /\ o # NoOutcome
      BY <1>4, <1>6, <1>7, <1>9, <3>1 DEF Inv, Tables
    <3>3. o.status # "succeeded" => performed'[k] = 0
      BY <1>6, <3>1
    <3>4. outcome'[k] = NoOutcome \/ outcome'[k].status \in {"succeeded", "conflict"}
      BY <1>4, <1>7
    <3> QED
      BY <2>2, <3>2, <3>3, <3>4 DEF PerformedOnce
  <2>3. CASE l # k
    <3>1. performed'[l] = performed[l] /\ outcome'[l] = outcome[l]
      BY <1>6, <1>7, <2>3 DEF Inv, Tables
    <3> QED
      BY <2>1, <3>1 DEF PerformedOnce
  <2> QED
    BY <2>2, <2>3
<1>13. FirstMemory'
  <2>1. ASSUME NEW q \in Process, facts'[q].booking # None, restarts = 0
        PROVE  BookingRow(facts'[q].booking) \in bookings'
    <3>1. CASE facts'[q].booking = facts[q].booking
      BY <1>6, <2>1, <3>1 DEF Inv, FirstMemory
    <3>2. CASE facts'[q].booking # facts[q].booking
      BY <1>5, <1>6, <3>2
    <3> QED
      BY <3>1, <3>2
  <2>2. ASSUME NEW b \in bookings', NEW c \in bookings', b.slot = c.slot,
               restarts = 0
        PROVE  b = c
    BY <1>4, <1>6, <2>2, Rows DEF Inv, FirstMemory, Taken
  <2> QED
    BY <1>3, <2>1, <2>2 DEF FirstMemory, BookingRow
<1>14. CalendarIsPaid'
  BY <1>3, <1>4, <1>6 DEF Inv, CalendarIsPaid
<1> QED
  BY <1>5, <1>8, <1>10, <1>11, <1>12, <1>13, <1>14 DEF Inv

(* The provider confirms a booking whose answer may have been lost. *)
LEMMA ConfirmStep ==
  ASSUME BusinessAssumption, Inv, NEW b \in bookings, ConfirmBooking(b)
  PROVE  Inv'
<1>1. PICK k \in BookingKey : k = b.ref /\ b = BookingRow(k)
  BY DEF Inv, Tables
<1>2. PICK p \in Process : p = k[1]
  BY Keys
<1>3. /\ facts' = [facts EXCEPT
           ![p] = [facts[p] EXCEPT !.booking = k, !.slot = k[3]]]
      /\ attempt' = attempt /\ paid' = paid /\ restarts' = restarts
      /\ messages' = messages /\ bookings' = bookings /\ payments' = payments
      /\ calendar' = calendar /\ outcome' = outcome /\ performed' = performed
  BY <1>1, <1>2, Rows DEF ConfirmBooking, memory
<1>4. DOMAIN facts' = Process /\ \A q \in Process \ {p} : facts'[q] = facts[q]
  BY <1>3 DEF Inv, Tables
<1>5. facts'[p] = [facts[p] EXCEPT !.booking = k, !.slot = k[3]]
  BY <1>3 DEF Inv, Tables
<1>6. /\ facts'[p].booking = k /\ facts'[p].slot = k[3]
      /\ facts'[p].payment = facts[p].payment
      /\ facts'[p].status = facts[p].status
  BY <1>5
<1>7. facts[p].booking = k \/ (facts[p].booking = None /\ attempt[p] = k)
  BY <1>1, <1>2 DEF Inv, BookingKnown
<1>8. Tables'
  BY <1>3, <1>4 DEF Inv, Tables, BookingRow
<1>9. Account(p)'
  BY <1>2, <1>3, <1>6, <1>7, Keys, KeysDiffer DEF Inv, Account
<1>10. \A q \in Process \ {p} : Account(q)'
  BY <1>3, <1>4, AccountKept DEF Inv
<1>11. ASSUME NEW l \in BookingKey
       PROVE  BookingKnown(l)'
  <2>1. l[1] \in Process /\ l # None /\ BookingKnown(l)
    BY Keys, KeysDiffer DEF Inv
  <2>2. CASE l[1] = p
    <3>1. BookingRow(l) \in bookings => l = k
      BY <1>7, <2>1, <2>2, KeysDiffer DEF BookingKnown
    <3> QED
      BY <1>3, <1>6, <2>1, <2>2, <3>1 DEF BookingKnown, BookingRow
  <2>3. CASE l[1] # p
    BY <1>3, <1>4, <2>1, <2>3, BookingKept
  <2> QED
    BY <2>2, <2>3
<1>12. ASSUME NEW l \in PaymentKey
       PROVE  PaymentKnown(l)'
  <2>1. l[1] \in Process /\ PaymentKnown(l)
    BY Keys DEF Inv
  <2>2. facts'[l[1]].payment = facts[l[1]].payment
    BY <1>4, <1>6, <2>1
  <2> QED
    BY <1>3, <2>1, <2>2, PaymentKept
<1>13. \A l \in Key : PerformedOnce(l)'
  BY <1>3 DEF Inv, PerformedOnce
<1>14. FirstMemory'
  <2>1. ASSUME NEW q \in Process, facts'[q].booking # None, restarts = 0
        PROVE  BookingRow(facts'[q].booking) \in bookings
    BY <1>1, <1>4, <1>6, <2>1 DEF Inv, FirstMemory
  <2> QED
    BY <1>3, <2>1 DEF Inv, FirstMemory, BookingRow
<1>15. CalendarIsPaid'
  BY <1>3 DEF Inv, CalendarIsPaid
<1> QED
  BY <1>8, <1>9, <1>10, <1>11, <1>12, <1>13, <1>14, <1>15 DEF Inv

(* A payment is completed, perhaps before its request is answered. *)
LEMMA CompleteStep ==
  ASSUME BusinessAssumption, Inv, NEW k \in PaymentKey, CompletePayment(k)
  PROVE  Inv'
<1>1. PICK p \in Process : p = k[1]
  BY Keys
<1>2. /\ k \notin paid /\ (payments[k] # None \/ facts[p].payment = k)
      /\ paid' = paid \cup {k}
      /\ payments' = IF payments[k] = None THEN payments
                     ELSE [payments EXCEPT ![k] = "completed"]
      /\ facts' = [facts EXCEPT
           ![p] = [facts[p] EXCEPT !.payment = k, !.status = "completed"]]
      /\ bookings' = bookings /\ calendar' = calendar /\ outcome' = outcome
      /\ performed' = performed /\ attempt' = attempt /\ restarts' = restarts
  BY <1>1 DEF CompletePayment
<1>3. DOMAIN facts' = Process /\ \A q \in Process \ {p} : facts'[q] = facts[q]
  BY <1>2 DEF Inv, Tables
<1>4. facts'[p] = [facts[p] EXCEPT !.payment = k, !.status = "completed"]
  BY <1>2 DEF Inv, Tables
<1>5. /\ facts'[p].booking = facts[p].booking /\ facts'[p].slot = facts[p].slot
      /\ facts'[p].payment = k /\ facts'[p].status = "completed"
  BY <1>4
<1>6. facts[p].payment = k \/ (facts[p].payment = None /\ attempt[p] = k)
  BY <1>1, <1>2 DEF Inv, PaymentKnown
<1>7. facts[p].booking = k[3]
  BY <1>6, Keys, KeysDiffer DEF Inv, Account
<1>8. Tables'
  <2>1. payments' \in [PaymentKey -> {None, "pending", "completed"}]
    BY <1>2 DEF Inv, Tables
  <2> QED
    BY <1>2, <1>3, <2>1 DEF Inv, Tables, BookingRow
<1>9. Account(p)'
  BY <1>1, <1>2, <1>5, <1>6, <1>7, Keys, KeysDiffer DEF Inv, Account
<1>10. \A q \in Process \ {p} : Account(q)'
  BY <1>2, <1>3, AccountKept DEF Inv
<1>11. ASSUME NEW l \in BookingKey
       PROVE  BookingKnown(l)'
  <2>1. l[1] \in Process /\ BookingKnown(l)
    BY Keys DEF Inv
  <2>2. facts'[l[1]].booking = facts[l[1]].booking
    BY <1>3, <1>5, <2>1
  <2> QED
    BY <1>2, <2>1, <2>2, BookingKept
<1>12. ASSUME NEW l \in PaymentKey
       PROVE  PaymentKnown(l)'
  <2>1. l[1] \in Process /\ l # None /\ PaymentKnown(l)
    BY Keys, KeysDiffer DEF Inv
  <2>2. CASE l = k
    BY <1>1, <1>2, <1>5, <2>2 DEF PaymentKnown
  <2>3. CASE l # k
    <3>1. payments'[l] = payments[l] /\ (l \in paid' <=> l \in paid)
      BY <1>2, <2>3 DEF Inv, Tables
    <3>2. CASE l[1] = p
      <4>1. payments[l] = None /\ l \notin paid
        BY <1>6, <2>1, <2>3, <3>2, KeysDiffer DEF PaymentKnown
      <4>2. None # "completed"
        BY BusinessAssumption DEF BusinessAssumption
      <4> QED
        BY <3>1, <4>1, <4>2 DEF PaymentKnown
    <3>3. CASE l[1] # p
      BY <1>2, <1>3, <2>1, <3>1, <3>3, PaymentKept
    <3> QED
      BY <3>2, <3>3
  <2> QED
    BY <2>2, <2>3
<1>13. \A l \in Key : PerformedOnce(l)'
  BY <1>2 DEF Inv, PerformedOnce
<1>14. FirstMemory'
  <2>1. \A q \in Process : facts'[q].booking = facts[q].booking
    BY <1>3, <1>5
  <2> QED
    BY <1>2, <2>1 DEF Inv, FirstMemory, BookingRow
<1>15. CalendarIsPaid'
  BY <1>2 DEF Inv, CalendarIsPaid
<1> QED
  BY <1>8, <1>9, <1>10, <1>11, <1>12, <1>13, <1>14, <1>15 DEF Inv

(* The memory takes a completed payment, and its booking if it is lost,    *)
(* from the facts.                                                         *)
LEMMA ApplyStep ==
  ASSUME BusinessAssumption, Inv, NEW k \in PaymentKey, ApplyEvent(k)
  PROVE  Inv'
<1>1. PICK p \in Process : p = k[1]
  BY Keys
<1>2. PICK r \in BookingKey : r = k[3]
  BY Keys
<1>3. facts[p].payment = k
  BY <1>1 DEF Inv, PaymentKnown, ApplyEvent
<1>4. facts[p].booking = r /\ r[1] = p /\ facts[p].slot = r[3]
  BY <1>2, <1>3, Keys, KeysDiffer DEF Inv, Account
<1>5. /\ k \in paid
      /\ payments' = [payments EXCEPT ![k] = "completed"]
      /\ bookings' = bookings \/ bookings' = bookings \cup {BookingRow(r)}
      /\ r \in References => bookings' = bookings
      /\ calendar' = calendar /\ outcome' = outcome /\ performed' = performed
      /\ facts' = facts /\ attempt' = attempt /\ paid' = paid
      /\ restarts' = restarts
  BY <1>1, <1>2, <1>4 DEF ApplyEvent, BookingRow
<1>6. Tables'
  <2>1. payments' \in [PaymentKey -> {None, "pending", "completed"}]
    BY <1>5 DEF Inv, Tables
  <2>2. \A b \in bookings' : b.ref \in BookingKey /\ b = BookingRow(b.ref)
    BY <1>5, Rows DEF Inv, Tables
  <2> QED
    BY <1>5, <2>1, <2>2 DEF Inv, Tables, BookingRow
<1>7. \A q \in Process : Account(q)'
  BY <1>5, AccountKept DEF Inv
<1>8. ASSUME NEW l \in BookingKey
      PROVE  BookingKnown(l)'
  <2>1. BookingKnown(l)
    BY DEF Inv
  <2>2. CASE l = r
    BY <1>4, <1>5, <2>1, <2>2 DEF BookingKnown, BookingRow
  <2>3. CASE l # r
    <3>1. BookingRow(l) \in bookings' <=> BookingRow(l) \in bookings
      BY <1>5, <2>3, Rows
    <3> QED
      BY <1>5, <2>1, <3>1, BookingKept
  <2> QED
    BY <2>2, <2>3
<1>9. ASSUME NEW l \in PaymentKey
      PROVE  PaymentKnown(l)'
  <2>1. PaymentKnown(l)
    BY DEF Inv
  <2>2. CASE l = k
    BY <1>1, <1>3, <1>5, <2>2 DEF PaymentKnown
  <2>3. CASE l # k
    <3>1. payments'[l] = payments[l]
      BY <1>5, <2>3 DEF Inv, Tables
    <3> QED
      BY <1>5, <2>1, <3>1, PaymentKept
  <2> QED
    BY <2>2, <2>3
<1>10. \A l \in Key : PerformedOnce(l)'
  BY <1>5 DEF Inv, PerformedOnce
<1>11. FirstMemory'
  <2>1. restarts = 0 => r \in References
    BY <1>4, Rows, KeysDiffer DEF Inv, FirstMemory, References
  <2> QED
    BY <1>5, <2>1 DEF Inv, FirstMemory, BookingRow
<1>12. CalendarIsPaid'
  BY <1>5 DEF Inv, CalendarIsPaid
<1> QED
  BY <1>6, <1>7, <1>8, <1>9, <1>10, <1>11, <1>12 DEF Inv

(* After a restart the memory knows nothing, and the facts still agree. *)
LEMMA RestartStep ==
  ASSUME BusinessAssumption, Inv, Restart
  PROVE  Inv'
<1>1. /\ restarts' = restarts + 1 /\ bookings' = {} /\ calendar' = {}
      /\ payments' = [k \in PaymentKey |-> None]
      /\ outcome' = [k \in Key |-> NoOutcome]
      /\ performed' = [k \in Key |-> 0]
      /\ facts' = facts /\ attempt' = attempt /\ paid' = paid
  BY DEF Restart
<1>2. Tables'
  BY <1>1 DEF Inv, Tables
<1>3. \A q \in Process : Account(q)'
  BY <1>1, AccountKept DEF Inv
<1>4. \A l \in BookingKey : BookingKnown(l)'
  BY <1>1, Keys DEF BookingKnown, NoOutcome
<1>5. \A l \in PaymentKey : PaymentKnown(l)'
  BY <1>1, BusinessAssumption DEF Inv, PaymentKnown, BusinessAssumption
<1>6. \A l \in Key : PerformedOnce(l)'
  BY <1>1 DEF PerformedOnce
<1>7. FirstMemory' /\ CalendarIsPaid'
  BY <1>1 DEF Inv, Tables, FirstMemory, CalendarIsPaid
<1> QED
  BY <1>2, <1>3, <1>4, <1>5, <1>6, <1>7 DEF Inv

-----------------------------------------------------------------------------
(* The theorem. *)

(* Every step keeps the books. *)
LEMMA InvStep ==
  ASSUME BusinessAssumption, Rebook = FALSE, Inv, [Next]_vars
  PROVE  Inv'
<1>1. ASSUME NEW k \in Key, Propose(k)
      PROVE  Inv'
  BY <1>1, ProposeStep
<1>2. ASSUME NEW k \in Key, Execute(k)
      PROVE  Inv'
  <2>1. CASE outcome[k] = NoOutcome
    BY <1>2, <2>1, PerformedStep
  <2>2. CASE outcome[k] # NoOutcome
    BY <1>2, <2>2, RetoldStep DEF Execute, Known, memory
  <2> QED
    BY <2>1, <2>2
<1>3. ASSUME NEW k \in Key, Lookup(k)
      PROVE  Inv'
  BY <1>3, RetoldStep DEF Lookup, Answered, memory
<1>4. ASSUME NEW b \in bookings, ConfirmBooking(b)
      PROVE  Inv'
  BY <1>4, ConfirmStep
<1>5. ASSUME NEW k \in PaymentKey, CompletePayment(k)
      PROVE  Inv'
  BY <1>5, CompleteStep
<1>6. ASSUME NEW k \in PaymentKey, ApplyEvent(k)
      PROVE  Inv'
  BY <1>6, ApplyStep
<1>7. CASE Restart
  BY <1>7, RestartStep
<1>8. CASE UNCHANGED vars
  BY <1>8 DEF vars, memory, Inv, Tables, Account, BookingKnown, BookingRow,
              PaymentKnown, PerformedOnce, FirstMemory, CalendarIsPaid
<1> QED
  BY <1>1, <1>2, <1>3, <1>4, <1>5, <1>6, <1>7, <1>8 DEF Next

(* The invariant says what the books promise. *)
LEMMA InvImplies ==
  ASSUME BusinessAssumption, Inv
  PROVE  BooksAgree
<1>1. TypeOK
  <2>1. bookings \subseteq [ref : BookingKey, slot : Slots]
    BY Keys DEF Inv, Tables, BookingRow
  <2>2. ASSUME NEW p \in Process
        PROVE  /\ attempt[p] \in {k \in Key : k[1] = p} \cup {None}
               /\ facts[p].slot = None <=> facts[p].booking = None
               /\ facts[p].booking \in BookingKey \cup {None}
               /\ facts[p].status = None <=> facts[p].payment = None
    <3>1. Account(p)
      BY DEF Inv
    <3>2. None \notin {"pending", "completed"}
      BY BusinessAssumption DEF BusinessAssumption
    <3> QED
      BY <3>1, <3>2, KeysDiffer DEF Account
  <2> QED
    BY <2>1, <2>2 DEF TypeOK, Inv, Tables
<1>2. OneBookingPerSlot
  <2>1. SUFFICES ASSUME restarts = 0, NEW p \in Process, NEW q \in Process,
                        p # q, facts[p].booking # None
                 PROVE  facts[p].slot # facts[q].slot
    BY DEF OneBookingPerSlot
  <2>2. PICK k \in BookingKey :
          facts[p].booking = k /\ k[1] = p /\ facts[p].slot = k[3]
    BY <2>1 DEF Inv, Account
  <2>3. CASE facts[q].booking = None
    BY <2>2, <2>3, KeysDiffer DEF Inv, Account
  <2>4. CASE facts[q].booking # None
    <3>1. PICK l \in BookingKey :
            facts[q].booking = l /\ l[1] = q /\ facts[q].slot = l[3]
      BY <2>4 DEF Inv, Account
    <3>2. BookingRow(k) \in bookings /\ BookingRow(l) \in bookings
      BY <2>1, <2>2, <2>4, <3>1 DEF Inv, FirstMemory
    <3>3. k[3] = l[3] => BookingRow(k) = BookingRow(l)
      BY <2>1, <3>2, Rows DEF Inv, FirstMemory
    <3> QED
      BY <2>1, <2>2, <3>1, <3>3, Rows
  <2> QED
    BY <2>3, <2>4
<1>3. OncePerKey /\ CalendarIsPaid
  BY DEF Inv, PerformedOnce, OncePerKey
<1> QED
  BY <1>1, <1>2, <1>3 DEF BooksAgree

(* The providers keep their books, for any processes, slots and restarts:  *)
(* before a restart no slot is sold twice, in every memory a key takes     *)
(* effect at most once, and what is in the calendar is paid; provided that *)
(* a process that has a booking proposes no other.                         *)
THEOREM BooksAreKept == Rebook = FALSE => (Spec => []BooksAgree)
<1> SUFFICES ASSUME Rebook = FALSE PROVE Spec => []BooksAgree
  OBVIOUS
<1>1. Init => Inv
  BY BusinessAssumption, InvInit
<1>2. Inv /\ [Next]_vars => Inv'
  BY BusinessAssumption, InvStep
<1>3. Inv => BooksAgree
  BY BusinessAssumption, InvImplies
<1> QED
  BY <1>1, <1>2, <1>3, PTL DEF Spec
=============================================================================
