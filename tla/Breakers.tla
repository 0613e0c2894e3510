------------------------------ MODULE Breakers ------------------------------
(***************************************************************************)
(* The circuit breakers of one tenant (budgets/breakers.py).  A breaker is *)
(* an append-only history of transitions; the row with the latest          *)
(* created_at wins, and of rows of one instant the one with the greater    *)
(* random id.  Operators change breakers concurrently on API servers whose *)
(* clocks need not agree.  A check before a model call or an action reads  *)
(* the breaker for everything and then the narrower one, in two statements *)
(* of a transaction that sees what commits in between.                     *)
(***************************************************************************)
EXTENDS Naturals, FiniteSets

CONSTANTS
  Breaker,        \* the breakers: a scope and, for a capability, a target
  All,            \* the one with scope ALL
  Operator,       \* calls of trip and reset
  Check,          \* calls of open_for_model_calls, _outbound or _capability
  Narrow,         \* the narrower breaker each check reads
  MaxClock,       \* bound on what a clock shows
  MaxTransitions  \* bound on the transitions of a breaker

ASSUME BreakersAssumption ==
  /\ All \in Breaker
  /\ Narrow \in [Check -> Breaker \ {All}]
  /\ MaxClock \in Nat /\ MaxTransitions \in Nat

BreakerRow == [at : Nat, id : 0 .. 1, tripped : BOOLEAN]
Closed == [at |-> 0, id |-> 0, tripped |-> FALSE]   \* stands for no row

VARIABLES
  history,   \* the rows of each breaker
  last,      \* the transition committed last, of each breaker
  pc,        \* what each operator's transaction does next
  wants,     \* the breaker it changes and how
  found,     \* what it read as the breaker's latest row
  check,     \* the next step or the result of each check
  closed     \* which breakers were closed, at each moment of the check

breakers == <<history, last, pc, wants, found, check, closed>>

BreakersInit ==
  /\ history = [b \in Breaker |-> {}]
  /\ last = [b \in Breaker |-> FALSE]
  /\ pc = [o \in Operator |-> "idle"]
  /\ wants = [o \in Operator |-> <<All, TRUE>>]
  /\ found = [o \in Operator |-> Closed]
  /\ check = [c \in Check |-> "idle"]
  /\ closed = [c \in Check |-> {}]

(* latest *)
Latest(b) ==
  IF history[b] = {} THEN Closed
  ELSE CHOOSE r \in history[b] :
         \A s \in history[b] : s.at < r.at \/ (s.at = r.at /\ s.id <= r.id)

-----------------------------------------------------------------------------
(* trip and reset: _transition *)

(* The identity of the breaker is locked, whether or not it has a row. *)
Locked(b) == \E o \in Operator : pc[o] = "insert" /\ wants[o][1] = b

(* Mutant: the breaker's identity is not locked. *)
LockNever(o, b, tripped) ==
  /\ pc[o] = "idle"
  /\ wants' = [wants EXCEPT ![o] = <<b, tripped>>]
  /\ found' = [found EXCEPT ![o] = Latest(b)]
  /\ pc' = [pc EXCEPT ![o] = "insert"]
  /\ UNCHANGED <<history, last, check, closed>>

Lock(o, b, tripped) ==
  /\ pc[o] = "idle"
  /\ ~Locked(b)
  /\ wants' = [wants EXCEPT ![o] = <<b, tripped>>]
  /\ found' = [found EXCEPT ![o] = Latest(b)]
  /\ pc' = [pc EXCEPT ![o] = "insert"]
  /\ UNCHANGED <<history, last, check, closed>>

(* A transition to the state the breaker is in is a conflict.  Another is  *)
(* dated by the server's clock, but after the row it follows.              *)
TransitionedAt(row, now) ==
  IF row = Closed \/ row.at + 1 <= now THEN now ELSE row.at + 1

Transition(o) ==
  LET b == wants[o][1]
      tripped == wants[o][2]
  IN
  /\ pc[o] = "insert"
  /\ pc' = [pc EXCEPT ![o] = "idle"]
  /\ IF found[o].tripped = tripped
     THEN UNCHANGED <<history, last, closed>>
     ELSE /\ Cardinality(history[b]) < MaxTransitions
          /\ \E now \in 1 .. MaxClock, id \in 0 .. 1 :
               history' = [history EXCEPT ![b] = @ \cup
                 {[at |-> TransitionedAt(found[o], now), id |-> id,
                   tripped |-> tripped]}]
          /\ last' = [last EXCEPT ![b] = tripped]
          /\ closed' = [c \in Check |->
               IF check[c] = "narrow"
               THEN closed[c] \cup {{d \in Breaker : ~last'[d]}}
               ELSE closed[c]]
  /\ UNCHANGED <<wants, found, check>>

(* The connection is lost before the commit. *)
LoseConnection(o) ==
  /\ pc[o] = "insert"
  /\ pc' = [pc EXCEPT ![o] = "idle"]
  /\ UNCHANGED <<history, last, wants, found, check, closed>>

-----------------------------------------------------------------------------
(* open_for_model_calls, open_for_outbound, open_for_capability *)

ReadAll(c) ==
  /\ check[c] # "narrow"
  /\ check' = [check EXCEPT ![c] = IF Latest(All).tripped THEN "blocked"
                                   ELSE "narrow"]
  /\ closed' = [closed EXCEPT ![c] = {{b \in Breaker : ~last[b]}}]
  /\ UNCHANGED <<history, last, pc, wants, found>>

ReadNarrow(c) ==
  /\ check[c] = "narrow"
  /\ check' = [check EXCEPT ![c] = IF Latest(Narrow[c]).tripped THEN "blocked"
                                   ELSE "allowed"]
  /\ UNCHANGED <<history, last, pc, wants, found, closed>>

BreakersNext ==
  \/ \E o \in Operator :
       \/ \E b \in Breaker, tripped \in BOOLEAN : Lock(o, b, tripped)
       \/ Transition(o)
       \/ LoseConnection(o)
  \/ \E c \in Check : ReadAll(c) \/ ReadNarrow(c)

BreakersSpec == BreakersInit /\ [][BreakersNext]_breakers

-----------------------------------------------------------------------------
(* Properties *)

(* Type invariant. *)
BreakersTypeOK ==
  /\ history \in [Breaker -> SUBSET BreakerRow]
  /\ last \in [Breaker -> BOOLEAN]
  /\ pc \in [Operator -> {"idle", "insert"}]
  /\ wants \in [Operator -> Breaker \X BOOLEAN]
  /\ found \in [Operator -> BreakerRow]
  /\ check \in [Check -> {"idle", "narrow", "blocked", "allowed"}]
  /\ closed \in [Check -> SUBSET SUBSET Breaker]

(* The row that wins is the one committed last, whatever the clocks of the *)
(* servers show: a reset is never outlived by the trip it resets.          *)
LatestIsLast == \A b \in Breaker : Latest(b).tripped = last[b]

(* The audit history reads as it happened: dated in the order of commit,   *)
(* trips and resets alternate, beginning with a trip (breakers.py:220).    *)
HistoryAlternates ==
  \A b \in Breaker :
    /\ \A r, s \in history[b] : r # s => r.at # s.at
    /\ \A r \in history[b] :
         r.tripped <=> Cardinality({s \in history[b] : s.at < r.at}) % 2 = 0

(* A check that lets an action or a call pass met each of its breakers     *)
(* closed at a moment of the check (breakers.py:161).                      *)
EachClosedOnce ==
  \A c \in Check :
    check[c] = "allowed" => {All, Narrow[c]} \subseteq UNION closed[c]

(* The breakers say what the operators last said, and are obeyed: rows,    *)
(* audit and checks agree whatever the interleaving and the clocks.        *)
BreakersHold ==
  BreakersTypeOK /\ LatestIsLast /\ HistoryAlternates /\ EachClosedOnce
=============================================================================
