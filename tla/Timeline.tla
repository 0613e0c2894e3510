------------------------------ MODULE Timeline ------------------------------
(***************************************************************************)
(* The timeline of a process (api/processes.py, _load_timeline): seven     *)
(* queries of at most Limit rows each, newest first, merged into the last  *)
(* Limit items of one order.  An action is shown at the time of its turn's *)
(* decision, yet it is selected by the time it was proposed.               *)
(*                                                                         *)
(* The queries are statements of one READ COMMITTED transaction: each sees *)
(* what is committed when it runs, and others commit between them.         *)
(* Requests share nothing, so one request, at any time, stands for all.    *)
(*                                                                         *)
(* Most rows are dated by the database, with the start of the transaction  *)
(* that writes them, and are seen once that commits, so rows appear out of *)
(* order.  Attempts carry the worker's time and events the API server's:   *)
(* those clocks are at most Skew away from the database's.  A worker       *)
(* writes the rows of a turn one transaction after the other, each started *)
(* after a round trip to Temporal and so at a later time of the database;  *)
(* ingestion and operators write at any time.                              *)
(***************************************************************************)
EXTENDS Naturals, FiniteSets

CONSTANTS
  Limit,     \* timeline_limit
  Writer,    \* who writes: the worker, ingestion, operators
  Skew,      \* bound on the difference of two clocks
  LastTime,  \* bound on the time
  MaxRows    \* bound on the rows written

ASSUME TimelineAssumption ==
  /\ {Limit, LastTime, MaxRows} \subseteq Nat \ {0}
  /\ Skew \in Nat
  /\ Writer \subseteq {"worker", "ingestion", "operator"}

(* The kinds of items, in the order in which they are read. *)
Statement == <<"event", "decision", "action", "attempt", "review",
               "intervention", "control">>

Kind == {Statement[i] : i \in 1..7}

(* The kinds in the order of their names. *)
Name == [action |-> 1, attempt |-> 2, control |-> 3, decision |-> 4, event |-> 5,
         intervention |-> 6, review |-> 7]

VARIABLES
  rows,     \* the committed rows
  open,     \* the rows of each writer's open transaction
  phase,    \* where the turn of the worker is
  turn,     \* the turns begun
  time,     \* now() of the database
  step,     \* the statements of the request that have run
  seen,     \* the items they found,
  picked,   \* those that were among the newest of their kind, and
  shown     \* the answer

reading == <<step, seen, picked, shown>>
timeline == <<rows, open, phase, turn, time, step, seen, picked, shown>>

TimelineInit ==
  /\ rows = {} /\ open = [w \in Writer |-> {}]
  /\ phase = "idle" /\ turn = 0 /\ time = 0
  /\ step = 0 /\ seen = {} /\ picked = {} /\ shown = {}

Written == rows \cup UNION {open[w] : w \in Writer}

(* A row of turn t, about the action with id a (0 if about none), dated c, *)
(* and when its transaction started.  Nothing depends on the order of ids. *)
Row(k, t, a, c) ==
  [kind |-> k, id |-> Cardinality(Written) + 1, created |-> c,
   start |-> time, turn |-> t, action |-> a]

(* What another clock may say. *)
Elsewhere == {c \in 0 .. (time + Skew) : time <= c + Skew}

Actions == {r \in rows : r.kind = "action"}

-----------------------------------------------------------------------------
(* The writers. *)

Begin(w, new) ==
  /\ w \in Writer
  /\ open[w] = {}
  /\ w = "worker" => \A r \in rows : r.turn # 0 => r.start < time
  /\ Cardinality(Written) < MaxRows
  /\ open' = [open EXCEPT ![w] = new]
  /\ UNCHANGED <<rows, time, reading>>

Commit(w) ==
  /\ open[w] # {}
  /\ rows' = rows \cup open[w]
  /\ open' = [open EXCEPT ![w] = {}]
  /\ phase' = IF w # "worker" THEN phase
              ELSE IF phase = "acting" THEN "acted" ELSE "idle"
  /\ UNCHANGED <<turn, time, reading>>

(* persist_agent_actions, of a turn that proposes one action. *)
Act ==
  /\ phase = "idle"
  /\ Begin("worker", {Row("action", turn + 1, 0, time)})
  /\ turn' = turn + 1 /\ phase' = "acting"

(* persist_process_state, or record_process_intervention of a failed turn. *)
Settle ==
  /\ phase = "acted"
  /\ \/ Begin("worker", {Row("decision", turn, 0, time)})
     \/ Begin("worker", {Row("intervention", turn, 0, time)})
  /\ phase' = "settling" /\ UNCHANGED turn

(* The first transaction of execute_action, between turns; started_at is   *)
(* the worker's datetime.now().                                            *)
Attempt ==
  /\ phase = "idle"
  /\ \E a \in Actions, c \in Elsewhere :
       /\ ~\E r \in rows : r.kind = "attempt" /\ r.action = a.id
       /\ Begin("worker", {Row("attempt", a.turn, a.id, c)})
  /\ phase' = "settling" /\ UNCHANGED turn

(* An event; received_at is the API server's datetime.now(). *)
Ingest ==
  /\ \E c \in Elsewhere : Begin("ingestion", {Row("event", 0, 0, c)})
  /\ UNCHANGED <<phase, turn>>

(* A review of an action, or a control command. *)
Operate ==
  /\ \/ \E a \in Actions : Begin("operator", {Row("review", 0, a.id, time)})
     \/ Begin("operator", {Row("control", 0, 0, time)})
  /\ UNCHANGED <<phase, turn>>

TimePasses ==
  /\ time < LastTime
  /\ time' = time + 1
  /\ UNCHANGED <<rows, open, phase, turn, reading>>

-----------------------------------------------------------------------------
(* A request. *)

(* Mutant: an action is shown at the time it was proposed. *)
OccurredAtProposal(r) == r.created

(* An action is dated by its turn's decision, if that has been recorded. *)
OccurredAt(r) ==
  LET decided == {d \in rows : d.kind = "decision" /\ d.turn = r.turn}
  IN IF r.kind = "action" /\ decided # {}
     THEN (CHOOSE d \in decided : TRUE).created ELSE r.created

(* The committed rows of a kind, as they are dated now. *)
Found(k) ==
  {[row |-> r, at |-> OccurredAt(r)] : r \in {q \in rows : q.kind = k}}

(* ORDER BY created_at DESC LIMIT: ties are broken arbitrarily. *)
NewestOf(S, K) ==
  /\ Cardinality(S) = IF Cardinality(K) < Limit THEN Cardinality(K) ELSE Limit
  /\ \A x \in S, y \in K \ S : y.row.created <= x.row.created

SortKey(x) ==
  <<x.at, IF x.row.kind = "action" THEN 1 ELSE 0, Name[x.row.kind], x.row.id>>

(* The lexicographic order of two keys. *)
Less(a, b) ==
  \E i \in 1..4 : a[i] < b[i] /\ \A j \in 1..(i - 1) : a[j] = b[j]

Precedes(x, y) == Less(SortKey(x), SortKey(y))

(* sorted(items)[-limit:] *)
Last(S) == {x \in S : Cardinality({y \in S : Precedes(x, y)}) < Limit}

(* The next statement of _load_timeline, and after the last the answer. *)
LoadTimeline ==
  /\ step < 7 /\ step' = step + 1
  /\ LET K == Found(Statement[step + 1])
     IN \E S \in SUBSET K :
          /\ NewestOf(S, K)
          /\ seen' = seen \cup K
          /\ picked' = picked \cup S
  /\ shown' = IF step = 6 THEN Last(picked') ELSE {}
  /\ UNCHANGED <<rows, open, phase, turn, time>>

TimelineNext ==
  \/ Act \/ Settle \/ Attempt \/ Ingest \/ Operate \/ TimePasses
  \/ \E w \in Writer : Commit(w)
  \/ LoadTimeline

TimelineSpec == TimelineInit /\ [][TimelineNext]_timeline

-----------------------------------------------------------------------------
(* Properties. *)

(* The limit hides the oldest: nothing that a statement found and the      *)
(* answer hides is dated after an item that is shown, though every kind is *)
(* read and cut on its own and actions are cut by another time than they   *)
(* are shown at (processes.py:869-878, 1002-1010).                         *)
NewestAreShown ==
  \A x \in shown, y \in seen \ shown : y.at <= x.at

(* A decision comes before the actions of its turn, whatever commits while *)
(* the statements run, and an action before its provider attempt, also     *)
(* when both carry one time or committed in another order                  *)
(* (test_operator_api.py:354-372): the latter unless the worker's clock is *)
(* behind the database's, for then an attempt is dated too early.          *)
CauseFirst ==
  \A x, y \in shown :
    \/ /\ x.row.kind = "decision" /\ y.row.kind = "action"
       /\ x.row.turn = y.row.turn
    \/ /\ x.row.kind = "action" /\ y.row.kind = "attempt"
       /\ y.row.action = x.row.id /\ y.row.start <= y.row.created
    => Precedes(x, y)

(* An operator reads the end of the story, causes first. *)
TimelineIsFaithful == NewestAreShown /\ CauseFirst
=============================================================================
