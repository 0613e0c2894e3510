---------------------------- MODULE MCIngestion ----------------------------
(* A model-checking instance of Ingestion: what is sent to the API. *)
EXTENDS Ingestion, TLC

CONSTANTS
  r1, r2, r3, r4, r5, r6, r7, r8, r9, c1, c2, c3, a1, p1, p2, p3, p4,
  k1, k2, k3, k4, k5, i1, i2, d1, d2

Event(k, refs, p, trigger, api) ==
  [key |-> k, references |-> refs, process |-> p, trigger |-> trigger,
   reserved |-> FALSE, api |-> api]

Resolving(i, r, p, bind) ==
  [id |-> i, event |-> r, process |-> p, bind |-> bind, api |-> d1]

(* r1 and r2 are triggers that share references; r3 shares one with each,  *)
(* r4 names a process.  r5 and r6 repeat the source identity of r1 with    *)
(* other content, r6 naming a process that does not exist.  r7 comes from  *)
(* the API of another deployment; r8 is a trigger without a reference, r9  *)
(* an event that only the kernel may send.                                 *)
MCContent ==
  r1 :> Event(k1, {1, 2}, NoOne, TRUE, d1) @@
  r2 :> Event(k2, {2, 3}, NoOne, TRUE, d1) @@
  r3 :> Event(k3, {1, 3}, NoOne, FALSE, d1) @@
  r4 :> Event(k4, {3}, p1, FALSE, d1) @@
  r5 :> Event(k1, {3}, NoOne, TRUE, d1) @@
  r6 :> Event(k1, {1}, p3, TRUE, d1) @@
  r7 :> Event(k5, {1}, NoOne, TRUE, d2) @@
  r8 :> Event(k4, {}, NoOne, TRUE, d1) @@
  r9 :> [Event(k5, {}, NoOne, FALSE, d1) EXCEPT !.reserved = TRUE]

(* Two commands for one event, and another use of the first one's id. *)
MCResolution ==
  c1 :> Resolving(i1, r3, p1, {1}) @@
  c2 :> Resolving(i2, r3, p2, {1, 3}) @@
  c3 :> Resolving(i1, r3, p1, {})

MCTarget == a1 :> d2

(* A behaviour is about one of these: triggers that race for references;   *)
(* commands that race for a quarantined event; a command id used twice;    *)
(* triggers while the tenant moves; a source event sent twice, and events  *)
(* that are refused.                                                       *)
Scripts ==
  {[txns |-> <<r1, r2, r3>>, live |-> {}, switch |-> TRUE],
   [txns |-> <<r3, r4, c1, c2>>, live |-> {p1, p2}, switch |-> FALSE],
   [txns |-> <<r3, r4, c1, c3>>, live |-> {p1}, switch |-> TRUE],
   [txns |-> <<r1, r5, r7, a1>>, live |-> {}, switch |-> TRUE],
   [txns |-> <<r1, r6, r8, r9>>, live |-> {}, switch |-> TRUE]}

VARIABLE script

Sent == {script.txns[n] : n \in DOMAIN script.txns}

MCInit ==
  /\ Init
  /\ script \in Scripts
  /\ \A p \in Existing : status[p] = "active" <=> p \in script.live

MCNext ==
  /\ \/ \E r \in Request \cap Sent : Ingest(r) \/ Publish(r)
     \/ \E c \in Command \cap Sent : Resolve(c)
     \/ \E a \in Assigner \cap Sent : Assign(a)
     \/ \E t \in Sent : Disconnect(t)
     \/ \E p \in Process : CompleteProcess(p)
     \/ script.switch /\ SwitchTenant
  /\ UNCHANGED script

MCSpec == MCInit /\ [][MCNext]_<<vars, script>>
=============================================================================
