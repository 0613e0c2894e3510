----------------------------- MODULE QuietHours -----------------------------
(***************************************************************************)
(* Daily quiet hours in a time zone whose offset changes once              *)
(* (communications/policy.py: _quiet_hours_end, _resolve_local_boundary),  *)
(* as Communications evaluates them while time goes by.                    *)
(*                                                                         *)
(* Instants are integers, in units that divide a day into Day parts.  The  *)
(* zone shows instant + offset, with one offset before the change and      *)
(* another from it on.  A local time that the change skips or repeats is   *)
(* resolved with the offset before it for fold 0 and after it for fold 1.  *)
(***************************************************************************)
EXTENDS Integers

CONSTANTS
  Day,      \* the length of a day
  Change,   \* the instant at which the offset changes
  Offset,   \* the offsets a zone may have
  MaxShift, \* the most an offset changes by, at most a day
  NoQuietHours

ASSUME QuietHoursAssumption ==
  /\ Day \in Nat \ {0, 1} /\ Change \in Nat
  /\ Offset \subseteq Int /\ MaxShift \in 0 .. Day

VARIABLES
  now,     \* the instant of evaluation
  quiet,   \* DailyQuietHours, if any: start_local and end_local
  before,  \* the offset of the zone before the change
  after    \* and from it on

zone == <<quiet, before, after>>

(* DailyQuietHours.validate_interval *)
Configurations ==
  {q \in [start : 0 .. (Day - 1), end : 0 .. (Day - 1)] : q.start # q.end}

QuietInit ==
  /\ quiet \in Configurations \cup {NoQuietHours}
  /\ before \in Offset
  /\ after \in {o \in Offset : o - before <= MaxShift /\ before - o <= MaxShift}

(* ZoneInfo: what the clock of the zone shows *)
Local(u) == u + (IF u < Change THEN before ELSE after)
Date(u) == Local(u) \div Day

AtLeast(x, y) == IF x >= y THEN x ELSE y
AtMost(x, y) == IF x <= y THEN x ELSE y

(* ZoneInfo: the offset of a local time, 0 or 1 being the fold *)
OffsetOf(v, fold) ==
  IF v < AtMost(Change + before, Change + after) THEN before
  ELSE IF v >= AtLeast(Change + before, Change + after) THEN after
  ELSE IF fold = 0 THEN before ELSE after

(* Mutant: the first reading of an ambiguous time is always taken. *)
ResolveFold(v, earliest) == v - OffsetOf(v, 0)

(* _resolve_local_boundary *)
Resolve(v, earliest) ==
  LET first == v - OffsetOf(v, 0)
      second == v - OffsetOf(v, 1)
  IN IF earliest THEN AtMost(first, second) ELSE AtLeast(first, second)

Never == -(10 * Day)

(* _quiet_hours_end: the period that began yesterday, or the one of today *)
Overnight == quiet.start > quiet.end
StartOf(date) == Resolve(date * Day + quiet.start, TRUE)
EndOf(date) ==
  Resolve((date + (IF Overnight THEN 1 ELSE 0)) * Day + quiet.end, FALSE)

Covers(date, u) == StartOf(date) <= u /\ u < EndOf(date)

QuietHoursEnd(u) ==
  IF quiet = NoQuietHours THEN Never
  ELSE IF Covers(Date(u) - 1, u) THEN EndOf(Date(u) - 1)
  ELSE IF Covers(Date(u), u) THEN EndOf(Date(u))
  ELSE Never

-----------------------------------------------------------------------------
(* Properties *)

(* The reference: does the clock of the zone show a time in quiet hours,   *)
(* the start included and the end not?                                     *)
ClockIsQuiet(u) ==
  LET t == Local(u) % Day
  IN IF quiet = NoQuietHours THEN FALSE
     ELSE IF quiet.start < quiet.end THEN quiet.start <= t /\ t < quiet.end
     ELSE quiet.start <= t \/ t < quiet.end

Shift == AtLeast(before - after, after - before)

(* Nothing is sent while the clock shows quiet hours, the hours that are   *)
(* skipped or repeated included; away from the change nothing else is      *)
(* blocked (policy.py:272: conservatively).                                *)
QuietByTheClock ==
  /\ ClockIsQuiet(now) => QuietHoursEnd(now) # Never
  /\ QuietHoursEnd(now) # Never /\ ~ClockIsQuiet(now) =>
       Change - Shift <= now /\ now < Change + Shift

(* Until the end it announces every evaluation blocks, and then none does, *)
(* where the change does not set the clock back to the day before and the  *)
(* free hours are longer than the shift (policy.py:192: "active until").   *)
EndIsKept ==
  LET end == QuietHoursEnd(now)
      length == (quiet.end - quiet.start) % Day
  IN end # Never /\ Date(Change - 1) <= Date(Change) =>
       /\ \A u \in now .. (end - 1) : QuietHoursEnd(u) # Never
       /\ Day - length > Shift => QuietHoursEnd(end) = Never
=============================================================================
