------------------------------ MODULE Schedule -------------------------------
(***************************************************************************)
(* internal/core/schedule: a schedule is a set of windows, each of one     *)
(* kind: "once", "recurring", with the times an RRULE gives it, or         *)
(* "unreadable" (no opening time or no rule that can be parsed).  Time and *)
(* durations are integers; Day is 24 hours.                                *)
(***************************************************************************)
EXTENDS Integers

CONSTANTS
  Day,
  Unparsed      \* a text that is no duration to parseISODuration

ASSUME DayAssumption      == Day \in Int /\ Day > 0
ASSUME UnparsedAssumption == Unparsed \notin Int

Once(start, dur)      == [kind |-> "once", start |-> start, dur |-> dur]
Recurring(times, dur) == [kind |-> "recurring", times |-> times, dur |-> dur]
Unreadable            == [kind |-> "unreadable"]

\* Days, hours, minutes and seconds have a length; any other text has none,
\* weeks and fractions among them, and counts as no duration.
ParseISODuration(text) == IF text = Unparsed THEN 0 ELSE text

\* within: a window without a duration stays open.
Within(t, start, dur) == t >= start /\ (dur <= 0 \/ t < start + dur)

\* A recurring window without one is open for a day.
RecurringFor(dur) == IF dur <= 0 THEN Day ELSE dur

\* rr.Between, both ends included.
Between(times, from, to) == {occ \in times : from <= occ /\ occ <= to}

WindowOpen(w, t) ==
  \/ /\ w.kind = "once"
     /\ Within(t, w.start, ParseISODuration(w.dur))
  \/ /\ w.kind = "recurring"
     /\ LET dur == RecurringFor(ParseISODuration(w.dur))
        IN  \E occ \in Between(w.times, t - dur, t) : Within(t, occ, dur)

\* OpenAt: without windows always.
OpenAt(sched, t) == sched = {} \/ \E w \in sched : WindowOpen(w, t)

=============================================================================
