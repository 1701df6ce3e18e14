----------------------------- MODULE SessionTime -----------------------------
(***************************************************************************)
(* The arithmetic of trusted time: skew correction and its sanity horizon, *)
(* the logical day and its seal, the interval the server recomputes for a  *)
(* session and the part of it that falls on a day.  Instants are integers  *)
(* in one unit, days are numbered from the epoch.  All operators are pure, *)
(* as the functions they translate are.                                    *)
(***************************************************************************)
EXTENDS Integers

CONSTANTS
    Day,         \* length of a day
    Offset,      \* the platform's reporting offset
    Probe,       \* the minute durOnDay adds to land inside a day
    DeadBand,    \* skew up to this is ignored
    Horizon,     \* a corrected time further from arrival is not trusted
    Grace,       \* from the end of a day to its seal
    Cap, Least   \* bounds of a session's duration

ASSUME TimeAssumption ==
    /\ Day \in Nat \ {0}
    /\ Offset \in Int
    /\ Probe \in 0 .. (Day - 1)
    /\ {DeadBand, Horizon, Grace, Cap, Least} \subseteq Nat

Larger(a, b) == IF a >= b THEN a ELSE b
Smaller(a, b) == IF a <= b THEN a ELSE b

-----------------------------------------------------------------------------
(* Logical days: the offset is a translation of the time axis.             *)

LogicalDay(t) == (t + Offset) \div Day
DayStart(t) == LogicalDay(t) * Day - Offset
DayEnd(t) == DayStart(t) + Day

Sealed(t, now) == now >= DayEnd(t) + Grace

\* Some instant of day d.
InstantOf(d) == d * Day - Offset

-----------------------------------------------------------------------------
(* A message carries the client's start, end and send times and the time   *)
(* the front door received it.                                             *)

Shift(m) ==
    LET skew == m.received - m.sent
    IN  IF skew \in -DeadBand .. DeadBand THEN 0 ELSE skew

\* correctSkew of an event time: clamped to arrival, or arrival itself when it
\* is beyond the horizon.
CorrectedTime(event, m) ==
    LET corrected == Smaller(event + Shift(m), m.received)
    IN  IF m.received - corrected > Horizon THEN m.received ELSE corrected

\* The pair is corrected together.  An end behind the moment of sending is
\* truncated; any other excess is clock offset and moves the start along.
Corrected(m) ==
    LET over == m.end + Shift(m) - m.received
        back == IF over > 0 /\ m.end <= m.sent THEN over ELSE 0
    IN  [start |-> Smaller(m.start + Shift(m) - back, m.received),
         end |-> IF over > 0 THEN m.received ELSE m.end + Shift(m)]

TrustedDuration(m) ==
    Larger(Smaller(Larger(0, Corrected(m).end - Corrected(m).start), Cap), Least)

Trusted(m) ==
    [start |-> Corrected(m).start,
     end |-> Corrected(m).start + TrustedDuration(m)]

\* The share of the interval on day d.  The bounds of d are those of the
\* logical day of a probe: d's midnight in UTC, plus the offset, plus a minute.
DurOnDay(i, d) ==
    LET probe == d * Day + Offset + Probe
    IN  Larger(0, Smaller(i.end, DayEnd(probe)) - Larger(i.start, DayStart(probe)))

StartDay(i) == LogicalDay(i.start)

\* The second day a session touches, if it has any time there.
EndDays(i) == {d \in {LogicalDay(i.end)} : d # StartDay(i) /\ DurOnDay(i, d) > 0}
=============================================================================
