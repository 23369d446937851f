------------------------------ MODULE Calendar ------------------------------
(***************************************************************************)
(* pkg/time: the difference of two moments in years, months, ... seconds.  *)
(* A moment is an instant and a zone; a zone's wall clock reads an instant *)
(* as six numbers, and may be set back: then a later instant has an        *)
(* earlier reading, or the same one.                                       *)
(***************************************************************************)
EXTENDS Integers, Sequences

CONSTANTS
    Zones,    \* time zones
    Instants, \* instants, as a count of seconds or of anything that grows
    Wall      \* the reading of an instant in a zone

IsLeap(y) == y % 4 = 0 /\ (y % 100 # 0 \/ y % 400 = 0)

\* 32 - time.Date(y, M, 32, ...).Day()
DaysIn(y, m) == CASE m = 2 -> IF IsLeap(y) THEN 29 ELSE 28
                  [] m \in {4, 6, 9, 11} -> 30
                  [] OTHER -> 31

\* What a wall clock and its calendar can show.
Reading ==
    {t \in [1..6 -> Int] :
        /\ t[1] \in Nat /\ t[2] \in 1..12 /\ t[3] \in 1..DaysIn(t[1], t[2])
        /\ t[4] \in 0..23 /\ t[5] \in 0..59 /\ t[6] \in 0..59}

ASSUME CalendarAssumption ==
    Instants \subseteq Int /\ Wall \in [Zones -> [Instants -> Reading]]

\* time.Time
Moment == [at : Instants, zone : Zones]

In(t, zone) == [t EXCEPT !.zone = zone]
After(t, u) == t.at > u.at

\* t.Date() and t.Clock()
Read(t) == Wall[t.zone][t.at]

\* Reading a is before b.
Earlier(a, b) ==
    \E i \in 1..6 : a[i] < b[i] /\ \A j \in 1..i - 1 : a[j] = b[j]

Borrow(n) == IF n < 0 THEN 1 ELSE 0
Norm(n, size) == IF n < 0 THEN n + size ELSE n

\* From reading a to reading b, number by number.
Between(a, b) ==
    LET sec == b[6] - a[6]
        min == b[5] - a[5] - Borrow(sec)
        hour == b[4] - a[4] - Borrow(min)
        day == b[3] - a[3] - Borrow(hour)
        month == b[2] - a[2] - Borrow(day)
    IN <<b[1] - a[1] - Borrow(month), Norm(month, 12), Norm(day, DaysIn(a[1], a[2])),
         Norm(hour, 24), Norm(min, 60), Norm(sec, 60)>>

\* Diff, and DiffCustom once it has parsed its first argument: both moments are read
\* in the zone of the first, from the earlier instant to the later.
Diff(p, q) ==
    LET there == In(q, p.zone)
    IN IF After(p, there) THEN Between(Read(there), Read(p)) ELSE Between(Read(p), Read(there))

\* DiffCustom: nothing for a text that is not a moment.
DiffCustom(isMoment, start, b) == IF isMoment THEN Diff(start, b) ELSE <<0, 0, 0, 0, 0, 0>>

\* The six numbers of a difference, none of them negative or over its unit.
Normal(d) ==
    /\ d[1] \in Nat /\ d[2] \in 0..11 /\ d[3] \in 0..30
    /\ d[4] \in 0..23 /\ d[5] \in 0..59 /\ d[6] \in 0..59
=============================================================================
