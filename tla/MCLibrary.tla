------------------------------ MODULE MCLibrary ------------------------------
(* Instances of Library: short texts over every class of character, numbers   *)
(* at the boundaries of their spelling, and the ends of months.               *)
EXTENDS Library, TLC

CONSTANTS c1, c2, c3

Over(alphabet, n) == UNION {[1..k -> alphabet] : k \in 0..n}

MCSlices == Over({"x", "y", "z"}, 4)
MCFieldNames == Over({"a", "A", "B", "_"}, 5)
MCPersonal == Over({"a", " "}, 5)

MCQuarters == {-1, 0, 1, 2, 3, 4, 8}

Numeral == <<"0", "1", "2", "3", "4", "5", "6", "7", "8", "9">>
MCTaxNumber == [i \in 1..15 |-> Numeral[1 + (i % 10)]]
MCTaxNumbers == {MCTaxNumber, [i \in 1..15 |-> Numeral[1 + ((i * 7) % 10)]], <<"1", "2">>}
MCTaxText == DecodeNpwpNumber(MCTaxNumber)
MCTaxTexts ==
    {[MCTaxText EXCEPT ![i] = ch] : i \in 1..20, ch \in {"7", "+", "-", "."}}
    \cup {SubSeq(MCTaxText, 1, 19), MCTaxText \o <<"+">>}

MCNumbers ==
    0..21 \cup 99..112 \cup 199..202 \cup 999..1002 \cup {-7, 1100, 1999, 2000, 2012,
    9999, 10000, 11000, 12000, 20000, 21000, 99999, 100000, 101000, 111111, 234567, 999999,
    1000000, 1001000, 1234567, 20000001, 111011012, 999999999, 1000000000, -1000000, 1 - 1073741824,
    -1073741824}

\* Ends of months around a leap day and a year's end, at three times of the day, in
\* UTC; before the last of them the two hours New York reads alike, 01:10 and 01:50
\* first in summer and then in winter time, and what comes after.
MCDays == <<<<2019, 12, 30>>, <<2019, 12, 31>>, <<2020, 1, 1>>, <<2020, 1, 29>>,
            <<2020, 1, 30>>, <<2020, 1, 31>>, <<2020, 2, 1>>, <<2020, 2, 28>>,
            <<2020, 2, 29>>, <<2020, 3, 1>>, <<2020, 3, 30>>, <<2020, 3, 31>>,
            <<2020, 4, 1>>, <<2020, 4, 30>>, <<2020, 12, 31>>, <<2021, 2, 28>>, <<2021, 3, 1>>>>
MCTimes == <<<<0, 0, 0>>, <<11, 59, 30>>, <<23, 0, 59>>>>
MCReadings == [i \in 1..51 |-> MCDays[(i + 2) \div 3] \o MCTimes[((i - 1) % 3) + 1]]
MCChange == <<<<2020, 11, 1, 5, 10, 0>>, <<2020, 11, 1, 5, 50, 0>>, <<2020, 11, 1, 6, 10, 0>>,
              <<2020, 11, 1, 6, 50, 0>>, <<2020, 11, 1, 7, 10, 0>>>>
MCInUTC == SubSeq(MCReadings, 1, 42) \o MCChange \o SubSeq(MCReadings, 43, 51)

\* New York is five hours behind, in summer four.
DayBefore(t) ==
    CASE t[3] > 1 -> <<t[1], t[2], t[3] - 1>>
      [] t[3] = 1 /\ t[2] > 1 -> <<t[1], t[2] - 1, DaysIn(t[1], t[2] - 1)>>
      [] OTHER -> <<t[1] - 1, 12, 31>>
Behind(t, hours) ==
    IF t[4] >= hours THEN [t EXCEPT ![4] = @ - hours]
    ELSE DayBefore(t) \o <<t[4] + 24 - hours, t[5], t[6]>>
Summer(t) == Earlier(<<2020, 3, 8, 6, 59, 59>>, t) /\ Earlier(t, <<2020, 11, 1, 6, 0, 0>>)

MCInstants == 1..56
MCWall == [zone \in {"UTC", "New York"} |->
              [i \in MCInstants |->
                  IF zone = "UTC" THEN MCInUTC[i]
                  ELSE Behind(MCInUTC[i], IF Summer(MCInUTC[i]) THEN 4 ELSE 5)]]
Time(i, zone) == [at |-> i, zone |-> zone]
MCSpans == UNION {{<<Time(i, z), Time(j, y), Time(j + 1, z)>> : i \in 1..j, y \in DOMAIN MCWall}
                  : j \in 1..55, z \in DOMAIN MCWall}

MCTypeOf == c1 :> "image/png" @@ c2 :> "image/gif" @@ c3 :> "text/html"
=============================================================================
