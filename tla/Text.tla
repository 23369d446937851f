-------------------------------- MODULE Text --------------------------------
(***************************************************************************)
(* The helpers of pkg/str, pkg/number and pkg/interfacepkg that compute    *)
(* something.  A text is a sequence of characters; a character stands for  *)
(* its class, so the alphabet is small.                                    *)
(***************************************************************************)
EXTENDS Integers, Sequences, Functions

CONSTANT IntLimit   \* ints run from -IntLimit to IntLimit - 1 and wrap

-----------------------------------------------------------------------------
(* Lists *)

\* str.Unique and number.UniqueInt: the list after n rounds.
Add(list, entry) == IF entry \in Range(list) THEN list ELSE Append(list, entry)
Unique(slice) ==
    LET list[n \in 0..Len(slice)] == IF n = 0 THEN <<>> ELSE Add(list[n - 1], slice[n])
    IN list[Len(slice)]

\* str.Contains and interfacepkg.Exist
Exist(slice, val) == \E i \in DOMAIN slice : slice[i] = val

\* interfacepkg.InArray; Go counts from 0.
InArray(val, slice) ==
    [exists |-> Exist(slice, val),
     index |-> IF Exist(slice, val)
                 THEN CHOOSE i \in 0..Len(slice) - 1 :
                          slice[i + 1] = val /\ \A j \in 1..i : slice[j] # val
                 ELSE -1]

-----------------------------------------------------------------------------
(* Tax numbers: 15 digits, or groups of 2, 3, 3, 1, 3, 3 with a separator *)

Digits == {"0", "1", "2", "3", "4", "5", "6", "7", "8", "9"}
Groups == <<<<1, 2>>, <<4, 6>>, <<8, 10>>, <<12, 12>>, <<14, 16>>, <<18, 20>>>>
Group(text, g) == SubSeq(text, Groups[g][1], Groups[g][2])

\* strconv.Atoi takes digits, after a sign if there are any.
Atoi(part) ==
    LET number == IF Head(part) \in {"+", "-"} THEN Tail(part) ELSE part
    IN number # <<>> /\ Range(number) \subseteq Digits

\* What is between the groups, and after the last, is not looked at.
CheckNpwpFormat(text) == Len(text) >= 20 /\ \A g \in 1..6 : Atoi(Group(text, g))

\* Which of the 15 digits is at each place of a formatted number; 0 is a separator.
Form == <<1, 2, 0, 3, 4, 5, 0, 6, 7, 8, 0, 9, 0, 10, 11, 12, 0, 13, 14, 15>>

\* "" with an error, or the groups one after the other.
GetNpwpNumber(text) ==
    IF CheckNpwpFormat(text) THEN [d \in 1..15 |-> text[CHOOSE i \in 1..20 : Form[i] = d]] ELSE <<>>

DecodeNpwpNumber(text) ==
    IF Len(text) # 15 THEN text
    ELSE [i \in 1..20 |-> IF Form[i] # 0 THEN text[Form[i]] ELSE IF i = 13 THEN "-" ELSE "."]

-----------------------------------------------------------------------------
(* Names of fields: Underscore *)

Upper == {"A", "B"}
ToLower(ch) == CASE ch = "A" -> "a" [] ch = "B" -> "b" [] OTHER -> ch

Indent(out) == IF out = <<>> THEN out ELSE Append(out, "_")

\* b.r, the capital that has not been written yet (m), and whether the run of
\* capitals it belongs to has been set off (w).
Buffer(out, m, w) == [out |-> out, m |-> m, w |-> w]
NewBuffer == Buffer(<<>>, "", FALSE)

Write(b, ch) ==
    CASE ch \in Upper /\ b.m = "" -> Buffer(b.out, ToLower(ch), b.w)
      [] ch \in Upper /\ b.m # "" ->
            Buffer(Append(IF b.w THEN b.out ELSE Indent(b.out), b.m), ToLower(ch), TRUE)
      [] ch \notin Upper /\ b.m = "" -> Buffer(Append(b.out, ch), "", b.w)
      [] ch \notin Upper /\ b.m # "" -> Buffer(Indent(b.out) \o <<b.m, ch>>, "", FALSE)

Flush(b) == IF b.m = "" THEN b.out ELSE Append(IF b.w THEN b.out ELSE Indent(b.out), b.m)

Underscore(s) ==
    LET b[n \in 0..Len(s)] == IF n = 0 THEN NewBuffer ELSE Write(b[n - 1], s[n])
    IN Flush(b[Len(s)])

-----------------------------------------------------------------------------
(* Numbers in Indonesian: SpellNumberRec *)

Gap == " "
Panic == <<"panic">>
Huruf == <<"satu", "dua", "tiga", "empat", "lima", "enam", "tujuh", "delapan",
           "sembilan", "sepuluh", "sebelas">>
Space(index) == IF index = 0 THEN <<>> ELSE <<Gap>>

Thousand == 1000
Million == 1000000

\* The numbers whose spelling has the same form, by the word it turns on.
Satuan == 1..11
Belas == 12..19
Puluh == 20..99
Seratus == 100..199
Ratus == 200..999
Seribu == Thousand..1999
Ribu == 2000..Million - 1
Juta == Million..Thousand * Million - 1

\* As a sequence of words and blanks, from the spelling of the numbers below num.
\* 0 is no word; "ribu" is the one word written without a blank before it.
Spelt(below, num, index) ==
    CASE num = 0 -> Space(index)
      [] num \in Satuan -> Space(index) \o <<Huruf[num]>>
      [] num \in Belas -> below[num - 10][index] \o <<Gap, "belas">>
      [] num \in Puluh -> below[num \div 10][index] \o <<Gap, "puluh">> \o below[num % 10][1]
      [] num \in Seratus -> Space(index) \o <<"seratus">> \o below[num - 100][1]
      [] num \in Ratus -> below[num \div 100][index] \o <<Gap, "ratus">> \o below[num % 100][1]
      [] num \in Seribu -> Space(index) \o <<"seribu">> \o below[num - Thousand][1]
      [] num \in Ribu -> below[num \div Thousand][index] \o <<"ribu">> \o below[num % Thousand][1]
      [] num \in Juta ->
            below[num \div Million][index] \o <<Gap, "juta">> \o below[num % Million][1]
      [] OTHER -> <<>>

SpellAbs(num, index) ==
    LET spell[n \in 0..num] == [i \in {0, 1} |-> Spelt(spell, n, i)] IN spell[num][index]

\* number * -1: the smallest int has no opposite.
Opposite(number) == IF number = -IntLimit THEN number ELSE -number

\* Variant: millions are not spelled.
SpellNumberSmall(number, index) ==
    LET num == IF number < 0 THEN -number ELSE number
    IN IF num < Million THEN SpellAbs(num, index) ELSE <<>>

\* huruf[num] panics where num is still negative.
SpellNumberRec(number, index) ==
    LET num == IF number < 0 THEN Opposite(number) ELSE number
    IN IF num < 0 THEN Panic ELSE SpellAbs(num, index)

-----------------------------------------------------------------------------
(* Censoring, by a factor in quarters *)

\* strings.Fields: the words in the first i characters, as sequences of what is
\* not a blank.
Extend(words, text, i) ==
    CASE text[i] = Gap -> words
      [] text[i] # Gap /\ (i = 1 \/ text[i - 1] = Gap) -> Append(words, <<text[i]>>)
      [] OTHER -> [words EXCEPT ![Len(words)] = Append(@, text[i])]
Fields(text) ==
    LET words[i \in 0..Len(text)] == IF i = 0 THEN <<>> ELSE Extend(words[i - 1], text, i)
    IN words[Len(text)]

Stars(n) == [i \in 1..n |-> "*"]
ToCensor(word, quarters) == (Len(word) * quarters) \div 4
Panics(word, quarters) == ToCensor(word, quarters) \notin 0..Len(word)

\* Stars for the first or the last n characters.
Starred(word, n, side) ==
    IF side = "start" THEN Stars(n) \o SubSeq(word, n + 1, Len(word))
    ELSE SubSeq(word, 1, Len(word) - n) \o Stars(n)

\* Slicing or repeating out of range panics: a factor above 1 or below 0, ...
CensorWords(words, quarters, side) ==
    [i \in DOMAIN words |-> Starred(words[i], ToCensor(words[i], quarters), side)]
OutOfRange(words, quarters) == \E i \in DOMAIN words : Panics(words[i], quarters)

CensorName(name, quarters) ==
    LET words == Fields(name)
    IN IF OutOfRange(words, quarters) THEN Panic ELSE CensorWords(words, quarters, "end")

\* ... or, here, fewer than no first digits.  The first digits, and the words after
\* them, joined with blanks; CensorPhoneFormat adds a plus and dashes.
CensorString(name, quarters, firstDigit) ==
    LET words == Fields(SubSeq(name, firstDigit + 1, Len(name)))
    IN IF Len(name) < firstDigit + 1 THEN <<name>>
       ELSE IF OutOfRange(words, quarters) THEN Panic
       ELSE <<SubSeq(name, 1, firstDigit)>> \o CensorWords(words, quarters, "start")
=============================================================================
