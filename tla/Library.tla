------------------------------- MODULE Library -------------------------------
(***************************************************************************)
(* The helper packages, called with bounded inputs: a behaviour is one     *)
(* call of a pure helper (Text, Calendar), or any number of concurrent     *)
(* calls that write files (Files).                                         *)
(***************************************************************************)
EXTENDS Text, Calendar, Files

CONSTANTS
    Slices,     \* lists for Unique
    TaxNumbers, \* texts of 15 digits, ...
    TaxTexts,   \* ... and texts to read as formatted ones
    FieldNames, \* texts for Underscore
    Numbers,    \* numbers to spell
    Personal,   \* texts to censor
    Quarters,   \* factors to censor by, in quarters
    Spans       \* moments to take the differences of: two in order, and a later one

Texts(inputs) == \A t \in inputs : t \in Seq(Range(t))

ASSUME LibraryAssumption ==
    /\ Texts(Slices) /\ Texts(TaxTexts) /\ Texts(FieldNames) /\ Texts(Personal)
    /\ \A t \in TaxNumbers : t \in Seq(Digits) /\ Len(t) <= 15
    /\ \A t \in Personal : "*" \notin Range(t)
    /\ IntLimit \in Nat /\ Thousand * Million < IntLimit
    /\ Numbers \subseteq -IntLimit .. IntLimit - 1 /\ Quarters \subseteq Int
    /\ Spans \subseteq Moment \X Moment \X Moment
    /\ \A s \in Spans : s[1].at <= s[2].at /\ s[2].at < s[3].at

Pure(f, inputs) == [fn : {f}, in : inputs]

Requested ==
    Pure("Unique", Slices) \cup Pure("Npwp", TaxNumbers) \cup Pure("ReadNpwp", TaxTexts)
    \cup Pure("Underscore", FieldNames) \cup Pure("Spell", Numbers)
    \cup Pure("Censor", Personal \X Quarters \X {0, 1}) \cup Pure("Diff", Spans)

VARIABLES
    request,  \* the helper called and its argument
    answered, \* has it returned?
    value     \* what it returned

vars == <<request, answered, value, fvars>>

NoRequest == [fn |-> "none", in |-> <<>>]

Init ==
    /\ FInit /\ answered = FALSE /\ value = <<>>
    /\ \/ request = NoRequest
       \/ request \in Requested /\ how = [c \in Callers |-> "decode"]
          /\ name = [c \in Callers |-> CHOOSE n \in Names : TRUE]

Compute ==
    LET x == request.in
    IN CASE request.fn = "Unique" ->
                [list |-> Unique(x), at |-> [e \in Range(x) |-> InArray(e, Unique(x))]]
         [] request.fn = "Npwp" -> GetNpwpNumber(DecodeNpwpNumber(x))
         [] request.fn = "ReadNpwp" ->
                [ok |-> CheckNpwpFormat(x), number |-> GetNpwpNumber(x)]
         [] request.fn = "Underscore" -> <<Underscore(x), Underscore(Underscore(x))>>
         [] request.fn = "Spell" -> SpellNumberRec(x, 0)
         [] request.fn = "Censor" ->
                [name |-> CensorName(x[1], x[2]), string |-> CensorString(x[1], x[2], x[3])]
         [] request.fn = "Diff" ->
                [diff |-> Diff(x[1], x[2]), back |-> Diff(x[2], x[1]),
                 next |-> DiffCustom(TRUE, x[1], x[3])]

Answer ==
    /\ request # NoRequest /\ ~answered
    /\ answered' = TRUE /\ value' = Compute
    /\ UNCHANGED <<request, fvars>>

WriteFiles ==
    /\ request = NoRequest
    /\ FNext
    /\ UNCHANGED <<request, answered, value>>

Next == Answer \/ WriteFiles

Spec == Init /\ [][Next]_vars
-----------------------------------------------------------------------------
(* Properties *)

Answered(f) == answered /\ request.fn = f
in == request.in

\* Unique keeps the first of each entry, in order: InArray finds an entry in the
\* result behind as many entries as came first before it.
UniqueKeepsFirst ==
    Answered("Unique") =>
        /\ DOMAIN value.at = Range(value.list)
        /\ Len(value.list) = Cardinality(Range(in))
        /\ \A i \in DOMAIN in : (\A j \in 1..i - 1 : in[j] # in[i]) =>
              value.at[in[i]] = [exists |-> TRUE,
                                 index |-> Cardinality({in[j] : j \in 1..i - 1})]

\* A formatted tax number is read back as the number it was made of.  Of any other
\* text, what is read is the characters at the places of digits: where
\* CheckNpwpFormat lets a sign pass, there is one in the number.
NpwpReadBack ==
    /\ Answered("Npwp") => value = IF Len(in) = 15 THEN in ELSE <<>>
    /\ Answered("ReadNpwp") =>
          /\ value.ok <=> value.number # <<>>
          /\ value.ok => /\ Len(value.number) = 15
                         /\ \A i \in 1..15 : value.number[i] \in Digits \cup {"+", "-"}
                         /\ value.number[9] \in Digits
                         /\ LET form == DecodeNpwpNumber(value.number)
                            IN \A i \in 1..20 : form[i] = in[i] \/ form[i] \in {".", "-"}

\* A text without its underscores.
Keep(out, ch) == IF ch = "_" THEN out ELSE Append(out, ch)
Letters(s) ==
    LET out[n \in 0..Len(s)] == IF n = 0 THEN <<>> ELSE Keep(out[n - 1], s[n]) IN out[Len(s)]

\* Underscore loses and adds no letter, whatever runs of capitals the name has,
\* and leaves alone what it has made.
UnderscoreKeepsLetters ==
    Answered("Underscore") =>
        /\ Letters(value[1]) = Letters([i \in DOMAIN in |-> ToLower(in[i])])
        /\ value[2] = value[1]

\* How one reads a spelled number: what has been said of millions and thousands,
\* of the group in hand, and the unit that waits for its place.
Unit == [w \in Range(Huruf) |-> CHOOSE i \in DOMAIN Huruf : Huruf[i] = w]
Hear(said, word) ==
    LET group == said[2] + said[3]
    IN CASE word = Gap -> said
         [] word \in DOMAIN Unit -> <<said[1], group, Unit[word]>>
         [] word = "belas" -> <<said[1], group + 10, 0>>
         [] word = "puluh" -> <<said[1], said[2] + 10 * said[3], 0>>
         [] word = "seratus" -> <<said[1], group + 100, 0>>
         [] word = "ratus" -> <<said[1], said[2] + 100 * said[3], 0>>
         [] word = "seribu" -> <<said[1] + group + Thousand, 0, 0>>
         [] word = "ribu" -> <<said[1] + Thousand * group, 0, 0>>
         [] word = "juta" -> <<said[1] + Million * group, 0, 0>>
HeardAfter(start, words) ==
    LET said[n \in 0..Len(words)] == IF n = 0 THEN start ELSE Hear(said[n - 1], words[n])
    IN said[Len(words)]
Heard(words) == LET said == HeardAfter(<<0, 0, 0>>, words) IN said[1] + said[2] + said[3]

\* A number whose absolute value is below a billion is spelled so that it is
\* understood, but for its sign.  From a billion on nothing is spelled, and the
\* smallest int, whose absolute value is no int, panics.
SpellingUnderstood ==
    Answered("Spell") =>
        LET num == IF in < 0 THEN -in ELSE in
        IN IF num < Thousand * Million THEN Heard(value) = num
           ELSE value = IF in = -IntLimit THEN Panic ELSE <<>>

\* Censoring keeps the words and their lengths, and stars the part of each word
\* the factor says, at its end or (CensorString) at its start, the first characters
\* of the text excepted.  It panics when the factor is below 0 or from 2 on (from 1 on, for long words).
CensorKeepsShape ==
    Answered("Censor") =>
        LET words == Fields(in[1])
            rest == Fields(SubSeq(in[1], in[3] + 1, Len(in[1])))
            short == Len(in[1]) < in[3] + 1
        IN IF in[2] \in 0..4
             THEN /\ \A i \in DOMAIN words :
                        /\ Len(value.name[i]) = Len(words[i])
                        /\ \A k \in DOMAIN words[i] :
                              (value.name[i][k] = "*") <=>
                                  k > Len(words[i]) - (Len(words[i]) * in[2]) \div 4
                        /\ \A k \in DOMAIN words[i] : value.name[i][k] \in {words[i][k], "*"}
                  /\ ~short =>
                        /\ Len(value.string) = 1 + Len(rest)
                        /\ value.string[1] = SubSeq(in[1], 1, in[3])
                        /\ \A i \in DOMAIN rest :
                              LET stars == (Len(rest[i]) * in[2]) \div 4
                              IN value.string[i + 1]
                                   = Stars(stars) \o SubSeq(rest[i], stars + 1, Len(rest[i]))
             ELSE words # <<>> /\ in[2] \notin 0..7 => value.name = Panic

\* Differences are what the wall clock in the first moment's zone makes of them.
\* They are normalised unless that clock was set back so far that it shows the later
\* instant as the earlier one, when the years are negative; they are nothing just
\* when it shows both alike.  In one zone their order does not matter.  While that
\* clock runs on, a later moment is a longer time away; but over the end of a month
\* that is longer than the earlier moment's, whose length is what is borrowed, up to
\* three days are lost again.
DiffOrdersMoments ==
    Answered("Diff") =>
        LET zone == in[1].zone
            a == Wall[zone][in[1].at]
            b == Wall[zone][in[2].at]
            c == Wall[zone][in[3].at]
        IN /\ IF Earlier(b, a) THEN value.diff[1] < 0 ELSE Normal(value.diff)
           /\ a = b <=> value.diff = <<0, 0, 0, 0, 0, 0>>
           /\ in[2].zone = zone => value.back = value.diff
           /\ ~Earlier(b, a) /\ Earlier(b, c) =>
                 \/ Earlier(value.diff, value.next)
                 \/ /\ b[3] > DaysIn(a[1], a[2])
                    /\ SubSeq(value.diff, 1, 2) = SubSeq(value.next, 1, 2)
                    /\ value.diff[3] - value.next[3] \in 0..3

\* Every helper returns what it is for: str.Unique and number.UniqueInt,
\* CheckNpwpFormat and GetNpwpNumber, Underscore, SpellNumberRec, CensorName and
\* CensorString, and time.Diff keep the promises above, at the boundaries where
\* their rules change.
HelpersRight ==
    /\ UniqueKeepsFirst /\ NpwpReadBack /\ UnderscoreKeepsLetters
    /\ SpellingUnderstood /\ CensorKeepsShape /\ DiffOrdersMoments
=============================================================================
