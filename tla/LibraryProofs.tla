---------------------------- MODULE LibraryProofs ----------------------------
(***************************************************************************)
(* What the helpers return, for every argument: a helper's loop is a       *)
(* function of the rounds it has gone through, and what holds of the first *)
(* round and is kept by the next holds of all, because the rounds where it *)
(* fails would have a least one.  Then what DownloadImage and DecodeBase64 *)
(* leave behind, for any number of calls with any names, wherever they     *)
(* fail and however they interleave.                                       *)
(***************************************************************************)
EXTENDS Library, FiniteSetTheorems, SequenceTheorems, WellFoundedInduction, TLAPS

-----------------------------------------------------------------------------
(* Rounds of a loop *)

\* A set of numbers has a least one.
LEMMA Least ==
    ASSUME NEW T \in SUBSET Nat, T # {} PROVE \E m \in T : \A k \in T : m <= k
<1>1. PICK m \in T : \A k \in T : ~(<<k, m>> \in OpToRel(<, Nat))
  BY NatLessThanWellFounded, WFMin
<1>2. ASSUME NEW k \in T PROVE m <= k
  <2>1. <<k, m>> \in Nat \X Nat /\ k \in Nat /\ m \in Nat
    OBVIOUS
  <2>2. <<k, m>>[1] = k /\ <<k, m>>[2] = m
    OBVIOUS
  <2>3. ~(<<k, m>>[1] < <<k, m>>[2])
    BY <1>1, <1>2, <2>1 DEF OpToRel
  <2> QED  BY <2>1, <2>2, <2>3
<1> QED
  BY <1>2

\* Induction up to a number, with the set of the numbers that are shown.
LEMMA UpTo ==
    ASSUME NEW len \in Nat, NEW T, 0 \in T,
           \A n \in 1..len : n - 1 \in T => n \in T
    PROVE  \A n \in 0..len : n \in T
<1> DEFINE Bad == {n \in 0..len : n \notin T}
<1> SUFFICES ASSUME Bad # {} PROVE FALSE
  OBVIOUS
<1>1. Bad \in SUBSET Nat
  OBVIOUS
<1>2. PICK m \in Bad : \A k \in Bad : m <= k
  <2> HIDE DEF Bad
  <2> QED  BY <1>1, Least
<1>3. m \in 1..len /\ m - 1 \in 0..len /\ m - 1 \notin Bad
  BY <1>2
<1> QED
  BY <1>3

\* A loop of so many rounds over states in S, each of which steps from one to the next.
Loop(S, init, rounds, step) ==
    init \in S /\ rounds \in Nat /\ step \in [1..rounds -> [S -> S]]

\* The states it goes through.
Runs(S, init, rounds, step, f) ==
    /\ f \in [0..rounds -> S] /\ f[0] = init
    /\ \A n \in 1..rounds : f[n] = step[n][f[n - 1]]

\* Every loop runs.
LEMMA LoopRuns ==
    ASSUME NEW S, NEW init, NEW rounds, NEW step, Loop(S, init, rounds, step)
    PROVE  \E f : Runs(S, init, rounds, step, f)
<1> USE DEF Loop
<1> DEFINE To(f, k) ==
              f \in [0..k -> S] /\ f[0] = init /\ \A n \in 1..k : f[n] = step[n][f[n - 1]]
           T == {k \in 0..rounds : \E f : To(f, k)}
<1>1. 0 \in T
  <2> DEFINE g == [n \in 0..0 |-> init]
  <2>1. To(g, 0)
    OBVIOUS
  <2> HIDE DEF To, g
  <2> QED  BY <2>1
<1>2. ASSUME NEW n \in 1..rounds, n - 1 \in T PROVE n \in T
  <2>1. PICK f : To(f, n - 1)
    <3> HIDE DEF To
    <3> QED  BY <1>2
  <2> DEFINE g == [i \in 0..n |-> IF i = n THEN step[n][f[n - 1]] ELSE f[i]]
  <2>2. g \in [0..n -> S]
    BY <2>1
  <2>3. \A i \in 0..n - 1 : g[i] = f[i]
    OBVIOUS
  <2>4. g[n] = step[n][g[n - 1]]
    BY <2>1
  <2>5. ASSUME NEW i \in 1..n - 1 PROVE g[i] = step[i][g[i - 1]]
    <3>1. i - 1 \in 0..n - 1 /\ i \in 0..n - 1
      OBVIOUS
    <3> HIDE DEF g
    <3> QED  BY <2>1, <2>3, <3>1
  <2>6. To(g, n)
    <3>1. g[0] = init
      BY <2>1
    <3>2. \A i \in 1..n : i \in 1..n - 1 \/ i = n
      OBVIOUS
    <3> HIDE DEF g
    <3> QED  BY <2>2, <2>4, <2>5, <3>1, <3>2
  <2> HIDE DEF To, g
  <2> QED  BY <2>6
<1>3. rounds \in T
  <2> HIDE DEF T
  <2>1. \A n \in 1..rounds : n - 1 \in T => n \in T
    BY <1>2
  <2>2. \A n \in 0..rounds : n \in T
    BY <1>1, <2>1, UpTo
  <2> QED  BY <2>2
<1>4. PICK f : To(f, rounds)
  BY <1>3
<1> QED
  BY <1>4, Zenon DEF Runs

\* What holds of the state before a loop and survives a round holds after it.
LEMMA LoopKeeps ==
    ASSUME NEW S, NEW rounds \in Nat, NEW f, f[0] \in S,
           \A n \in 1..rounds : f[n - 1] \in S => f[n] \in S
    PROVE  \A n \in 0..rounds : f[n] \in S
<1> DEFINE T == {n \in 0..rounds : f[n] \in S}
<1>1. 0 \in T
  OBVIOUS
<1>2. ASSUME NEW n \in 1..rounds, n - 1 \in T PROVE n \in T
  BY <1>2
<1>3. \A n \in 0..rounds : n \in T
  <2> HIDE DEF T
  <2> QED  BY <1>1, <1>2, UpTo
<1> QED
  BY <1>3

-----------------------------------------------------------------------------
(* Unique *)

\* The list of Unique, round by round.
LEMMA UniqueRounds ==
    ASSUME NEW E, NEW s \in Seq(E)
    PROVE  \E f \in [0..Len(s) -> Seq(E)] :
              /\ f[0] = <<>>
              /\ \A n \in 1..Len(s) : f[n] = Add(f[n - 1], s[n])
              /\ Unique(s) = f[Len(s)]
<1> DEFINE len == Len(s)
           S == Seq(E)
           step == [n \in 1..len |-> [x \in S |-> Add(x, s[n])]]
           Eq(f) == f = [n \in 0..len |-> IF n = 0 THEN <<>> ELSE Add(f[n - 1], s[n])]
           h == CHOOSE f : Eq(f)
<1>1. Unique(s) = h[len]
  BY DEF Unique
<1>2. len \in Nat /\ <<>> \in S /\ \A n \in 1..len : \A x \in S : Add(x, s[n]) \in S
  <2>1. len \in Nat /\ \A n \in 1..len : s[n] \in E
    OBVIOUS
  <2>2. \A x \in S, e \in E : Add(x, e) \in S
    BY DEF Add
  <2> HIDE DEF len, S
  <2> QED  BY <2>1, <2>2, EmptySeq DEF S
<1> HIDE DEF len, S
<1>3. Loop(S, <<>>, len, step)
  BY <1>2 DEF Loop
<1>4. PICK g : Runs(S, <<>>, len, step, g)
  <2> HIDE DEF step
  <2> QED  BY <1>3, LoopRuns
<1>5. \A n \in 1..len : g[n] = Add(g[n - 1], s[n])
  <2> TAKE n \in 1..len
  <2>1. g[n - 1] \in S
    BY <1>2, <1>4 DEF Runs
  <2> QED  BY <1>4, <2>1 DEF Runs
<1>6. Eq(g)
  <2>1. \A n \in 0..len : g[n] = IF n = 0 THEN <<>> ELSE Add(g[n - 1], s[n])
    BY <1>2, <1>4, <1>5 DEF Runs
  <2> QED  BY <1>4, <2>1 DEF Runs
<1>7. Eq(h)
  <2> HIDE DEF Eq
  <2> QED  BY <1>6
<1> HIDE DEF h
<1>8. h[0] = <<>> /\ \A n \in 1..len : h[n] = Add(h[n - 1], s[n])
  <2>1. \A n \in 0..len : h[n] = IF n = 0 THEN <<>> ELSE Add(h[n - 1], s[n])
    BY <1>7, Zenon
  <2>2. 0 \in 0..len /\ \A n \in 1..len : n \in 0..len /\ n # 0
    BY <1>2
  <2> QED  BY <2>1, <2>2, Zenon
<1>9. \A n \in 0..len : h[n] \in S
  <2>1. \A n \in 1..len : h[n - 1] \in S => h[n] \in S
    BY <1>2, <1>8
  <2> QED  BY <1>2, <1>8, <2>1, LoopKeeps
<1>10. h \in [0..len -> S]
  BY <1>7, <1>9
<1> QED
  BY <1>1, <1>8, <1>10 DEF len, S

\* The entries of the first n places.
First(s, n) == {s[j] : j \in 1..n}

\* The rounds of Unique: the list holds each entry seen once, and only grows.
Listed(s, f, n) ==
    /\ Range(f[n]) = First(s, n)
    /\ IsFiniteSet(First(s, n)) /\ Cardinality(First(s, n)) = Len(f[n])
    /\ \A i, k \in 1..Len(f[n]) : f[n][i] = f[n][k] => i = k
    /\ \A m \in 0..n : /\ Len(f[m]) <= Len(f[n])
                       /\ \A k \in 1..Len(f[m]) : f[n][k] = f[m][k]

\* A round adds the entry it is about, behind what there is, unless it is there.
LEMMA AddGrows ==
    ASSUME NEW E, NEW list \in Seq(E), NEW e \in E
    PROVE  /\ Range(Add(list, e)) = Range(list) \cup {e}
           /\ e \in Range(list) => Add(list, e) = list
           /\ e \notin Range(list) =>
                 /\ Len(Add(list, e)) = Len(list) + 1
                 /\ Add(list, e)[Len(list) + 1] = e
                 /\ \A k \in 1..Len(list) : Add(list, e)[k] = list[k]
<1>1. CASE e \in Range(list)
  BY <1>1 DEF Add
<1>2. CASE e \notin Range(list)
  <2>1. Add(list, e) = Append(list, e)
    BY <1>2 DEF Add
  <2>2. /\ Append(list, e) \in Seq(E) /\ Len(Append(list, e)) = Len(list) + 1
        /\ Append(list, e)[Len(list) + 1] = e
        /\ \A k \in 1..Len(list) : Append(list, e)[k] = list[k]
    BY AppendProperties
  <2>3. /\ Range(list) = {list[i] : i \in 1..Len(list)}
        /\ Range(Append(list, e)) = {Append(list, e)[i] : i \in 1..Len(list) + 1}
    BY <2>2, RangeEquality
  <2>4. Len(list) \in Nat
    OBVIOUS
  <2>5. Range(Append(list, e)) = Range(list) \cup {e}
    BY <2>2, <2>3, <2>4
  <2> QED  BY <1>2, <2>1, <2>2, <2>5
<1> QED
  BY <1>1, <1>2

\* Every round keeps it so.
LEMMA UniqueRound ==
    ASSUME NEW E, NEW s \in Seq(E), NEW f \in [0..Len(s) -> Seq(E)], NEW n \in 1..Len(s),
           f[n] = Add(f[n - 1], s[n]), Listed(s, f, n - 1)
    PROVE  Listed(s, f, n)
<1> DEFINE x == f[n - 1]
           y == f[n]
           e == s[n]
<1>1. x \in Seq(E) /\ y \in Seq(E) /\ e \in E /\ y = Add(x, e) /\ n \in Nat \ {0} /\ n - 1 \in Nat
  OBVIOUS
<1>2. First(s, n) = First(s, n - 1) \cup {e}
  <2>1. \A j : j \in 1..n <=> j \in 1..n - 1 \/ j = n
    BY <1>1
  <2> QED  BY <2>1 DEF First
<1>3. /\ Range(x) = First(s, n - 1)
      /\ IsFiniteSet(First(s, n - 1)) /\ Cardinality(First(s, n - 1)) = Len(x)
      /\ \A i, k \in 1..Len(x) : x[i] = x[k] => i = k
      /\ \A m \in 0..n - 1 : Len(f[m]) <= Len(x) /\ \A k \in 1..Len(f[m]) : x[k] = f[m][k]
  BY DEF Listed
<1>4. \A m \in 0..n : (m \in 0..n - 1 \/ m = n) /\ f[m] \in Seq(E) /\ Len(f[m]) \in Nat
  BY <1>1
<1> HIDE DEF x, y, e
<1>5. CASE e \in Range(x)
  <2>1. y = x
    BY <1>1, <1>5, AddGrows
  <2>2. First(s, n) = First(s, n - 1)
    BY <1>2, <1>3, <1>5
  <2>3. \A m \in 0..n : Len(f[m]) <= Len(y) /\ \A k \in 1..Len(f[m]) : y[k] = f[m][k]
    BY <1>3, <1>4, <2>1 DEF x, y
  <2>4. /\ Range(y) = First(s, n)
        /\ IsFiniteSet(First(s, n)) /\ Cardinality(First(s, n)) = Len(y)
        /\ \A i, k \in 1..Len(y) : y[i] = y[k] => i = k
    BY <1>3, <2>1, <2>2, Zenon
  <2> QED
    BY <2>3, <2>4, Zenon DEF Listed, y
<1>6. CASE e \notin Range(x)
  <2>1. /\ Range(y) = Range(x) \cup {e} /\ Len(y) = Len(x) + 1 /\ y[Len(x) + 1] = e
        /\ \A k \in 1..Len(x) : y[k] = x[k]
    <3>1. /\ Range(Add(x, e)) = Range(x) \cup {e}
          /\ Len(Add(x, e)) = Len(x) + 1 /\ Add(x, e)[Len(x) + 1] = e
          /\ \A k \in 1..Len(x) : Add(x, e)[k] = x[k]
      BY <1>1, <1>6, AddGrows
    <3> QED  BY <1>1, <3>1, Zenon
  <2>2. /\ IsFiniteSet(First(s, n)) /\ Cardinality(First(s, n)) = Len(y)
    <3>1. e \notin First(s, n - 1)
      BY <1>3, <1>6
    <3>2. /\ IsFiniteSet(First(s, n - 1) \cup {e})
          /\ Cardinality(First(s, n - 1) \cup {e}) = Cardinality(First(s, n - 1)) + 1
      BY <1>3, <3>1, FS_AddElement, Zenon
    <3> QED  BY <1>2, <1>3, <2>1, <3>2, Zenon
  <2>3. Len(x) \in Nat /\ \A i \in 1..Len(y) : i \in 1..Len(x) \/ i = Len(x) + 1
    BY <1>1, <2>1
  <2>4. \A i \in 1..Len(x) : x[i] \in Range(x)
    BY <1>1, RangeEquality
  <2>5. \A i, k \in 1..Len(y) : y[i] = y[k] => i = k
    BY <1>3, <1>6, <2>1, <2>3, <2>4
  <2>6. \A m \in 0..n : Len(f[m]) <= Len(y) /\ \A k \in 1..Len(f[m]) : y[k] = f[m][k]
    <3> TAKE m \in 0..n
    <3>1. CASE m = n
      BY <1>4, <3>1 DEF y
    <3>2. CASE m \in 0..n - 1
      <4>1. Len(f[m]) <= Len(x) /\ Len(f[m]) \in Nat
        BY <1>3, <1>4, <3>2
      <4>2. \A k \in 1..Len(f[m]) : k \in 1..Len(x)
        BY <2>3, <4>1
      <4> QED
        BY <1>3, <2>1, <2>3, <3>2, <4>1, <4>2
    <3> QED  BY <1>4, <3>1, <3>2
  <2> QED
    BY <1>2, <1>3, <2>1, <2>2, <2>5, <2>6, Zenon DEF Listed, y
<1> QED
  BY <1>5, <1>6

\* What Unique returns: the entries of the slice, each behind as many others as came
\* first before it did.
LEMMA UniqueReturns ==
    ASSUME NEW E, NEW s \in Seq(E)
    PROVE  /\ Unique(s) \in Seq(E) /\ Range(Unique(s)) = Range(s)
           /\ Len(Unique(s)) = Cardinality(Range(s))
           /\ \A i, k \in 1..Len(Unique(s)) : Unique(s)[i] = Unique(s)[k] => i = k
           /\ \A i \in 1..Len(s) : s[i] \notin First(s, i - 1) =>
                 /\ Cardinality(First(s, i - 1)) \in Nat
                 /\ Cardinality(First(s, i - 1)) + 1 \in 1..Len(Unique(s))
                 /\ Unique(s)[Cardinality(First(s, i - 1)) + 1] = s[i]
<1> DEFINE u == Unique(s)
           len == Len(s)
<1>1. PICK f \in [0..len -> Seq(E)] :
         f[0] = <<>> /\ (\A n \in 1..len : f[n] = Add(f[n - 1], s[n])) /\ u = f[len]
  BY UniqueRounds
<1>2. len \in Nat /\ \A n \in 1..len : s[n] \in E
  OBVIOUS
<1> HIDE DEF len
<1>3. Listed(s, f, 0)
  <2>1. First(s, 0) = {} /\ Range(<<>>) = {} /\ Len(<<>>) = 0
    BY DEF First, Range
  <2>2. Len(f[0]) = 0 /\ Range(f[0]) = First(s, 0)
    BY <1>1, <2>1, Zenon
  <2>3. IsFiniteSet(First(s, 0)) /\ Cardinality(First(s, 0)) = Len(f[0])
    BY <2>1, <2>2, FS_EmptySet
  <2> QED  BY <2>2, <2>3 DEF Listed
<1>4. \A n \in 0..len : Listed(s, f, n)
  <2> DEFINE T == {n \in 0..len : Listed(s, f, n)}
  <2>1. 0 \in T
    BY <1>2, <1>3
  <2>2. \A n \in 1..len : n - 1 \in T => n \in T
    <3> SUFFICES ASSUME NEW n \in 1..len, Listed(s, f, n - 1) PROVE Listed(s, f, n)
      BY <1>2
    <3>1. f[n] = Add(f[n - 1], s[n]) /\ n \in 1..Len(s) /\ f \in [0..Len(s) -> Seq(E)]
      BY <1>1 DEF len
    <3> QED  BY <3>1, UniqueRound
  <2>3. \A n \in 0..len : n \in T
    <3> HIDE DEF T
    <3> QED  BY <1>2, <2>1, <2>2, UpTo
  <2> QED  BY <2>3
<1>5. First(s, len) = Range(s)
  BY RangeEquality DEF First, len
<1>6. Listed(s, f, len)
  BY <1>2, <1>4
<1>7. \A i \in 1..len : s[i] \notin First(s, i - 1) =>
         /\ Cardinality(First(s, i - 1)) \in Nat
         /\ Cardinality(First(s, i - 1)) + 1 \in 1..Len(u)
         /\ u[Cardinality(First(s, i - 1)) + 1] = s[i]
  <2> SUFFICES ASSUME NEW i \in 1..len, s[i] \notin First(s, i - 1)
               PROVE  /\ Cardinality(First(s, i - 1)) \in Nat
                      /\ Cardinality(First(s, i - 1)) + 1 \in 1..Len(u)
                      /\ u[Cardinality(First(s, i - 1)) + 1] = s[i]
    OBVIOUS
  <2>1. Listed(s, f, i - 1) /\ i - 1 \in 0..len /\ i \in 0..len
    BY <1>2, <1>4
  <2>2. f[i] = Add(f[i - 1], s[i]) /\ f[i - 1] \in Seq(E) /\ f[i] \in Seq(E) /\ s[i] \in E
    <3>1. f[i] = Add(f[i - 1], s[i]) /\ s[i] \in E
      BY <1>1, <1>2
    <3>2. \A m \in 0..len : f[m] \in Seq(E)
      BY <1>1
    <3> QED  BY <2>1, <3>1, <3>2
  <2>3. s[i] \notin Range(f[i - 1]) /\ Cardinality(First(s, i - 1)) = Len(f[i - 1])
    BY <2>1 DEF Listed
  <2>4. /\ Len(f[i]) = Cardinality(First(s, i - 1)) + 1
        /\ f[i][Cardinality(First(s, i - 1)) + 1] = s[i]
    BY <2>2, <2>3, AddGrows
  <2>5. Len(f[i]) <= Len(u) /\ (\A k \in 1..Len(f[i]) : u[k] = f[i][k])
    BY <1>1, <1>6, <2>1 DEF Listed
  <2>6. Len(f[i]) \in Nat /\ Len(f[i - 1]) \in Nat /\ Len(u) \in Nat
    <3>1. f[len] \in Seq(E)
      BY <1>1, <1>2
    <3> QED  BY <1>1, <2>2, <3>1
  <2> QED
    BY <2>3, <2>4, <2>5, <2>6
<1> QED
  BY <1>1, <1>2, <1>5, <1>6, <1>7 DEF Listed, len

\* InArray finds an entry that is once in a list where it is.
LEMMA InArrayFinds ==
    ASSUME NEW E, NEW u \in Seq(E), NEW k \in 1..Len(u), NEW e, u[k] = e,
           \A i, j \in 1..Len(u) : u[i] = u[j] => i = j
    PROVE  InArray(e, u) = [exists |-> TRUE, index |-> k - 1]
<1> DEFINE At(i) == u[i + 1] = e /\ \A j \in 1..i : u[j] # e
           c == CHOOSE i \in 0..Len(u) - 1 : At(i)
<1>1. Exist(u, e)
  BY DEF Exist
<1>2. Len(u) \in Nat /\ k \in Nat /\ k - 1 \in 0..Len(u) - 1 /\ (k - 1) + 1 = k
  OBVIOUS
<1>3. At(k - 1)
  BY <1>2
<1>4. c \in 0..Len(u) - 1 /\ At(c)
  <2> HIDE DEF At
  <2> QED  BY <1>2, <1>3
<1>5. c = k - 1
  <2> HIDE DEF c
  <2>1. c + 1 \in 1..Len(u) /\ u[c + 1] = u[k]
    BY <1>2, <1>4
  <2>2. c + 1 = k
    BY <2>1
  <2> QED  BY <1>2, <1>4, <2>2
<1>6. InArray(e, u) = [exists |-> Exist(u, e), index |-> IF Exist(u, e) THEN c ELSE -1]
  BY DEF InArray
<1> HIDE DEF c
<1>7. InArray(e, u) = [exists |-> TRUE, index |-> c]
  <2>1. Exist(u, e) = TRUE
    BY <1>1 DEF Exist
  <2> QED  BY <1>6, <2>1, Zenon
<1> QED
  BY <1>5, <1>7, Zenon

\* Unique keeps the first of each entry, in order.
LEMMA UniquePromise ==
    ASSUME answered, request.fn = "Unique", request.in \in Slices, value = Compute
    PROVE  UniqueKeepsFirst
<1> DEFINE s == request.in
           u == Unique(s)
<1>1. s \in Seq(Range(s))
  BY LibraryAssumption DEF Texts
<1>2. value = [list |-> u, at |-> [e \in Range(s) |-> InArray(e, u)]]
  BY DEF Compute
<1>3. /\ u \in Seq(Range(s)) /\ Range(u) = Range(s)
      /\ Len(u) = Cardinality(Range(s))
      /\ \A i, k \in 1..Len(u) : u[i] = u[k] => i = k
      /\ \A i \in 1..Len(s) : s[i] \notin First(s, i - 1) =>
            /\ Cardinality(First(s, i - 1)) \in Nat
            /\ Cardinality(First(s, i - 1)) + 1 \in 1..Len(u)
            /\ u[Cardinality(First(s, i - 1)) + 1] = s[i]
  BY <1>1, UniqueReturns
<1>4. DOMAIN s = 1..Len(s) /\ \A i \in 1..Len(s) : s[i] \in Range(s)
  BY <1>1
<1> HIDE DEF s, u
<1>5. ASSUME NEW i \in DOMAIN s, \A j \in 1..i - 1 : s[j] # s[i]
      PROVE  value.at[s[i]] = [exists |-> TRUE, index |-> Cardinality({s[j] : j \in 1..i - 1})]
  <2> DEFINE k == Cardinality(First(s, i - 1)) + 1
  <2>1. s[i] \notin First(s, i - 1)
    BY <1>5 DEF First
  <2>2. k \in 1..Len(u) /\ u[k] = s[i]
    BY <1>3, <1>4, <2>1
  <2>3. k - 1 = Cardinality(First(s, i - 1))
    <3>1. Cardinality(First(s, i - 1)) \in Nat
      BY <1>3, <1>4, <2>1
    <3> QED  BY <3>1
  <2> HIDE DEF k
  <2>4. InArray(s[i], u) = [exists |-> TRUE, index |-> k - 1]
    BY <1>3, <2>2, InArrayFinds
  <2>5. value.at[s[i]] = InArray(s[i], u)
    BY <1>2, <1>4
  <2> QED
    BY <2>3, <2>4, <2>5, Zenon DEF First
<1>6. DOMAIN value.at = Range(value.list) /\ Len(value.list) = Cardinality(Range(s))
  BY <1>2, <1>3
<1> QED
  BY <1>5, <1>6 DEF UniqueKeepsFirst, Answered, in, s

-----------------------------------------------------------------------------
(* Tax numbers *)

\* Fifteen characters are a text.
LEMMA Fifteen ==
    ASSUME NEW S, NEW f, f \in [1..15 -> S] PROVE f \in Seq(S) /\ Len(f) = 15
<1>1. f = [i \in 1..15 |-> f[i]] /\ \A i \in 1..15 : f[i] \in S
  OBVIOUS
<1> QED  BY <1>1

\* The entries of a sequence of a length.
LEMMA Entries ==
    ASSUME NEW S, NEW f \in Seq(S), NEW n, Len(f) = n PROVE \A i \in 1..n : f[i] \in S
  OBVIOUS

\* What a piece of a text holds.
LEMMA Piece ==
    ASSUME NEW E, NEW t \in Seq(E), NEW m \in 1..Len(t), NEW n \in m..Len(t)
    PROVE  /\ SubSeq(t, m, n) \in Seq(E) /\ Len(SubSeq(t, m, n)) = n - m + 1
           /\ \A i \in 1..n - m + 1 : SubSeq(t, m, n)[i] = t[m + i - 1]
<1>1. \A i \in m..n : t[i] \in E
  OBVIOUS
<1> QED
  BY <1>1, SubSeqProperties

\* The groups of a text that is long enough: what they hold, and where their places are.
LEMMA GroupChars ==
    ASSUME NEW E, NEW t \in Seq(E), Len(t) >= 20, NEW g \in 1..6
    PROVE  /\ Groups[g][1] \in 1..20 /\ Groups[g][2] \in Groups[g][1]..20
           /\ Group(t, g) \in Seq(E) /\ Len(Group(t, g)) = Groups[g][2] - Groups[g][1] + 1
           /\ \A i \in 1..Groups[g][2] - Groups[g][1] + 1 : Group(t, g)[i] = t[Groups[g][1] + i - 1]
<1>1. Groups[g][1] \in 1..20 /\ Groups[g][2] \in Groups[g][1]..20
  BY DEF Groups
<1> DEFINE a == Groups[g][1]
           b == Groups[g][2]
<1>2. Group(t, g) = SubSeq(t, a, b)
  BY DEF Group
<1>3. a \in 1..20 /\ b \in a..20
  BY <1>1
<1> HIDE DEF a, b
<1>4. a \in 1..Len(t) /\ b \in a..Len(t)
  <2>1. Len(t) \in Nat
    OBVIOUS
  <2> QED  BY <1>3, <2>1
<1>5. /\ SubSeq(t, a, b) \in Seq(E) /\ Len(SubSeq(t, a, b)) = b - a + 1
      /\ \A i \in 1..b - a + 1 : SubSeq(t, a, b)[i] = t[a + i - 1]
  BY <1>4, Piece
<1> QED
  BY <1>1, <1>2, <1>5, Zenon DEF a, b

\* A part that Atoi takes has digits, but for a sign before some.
LEMMA AtoiTakes ==
    ASSUME NEW E, NEW p \in Seq(E), p # <<>>
    PROVE  Atoi(p) <=> /\ p[1] \in Digits \cup {"+", "-"}
                       /\ p[1] \in {"+", "-"} => Len(p) > 1
                       /\ \A i \in 2..Len(p) : p[i] \in Digits
<1>1. Len(p) \in Nat \ {0} /\ Head(p) = p[1]
  OBVIOUS
<1>2. Digits \cap {"+", "-"} = {}
  BY DEF Digits
<1>3. CASE p[1] \in {"+", "-"}
  <2> DEFINE q == Tail(p)
  <2>1. q \in Seq(E) /\ Len(q) = Len(p) - 1 /\ \A i \in 1..Len(q) : q[i] = p[i + 1]
    BY HeadTailProperties
  <2>2. Range(q) = {q[i] : i \in 1..Len(q)}
    BY <2>1, RangeEquality
  <2>3. Atoi(p) <=> q # <<>> /\ Range(q) \subseteq Digits
    BY <1>1, <1>3 DEF Atoi
  <2>4. q # <<>> <=> Len(p) > 1
    <3>1. q # <<>> => Len(q) \in Nat \ {0}
      BY <2>1, EmptySeq
    <3>2. q = <<>> => Len(q) = 0
      BY EmptySeq
    <3> HIDE DEF q
    <3> QED  BY <1>1, <2>1, <3>1, <3>2
  <2> HIDE DEF q
  <2>5. Range(q) \subseteq Digits <=> \A i \in 2..Len(p) : p[i] \in Digits
    <3>1. ASSUME Range(q) \subseteq Digits, NEW i \in 2..Len(p) PROVE p[i] \in Digits
      <4>1. i - 1 \in 1..Len(q) /\ (i - 1) + 1 = i
        BY <1>1, <2>1
      <4>2. q[i - 1] = p[i] /\ q[i - 1] \in Range(q)
        BY <2>1, <2>2, <4>1
      <4> QED  BY <3>1, <4>2
    <3>2. ASSUME \A i \in 2..Len(p) : p[i] \in Digits, NEW i \in 1..Len(q) PROVE q[i] \in Digits
      <4>1. i + 1 \in 2..Len(p)
        BY <1>1, <2>1
      <4> QED  BY <2>1, <3>2, <4>1
    <3> QED  BY <2>2, <3>1, <3>2
  <2> QED  BY <1>3, <2>3, <2>4, <2>5
<1>4. CASE p[1] \notin {"+", "-"}
  <2>1. Atoi(p) <=> Range(p) \subseteq Digits
    BY <1>1, <1>4 DEF Atoi
  <2>2. Range(p) = {p[i] : i \in 1..Len(p)}
    BY RangeEquality
  <2>3. \A i : i \in 1..Len(p) <=> i = 1 \/ i \in 2..Len(p)
    BY <1>1
  <2> QED  BY <1>1, <1>4, <2>1, <2>2, <2>3
<1> QED
  BY <1>3, <1>4

\* The place of every digit, and the group it is in.
PlaceOf(d) == CHOOSE i \in 1..20 : Form[i] = d
LEMMA DigitPlaces ==
    /\ \A i \in 1..20 : Form[i] \in 0..15
    /\ \A d \in 1..15 : PlaceOf(d) \in 1..20 /\ Form[PlaceOf(d)] = d
    /\ \A i \in 1..20, k \in 1..20 : Form[i] = Form[k] /\ Form[i] # 0 => i = k
    /\ \A i \in 1..20 : Form[i] # 0 => \E g \in 1..6 : i \in Groups[g][1]..Groups[g][2]
    /\ \A g \in 1..6 : \A i \in Groups[g][1]..Groups[g][2] : Form[i] # 0
<1>1. \A i \in 1..20 : Form[i] \in 0..15
  BY DEF Form
<1>2. ASSUME NEW d \in 1..15 PROVE PlaceOf(d) \in 1..20 /\ Form[PlaceOf(d)] = d
  <2>1. \E i \in 1..20 : Form[i] = d
    BY DEF Form
  <2> QED  BY <2>1, Zenon DEF PlaceOf
<1>3. \A i \in 1..20, k \in 1..20 : Form[i] = Form[k] /\ Form[i] # 0 => i = k
  BY DEF Form
<1>4. \A i \in 1..20 : Form[i] # 0 => \E g \in 1..6 : i \in Groups[g][1]..Groups[g][2]
  BY DEF Form, Groups
<1>5. \A g \in 1..6 : \A i \in Groups[g][1]..Groups[g][2] : Form[i] # 0
  BY DEF Form, Groups
<1> QED
  BY <1>1, <1>2, <1>3, <1>4, <1>5

\* CheckNpwpFormat takes a text with digits at the places of digits, or signs where a
\* group of several begins.
LEMMA FormatTakes ==
    ASSUME NEW E, NEW t \in Seq(E)
    PROVE  /\ CheckNpwpFormat(t) =>
                 /\ Len(t) >= 20 /\ t[12] \in Digits
                 /\ \A i \in 1..20 : Form[i] # 0 => t[i] \in Digits \cup {"+", "-"}
           /\ Len(t) >= 20 /\ (\A i \in 1..20 : Form[i] # 0 => t[i] \in Digits) => CheckNpwpFormat(t)
<1> SUFFICES ASSUME Len(t) >= 20
             PROVE  /\ CheckNpwpFormat(t) =>
                          /\ t[12] \in Digits
                          /\ \A i \in 1..20 : Form[i] # 0 => t[i] \in Digits \cup {"+", "-"}
                    /\ (\A i \in 1..20 : Form[i] # 0 => t[i] \in Digits) => CheckNpwpFormat(t)
  BY DEF CheckNpwpFormat
<1>1. CheckNpwpFormat(t) <=> \A g \in 1..6 : Atoi(Group(t, g))
  BY DEF CheckNpwpFormat
<1>2. ASSUME NEW g \in 1..6
      PROVE  /\ Groups[g][1] \in 1..20 /\ Groups[g][2] \in Groups[g][1]..20
             /\ \A i \in 1..Groups[g][2] - Groups[g][1] + 1 : Group(t, g)[i] = t[Groups[g][1] + i - 1]
             /\ Atoi(Group(t, g)) <=>
                   /\ t[Groups[g][1]] \in Digits \cup {"+", "-"}
                   /\ t[Groups[g][1]] \in {"+", "-"} => Groups[g][2] > Groups[g][1]
                   /\ \A i \in Groups[g][1] + 1..Groups[g][2] : t[i] \in Digits
  <2> DEFINE a == Groups[g][1]
             b == Groups[g][2]
             p == Group(t, g)
  <2>1. /\ a \in 1..20 /\ b \in a..20 /\ p \in Seq(E) /\ Len(p) = b - a + 1
        /\ \A i \in 1..b - a + 1 : p[i] = t[a + i - 1]
    BY GroupChars
  <2> HIDE DEF a, b, p
  <2>2. p # <<>>
    BY <2>1, EmptySeq
  <2>3. Atoi(p) <=> /\ p[1] \in Digits \cup {"+", "-"}
                    /\ p[1] \in {"+", "-"} => Len(p) > 1
                    /\ \A i \in 2..Len(p) : p[i] \in Digits
    BY <2>1, <2>2, AtoiTakes
  <2>4. p[1] = t[a] /\ (Len(p) > 1 <=> b > a)
    BY <2>1
  <2>5. (\A i \in 2..Len(p) : p[i] \in Digits) <=> \A i \in a + 1..b : t[i] \in Digits
    <3>1. ASSUME \A i \in 2..Len(p) : p[i] \in Digits, NEW i \in a + 1..b PROVE t[i] \in Digits
      <4>1. i - a + 1 \in 2..Len(p) /\ i - a + 1 \in 1..b - a + 1 /\ a + (i - a + 1) - 1 = i
        BY <2>1
      <4>2. p[i - a + 1] = t[a + (i - a + 1) - 1]
        BY <2>1, <4>1
      <4> QED  BY <3>1, <4>1, <4>2
    <3>2. ASSUME \A i \in a + 1..b : t[i] \in Digits, NEW i \in 2..Len(p) PROVE p[i] \in Digits
      <4>1. a + i - 1 \in a + 1..b /\ i \in 1..b - a + 1
        BY <2>1
      <4> QED  BY <2>1, <3>2, <4>1
    <3> QED  BY <3>1, <3>2
  <2> QED  BY <2>1, <2>3, <2>4, <2>5, Zenon DEF a, b, p
<1>3. ASSUME CheckNpwpFormat(t)
      PROVE  t[12] \in Digits /\ \A i \in 1..20 : Form[i] # 0 => t[i] \in Digits \cup {"+", "-"}
  <2>1. t[12] \in Digits
    <3>1. Groups[4][1] = 12 /\ Groups[4][2] = 12 /\ 4 \in 1..6
      BY DEF Groups
    <3>2. Atoi(Group(t, 4))
      BY <1>1, <1>3, <3>1
    <3>3. t[12] \in Digits \cup {"+", "-"} /\ (t[12] \in {"+", "-"} => 12 > 12)
      BY <1>2, <3>1, <3>2
    <3> QED  BY <3>3
  <2>2. ASSUME NEW i \in 1..20, Form[i] # 0 PROVE t[i] \in Digits \cup {"+", "-"}
    <3>1. PICK g \in 1..6 : i \in Groups[g][1]..Groups[g][2]
      BY <2>2, DigitPlaces
    <3>2. Atoi(Group(t, g))
      BY <1>1, <1>3
    <3>3. /\ Groups[g][1] \in 1..20 /\ Groups[g][2] \in Groups[g][1]..20
          /\ t[Groups[g][1]] \in Digits \cup {"+", "-"}
          /\ \A k \in Groups[g][1] + 1..Groups[g][2] : t[k] \in Digits
      BY <1>2, <3>2
    <3>4. i = Groups[g][1] \/ i \in Groups[g][1] + 1..Groups[g][2]
      <4> DEFINE a == Groups[g][1]
                 b == Groups[g][2]
      <4>1. a \in 1..20 /\ b \in a..20 /\ i \in a..b
        BY <3>1, <3>3
      <4> HIDE DEF a, b
      <4>2. i = a \/ i \in a + 1..b
        BY <4>1
      <4> QED  BY <4>2 DEF a, b
    <3>5. CASE i = Groups[g][1]  BY <3>3, <3>5, Zenon
    <3>6. CASE i \in Groups[g][1] + 1..Groups[g][2]  BY <3>3, <3>6, Zenon
    <3> QED  BY <3>4, <3>5, <3>6
  <2> QED  BY <2>1, <2>2
<1>4. ASSUME \A i \in 1..20 : Form[i] # 0 => t[i] \in Digits PROVE CheckNpwpFormat(t)
  <2>1. ASSUME NEW g \in 1..6 PROVE Atoi(Group(t, g))
    <3>1. Groups[g][1] \in 1..20 /\ Groups[g][2] \in Groups[g][1]..20
      BY <1>2
    <3>2. \A i \in Groups[g][1]..Groups[g][2] : Form[i] # 0
      BY DigitPlaces
    <3>3. /\ t[Groups[g][1]] \in Digits
          /\ \A i \in Groups[g][1] + 1..Groups[g][2] : t[i] \in Digits
      <4> DEFINE a == Groups[g][1]
                 b == Groups[g][2]
      <4>1. a \in 1..20 /\ b \in a..20 /\ \A i \in a..b : Form[i] # 0
        BY <3>1, <3>2
      <4> HIDE DEF a, b
      <4>2. \A i \in a..b : t[i] \in Digits
        <5>1. \A i \in a..b : i \in 1..20
          BY <4>1
        <5> QED  BY <1>4, <4>1, <5>1, Zenon
      <4>3. t[a] \in Digits /\ \A i \in a + 1..b : t[i] \in Digits
        BY <4>1, <4>2
      <4> QED  BY <4>3 DEF a, b
    <3>4. t[Groups[g][1]] \notin {"+", "-"}
      BY <3>3 DEF Digits
    <3> QED  BY <1>2, <3>3, <3>4
  <2> QED  BY <1>1, <2>1
<1> QED
  BY <1>3, <1>4

\* Every formatted tax number is read back, and what is read of another text fits it.
LEMMA NpwpPromise ==
    ASSUME answered, value = Compute,
           \/ request.fn = "Npwp" /\ request.in \in TaxNumbers
           \/ request.fn = "ReadNpwp" /\ request.in \in TaxTexts
    PROVE  NpwpReadBack
<1> DEFINE x == request.in
<1>1. ASSUME request.fn = "Npwp", x \in TaxNumbers PROVE value = IF Len(x) = 15 THEN x ELSE <<>>
  <2> DEFINE f == DecodeNpwpNumber(x)
  <2>1. x \in Seq(Digits) /\ Len(x) <= 15 /\ value = GetNpwpNumber(f)
    BY <1>1, LibraryAssumption DEF Compute
  <2> HIDE DEF x
  <2>2. CASE Len(x) = 15
    <3> DEFINE E == Digits \cup {"-", "."}
    <3>1. f = [i \in 1..20 |-> IF Form[i] # 0 THEN x[Form[i]] ELSE IF i = 13 THEN "-" ELSE "."]
      BY <2>2 DEF DecodeNpwpNumber
    <3> HIDE DEF f
    <3>2. \A d \in 1..15 : x[d] \in Digits
      BY <2>1, <2>2, Entries
    <3>3. \A i \in 1..20 : Form[i] # 0 => f[i] = x[Form[i]] /\ f[i] \in Digits
      <4> SUFFICES ASSUME NEW i \in 1..20, Form[i] # 0
                   PROVE  f[i] = x[Form[i]] /\ f[i] \in Digits
        OBVIOUS
      <4>1. f[i] = x[Form[i]]
        BY <3>1, Zenon
      <4>2. Form[i] \in 1..15
        BY DigitPlaces
      <4> QED  BY <3>2, <4>1, <4>2, Zenon
    <3>4. \A i \in 1..20 : f[i] \in E
      <4> TAKE i \in 1..20
      <4>1. CASE Form[i] # 0  BY <3>3, <4>1
      <4>2. CASE Form[i] = 0  BY <3>1, <4>2
      <4> QED  BY <4>1, <4>2
    <3>5. f \in Seq(E) /\ Len(f) = 20
      <4> HIDE DEF E
      <4> QED  BY <3>1, <3>4
    <3>6. CheckNpwpFormat(f)
      <4>1. Len(f) >= 20 /\ \A i \in 1..20 : Form[i] # 0 => f[i] \in Digits
        <5>1. Len(f) >= 20
          BY <3>5
        <5> QED  BY <3>3, <5>1, Zenon
      <4> HIDE DEF E
      <4> QED  BY <3>5, <4>1, FormatTakes, Zenon
    <3>7. value = [d \in 1..15 |-> f[PlaceOf(d)]]
      BY <2>1, <3>6, Zenon DEF GetNpwpNumber, PlaceOf
    <3>8. \A d \in 1..15 : f[PlaceOf(d)] = x[d]
      BY <3>3, DigitPlaces
    <3>9. value \in [1..15 -> Digits] /\ \A d \in 1..15 : value[d] = x[d]
      BY <3>2, <3>7, <3>8
    <3>10. value \in Seq(Digits) /\ Len(value) = 15
      <4>1. value \in [1..15 -> Digits]
        BY <3>9
      <4> QED  BY <4>1, Fifteen, Zenon
    <3>11. value = x
      BY <2>1, <2>2, <3>9, <3>10, SeqEqual
    <3> QED  BY <2>2, <3>11
  <2>3. CASE Len(x) # 15
    <3>1. f = x /\ ~(Len(x) >= 20)
      BY <2>1, <2>3 DEF DecodeNpwpNumber
    <3> QED  BY <2>1, <2>3, <3>1 DEF GetNpwpNumber, CheckNpwpFormat
  <2> QED  BY <2>2, <2>3
<1>2. ASSUME request.fn = "ReadNpwp", x \in TaxTexts
      PROVE  /\ value.ok <=> value.number # <<>>
             /\ value.ok =>
                   /\ Len(value.number) = 15
                   /\ \A i \in 1..15 : value.number[i] \in Digits \cup {"+", "-"}
                   /\ value.number[9] \in Digits
                   /\ LET form == DecodeNpwpNumber(value.number)
                      IN \A i \in 1..20 : form[i] = x[i] \/ form[i] \in {".", "-"}
  <2> DEFINE n == GetNpwpNumber(x)
             form == DecodeNpwpNumber(n)
  <2>1. x \in Seq(Range(x)) /\ value = [ok |-> CheckNpwpFormat(x), number |-> n]
    BY <1>2, LibraryAssumption DEF Compute, Texts
  <2>2. value.ok = CheckNpwpFormat(x) /\ value.number = n
    BY <2>1
  <2> HIDE DEF x
  <2>3. CASE ~CheckNpwpFormat(x)
    <3>1. n = <<>>
      BY <2>3 DEF GetNpwpNumber
    <3> QED  BY <2>2, <2>3, <3>1, Zenon
  <2>4. CASE CheckNpwpFormat(x)
    <3>1. n = [d \in 1..15 |-> x[PlaceOf(d)]]
      BY <2>4, Zenon DEF GetNpwpNumber, PlaceOf
    <3> HIDE DEF n
    <3>2. /\ x[12] \in Digits
          /\ \A i \in 1..20 : Form[i] # 0 => x[i] \in Digits \cup {"+", "-"}
      BY <2>1, <2>4, FormatTakes
    <3>3. \A d \in 1..15 : n[d] = x[PlaceOf(d)] /\ n[d] \in Digits \cup {"+", "-"}
      BY <3>1, <3>2, DigitPlaces
    <3>4. n \in Seq(Digits \cup {"+", "-"}) /\ Len(n) = 15 /\ n # <<>>
      <4>1. n \in [1..15 -> Digits \cup {"+", "-"}]
        BY <3>1, <3>3
      <4>2. n \in Seq(Digits \cup {"+", "-"}) /\ Len(n) = 15
        BY <4>1, Fifteen, Zenon
      <4>3. n # <<>>
        <5>1. Len(<<>>) = 0
          BY EmptySeq
        <5>2. Len(n) # 0
          BY <4>2
        <5> QED  BY <5>1, <5>2, Zenon
      <4> QED  BY <4>2, <4>3, Zenon
    <3>5. n[9] \in Digits
      <4>1. Form[12] = 9
        BY DEF Form
      <4>2. PlaceOf(9) = 12
        BY <4>1, DigitPlaces
      <4> QED  BY <3>2, <3>3, <4>2
    <3>6. \A i \in 1..20 : form[i] = x[i] \/ form[i] \in {".", "-"}
      <4>1. form = [i \in 1..20 |-> IF Form[i] # 0 THEN n[Form[i]] ELSE IF i = 13 THEN "-" ELSE "."]
        BY <3>4 DEF DecodeNpwpNumber
      <4> HIDE DEF form
      <4> TAKE i \in 1..20
      <4>2. CASE Form[i] = 0
        BY <4>1, <4>2
      <4>3. CASE Form[i] # 0
        <5>1. Form[i] \in 1..15
          BY <4>3, DigitPlaces
        <5>2. PlaceOf(Form[i]) = i
          BY <4>3, <5>1, DigitPlaces
        <5>3. form[i] = n[Form[i]] /\ n[Form[i]] = x[PlaceOf(Form[i])]
          BY <3>3, <4>1, <4>3, <5>1
        <5> QED  BY <5>2, <5>3
      <4> QED  BY <4>2, <4>3
    <3> QED  BY <2>2, <2>4, <3>3, <3>4, <3>5, <3>6, Zenon DEF form
  <2> QED  BY <2>3, <2>4
<1>3. CASE request.fn = "Npwp" /\ request.in \in TaxNumbers
  BY <1>1, <1>3 DEF NpwpReadBack, Answered, in
<1>4. CASE request.fn = "ReadNpwp" /\ request.in \in TaxTexts
  BY <1>2, <1>4 DEF NpwpReadBack, Answered, in
<1> QED
  BY <1>3, <1>4

-----------------------------------------------------------------------------
(* Underscore *)

\* The letters of a text, round by round.
LEMMA LettersRounds ==
    ASSUME NEW E, NEW s \in Seq(E)
    PROVE  \E f \in [0..Len(s) -> Seq(E)] :
              /\ f[0] = <<>>
              /\ \A n \in 1..Len(s) : f[n] = Keep(f[n - 1], s[n])
              /\ Letters(s) = f[Len(s)]
<1> DEFINE len == Len(s)
           S == Seq(E)
           step == [n \in 1..len |-> [x \in S |-> Keep(x, s[n])]]
           Eq(f) == f = [n \in 0..len |-> IF n = 0 THEN <<>> ELSE Keep(f[n - 1], s[n])]
           h == CHOOSE f : Eq(f)
<1>1. Letters(s) = h[len]
  BY DEF Letters
<1>2. len \in Nat /\ <<>> \in S /\ \A n \in 1..len : \A x \in S : Keep(x, s[n]) \in S
  <2>1. len \in Nat /\ \A n \in 1..len : s[n] \in E
    OBVIOUS
  <2>2. \A x \in S, e \in E : Keep(x, e) \in S
    <3> TAKE x \in S, e \in E
    <3>1. Append(x, e) \in S
      OBVIOUS
    <3> QED  BY <3>1, Zenon DEF Keep
  <2> HIDE DEF len, S
  <2> QED  BY <2>1, <2>2, EmptySeq DEF S
<1> HIDE DEF len, S
<1>3. Loop(S, <<>>, len, step)
  BY <1>2 DEF Loop
<1>4. PICK g : Runs(S, <<>>, len, step, g)
  <2> HIDE DEF step
  <2> QED  BY <1>3, LoopRuns
<1>5. \A n \in 1..len : g[n] = Keep(g[n - 1], s[n])
  <2> TAKE n \in 1..len
  <2>1. g[n - 1] \in S
    BY <1>2, <1>4 DEF Runs
  <2> QED  BY <1>4, <2>1 DEF Runs
<1>6. Eq(g)
  <2>1. \A n \in 0..len : g[n] = IF n = 0 THEN <<>> ELSE Keep(g[n - 1], s[n])
    BY <1>2, <1>4, <1>5 DEF Runs
  <2> QED  BY <1>4, <2>1 DEF Runs
<1>7. Eq(h)
  <2> HIDE DEF Eq
  <2> QED  BY <1>6
<1> HIDE DEF h
<1>8. h[0] = <<>> /\ \A n \in 1..len : h[n] = Keep(h[n - 1], s[n])
  <2>1. \A n \in 0..len : h[n] = IF n = 0 THEN <<>> ELSE Keep(h[n - 1], s[n])
    BY <1>7, Zenon
  <2>2. 0 \in 0..len /\ \A n \in 1..len : n \in 0..len /\ n # 0
    BY <1>2
  <2> QED  BY <2>1, <2>2, Zenon
<1>9. \A n \in 0..len : h[n] \in S
  <2>1. \A n \in 1..len : h[n - 1] \in S => h[n] \in S
    BY <1>2, <1>8
  <2> QED  BY <1>2, <1>8, <2>1, LoopKeeps
<1>10. h \in [0..len -> S]
  BY <1>7, <1>9
<1> QED
  BY <1>1, <1>8, <1>10 DEF len, S

\* What is written: no capitals.
Lower(E) == (E \ Upper) \cup {"a", "b", "_"}
Buffers(E) == [out : Seq(Lower(E)), m : {"", "a", "b"}, w : BOOLEAN]

\* A capital is one that has a small letter.
LEMMA SmallLetters ==
    ASSUME NEW E
    PROVE  /\ \A ch \in Upper : ToLower(ch) \in {"a", "b"}
           /\ \A ch : ch \notin Upper => ToLower(ch) = ch
           /\ \A ch \in Lower(E) : ch \notin Upper
           /\ \A ch \in E : ToLower(ch) \in Lower(E)
<1>1. /\ \A ch \in Upper : ToLower(ch) \in {"a", "b"}
      /\ \A ch : ch \notin Upper => ToLower(ch) = ch
  BY DEF Upper, ToLower
<1>2. \A ch \in Lower(E) : ch \notin Upper
  BY DEF Upper, Lower
<1>3. \A ch \in E : ToLower(ch) \in Lower(E)
  BY <1>1 DEF Lower
<1> QED
  BY <1>1, <1>2, <1>3

\* Writing a character in each of its four cases: what is out, and what waits.
LEMMA WriteKeeps ==
    ASSUME NEW E PROVE \A b \in Buffers(E), ch \in E : Write(b, ch) \in Buffers(E)
<1> SUFFICES ASSUME NEW b \in Buffers(E), NEW ch \in E PROVE Write(b, ch) \in Buffers(E)
  OBVIOUS
<1> DEFINE L == Lower(E)
<1>1. b.out \in Seq(L) /\ b.m \in {"", "a", "b"} /\ b.w \in BOOLEAN
  BY DEF Buffers
<1>2. "a" \in L /\ "b" \in L /\ "_" \in L /\ (ch \notin Upper => ch \in L)
  BY DEF Lower
<1>3. ch \in Upper => ToLower(ch) \in {"", "a", "b"}
  BY SmallLetters
<1> HIDE DEF L
<1>0. ASSUME NEW out \in Seq(L), NEW e \in L PROVE Append(out, e) \in Seq(L)
  OBVIOUS
<1>4. Indent(b.out) \in Seq(L)
  <2>1. Append(b.out, "_") \in Seq(L)
    BY <1>0, <1>1, <1>2, Zenon
  <2> QED  BY <1>1, <2>1, Zenon DEF Indent
<1>5. ASSUME NEW out \in Seq(L), NEW m \in {"", "a", "b"}, NEW w \in BOOLEAN
      PROVE  Buffer(out, m, w) \in Buffers(E)
  BY Zenon DEF Buffer, Buffers, L
<1>6. CASE ch \in Upper /\ b.m = ""
  <2>1. Write(b, ch) = Buffer(b.out, ToLower(ch), b.w)
    BY <1>6 DEF Write
  <2> QED  BY <1>1, <1>3, <1>5, <1>6, <2>1, Zenon
<1>7. CASE ch \in Upper /\ b.m # ""
  <2> DEFINE o == IF b.w THEN b.out ELSE Indent(b.out)
  <2>1. Write(b, ch) = Buffer(Append(o, b.m), ToLower(ch), TRUE)
    BY <1>7 DEF Write
  <2>2. o \in Seq(L)
    BY <1>1, <1>4, Zenon
  <2> HIDE DEF o
  <2>3. b.m \in L
    BY <1>1, <1>2, <1>7
  <2>4. Append(o, b.m) \in Seq(L) /\ TRUE \in BOOLEAN
    BY <2>2, <2>3
  <2> QED  BY <1>3, <1>5, <1>7, <2>1, <2>4, Zenon
<1>8. CASE ch \notin Upper /\ b.m = ""
  <2>1. Write(b, ch) = Buffer(Append(b.out, ch), "", b.w)
    BY <1>8 DEF Write
  <2>2. Append(b.out, ch) \in Seq(L) /\ "" \in {"", "a", "b"}
    <3>1. ch \in L
      BY <1>2, <1>8, Zenon
    <3> QED  BY <1>0, <1>1, <3>1, Zenon
  <2> QED  BY <1>1, <1>5, <2>1, <2>2, Zenon
<1>9. CASE ch \notin Upper /\ b.m # ""
  <2>1. Write(b, ch) = Buffer(Indent(b.out) \o <<b.m, ch>>, "", FALSE)
    BY <1>9 DEF Write
  <2>2. b.m \in L /\ ch \in L
    BY <1>1, <1>2, <1>9
  <2>3. Indent(b.out) \o <<b.m, ch>> \in Seq(L) /\ "" \in {"", "a", "b"} /\ FALSE \in BOOLEAN
    BY <1>4, <2>2
  <2> QED  BY <1>5, <2>1, <2>3, Zenon
<1> QED
  BY <1>6, <1>7, <1>8, <1>9

\* The buffer of Underscore, round by round.
LEMMA UnderscoreRounds ==
    ASSUME NEW E, NEW s \in Seq(E)
    PROVE  \E f \in [0..Len(s) -> Buffers(E)] :
              /\ f[0] = NewBuffer
              /\ \A n \in 1..Len(s) : f[n] = Write(f[n - 1], s[n])
              /\ Underscore(s) = Flush(f[Len(s)])
<1> DEFINE len == Len(s)
           S == Buffers(E)
           step == [n \in 1..len |-> [x \in S |-> Write(x, s[n])]]
           Eq(f) == f = [n \in 0..len |-> IF n = 0 THEN NewBuffer ELSE Write(f[n - 1], s[n])]
           h == CHOOSE f : Eq(f)
<1>1. Underscore(s) = Flush(h[len])
  BY DEF Underscore
<1>2. len \in Nat /\ NewBuffer \in S /\ \A n \in 1..len : \A x \in S : Write(x, s[n]) \in S
  <2>1. len \in Nat /\ \A n \in 1..len : s[n] \in E
    OBVIOUS
  <2>2. \A x \in S, e \in E : Write(x, e) \in S
    BY WriteKeeps
  <2>3. NewBuffer \in S
    BY EmptySeq, Zenon DEF NewBuffer, Buffer, Buffers
  <2> HIDE DEF len, S
  <2> QED  BY <2>1, <2>2, <2>3
<1> HIDE DEF len, S
<1>3. Loop(S, NewBuffer, len, step)
  BY <1>2 DEF Loop
<1>4. PICK g : Runs(S, NewBuffer, len, step, g)
  <2> HIDE DEF step
  <2> QED  BY <1>3, LoopRuns
<1>5. \A n \in 1..len : g[n] = Write(g[n - 1], s[n])
  <2> TAKE n \in 1..len
  <2>1. g[n - 1] \in S
    BY <1>2, <1>4 DEF Runs
  <2> QED  BY <1>4, <2>1 DEF Runs
<1>6. Eq(g)
  <2>1. \A n \in 0..len : g[n] = IF n = 0 THEN NewBuffer ELSE Write(g[n - 1], s[n])
    BY <1>2, <1>4, <1>5 DEF Runs
  <2> QED  BY <1>4, <2>1 DEF Runs
<1>7. Eq(h)
  <2> HIDE DEF Eq
  <2> QED  BY <1>6
<1> HIDE DEF h
<1>8. h[0] = NewBuffer /\ \A n \in 1..len : h[n] = Write(h[n - 1], s[n])
  <2>1. \A n \in 0..len : h[n] = IF n = 0 THEN NewBuffer ELSE Write(h[n - 1], s[n])
    BY <1>7, Zenon
  <2>2. 0 \in 0..len /\ \A n \in 1..len : n \in 0..len /\ n # 0
    BY <1>2
  <2> QED  BY <2>1, <2>2, Zenon
<1>9. \A n \in 0..len : h[n] \in S
  <2>1. \A n \in 1..len : h[n - 1] \in S => h[n] \in S
    BY <1>2, <1>8
  <2> QED  BY <1>2, <1>8, <2>1, LoopKeeps
<1>10. h \in [0..len -> S]
  BY <1>7, <1>9
<1> QED
  BY <1>1, <1>8, <1>10 DEF len, S

\* The letters of a text and one more character.
LEMMA LettersAppend ==
    ASSUME NEW E
    PROVE  /\ Letters(<<>>) = <<>>
           /\ \A s \in Seq(E) : Letters(s) \in Seq(E)
           /\ \A s \in Seq(E), e \in E : Letters(Append(s, e)) = Keep(Letters(s), e)
<1>1. ASSUME NEW s \in Seq(E) PROVE Letters(s) \in Seq(E)
  <2>1. PICK f \in [0..Len(s) -> Seq(E)] : Letters(s) = f[Len(s)]
    BY LettersRounds
  <2> QED  BY <2>1
<1>2. Letters(<<>>) = <<>>
  <2>1. <<>> \in Seq(E) /\ Len(<<>>) = 0
    BY EmptySeq
  <2>2. PICK f \in [0..Len(<<>>) -> Seq(E)] : f[0] = <<>> /\ Letters(<<>>) = f[Len(<<>>)]
    BY <2>1, LettersRounds
  <2> QED  BY <2>1, <2>2
<1>3. ASSUME NEW s \in Seq(E), NEW e \in E PROVE Letters(Append(s, e)) = Keep(Letters(s), e)
  <2> DEFINE t == Append(s, e)
             len == Len(s)
  <2>1. /\ t \in Seq(E) /\ Len(t) = len + 1 /\ len \in Nat
        /\ t[len + 1] = e /\ \A i \in 1..len : t[i] = s[i]
    BY AppendProperties
  <2>2. PICK f : /\ f[0] = <<>> /\ (\A n \in 1..len : f[n] = Keep(f[n - 1], s[n]))
                 /\ Letters(s) = f[len]
    BY LettersRounds
  <2>3. PICK g : /\ g[0] = <<>> /\ (\A n \in 1..Len(t) : g[n] = Keep(g[n - 1], t[n]))
                 /\ Letters(t) = g[Len(t)]
    BY <2>1, LettersRounds
  <2> HIDE DEF t, len
  <2>4. \A n \in 0..len : f[n] = g[n]
    <3> DEFINE T == {n \in 0..len : f[n] = g[n]}
    <3>1. 0 \in T
      BY <2>1, <2>2, <2>3
    <3>2. ASSUME NEW n \in 1..len, n - 1 \in T PROVE n \in T
      <4>1. n \in 1..Len(t) /\ t[n] = s[n] /\ n \in 0..len
        BY <2>1
      <4>2. f[n - 1] = g[n - 1]
        BY <3>2
      <4>3. f[n] = g[n]
        BY <2>2, <2>3, <4>1, <4>2
      <4> QED  BY <4>1, <4>3
    <3>3. \A n \in 0..len : n \in T
      <4> HIDE DEF T
      <4> QED  BY <2>1, <3>1, <3>2, UpTo
    <3> QED  BY <3>3
  <2>5. g[len + 1] = Keep(g[len], e)
    <3>1. len + 1 \in 1..Len(t) /\ (len + 1) - 1 = len
      BY <2>1
    <3> QED  BY <2>1, <2>3, <3>1
  <2>6. f[len] = g[len]
    BY <2>1, <2>4
  <2> QED  BY <2>1, <2>2, <2>3, <2>5, <2>6 DEF t
<1> QED
  BY <1>1, <1>2, <1>3

\* What a buffer holds, the capital that waits included.
Pending(b) == IF b.m = "" THEN b.out ELSE Append(b.out, b.m)

\* Writing a character adds its small letter; an underscore set before it is none.
LEMMA WriteLetters ==
    ASSUME NEW E, NEW b \in Buffers(E), NEW ch \in E
    PROVE  /\ Letters(Pending(Write(b, ch))) = Keep(Letters(Pending(b)), ToLower(ch))
           /\ Letters(Flush(b)) = Letters(Pending(b))
           /\ Flush(b) \in Seq(Lower(E))
<1> DEFINE L == Lower(E)
           m == b.m
           o == IF b.w THEN b.out ELSE Indent(b.out)
           l == ToLower(ch)
<1>1. b.out \in Seq(L) /\ m \in {"", "a", "b"} /\ b.w \in BOOLEAN
  BY DEF Buffers
<1>2. "a" \in L /\ "b" \in L /\ "_" \in L /\ (ch \notin Upper => ch \in L /\ l = ch) /\ l \in L
  BY SmallLetters DEF Lower
<1>3. ch \in Upper => l \in {"a", "b"}
  BY SmallLetters
<1>4. m # "" => m \in L /\ m # "_"
  BY <1>1, <1>2
<1> HIDE DEF L, m, l
<1>5. \A s \in Seq(L), e \in L : Append(s, e) \in Seq(L) /\ Letters(Append(s, e)) = Keep(Letters(s), e)
  BY LettersAppend
<1>6. Indent(b.out) \in Seq(L) /\ Letters(Indent(b.out)) = Letters(b.out)
  <2>1. Append(b.out, "_") \in Seq(L) /\ Letters(Append(b.out, "_")) = Keep(Letters(b.out), "_")
    BY <1>1, <1>2, <1>5
  <2>2. Keep(Letters(b.out), "_") = Letters(b.out)
    BY DEF Keep
  <2> QED  BY <1>1, <2>1, <2>2, Zenon DEF Indent
<1>7. o \in Seq(L) /\ Letters(o) = Letters(b.out)
  BY <1>1, <1>6, Zenon
<1> HIDE DEF o
<1>8. m # "" => Append(o, m) \in Seq(L) /\ Letters(Append(o, m)) = Letters(Pending(b))
  <2> SUFFICES ASSUME m # "" PROVE Append(o, m) \in Seq(L) /\ Letters(Append(o, m)) = Letters(Pending(b))
    OBVIOUS
  <2>1. Append(o, m) \in Seq(L) /\ Letters(Append(o, m)) = Keep(Letters(b.out), m)
    BY <1>4, <1>5, <1>7, Zenon
  <2>2. Letters(Append(b.out, m)) = Keep(Letters(b.out), m)
    BY <1>1, <1>4, <1>5, Zenon
  <2>3. Pending(b) = Append(b.out, m)
    BY Zenon DEF Pending, m
  <2> QED  BY <2>1, <2>2, <2>3, Zenon
<1>9. Flush(b) \in Seq(L) /\ Letters(Flush(b)) = Letters(Pending(b))
  <2>1. CASE m = ""
    <3>1. Flush(b) = b.out /\ Pending(b) = b.out
      BY <2>1, Zenon DEF Flush, Pending, m
    <3> QED  BY <1>1, <3>1, Zenon
  <2>2. CASE m # ""
    <3>1. Flush(b) = Append(o, m)
      BY <2>2, Zenon DEF Flush, m, o
    <3> QED  BY <1>8, <2>2, <3>1, Zenon
  <2> QED  BY <2>1, <2>2
<1>10. CASE ch \in Upper
  <2> DEFINE out == IF m = "" THEN b.out ELSE Append(o, m)
  <2>1. Write(b, ch).out = out /\ Write(b, ch).m = l
    <3>1. CASE m = ""
      <4>1. Write(b, ch).out = b.out /\ Write(b, ch).m = l
        BY <1>10, <3>1 DEF Write, Buffer, m, l
      <4> QED  BY <3>1, <4>1, Zenon
    <3>2. CASE m # ""
      <4>1. Write(b, ch).out = Append(o, m) /\ Write(b, ch).m = l
        BY <1>10, <3>2 DEF Write, Buffer, m, l, o
      <4> QED  BY <3>2, <4>1, Zenon
    <3> QED  BY <3>1, <3>2
  <2>2. out \in Seq(L) /\ Letters(out) = Letters(Pending(b))
    <3>1. CASE m = ""
      BY <1>1, <3>1, Zenon DEF Pending, m
    <3>2. CASE m # ""
      BY <1>8, <3>2, Zenon
    <3> QED  BY <3>1, <3>2
  <2> HIDE DEF out
  <2>3. l # ""
    BY <1>3, <1>10
  <2>4. Pending(Write(b, ch)) = Append(out, l)
    BY <2>1, <2>3, Zenon DEF Pending
  <2> QED  BY <1>2, <1>5, <1>9, <2>2, <2>4, Zenon DEF l, L
<1>11. CASE ch \notin Upper
  <2>1. CASE m = ""
    <3>1. Pending(Write(b, ch)) = Append(b.out, ch) /\ Pending(b) = b.out
      BY <1>11, <2>1 DEF Write, Buffer, Pending, m
    <3> QED  BY <1>1, <1>2, <1>5, <1>9, <1>11, <3>1, Zenon DEF l, L
  <2>2. CASE m # ""
    <3> DEFINE i == Indent(b.out)
    <3>1. Pending(Write(b, ch)) = i \o <<m, ch>>
      BY <1>11, <2>2 DEF Write, Buffer, Pending, m
    <3>2. i \in Seq(L) /\ Letters(i) = Letters(b.out)
      BY <1>6
    <3> HIDE DEF i
    <3>3. i \o <<m, ch>> = Append(Append(i, m), ch)
      <4>1. \A x, y \in L, z \in Seq(L) : z \o <<x, y>> = Append(Append(z, x), y)
        OBVIOUS
      <4> QED  BY <1>2, <1>4, <1>11, <2>2, <3>2, <4>1, Zenon
    <3>4. Append(i, m) \in Seq(L) /\ Letters(Append(i, m)) = Keep(Letters(b.out), m)
      BY <1>4, <1>5, <2>2, <3>2, Zenon
    <3>5. Letters(Pending(b)) = Keep(Letters(b.out), m)
      BY <1>1, <1>4, <1>5, <2>2, Zenon DEF Pending, m
    <3>6. Letters(Append(Append(i, m), ch)) = Keep(Letters(Append(i, m)), ch)
      BY <1>2, <1>5, <1>11, <3>4, Zenon
    <3> QED  BY <1>2, <1>9, <1>11, <3>1, <3>3, <3>4, <3>5, <3>6, Zenon DEF l, L
  <2> QED  BY <2>1, <2>2
<1> QED
  BY <1>10, <1>11

\* The small letters of a text are those of what Underscore makes of it.
LEMMA LettersKept ==
    ASSUME NEW E, NEW s \in Seq(E)
    PROVE  /\ Underscore(s) \in Seq(Lower(E))
           /\ Letters(Underscore(s)) = Letters([i \in DOMAIN s |-> ToLower(s[i])])
<1> DEFINE len == Len(s)
           low == [i \in DOMAIN s |-> ToLower(s[i])]
<1>1. PICK f \in [0..len -> Buffers(E)] :
         /\ f[0] = NewBuffer /\ (\A n \in 1..len : f[n] = Write(f[n - 1], s[n]))
         /\ Underscore(s) = Flush(f[len])
  BY UnderscoreRounds
<1>2. len \in Nat /\ \A n \in 1..len : s[n] \in E
  OBVIOUS
<1>3. low \in Seq(Lower(E)) /\ Len(low) = len /\ \A n \in 1..len : low[n] = ToLower(s[n])
  <2>1. DOMAIN s = 1..len /\ \A n \in 1..len : ToLower(s[n]) \in Lower(E)
    BY <1>2, SmallLetters
  <2>2. low = [i \in 1..len |-> ToLower(s[i])]
    BY <2>1, Zenon
  <2> HIDE DEF low, len
  <2> QED  BY <1>2, <2>1, <2>2
<1> HIDE DEF low
<1>4. PICK g : /\ g[0] = <<>> /\ (\A n \in 1..len : g[n] = Keep(g[n - 1], low[n]))
               /\ Letters(low) = g[len]
  BY <1>3, LettersRounds
<1> HIDE DEF len
<1>5. \A n \in 0..len : Letters(Pending(f[n])) = g[n]
  <2> DEFINE T == {n \in 0..len : Letters(Pending(f[n])) = g[n]}
  <2>1. 0 \in T
    <3>1. Pending(NewBuffer) = <<>>
      BY Zenon DEF Pending, NewBuffer, Buffer
    <3>2. Letters(Pending(f[0])) = g[0]
      BY <1>1, <1>4, <3>1, LettersAppend
    <3> QED  BY <1>2, <3>2
  <2>2. ASSUME NEW n \in 1..len, n - 1 \in T PROVE n \in T
    <3>1. f[n - 1] \in Buffers(E) /\ Letters(Pending(f[n - 1])) = g[n - 1]
      BY <1>1, <2>2
    <3>2. Letters(Pending(Write(f[n - 1], s[n]))) = Keep(Letters(Pending(f[n - 1])), ToLower(s[n]))
      BY <1>2, <3>1, WriteLetters
    <3>3. Letters(Pending(f[n])) = g[n]
      BY <1>1, <1>3, <1>4, <3>1, <3>2
    <3> QED  BY <3>3
  <2>3. \A n \in 0..len : n \in T
    <3> HIDE DEF T
    <3> QED  BY <1>2, <2>1, <2>2, UpTo
  <2> QED  BY <2>3
<1>6. f[len] \in Buffers(E) /\ Letters(Pending(f[len])) = g[len]
  BY <1>1, <1>2, <1>5
<1>7. Flush(f[len]) \in Seq(Lower(E)) /\ Letters(Flush(f[len])) = g[len]
  <2>1. CASE len = 0
    <3>1. Flush(NewBuffer) = <<>>
      BY Zenon DEF Flush, NewBuffer, Buffer
    <3>2. Flush(f[len]) = <<>> /\ g[len] = <<>>
      BY <1>1, <1>4, <2>1, <3>1
    <3> QED  BY <3>2, EmptySeq, LettersAppend
  <2>2. CASE len # 0
    <3>1. s[len] \in E
      BY <1>2, <2>2
    <3> QED  BY <1>6, <3>1, WriteLetters
  <2> QED  BY <2>1, <2>2
<1> QED
  BY <1>1, <1>4, <1>7, Zenon DEF low

\* Underscore leaves a text without capitals alone.
LEMMA LowerStays ==
    ASSUME NEW E, NEW t \in Seq(E), \A ch \in E : ch \notin Upper PROVE Underscore(t) = t
<1> DEFINE len == Len(t)
<1>1. PICK f \in [0..len -> Buffers(E)] :
         /\ f[0] = NewBuffer /\ (\A n \in 1..len : f[n] = Write(f[n - 1], t[n]))
         /\ Underscore(t) = Flush(f[len])
  BY UnderscoreRounds
<1>2. len \in Nat /\ \A n \in 1..len : t[n] \in E
  OBVIOUS
<1>3. \A n \in 0..len : f[n].out = SubSeq(t, 1, n) /\ f[n].m = ""
  <2> DEFINE Done(b, n) == b.out = SubSeq(t, 1, n) /\ b.m = ""
             T == {n \in 0..len : Done(f[n], n)}
  <2>1. 0 \in T
    <3>1. SubSeq(t, 1, 0) = <<>>
      BY SubSeqEmpty
    <3>2. NewBuffer.out = <<>> /\ NewBuffer.m = ""
      BY Zenon DEF NewBuffer, Buffer
    <3>3. Done(f[0], 0)
      BY <1>1, <3>1, <3>2, Zenon
    <3> HIDE DEF Done
    <3> QED  BY <1>2, <3>3
  <2>2. ASSUME NEW n \in 1..len, n - 1 \in T PROVE n \in T
    <3> DEFINE b == f[n - 1]
    <3>1. Done(b, n - 1)
      BY <2>2
    <3>2. t[n] \notin Upper /\ f[n] = Write(b, t[n])
      BY <1>1, <1>2
    <3> HIDE DEF b
    <3>3. f[n].out = Append(b.out, t[n]) /\ f[n].m = ""
      <4>1. Write(b, t[n]).out = Append(b.out, t[n]) /\ Write(b, t[n]).m = ""
        BY <3>1, <3>2 DEF Write, Buffer
      <4> QED  BY <3>2, <4>1, Zenon
    <3>4. Append(SubSeq(t, 1, n - 1), t[n]) = SubSeq(t, 1, n)
      <4>1. SubSeq(t, 1, n - 1) \in Seq(E) /\ t[n] \in E
        BY <1>2, SubSeqProperties
      <4>2. SubSeq(t, 1, n) = SubSeq(t, 1, n - 1) \o <<t[n]>>
        <5>1. 1 \in 1..Len(t) /\ n \in 1..Len(t)
          BY <1>2
        <5> QED  BY <5>1, SubSeqRecursiveSecond
      <4>3. SubSeq(t, 1, n - 1) \o <<t[n]>> = Append(SubSeq(t, 1, n - 1), t[n])
        BY <4>1, AppendIsConcat
      <4> QED  BY <4>2, <4>3, Zenon
    <3>5. Done(f[n], n)
      BY <3>1, <3>3, <3>4, Zenon
    <3> HIDE DEF Done
    <3> QED  BY <1>2, <3>5
  <2>3. \A n \in 0..len : n \in T
    <3> HIDE DEF T
    <3> QED  BY <1>2, <2>1, <2>2, UpTo
  <2> QED  BY <2>3
<1>4. f[len].out = SubSeq(t, 1, len) /\ f[len].m = ""
  <2>1. len \in 0..len
    BY <1>2
  <2> QED  BY <1>3, <2>1, Zenon
<1>5. Flush(f[len]) = SubSeq(t, 1, len)
  BY <1>4, Zenon DEF Flush
<1> QED
  BY <1>1, <1>5, SubSeqFull

\* Underscore loses and adds no letter, and leaves alone what it has made.
LEMMA UnderscorePromise ==
    ASSUME answered, request.fn = "Underscore", request.in \in FieldNames, value = Compute
    PROVE  UnderscoreKeepsLetters
<1> DEFINE s == request.in
           E == Range(s)
<1>1. s \in Seq(E)
  BY LibraryAssumption DEF Texts
<1>2. value = <<Underscore(s), Underscore(Underscore(s))>>
  BY DEF Compute
<1> HIDE DEF s, E
<1>3. /\ Underscore(s) \in Seq(Lower(E))
      /\ Letters(Underscore(s)) = Letters([i \in DOMAIN s |-> ToLower(s[i])])
  BY <1>1, LettersKept
<1>4. Underscore(Underscore(s)) = Underscore(s)
  BY <1>3, SmallLetters, LowerStays
<1> QED
  BY <1>2, <1>3, <1>4 DEF UnderscoreKeepsLetters, Answered, in, s

-----------------------------------------------------------------------------
(* SpellNumberRec *)

\* The forms by their bounds.
LEMMA Bounds ==
    ASSUME NEW n \in Nat
    PROVE  /\ n \in Satuan <=> n >= 1 /\ n <= 11
           /\ n \in Belas <=> n >= 12 /\ n <= 19
           /\ n \in Puluh <=> n >= 20 /\ n <= 99
           /\ n \in Seratus <=> n >= 100 /\ n <= 199
           /\ n \in Ratus <=> n >= 200 /\ n <= 999
           /\ n \in Seribu <=> n >= Thousand /\ n <= 1999
           /\ n \in Ribu <=> n >= 2000 /\ n < Million
           /\ n \in Juta <=> n >= Million /\ n < Thousand * Million
<1>0. Million \in Int /\ Thousand = 1000
  BY SMT DEF Million, Thousand
<1>1. n \in Ribu <=> n >= 2000 /\ n < Million
  BY <1>0, SMT DEF Ribu
<1>2. n \in Juta <=> n >= Million /\ n < Thousand * Million
  BY <1>0, SMT DEF Juta
<1> QED
  BY <1>0, <1>1, <1>2, SMT DEF Satuan, Belas, Puluh, Seratus, Ratus, Seribu

\* How a number is spelled, by its form.
OneForm(f, n, i) ==
    /\ n = 0 => Spelt(f, n, i) = Space(i)
    /\ n \in Satuan => Spelt(f, n, i) = Space(i) \o <<Huruf[n]>>
    /\ n \in Belas => Spelt(f, n, i) = f[n - 10][i] \o <<Gap, "belas">>
    /\ n \in Puluh => Spelt(f, n, i) = f[n \div 10][i] \o <<Gap, "puluh">> \o f[n % 10][1]
    /\ n \in Seratus => Spelt(f, n, i) = Space(i) \o <<"seratus">> \o f[n - 100][1]
    /\ n \in Ratus => Spelt(f, n, i) = f[n \div 100][i] \o <<Gap, "ratus">> \o f[n % 100][1]
    /\ n \in Seribu => Spelt(f, n, i) = Space(i) \o <<"seribu">> \o f[n - Thousand][1]
    /\ n \in Ribu => Spelt(f, n, i) = f[n \div Thousand][i] \o <<"ribu">> \o f[n % Thousand][1]
    /\ n \in Juta =>
          Spelt(f, n, i) = f[n \div Million][i] \o <<Gap, "juta">> \o f[n % Million][1]
    /\ n >= Thousand * Million => Spelt(f, n, i) = <<>>

\* A number is spelled in one way.
LEMMA SpeltForms ==
    ASSUME NEW n \in Nat, NEW i, NEW f PROVE OneForm(f, n, i)
<1> USE DEF OneForm
<1>1. CASE n = 0
  <2>1. /\ n \notin Satuan /\ n \notin Belas /\ n \notin Puluh /\ n \notin Seratus /\ n \notin Ratus
        /\ n \notin Seribu /\ n \notin Ribu /\ n \notin Juta /\ ~(n >= Thousand * Million)
    BY <1>1, Bounds, SMT DEF Million, Thousand
  <2> QED  BY <1>1, <2>1, ZenonT(60) DEF Spelt
<1>2. CASE n \in Satuan
  <2>1. /\ n # 0 /\ n \notin Belas /\ n \notin Puluh /\ n \notin Seratus /\ n \notin Ratus
        /\ n \notin Seribu /\ n \notin Ribu /\ n \notin Juta /\ ~(n >= Thousand * Million)
    BY <1>2, Bounds, SMT DEF Million, Thousand
  <2> QED  BY <1>2, <2>1, ZenonT(60) DEF Spelt
<1>3. CASE n \in Belas
  <2>1. /\ n # 0 /\ n \notin Satuan /\ n \notin Puluh /\ n \notin Seratus /\ n \notin Ratus
        /\ n \notin Seribu /\ n \notin Ribu /\ n \notin Juta /\ ~(n >= Thousand * Million)
    BY <1>3, Bounds, SMT DEF Million, Thousand
  <2> QED  BY <1>3, <2>1, ZenonT(60) DEF Spelt
<1>4. CASE n \in Puluh
  <2>1. /\ n # 0 /\ n \notin Satuan /\ n \notin Belas /\ n \notin Seratus /\ n \notin Ratus
        /\ n \notin Seribu /\ n \notin Ribu /\ n \notin Juta /\ ~(n >= Thousand * Million)
    BY <1>4, Bounds, SMT DEF Million, Thousand
  <2> QED  BY <1>4, <2>1, ZenonT(60) DEF Spelt
<1>5. CASE n \in Seratus
  <2>1. /\ n # 0 /\ n \notin Satuan /\ n \notin Belas /\ n \notin Puluh /\ n \notin Ratus
        /\ n \notin Seribu /\ n \notin Ribu /\ n \notin Juta /\ ~(n >= Thousand * Million)
    BY <1>5, Bounds, SMT DEF Million, Thousand
  <2> QED  BY <1>5, <2>1, ZenonT(60) DEF Spelt
<1>6. CASE n \in Ratus
  <2>1. /\ n # 0 /\ n \notin Satuan /\ n \notin Belas /\ n \notin Puluh /\ n \notin Seratus
        /\ n \notin Seribu /\ n \notin Ribu /\ n \notin Juta /\ ~(n >= Thousand * Million)
    BY <1>6, Bounds, SMT DEF Million, Thousand
  <2> QED  BY <1>6, <2>1, ZenonT(60) DEF Spelt
<1>7. CASE n \in Seribu
  <2>1. /\ n # 0 /\ n \notin Satuan /\ n \notin Belas /\ n \notin Puluh /\ n \notin Seratus
        /\ n \notin Ratus /\ n \notin Ribu /\ n \notin Juta /\ ~(n >= Thousand * Million)
    BY <1>7, Bounds, SMT DEF Million, Thousand
  <2> QED  BY <1>7, <2>1, ZenonT(60) DEF Spelt
<1>8. CASE n \in Ribu
  <2>1. /\ n # 0 /\ n \notin Satuan /\ n \notin Belas /\ n \notin Puluh /\ n \notin Seratus
        /\ n \notin Ratus /\ n \notin Seribu /\ n \notin Juta /\ ~(n >= Thousand * Million)
    BY <1>8, Bounds, SMT DEF Million, Thousand
  <2> QED  BY <1>8, <2>1, ZenonT(60) DEF Spelt
<1>9. CASE n \in Juta
  <2>1. /\ n # 0 /\ n \notin Satuan /\ n \notin Belas /\ n \notin Puluh /\ n \notin Seratus
        /\ n \notin Ratus /\ n \notin Seribu /\ n \notin Ribu /\ ~(n >= Thousand * Million)
    BY <1>9, Bounds, SMT DEF Million, Thousand
  <2> QED  BY <1>9, <2>1, ZenonT(60) DEF Spelt
<1>10. CASE n >= Thousand * Million
  <2>1. /\ n # 0 /\ n \notin Satuan /\ n \notin Belas /\ n \notin Puluh /\ n \notin Seratus
        /\ n \notin Ratus /\ n \notin Seribu /\ n \notin Ribu /\ n \notin Juta
    BY <1>10, Bounds, SMT DEF Million, Thousand
  <2> QED  BY <1>10, <2>1, ZenonT(60) DEF Spelt
<1>11. \/ n = 0 \/ n \in Satuan \/ n \in Belas \/ n \in Puluh \/ n \in Seratus \/ n \in Ratus
       \/ n \in Seribu \/ n \in Ribu \/ n \in Juta \/ n >= Thousand * Million
  BY Bounds, SMT DEF Million, Thousand
<1> QED
  BY <1>1, <1>2, <1>3, <1>4, <1>5, <1>6, <1>7, <1>8, <1>9, <1>10, <1>11, Zenon

\* What spelling a number uses of the spelling of smaller ones.
LEMMA SpeltUses ==
    ASSUME NEW n \in Nat, NEW i \in {0, 1}, NEW f, NEW g,
           \A k \in 0..n - 1, j \in {0, 1} : f[k][j] = g[k][j]
    PROVE  Spelt(f, n, i) = Spelt(g, n, i)
<1> DEFINE Below(k) == k \in 0..n - 1
<1>1. \A k : Below(k) => f[k][i] = g[k][i] /\ f[k][1] = g[k][1]
  OBVIOUS
<1>2. /\ n \in Belas => Below(n - 10)
      /\ n \in Puluh => Below(n \div 10) /\ Below(n % 10)
      /\ n \in Seratus => Below(n - 100)
      /\ n \in Ratus => Below(n \div 100) /\ Below(n % 100)
      /\ n \in Seribu => Below(n - Thousand)
      /\ n \in Ribu => Below(n \div Thousand) /\ Below(n % Thousand)
      /\ n \in Juta => Below(n \div Million) /\ Below(n % Million)
  BY Bounds, SMT DEF Thousand, Million
<1>3. \/ n = 0 \/ n \in Satuan \/ n \in Belas \/ n \in Puluh \/ n \in Seratus \/ n \in Ratus
      \/ n \in Seribu \/ n \in Ribu \/ n \in Juta \/ n >= Thousand * Million
  BY Bounds, SMT DEF Thousand, Million
<1>14. OneForm(f, n, i) /\ OneForm(g, n, i)
  BY SpeltForms
<1> HIDE DEF Below
<1>4. CASE n = 0
  BY <1>1, <1>2, <1>4, <1>14, ZenonT(60) DEF OneForm
<1>5. CASE n \in Satuan
  BY <1>1, <1>2, <1>5, <1>14, ZenonT(60) DEF OneForm
<1>6. CASE n \in Belas
  <2>1. f[n - 10][i] = g[n - 10][i]
    BY <1>1, <1>2, <1>6, Zenon
  <2> QED  BY <1>6, <1>14, <2>1, ZenonT(60) DEF OneForm
<1>7. CASE n \in Puluh
  <2>1. f[n \div 10][i] = g[n \div 10][i] /\ f[n % 10][1] = g[n % 10][1]
    BY <1>1, <1>2, <1>7, Zenon
  <2> QED  BY <1>7, <1>14, <2>1, ZenonT(60) DEF OneForm
<1>8. CASE n \in Seratus
  BY <1>1, <1>2, <1>8, <1>14, ZenonT(60) DEF OneForm
<1>9. CASE n \in Ratus
  <2>1. f[n \div 100][i] = g[n \div 100][i] /\ f[n % 100][1] = g[n % 100][1]
    BY <1>1, <1>2, <1>9, Zenon
  <2> QED  BY <1>9, <1>14, <2>1, ZenonT(60) DEF OneForm
<1>10. CASE n \in Seribu
  BY <1>1, <1>2, <1>10, <1>14, ZenonT(60) DEF OneForm
<1>11. CASE n \in Ribu
  <2>1. f[n \div Thousand][i] = g[n \div Thousand][i] /\ f[n % Thousand][1] = g[n % Thousand][1]
    BY <1>1, <1>2, <1>11, Zenon
  <2> QED  BY <1>11, <1>14, <2>1, ZenonT(60) DEF OneForm
<1>12. CASE n \in Juta
  <2>1. f[n \div Million][i] = g[n \div Million][i] /\ f[n % Million][1] = g[n % Million][1]
    BY <1>1, <1>2, <1>12, Zenon
  <2> QED  BY <1>12, <1>14, <2>1, ZenonT(60) DEF OneForm
<1>13. CASE n >= Thousand * Million
  BY <1>1, <1>2, <1>13, <1>14, ZenonT(60) DEF OneForm
<1> QED
  BY <1>3, <1>4, <1>5, <1>6, <1>7, <1>8, <1>9, <1>10, <1>11, <1>12, <1>13, Zenon

\* The table of the spellings of the numbers up to one.
Spells(f, num) == f = [n \in 0..num |-> [i \in {0, 1} |-> Spelt(f, n, i)]]

\* There is such a table for every number.
LEMMA SpellsUpTo == \A num \in Nat : \E f : Spells(f, num)
<1> SUFFICES ASSUME NEW num \in Nat PROVE \E f : Spells(f, num)
  OBVIOUS
<1> DEFINE T == {k \in 0..num : \E f : Spells(f, k)}
<1>0. ASSUME NEW k \in 0..num, NEW g, DOMAIN g = 0..k, g = [n \in DOMAIN g |-> g[n]],
             \A n \in 0..k : g[n] = [i \in {0, 1} |-> Spelt(g, n, i)]
      PROVE  Spells(g, k)
  BY <1>0, Zenon DEF Spells
<1>1. 0 \in T
  <2> DEFINE e == [n \in 0..0 |-> [i \in {0, 1} |-> Space(i)]]
  <2>1. \A n \in 0..0 : e[n] = [i \in {0, 1} |-> Spelt(e, n, i)]
    <3>1. e[0] = [i \in {0, 1} |-> Space(i)]
      OBVIOUS
    <3> HIDE DEF e
    <3>2. \A i \in {0, 1} : Spelt(e, 0, i) = Space(i)
      <4> TAKE i \in {0, 1}
      <4>1. OneForm(e, 0, i)
        BY SpeltForms
      <4> QED  BY <4>1, Zenon DEF OneForm
    <3> QED  BY <3>1, <3>2
  <2>2. DOMAIN e = 0..0 /\ e = [n \in DOMAIN e |-> e[n]]
    OBVIOUS
  <2>3. 0 \in 0..num
    OBVIOUS
  <2> HIDE DEF e
  <2>4. Spells(e, 0)
    BY <1>0, <2>1, <2>2, <2>3
  <2> QED  BY <2>3, <2>4
<1>2. ASSUME NEW k \in 1..num, k - 1 \in T PROVE k \in T
  <2>1. PICK f : Spells(f, k - 1)
    BY <1>2
  <2> DEFINE g == [n \in 0..k |-> IF n = k THEN [i \in {0, 1} |-> Spelt(f, k, i)] ELSE f[n]]
  <2>2. \A n \in 0..k : g[n] = IF n = k THEN [i \in {0, 1} |-> Spelt(f, k, i)] ELSE f[n]
    OBVIOUS
  <2>3. DOMAIN g = 0..k /\ g = [n \in DOMAIN g |-> g[n]]
    OBVIOUS
  <2>4. \A n \in 0..k - 1 : f[n] = [i \in {0, 1} |-> Spelt(f, n, i)]
    BY <2>1 DEF Spells
  <2> HIDE DEF g
  <2>5. \A n \in 0..k - 1 : g[n] = f[n]
    <3> TAKE n \in 0..k - 1
    <3>1. n \in 0..k /\ n # k
      OBVIOUS
    <3> QED  BY <2>2, <3>1, Zenon
  <2>6. ASSUME NEW n \in 0..k PROVE g[n] = [i \in {0, 1} |-> Spelt(g, n, i)]
    <3>1. ASSUME NEW i \in {0, 1} PROVE Spelt(g, n, i) = Spelt(f, n, i)
      <4>1. n \in Nat /\ \A m \in 0..n - 1, j \in {0, 1} : g[m][j] = f[m][j]
        BY <2>5
      <4> QED  BY <4>1, SpeltUses
    <3>2. g[n] = [i \in {0, 1} |-> Spelt(f, n, i)]
      <4>1. CASE n = k
        BY <2>2, <4>1
      <4>2. CASE n \in 0..k - 1
        BY <2>4, <2>5, <4>2
      <4> QED  BY <4>1, <4>2
    <3> QED  BY <3>1, <3>2
  <2> QED  BY <1>0, <2>3, <2>6
<1>3. \A k \in 0..num : k \in T
  <2> HIDE DEF T
  <2> QED  BY <1>1, <1>2, UpTo
<1> QED
  BY <1>3

\* The words of a spelling, and what is heard of them.
Units == {Huruf[i] : i \in 1..11}
Spoken == Units \cup {Gap, "belas", "puluh", "seratus", "ratus", "seribu", "ribu", "juta"}
Said == Int \X Int \X Int

\* A unit is heard as what it stands for.
LEMMA UnitWords ==
    /\ DOMAIN Unit = Units
    /\ \A i \in 1..11 : Unit[Huruf[i]] = i
<1>1. DOMAIN Huruf = 1..11
  BY DEF Huruf
<1>2. \A i, j \in 1..11 : Huruf[i] = Huruf[j] => i = j
  BY DEF Huruf
<1> HIDE DEF Huruf
<1>3. Range(Huruf) = Units
  BY <1>1, Zenon DEF Range, Units
<1>4. ASSUME NEW i \in 1..11 PROVE Unit[Huruf[i]] = i
  <2>1. Unit[Huruf[i]] = CHOOSE j \in 1..11 : Huruf[j] = Huruf[i]
    <3>1. Huruf[i] \in Range(Huruf)
      BY <1>3 DEF Units
    <3> QED  BY <1>1, <3>1, Zenon DEF Unit
  <2>2. \E j \in 1..11 : Huruf[j] = Huruf[i]
    OBVIOUS
  <2>3. PICK j \in 1..11 : j = Unit[Huruf[i]] /\ Huruf[j] = Huruf[i]
    BY <2>1, <2>2, Zenon
  <2> QED  BY <1>2, <2>3
<1> QED
  BY <1>3, <1>4, Zenon DEF Unit

\* The other words are no units.
LEMMA OtherWords ==
    /\ Gap \notin Units /\ "belas" \notin Units /\ "puluh" \notin Units /\ "seratus" \notin Units
    /\ "ratus" \notin Units /\ "seribu" \notin Units /\ "ribu" \notin Units /\ "juta" \notin Units
<1>1. \A i \in 1..11 : Huruf[i] # Gap
  <2>1. \A i \in 1..11 : Huruf[i] \in {"satu", "dua", "tiga", "empat", "lima", "enam", "tujuh",
                                       "delapan", "sembilan", "sepuluh", "sebelas"}
    BY SMT DEF Huruf
  <2> QED  BY <2>1, Zenon DEF Gap
<1>2. \A i \in 1..11 : Huruf[i] # "belas"
  BY SMT DEF Huruf
<1>3. \A i \in 1..11 : Huruf[i] # "puluh"
  BY SMT DEF Huruf
<1>4. \A i \in 1..11 : Huruf[i] # "seratus"
  BY SMT DEF Huruf
<1>5. \A i \in 1..11 : Huruf[i] # "ratus"
  BY SMT DEF Huruf
<1>6. \A i \in 1..11 : Huruf[i] # "seribu"
  BY SMT DEF Huruf
<1>7. \A i \in 1..11 : Huruf[i] # "ribu"
  BY SMT DEF Huruf
<1>8. \A i \in 1..11 : Huruf[i] # "juta"
  BY SMT DEF Huruf
<1> QED
  BY <1>1, <1>2, <1>3, <1>4, <1>5, <1>6, <1>7, <1>8, Zenon DEF Units

\* What each word adds to what has been said.
HearsAll(a, b, c) ==
    /\ Hear(<<a, b, c>>, Gap) = <<a, b, c>>
    /\ \A i \in 1..11 : Hear(<<a, b, c>>, Huruf[i]) = <<a, b + c, i>>
    /\ Hear(<<a, b, c>>, "belas") = <<a, b + c + 10, 0>>
    /\ Hear(<<a, b, c>>, "puluh") = <<a, b + 10 * c, 0>>
    /\ Hear(<<a, b, c>>, "seratus") = <<a, b + c + 100, 0>>
    /\ Hear(<<a, b, c>>, "ratus") = <<a, b + 100 * c, 0>>
    /\ Hear(<<a, b, c>>, "seribu") = <<a + (b + c) + Thousand, 0, 0>>
    /\ Hear(<<a, b, c>>, "ribu") = <<a + Thousand * (b + c), 0, 0>>
    /\ Hear(<<a, b, c>>, "juta") = <<a + Million * (b + c), 0, 0>>

\* Hear says it.
LEMMA HearWords == ASSUME NEW a \in Int, NEW b \in Int, NEW c \in Int PROVE HearsAll(a, b, c)
<1> DEFINE said == <<a, b, c>>
<1>1. said[1] = a /\ said[2] = b /\ said[3] = c
  OBVIOUS
<1> HIDE DEF said
<1>2. ASSUME NEW i \in 1..11 PROVE Hear(said, Huruf[i]) = <<a, b + c, i>>
  <2>1. Huruf[i] \in Units /\ Huruf[i] # Gap /\ Huruf[i] # "belas" /\ Huruf[i] # "puluh"
        /\ Huruf[i] # "seratus" /\ Huruf[i] # "ratus" /\ Huruf[i] # "seribu" /\ Huruf[i] # "ribu"
        /\ Huruf[i] # "juta"
    BY OtherWords, Zenon DEF Units
  <2> QED  BY <1>1, <2>1, UnitWords, Zenon DEF Hear
<1>3. Hear(said, Gap) = said
  BY UnitWords, OtherWords, Zenon DEF Hear, Gap
<1>4. Hear(said, "belas") = <<a, b + c + 10, 0>>
  BY <1>1, UnitWords, OtherWords, Zenon DEF Hear, Gap
<1>5. Hear(said, "puluh") = <<a, b + 10 * c, 0>>
  BY <1>1, UnitWords, OtherWords, Zenon DEF Hear, Gap
<1>6. Hear(said, "seratus") = <<a, b + c + 100, 0>>
  BY <1>1, UnitWords, OtherWords, Zenon DEF Hear, Gap
<1>7. Hear(said, "ratus") = <<a, b + 100 * c, 0>>
  BY <1>1, UnitWords, OtherWords, Zenon DEF Hear, Gap
<1>8. Hear(said, "seribu") = <<a + (b + c) + Thousand, 0, 0>>
  BY <1>1, UnitWords, OtherWords, Zenon DEF Hear, Gap
<1>9. Hear(said, "ribu") = <<a + Thousand * (b + c), 0, 0>>
  BY <1>1, UnitWords, OtherWords, Zenon DEF Hear, Gap
<1>10. Hear(said, "juta") = <<a + Million * (b + c), 0, 0>>
  BY <1>1, UnitWords, OtherWords, Zenon DEF Hear, Gap
<1> QED
  BY <1>2, <1>3, <1>4, <1>5, <1>6, <1>7, <1>8, <1>9, <1>10, Zenon DEF HearsAll, said

\* What has been said stays three numbers.
LEMMA HearKeeps == \A x \in Said, word \in Spoken : Hear(x, word) \in Said
<1> SUFFICES ASSUME NEW x \in Said, NEW word \in Spoken PROVE Hear(x, word) \in Said
  OBVIOUS
<1>1. PICK a \in Int, b \in Int, c \in Int : x = <<a, b, c>>
  BY DEF Said
<1>2. HearsAll(a, b, c)
  BY HearWords
<1>3. Thousand \in Int /\ Million \in Int
  BY SMT DEF Thousand, Million
<1>4. /\ a + (b + c) + Thousand \in Int /\ a + Thousand * (b + c) \in Int
      /\ a + Million * (b + c) \in Int /\ b + c \in Int /\ b + c + 10 \in Int /\ b + 10 * c \in Int
      /\ b + c + 100 \in Int /\ b + 100 * c \in Int
  BY <1>3, SMT
<1>5. \A p, q, r \in Int : <<p, q, r>> \in Said
  BY DEF Said
<1>6. \A i \in 1..11 : Hear(<<a, b, c>>, Huruf[i]) \in Said
  <2> TAKE i \in 1..11
  <2>1. a \in Int /\ i \in Int
    OBVIOUS
  <2>2. <<a, b + c, i>> \in Said
    BY <1>4, <1>5, <2>1, Zenon
  <2> QED  BY <1>2, <2>2, Zenon DEF HearsAll
<1>7. /\ Hear(<<a, b, c>>, Gap) \in Said /\ Hear(<<a, b, c>>, "belas") \in Said
      /\ Hear(<<a, b, c>>, "puluh") \in Said /\ Hear(<<a, b, c>>, "seratus") \in Said
      /\ Hear(<<a, b, c>>, "ratus") \in Said /\ Hear(<<a, b, c>>, "seribu") \in Said
      /\ Hear(<<a, b, c>>, "ribu") \in Said /\ Hear(<<a, b, c>>, "juta") \in Said
  <2>1. 0 \in Int /\ a \in Int /\ b \in Int /\ c \in Int
    BY <1>1
  <2>2. \A p, q \in Int : <<a, p, q>> \in Said /\ <<p, 0, 0>> \in Said
    BY <1>5, <2>1, Zenon
  <2>3. /\ <<a, b, c>> \in Said /\ <<a, b + c + 10, 0>> \in Said /\ <<a, b + 10 * c, 0>> \in Said
        /\ <<a, b + c + 100, 0>> \in Said /\ <<a, b + 100 * c, 0>> \in Said
    BY <1>4, <2>1, <2>2, Zenon
  <2>4. /\ <<a + (b + c) + Thousand, 0, 0>> \in Said /\ <<a + Thousand * (b + c), 0, 0>> \in Said
        /\ <<a + Million * (b + c), 0, 0>> \in Said
    BY <1>4, <2>2, Zenon
  <2> QED  BY <1>2, <2>3, <2>4, Zenon DEF HearsAll
<1>8. CASE word \in Units
  <2>1. PICK i \in 1..11 : word = Huruf[i]
    BY <1>8 DEF Units
  <2> QED  BY <1>1, <1>6, <2>1
<1>9. CASE word \notin Units
  BY <1>1, <1>7, <1>9 DEF Spoken
<1> QED
  BY <1>8, <1>9

\* What is heard, word by word.
LEMMA HeardRounds ==
    ASSUME NEW start \in Said, NEW s \in Seq(Spoken)
    PROVE  \E f \in [0..Len(s) -> Said] :
              /\ f[0] = start
              /\ \A n \in 1..Len(s) : f[n] = Hear(f[n - 1], s[n])
              /\ HeardAfter(start, s) = f[Len(s)]
<1> DEFINE len == Len(s)
           S == Said
           step == [n \in 1..len |-> [x \in S |-> Hear(x, s[n])]]
           Eq(f) == f = [n \in 0..len |-> IF n = 0 THEN start ELSE Hear(f[n - 1], s[n])]
           h == CHOOSE f : Eq(f)
<1>1. HeardAfter(start, s) = h[len]
  BY DEF HeardAfter
<1>2. len \in Nat /\ start \in S /\ \A n \in 1..len : \A x \in S : Hear(x, s[n]) \in S
  <2>1. len \in Nat /\ \A n \in 1..len : s[n] \in Spoken
    OBVIOUS
  <2>2. \A x \in S, e \in Spoken : Hear(x, e) \in S
    BY HearKeeps
  <2> HIDE DEF len, S
  <2> QED  BY <2>1, <2>2 DEF S
<1> HIDE DEF len, S
<1>3. Loop(S, start, len, step)
  BY <1>2 DEF Loop
<1>4. PICK g : Runs(S, start, len, step, g)
  <2> HIDE DEF step
  <2> QED  BY <1>3, LoopRuns
<1>5. \A n \in 1..len : g[n] = Hear(g[n - 1], s[n])
  <2> TAKE n \in 1..len
  <2>1. g[n - 1] \in S
    BY <1>2, <1>4 DEF Runs
  <2> QED  BY <1>4, <2>1 DEF Runs
<1>6. Eq(g)
  <2>1. \A n \in 0..len : g[n] = IF n = 0 THEN start ELSE Hear(g[n - 1], s[n])
    BY <1>2, <1>4, <1>5 DEF Runs
  <2> QED  BY <1>4, <2>1 DEF Runs
<1>7. Eq(h)
  <2> HIDE DEF Eq
  <2> QED  BY <1>6
<1> HIDE DEF h
<1>8. h[0] = start /\ \A n \in 1..len : h[n] = Hear(h[n - 1], s[n])
  <2>1. \A n \in 0..len : h[n] = IF n = 0 THEN start ELSE Hear(h[n - 1], s[n])
    BY <1>7, Zenon
  <2>2. 0 \in 0..len /\ \A n \in 1..len : n \in 0..len /\ n # 0
    BY <1>2
  <2> QED  BY <2>1, <2>2, Zenon
<1>9. \A n \in 0..len : h[n] \in S
  <2>1. \A n \in 1..len : h[n - 1] \in S => h[n] \in S
    BY <1>2, <1>8
  <2> QED  BY <1>2, <1>8, <2>1, LoopKeeps
<1>10. h \in [0..len -> S]
  BY <1>7, <1>9
<1> QED
  BY <1>1, <1>8, <1>10 DEF len, S

\* Nothing, a word, and words after others.
LEMMA HeardParts ==
    ASSUME NEW start \in Said
    PROVE  /\ HeardAfter(start, <<>>) = start
           /\ \A w \in Spoken : HeardAfter(start, <<w>>) = Hear(start, w)
           /\ \A u \in Seq(Spoken) : HeardAfter(start, u) \in Said
           /\ \A u, v \in Seq(Spoken) :
                 HeardAfter(start, u \o v) = HeardAfter(HeardAfter(start, u), v)
<1>1. HeardAfter(start, <<>>) = start
  <2>1. <<>> \in Seq(Spoken) /\ Len(<<>>) = 0
    BY EmptySeq
  <2> DEFINE s == <<>>
  <2> HIDE DEF s
  <2>2. PICK f : f[0] = start /\ HeardAfter(start, s) = f[Len(s)]
    <3>1. s \in Seq(Spoken)
      BY <2>1 DEF s
    <3> QED  BY <3>1, HeardRounds
  <2> QED  BY <2>1, <2>2 DEF s
<1>2. ASSUME NEW w \in Spoken PROVE HeardAfter(start, <<w>>) = Hear(start, w)
  <2> DEFINE s == <<w>>
  <2>1. s \in Seq(Spoken) /\ Len(s) = 1 /\ s[1] = w
    OBVIOUS
  <2> HIDE DEF s
  <2>2. PICK f : /\ f[0] = start /\ (\A n \in 1..Len(s) : f[n] = Hear(f[n - 1], s[n]))
                 /\ HeardAfter(start, s) = f[Len(s)]
    BY <2>1, HeardRounds
  <2> QED  BY <2>1, <2>2 DEF s
<1>3. ASSUME NEW u \in Seq(Spoken) PROVE HeardAfter(start, u) \in Said
  <2>1. Len(u) \in Nat
    OBVIOUS
  <2> QED  BY <2>1, HeardRounds
<1>4. ASSUME NEW u \in Seq(Spoken), NEW v \in Seq(Spoken)
      PROVE  HeardAfter(start, u \o v) = HeardAfter(HeardAfter(start, u), v)
  <2> DEFINE t == u \o v
             m == Len(u)
             k == Len(v)
             mid == HeardAfter(start, u)
  <2>1. /\ t \in Seq(Spoken) /\ Len(t) = m + k /\ m \in Nat /\ k \in Nat
        /\ (\A n \in 1..m : t[n] = u[n]) /\ \A n \in 1..k : t[m + n] = v[n]
    OBVIOUS
  <2>2. PICK f : /\ f[0] = start /\ (\A n \in 1..m : f[n] = Hear(f[n - 1], u[n])) /\ mid = f[m]
    BY HeardRounds
  <2>3. PICK g : /\ g[0] = mid /\ (\A n \in 1..k : g[n] = Hear(g[n - 1], v[n]))
                 /\ HeardAfter(mid, v) = g[k]
    <3>1. mid \in Said
      BY <1>3
    <3> HIDE DEF mid
    <3>2. \E h \in [0..Len(v) -> Said] :
             /\ h[0] = mid /\ (\A n \in 1..Len(v) : h[n] = Hear(h[n - 1], v[n]))
             /\ HeardAfter(mid, v) = h[Len(v)]
      BY <3>1, HeardRounds, Zenon
    <3> QED  BY <3>2
  <2> HIDE DEF t
  <2>4. PICK h : /\ h[0] = start /\ (\A n \in 1..Len(t) : h[n] = Hear(h[n - 1], t[n]))
                 /\ HeardAfter(start, t) = h[Len(t)]
    BY <2>1, HeardRounds
  <2> HIDE DEF t, m, k, mid
  <2>5. \A n \in 0..m : h[n] = f[n]
    <3> DEFINE T == {x \in 0..m : h[x] = f[x]}
    <3>1. 0 \in T
      BY <2>1, <2>2, <2>4
    <3>2. ASSUME NEW n \in 1..m, n - 1 \in T PROVE n \in T
      <4>1. n \in 1..Len(t) /\ h[n - 1] = f[n - 1]
        BY <2>1, <3>2
      <4> QED  BY <2>1, <2>2, <2>4, <4>1
    <3>3. \A n \in 0..m : n \in T
      <4> HIDE DEF T
      <4> QED  BY <2>1, <3>1, <3>2, UpTo
    <3> QED  BY <3>3
  <2>6. \A n \in 0..k : h[m + n] = g[n]
    <3> DEFINE T == {x \in 0..k : h[m + x] = g[x]}
    <3>1. 0 \in T
      <4>1. h[m] = f[m]
        BY <2>1, <2>5
      <4> QED  BY <2>1, <2>2, <2>3, <4>1
    <3>2. ASSUME NEW n \in 1..k, n - 1 \in T PROVE n \in T
      <4>1. m + n \in 1..Len(t) /\ h[m + (n - 1)] = g[n - 1] /\ (m + n) - 1 = m + (n - 1)
        BY <2>1, <3>2
      <4>2. h[m + n] = Hear(h[m + (n - 1)], t[m + n])
        BY <2>4, <4>1
      <4>3. h[m + n] = g[n]
        BY <2>1, <2>3, <4>1, <4>2
      <4> QED  BY <4>3
    <3>3. \A n \in 0..k : n \in T
      <4> HIDE DEF T
      <4> QED  BY <2>1, <3>1, <3>2, UpTo
    <3> QED  BY <3>3
  <2>7. h[m + k] = g[k]
    BY <2>1, <2>6
  <2> QED  BY <2>1, <2>3, <2>4, <2>7 DEF t, mid
<1> QED
  BY <1>1, <1>2, <1>3, <1>4

\* What a part of a spelling stands for: a unit that waits for its place, ...
Unitary(w, n) == \A a, b \in Int : HeardAfter(<<a, b, 0>>, w) = <<a, b, n>>

\* ... what it adds to the group in hand, so that nothing waits, ...
Adds(w, n) == \A a, b \in Int : HeardAfter(<<a, b, 0>>, w) = <<a, b + n, 0>>

\* ... to the group with the unit, ...
AsGroup(w, n) ==
    \A a, b \in Int : \E c, d \in Int :
        HeardAfter(<<a, b, 0>>, w) = <<a, c, d>> /\ c + d = b + n

\* ... to the thousands and millions, so that no group is in hand, ...
Lifts(w, n) == \A a \in Int : HeardAfter(<<a, 0, 0>>, w) = <<a + n, 0, 0>>

\* ... and to all that has been said.
AsPart(w, n) ==
    \A a \in Int : \E c, d, e \in Int :
        HeardAfter(<<a, 0, 0>>, w) = <<c, d, e>> /\ (c + d) + e = a + n

\* Words after others.
LEMMA ThenHeard ==
    ASSUME NEW a \in Int, NEW b \in Int, NEW c \in Int, NEW u \in Seq(Spoken), NEW v \in Seq(Spoken)
    PROVE  HeardAfter(<<a, b, c>>, u \o v) = HeardAfter(HeardAfter(<<a, b, c>>, u), v)
<1>1. <<a, b, c>> \in Said
  BY DEF Said
<1> QED
  BY <1>1, HeardParts

\* Texts of one and two.
LEMMA OneTwo ==
    ASSUME NEW S, NEW x \in S, NEW y \in S
    PROVE  <<x>> \in Seq(S) /\ <<x, y>> \in Seq(S) /\ <<x, y>> = <<x>> \o <<y>>
<1>1. <<x>> \in Seq(S) /\ <<x, y>> \in Seq(S) /\ <<x, y>> = Append(<<x>>, y)
  OBVIOUS
<1> QED
  BY <1>1, AppendIsConcat

\* A blank, a word, a word after a blank.
LEMMA WordsHeard ==
    ASSUME NEW a \in Int, NEW b \in Int, NEW c \in Int
    PROVE  /\ HeardAfter(<<a, b, c>>, <<>>) = <<a, b, c>>
           /\ \A w \in Spoken :
                 /\ <<w>> \in Seq(Spoken) /\ <<Gap>> \in Seq(Spoken) /\ <<Gap, w>> \in Seq(Spoken)
                 /\ HeardAfter(<<a, b, c>>, <<w>>) = Hear(<<a, b, c>>, w)
                 /\ HeardAfter(<<a, b, c>>, <<Gap, w>>) = Hear(<<a, b, c>>, w)
<1>1. <<a, b, c>> \in Said
  BY DEF Said
<1>2. ASSUME NEW w \in Spoken
      PROVE  /\ <<w>> \in Seq(Spoken) /\ <<Gap>> \in Seq(Spoken) /\ <<Gap, w>> \in Seq(Spoken)
             /\ HeardAfter(<<a, b, c>>, <<w>>) = Hear(<<a, b, c>>, w)
             /\ HeardAfter(<<a, b, c>>, <<Gap, w>>) = Hear(<<a, b, c>>, w)
  <2>0. Gap \in Spoken
    BY Zenon DEF Spoken
  <2>1. <<w>> \in Seq(Spoken) /\ <<Gap>> \in Seq(Spoken) /\ <<Gap, w>> = <<Gap>> \o <<w>>
        /\ <<Gap, w>> \in Seq(Spoken)
    BY <2>0, OneTwo
  <2>2. /\ HeardAfter(<<a, b, c>>, <<w>>) = Hear(<<a, b, c>>, w)
        /\ HeardAfter(<<a, b, c>>, <<Gap>>) = Hear(<<a, b, c>>, Gap)
    BY <1>1, <2>0, HeardParts, Zenon
  <2>3. Hear(<<a, b, c>>, Gap) = <<a, b, c>>
    <3>1. HearsAll(a, b, c)
      BY HearWords
    <3> QED  BY <3>1, Zenon DEF HearsAll
  <2>4. HeardAfter(<<a, b, c>>, <<Gap>> \o <<w>>) = HeardAfter(HeardAfter(<<a, b, c>>, <<Gap>>), <<w>>)
    <3> DEFINE u == <<Gap>>
               v == <<w>>
    <3>1. u \in Seq(Spoken) /\ v \in Seq(Spoken)
      BY <2>1
    <3> HIDE DEF u, v
    <3>2. HeardAfter(<<a, b, c>>, u \o v) = HeardAfter(HeardAfter(<<a, b, c>>, u), v)
      BY <3>1, ThenHeard
    <3> QED  BY <3>2, Zenon DEF u, v
  <2> QED  BY <2>1, <2>2, <2>3, <2>4, Zenon
<1> QED
  BY <1>1, <1>2, HeardParts

\* A blank adds nothing; the special words for one hundred and one thousand.
LEMMA SpaceHeard ==
    ASSUME NEW i \in {0, 1}
    PROVE  /\ Space(i) \in Seq(Spoken) /\ Adds(Space(i), 0)
           /\ \A w \in Spoken : /\ Space(i) \o <<w>> \in Seq(Spoken)
                                /\ \A a, b \in Int : HeardAfter(<<a, b, 0>>, Space(i) \o <<w>>)
                                                       = Hear(<<a, b, 0>>, w)
<1>0. Gap \in Spoken /\ 0 \in Int
  <2>1. Gap \in Spoken
    BY Zenon DEF Spoken
  <2> QED  BY <2>1
<1>1. Space(i) = <<>> \/ Space(i) = <<Gap>>
  BY Zenon DEF Space
<1>2. Space(i) \in Seq(Spoken)
  <2>1. <<>> \in Seq(Spoken) /\ <<Gap>> \in Seq(Spoken)
    BY <1>0
  <2> QED  BY <1>1, <2>1, Zenon
<1>3. \A a, b \in Int : HeardAfter(<<a, b, 0>>, Space(i)) = <<a, b, 0>>
  <2> TAKE a, b \in Int
  <2>1. Hear(<<a, b, 0>>, Gap) = <<a, b, 0>>
    <3>1. HearsAll(a, b, 0)
      BY <1>0, HearWords
    <3> QED  BY <3>1, Zenon DEF HearsAll
  <2>2. HeardAfter(<<a, b, 0>>, <<>>) = <<a, b, 0>>
    BY <1>0, WordsHeard
  <2>3. HeardAfter(<<a, b, 0>>, <<Gap>>) = Hear(<<a, b, 0>>, Gap)
    BY <1>0, WordsHeard
  <2> QED  BY <1>1, <2>1, <2>2, <2>3, Zenon
<1>4. Adds(Space(i), 0)
  <2>1. \A b \in Int : b + 0 = b
    OBVIOUS
  <2> QED  BY <1>3, <2>1, Zenon DEF Adds
<1>5. ASSUME NEW w \in Spoken
      PROVE  /\ Space(i) \o <<w>> \in Seq(Spoken)
             /\ \A a, b \in Int : HeardAfter(<<a, b, 0>>, Space(i) \o <<w>>) = Hear(<<a, b, 0>>, w)
  <2>1. <<w>> \in Seq(Spoken)
    OBVIOUS
  <2>2. Space(i) \o <<w>> \in Seq(Spoken)
    BY <1>2, <2>1, ConcatProperties
  <2>3. ASSUME NEW a \in Int, NEW b \in Int
        PROVE  HeardAfter(<<a, b, 0>>, Space(i) \o <<w>>) = Hear(<<a, b, 0>>, w)
    <3>1. HeardAfter(<<a, b, 0>>, Space(i) \o <<w>>)
            = HeardAfter(HeardAfter(<<a, b, 0>>, Space(i)), <<w>>)
      <4> DEFINE v == <<w>>
      <4>1. v \in Seq(Spoken)
        BY <2>1
      <4> HIDE DEF v
      <4>2. HeardAfter(<<a, b, 0>>, Space(i) \o v) = HeardAfter(HeardAfter(<<a, b, 0>>, Space(i)), v)
        BY <1>0, <1>2, <4>1, ThenHeard
      <4> QED  BY <4>2, Zenon DEF v
    <3>2. HeardAfter(<<a, b, 0>>, <<w>>) = Hear(<<a, b, 0>>, w)
      BY <1>0, WordsHeard
    <3> QED  BY <1>3, <3>1, <3>2, Zenon
  <2> QED  BY <2>2, <2>3
<1> QED
  BY <1>2, <1>4, <1>5

\* A unit stands for itself in its group; what is added, and what a group adds.
LEMMA Weaker ==
    ASSUME NEW w, NEW n \in Int
    PROVE  /\ Unitary(w, n) => AsGroup(w, n)
           /\ Adds(w, n) => AsGroup(w, n)
           /\ AsGroup(w, n) => AsPart(w, n)
<1>1. ASSUME Unitary(w, n) PROVE AsGroup(w, n)
  BY <1>1 DEF Unitary, AsGroup
<1>2. ASSUME Adds(w, n) PROVE AsGroup(w, n)
  <2> SUFFICES ASSUME NEW a \in Int, NEW b \in Int
               PROVE \E c, d \in Int : HeardAfter(<<a, b, 0>>, w) = <<a, c, d>> /\ c + d = b + n
    BY DEF AsGroup
  <2>1. b + n \in Int /\ 0 \in Int /\ (b + n) + 0 = b + n
    OBVIOUS
  <2>2. HeardAfter(<<a, b, 0>>, w) = <<a, b + n, 0>>
    BY <1>2 DEF Adds
  <2> QED  BY <2>1, <2>2, Zenon
<1>3. ASSUME AsGroup(w, n) PROVE AsPart(w, n)
  <2> SUFFICES ASSUME NEW a \in Int
               PROVE \E c, d, e \in Int :
                        HeardAfter(<<a, 0, 0>>, w) = <<c, d, e>> /\ (c + d) + e = a + n
    BY DEF AsPart
  <2>1. PICK c \in Int, d \in Int : HeardAfter(<<a, 0, 0>>, w) = <<a, c, d>> /\ c + d = 0 + n
    BY <1>3, 0 \in Int, Zenon DEF AsGroup
  <2>2. (a + c) + d = a + n
    BY <2>1
  <2> QED  BY <2>1, <2>2, Zenon
<1> QED
  BY <1>1, <1>2, <1>3

\* A group after what has been added to its group, and a part after what has been lifted.
LEMMA AfterWords ==
    ASSUME NEW w \in Seq(Spoken), NEW v \in Seq(Spoken), NEW m \in Int, NEW n \in Int
    PROVE  /\ Adds(w, m) /\ AsGroup(v, n) => AsGroup(w \o v, m + n)
           /\ Lifts(w, m) /\ AsPart(v, n) => AsPart(w \o v, m + n)
<1>1. ASSUME Adds(w, m), AsGroup(v, n) PROVE AsGroup(w \o v, m + n)
  <2> SUFFICES ASSUME NEW a \in Int, NEW b \in Int
               PROVE \E c, d \in Int : /\ HeardAfter(<<a, b, 0>>, w \o v) = <<a, c, d>>
                                       /\ c + d = b + (m + n)
    BY DEF AsGroup
  <2>1. b + m \in Int /\ 0 \in Int
    OBVIOUS
  <2>2. HeardAfter(<<a, b, 0>>, w \o v) = HeardAfter(<<a, b + m, 0>>, v)
    <3>1. HeardAfter(<<a, b, 0>>, w \o v) = HeardAfter(HeardAfter(<<a, b, 0>>, w), v)
      BY <2>1, ThenHeard
    <3> QED  BY <1>1, <3>1, Zenon DEF Adds
  <2>3. PICK c \in Int, d \in Int :
           HeardAfter(<<a, b + m, 0>>, v) = <<a, c, d>> /\ c + d = (b + m) + n
    BY <1>1, <2>1, Zenon DEF AsGroup
  <2>4. c + d = b + (m + n)
    BY <2>3
  <2> QED  BY <2>2, <2>3, <2>4, Zenon
<1>2. ASSUME Lifts(w, m), AsPart(v, n) PROVE AsPart(w \o v, m + n)
  <2> SUFFICES ASSUME NEW a \in Int
               PROVE \E c, d, e \in Int : /\ HeardAfter(<<a, 0, 0>>, w \o v) = <<c, d, e>>
                                          /\ (c + d) + e = a + (m + n)
    BY DEF AsPart
  <2>1. a + m \in Int /\ 0 \in Int
    OBVIOUS
  <2>2. HeardAfter(<<a, 0, 0>>, w \o v) = HeardAfter(<<a + m, 0, 0>>, v)
    <3>1. HeardAfter(<<a, 0, 0>>, w \o v) = HeardAfter(HeardAfter(<<a, 0, 0>>, w), v)
      BY <2>1, ThenHeard
    <3> QED  BY <1>2, <3>1, Zenon DEF Lifts
  <2>3. PICK c \in Int, d \in Int, e \in Int :
           HeardAfter(<<a + m, 0, 0>>, v) = <<c, d, e>> /\ (c + d) + e = (a + m) + n
    BY <1>2, <2>1, Zenon DEF AsPart
  <2>4. (c + d) + e = a + (m + n)
    BY <2>3
  <2> QED  BY <2>2, <2>3, <2>4, Zenon
<1> QED
  BY <1>1, <1>2

\* The words in which that is said.
LEMMA PlaceWords ==
    /\ "belas" \in Spoken /\ "puluh" \in Spoken /\ "seratus" \in Spoken /\ "ratus" \in Spoken
    /\ "seribu" \in Spoken /\ "ribu" \in Spoken /\ "juta" \in Spoken
BY SMT DEF Spoken

\* A word at the end of others.
LEMMA WordAtEnd ==
    ASSUME NEW u \in Seq(Spoken), NEW w \in Spoken
    PROVE  u \o <<Gap, w>> \in Seq(Spoken) /\ u \o <<w>> \in Seq(Spoken)
BY WordsHeard, ConcatProperties, 0 \in Int

\* The words that give a unit its place.
LEMMA UnitPlaced ==
    ASSUME NEW u \in Seq(Spoken), NEW q \in Int, Unitary(u, q)
    PROVE  /\ Adds(u \o <<Gap, "belas">>, q + 10)
           /\ Adds(u \o <<Gap, "puluh">>, 10 * q)
           /\ Adds(u \o <<Gap, "ratus">>, 100 * q)
<1>1. ASSUME NEW a \in Int, NEW b \in Int
      PROVE  /\ HeardAfter(<<a, b, 0>>, u \o <<Gap, "belas">>) = <<a, b + q + 10, 0>>
             /\ HeardAfter(<<a, b, 0>>, u \o <<Gap, "puluh">>) = <<a, b + 10 * q, 0>>
             /\ HeardAfter(<<a, b, 0>>, u \o <<Gap, "ratus">>) = <<a, b + 100 * q, 0>>
  <2>1. ASSUME NEW w \in Spoken
        PROVE  HeardAfter(<<a, b, 0>>, u \o <<Gap, w>>) = Hear(<<a, b, q>>, w)
    <3>1. <<Gap, w>> \in Seq(Spoken) /\ HeardAfter(<<a, b, q>>, <<Gap, w>>) = Hear(<<a, b, q>>, w)
      BY WordsHeard
    <3>2. HeardAfter(<<a, b, 0>>, u \o <<Gap, w>>)
            = HeardAfter(HeardAfter(<<a, b, 0>>, u), <<Gap, w>>)
      <4> DEFINE v == <<Gap, w>>
      <4>1. v \in Seq(Spoken) /\ 0 \in Int
        BY <3>1
      <4> HIDE DEF v
      <4>2. HeardAfter(<<a, b, 0>>, u \o v) = HeardAfter(HeardAfter(<<a, b, 0>>, u), v)
        BY <4>1, ThenHeard
      <4> QED  BY <4>2, Zenon DEF v
    <3> QED  BY <3>1, <3>2, Zenon DEF Unitary
  <2>2. HearsAll(a, b, q)
    BY HearWords
  <2> QED  BY PlaceWords, <2>1, <2>2, Zenon DEF HearsAll
<1>2. \A b \in Int : b + q + 10 = b + (q + 10)
  OBVIOUS
<1>3. Adds(u \o <<Gap, "belas">>, q + 10)
  <2> SUFFICES ASSUME NEW a \in Int, NEW b \in Int
               PROVE  HeardAfter(<<a, b, 0>>, u \o <<Gap, "belas">>) = <<a, b + (q + 10), 0>>
    BY Zenon DEF Adds
  <2> DEFINE heard == HeardAfter(<<a, b, 0>>, u \o <<Gap, "belas">>)
             sum == b + q + 10
             told == b + (q + 10)
  <2>1. heard = <<a, sum, 0>>
    BY <1>1
  <2>2. sum = told
    BY <1>2
  <2>3. heard = <<a, told, 0>>
    <3> HIDE DEF heard, sum, told
    <3> QED  BY <2>1, <2>2
  <2> QED  BY <2>3
<1>4. Adds(u \o <<Gap, "puluh">>, 10 * q)
  BY <1>1, Zenon DEF Adds
<1>5. Adds(u \o <<Gap, "ratus">>, 100 * q)
  BY <1>1, Zenon DEF Adds
<1> QED
  BY <1>3, <1>4, <1>5

\* The words that give a group its place.
LEMMA GroupPlaced ==
    ASSUME NEW u \in Seq(Spoken), NEW q \in Int, AsGroup(u, q)
    PROVE  Lifts(u \o <<"ribu">>, Thousand * q) /\ Lifts(u \o <<Gap, "juta">>, Million * q)
<1>1. ASSUME NEW a \in Int
      PROVE  /\ HeardAfter(<<a, 0, 0>>, u \o <<"ribu">>) = <<a + Thousand * q, 0, 0>>
             /\ HeardAfter(<<a, 0, 0>>, u \o <<Gap, "juta">>) = <<a + Million * q, 0, 0>>
  <2>1. PICK c \in Int, d \in Int : HeardAfter(<<a, 0, 0>>, u) = <<a, c, d>> /\ c + d = 0 + q
    BY 0 \in Int, Zenon DEF AsGroup
  <2>2. ASSUME NEW w \in Spoken
        PROVE  /\ HeardAfter(<<a, 0, 0>>, u \o <<Gap, w>>) = Hear(<<a, c, d>>, w)
               /\ HeardAfter(<<a, 0, 0>>, u \o <<w>>) = Hear(<<a, c, d>>, w)
    <3>1. /\ <<Gap, w>> \in Seq(Spoken) /\ HeardAfter(<<a, c, d>>, <<Gap, w>>) = Hear(<<a, c, d>>, w)
          /\ <<w>> \in Seq(Spoken) /\ HeardAfter(<<a, c, d>>, <<w>>) = Hear(<<a, c, d>>, w)
      BY <2>1, WordsHeard
    <3>2. /\ HeardAfter(<<a, 0, 0>>, u \o <<Gap, w>>) = HeardAfter(HeardAfter(<<a, 0, 0>>, u), <<Gap, w>>)
          /\ HeardAfter(<<a, 0, 0>>, u \o <<w>>) = HeardAfter(HeardAfter(<<a, 0, 0>>, u), <<w>>)
      <4> DEFINE v == <<Gap, w>>
                 x == <<w>>
      <4>1. v \in Seq(Spoken) /\ x \in Seq(Spoken) /\ 0 \in Int
        BY <3>1
      <4> HIDE DEF v, x
      <4>2. /\ HeardAfter(<<a, 0, 0>>, u \o v) = HeardAfter(HeardAfter(<<a, 0, 0>>, u), v)
            /\ HeardAfter(<<a, 0, 0>>, u \o x) = HeardAfter(HeardAfter(<<a, 0, 0>>, u), x)
        BY <4>1, ThenHeard
      <4> QED  BY <4>2, Zenon DEF v, x
    <3> QED  BY <2>1, <3>1, <3>2, Zenon
  <2>3. HearsAll(a, c, d) /\ c + d = q
    BY <2>1, HearWords
  <2> QED  BY PlaceWords, <2>2, <2>3, Zenon DEF HearsAll
<1> QED
  BY <1>1, Zenon DEF Lifts

\* What a spelling is understood as, as far as it is one.
Understood(w, n) ==
    /\ w \in Seq(Spoken)
    /\ n \in Satuan => Unitary(w, n)
    /\ n < Thousand => AsGroup(w, n)
    /\ n < Thousand * Million => AsPart(w, n)

\* It is enough to understand it as a group, or as a part of a large number.
LEMMA Enough ==
    ASSUME NEW w \in Seq(Spoken), NEW n \in Nat
    PROVE  /\ n \notin Satuan /\ AsGroup(w, n) => Understood(w, n)
           /\ n >= Thousand /\ AsPart(w, n) => Understood(w, n)
           /\ Unitary(w, n) => Understood(w, n)
<1>1. Unitary(w, n) => AsGroup(w, n)
  BY Weaker
<1>2. AsGroup(w, n) => AsPart(w, n)
  BY Weaker
<1>3. n >= Thousand => n \notin Satuan /\ ~(n < Thousand)
  BY Bounds, SMT DEF Thousand
<1> QED
  BY <1>1, <1>2, <1>3, Zenon DEF Understood

\* Spellings after one another, as groups and as parts.
LEMMA GroupAfter ==
    ASSUME NEW w \in Seq(Spoken), NEW v \in Seq(Spoken), NEW m \in Int, NEW r \in Int
    PROVE  /\ w \o v \in Seq(Spoken)
           /\ Adds(w, m) /\ AsGroup(v, r) => AsGroup(w \o v, m + r)
           /\ Lifts(w, m) /\ AsPart(v, r) => AsPart(w \o v, m + r)
<1>1. w \o v \in Seq(Spoken)
  BY ConcatProperties
<1> QED
  BY <1>1, AfterWords, Zenon

\* A number whose smaller ones are understood is understood: the small ones, ...
LEMMA SmallUnderstood ==
    ASSUME NEW n \in Nat, NEW i \in {0, 1}, NEW f, n < Thousand,
           \A k \in 0..n - 1, j \in {0, 1} : Understood(f[k][j], k)
    PROVE  Understood(Spelt(f, n, i), n)
<1> DEFINE s == Spelt(f, n, i)
<1>0. OneForm(f, n, i)
  BY SpeltForms
<1>1. CASE n = 0
  <2>1. s = Space(i) /\ s \in Seq(Spoken) /\ Adds(s, n)
    BY <1>0, <1>1, SpaceHeard, Zenon DEF OneForm
  <2>2. AsGroup(s, n)
    BY <2>1, Weaker
  <2>3. n \notin Satuan
    BY <1>1, Bounds
  <2> QED  BY <2>1, <2>2, <2>3, Enough
<1>2. CASE n \in Satuan
  <2>1. n \in 1..11 /\ Huruf[n] \in Spoken
    BY <1>2, Zenon DEF Satuan, Spoken, Units
  <2>2. s = Space(i) \o <<Huruf[n]>>
    BY <1>0, <1>2, Zenon DEF OneForm
  <2>3. s \in Seq(Spoken)
    BY <2>1, <2>2, SpaceHeard, Zenon
  <2>4. ASSUME NEW a \in Int, NEW b \in Int PROVE HeardAfter(<<a, b, 0>>, s) = <<a, b, n>>
    <3>1. HeardAfter(<<a, b, 0>>, s) = Hear(<<a, b, 0>>, Huruf[n])
      <4> DEFINE w == Huruf[n]
      <4>1. w \in Spoken
        BY <2>1
      <4> HIDE DEF w
      <4>2. HeardAfter(<<a, b, 0>>, Space(i) \o <<w>>) = Hear(<<a, b, 0>>, w)
        BY <4>1, SpaceHeard, Zenon
      <4> QED  BY <2>2, <4>2, Zenon DEF w
    <3>2. HearsAll(a, b, 0)
      BY HearWords
    <3>3. b + 0 = b
      OBVIOUS
    <3> QED  BY <2>1, <3>1, <3>2, <3>3, Zenon DEF HearsAll
  <2>5. Unitary(s, n)
    BY <2>4, Zenon DEF Unitary
  <2> QED  BY <2>3, <2>5, Enough
<1>3. CASE n \in Belas
  <2> DEFINE q == n - 10
             u == f[q][i]
  <2>1. q \in 0..n - 1 /\ q \in Satuan /\ q \in Int /\ q + 10 = n /\ n \notin Satuan
    BY <1>3 DEF Belas, Satuan
  <2>2. Understood(u, q)
    BY <2>1
  <2>3. s = u \o <<Gap, "belas">>
    BY <1>0, <1>3, Zenon DEF OneForm
  <2> HIDE DEF u, q, s
  <2>4. u \in Seq(Spoken) /\ Unitary(u, q)
    BY <2>1, <2>2, Zenon DEF Understood
  <2>5. s \in Seq(Spoken)
    BY <2>3, <2>4, PlaceWords, WordAtEnd
  <2>6. Adds(s, n)
    BY <2>1, <2>3, <2>4, UnitPlaced
  <2>7. AsGroup(s, n)
    BY <2>6, Weaker
  <2> QED  BY <2>1, <2>5, <2>7, Enough DEF s
<1>4. CASE n \in Puluh
  <2> DEFINE q == n \div 10
             r == n % 10
             u == f[q][i]
             v == f[r][1]
  <2>1. /\ q \in 0..n - 1 /\ q \in Satuan /\ q \in Int /\ r \in 0..n - 1 /\ r \in Int
        /\ 10 * q + r = n /\ n \notin Satuan
    BY <1>4 DEF Puluh, Satuan
  <2>2. Understood(u, q) /\ Understood(v, r)
    BY <2>1, 1 \in {0, 1}
  <2>3. s = (u \o <<Gap, "puluh">>) \o v
    BY <1>0, <1>4, Zenon DEF OneForm
  <2>0. r < Thousand
    BY <2>1 DEF Thousand
  <2> HIDE DEF u, v, q, r, s
  <2>4. u \in Seq(Spoken) /\ Unitary(u, q) /\ v \in Seq(Spoken) /\ AsGroup(v, r)
    BY <2>0, <2>1, <2>2, Zenon DEF Understood
  <2>5. u \o <<Gap, "puluh">> \in Seq(Spoken) /\ Adds(u \o <<Gap, "puluh">>, 10 * q)
    BY <2>1, <2>4, PlaceWords, WordAtEnd, UnitPlaced, Zenon
  <2>6. s \in Seq(Spoken) /\ AsGroup(s, n)
    <3>1. 10 * q \in Int
      BY <2>1
    <3>2. s \in Seq(Spoken) /\ AsGroup(s, 10 * q + r)
      BY <2>1, <2>3, <2>4, <2>5, <3>1, GroupAfter, Zenon
    <3> QED  BY <2>1, <3>2, Zenon
  <2> QED  BY <2>1, <2>6, Enough DEF s
<1>5. CASE n \in Seratus
  <2> DEFINE r == n - 100
             v == f[r][1]
             u == Space(i) \o <<"seratus">>
  <2>1. r \in 0..n - 1 /\ r \in Int /\ 100 + r = n /\ n \notin Satuan
    BY <1>5 DEF Seratus, Satuan
  <2>2. Understood(v, r)
    BY <2>1, 1 \in {0, 1}
  <2>3. s = u \o v
    BY <1>0, <1>5, Zenon DEF OneForm
  <2>0. r < Thousand
    BY <1>5, <2>1 DEF Thousand, Seratus
  <2> HIDE DEF v, r, s
  <2>4. v \in Seq(Spoken) /\ AsGroup(v, r)
    BY <2>0, <2>1, <2>2, Zenon DEF Understood
  <2>5. u \in Seq(Spoken) /\ Adds(u, 100)
    <3>1. u \in Seq(Spoken)
      BY PlaceWords, SpaceHeard, Zenon
    <3>2. ASSUME NEW a \in Int, NEW b \in Int PROVE HeardAfter(<<a, b, 0>>, u) = <<a, b + 100, 0>>
      <4>1. HeardAfter(<<a, b, 0>>, u) = Hear(<<a, b, 0>>, "seratus")
        BY PlaceWords, SpaceHeard, Zenon
      <4>2. HearsAll(a, b, 0)
        BY HearWords
      <4>3. b + 0 + 100 = b + 100
        OBVIOUS
      <4> QED  BY <4>1, <4>2, <4>3, Zenon DEF HearsAll
    <3> QED  BY <3>1, <3>2, Zenon DEF Adds
  <2> HIDE DEF u
  <2>6. s \in Seq(Spoken) /\ AsGroup(s, n)
    BY <2>1, <2>3, <2>4, <2>5, GroupAfter
  <2> QED  BY <2>1, <2>6, Enough DEF s
<1>6. CASE n \in Ratus
  <2> DEFINE q == n \div 100
             r == n % 100
             u == f[q][i]
             v == f[r][1]
  <2>1. /\ q \in 0..n - 1 /\ q \in Satuan /\ q \in Int /\ r \in 0..n - 1 /\ r \in Int
        /\ 100 * q + r = n /\ n \notin Satuan
    BY <1>6, Bounds DEF Satuan
  <2>2. Understood(u, q) /\ Understood(v, r)
    BY <2>1, 1 \in {0, 1}
  <2>3. s = (u \o <<Gap, "ratus">>) \o v
    BY <1>0, <1>6, Zenon DEF OneForm
  <2>0. r < Thousand
    BY <2>1 DEF Thousand
  <2> HIDE DEF u, v, q, r, s
  <2>4. u \in Seq(Spoken) /\ Unitary(u, q) /\ v \in Seq(Spoken) /\ AsGroup(v, r)
    BY <2>0, <2>1, <2>2, Zenon DEF Understood
  <2>5. u \o <<Gap, "ratus">> \in Seq(Spoken) /\ Adds(u \o <<Gap, "ratus">>, 100 * q)
    BY <2>1, <2>4, PlaceWords, WordAtEnd, UnitPlaced, Zenon
  <2>6. s \in Seq(Spoken) /\ AsGroup(s, n)
    <3>1. 100 * q \in Int
      BY <2>1
    <3>2. s \in Seq(Spoken) /\ AsGroup(s, 100 * q + r)
      BY <2>1, <2>3, <2>4, <2>5, <3>1, GroupAfter, Zenon
    <3> QED  BY <2>1, <3>2, Zenon
  <2> QED  BY <2>1, <2>6, Enough DEF s
<1>7. n = 0 \/ n \in Satuan \/ n \in Belas \/ n \in Puluh \/ n \in Seratus \/ n \in Ratus
  BY Bounds, SMT DEF Thousand
<1> QED
  BY <1>1, <1>2, <1>3, <1>4, <1>5, <1>6, <1>7, Zenon

\* ... and the large ones, up to those that are not spelled.
LEMMA LargeUnderstood ==
    ASSUME NEW n \in Nat, NEW i \in {0, 1}, NEW f, n >= Thousand,
           \A k \in 0..n - 1, j \in {0, 1} : Understood(f[k][j], k)
    PROVE  Understood(Spelt(f, n, i), n)
<1> DEFINE s == Spelt(f, n, i)
<1>0. OneForm(f, n, i)
  BY SpeltForms
<1>1. CASE n \in Seribu
  <2> DEFINE r == n - Thousand
             v == f[r][1]
             u == Space(i) \o <<"seribu">>
  <2>1. r \in 0..n - 1 /\ r \in Int /\ Thousand + r = n /\ Thousand \in Int
    BY <1>1, Bounds DEF Thousand
  <2>2. Understood(v, r)
    BY <2>1, 1 \in {0, 1}
  <2>3. s = u \o v
    BY <1>0, <1>1, Zenon DEF OneForm
  <2>0. r < Thousand * Million
    BY <1>1, <2>1, Bounds, SMT DEF Thousand, Million
  <2> HIDE DEF v, r, s
  <2>4. v \in Seq(Spoken) /\ AsPart(v, r)
    BY <2>0, <2>1, <2>2, Zenon DEF Understood
  <2>5. u \in Seq(Spoken) /\ Lifts(u, Thousand)
    <3>1. u \in Seq(Spoken)
      BY PlaceWords, SpaceHeard, Zenon
    <3>2. ASSUME NEW a \in Int PROVE HeardAfter(<<a, 0, 0>>, u) = <<a + Thousand, 0, 0>>
      <4>1. HeardAfter(<<a, 0, 0>>, u) = Hear(<<a, 0, 0>>, "seribu")
        BY PlaceWords, SpaceHeard, 0 \in Int, Zenon
      <4>2. HearsAll(a, 0, 0)
        BY HearWords
      <4>3. a + (0 + 0) + Thousand = a + Thousand
        BY <2>1
      <4> QED  BY <4>1, <4>2, <4>3, Zenon DEF HearsAll
    <3> QED  BY <3>1, <3>2, Zenon DEF Lifts
  <2> HIDE DEF u
  <2>6. s \in Seq(Spoken) /\ AsPart(s, n)
    BY <2>1, <2>3, <2>4, <2>5, GroupAfter
  <2> QED  BY <2>6, Enough DEF s
<1>2. CASE n \in Ribu
  <2> DEFINE q == n \div Thousand
             r == n % Thousand
             u == f[q][i]
             v == f[r][1]
  <2>1. /\ q \in 0..n - 1 /\ q < Thousand /\ q \in Int /\ r \in 0..n - 1 /\ r \in Int
        /\ Thousand * q + r = n /\ Thousand * q \in Int /\ r < Thousand * Million
    BY <1>2, Bounds, SMT DEF Thousand, Million
  <2>2. Understood(u, q) /\ Understood(v, r)
    BY <2>1, 1 \in {0, 1}
  <2>3. s = (u \o <<"ribu">>) \o v
    BY <1>0, <1>2, Zenon DEF OneForm
  <2> HIDE DEF u, v, q, r, s
  <2>4. u \in Seq(Spoken) /\ AsGroup(u, q) /\ v \in Seq(Spoken) /\ AsPart(v, r)
    BY <2>1, <2>2, Zenon DEF Understood
  <2>5. u \o <<"ribu">> \in Seq(Spoken) /\ Lifts(u \o <<"ribu">>, Thousand * q)
    BY <2>1, <2>4, PlaceWords, WordAtEnd, GroupPlaced, Zenon
  <2>6. s \in Seq(Spoken) /\ AsPart(s, Thousand * q + r)
    BY <2>1, <2>3, <2>4, <2>5, GroupAfter, Zenon
  <2> QED  BY <2>1, <2>6, Enough DEF s
<1>3. CASE n \in Juta
  <2> DEFINE q == n \div Million
             r == n % Million
             u == f[q][i]
             v == f[r][1]
  <2>1. /\ q \in 0..n - 1 /\ q < Thousand /\ q \in Int /\ r \in 0..n - 1 /\ r \in Int
        /\ Million * q + r = n /\ Million * q \in Int /\ r < Thousand * Million
    BY <1>3, Bounds, SMT DEF Thousand, Million
  <2>2. Understood(u, q) /\ Understood(v, r)
    BY <2>1, 1 \in {0, 1}
  <2>3. s = (u \o <<Gap, "juta">>) \o v
    BY <1>0, <1>3, Zenon DEF OneForm
  <2> HIDE DEF u, v, q, r, s
  <2>4. u \in Seq(Spoken) /\ AsGroup(u, q) /\ v \in Seq(Spoken) /\ AsPart(v, r)
    BY <2>1, <2>2, Zenon DEF Understood
  <2>5. u \o <<Gap, "juta">> \in Seq(Spoken) /\ Lifts(u \o <<Gap, "juta">>, Million * q)
    BY <2>1, <2>4, PlaceWords, WordAtEnd, GroupPlaced, Zenon
  <2>6. s \in Seq(Spoken) /\ AsPart(s, Million * q + r)
    BY <2>1, <2>3, <2>4, <2>5, GroupAfter, Zenon
  <2> QED  BY <2>1, <2>6, Enough DEF s
<1>4. CASE n >= Thousand * Million
  <2>1. s = <<>> /\ <<>> \in Seq(Spoken)
    BY <1>0, <1>4, EmptySeq, Zenon DEF OneForm
  <2>2. n \notin Satuan /\ ~(n < Thousand) /\ ~(n < Thousand * Million)
    BY <1>4, Bounds, SMT DEF Thousand, Million
  <2> QED  BY <2>1, <2>2, Zenon DEF Understood
<1>5. n \in Seribu \/ n \in Ribu \/ n \in Juta \/ n >= Thousand * Million
  BY Bounds, SMT DEF Thousand, Million
<1> QED
  BY <1>1, <1>2, <1>3, <1>4, <1>5, Zenon

\* The spelling of every number is understood, and from a billion on there is none.
LEMMA AllUnderstood ==
    ASSUME NEW num \in Nat
    PROVE  /\ Understood(SpellAbs(num, 0), num)
           /\ num >= Thousand * Million => SpellAbs(num, 0) = <<>>
<1> DEFINE h == CHOOSE f : Spells(f, num)
<1>1. Spells(h, num)
  BY SpellsUpTo, Zenon
<1>2. SpellAbs(num, 0) = h[num][0]
  BY DEF SpellAbs, Spells
<1> HIDE DEF h
<1>3. \A n \in 0..num, i \in {0, 1} : h[n][i] = Spelt(h, n, i)
  <2>1. h = [n \in 0..num |-> [i \in {0, 1} |-> Spelt(h, n, i)]]
    BY <1>1, Zenon DEF Spells
  <2>2. \A n \in 0..num : h[n] = [i \in {0, 1} |-> Spelt(h, n, i)]
    BY <2>1, Zenon
  <2> TAKE n \in 0..num, i \in {0, 1}
  <2>3. [j \in {0, 1} |-> Spelt(h, n, j)][i] = Spelt(h, n, i)
    BY Zenon
  <2> QED  BY <2>2, <2>3, Zenon
<1> DEFINE Bad == {n \in 0..num : \E i \in {0, 1} : ~Understood(h[n][i], n)}
<1>4. Bad = {}
  <2> SUFFICES ASSUME Bad # {} PROVE FALSE
    OBVIOUS
  <2>1. Bad \in SUBSET Nat
    OBVIOUS
  <2>2. PICK n \in Bad : \A k \in Bad : n <= k
    <3> HIDE DEF Bad
    <3> QED  BY <2>1, Least
  <2>3. n \in 0..num /\ n \in Nat
    OBVIOUS
  <2>4. PICK i \in {0, 1} : ~Understood(h[n][i], n)
    OBVIOUS
  <2>5. \A k \in 0..n - 1, j \in {0, 1} : Understood(h[k][j], k)
    <3> TAKE k \in 0..n - 1, j \in {0, 1}
    <3>1. k \in 0..num /\ ~(n <= k)
      BY <2>3
    <3>2. k \notin Bad
      BY <2>2, <3>1, Zenon
    <3> QED  BY <3>1, <3>2
  <2> HIDE DEF Bad
  <2>6. n < Thousand \/ n >= Thousand
    BY <2>3, SMT DEF Thousand
  <2>7. Understood(Spelt(h, n, i), n)
    <3>1. CASE n < Thousand
      BY <2>3, <2>5, <3>1, SmallUnderstood
    <3>2. CASE n >= Thousand
      BY <2>3, <2>5, <3>2, LargeUnderstood
    <3> QED  BY <2>6, <3>1, <3>2
  <2> QED  BY <1>3, <2>3, <2>4, <2>7
<1>5. num \in 0..num /\ 0 \in {0, 1}
  OBVIOUS
<1>6. Understood(h[num][0], num)
  BY <1>4, <1>5
<1>7. num >= Thousand * Million => h[num][0] = <<>>
  <2>1. OneForm(h, num, 0)
    BY SpeltForms
  <2> QED  BY <1>3, <1>5, <2>1, Zenon DEF OneForm
<1> QED
  BY <1>2, <1>6, <1>7

\* A number is spelled so that it is understood, but for its sign; the smallest int
\* is not spelled.
LEMMA SpellPromise ==
    ASSUME answered, request.fn = "Spell", request.in \in Numbers, value = Compute
    PROVE  SpellingUnderstood
<1> DEFINE x == request.in
           num == IF x < 0 THEN -x ELSE x
<1>1. x \in Int /\ x >= -IntLimit /\ IntLimit \in Nat /\ Thousand * Million < IntLimit
  <2>1. /\ Numbers \subseteq -IntLimit .. IntLimit - 1 /\ IntLimit \in Nat
        /\ Thousand * Million < IntLimit
    BY Zenon, LibraryAssumption
  <2>2. x \in -IntLimit .. IntLimit - 1
    BY <2>1
  <2> HIDE DEF x
  <2> QED  BY <2>1, <2>2, SMT
<1>2. value = SpellNumberRec(x, 0)
  BY DEF Compute
<1> HIDE DEF x
<1>3. num \in Nat
  BY <1>1
<1>4. CASE x = -IntLimit
  <2>1. x < 0 /\ ~(num < Thousand * Million)
    <3>1. \A k \in Nat, m \in Int : m < k => -k <= 0 /\ (m > 0 => -k < 0)
      OBVIOUS
    <3>2. Thousand * Million \in Int /\ Thousand * Million > 0
      BY SMT DEF Thousand, Million
    <3>3. x < 0
      BY <1>1, <1>4, <3>1, <3>2
    <3>4. num = IntLimit
      BY <1>1, <1>4, <3>3
    <3> QED  BY <1>1, <3>2, <3>3, <3>4
  <2>2. value = Panic
    BY <1>2, <1>4, <2>1, Zenon DEF SpellNumberRec, Opposite
  <2>3. SpellingUnderstood <=>
           (answered /\ request.fn = "Spell" =>
               IF num < Thousand * Million THEN Heard(value) = num
               ELSE value = IF x = -IntLimit THEN Panic ELSE <<>>)
    BY Zenon DEF SpellingUnderstood, Answered, in, num, x
  <2> HIDE DEF num
  <2> QED  BY <1>4, <2>1, <2>2, <2>3, Zenon
<1>5. CASE x # -IntLimit
  <2>1. value = SpellAbs(num, 0)
    <3>1. (IF x < 0 THEN Opposite(x) ELSE x) = num
      BY <1>5, Zenon DEF Opposite
    <3>2. ~(num < 0)
      BY <1>3
    <3> HIDE DEF num
    <3> QED  BY <1>2, <3>1, <3>2, Zenon DEF SpellNumberRec
  <2>2. SpellingUnderstood <=>
           (answered /\ request.fn = "Spell" =>
               IF num < Thousand * Million THEN Heard(value) = num
               ELSE value = IF x = -IntLimit THEN Panic ELSE <<>>)
    BY Zenon DEF SpellingUnderstood, Answered, in, num, x
  <2> HIDE DEF num
  <2>3. Understood(value, num) /\ (num >= Thousand * Million => value = <<>>)
    BY <1>3, <2>1, AllUnderstood
  <2>4. ASSUME num < Thousand * Million PROVE Heard(value) = num
    <3>1. PICK c \in Int, d \in Int, e \in Int :
             HeardAfter(<<0, 0, 0>>, value) = <<c, d, e>> /\ (c + d) + e = 0 + num
      BY <2>3, <2>4, 0 \in Int, Zenon DEF Understood, AsPart
    <3>2. HeardAfter(<<0, 0, 0>>, value)[1] = c /\ HeardAfter(<<0, 0, 0>>, value)[2] = d
          /\ HeardAfter(<<0, 0, 0>>, value)[3] = e
      BY <3>1
    <3>3. Heard(value) = (c + d) + e
      BY <3>2, Zenon DEF Heard
    <3> QED  BY <1>3, <3>1, <3>3
  <2>5. num < Thousand * Million \/ num >= Thousand * Million
    BY <1>3, SMT DEF Thousand, Million
  <2> QED  BY <1>5, <2>2, <2>3, <2>4, <2>5, Zenon
<1> QED
  BY <1>4, <1>5

-----------------------------------------------------------------------------
(* CensorName and CensorString *)

\* Words: they are not empty.
Worded(E) == Seq(E) \ {<<>>}

\* A character starts a word, extends the last one, or is a blank.
LEMMA ExtendKeeps ==
    ASSUME NEW E, NEW s, NEW n, s[n] \in E, NEW x \in Seq(Worded(E))
    PROVE  Extend(x, s, n) \in Seq(Worded(E))
<1> DEFINE W == Worded(E)
           ch == s[n]
           y == [x EXCEPT ![Len(x)] = Append(@, ch)]
<1>1. <<ch>> \in W /\ \A w \in W : Append(w, ch) \in W
  <2>1. \A w \in Seq(E) : Append(w, ch) \in Seq(E) /\ Append(w, ch) # <<>>
    OBVIOUS
  <2>2. <<ch>> \in Seq(E) /\ <<ch>> # <<>>
    OBVIOUS
  <2> QED  BY <2>1, <2>2 DEF Worded
<1> HIDE DEF W, ch
<1>2. Append(x, <<ch>>) \in Seq(W)
  BY <1>1 DEF W
<1>3. y \in Seq(W)
  <2>1. x \in [1..Len(x) -> W] /\ Len(x) \in Nat
    BY DEF W
  <2>2. \A k \in 1..Len(x) : y[k] \in W
    BY <1>1, <2>1
  <2>3. y \in [1..Len(x) -> W]
    BY <2>1, <2>2
  <2> QED  BY <2>1, <2>3
<1> HIDE DEF y
<1>4. Extend(x, s, n) = x \/ Extend(x, s, n) = Append(x, <<ch>>) \/ Extend(x, s, n) = y
  BY Zenon DEF Extend, y, ch
<1> QED
  BY <1>2, <1>3, <1>4 DEF W

\* The words of a text, character by character.
LEMMA FieldsRounds ==
    ASSUME NEW E, NEW s \in Seq(E)
    PROVE  \E f \in [0..Len(s) -> Seq(Worded(E))] :
              /\ f[0] = <<>>
              /\ \A n \in 1..Len(s) : f[n] = Extend(f[n - 1], s, n)
              /\ Fields(s) = f[Len(s)]
<1> DEFINE len == Len(s)
           S == Seq(Worded(E))
           step == [n \in 1..len |-> [x \in S |-> Extend(x, s, n)]]
           Eq(f) == f = [n \in 0..len |-> IF n = 0 THEN <<>> ELSE Extend(f[n - 1], s, n)]
           h == CHOOSE f : Eq(f)
<1>1. Fields(s) = h[len]
  BY DEF Fields
<1>2. len \in Nat /\ <<>> \in S /\ \A n \in 1..len : \A x \in S : Extend(x, s, n) \in S
  <2>1. len \in Nat /\ \A n \in 1..len : s[n] \in E
    OBVIOUS
  <2>2. \A x \in S : \A n \in 1..len : Extend(x, s, n) \in S
    BY <2>1, ExtendKeeps
  <2> HIDE DEF len, S
  <2> QED  BY <2>1, <2>2, EmptySeq DEF S
<1> HIDE DEF len, S
<1>3. Loop(S, <<>>, len, step)
  BY <1>2 DEF Loop
<1>4. PICK g : Runs(S, <<>>, len, step, g)
  <2> HIDE DEF step
  <2> QED  BY <1>3, LoopRuns
<1>5. \A n \in 1..len : g[n] = Extend(g[n - 1], s, n)
  <2> TAKE n \in 1..len
  <2>1. g[n - 1] \in S
    BY <1>2, <1>4 DEF Runs
  <2> QED  BY <1>4, <2>1 DEF Runs
<1>6. Eq(g)
  <2>1. \A n \in 0..len : g[n] = IF n = 0 THEN <<>> ELSE Extend(g[n - 1], s, n)
    BY <1>2, <1>4, <1>5 DEF Runs
  <2> QED  BY <1>4, <2>1 DEF Runs
<1>7. Eq(h)
  <2> HIDE DEF Eq
  <2> QED  BY <1>6
<1> HIDE DEF h
<1>8. h[0] = <<>> /\ \A n \in 1..len : h[n] = Extend(h[n - 1], s, n)
  <2>1. \A n \in 0..len : h[n] = IF n = 0 THEN <<>> ELSE Extend(h[n - 1], s, n)
    BY <1>7, Zenon
  <2>2. 0 \in 0..len /\ \A n \in 1..len : n \in 0..len /\ n # 0
    BY <1>2
  <2> QED  BY <2>1, <2>2, Zenon
<1>9. \A n \in 0..len : h[n] \in S
  <2>1. \A n \in 1..len : h[n - 1] \in S => h[n] \in S
    BY <1>2, <1>8
  <2> QED  BY <1>2, <1>8, <2>1, LoopKeeps
<1>10. h \in [0..len -> S]
  BY <1>7, <1>9
<1> QED
  BY <1>1, <1>8, <1>10 DEF len, S

\* What is censored of a word is a part of it, and more than all of it or less than
\* none when the factor is out of range.
LEMMA Parts ==
    ASSUME NEW m \in Nat, NEW q \in Int
    PROVE  /\ q \in 0..4 => (m * q) \div 4 \in 0..m
           /\ m > 0 /\ q \notin 0..7 => (m * q) \div 4 \notin 0..m
<1>1. ASSUME q \in 0..4 PROVE (m * q) \div 4 \in 0..m
  <2>1. q = 0 \/ q = 1 \/ q = 2 \/ q = 3 \/ q = 4
    BY <1>1
  <2>2. /\ (m * 0) \div 4 \in 0..m /\ (m * 1) \div 4 \in 0..m /\ (m * 2) \div 4 \in 0..m
        /\ (m * 3) \div 4 \in 0..m /\ (m * 4) \div 4 \in 0..m
    OBVIOUS
  <2> QED  BY <2>1, <2>2
<1>2. ASSUME m > 0, q \notin 0..7 PROVE (m * q) \div 4 \notin 0..m
  <2> DEFINE p == m * q
  <2>1. CASE q < 0
    <3>1. p < 0 /\ p \in Int
      BY <1>2, <2>1
    <3> HIDE DEF p
    <3>2. p \div 4 < 0
      BY <3>1
    <3> QED  BY <3>1, <3>2 DEF p
  <2>2. CASE q > 7
    <3>1. m * (q - 8) >= 0
      BY <1>2, <2>2
    <3>2. m * (q - 8) = m * q - m * 8
      BY <2>2
    <3>3. p >= m * 8 /\ p \in Int
      BY <3>1, <3>2
    <3> HIDE DEF p
    <3>4. p \div 4 > m
      BY <1>2, <3>3
    <3> QED  BY <3>3, <3>4 DEF p
  <2> QED  BY <1>2, <2>1, <2>2
<1> QED
  BY <1>1, <1>2

\* A word with stars at its end: its length, and each of its characters.
LEMMA StarredEnd ==
    ASSUME NEW E, NEW w \in Seq(E), NEW n \in 0..Len(w), "*" \notin E
    PROVE  LET c == Starred(w, n, "end")
           IN /\ Len(c) = Len(w)
              /\ \A k \in DOMAIN w : /\ (c[k] = "*") <=> k > Len(w) - n
                                     /\ c[k] \in {w[k], "*"}
<1> DEFINE m == Len(w)
           a == SubSeq(w, 1, m - n)
           b == Stars(n)
           c == a \o b
<1>1. m \in Nat /\ n \in 0..m /\ DOMAIN w = 1..m
  OBVIOUS
<1>2. a \in Seq(E) /\ Len(a) = m - n /\ \A k \in 1..m - n : a[k] = w[k]
  OBVIOUS
<1>3. b \in Seq({"*"}) /\ Len(b) = n /\ \A k \in 1..n : b[k] = "*"
  BY DEF Stars
<1>4. \A k \in DOMAIN w : w[k] # "*"
  BY <1>1
<1>5. Starred(w, n, "end") = c
  BY Zenon DEF Starred
<1> HIDE DEF m, a, b
<1>6. Len(c) = m /\ \A k \in 1..m : c[k] = IF k <= m - n THEN a[k] ELSE b[k - (m - n)]
  BY <1>1, <1>2, <1>3
<1> HIDE DEF c
<1>7. ASSUME NEW k \in 1..m PROVE c[k] = IF k <= m - n THEN w[k] ELSE "*"
  <2>1. CASE k <= m - n
    BY <1>1, <1>2, <1>6, <2>1
  <2>2. CASE ~(k <= m - n)
    <3>1. k - (m - n) \in 1..n
      BY <1>1, <2>2
    <3> QED  BY <1>3, <1>6, <2>2, <3>1
  <2> QED  BY <2>1, <2>2
<1>8. ASSUME NEW k \in DOMAIN w PROVE ((c[k] = "*") <=> k > m - n) /\ c[k] \in {w[k], "*"}
  <2>1. k \in 1..m /\ ((k <= m - n) <=> ~(k > m - n))
    BY <1>1
  <2> QED  BY <1>4, <1>7, <2>1, Zenon
<1> QED
  BY <1>5, <1>6, <1>8, Zenon DEF m

\* Words are in range of a factor up to one, and out of range of one below zero or
\* from two on.
LEMMA WordsInRange ==
    ASSUME NEW E, NEW words \in Seq(Worded(E)), NEW q \in Int
    PROVE  /\ q \in 0..4 => /\ ~OutOfRange(words, q)
                            /\ \A i \in DOMAIN words : ToCensor(words[i], q) \in 0..Len(words[i])
           /\ words # <<>> /\ q \notin 0..7 => OutOfRange(words, q)
<1>1. ASSUME NEW i \in DOMAIN words PROVE Len(words[i]) \in Nat /\ Len(words[i]) > 0
  <2>1. words[i] \in Seq(E) /\ words[i] # <<>>
    BY DEF Worded
  <2> QED  BY <2>1, EmptySeq
<1>2. ASSUME q \in 0..4, NEW i \in DOMAIN words PROVE ToCensor(words[i], q) \in 0..Len(words[i])
  BY <1>1, <1>2, Parts DEF ToCensor
<1>3. ASSUME words # <<>>, q \notin 0..7 PROVE OutOfRange(words, q)
  <2>1. 1 \in DOMAIN words
    BY <1>3
  <2>2. ToCensor(words[1], q) \notin 0..Len(words[1])
    BY <1>1, <1>3, <2>1, Parts DEF ToCensor
  <2> QED  BY <2>1, <2>2, Zenon DEF OutOfRange, Panics
<1> QED
  BY <1>2, <1>3, Zenon DEF OutOfRange, Panics

\* Censoring keeps the shape of a text, or panics.
LEMMA CensorPromise ==
    ASSUME answered, request.fn = "Censor", request.in \in Personal \X Quarters \X {0, 1},
           value = Compute
    PROVE  CensorKeepsShape
<1> DEFINE t == request.in[1]
           q == request.in[2]
           d == request.in[3]
           E == Range(t)
           tail == SubSeq(t, d + 1, Len(t))
           words == Fields(t)
           rest == Fields(tail)
           first == SubSeq(t, 1, d)
           short == Len(t) < d + 1
<1>1. t \in Seq(E) /\ "*" \notin E /\ q \in Int /\ d \in {0, 1}
  <2>1. t \in Personal /\ q \in Quarters /\ d \in {0, 1}
    OBVIOUS
  <2> HIDE DEF t, q, d
  <2>2. t \in Seq(Range(t)) /\ "*" \notin Range(t) /\ q \in Int
    BY <2>1, LibraryAssumption DEF Texts
  <2> QED  BY <2>1, <2>2
<1>2. /\ value.name = IF OutOfRange(words, q) THEN Panic ELSE CensorWords(words, q, "end")
      /\ ~short => value.string = IF OutOfRange(rest, q) THEN Panic
                                  ELSE <<first>> \o CensorWords(rest, q, "start")
  BY Zenon DEF Compute, CensorName, CensorString
<1> HIDE DEF t, q, d, E
<1>3. words \in Seq(Worded(E)) /\ rest \in Seq(Worded(E))
  <2>1. tail \in Seq(E)
    <3>1. SubSeq(t, 1, Len(t)) \in Seq(E) /\ SubSeq(t, 2, Len(t)) \in Seq(E)
      BY <1>1
    <3>2. d + 1 = 1 \/ d + 1 = 2
      BY <1>1
    <3> QED  BY <3>1, <3>2, Zenon
  <2> HIDE DEF tail
  <2>2. \A s \in Seq(E) : Fields(s) \in Seq(Worded(E))
    <3> TAKE s \in Seq(E)
    <3>1. PICK f \in [0..Len(s) -> Seq(Worded(E))] : Fields(s) = f[Len(s)]
      BY FieldsRounds
    <3> QED  BY <3>1
  <2> QED  BY <1>1, <2>1, <2>2
<1> HIDE DEF tail, words, rest, first, short
<1>4. CASE q \in 0..4
  <2>1. /\ ~OutOfRange(words, q) /\ ~OutOfRange(rest, q)
        /\ \A i \in DOMAIN words : ToCensor(words[i], q) \in 0..Len(words[i])
        /\ \A i \in DOMAIN rest : ToCensor(rest[i], q) \in 0..Len(rest[i])
    BY <1>1, <1>3, <1>4, WordsInRange
  <2>2. ASSUME NEW i \in DOMAIN words
        PROVE  /\ Len(value.name[i]) = Len(words[i])
               /\ \A k \in DOMAIN words[i] :
                     (value.name[i][k] = "*") <=> k > Len(words[i]) - (Len(words[i]) * q) \div 4
               /\ \A k \in DOMAIN words[i] : value.name[i][k] \in {words[i][k], "*"}
    <3> DEFINE w == words[i]
               n == ToCensor(w, q)
    <3>1. value.name[i] = Starred(w, n, "end")
      BY <1>2, <2>1, Zenon DEF CensorWords
    <3>2. w \in Seq(E) /\ n \in 0..Len(w)
      BY <1>3, <2>1 DEF Worded
    <3>3. n = (Len(w) * q) \div 4
      BY Zenon DEF ToCensor
    <3> HIDE DEF w, n
    <3> QED  BY <1>1, <3>1, <3>2, <3>3, StarredEnd DEF w
  <2>3. ASSUME ~short
        PROVE  /\ Len(value.string) = 1 + Len(rest)
               /\ value.string[1] = first
               /\ \A i \in DOMAIN rest :
                     LET stars == (Len(rest[i]) * q) \div 4
                     IN value.string[i + 1] = Stars(stars) \o SubSeq(rest[i], stars + 1, Len(rest[i]))
    <3> DEFINE c == CensorWords(rest, q, "start")
    <3>1. value.string = <<first>> \o c
      BY <1>2, <2>1, <2>3, Zenon
    <3>2. DOMAIN c = DOMAIN rest /\ \A i \in DOMAIN rest :
              c[i] = Stars(ToCensor(rest[i], q)) \o SubSeq(rest[i], ToCensor(rest[i], q) + 1, Len(rest[i]))
      BY Zenon DEF CensorWords, Starred
    <3>3. DOMAIN rest = 1..Len(rest) /\ Len(rest) \in Nat
      BY <1>3
    <3>4. c = [i \in 1..Len(rest) |-> c[i]]
      BY <3>3, Zenon DEF CensorWords
    <3> HIDE DEF c
    <3>5. \E S : c \in Seq(S) /\ first \in S
      <4> DEFINE S == {c[i] : i \in 1..Len(rest)} \cup {first}
      <4>1. c \in [1..Len(rest) -> S]
        BY <3>4
      <4>2. c \in Seq(S) /\ first \in S
        BY <3>3, <4>1
      <4> QED  BY <4>2
    <3>6. PICK S : c \in Seq(S) /\ first \in S
      BY <3>5
    <3>7. Len(c) = Len(rest)
      BY <3>2, <3>3, <3>6
    <3>8. <<first>> \in Seq(S) /\ Len(<<first>>) = 1 /\ <<first>>[1] = first
      BY <3>6
    <3>9. /\ Len(value.string) = 1 + Len(rest) /\ value.string[1] = first
          /\ \A i \in DOMAIN rest : value.string[i + 1] = c[i]
      BY <3>1, <3>3, <3>6, <3>7, <3>8
    <3> QED  BY <3>2, <3>9, Zenon DEF ToCensor
  <2> QED
    BY <1>4, <2>2, <2>3, Zenon
        DEF CensorKeepsShape, Answered, in, t, q, d, words, rest, tail, first, short
<1>5. CASE q \notin 0..4
  <2>1. words # <<>> /\ q \notin 0..7 => value.name = Panic
    BY <1>1, <1>2, <1>3, WordsInRange
  <2> QED
    BY <1>5, <2>1, Zenon DEF CensorKeepsShape, Answered, in, t, q, d, words
<1> QED
  BY <1>4, <1>5

-----------------------------------------------------------------------------
(***************************************************************************)
(* The calendar.  A reading is a count of months and a count of seconds      *)
(* beyond them; a difference subtracts the two counts, and borrows *)
(* the length of one month when the seconds run out.                       *)
(***************************************************************************)

\* A number of units of the next size, and a digit below it.
Num(base, n, x) == base * n + x

\* The months before a reading (or in a difference), and the seconds beyond them.
MonthsOf(t) == Num(12, t[1], t[2])
SecondsOf(t) == Num(60, Num(60, Num(24, t[3], t[4]), t[5]), t[6])

\* A month has 28 to 31 days.
LEMMA DaysInMonth ==
    ASSUME NEW t \in Reading PROVE DaysIn(t[1], t[2]) \in 28..31
  BY DEF Reading, DaysIn, IsLeap

\* Counting in units gives integers.
LEMMA NumType == \A base \in {12, 24, 60}, n \in Int, x \in Int : Num(base, n, x) \in Int
  BY DEF Num

\* Numbers are ordered by their units first.
Ordered(base, n, x, k, y) ==
    /\ Num(base, n, x) < Num(base, k, y) <=> n < k \/ (n = k /\ x < y)
    /\ Num(base, n, x) = Num(base, k, y) <=> n = k /\ x = y

\* So are two numbers of units whose digits are less than a unit apart.
LEMMA NumOrder ==
    ASSUME NEW base \in {12, 24, 60}, NEW n \in Int, NEW k \in Int, NEW x \in Int, NEW y \in Int,
           x - y < base, y - x < base
    PROVE  Ordered(base, n, x, k, y)
<1>1. n < k => n + 1 <= k
  OBVIOUS
<1>2. k < n => k + 1 <= n
  OBVIOUS
<1> QED
  BY <1>1, <1>2 DEF Num, Ordered

\* They are subtracted digit by digit; a digit below 0 borrows a unit.
Subtracted(base, n, x, k, y, c) ==
    Num(base, k, y) - Num(base, n, x) - c
        = Num(base, k - n - Borrow(y - x - c), Norm(y - x - c, base))

\* Borrow and Norm do just that, with or without a unit to repay.
LEMMA NumDiff ==
    ASSUME NEW base \in {12, 24, 60}, NEW n \in Int, NEW k \in Int, NEW x \in Int, NEW y \in Int
    PROVE  Subtracted(base, n, x, k, y, 0) /\ Subtracted(base, n, x, k, y, 1)
  BY DEF Num, Borrow, Norm, Subtracted

\* The digits below a day do not change its sign.
SameSign(x, h, n, z) == x < 0 <=> Num(60, Num(60, Num(24, x, h), n), z) < 0

\* A clock is less than a day.
LEMMA ClockSign ==
    ASSUME NEW x \in Int, NEW h \in 0..23, NEW n \in 0..59, NEW z \in 0..59
    PROVE  SameSign(x, h, n, z)
<1>1. Num(60, Num(60, Num(24, x, h), n), z) = 86400 * x + (3600 * h + 60 * n + z)
  BY DEF Num
<1>2. 3600 * h <= 82800 /\ 60 * n <= 3540 /\ 3600 * h \in Nat /\ 60 * n \in Nat
  OBVIOUS
<1>3. 3600 * h + 60 * n + z \in Nat /\ 3600 * h + 60 * n + z < 86400
  BY <1>2
<1>4. x < 0 => 86400 * x <= -86400
  OBVIOUS
<1>5. ~(x < 0) => 86400 * x >= 0
  OBVIOUS
<1> QED
  BY <1>1, <1>3, <1>4, <1>5 DEF SameSign

\* Readings are ordered by their months, and then by what is beyond.
LEMMA EarlierBySeconds ==
    ASSUME NEW a, NEW b, \A i \in 1..6 : a[i] \in Int /\ b[i] \in Int,
           a[2] - b[2] < 12, b[2] - a[2] < 12,
           a[4] \in 0..23 /\ b[4] \in 0..23, a[5] \in 0..59 /\ b[5] \in 0..59,
           a[6] \in 0..59 /\ b[6] \in 0..59
    PROVE  Earlier(a, b) <=> \/ MonthsOf(a) < MonthsOf(b)
                             \/ MonthsOf(a) = MonthsOf(b) /\ SecondsOf(a) < SecondsOf(b)
<1>1. Earlier(a, b) <=>
         \/ a[1] < b[1]
         \/ a[1] = b[1] /\ a[2] < b[2]
         \/ a[1] = b[1] /\ a[2] = b[2] /\ a[3] < b[3]
         \/ a[1] = b[1] /\ a[2] = b[2] /\ a[3] = b[3] /\ a[4] < b[4]
         \/ a[1] = b[1] /\ a[2] = b[2] /\ a[3] = b[3] /\ a[4] = b[4] /\ a[5] < b[5]
         \/ a[1] = b[1] /\ a[2] = b[2] /\ a[3] = b[3] /\ a[4] = b[4] /\ a[5] = b[5] /\ a[6] < b[6]
  BY DEF Earlier
<1> DEFINE Hours(t) == Num(24, t[3], t[4])
           Minutes(t) == Num(60, Hours(t), t[5])
<1>0. /\ a[1] \in Int /\ a[2] \in Int /\ a[3] \in Int /\ a[4] \in Int /\ a[5] \in Int /\ a[6] \in Int
      /\ b[1] \in Int /\ b[2] \in Int /\ b[3] \in Int /\ b[4] \in Int /\ b[5] \in Int /\ b[6] \in Int
  OBVIOUS
<1>2. /\ a[4] - b[4] < 24 /\ b[4] - a[4] < 24 /\ a[5] - b[5] < 60 /\ b[5] - a[5] < 60
      /\ a[6] - b[6] < 60 /\ b[6] - a[6] < 60
  OBVIOUS
<1>3. Hours(a) \in Int /\ Hours(b) \in Int
  BY <1>0, NumType
<1>4. /\ Hours(a) < Hours(b) <=> a[3] < b[3] \/ (a[3] = b[3] /\ a[4] < b[4])
      /\ Hours(a) = Hours(b) <=> a[3] = b[3] /\ a[4] = b[4]
  <2>1. Ordered(24, a[3], a[4], b[3], b[4])
    BY <1>0, <1>2, NumOrder
  <2> QED
    BY <2>1, Zenon DEF Ordered
<1> HIDE DEF Hours
<1>5. Minutes(a) \in Int /\ Minutes(b) \in Int
  BY <1>0, <1>3, NumType
<1>6. /\ Minutes(a) < Minutes(b) <=> Hours(a) < Hours(b) \/ (Hours(a) = Hours(b) /\ a[5] < b[5])
      /\ Minutes(a) = Minutes(b) <=> Hours(a) = Hours(b) /\ a[5] = b[5]
  <2>1. Ordered(60, Hours(a), a[5], Hours(b), b[5])
    BY <1>0, <1>2, <1>3, NumOrder
  <2> QED
    BY <2>1, Zenon DEF Ordered
<1>7. SecondsOf(a) = Num(60, Minutes(a), a[6]) /\ SecondsOf(b) = Num(60, Minutes(b), b[6])
  BY DEF SecondsOf, Hours
<1> HIDE DEF Minutes
<1>8. SecondsOf(a) < SecondsOf(b) <=> Minutes(a) < Minutes(b) \/ (Minutes(a) = Minutes(b) /\ a[6] < b[6])
  <2>1. Ordered(60, Minutes(a), a[6], Minutes(b), b[6])
    BY <1>0, <1>2, <1>5, NumOrder
  <2> QED
    BY <1>7, <2>1, Zenon DEF Ordered
<1>9. /\ MonthsOf(a) < MonthsOf(b) <=> a[1] < b[1] \/ (a[1] = b[1] /\ a[2] < b[2])
      /\ MonthsOf(a) = MonthsOf(b) <=> a[1] = b[1] /\ a[2] = b[2]
  <2>1. Ordered(12, a[1], a[2], b[1], b[2])
    BY <1>0, NumOrder
  <2> QED
    BY <2>1, Zenon DEF Ordered, MonthsOf
<1> QED
  BY <1>1, <1>4, <1>6, <1>8, <1>9, Zenon

\* What is between two readings: the months between them, less the one
\* that is borrowed, and the seconds, more those of the borrowed month.
Late(a, b) == SecondsOf(b) < SecondsOf(a)
Month(t) == 86400 * DaysIn(t[1], t[2])

\* What Between answers, counted in months and in seconds beyond them; its years are
\* negative just when the readings are in reverse.
LEMMA BetweenCounts ==
    ASSUME NEW a \in Reading, NEW b \in Reading, NEW d, d = Between(a, b)
    PROVE  /\ IF Earlier(b, a) THEN d[1] < 0 ELSE Normal(d)
           /\ \A n \in 1..6 : d[n] \in Int
           /\ MonthsOf(d) = MonthsOf(b) - MonthsOf(a) - (IF Late(a, b) THEN 1 ELSE 0)
           /\ SecondsOf(d) = SecondsOf(b) - SecondsOf(a) + (IF Late(a, b) THEN Month(a) ELSE 0)
<1> DEFINE D == DaysIn(a[1], a[2])
           sec == b[6] - a[6] - 0
           min == b[5] - a[5] - Borrow(sec)
           hour == b[4] - a[4] - Borrow(min)
           day == b[3] - a[3] - Borrow(hour)
           month == b[2] - a[2] - Borrow(day)
           year == b[1] - a[1] - Borrow(month)
<1>0. /\ D \in 28..31
      /\ a[1] \in Nat /\ a[2] \in 1..12 /\ a[3] \in 1..D /\ a[4] \in 0..23 /\ a[5] \in 0..59 /\ a[6] \in 0..59
      /\ b[1] \in Nat /\ b[2] \in 1..12 /\ b[3] \in 1..31 /\ b[4] \in 0..23 /\ b[5] \in 0..59 /\ b[6] \in 0..59
  BY DaysInMonth DEF Reading
<1>i. /\ a[1] \in Int /\ a[2] \in Int /\ a[3] \in Int /\ a[4] \in Int /\ a[5] \in Int /\ a[6] \in Int
      /\ b[1] \in Int /\ b[2] \in Int /\ b[3] \in Int /\ b[4] \in Int /\ b[5] \in Int /\ b[6] \in Int
  BY <1>0
<1>1. /\ d[1] = year /\ d[2] = Norm(month, 12) /\ d[3] = Norm(day, D)
      /\ d[4] = Norm(hour, 24) /\ d[5] = Norm(min, 60) /\ d[6] = Norm(sec, 60)
  <2>1. b[6] - a[6] = sec
    BY <1>0
  <2> QED
    BY <2>1 DEF Between
<1> HIDE DEF D
<1>2. sec \in -60..59 /\ Norm(sec, 60) \in 0..59 /\ Borrow(sec) \in {0, 1}
  BY <1>0 DEF Norm, Borrow
<1> DEFINE borrowed == Borrow(sec)
<1>3. min = b[5] - a[5] - borrowed /\ min \in -60..59 /\ Norm(min, 60) \in 0..59 /\ Borrow(min) \in {0, 1}
  <2> HIDE DEF sec
  <2> QED  BY <1>0, <1>2 DEF Norm, Borrow
<1>4. hour \in -24..23 /\ Norm(hour, 24) \in 0..23 /\ Borrow(hour) \in {0, 1}
  <2> DEFINE taken == Borrow(min)
  <2>1. taken \in {0, 1}
    BY <1>3
  <2>2. hour = b[4] - a[4] - taken
    OBVIOUS
  <2> HIDE DEF min, taken, hour
  <2> QED  BY <1>0, <2>1, <2>2 DEF Norm, Borrow
<1>5. /\ day \in -31..30 /\ day >= -D /\ Norm(day, D) \in 0..30
      /\ Norm(day, D) = day + (IF day < 0 THEN D ELSE 0)
      /\ Borrow(day) = IF day < 0 THEN 1 ELSE 0
  <2>1. day = b[3] - a[3] - Borrow(hour)
    OBVIOUS
  <2> HIDE DEF hour, day
  <2>2. day \in Int /\ day >= -D /\ day <= 30
    BY <1>0, <1>4, <2>1
  <2>3. CASE day < 0
    <3>1. Norm(day, D) = day + D /\ Borrow(day) = 1
      BY <2>3 DEF Norm, Borrow
    <3> QED  BY <1>0, <2>2, <2>3, <3>1
  <2>4. CASE ~(day < 0)
    <3>1. Norm(day, D) = day /\ Borrow(day) = 0
      BY <2>4 DEF Norm, Borrow
    <3> QED  BY <1>0, <2>2, <2>4, <3>1
  <2> QED  BY <2>3, <2>4
<1> DEFINE borrow == IF day < 0 THEN 1 ELSE 0
<1>6. /\ month = b[2] - a[2] - borrow /\ month \in -12..11
      /\ Norm(month, 12) \in 0..11 /\ Borrow(month) \in {0, 1}
  <2>1. borrow \in {0, 1} /\ Borrow(day) = borrow
    BY <1>5
  <2> HIDE DEF day, borrow
  <2> QED  BY <1>0, <2>1 DEF Norm, Borrow
<1>7. SecondsOf(b) - SecondsOf(a) = Num(60, Num(60, Num(24, day, d[4]), d[5]), d[6])
  <2> DEFINE Hours(t) == Num(24, t[3], t[4])
             Minutes(t) == Num(60, Hours(t), t[5])
  <2>1. Hours(a) \in Int /\ Hours(b) \in Int
    BY <1>i, NumType
  <2>2. Hours(b) - Hours(a) - Borrow(min) = Num(24, day, Norm(hour, 24))
    <3> HIDE DEF min
    <3>1. Subtracted(24, a[3], a[4], b[3], b[4], Borrow(min))
      <4>1. Subtracted(24, a[3], a[4], b[3], b[4], 0) /\ Subtracted(24, a[3], a[4], b[3], b[4], 1)
        BY <1>i, NumDiff
      <4> QED  BY <1>3, <4>1
    <3> QED
      BY <3>1, Zenon DEF Subtracted
  <2>3. Minutes(a) \in Int /\ Minutes(b) \in Int
    <3> HIDE DEF Hours
    <3> QED  BY <1>i, <2>1, NumType
  <2>4. Minutes(b) - Minutes(a) - Borrow(sec) = Num(60, Hours(b) - Hours(a) - Borrow(min), Norm(min, 60))
    <3> HIDE DEF sec, Hours
    <3>1. Subtracted(60, Hours(a), a[5], Hours(b), b[5], Borrow(sec))
      <4>1. Subtracted(60, Hours(a), a[5], Hours(b), b[5], 0)
            /\ Subtracted(60, Hours(a), a[5], Hours(b), b[5], 1)
        BY <1>i, <2>1, NumDiff
      <4> QED  BY <1>2, <4>1
    <3> QED
      BY <3>1, Zenon DEF Subtracted
  <2>5. SecondsOf(b) - SecondsOf(a) - 0 = Num(60, Minutes(b) - Minutes(a) - Borrow(sec), Norm(sec, 60))
    <3>1. SecondsOf(a) = Num(60, Minutes(a), a[6]) /\ SecondsOf(b) = Num(60, Minutes(b), b[6])
      BY DEF SecondsOf
    <3> HIDE DEF Minutes
    <3>2. Subtracted(60, Minutes(a), a[6], Minutes(b), b[6], 0)
      BY <1>i, <2>3, NumDiff
    <3> QED
      BY <3>1, <3>2, Zenon DEF Subtracted
  <2>6. SecondsOf(b) \in Int /\ SecondsOf(a) \in Int
    BY <1>i, NumType DEF SecondsOf
  <2> HIDE DEF sec, min, hour, day, Hours, Minutes
  <2> QED
    BY <1>1, <2>2, <2>4, <2>5, <2>6
<1>8. SecondsOf(d) = SecondsOf(b) - SecondsOf(a) + (IF day < 0 THEN 86400 * D ELSE 0)
  <2>1. SecondsOf(d) = Num(60, Num(60, Num(24, Norm(day, D), d[4]), d[5]), d[6])
    BY <1>1 DEF SecondsOf
  <2>2. d[4] \in Int /\ d[5] \in Int /\ d[6] \in Int /\ D \in Int
    BY <1>0, <1>1, <1>2, <1>3, <1>4
  <2> HIDE DEF day
  <2> QED
    BY <1>5, <1>7, <2>1, <2>2 DEF Num
<1>9. day < 0 <=> Late(a, b)
  <2>1. d[4] \in 0..23 /\ d[5] \in 0..59 /\ d[6] \in 0..59 /\ day \in -31..30
    BY <1>1, <1>2, <1>3, <1>4, <1>5
  <2>2. SecondsOf(b) \in Int /\ SecondsOf(a) \in Int
    BY <1>i, NumType DEF SecondsOf
  <2> HIDE DEF day
  <2> QED
    <3>1. day \in Int
      BY <2>1
    <3>2. day < 0 <=> Num(60, Num(60, Num(24, day, d[4]), d[5]), d[6]) < 0
      <4>1. SameSign(day, d[4], d[5], d[6])
        BY <2>1, <3>1, ClockSign
      <4> QED  BY <4>1, Zenon DEF SameSign
    <3> QED
      BY <1>7, <2>2, <3>2 DEF Late
<1>10. MonthsOf(d) = MonthsOf(b) - MonthsOf(a) - (IF Late(a, b) THEN 1 ELSE 0)
       /\ year \in Int /\ MonthsOf(d) = Num(12, year, Norm(month, 12))
  <2>1. /\ year = b[1] - a[1] - Borrow(month) /\ borrow \in {0, 1}
        /\ borrow = IF Late(a, b) THEN 1 ELSE 0
    BY <1>9
  <2>2. MonthsOf(d) = Num(12, year, Norm(month, 12))
    BY <1>1 DEF MonthsOf
  <2> HIDE DEF day, month, borrow, year
  <2>3. Num(12, b[1], b[2]) - Num(12, a[1], a[2]) - borrow = Num(12, year, Norm(month, 12))
    <3>1. b[1] \in Int /\ a[1] \in Int /\ a[2] \in Int /\ b[2] \in Int
      BY <1>0
    <3> QED
      BY <1>6, <2>1, <3>1 DEF Num, Norm, Borrow
  <2> QED
    BY <1>0, <1>6, <2>1, <2>2, <2>3 DEF MonthsOf
<1>11. year < 0 <=> Earlier(b, a)
  <2>1. Earlier(b, a) <=> MonthsOf(b) < MonthsOf(a) \/ (MonthsOf(b) = MonthsOf(a) /\ Late(a, b))
    <3>1. \A i \in 1..6 : a[i] \in Int /\ b[i] \in Int
      BY DEF Reading
    <3>2. a[2] - b[2] < 12 /\ b[2] - a[2] < 12
      BY <1>0
    <3> HIDE DEF D
    <3>3. Earlier(b, a) <=> MonthsOf(b) < MonthsOf(a) \/ (MonthsOf(b) = MonthsOf(a) /\ SecondsOf(b) < SecondsOf(a))
      BY <1>0, <3>1, <3>2, EarlierBySeconds
    <3> QED
      BY <3>3, Zenon DEF Late
  <2>2. MonthsOf(a) \in Int /\ MonthsOf(b) \in Int
    BY <1>i, NumType DEF MonthsOf
  <2> HIDE DEF year, month
  <2>3. MonthsOf(d) < 0 <=> Earlier(b, a)
    BY <1>10, <2>1, <2>2
  <2> QED
    BY <1>6, <1>10, <2>3 DEF Num
<1>12. /\ IF Earlier(b, a) THEN d[1] < 0 ELSE Normal(d)
       /\ \A n \in 1..6 : d[n] \in Int
  <2> HIDE DEF sec, min, hour, day, month, year
  <2>1. /\ d[1] \in Int /\ d[2] \in 0..11 /\ d[3] \in 0..30
        /\ d[4] \in 0..23 /\ d[5] \in 0..59 /\ d[6] \in 0..59
    BY <1>1, <1>2, <1>3, <1>4, <1>5, <1>6, <1>10
  <2>2. d[1] < 0 <=> Earlier(b, a)
    BY <1>1, <1>11
  <2>3. \A n \in 1..6 : d[n] \in Int
    BY <2>1
  <2>4. ~(d[1] < 0) => Normal(d)
    BY <2>1 DEF Normal
  <2> QED
    BY <2>2, <2>3, <2>4, Zenon
<1> QED
  BY <1>8, <1>9, <1>10, <1>12 DEF Month, D

\* A reading is a sequence of sequences of six integers.
LEMMA SixInts ==
    /\ \A t \in Reading : \A i \in 1..6 : t[i] \in Int
    /\ \A a \in Reading, b \in Reading : ~Earlier(a, b) \/ ~Earlier(b, a)
    /\ \A t \in Reading : MonthsOf(t) \in Int /\ SecondsOf(t) \in Int
<1>1. \A t \in Reading : \A i \in 1..6 : t[i] \in Int
  BY DEF Reading
<1>2. ASSUME NEW t \in Reading PROVE MonthsOf(t) \in Int /\ SecondsOf(t) \in Int
  <2>1. t[1] \in Int /\ t[2] \in Int /\ t[3] \in Int /\ t[4] \in Int /\ t[5] \in Int /\ t[6] \in Int
    BY <1>1
  <2> QED
    BY <2>1, NumType DEF MonthsOf, SecondsOf
<1>3. ASSUME NEW a \in Reading, NEW b \in Reading, Earlier(a, b), Earlier(b, a) PROVE FALSE
  <2>1. PICK i \in 1..6 : a[i] < b[i] /\ \A j \in 1..i - 1 : a[j] = b[j]
    BY <1>3 DEF Earlier
  <2>2. PICK k \in 1..6 : b[k] < a[k] /\ \A j \in 1..k - 1 : b[j] = a[j]
    BY <1>3 DEF Earlier
  <2>3. a[i] \in Int /\ b[i] \in Int /\ a[k] \in Int /\ b[k] \in Int
    BY <1>1
  <2>4. CASE i < k  BY <2>1, <2>2, <2>3, <2>4
  <2>5. CASE k < i  BY <2>1, <2>2, <2>3, <2>5
  <2>6. CASE i = k  BY <2>1, <2>2, <2>3, <2>6
  <2> QED  BY <2>4, <2>5, <2>6
<1> QED
  BY <1>1, <1>2, <1>3

\* The seconds of a reading within its month.
LEMMA SecondsRange ==
    ASSUME NEW t \in Reading PROVE SecondsOf(t) >= 86400 /\ SecondsOf(t) < 86400 * (t[3] + 1)
<1>1. t[3] \in Nat \ {0} /\ t[4] \in 0..23 /\ t[5] \in 0..59 /\ t[6] \in 0..59
  BY DaysInMonth DEF Reading
<1>2. SecondsOf(t) = 86400 * t[3] + (3600 * t[4] + 60 * t[5] + t[6])
  <2> DEFINE x == t[3]  h == t[4]  m == t[5]  s == t[6]
  <2>1. x \in Int /\ h \in Int /\ m \in Int /\ s \in Int
    BY <1>1
  <2>2. SecondsOf(t) = 60 * (60 * (24 * x + h) + m) + s
    BY Zenon DEF SecondsOf, Num
  <2> HIDE DEF x, h, m, s
  <2>3. 60 * (60 * (24 * x + h) + m) + s = 86400 * x + (3600 * h + 60 * m + s)
    BY <2>1
  <2>4. SecondsOf(t) = 86400 * x + (3600 * h + 60 * m + s)
    BY <2>1, <2>2, <2>3
  <2> QED
    BY <2>4 DEF x, h, m, s
<1>3. 3600 * t[4] <= 82800 /\ 60 * t[5] <= 3540 /\ 3600 * t[4] \in Nat /\ 60 * t[5] \in Nat
  BY <1>1
<1>4. 3600 * t[4] + 60 * t[5] + t[6] \in Nat /\ 3600 * t[4] + 60 * t[5] + t[6] < 86400
  BY <1>1, <1>3
<1> QED
  BY <1>1, <1>2, <1>4

\* The order of readings, and of differences.
InOrder(a, b) ==
    Earlier(a, b) <=> \/ MonthsOf(a) < MonthsOf(b)
                      \/ MonthsOf(a) = MonthsOf(b) /\ SecondsOf(a) < SecondsOf(b)

\* Earlier is that order, on readings and on differences alike.
LEMMA ReadingsInOrder ==
    /\ \A a \in Reading, b \in Reading : InOrder(a, b)
    /\ \A a, b : Normal(a) /\ Normal(b) => InOrder(a, b)
<1>1. ASSUME NEW a \in Reading, NEW b \in Reading PROVE InOrder(a, b)
  <2>1. /\ \A i \in 1..6 : a[i] \in Int /\ b[i] \in Int
        /\ a[2] - b[2] < 12 /\ b[2] - a[2] < 12
        /\ a[4] \in 0..23 /\ b[4] \in 0..23 /\ a[5] \in 0..59 /\ b[5] \in 0..59
        /\ a[6] \in 0..59 /\ b[6] \in 0..59
    BY DEF Reading
  <2> QED
    BY <2>1, EarlierBySeconds, Zenon DEF InOrder
<1>2. ASSUME NEW a, NEW b, Normal(a), Normal(b) PROVE InOrder(a, b)
  <2>1. /\ \A i \in 1..6 : a[i] \in Int /\ b[i] \in Int
        /\ a[2] - b[2] < 12 /\ b[2] - a[2] < 12
        /\ a[4] \in 0..23 /\ b[4] \in 0..23 /\ a[5] \in 0..59 /\ b[5] \in 0..59
        /\ a[6] \in 0..59 /\ b[6] \in 0..59
    BY <1>2 DEF Normal
  <2> QED
    BY <2>1, EarlierBySeconds, Zenon DEF InOrder
<1> QED
  BY <1>1, <1>2

\* Neither is earlier than the other only if they are the same reading.
LEMMA SameReading ==
    ASSUME NEW a \in Reading, NEW b \in Reading, ~Earlier(a, b), ~Earlier(b, a) PROVE a = b
<1>1. \A i \in 1..6 : a[i] \in Int /\ b[i] \in Int
  BY SixInts
<1>2. /\ a[1] = b[1]
      /\ a[1] = b[1] => a[2] = b[2]
      /\ a[1] = b[1] /\ a[2] = b[2] => a[3] = b[3]
      /\ a[1] = b[1] /\ a[2] = b[2] /\ a[3] = b[3] => a[4] = b[4]
      /\ a[1] = b[1] /\ a[2] = b[2] /\ a[3] = b[3] /\ a[4] = b[4] => a[5] = b[5]
      /\ a[1] = b[1] /\ a[2] = b[2] /\ a[3] = b[3] /\ a[4] = b[4] /\ a[5] = b[5] => a[6] = b[6]
  BY <1>1 DEF Earlier
<1>3. \A i \in 1..6 : a[i] = b[i]
  BY <1>2
<1> QED
  BY <1>3 DEF Reading

\* Nothing is between a reading and itself only: nothing is lost to the month that
\* is borrowed.
LEMMA OnlyItselfIsNoTimeAway ==
    \A p, q \in Reading : Between(p, q) = <<0, 0, 0, 0, 0, 0>> <=> p = q
<1>1. ASSUME NEW p \in Reading PROVE Between(p, p) = <<0, 0, 0, 0, 0, 0>>
  <2>1. \A i \in 1..6 : p[i] \in Int
    BY SixInts
  <2>2. p[1] - p[1] = 0 /\ p[2] - p[2] = 0 /\ p[3] - p[3] = 0
        /\ p[4] - p[4] = 0 /\ p[5] - p[5] = 0 /\ p[6] - p[6] = 0
    BY <2>1
  <2>3. Borrow(0) = 0 /\ 0 - Borrow(0) = 0 /\ \A n \in Int : Norm(0, n) = 0
    BY DEF Borrow, Norm
  <2>4. DaysIn(p[1], p[2]) \in Int
    BY DaysInMonth DEF Reading
  <2> QED
    BY <2>2, <2>3, <2>4 DEF Between
<1>2. ASSUME NEW p \in Reading, NEW q \in Reading, ~Earlier(q, p),
             Between(p, q) = <<0, 0, 0, 0, 0, 0>>
      PROVE  p = q
  <2> DEFINE d == Between(p, q)
  <2>1. MonthsOf(d) = 0 /\ SecondsOf(d) = 0
    BY <1>2 DEF MonthsOf, SecondsOf, Num
  <2>2. /\ MonthsOf(d) = MonthsOf(q) - MonthsOf(p) - (IF Late(p, q) THEN 1 ELSE 0)
        /\ SecondsOf(d) = SecondsOf(q) - SecondsOf(p) + (IF Late(p, q) THEN Month(p) ELSE 0)
    BY <1>2, BetweenCounts
  <2> HIDE DEF d
  <2>3. /\ MonthsOf(p) \in Int /\ SecondsOf(p) \in Int
        /\ MonthsOf(q) \in Int /\ SecondsOf(q) \in Int
    BY SixInts
  <2>4. SecondsOf(p) < 86400 * (p[3] + 1) /\ 86400 <= SecondsOf(q)
    BY SecondsRange
  <2>5. p[3] \in 1..DaysIn(p[1], p[2]) /\ DaysIn(p[1], p[2]) \in 28..31
    BY DaysInMonth DEF Reading
  <2>6. ~Late(p, q)
    <3> SUFFICES ASSUME Late(p, q) PROVE FALSE
      OBVIOUS
    <3>1. SecondsOf(q) = SecondsOf(p) - 86400 * DaysIn(p[1], p[2])
      BY <2>1, <2>2, <2>3, <2>5 DEF Month
    <3> QED
      BY <2>3, <2>4, <2>5, <3>1
  <2>7. MonthsOf(q) = MonthsOf(p) /\ SecondsOf(q) = SecondsOf(p)
    <3>1. MonthsOf(d) = MonthsOf(q) - MonthsOf(p) - 0 /\ SecondsOf(d) = SecondsOf(q) - SecondsOf(p) + 0
      BY <2>2, <2>6, Zenon
    <3>2. MonthsOf(q) - MonthsOf(p) = 0 /\ SecondsOf(q) - SecondsOf(p) = 0
      BY <2>1, <2>3, <3>1
    <3>3. ASSUME NEW x \in Int, NEW y \in Int, x - y = 0 PROVE x = y
      BY <3>3
    <3> QED
      BY <2>3, <3>2, <3>3
  <2>8. InOrder(p, q)
    BY ReadingsInOrder
  <2>9. ~Earlier(p, q)
    BY <2>3, <2>7, <2>8 DEF InOrder
  <2> QED
    BY <1>2, <2>9, SameReading
<1>3. ASSUME NEW p \in Reading, NEW q \in Reading, Earlier(q, p)
      PROVE  Between(p, q) # <<0, 0, 0, 0, 0, 0>>
  <2>1. Between(p, q)[1] < 0
    BY <1>3, BetweenCounts
  <2> QED
    BY <2>1
<1> SUFFICES ASSUME NEW p \in Reading, NEW q \in Reading
             PROVE  Between(p, q) = <<0, 0, 0, 0, 0, 0>> <=> p = q
  OBVIOUS
<1>4. CASE p = q
  BY <1>1, <1>4, Zenon
<1>5. CASE p # q /\ Earlier(q, p)
  BY <1>3, <1>5, Zenon
<1>6. CASE p # q /\ ~Earlier(q, p)
  BY <1>2, <1>6, Zenon
<1> QED
  BY <1>4, <1>5, <1>6, Zenon

\* What comes after something that is not earlier is not earlier.
LEMMA ReadingsFollow ==
    ASSUME NEW p \in Reading, NEW q \in Reading, NEW r \in Reading,
           ~Earlier(q, p), Earlier(q, r)
    PROVE  ~Earlier(r, p)
<1>1. /\ MonthsOf(p) \in Int /\ MonthsOf(q) \in Int /\ MonthsOf(r) \in Int
      /\ SecondsOf(p) \in Int /\ SecondsOf(q) \in Int /\ SecondsOf(r) \in Int
  BY SixInts
<1>2. ~(MonthsOf(q) < MonthsOf(p)) /\ (MonthsOf(q) = MonthsOf(p) => ~(SecondsOf(q) < SecondsOf(p)))
  <2>1. InOrder(q, p)
    BY ReadingsInOrder
  <2> QED
    BY <2>1, Zenon DEF InOrder
<1>3. MonthsOf(q) < MonthsOf(r) \/ (MonthsOf(q) = MonthsOf(r) /\ SecondsOf(q) < SecondsOf(r))
  <2>1. InOrder(q, r)
    BY ReadingsInOrder
  <2> QED
    BY <2>1, Zenon DEF InOrder
<1>4. ~(MonthsOf(r) < MonthsOf(p)) /\ (MonthsOf(r) = MonthsOf(p) => ~(SecondsOf(r) < SecondsOf(p)))
  BY <1>1, <1>2, <1>3
<1>5. InOrder(r, p)
  BY ReadingsInOrder
<1> QED
  BY <1>4, <1>5, Zenon DEF InOrder

\* A later reading is further away, except over the end of a month that is longer
\* than the month of the reading the time is measured from.
LEMMA LaterReadsFurther ==
    \A p, q, r \in Reading : ~Earlier(q, p) /\ Earlier(q, r) =>
        \/ Earlier(Between(p, q), Between(p, r))
        \/ /\ q[3] > DaysIn(p[1], p[2])
           /\ MonthsOf(Between(p, q)) = MonthsOf(Between(p, r))
           /\ SecondsOf(Between(p, q)) - SecondsOf(Between(p, r)) < 3 * 86400
<1> SUFFICES ASSUME NEW p \in Reading, NEW q \in Reading, NEW r \in Reading,
                    ~Earlier(q, p), Earlier(q, r)
             PROVE  \/ Earlier(Between(p, q), Between(p, r))
                    \/ /\ q[3] > DaysIn(p[1], p[2])
                       /\ MonthsOf(Between(p, q)) = MonthsOf(Between(p, r))
                       /\ SecondsOf(Between(p, q)) - SecondsOf(Between(p, r)) < 3 * 86400
  OBVIOUS
<1> DEFINE d == Between(p, q)
           e == Between(p, r)
           D == DaysIn(p[1], p[2])
<1>1. /\ MonthsOf(p) \in Int /\ MonthsOf(q) \in Int /\ MonthsOf(r) \in Int
      /\ SecondsOf(p) \in Int /\ SecondsOf(q) \in Int /\ SecondsOf(r) \in Int
      /\ D \in 28..31 /\ q[3] \in 1..31
  <2>1. q[3] \in 1..DaysIn(q[1], q[2])
    BY DEF Reading
  <2> QED
    BY <2>1, SixInts, DaysInMonth
<1>2. ~(MonthsOf(q) < MonthsOf(p)) /\ (MonthsOf(q) = MonthsOf(p) => ~(SecondsOf(q) < SecondsOf(p)))
  <2>1. InOrder(q, p)
    BY ReadingsInOrder
  <2> QED
    BY <2>1, Zenon DEF InOrder
<1>3. MonthsOf(q) < MonthsOf(r) \/ (MonthsOf(q) = MonthsOf(r) /\ SecondsOf(q) < SecondsOf(r))
  <2>1. InOrder(q, r)
    BY ReadingsInOrder
  <2> QED
    BY <2>1, Zenon DEF InOrder
<1>4. ~Earlier(r, p)
  BY ReadingsFollow
<1>5. /\ Normal(d)
      /\ MonthsOf(d) = MonthsOf(q) - MonthsOf(p) - (IF Late(p, q) THEN 1 ELSE 0)
      /\ SecondsOf(d) = SecondsOf(q) - SecondsOf(p) + (IF Late(p, q) THEN Month(p) ELSE 0)
  BY BetweenCounts
<1>6. /\ Normal(e)
      /\ MonthsOf(e) = MonthsOf(r) - MonthsOf(p) - (IF Late(p, r) THEN 1 ELSE 0)
      /\ SecondsOf(e) = SecondsOf(r) - SecondsOf(p) + (IF Late(p, r) THEN Month(p) ELSE 0)
  BY <1>4, BetweenCounts
<1>7. InOrder(d, e)
  BY <1>5, <1>6, ReadingsInOrder
<1> HIDE DEF d, e, D
<1>8. SecondsOf(r) >= 86400 /\ SecondsOf(q) < 86400 * (q[3] + 1)
  BY SecondsRange
<1>9. PICK b \in {0, 1}, c \in {0, 1}, k \in 1..31, n \in 28..31 :
         /\ k = q[3] /\ n = D /\ Month(p) = 86400 * n
         /\ b = (IF Late(p, q) THEN 1 ELSE 0) /\ c = (IF Late(p, r) THEN 1 ELSE 0)
  BY <1>1 DEF Month, D
<1>10. /\ MonthsOf(d) = MonthsOf(q) - MonthsOf(p) - b
       /\ MonthsOf(e) = MonthsOf(r) - MonthsOf(p) - c
       /\ SecondsOf(d) = SecondsOf(q) - SecondsOf(p) + (IF b = 1 THEN 86400 * n ELSE 0)
       /\ SecondsOf(e) = SecondsOf(r) - SecondsOf(p) + (IF c = 1 THEN 86400 * n ELSE 0)
  <2>1. /\ MonthsOf(d) = MonthsOf(q) - MonthsOf(p) - b
        /\ MonthsOf(e) = MonthsOf(r) - MonthsOf(p) - c
    BY <1>1, <1>5, <1>6, <1>9
  <2>2. /\ (IF b = 1 THEN 86400 * n ELSE 0) = (IF Late(p, q) THEN Month(p) ELSE 0)
        /\ (IF c = 1 THEN 86400 * n ELSE 0) = (IF Late(p, r) THEN Month(p) ELSE 0)
    BY <1>9
  <2> QED
    BY <1>1, <1>5, <1>6, <2>1, <2>2
<1>11. (b = 1 <=> SecondsOf(q) < SecondsOf(p)) /\ (c = 1 <=> SecondsOf(r) < SecondsOf(p))
  BY <1>9 DEF Late
<1>12. \/ MonthsOf(d) < MonthsOf(e)
       \/ MonthsOf(d) = MonthsOf(e) /\ SecondsOf(d) < SecondsOf(e)
       \/ k > n /\ MonthsOf(d) = MonthsOf(e) /\ SecondsOf(d) - SecondsOf(e) < 3 * 86400
  <2>1. CASE MonthsOf(q) = MonthsOf(r)
    BY <1>1, <1>3, <1>9, <1>10, <1>11, <2>1
  <2>2. CASE MonthsOf(q) < MonthsOf(r)
    <3>1. CASE c = 0
      BY <1>1, <1>9, <1>10, <1>11, <2>2, <3>1
    <3>3. CASE c = 1 /\ b = 1
      BY <1>1, <1>10, <2>2, <3>3
    <3>2. CASE c = 1 /\ b = 0
      <4>1. MonthsOf(d) <= MonthsOf(e)
        BY <1>1, <1>10, <2>2, <3>2
      <4>2. SecondsOf(e) - SecondsOf(d) = SecondsOf(r) - SecondsOf(q) + 86400 * n
        BY <1>1, <1>10, <3>2
      <4>3. SecondsOf(e) - SecondsOf(d) > 86400 * (n - k)
        BY <1>1, <1>8, <1>9, <4>2
      <4>4. MonthsOf(d) \in Int /\ MonthsOf(e) \in Int /\ SecondsOf(d) \in Int /\ SecondsOf(e) \in Int
        BY <1>1, <1>10
      <4>5. CASE k <= n
        BY <4>1, <4>3, <4>4, <4>5
      <4>6. CASE k > n
        BY <4>1, <4>3, <4>4, <4>6
      <4> QED
        BY <4>5, <4>6
    <3> QED
      BY <1>9, <3>1, <3>2, <3>3
  <2> QED
    BY <1>1, <1>3, <2>1, <2>2
<1>13. Earlier(d, e) \/ (q[3] > D /\ MonthsOf(d) = MonthsOf(e) /\ SecondsOf(d) - SecondsOf(e) < 3 * 86400)
  BY <1>7, <1>9, <1>12 DEF InOrder
<1> QED
  BY <1>13 DEF d, e, D

\* The seconds of a day.
Day == 86400

\* The seconds of a reading's time of day.
Clock(t) == Num(60, Num(60, t[4], t[5]), t[6])

\* They are fewer than those of a day.
LEMMA ClockOfDay ==
    ASSUME NEW t, t[3] \in Int, t[4] \in 0..23, t[5] \in 0..59, t[6] \in 0..59
    PROVE  /\ Clock(t) \in Int /\ 0 <= Clock(t) /\ Clock(t) < Day
           /\ SecondsOf(t) = Day * t[3] + Clock(t)
<1> DEFINE x == t[3]  h == t[4]  m == t[5]  s == t[6]
<1>1. x \in Int /\ h \in 0..23 /\ m \in 0..59 /\ s \in 0..59
  OBVIOUS
<1>2. SecondsOf(t) = 60 * (60 * (24 * x + h) + m) + s /\ Clock(t) = 60 * (60 * h + m) + s
  BY Zenon DEF SecondsOf, Clock, Num
<1> HIDE DEF x, h, m, s
<1>3. h \in Int /\ m \in Int /\ s \in Int
  BY <1>1
<1>4. 60 * (60 * (24 * x + h) + m) + s = 86400 * x + (60 * (60 * h + m) + s)
  BY <1>1, <1>3
<1>5. 60 * (60 * h + m) + s \in Int /\ 60 * (60 * h + m) + s >= 0 /\ 60 * (60 * h + m) + s <= 86399
  <2>1. h >= 0 /\ h <= 23 /\ m >= 0 /\ m <= 59 /\ s >= 0 /\ s <= 59
    BY <1>1
  <2> QED  BY <1>3, <2>1
<1>6. Clock(t) \in Int /\ 0 <= Clock(t) /\ Clock(t) < Day
  BY <1>2, <1>5 DEF Day
<1>7. SecondsOf(t) = 86400 * x + Clock(t)
  BY <1>2, <1>4
<1> QED
  BY <1>6, <1>7 DEF x, Day

\* The numbers of a difference are integers, and its seconds those of its days and of
\* less than one more.
LEMMA DigitsOf ==
    ASSUME NEW d, Normal(d)
    PROVE  /\ d[1] \in Int /\ d[2] \in 0..11 /\ d[3] \in Int /\ SecondsOf(d) \in Int
           /\ SecondsOf(d) = Day * d[3] + Clock(d)
           /\ Clock(d) \in Int /\ 0 <= Clock(d) /\ Clock(d) < Day
<1>1. d[1] \in Int /\ d[2] \in 0..11 /\ d[3] \in Int /\ d[4] \in 0..23 /\ d[5] \in 0..59 /\ d[6] \in 0..59
  BY DEF Normal
<1>2. /\ SecondsOf(d) = Day * d[3] + Clock(d)
      /\ Clock(d) \in Int /\ 0 <= Clock(d) /\ Clock(d) < Day
  BY <1>1, ClockOfDay
<1>3. SecondsOf(d) \in Int
  BY <1>1, <1>2 DEF Day
<1> QED  BY <1>1, <1>2, <1>3, Zenon

\* The years and the months are those of the months in all.
LEMMA SameMonths ==
    ASSUME NEW d, NEW e, Normal(d), Normal(e), MonthsOf(d) = MonthsOf(e)
    PROVE  d[1] = e[1] /\ d[2] = e[2]
<1>1. d[1] \in Int /\ d[2] \in 0..11 /\ e[1] \in Int /\ e[2] \in 0..11
  BY DEF Normal
<1>2. Ordered(12, d[1], d[2], e[1], e[2])
  <2>1. d[2] \in Int /\ e[2] \in Int /\ d[2] - e[2] < 12 /\ e[2] - d[2] < 12
    BY <1>1
  <2> QED  BY <1>1, <2>1, NumOrder
<1>3. Num(12, d[1], d[2]) = Num(12, e[1], e[2])
  BY DEF MonthsOf
<1> QED
  BY <1>2, <1>3, Zenon DEF Ordered

\* Less than three days' seconds are at most three days.
LEMMA DaysLost ==
    ASSUME NEW x \in Int, NEW y \in Int, NEW h \in Int, NEW k \in Int, NEW v \in Int, NEW w \in Int,
           v = Day * x + h, 0 <= h, h < Day, w = Day * y + k, 0 <= k, k < Day,
           ~(v < w), v - w < 3 * Day
    PROVE  x - y \in 0..3
<1>1. 86400 * (x - y) < 4 * 86400 /\ 86400 * (x - y) > -86400
  BY DEF Day
<1>2. x - y < 4 /\ x - y > -1
  BY <1>1
<1> QED
  BY <1>2

\* The first two entries of a sequence.
LEMMA FirstTwo ==
    ASSUME NEW S, NEW s \in Seq(S), Len(s) >= 2
    PROVE  SubSeq(s, 1, 2) = <<s[1], s[2]>>
<1> DEFINE x == SubSeq(s, 1, 2)
           y == <<s[1], s[2]>>
<1>1. s[1] \in S /\ s[2] \in S
  OBVIOUS
<1>2. x \in Seq(S) /\ Len(x) = 2 /\ x[1] = s[1] /\ x[2] = s[2]
  OBVIOUS
<1>3. y \in Seq(S) /\ Len(y) = 2 /\ y[1] = s[1] /\ y[2] = s[2]
  BY <1>1
<1> HIDE DEF x, y
<1>4. \A k \in 1..Len(x) : x[k] = y[k]
  BY <1>2, <1>3
<1> QED
  BY <1>2, <1>3, <1>4, SeqEqual DEF x, y

\* The first two numbers of a difference.
LEMMA YearsAndMonths ==
    ASSUME NEW a \in Reading, NEW b \in Reading
    PROVE  SubSeq(Between(a, b), 1, 2) = <<Between(a, b)[1], Between(a, b)[2]>>
<1> DEFINE d == Between(a, b)
           sec == b[6] - a[6]
           min == b[5] - a[5] - Borrow(sec)
           hour == b[4] - a[4] - Borrow(min)
           day == b[3] - a[3] - Borrow(hour)
           month == b[2] - a[2] - Borrow(day)
           y1 == b[1] - a[1] - Borrow(month)
           y2 == Norm(month, 12)
           y3 == Norm(day, DaysIn(a[1], a[2]))
           y4 == Norm(hour, 24)
           y5 == Norm(min, 60)
           y6 == Norm(sec, 60)
<1>2. d = <<y1, y2, y3, y4, y5, y6>>
  BY Zenon DEF Between
<1> HIDE DEF sec, min, hour, day, month, y1, y2, y3, y4, y5, y6
<1>3. d[1] = y1 /\ d[2] = y2 /\ d[3] = y3 /\ d[4] = y4 /\ d[5] = y5 /\ d[6] = y6
  <2> HIDE DEF d
  <2> QED  BY <1>2
<1>4. y1 \in Int /\ y2 \in Int /\ y3 \in Int /\ y4 \in Int /\ y5 \in Int /\ y6 \in Int
  <2>1. \A n \in 1..6 : d[n] \in Int
    BY BetweenCounts
  <2> HIDE DEF d
  <2> QED  BY <1>3, <2>1
<1> HIDE DEF d
<1>5. d \in Seq(Int) /\ Len(d) >= 2
  BY <1>2, <1>4
<1>6. SubSeq(d, 1, 2) = <<d[1], d[2]>>
  BY <1>5, FirstTwo, Zenon
<1> QED
  BY <1>6 DEF d

\* What is between two readings in order, and what is between the first and a third.
LEMMA FurtherAway ==
    ASSUME NEW p \in Reading, NEW q \in Reading, NEW r \in Reading, ~Earlier(q, p), Earlier(q, r)
    PROVE  \/ Earlier(Between(p, q), Between(p, r))
           \/ /\ q[3] > DaysIn(p[1], p[2])
              /\ SubSeq(Between(p, q), 1, 2) = SubSeq(Between(p, r), 1, 2)
              /\ Between(p, q)[3] - Between(p, r)[3] \in 0..3
<1> DEFINE d == Between(p, q)
           e == Between(p, r)
<1>1. \/ Earlier(d, e)
      \/ /\ q[3] > DaysIn(p[1], p[2]) /\ MonthsOf(d) = MonthsOf(e)
         /\ SecondsOf(d) - SecondsOf(e) < 3 * Day
  BY LaterReadsFurther DEF Day
<1>2. /\ Normal(d) /\ Normal(e)
      /\ SubSeq(d, 1, 2) = <<d[1], d[2]>> /\ SubSeq(e, 1, 2) = <<e[1], e[2]>>
  <2>1. ~Earlier(r, p)
    BY ReadingsFollow
  <2> QED  BY <2>1, BetweenCounts, YearsAndMonths
<1> HIDE DEF d, e
<1>3. ASSUME ~Earlier(d, e), MonthsOf(d) = MonthsOf(e), SecondsOf(d) - SecondsOf(e) < 3 * Day
      PROVE  SubSeq(d, 1, 2) = SubSeq(e, 1, 2) /\ d[3] - e[3] \in 0..3
  <2>1. InOrder(d, e)
    BY <1>2, ReadingsInOrder
  <2>2. ~(SecondsOf(d) < SecondsOf(e))
    BY <1>3, <2>1 DEF InOrder
  <2>3. /\ SecondsOf(d) \in Int /\ SecondsOf(e) \in Int
        /\ d[3] \in Int /\ SecondsOf(d) = Day * d[3] + Clock(d)
        /\ Clock(d) \in Int /\ 0 <= Clock(d) /\ Clock(d) < Day
        /\ e[3] \in Int /\ SecondsOf(e) = Day * e[3] + Clock(e)
        /\ Clock(e) \in Int /\ 0 <= Clock(e) /\ Clock(e) < Day
    BY <1>2, DigitsOf
  <2>4. d[1] = e[1] /\ d[2] = e[2]
    BY <1>2, <1>3, SameMonths, Zenon
  <2>5. d[3] - e[3] \in 0..3
    BY <1>3, <2>2, <2>3, DaysLost, Zenon
  <2> QED  BY <1>2, <2>4, <2>5, Zenon
<1> QED
  BY <1>1, <1>3 DEF d, e

-----------------------------------------------------------------------------
(* Moments: instants, as the wall clock of a zone reads them *)

\* The readings of p and of q in the zone of p, and whether that zone's clock was set
\* back so far between the two instants that it shows them in reverse.
Here(p, q) == Wall[p.zone][q.at]
SetBack(p, q) ==
    \/ p.at <= q.at /\ Earlier(Here(p, q), Read(p))
    \/ q.at < p.at /\ Earlier(Read(p), Here(p, q))

\* Diff goes from the earlier instant to the later, whatever their readings.
LEMMA DiffIsBetween ==
    ASSUME NEW p \in Moment, NEW q \in Moment
    PROVE  /\ p.at \in Int /\ q.at \in Int
           /\ Read(p) \in Reading /\ Here(p, q) \in Reading
           /\ p.at = q.at => Here(p, q) = Read(p)
           /\ p.at <= q.at => Diff(p, q) = Between(Read(p), Here(p, q))
           /\ q.at < p.at => Diff(p, q) = Between(Here(p, q), Read(p))
<1>1. p.at \in Instants /\ q.at \in Instants /\ p.zone \in Zones /\ q.zone \in Zones
  BY DEF Moment
<1>2. p.at \in Int /\ q.at \in Int
  BY <1>1, CalendarAssumption
<1>3. \A z \in Zones, t \in Instants : Wall[z][t] \in Reading
  BY CalendarAssumption
<1>4. In(q, p.zone).at = q.at /\ In(q, p.zone).zone = p.zone
  BY DEF In, Moment
<1>5. Read(In(q, p.zone)) = Here(p, q)
  BY <1>4, Zenon DEF Read, Here
<1>6. After(p, In(q, p.zone)) <=> q.at < p.at
  BY <1>2, <1>4 DEF After
<1>7. p.at <= q.at <=> ~(q.at < p.at)
  BY <1>2
<1>8. Diff(p, q) = IF q.at < p.at THEN Between(Here(p, q), Read(p))
                                  ELSE Between(Read(p), Here(p, q))
  BY <1>5, <1>6, Zenon DEF Diff
<1> QED
  BY <1>1, <1>2, <1>3, <1>7, <1>8, Zenon DEF Read, Here

\* Differences are normalised, whatever months and leap days lie between, unless the
\* clock of the first moment's zone was set back so far that it shows the two in
\* reverse: Diff goes by instants when it swaps them (time.go:51) and by the clock
\* when it subtracts, and the years come out negative.
THEOREM DifferencesAreNormal ==
    \A p, q \in Moment : IF SetBack(p, q) THEN Diff(p, q)[1] < 0 ELSE Normal(Diff(p, q))
<1> SUFFICES ASSUME NEW p \in Moment, NEW q \in Moment
             PROVE  IF SetBack(p, q) THEN Diff(p, q)[1] < 0 ELSE Normal(Diff(p, q))
  OBVIOUS
<1>1. p.at <= q.at \/ q.at < p.at
  BY DiffIsBetween
<1>2. ASSUME p.at <= q.at
      PROVE  IF SetBack(p, q) THEN Diff(p, q)[1] < 0 ELSE Normal(Diff(p, q))
  <2>1. Read(p) \in Reading /\ Here(p, q) \in Reading /\ ~(q.at < p.at)
        /\ Diff(p, q) = Between(Read(p), Here(p, q))
    BY <1>2, DiffIsBetween
  <2>2. IF Earlier(Here(p, q), Read(p)) THEN Diff(p, q)[1] < 0 ELSE Normal(Diff(p, q))
    BY <2>1, BetweenCounts, Zenon
  <2> QED  BY <1>2, <2>1, <2>2, Zenon DEF SetBack
<1>3. ASSUME q.at < p.at
      PROVE  IF SetBack(p, q) THEN Diff(p, q)[1] < 0 ELSE Normal(Diff(p, q))
  <2>1. Read(p) \in Reading /\ Here(p, q) \in Reading /\ ~(p.at <= q.at)
        /\ Diff(p, q) = Between(Here(p, q), Read(p))
    BY <1>3, DiffIsBetween
  <2>2. IF Earlier(Read(p), Here(p, q)) THEN Diff(p, q)[1] < 0 ELSE Normal(Diff(p, q))
    BY <2>1, BetweenCounts, Zenon
  <2> QED  BY <1>3, <2>1, <2>2, Zenon DEF SetBack
<1> QED
  BY <1>1, <1>2, <1>3

\* Within one zone the order of the two moments does not matter: Diff swaps them.
\* Across zones it does, as each order is read in another zone (time.go:48).
THEOREM DifferencesAreSymmetric ==
    \A p, q \in Moment : p.zone = q.zone => Diff(p, q) = Diff(q, p)
<1> SUFFICES ASSUME NEW p \in Moment, NEW q \in Moment, p.zone = q.zone
             PROVE  Diff(p, q) = Diff(q, p)
  OBVIOUS
<1>1. Here(p, q) = Read(q) /\ Here(q, p) = Read(p)
  BY DEF Here, Read
<1>2. p.at \in Int /\ q.at \in Int
  BY DiffIsBetween
<1>3. CASE p.at = q.at
  <2>1. p.at <= q.at /\ q.at <= p.at
    BY <1>2, <1>3
  <2>2. Read(p) = Read(q)
    BY <1>3 DEF Read
  <2> QED  BY <1>1, <2>1, <2>2, DiffIsBetween
<1>4. CASE p.at < q.at
  <2>1. p.at <= q.at
    BY <1>2, <1>4
  <2> QED  BY <1>1, <1>4, <2>1, DiffIsBetween
<1>5. CASE q.at < p.at
  <2>1. q.at <= p.at
    BY <1>2, <1>5
  <2> QED  BY <1>1, <1>5, <2>1, DiffIsBetween
<1> QED
  BY <1>2, <1>3, <1>4, <1>5

\* Two moments are no time apart just when the clock of the first one's zone reads
\* them alike: a moment itself is, and so is one an hour later when the clock was set
\* back by that hour.
THEOREM NoTimeApartReadsAlike ==
    \A p, q \in Moment : Diff(p, q) = <<0, 0, 0, 0, 0, 0>> <=> Read(p) = Here(p, q)
<1> SUFFICES ASSUME NEW p \in Moment, NEW q \in Moment
             PROVE  Diff(p, q) = <<0, 0, 0, 0, 0, 0>> <=> Read(p) = Here(p, q)
  OBVIOUS
<1>1. p.at <= q.at \/ q.at < p.at
  BY DiffIsBetween
<1>2. Read(p) \in Reading /\ Here(p, q) \in Reading
  BY DiffIsBetween
<1>3. CASE p.at <= q.at
  <2>1. Diff(p, q) = Between(Read(p), Here(p, q))
    BY <1>3, DiffIsBetween
  <2> QED  BY <1>2, <2>1, OnlyItselfIsNoTimeAway, Zenon
<1>4. CASE q.at < p.at
  <2>1. Diff(p, q) = Between(Here(p, q), Read(p))
    BY <1>4, DiffIsBetween
  <2> QED  BY <1>2, <2>1, OnlyItselfIsNoTimeAway, Zenon
<1> QED
  BY <1>1, <1>3, <1>4

\* Difference e is longer than d, the one from reading a to b, or falls short of it at
\* the end of a month longer than a's.
FurtherOrShort(a, b, d, e) ==
    \/ Earlier(d, e)
    \/ /\ b[3] > DaysIn(a[1], a[2])
       /\ MonthsOf(d) = MonthsOf(e)
       /\ SecondsOf(d) - SecondsOf(e) < 3 * 86400

\* While the clock of the first moment's zone runs on, a later moment is a longer time
\* away, except over the end of a month that is longer than the month of the moment
\* the time is measured from (time.go:82 borrows the length of that one): there the
\* days may fall, by less than three days in all, but the months never do.
THEOREM LaterIsFurther ==
    \A p, q, r \in Moment :
       /\ p.at <= q.at /\ ~Earlier(Here(p, q), Read(p))
       /\ q.at <= r.at /\ Earlier(Here(p, q), Here(p, r))
       => \/ Earlier(Diff(p, q), Diff(p, r))
          \/ /\ Here(p, q)[3] > DaysIn(Read(p)[1], Read(p)[2])
             /\ MonthsOf(Diff(p, q)) = MonthsOf(Diff(p, r))
             /\ SecondsOf(Diff(p, q)) - SecondsOf(Diff(p, r)) < 3 * 86400
<1> SUFFICES ASSUME NEW p \in Moment, NEW q \in Moment, NEW r \in Moment,
                    p.at <= q.at, ~Earlier(Here(p, q), Read(p)),
                    q.at <= r.at, Earlier(Here(p, q), Here(p, r))
             PROVE  FurtherOrShort(Read(p), Here(p, q), Diff(p, q), Diff(p, r))
  BY DEF FurtherOrShort
<1>1. /\ p.at \in Int /\ q.at \in Int /\ r.at \in Int
      /\ Read(p) \in Reading /\ Here(p, q) \in Reading /\ Here(p, r) \in Reading
  BY DiffIsBetween
<1>2. p.at <= r.at
  BY <1>1
<1>3. Diff(p, q) = Between(Read(p), Here(p, q)) /\ Diff(p, r) = Between(Read(p), Here(p, r))
  BY <1>2, DiffIsBetween
<1>4. \A a, b, e \in Reading :
         ~Earlier(b, a) /\ Earlier(b, e) => FurtherOrShort(a, b, Between(a, b), Between(a, e))
  BY LaterReadsFurther DEF FurtherOrShort
<1> QED
  BY <1>1, <1>3, <1>4, Zenon

\* Differences of moments keep what DiffOrdersMoments promises.
LEMMA DiffPromise ==
    ASSUME answered, request.fn = "Diff", request.in \in Spans, value = Compute
    PROVE  DiffOrdersMoments
<1> DEFINE p == request.in[1]
           q == request.in[2]
           r == request.in[3]
           a == Wall[p.zone][p.at]
           b == Wall[p.zone][q.at]
           c == Wall[p.zone][r.at]
<1>1. /\ p \in Moment /\ q \in Moment /\ r \in Moment
      /\ p.at <= q.at /\ q.at < r.at
  BY LibraryAssumption
<1>2. /\ value.diff = Diff(p, q) /\ value.back = Diff(q, p) /\ value.next = Diff(p, r)
  BY Zenon DEF Compute, DiffCustom
<1>3. Read(p) = a /\ Here(p, q) = b /\ Here(p, r) = c
  BY DEF Read, Here
<1>4. DiffOrdersMoments <=>
         (answered /\ request.fn = "Diff" =>
            /\ IF Earlier(b, a) THEN value.diff[1] < 0 ELSE Normal(value.diff)
            /\ a = b <=> value.diff = <<0, 0, 0, 0, 0, 0>>
            /\ q.zone = p.zone => value.back = value.diff
            /\ ~Earlier(b, a) /\ Earlier(b, c) =>
                  \/ Earlier(value.diff, value.next)
                  \/ /\ b[3] > DaysIn(a[1], a[2])
                     /\ SubSeq(value.diff, 1, 2) = SubSeq(value.next, 1, 2)
                     /\ value.diff[3] - value.next[3] \in 0..3)
  BY Zenon DEF DiffOrdersMoments, Answered, in
<1> HIDE DEF p, q, r, a, b, c
<1>5. p.at <= r.at /\ ~(q.at < p.at)
  <2>1. p.at \in Int /\ q.at \in Int /\ r.at \in Int
    BY <1>1, DiffIsBetween
  <2> QED  BY <1>1, <2>1
<1>6. a \in Reading /\ b \in Reading /\ c \in Reading
  BY <1>1, <1>3, DiffIsBetween
<1>7. Diff(p, q) = Between(a, b) /\ Diff(p, r) = Between(a, c)
  BY <1>1, <1>3, <1>5, DiffIsBetween
<1>8. IF Earlier(b, a) THEN Diff(p, q)[1] < 0 ELSE Normal(Diff(p, q))
  BY <1>6, <1>7, BetweenCounts, Zenon
<1>9. a = b <=> Diff(p, q) = <<0, 0, 0, 0, 0, 0>>
  BY <1>6, <1>7, OnlyItselfIsNoTimeAway, Zenon
<1>10. q.zone = p.zone => Diff(q, p) = Diff(p, q)
  BY <1>1, DifferencesAreSymmetric, Zenon
<1>11. ~Earlier(b, a) /\ Earlier(b, c) =>
          \/ Earlier(Diff(p, q), Diff(p, r))
          \/ /\ b[3] > DaysIn(a[1], a[2])
             /\ SubSeq(Diff(p, q), 1, 2) = SubSeq(Diff(p, r), 1, 2)
             /\ Diff(p, q)[3] - Diff(p, r)[3] \in 0..3
  <2>1. SUFFICES ASSUME ~Earlier(b, a), Earlier(b, c)
                 PROVE  \/ Earlier(Between(a, b), Between(a, c))
                        \/ /\ b[3] > DaysIn(a[1], a[2])
                           /\ SubSeq(Between(a, b), 1, 2) = SubSeq(Between(a, c), 1, 2)
                           /\ Between(a, b)[3] - Between(a, c)[3] \in 0..3
    BY <1>7, Zenon
  <2> QED
    BY <1>6, <2>1, FurtherAway
<1> QED
  BY <1>2, <1>4, <1>8, <1>9, <1>10, <1>11, Zenon

-----------------------------------------------------------------------------
(* The helpers together *)

\* A behaviour of the helpers is one call: what it answers is what it computes.
OneAnswer ==
    /\ request \in Requested \cup {NoRequest}
    /\ answered => request \in Requested /\ value = Compute

\* A request that is not one of the helpers' is not answered.
LEMMA Requests ==
    ASSUME NEW r \in Requested
    PROVE  /\ \/ r.fn = "Unique" /\ r.in \in Slices
              \/ r.fn = "Npwp" /\ r.in \in TaxNumbers
              \/ r.fn = "ReadNpwp" /\ r.in \in TaxTexts
              \/ r.fn = "Underscore" /\ r.in \in FieldNames
              \/ r.fn = "Spell" /\ r.in \in Numbers
              \/ r.fn = "Censor" /\ r.in \in Personal \X Quarters \X {0, 1}
              \/ r.fn = "Diff" /\ r.in \in Spans
<1>1. \A f, s : r \in Pure(f, s) => r.fn = f /\ r.in \in s
  BY DEF Pure
<1> QED
  BY <1>1, Zenon DEF Requested

\* The answer stands, as its request does.
LEMMA AnswerStands ==
    ASSUME OneAnswer, [Next]_vars PROVE OneAnswer'
<1>1. CASE Answer
  <2>1. request' = request /\ answered' /\ value' = Compute /\ request \in Requested
    BY <1>1, Zenon DEF Answer, OneAnswer
  <2>2. Compute' = Compute
    BY <2>1, Zenon DEF Compute
  <2> QED
    BY <2>1, <2>2, Zenon DEF OneAnswer, Requested
<1>2. ASSUME UNCHANGED <<request, answered, value>> PROVE OneAnswer'
  <2>1. request' = request /\ answered' = answered /\ value' = value
    BY <1>2
  <2>2. Compute' = Compute
    BY <2>1, Zenon DEF Compute
  <2> QED
    BY <2>1, <2>2, Zenon DEF OneAnswer
<1>3. WriteFiles => UNCHANGED <<request, answered, value>>
  BY DEF WriteFiles
<1>4. UNCHANGED vars => UNCHANGED <<request, answered, value>>
  BY DEF vars
<1> QED
  BY <1>1, <1>2, <1>3, <1>4, Zenon DEF Next

\* What a helper has computed is right.
LEMMA RightAnswer == ASSUME OneAnswer PROVE HelpersRight
<1>1. CASE ~answered
  BY <1>1, Zenon DEF HelpersRight, UniqueKeepsFirst, NpwpReadBack, UnderscoreKeepsLetters,
        SpellingUnderstood, CensorKeepsShape, DiffOrdersMoments, Answered
<1>2. CASE answered
  <2>1. request \in Requested /\ value = Compute
    BY <1>2 DEF OneAnswer
  <2>2. /\ request.fn = "Unique" => request.in \in Slices
        /\ request.fn = "Npwp" => request.in \in TaxNumbers
        /\ request.fn = "ReadNpwp" => request.in \in TaxTexts
        /\ request.fn = "Underscore" => request.in \in FieldNames
        /\ request.fn = "Spell" => request.in \in Numbers
        /\ request.fn = "Censor" => request.in \in Personal \X Quarters \X {0, 1}
        /\ request.fn = "Diff" => request.in \in Spans
    BY <2>1, Requests
  <2>3. UniqueKeepsFirst
    BY <1>2, <2>1, <2>2, UniquePromise, Zenon DEF UniqueKeepsFirst, Answered
  <2>4. NpwpReadBack
    BY <1>2, <2>1, <2>2, NpwpPromise, Zenon DEF NpwpReadBack, Answered
  <2>5. UnderscoreKeepsLetters
    BY <1>2, <2>1, <2>2, UnderscorePromise, Zenon DEF UnderscoreKeepsLetters, Answered
  <2>6. SpellingUnderstood
    BY <1>2, <2>1, <2>2, SpellPromise, Zenon DEF SpellingUnderstood, Answered
  <2>7. CensorKeepsShape
    BY <1>2, <2>1, <2>2, CensorPromise, Zenon DEF CensorKeepsShape, Answered
  <2>8. DiffOrdersMoments
    BY <1>2, <2>1, <2>2, DiffPromise, Zenon DEF DiffOrdersMoments, Answered
  <2> QED
    BY <2>3, <2>4, <2>5, <2>6, <2>7, <2>8, Zenon DEF HelpersRight
<1> QED
  BY <1>1, <1>2

\* Every helper keeps its promise for every argument HelpersRight speaks of, at any
\* width of the ints, in any zones and with any moments in them.
THEOREM HelpersAreRight == Spec => []HelpersRight
<1>1. Init => OneAnswer
  BY DEF Init, OneAnswer
<1>2. OneAnswer /\ [Next]_vars => OneAnswer'
  BY AnswerStands
<1>3. OneAnswer => HelpersRight
  BY RightAnswer
<1> QED
  BY <1>1, <1>2, <1>3, PTL DEF Spec

-----------------------------------------------------------------------------
(***************************************************************************)
(* The files.                                                              *)
(***************************************************************************)

USE FilesAssumption

\* Where a call of each function can be.
Places(f) ==
    IF f = "download"
      THEN {"idle", "status", "create", "first", "second", "open", "sniff", "returned"}
      ELSE {"idle", "create", "first", "second", "sync", "returned"}

VarTypes ==
    /\ file \in [Names -> (Callers \cup {Empty}) \X (Callers \cup {Empty})]
    /\ how \in [Callers -> {"download", "decode"}] /\ name \in [Callers -> Names]
    /\ body \in [Callers -> BOOLEAN] /\ handles \in [Callers -> 0..2]
    /\ type \in [Callers -> Types \cup {Empty, Unknown}]
    /\ result \in [Callers -> {Empty, "ok", "error"}]
    /\ fpc \in [Callers -> Places("download") \cup Places("decode")]
    /\ refused \subseteq Callers /\ cut \subseteq Callers /\ blind \subseteq Callers

AtPlace(c) ==
    /\ fpc[c] \in Places(how[c])
    /\ fpc[c] \in {"idle", "status", "create"} => handles[c] = 0
    /\ fpc[c] \in {"first", "second", "sync", "open"} => handles[c] = 1
    /\ fpc[c] = "sniff" => handles[c] = 2
    /\ result[c] # Empty <=> fpc[c] = "returned"

TypeInv == VarTypes /\ \A c \in Callers : AtPlace(c)

\* What a call holds at each place: the body of its answer from http.Get until
\* it returns, and the histories that tell how it returned.
Holds(c) ==
    /\ body[c] <=> IF fpc[c] = "returned" THEN c \in refused
                   ELSE how[c] = "download" /\ fpc[c] # "idle"
    /\ c \in refused => fpc[c] = "returned"
    /\ c \in blind => fpc[c] = "returned"
    /\ fpc[c] = "returned" => handles[c] = IF c \in blind THEN 1 ELSE 0
    /\ c \in cut => how[c] = "download" /\ fpc[c] \in {"open", "sniff", "returned"}
    /\ how[c] = "decode" /\ fpc[c] # "idle" /\ result[c] # "error" =>
          type[c] = TypeOf[c] /\ type[c] \in Whitelist

\* What the file of a call that shares its name with nobody holds at each place.
Written(c) ==
    LET f == file[name[c]]
    IN Alone(c) =>
          /\ fpc[c] = "first" => f = Blank
          /\ fpc[c] = "second" => f = <<c, Empty>>
          /\ fpc[c] \in {"open", "sync", "sniff"} =>
                IF c \in cut THEN f \in {Blank, <<c, Empty>>} ELSE f = <<c, c>>
          /\ Succeeded(c) => /\ type[c] = TypeOf[c]
                             /\ f = IF c \in cut THEN <<c, Empty>> ELSE <<c, c>>

FilesInv == TypeInv /\ \A c \in Callers : Holds(c) /\ Written(c)

-----------------------------------------------------------------------------
(* Types *)

\* Every call that has not begun satisfies the invariant.
LEMMA FilesInit == FInit => FilesInv
<1> SUFFICES ASSUME FInit PROVE FilesInv
  OBVIOUS
<1>1. TypeInv
  BY DEF FInit, TypeInv, VarTypes, AtPlace, Places, Blank
<1>2. ASSUME NEW c \in Callers PROVE Holds(c) /\ Written(c)
  BY DEF FInit, Holds, Written, Succeeded
<1> QED
  BY <1>1, <1>2 DEF FilesInv

\* A step of one call moves it on, and leaves the others and their files alone.
LEMMA OneCall ==
    ASSUME VarTypes, NEW c \in Callers, FStep(c)
    PROVE  /\ fpc'[c] # "idle" /\ UNCHANGED call
           /\ \A n \in Names : n # name[c] => file'[n] = file[n]
           /\ \A d \in Callers \ {c} :
                 /\ fpc'[d] = fpc[d] /\ body'[d] = body[d] /\ handles'[d] = handles[d]
                 /\ type'[d] = type[d] /\ result'[d] = result[d]
                 /\ d \in refused' <=> d \in refused
                 /\ d \in cut' <=> d \in cut
                 /\ d \in blind' <=> d \in blind
<1> USE DEF VarTypes, Set, Go, Return, From, history, call
<1>1. CASE Get(c)
  BY <1>1 DEF Get
<1>2. CASE Status(c)
  BY <1>2 DEF Status
<1>3. CASE Create(c)
  BY <1>3 DEF Create
<1>4. CASE Copy(c)
  BY <1>4 DEF Copy, Put
<1>5. CASE CopyBreaks(c)
  BY <1>5 DEF CopyBreaks
<1>6. CASE Open(c)
  BY <1>6 DEF Open
<1>7. CASE Sniff(c)
  BY <1>7 DEF Sniff
<1>8. CASE Decode(c)
  BY <1>8 DEF Decode
<1>9. CASE Sync(c)
  BY <1>9 DEF Sync
<1> QED
  BY <1>1, <1>2, <1>3, <1>4, <1>5, <1>6, <1>7, <1>8, <1>9 DEF FStep

\* What a call sets keeps its type.
LEMMA SetKeeps ==
    ASSUME NEW S, NEW f \in [Callers -> S], NEW c \in Callers, NEW v \in S
    PROVE  Set(f, c, v) \in [Callers -> S]
  BY DEF Set

\* What a step of a call sets, and to what.
LEMMA Settings ==
    ASSUME VarTypes, NEW c \in Callers, FStep(c)
    PROVE  /\ body' = body \/ body' = Set(body, c, TRUE) \/ body' = Set(body, c, FALSE)
           /\ handles' = handles \/ \E n \in 0..2 : handles' = Set(handles, c, n)
           /\ result' = result \/ \E r \in {"ok", "error"} : result' = Set(result, c, r)
           /\ type' = type \/ \E t \in Types \cup {Unknown} : type' = Set(type, c, t)
           /\ UNCHANGED call
<1> USE DEF Return, From, history, call
<1>0. 0 \in 0..2 /\ 1 \in 0..2 /\ 2 \in 0..2 /\ TypeOf[c] \in Types
  OBVIOUS
<1>1. CASE Get(c)
  BY <1>0, <1>1 DEF Get
<1>2. CASE Status(c)
  BY <1>0, <1>2 DEF Status
<1>3. CASE Create(c)
  BY <1>0, <1>3 DEF Create
<1>4. CASE Copy(c)
  BY <1>0, <1>4 DEF Copy
<1>5. CASE CopyBreaks(c)
  BY <1>0, <1>5 DEF CopyBreaks
<1>6. CASE Open(c)
  BY <1>0, <1>6 DEF Open
<1>7. CASE Sniff(c)
  <2>1. file[name[c]][1] \in Callers \cup {Empty}
    BY DEF VarTypes
  <2>2. (IF file[name[c]][1] = Empty THEN Unknown ELSE TypeOf[file[name[c]][1]])
            \in Types \cup {Unknown}
    BY <2>1
  <2> QED  BY <1>0, <1>7, <2>2 DEF Sniff
<1>8. CASE Decode(c)
  BY <1>0, <1>8 DEF Decode
<1>9. CASE Sync(c)
  BY <1>0, <1>9 DEF Sync
<1> QED
  BY <1>1, <1>2, <1>3, <1>4, <1>5, <1>6, <1>7, <1>8, <1>9 DEF FStep

\* Every step keeps the types of the variables.
LEMMA VarTypeStep ==
    ASSUME VarTypes, NEW c \in Callers, FStep(c)
    PROVE  VarTypes'
<1>1. file' \in [Names -> (Callers \cup {Empty}) \X (Callers \cup {Empty})]
  <2>1. \/ file' = file \/ file' = [file EXCEPT ![name[c]] = Blank]
        \/ \E b \in {1, 2} : file' = Put(c, b)
    BY DEF FStep, Get, Status, Create, Copy, CopyBreaks, Open, Sniff, Decode, Sync
  <2>2. [file EXCEPT ![name[c]] = Blank]
            \in [Names -> (Callers \cup {Empty}) \X (Callers \cup {Empty})]
    BY DEF VarTypes, Blank
  <2>3. \A b \in {1, 2} : Put(c, b) \in [Names -> (Callers \cup {Empty}) \X (Callers \cup {Empty})]
    BY DEF VarTypes, Put
  <2>4. file \in [Names -> (Callers \cup {Empty}) \X (Callers \cup {Empty})]
    BY DEF VarTypes
  <2> QED  BY <2>1, <2>2, <2>3, <2>4, Zenon
<1>2. body' \in [Callers -> BOOLEAN]
  <2>1. \A v \in BOOLEAN : Set(body, c, v) \in [Callers -> BOOLEAN]
    BY Zenon, SetKeeps DEF VarTypes
  <2> QED  BY <2>1, Settings, Zenon DEF VarTypes
<1>3. handles' \in [Callers -> 0..2]
  <2>1. \A v \in 0..2 : Set(handles, c, v) \in [Callers -> 0..2]
    BY Zenon, SetKeeps DEF VarTypes
  <2>2. handles' = handles \/ \E n \in 0..2 : handles' = Set(handles, c, n)
    BY Settings
  <2>3. handles \in [Callers -> 0..2]
    BY DEF VarTypes
  <2> QED  BY <2>1, <2>2, <2>3, Zenon
<1>4. result' \in [Callers -> {Empty, "ok", "error"}]
  BY Settings DEF VarTypes, Set
<1>5. type' \in [Callers -> Types \cup {Empty, Unknown}]
  <2>1. \A v \in Types \cup {Empty, Unknown} :
           Set(type, c, v) \in [Callers -> Types \cup {Empty, Unknown}]
    BY Zenon, SetKeeps DEF VarTypes
  <2>2. type' = type \/ \E t \in Types \cup {Unknown} : type' = Set(type, c, t)
    BY Settings
  <2>3. Types \cup {Unknown} \subseteq Types \cup {Empty, Unknown}
    OBVIOUS
  <2>4. type \in [Callers -> Types \cup {Empty, Unknown}]
    BY DEF VarTypes
  <2> QED  BY <2>1, <2>2, <2>3, <2>4, Zenon
<1>6. fpc' \in [Callers -> Places("download") \cup Places("decode")]
  <2>1. CASE Get(c)
    BY <2>1 DEF Get, Places, VarTypes, Go, Return, From
  <2>2. CASE Status(c)
    BY <2>2 DEF Status, Places, VarTypes, Go, Return, From
  <2>3. CASE Create(c)
    BY <2>3 DEF Create, Places, VarTypes, Go, Return, From
  <2>4. CASE Copy(c)
    BY <2>4 DEF Copy, Places, VarTypes, Go, Return, From
  <2>5. CASE CopyBreaks(c)
    <3>1. Go(c, "open") \/ Go(c, "returned")
      BY <2>5 DEF CopyBreaks, Return
    <3> QED  BY <3>1 DEF Go, Places, VarTypes
  <2>6. CASE Open(c)
    BY <2>6 DEF Open, Places, VarTypes, Go, Return, From
  <2>7. CASE Sniff(c)
    BY <2>7 DEF Sniff, Places, VarTypes, Go, Return, From
  <2>8. CASE Decode(c)
    BY <2>8 DEF Decode, Places, VarTypes, Go, Return, From
  <2>9. CASE Sync(c)
    BY <2>9 DEF Sync, Places, VarTypes, Go, Return, From
  <2> QED
    BY <2>1, <2>2, <2>3, <2>4, <2>5, <2>6, <2>7, <2>8, <2>9 DEF FStep
<1>7. refused' \subseteq Callers /\ cut' \subseteq Callers /\ blind' \subseteq Callers
  BY DEF VarTypes, history, FStep, Get, Status, Create, Copy, CopyBreaks, Open, Sniff,
         Decode, Sync
<1>8. how' \in [Callers -> {"download", "decode"}] /\ name' \in [Callers -> Names]
  BY Settings DEF VarTypes, call
<1> QED
  BY <1>1, <1>2, <1>3, <1>4, <1>5, <1>6, <1>7, <1>8 DEF VarTypes

\* A step of a call takes it to a place that is right for what it holds.
LEMMA HoldsStep ==
    ASSUME VarTypes, NEW c \in Callers, AtPlace(c), Holds(c), FStep(c)
    PROVE  AtPlace(c)' /\ Holds(c)'
<1> USE DEF VarTypes, AtPlace, Holds, Set, Go, Return, From, history, call, Places, Empty
<1>1. CASE Get(c)
  BY <1>1 DEF Get
<1>2. CASE Status(c)
  BY <1>2 DEF Status
<1>3. CASE Create(c)
  BY <1>3 DEF Create
<1>4. CASE Copy(c)
  BY <1>4 DEF Copy
<1>5. CASE CopyBreaks(c)
  BY <1>5 DEF CopyBreaks
<1>6. CASE Open(c)
  BY <1>6 DEF Open
<1>7. CASE Sniff(c)
  BY <1>7 DEF Sniff
<1>8. CASE Decode(c)
  BY <1>8 DEF Decode
<1>9. CASE Sync(c)
  BY <1>9 DEF Sync
<1> QED
  BY <1>1, <1>2, <1>3, <1>4, <1>5, <1>6, <1>7, <1>8, <1>9 DEF FStep

-----------------------------------------------------------------------------
(* What is in the files *)

\* While no other call uses its name, a call finds in its file what it has
\* written there, block after block.
LEMMA WrittenStep ==
    ASSUME VarTypes, NEW c \in Callers, AtPlace(c), Holds(c), Written(c), FStep(c), Alone(c)
    PROVE  Written(c)'
<1> USE DEF VarTypes, AtPlace, Holds, Written, Succeeded, Set, Go, Return, From, history,
            call, Places, Empty, Blank
<1>1. CASE Get(c)
  BY <1>1 DEF Get
<1>2. CASE Status(c)
  BY <1>2 DEF Status
<1>3. CASE Create(c)
  BY <1>3 DEF Create
<1>4. CASE Copy(c)
  BY <1>4 DEF Copy, Put
<1>5. CASE CopyBreaks(c)
  BY <1>5 DEF CopyBreaks
<1>6. CASE Open(c)
  BY <1>6 DEF Open
<1>7. CASE Sniff(c)
  <2> DEFINE f == file[name[c]]
  <2>1. UNCHANGED <<file, name, how, cut>> /\ fpc'[c] = "returned"
    BY <1>7 DEF Sniff
  <2>2. IF c \in cut THEN f \in {Blank, <<c, Empty>>} ELSE f = <<c, c>>
    BY <1>7 DEF Sniff
  <2>3. CASE result'[c] = "ok"
    <3>1. f # Blank /\ type'[c] = IF f[1] = Empty THEN Unknown ELSE TypeOf[f[1]]
      BY <1>7, <2>3 DEF Sniff
    <3>2. f = IF c \in cut THEN <<c, Empty>> ELSE <<c, c>>
      BY <2>2, <3>1
    <3>3. <<c, Empty>>[1] = c /\ <<c, c>>[1] = c
      OBVIOUS
    <3>4. f[1] = c
      <4> HIDE DEF f
      <4> QED  BY <3>2, <3>3, Zenon
    <3>5. type'[c] = TypeOf[c]
      BY <3>1, <3>4
    <3> QED  BY <2>1, <3>2, <3>5
  <2>4. CASE result'[c] # "ok"
    BY <2>1, <2>4
  <2> QED  BY <2>3, <2>4
<1>8. CASE Decode(c)
  BY <1>8 DEF Decode
<1>9. CASE Sync(c)
  BY <1>9 DEF Sync
<1> QED
  BY <1>1, <1>2, <1>3, <1>4, <1>5, <1>6, <1>7, <1>8, <1>9 DEF FStep

\* Whatever call takes a step, the invariant holds of every call.
LEMMA FilesStep == FilesInv /\ [FNext]_fvars => FilesInv'
<1> SUFFICES ASSUME FilesInv, [FNext]_fvars PROVE FilesInv'
  OBVIOUS
<1>0. VarTypes /\ \A d \in Callers : AtPlace(d) /\ Holds(d) /\ Written(d)
  BY DEF FilesInv, TypeInv
<1>1. CASE UNCHANGED fvars
  BY <1>0, <1>1 DEF fvars, FilesInv, TypeInv, VarTypes, AtPlace, Holds, Written, Alone, Succeeded
<1>2. ASSUME NEW c \in Callers, FStep(c) PROVE FilesInv'
  <2>1. VarTypes'
    BY <1>0, <1>2, VarTypeStep
  <2>2. AtPlace(c)' /\ Holds(c)'
    BY <1>0, <1>2, HoldsStep
  <2>3. /\ fpc'[c] # "idle" /\ how' = how /\ name' = name
        /\ \A n \in Names : n # name[c] => file'[n] = file[n]
        /\ \A d \in Callers \ {c} :
              /\ fpc'[d] = fpc[d] /\ body'[d] = body[d] /\ handles'[d] = handles[d]
              /\ type'[d] = type[d] /\ result'[d] = result[d]
              /\ d \in refused' <=> d \in refused
              /\ d \in cut' <=> d \in cut
              /\ d \in blind' <=> d \in blind
    BY <1>0, <1>2, OneCall DEF call
  <2>4. Written(c)'
    <3>1. Alone(c)' => Alone(c)
      BY <2>3 DEF Alone
    <3>2. CASE Alone(c)
      BY <1>0, <1>2, <3>2, WrittenStep
    <3>3. CASE ~Alone(c)
      BY <3>1, <3>3 DEF Written
    <3> QED  BY <3>2, <3>3
  <2>5. ASSUME NEW d \in Callers \ {c} PROVE AtPlace(d)' /\ Holds(d)' /\ Written(d)'
    <3>1. AtPlace(d) /\ Holds(d) /\ Written(d)
      BY <1>0
    <3>2. AtPlace(d)'
      BY <2>3, <3>1 DEF AtPlace
    <3>3. Holds(d)'
      BY <2>3, <3>1 DEF Holds
    <3>4. ASSUME Alone(d)' PROVE Alone(d) /\ file'[name[d]] = file[name[d]]
      <4>1. name[c] # name[d]
        BY <2>3, <2>5, <3>4 DEF Alone
      <4>2. name[d] \in Names
        BY <1>0 DEF VarTypes
      <4> QED  BY <2>3, <3>4, <4>1, <4>2 DEF Alone
    <3>5. Written(d)'
      BY <2>3, <3>1, <3>4 DEF Written, Succeeded
    <3> QED  BY <3>2, <3>3, <3>5
  <2> QED
    BY <2>1, <2>2, <2>4, <2>5 DEF FilesInv, TypeInv
<1> QED
  BY <1>1, <1>2 DEF FNext

\* The invariant holds of every behaviour.
LEMMA FilesAlways == FSpec => []FilesInv
  BY FilesInit, FilesStep, PTL DEF FSpec

\* A call has open what its place in DownloadImage or DecodeBase64 says it has,
\* and gives an answer exactly when it returns.
THEOREM FilesTypes == FSpec => []FilesTypeOK
<1>1. FilesInv => FilesTypeOK
  BY DEF FilesInv, TypeInv, VarTypes, AtPlace, FilesTypeOK
<1> QED
  BY <1>1, FilesAlways, PTL

\* However many requests write images at once, a success of a call that shares
\* its name with no other means the whole image is in the file and its type is
\* the one answered, but for a download that broke off after its first block
\* (DownloadImage overwrites the error of io.Copy).
THEOREM SuccessIsWhole == FSpec => []SuccessMeansWhole
<1>1. FilesInv => SuccessMeansWhole
  <2> SUFFICES ASSUME FilesInv, NEW c \in Callers, Succeeded(c)
               PROVE  /\ Alone(c) =>
                            /\ type[c] = TypeOf[c]
                            /\ file[name[c]] = IF c \in cut THEN <<c, Empty>> ELSE <<c, c>>
                      /\ how[c] = "decode" =>
                            type[c] = TypeOf[c] /\ type[c] \in Whitelist /\ c \notin cut
    BY DEF SuccessMeansWhole
  <2>1. Holds(c) /\ Written(c)
    BY DEF FilesInv
  <2> QED  BY <2>1 DEF Holds, Written, Succeeded
<1> QED
  BY <1>1, FilesAlways, PTL

\* What DownloadImage leaves open is the body of an answer it refused and the
\* file it could not read; DecodeBase64 leaves nothing open.
THEOREM LeaksAreTheKnownOnes == FSpec => []LeaksAreKnown
<1>1. FilesInv => LeaksAreKnown
  BY DEF FilesInv, Holds, LeaksAreKnown
<1> QED
  BY <1>1, FilesAlways, PTL

\* The calls of the helpers write files as Files has it, and do nothing else to them.
THEOREM CallsWriteFiles == Spec => FSpec
<1>1. Init => FInit
  BY DEF Init
<1>2. [Next]_vars => [FNext]_fvars
  BY DEF Next, Answer, WriteFiles, vars
<1> QED
  BY <1>1, <1>2, PTL DEF Spec, FSpec
=============================================================================
