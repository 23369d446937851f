---------------------------- MODULE ListingProofs ----------------------------
(***************************************************************************)
(* The page arithmetic, for every limit, every default and every width of  *)
(* the integers, and what a walk through the pages of the listing shows,   *)
(* for any accounts, any queries and however many writers change the table *)
(* between any two statements.                                             *)
(***************************************************************************)
EXTENDS Listing, FiniteSetTheorems, TLAPS

USE PaginationAssumption

\* Whatever limit a client sends, the one that is served is in bounds.
THEOREM LimitsInBounds == \A lim \in Ints : LimitMax(lim) \in 1..MaxLimit
  BY DEF Ints, LimitMax

\* What fits an int does not wrap.
LEMMA NoWrap == ASSUME NEW n \in Ints PROVE Wrap(n) = n
<1>1. n + HalfRange \in 0..(2 * HalfRange - 1)
  BY DEF Ints
<1>2. \A a \in Nat, b \in Nat : a < b => a % b = a
  OBVIOUS
<1>3. (n + HalfRange) % (2 * HalfRange) = n + HalfRange
  <2>1. n + HalfRange \in Nat /\ 2 * HalfRange \in Nat /\ n + HalfRange < 2 * HalfRange
    BY <1>1
  <2> QED  BY <1>2, <2>1
<1> QED
  BY <1>3 DEF Wrap, Ints

\* Smaller factors, smaller products.
LEMMA Products ==
    ASSUME NEW a \in Nat, NEW b \in Nat, NEW c \in Nat, a <= b PROVE a * c <= b * c
<1>1. b * c = a * c + (b - a) * c
  OBVIOUS
<1>2. (b - a) * c \in Nat
  OBVIOUS
<1> QED
  BY <1>1, <1>2

\* What remains of a division.
LEMMA Division ==
    ASSUME NEW a \in Nat, NEW b \in Nat \ {0}
    PROVE  a \div b \in Nat /\ a % b \in 0..(b - 1) /\ a = (a \div b) * b + (a % b)
  OBVIOUS

\* Up to LargestSafePage the offset of a page is the rows before it, whatever
\* limit a client sends (PaginationPageOffset, contract.go:150-175).
THEOREM SafePages ==
    \A at \in 1..LargestSafePage, lim \in Ints :
       PageOffset(at, lim) = (at - 1) * LimitMax(lim) /\ PageOffset(at, lim) >= 0
<1> SUFFICES ASSUME NEW at \in 1..LargestSafePage, NEW lim \in Ints
             PROVE  /\ PageOffset(at, lim) = (at - 1) * LimitMax(lim)
                    /\ PageOffset(at, lim) >= 0
  OBVIOUS
<1> DEFINE most == LimitMax(lim)
<1>1. most \in 1..MaxLimit
  BY LimitsInBounds
<1>2. LargestSafePage \in Nat /\ LargestSafePage * MaxLimit <= HalfRange - 1
  BY Division DEF LargestSafePage
<1> HIDE DEF most
<1>3. (at - 1) * most <= (at - 1) * MaxLimit
  <2>1. most * (at - 1) <= MaxLimit * (at - 1)
    BY <1>1, <1>2, Products
  <2> QED  BY <1>1, <1>2, <2>1
<1>4. (at - 1) * MaxLimit <= LargestSafePage * MaxLimit
  BY <1>2, Products
<1>5. (at - 1) * most \in Nat
  BY <1>1, <1>2
<1>6. (at - 1) * most \in Ints
  <2>1. (at - 1) * MaxLimit \in Nat /\ LargestSafePage * MaxLimit \in Nat
    BY <1>2
  <2> QED  BY <1>2, <1>3, <1>4, <1>5, <2>1 DEF Ints
<1>7. PageOffset(at, lim) = Wrap((at - 1) * most)
  BY <1>2 DEF PageOffset, ServedPage, most
<1> QED
  BY <1>5, <1>6, <1>7, NoWrap DEF most

\* The last page is the one the last row is on: it is not empty, and no row
\* comes after it (PaginationRes).
THEOREM LastPageIsLast ==
    \A count \in Nat, per \in Nat \ {0} :
       /\ LastPage(count, per) \in Nat /\ count <= LastPage(count, per) * per
       /\ count > 0 => (LastPage(count, per) - 1) * per < count
<1> SUFFICES ASSUME NEW count \in Nat, NEW per \in Nat \ {0}
             PROVE  /\ LastPage(count, per) \in Nat /\ count <= LastPage(count, per) * per
                    /\ count > 0 => (LastPage(count, per) - 1) * per < count
  OBVIOUS
<1> DEFINE q == count \div per
           r == count % per
<1>1. q \in Nat /\ r \in 0..(per - 1) /\ count = q * per + r
  BY Division
<1>2. LastPage(count, per) = q + (IF r > 0 THEN 1 ELSE 0)
  BY DEF LastPage
<1> HIDE DEF q, r
<1>3. (q + 1) * per = q * per + per /\ (q - 1) * per = q * per - per /\ q * per \in Nat
  BY <1>1
<1>4. CASE r > 0
  <2>1. LastPage(count, per) = q + 1 /\ LastPage(count, per) - 1 = q
    BY <1>1, <1>2, <1>4
  <2> QED  BY <1>1, <1>3, <1>4, <2>1
<1>5. CASE r = 0
  <2>1. LastPage(count, per) = q
    BY <1>1, <1>2, <1>5
  <2> QED  BY <1>1, <1>3, <1>5, <2>1
<1> QED
  BY <1>1, <1>4, <1>5

\* Every row is on a page up to the last, and on no other.
THEOREM RowsOnOnePage ==
    \A count \in Nat, per \in Nat \ {0} : \A row \in 0..(count - 1) :
       \E at \in 1..LastPage(count, per) : \A p \in Nat \ {0} :
          (p - 1) * per <= row /\ row < p * per <=> p = at
<1> SUFFICES ASSUME NEW count \in Nat, NEW per \in Nat \ {0}, NEW row \in 0..(count - 1)
             PROVE  \E at \in 1..LastPage(count, per) : \A p \in Nat \ {0} :
                       (p - 1) * per <= row /\ row < p * per <=> p = at
  OBVIOUS
<1> DEFINE at == row \div per + 1
<1>1. at \in Nat \ {0} /\ at - 1 \in Nat /\ (at - 1) * per <= row /\ row < at * per
  <2>1. row \div per \in Nat /\ row % per \in 0..(per - 1)
        /\ row = (row \div per) * per + (row % per)
    <3>1. row \in Nat
      OBVIOUS
    <3> QED  BY <3>1, Division, Zenon
  <2>2. at * per = (row \div per) * per + per
    BY <2>1
  <2> QED  BY <2>1, <2>2
<1> HIDE DEF at
<1>2. ASSUME NEW n \in Nat, row < n * per PROVE at <= n
  <2> SUFFICES ASSUME n <= at - 1 PROVE FALSE
    BY <1>1
  <2>1. n * per <= (at - 1) * per
    BY <1>1, Products
  <2> QED  BY <1>1, <1>2, <2>1
<1>3. at \in 1..LastPage(count, per)
  <2>1. LastPage(count, per) \in Nat /\ row < LastPage(count, per) * per
    BY LastPageIsLast
  <2> QED  BY <1>1, <1>2, <2>1
<1>4. ASSUME NEW p \in Nat \ {0}, (p - 1) * per <= row, row < p * per PROVE p = at
  <2>1. at <= p
    BY <1>2, <1>4
  <2> SUFFICES ASSUME at <= p - 1 PROVE FALSE
    BY <1>1, <2>1
  <2>2. at * per <= (p - 1) * per
    BY <1>1, Products
  <2> QED  BY <1>1, <1>4, <2>2
<1> QED
  BY <1>1, <1>3, <1>4

\* The last page of nothing.
LEMMA NoLastPage == ASSUME NEW per \in Nat \ {0} PROVE LastPage(0, per) = 0
<1>1. 0 = (0 \div per) * per + (0 % per) /\ 0 \div per \in Nat /\ 0 % per \in 0..(per - 1)
  BY Division
<1>2. 0 % per = 0 /\ (0 \div per) * per = 0
  <2>1. (0 \div per) * per \in Nat
    BY <1>1
  <2> QED  BY <1>1, <2>1
<1>3. 0 \div per = 0
  BY <1>1, <1>2
<1> QED
  BY <1>2, <1>3 DEF LastPage

-----------------------------------------------------------------------------
(* Ranks: how many members of S have a smaller key.  Members may share a key. *)

Rank(S, k, u) == Cardinality({v \in S : k[v] < k[u]})
Lone(S, k, u) == \A v \in S \ {u} : k[v] # k[u]

\* A rank is a number, of a member less than the number of members.
LEMMA RankType ==
    ASSUME NEW U, NEW S \in SUBSET U, IsFiniteSet(S), NEW k \in [U -> Int], NEW u \in U
    PROVE  Rank(S, k, u) \in Nat /\ (u \in S => Rank(S, k, u) < Cardinality(S))
<1> DEFINE B == {v \in S : k[v] < k[u]}
<1>1. IsFiniteSet(B) /\ Cardinality(B) \in Nat
  BY FS_Subset, FS_CardinalityType
<1>2. ASSUME u \in S PROVE Cardinality(B) < Cardinality(S)
  <2>1. u \notin B /\ B \in SUBSET S /\ B # S
    BY <1>2
  <2>2. Cardinality(B) <= Cardinality(S) /\ Cardinality(B) # Cardinality(S)
    BY <2>1, FS_Subset
  <2>3. Cardinality(S) \in Nat
    BY FS_CardinalityType
  <2> QED  BY <1>1, <2>2, <2>3
<1> QED
  BY <1>1, <1>2 DEF Rank

\* Ranks grow with the keys of the members.
LEMMA RankGrows ==
    ASSUME NEW U, NEW S \in SUBSET U, IsFiniteSet(S), NEW k \in [U -> Int],
           NEW u \in S, NEW v \in U, k[u] < k[v]
    PROVE  Rank(S, k, u) < Rank(S, k, v)
<1> DEFINE B == {x \in S : k[x] < k[u]}
           C == {x \in S : k[x] < k[v]}
<1>1. IsFiniteSet(B) /\ IsFiniteSet(C) /\ Cardinality(B) \in Nat /\ Cardinality(C) \in Nat
  BY FS_Subset, FS_CardinalityType
<1>2. u \notin B /\ B \cup {u} \in SUBSET C
  <2>1. \A x \in S : x \in B => x \in C
    OBVIOUS
  <2> QED  BY <2>1
<1>3. Cardinality(B \cup {u}) = Cardinality(B) + 1
  BY <1>1, <1>2, FS_AddElement
<1>4. Cardinality(B \cup {u}) <= Cardinality(C)
  BY <1>1, <1>2, FS_Subset
<1> QED
  BY <1>1, <1>3, <1>4 DEF Rank

\* Members with one rank have one key.
LEMMA RanksAlike ==
    ASSUME NEW U, NEW S \in SUBSET U, IsFiniteSet(S), NEW k \in [U -> Int],
           NEW u \in S, NEW v \in S, Rank(S, k, u) = Rank(S, k, v)
    PROVE  k[u] = k[v]
<1>1. k[u] \in Int /\ k[v] \in Int /\ Rank(S, k, u) \in Nat
  BY RankType
<1>2. CASE k[u] < k[v]
  BY <1>1, <1>2, RankGrows
<1>3. CASE k[v] < k[u]
  BY <1>1, <1>3, RankGrows
<1> QED
  BY <1>1, <1>2, <1>3

\* The members A of S come first, whatever the order of those that share a key.
Leads(A, S, k) == A \in SUBSET S /\ \A u \in A, v \in S \ A : ~(k[v] < k[u])

\* A member that shares its key with no other is among the first when its rank is.
LEMMA LoneLeads ==
    ASSUME NEW U, NEW S \in SUBSET U, IsFiniteSet(S), NEW k \in [U -> Int],
           NEW A, Leads(A, S, k), NEW x \in S, Lone(S, k, x)
    PROVE  x \in A <=> Rank(S, k, x) < Cardinality(A)
<1> DEFINE B == {v \in S : k[v] < k[x]}
<1>1. /\ IsFiniteSet(A) /\ Cardinality(A) \in Nat
      /\ IsFiniteSet(B) /\ Cardinality(B) \in Nat
  <2>1. A \in SUBSET S /\ B \in SUBSET S
    BY DEF Leads
  <2> QED  BY <2>1, FS_Subset, FS_CardinalityType
<1>2. CASE x \in A
  <2>1. x \notin B /\ B \cup {x} \in SUBSET A
    BY <1>2 DEF Leads
  <2>2. Cardinality(B \cup {x}) = Cardinality(B) + 1
    BY <1>1, <2>1, FS_AddElement
  <2>3. Cardinality(B \cup {x}) <= Cardinality(A)
    BY <1>1, <2>1, FS_Subset
  <2> QED  BY <1>1, <1>2, <2>2, <2>3 DEF Rank
<1>3. CASE x \notin A
  <2>1. \A u \in A : u \in S /\ k[u] \in Int /\ k[x] \in Int /\ k[u] # k[x] /\ ~(k[x] < k[u])
    BY <1>3 DEF Leads, Lone
  <2>2. A \in SUBSET B
    BY <2>1
  <2>3. Cardinality(A) <= Cardinality(B)
    BY <1>1, <2>2, FS_Subset
  <2> QED  BY <1>1, <1>3, <2>3 DEF Rank
<1> QED
  BY <1>2, <1>3

\* A page of m rows after a others holds found of n rows.
Fills(found, n, a, m) ==
    /\ n <= a => found = 0
    /\ n > a + m => found = m
    /\ n \in a + 1 .. a + m => found = n - a

\* The first a of S, or all when there are no more.
Firsts(A, S, a) ==
    /\ A \in SUBSET S
    /\ Cardinality(A) = a \/ (A = S /\ Cardinality(S) < a)

\* What is left of the first a + m without the first a is a page of m.
LEMMA PageFills ==
    ASSUME NEW S, IsFiniteSet(S), NEW a \in Nat, NEW m \in Nat,
           NEW A, Firsts(A, S, a), NEW B, Firsts(B, S, a + m), A \subseteq B
    PROVE  /\ Fills(Cardinality(B \ A), Cardinality(S), a, m)
           /\ Cardinality(B \ A) \in Nat /\ Cardinality(B \ A) <= m
<1> USE DEF Firsts
<1>1. /\ IsFiniteSet(A) /\ IsFiniteSet(B) /\ IsFiniteSet(B \ A) /\ Cardinality(S) \in Nat
      /\ Cardinality(A) \in Nat /\ Cardinality(B) \in Nat /\ Cardinality(B \ A) \in Nat
      /\ Cardinality(A) <= Cardinality(S) /\ Cardinality(B) <= Cardinality(S)
  <2>1. A \in SUBSET S /\ B \in SUBSET S /\ B \ A \in SUBSET S
    OBVIOUS
  <2> QED  BY <2>1, FS_Subset, FS_CardinalityType
<1>2. Cardinality(B \ A) = Cardinality(B) - Cardinality(A)
  <2>1. B \cap A = A
    OBVIOUS
  <2>2. Cardinality(B \ A) = Cardinality(B) - Cardinality(B \cap A)
    BY <1>1, FS_Difference
  <2> QED  BY <2>1, <2>2
<1>3. Cardinality(A) = IF a < Cardinality(S) THEN a ELSE Cardinality(S)
  BY <1>1
<1>4. Cardinality(B) = IF a + m < Cardinality(S) THEN a + m ELSE Cardinality(S)
  BY <1>1
<1> QED
  BY <1>1, <1>2, <1>3, <1>4 DEF Fills

\* The members and their keys are the same in S and in T, but for u.
SameBut(u, U, S, T, k, l) == \A v \in U \ {u} : (v \in S <=> v \in T) /\ k[v] = l[v]

\* What u adds to the rank of v.
Adds(u, S, k, v) == IF u \in S /\ k[u] < k[v] THEN 1 ELSE 0

\* The rank of v without u, and with it.
LEMMA RankWithout ==
    ASSUME NEW U, NEW S \in SUBSET U, IsFiniteSet(S), NEW k \in [U -> Int], NEW u, NEW v \in U
    PROVE  Rank(S, k, v) = Rank(S \ {u}, k, v) + Adds(u, S, k, v)
<1> DEFINE B == {x \in S \ {u} : k[x] < k[v]}
           C == {x \in S : k[x] < k[v]}
<1>1. IsFiniteSet(B) /\ u \notin B
  <2>1. B \in SUBSET S
    OBVIOUS
  <2> QED  BY <2>1, FS_Subset
<1>2. Cardinality(B \cup {u}) = Cardinality(B) + 1 /\ Cardinality(B) \in Nat
  BY <1>1, FS_AddElement, FS_CardinalityType
<1>3. C = IF u \in S /\ k[u] < k[v] THEN B \cup {u} ELSE B
  OBVIOUS
<1>4. Cardinality(C) = Cardinality(B) + Adds(u, S, k, v)
  <2> HIDE DEF B, C
  <2> QED  BY <1>2, <1>3 DEF Adds
<1> QED
  BY <1>4 DEF Rank

\* When one account comes, goes or gets another key, the rank of any other
\* differs by what that one adds to it.
LEMMA RankMoves ==
    ASSUME NEW U, NEW S \in SUBSET U, NEW T \in SUBSET U,
           NEW k \in [U -> Int], NEW l \in [U -> Int], NEW u \in U,
           SameBut(u, U, S, T, k, l),
           NEW v \in U \ {u}
    PROVE  Rank(S \ {u}, k, v) = Rank(T \ {u}, l, v)
<1>1. {x \in T \ {u} : l[x] < l[v]} = {x \in S \ {u} : k[x] < k[v]}
  <2>1. \A x \in U \ {u} : (x \in S <=> x \in T) /\ k[x] = l[x] /\ k[v] = l[v]
    BY DEF SameBut
  <2> QED  BY <2>1
<1> QED
  BY <1>1 DEF Rank

\* Two sets of finitely many accounts in order, the same but for u.
Moves(u, U, S, T, k, l) ==
    /\ IsFiniteSet(U) /\ u \in U
    /\ S \in SUBSET U /\ k \in [U -> Int]
    /\ T \in SUBSET U /\ l \in [U -> Int]
    /\ SameBut(u, U, S, T, k, l)

\* Account x was not at rank P or beyond, and gets there, with a key of its own.
Crosses(P, S, T, k, l, x) ==
    x \in T /\ (x \in S => Rank(S, k, x) < P) /\ P <= Rank(T, l, x) /\ Lone(T, l, x)

\* When one account comes, goes or gets another key, at most one that was not
\* at rank P or beyond gets there.
LEMMA OneCrosses ==
    ASSUME NEW U, NEW S, NEW T, NEW k, NEW l, NEW u, Moves(u, U, S, T, k, l),
           NEW P \in Int, NEW x, NEW y, Crosses(P, S, T, k, l, x), Crosses(P, S, T, k, l, y)
    PROVE  x = y
<1> USE DEF Moves, Crosses
<1>0. IsFiniteSet(S) /\ IsFiniteSet(T) /\ IsFiniteSet(S \ {u}) /\ S \ {u} \in SUBSET U
  BY FS_Subset
<1>1. ASSUME NEW z \in T \ {u}, z \in S => Rank(S, k, z) < P, P <= Rank(T, l, z)
      PROVE  z \in S \ {u} /\ Rank(S \ {u}, k, z) = P - 1 /\ Rank(T, l, z) = P /\ l[u] < l[z]
             /\ u \in T
  <2>1. z \in U \ {u} /\ z \in S
    BY DEF SameBut
  <2>2. /\ Rank(S, k, z) = Rank(S \ {u}, k, z) + Adds(u, S, k, z)
        /\ Rank(T, l, z) = Rank(S \ {u}, k, z) + Adds(u, T, l, z)
    <3>1. Rank(S, k, z) = Rank(S \ {u}, k, z) + Adds(u, S, k, z)
      BY <1>0, <2>1, RankWithout
    <3>2. Rank(T, l, z) = Rank(T \ {u}, l, z) + Adds(u, T, l, z)
      BY <1>0, <2>1, RankWithout
    <3>3. Rank(S \ {u}, k, z) = Rank(T \ {u}, l, z)
      BY <2>1, RankMoves
    <3> QED  BY <3>1, <3>2, <3>3
  <2>3. Rank(S \ {u}, k, z) \in Nat
    BY <1>0, <2>1, RankType
  <2> QED  BY <1>1, <2>1, <2>2, <2>3 DEF Adds
<1>2. ASSUME NEW z \in T \ {u}, z \in S => Rank(S, k, z) < P, P <= Rank(T, l, z),
             P <= Rank(T, l, u)
      PROVE  FALSE
  <2>1. Rank(T, l, z) = P /\ l[u] < l[z] /\ u \in T
    BY <1>1, <1>2
  <2>2. Rank(T, l, u) < Rank(T, l, z)
    BY <1>0, <2>1, RankGrows
  <2>3. Rank(T, l, u) \in Nat
    BY <1>0, RankType
  <2> QED  BY <1>2, <2>1, <2>2, <2>3
<1>3. CASE x # u /\ y # u
  <2>1. /\ x \in S \ {u} /\ y \in S \ {u}
        /\ Rank(S \ {u}, k, x) = Rank(S \ {u}, k, y)
    BY <1>1, <1>3
  <2>2. k \in [U -> Int] /\ k[x] = l[x] /\ k[y] = l[y] /\ Lone(T, l, x) /\ y \in T
    BY <1>0, <2>1 DEF SameBut
  <2> HIDE DEF Moves, Crosses
  <2>3. k[x] = k[y]
    BY <1>0, <2>1, <2>2, RanksAlike
  <2> QED  BY <2>2, <2>3 DEF Lone
<1>4. CASE x = u /\ y # u
  BY <1>2, <1>4
<1>5. CASE x # u /\ y = u
  BY <1>2, <1>5
<1> QED
  BY <1>3, <1>4, <1>5

\* One member more at most, one more to count at most.
LEMMA OneMore ==
    ASSUME NEW U, IsFiniteSet(U), NEW X \in SUBSET U, NEW Y \in SUBSET U,
           \A y, z \in Y \ X : y = z
    PROVE  Cardinality(Y) <= Cardinality(X) + 1
<1>1. IsFiniteSet(X) /\ Cardinality(X) \in Nat /\ IsFiniteSet(Y) /\ Cardinality(Y) \in Nat
  BY FS_Subset, FS_CardinalityType
<1>2. CASE Y \subseteq X
  BY <1>1, <1>2, FS_Subset
<1>3. ASSUME NEW y \in Y \ X PROVE Cardinality(Y) <= Cardinality(X) + 1
  <2>1. Y \in SUBSET (X \cup {y})
    BY <1>3
  <2>2. IsFiniteSet(X \cup {y}) /\ Cardinality(X \cup {y}) = Cardinality(X) + 1
    BY <1>1, <1>3, FS_AddElement
  <2> QED  BY <2>1, <2>2, FS_Subset
<1> QED
  BY <1>2, <1>3

-----------------------------------------------------------------------------
(* The table *)

USE ListingAssumption

TableTypes ==
    /\ status \in [Users -> {"absent", "live", "deleted"}]
    /\ content \in [Users -> Rows \cup {NoRow}]
    /\ \A u \in Users : status[u] # "absent" => content[u] \in Rows
    /\ stamp \in [Writers -> Times \cup {0}]

Taken == {w \in Writers : stamp[w] # 0}
WritesLeft == writes \in Nat /\ writes + Cardinality(Taken) <= MaxWrites

TableInv == TableTypes /\ WritesLeft

\* The stamps of a row are numbers.
LEMMA RowTypes ==
    ASSUME NEW r \in Rows \cup {NoRow} PROVE r.created \in Nat /\ r.updated \in Nat
  BY DEF Rows, NoRow, Row

\* What a change of account u with the stamp of writer w does to the table.
Changed(w, u) ==
    /\ stamp[w] # 0 /\ stamp' = [stamp EXCEPT ![w] = 0]
    /\ \A v \in Users \ {u} : status'[v] = status[v] /\ content'[v] = content[v]
    /\ status' \in [Users -> {"absent", "live", "deleted"}]
    /\ content' \in [Users -> Rows \cup {NoRow}]
    /\ status'[u] # "absent" => content'[u] \in Rows
    /\ UNCHANGED walk /\ Watch(u)

\* A walk begins with rows that have their stamps.
LEMMA TableInit == Init => TableInv
<1> SUFFICES ASSUME Init PROVE TableInv
  OBVIOUS
<1>1. PICK b \in Beginnings :
         /\ status = [u \in Users |-> IF u \in DOMAIN b THEN "live" ELSE "absent"]
         /\ content = [u \in Users |-> IF u \in DOMAIN b THEN b[u] ELSE NoRow]
  BY DEF Init
<1>2. \A u \in DOMAIN b : b[u] \in Rows
  <2>1. b \in [DOMAIN b -> Rows]
    OBVIOUS
  <2> QED  BY <2>1
<1>3. TableTypes
  <2>1. stamp \in [Writers -> Times \cup {0}]
    BY DEF Init
  <2>2. status \in [Users -> {"absent", "live", "deleted"}]
    BY <1>1
  <2>3. content \in [Users -> Rows \cup {NoRow}]
    BY <1>1, <1>2
  <2>4. \A u \in Users : status[u] # "absent" => content[u] \in Rows
    BY <1>1, <1>2
  <2> QED  BY <2>1, <2>2, <2>3, <2>4 DEF TableTypes
<1>4. WritesLeft
  <2>1. Taken = {}
    BY DEF Init, Taken
  <2> QED  BY <2>1, FS_EmptySet DEF Init, WritesLeft
<1> QED
  BY <1>3, <1>4 DEF TableInv

\* Every statement of a writer changes one account.
LEMMA OneAccount ==
    ASSUME TableTypes, NEW w \in Writers, Insert(w) \/ Change(w) \/ Delete(w)
    PROVE  \E u \in Users : Changed(w, u)
<1> USE DEF TableTypes
<1>0. /\ \A r \in Rows : r.created \in Times
      /\ \A a \in Times, b \in Times, matches \in BOOLEAN : Row(a, b, matches) \in Rows
  BY DEF Rows, Row
<1>1. CASE Insert(w)
  <2>1. PICK u \in Users, matches \in BOOLEAN :
           /\ content' = [content EXCEPT ![u] = Row(stamp[w], stamp[w], matches)]
           /\ Dir!Register(u) /\ Watch(u)
    BY <1>1 DEF Insert
  <2>2. /\ status' = [status EXCEPT ![u] = "live"]
        /\ \A v \in Users \ {u} : content'[v] = content[v]
    BY <2>1 DEF Dir!Register, Dir!Put
  <2>3. stamp[w] \in Times
    BY <1>1 DEF Insert
  <2>4. content'[u] \in Rows /\ content' \in [Users -> Rows \cup {NoRow}]
    BY <1>0, <2>1, <2>3
  <2> QED  BY <1>1, <2>1, <2>2, <2>4 DEF Insert, Changed
<1>2. CASE Change(w)
  <2>1. PICK u \in Users, matches \in BOOLEAN :
           /\ content' = [content EXCEPT ![u] = Row(@.created, stamp[w], matches)]
           /\ Dir!Amend(u) /\ Watch(u)
    BY <1>2 DEF Change
  <2>2. /\ status' = status /\ status[u] = "live"
        /\ \A v \in Users \ {u} : content'[v] = content[v]
    BY <2>1 DEF Dir!Amend, Dir!Put
  <2>3. stamp[w] \in Times /\ content[u].created \in Times
    BY <1>0, <1>2, <2>2 DEF Change
  <2>4. content'[u] \in Rows /\ content' \in [Users -> Rows \cup {NoRow}]
    BY <1>0, <2>1, <2>3
  <2> QED  BY <1>2, <2>1, <2>2, <2>4 DEF Change, Changed
<1>3. CASE Delete(w)
  <2>1. PICK u \in Users : Dir!Retire(u) /\ Watch(u)
    BY <1>3 DEF Delete
  <2>2. status[u] = "live" /\ status' = [status EXCEPT ![u] = "deleted"] /\ content' = content
    BY <2>1 DEF Dir!Retire
  <2> QED  BY <1>3, <2>1, <2>2 DEF Delete, Changed
<1> QED
  BY <1>1, <1>2, <1>3

\* A change uses up the stamp of its writer.
LEMMA ChangeKeepsTable ==
    ASSUME TableInv, NEW w \in Writers, NEW u \in Users, Changed(w, u)
    PROVE  TableInv'
<1>1. TableTypes'
  <2>1. stamp' \in [Writers -> Times \cup {0}]
    BY DEF TableInv, TableTypes, Changed
  <2>2. \A v \in Users : status'[v] # "absent" => content'[v] \in Rows
    BY DEF TableInv, TableTypes, Changed
  <2> QED  BY <2>1, <2>2 DEF TableTypes, Changed
<1>2. WritesLeft'
  <2>1. Taken' = Taken \ {w} /\ w \in Taken
    BY DEF TableInv, TableTypes, Changed, Taken
  <2>2. IsFiniteSet(Taken) /\ Cardinality(Taken) \in Nat
    BY FS_Subset, FS_CardinalityType DEF Taken
  <2>3. Cardinality(Taken \ {w}) = Cardinality(Taken) - 1
    BY <2>1, <2>2, FS_RemoveElement
  <2>4. writes' = writes + 1
    BY DEF Changed, Watch
  <2> QED  BY <2>1, <2>2, <2>3, <2>4 DEF TableInv, WritesLeft
<1> QED
  BY <1>1, <1>2 DEF TableInv

\* Every step keeps the table.
LEMMA TableStep == TableInv /\ [Next]_vars => TableInv'
<1> SUFFICES ASSUME TableInv, [Next]_vars PROVE TableInv'
  OBVIOUS
<1>1. CASE UNCHANGED <<table, stamp, writes>>
  BY <1>1 DEF TableInv, TableTypes, WritesLeft, Taken, table
<1>2. ASSUME NEW w \in Writers, TakeStamp(w) PROVE TableInv'
  <2>1. PICK now \in Times :
           /\ stamp[w] = 0 /\ stamp' = [stamp EXCEPT ![w] = now]
           /\ UNCHANGED <<status, content, writes>> /\ writes + Cardinality(Taken) < MaxWrites
    BY <1>2 DEF TakeStamp, table, Taken
  <2>2. TableTypes'
    BY <2>1 DEF TableInv, TableTypes
  <2>3. Taken' = Taken \cup {w} /\ w \notin Taken
    <3>1. now # 0
      BY <2>1
    <3> QED  BY <2>1, <3>1 DEF TableInv, TableTypes, Taken
  <2>4. IsFiniteSet(Taken) /\ Cardinality(Taken) \in Nat
    BY FS_Subset, FS_CardinalityType DEF Taken
  <2>5. Cardinality(Taken \cup {w}) = Cardinality(Taken) + 1
    BY <2>3, <2>4, FS_AddElement
  <2>6. WritesLeft'
    BY <2>1, <2>3, <2>4, <2>5 DEF TableInv, WritesLeft
  <2> QED  BY <2>2, <2>6 DEF TableInv
<1>3. ASSUME NEW w \in Writers, Insert(w) \/ Change(w) \/ Delete(w) PROVE TableInv'
  BY <1>3, OneAccount, ChangeKeepsTable DEF TableInv
<1>4. CASE Reader
  BY <1>1, <1>4 DEF Reader, Ask, ReadRows, ReadFails, ReadCount, AskNext
<1>5. CASE UNCHANGED vars
  BY <1>1, <1>5 DEF vars
<1> QED
  BY <1>2, <1>3, <1>4, <1>5 DEF Next, Writer

-----------------------------------------------------------------------------
(* The order of the listing *)

\* Numbers that grow along the order a query asks for.
KeysOf(q, rowsOf) ==
    [u \in Users |->
        LET stampOf == IF OrderColumn(q.by) = "def.created_at"
                         THEN rowsOf[u].created ELSE rowsOf[u].updated
        IN IF Ascending(q.sort) THEN stampOf ELSE -stampOf]

\* How many accounts come before u whatever the order of those with one key.
Ahead(u) == Cardinality({v \in Listed : Before(v, u)})

\* The listing is a finite set of accounts with keys, and an account has as many
\* ahead of it as its rank says; the tied ones are those that share their key.
InOrder ==
    /\ Listed \in SUBSET Users /\ IsFiniteSet(Listed)
    /\ Cardinality(Listed) \in Nat /\ Cardinality(Listed) < HalfRange
    /\ KeysOf(query, content) \in [Users -> Int]
    /\ \A v \in Users : Ahead(v) = Rank(Listed, KeysOf(query, content), v)
    /\ \A u, v \in Users : Before(u, v) <=> KeysOf(query, content)[u] < KeysOf(query, content)[v]
    /\ \A v \in Listed \ Tied : Lone(Listed, KeysOf(query, content), v)

\* Stamps put the listing in order, up to ties.
LEMMA Order == TableInv => InOrder
<1> SUFFICES ASSUME TableInv PROVE InOrder
  OBVIOUS
<1> DEFINE k == KeysOf(query, content)
<1>1. Listed \in SUBSET Users
  BY DEF Listed
<1>2. IsFiniteSet(Listed) /\ Cardinality(Listed) \in Nat /\ Cardinality(Listed) <= Cardinality(Users)
  BY <1>1, FS_Subset, FS_CardinalityType
<1>3. Cardinality(Users) \in Nat
  BY FS_CardinalityType
<1>4. \A u \in Users : Key(u) \in Nat /\ k[u] = IF Ascending(query.sort) THEN Key(u) ELSE -Key(u)
  <2>1. \A u \in Users : content[u].created \in Nat /\ content[u].updated \in Nat
    BY RowTypes DEF TableInv, TableTypes
  <2> QED  BY <2>1 DEF KeysOf, Key
<1>5. k \in [Users -> Int]
  <2>1. \A u \in Users : k[u] \in Int
    BY <1>4
  <2>2. k = [u \in Users |-> k[u]]
    BY DEF KeysOf
  <2> HIDE DEF k
  <2> QED  BY <2>1, <2>2
<1>6. \A u, v \in Users : Before(u, v) <=> k[u] < k[v]
  <2> HIDE DEF k
  <2> QED  BY <1>4 DEF Before
<1>7. \A v \in Listed \ Tied : Lone(Listed, k, v)
  <2>1. ASSUME NEW v \in Listed \ Tied, NEW z \in Listed \ {v} PROVE k[z] # k[v]
    <3>1. Key(z) # Key(v)
      BY DEF Tied
    <3> HIDE DEF k
    <3> QED  BY <1>1, <1>4, <3>1
  <2> HIDE DEF k
  <2> QED  BY <2>1 DEF Lone
<1>8. ASSUME NEW u \in Users PROVE Ahead(u) = Rank(Listed, k, u)
  <2>1. {v \in Listed : Before(v, u)} = {v \in Listed : k[v] < k[u]}
    <3> HIDE DEF k
    <3> QED  BY <1>1, <1>6
  <2> QED  BY <2>1 DEF Ahead, Rank
<1> QED
  BY <1>1, <1>2, <1>3, <1>5, <1>6, <1>7, <1>8 DEF InOrder

\* What a change of account u does to the order.
LEMMA OrderChange ==
    ASSUME TableInv, NEW w \in Writers, NEW u \in Users, Changed(w, u)
    PROVE  /\ Listed' \in SUBSET Users
           /\ KeysOf(query, content') \in [Users -> Int]
           /\ SameBut(u, Users, Listed, Listed', KeysOf(query, content), KeysOf(query, content'))
           /\ \A v \in Users : Ahead(v)' = Rank(Listed', KeysOf(query, content'), v)
           /\ \A v \in Listed' \ Tied' : Lone(Listed', KeysOf(query, content'), v)
           /\ Key(u)' = Key(u) => KeysOf(query, content)[u] = KeysOf(query, content')[u]
           /\ \A v \in Users : Before(u, v)' <=>
                 KeysOf(query, content')[u] < KeysOf(query, content')[v]
<1>1. TableInv'
  BY ChangeKeepsTable
<1>2. query' = query
  BY DEF Changed, walk
<1>3. InOrder'
  <2>1. (TableInv => InOrder)'
    BY Order, PTL
  <2> QED  BY <1>1, <2>1
<1>4. SameBut(u, Users, Listed, Listed', KeysOf(query, content), KeysOf(query, content'))
  BY DEF Changed, SameBut, KeysOf, Listed
<1>5. Key(u)' = Key(u) => KeysOf(query, content)[u] = KeysOf(query, content')[u]
  BY <1>2 DEF Key, KeysOf
<1>6. /\ Listed' \in SUBSET Users
      /\ KeysOf(query, content') \in [Users -> Int]
      /\ \A v \in Users : Ahead(v)' = Rank(Listed', KeysOf(query, content'), v)
      /\ \A v \in Listed' \ Tied' : Lone(Listed', KeysOf(query, content'), v)
      /\ \A v \in Users : Before(u, v)' <=>
            KeysOf(query, content')[u] < KeysOf(query, content')[v]
  <2>1. KeysOf(query', content') = KeysOf(query, content')
    BY <1>2 DEF KeysOf
  <2> QED  BY <1>3, <2>1 DEF InOrder
<1> QED
  BY <1>4, <1>5, <1>6

\* The rows are those of a page of the table as it is.
Served ==
    \E S \in First(offset), T \in First(offset + limit) : S \subseteq T /\ rows = T \ S

\* The first of the listing: of the accounts with a key of their own those with the
\* lowest ranks, and as many as there are.
LEMMA FirstOnes ==
    ASSUME TableInv, NEW n \in Nat, NEW A \in First(n)
    PROVE  /\ Firsts(A, Listed, n)
           /\ \A v \in Listed \ Tied : v \in A <=> Ahead(v) < n
<1> DEFINE k == KeysOf(query, content)
<1>1. /\ Listed \in SUBSET Users /\ IsFiniteSet(Listed) /\ k \in [Users -> Int]
      /\ Cardinality(Listed) \in Nat
      /\ \A v \in Users : Ahead(v) = Rank(Listed, k, v)
      /\ \A u, v \in Users : Before(u, v) <=> k[u] < k[v]
      /\ \A v \in Listed \ Tied : Lone(Listed, k, v)
  BY Order DEF InOrder
<1>2. /\ A \in SUBSET Listed /\ \A u \in A, v \in Listed \ A : ~Before(v, u)
      /\ Cardinality(A) = n \/ (A = Listed /\ Cardinality(Listed) < n)
  BY DEF First, Leading
<1> HIDE DEF k
<1>3. Leads(A, Listed, k)
  BY <1>1, <1>2 DEF Leads
<1>4. ASSUME NEW v \in Listed \ Tied PROVE v \in A <=> Ahead(v) < n
  <2>1. v \in A <=> Rank(Listed, k, v) < Cardinality(A)
    BY <1>1, <1>3, LoneLeads
  <2>2. Ahead(v) = Rank(Listed, k, v) /\ Rank(Listed, k, v) \in Nat
        /\ Rank(Listed, k, v) < Cardinality(Listed)
    BY <1>1, RankType
  <2>3. CASE Cardinality(A) = n
    BY <2>1, <2>2, <2>3
  <2>4. CASE A = Listed /\ Cardinality(Listed) < n
    BY <1>1, <2>1, <2>2, <2>4
  <2> QED  BY <1>2, <2>3, <2>4
<1> QED
  BY <1>2, <1>4 DEF Firsts

\* Ranks are kept by a change of u that leaves its key and its membership alone, and
\* others' ranks do not shrink when u comes, nor grow when it goes.
LEMMA RanksKept ==
    ASSUME NEW U, NEW S, NEW T, NEW k, NEW l, NEW u, Moves(u, U, S, T, k, l)
    PROVE  /\ (u \in S <=> u \in T) /\ k[u] = l[u] =>
                 S = T /\ \A v \in U : Rank(S, k, v) = Rank(T, l, v)
           /\ u \notin S => \A v \in U \ {u} : Rank(S, k, v) <= Rank(T, l, v)
           /\ u \notin T => \A v \in U \ {u} : Rank(T, l, v) <= Rank(S, k, v)
           /\ u \notin S /\ (\A v \in T \ {u} : ~(l[u] < l[v])) =>
                 \A v \in T \ {u} : Rank(S, k, v) = Rank(T, l, v)
<1> USE DEF Moves
<1>0. IsFiniteSet(S) /\ IsFiniteSet(T)
  BY FS_Subset
<1>1. ASSUME u \in S <=> u \in T, k[u] = l[u]
      PROVE  S = T /\ \A v \in U : Rank(S, k, v) = Rank(T, l, v)
  <2>1. \A v \in U : (v \in S <=> v \in T) /\ k[v] = l[v]
    BY <1>1 DEF SameBut
  <2>3. S = T
    BY <2>1
  <2>2. k = l
    BY <2>1
  <2> QED  BY <2>2, <2>3
<1>2. ASSUME NEW v \in U \ {u}
      PROVE  /\ Rank(S, k, v) = Rank(S \ {u}, k, v) + Adds(u, S, k, v)
             /\ Rank(T, l, v) = Rank(S \ {u}, k, v) + Adds(u, T, l, v)
             /\ Rank(S \ {u}, k, v) \in Nat
  <2>1. Rank(S, k, v) = Rank(S \ {u}, k, v) + Adds(u, S, k, v)
    BY <1>0, RankWithout
  <2>2. Rank(T, l, v) = Rank(T \ {u}, l, v) + Adds(u, T, l, v)
    BY <1>0, RankWithout
  <2>3. Rank(S \ {u}, k, v) = Rank(T \ {u}, l, v)
    BY RankMoves
  <2>4. S \ {u} \in SUBSET U /\ IsFiniteSet(S \ {u})
    BY FS_Subset
  <2>5. Rank(S \ {u}, k, v) \in Nat
    BY <2>4, RankType
  <2> QED  BY <2>1, <2>2, <2>3, <2>5
<1> QED
  BY <1>1, <1>2 DEF Adds

\* The members of F whose rank is below P, and those whose rank is not.
Below(P, S, k, F) == {v \in F : Rank(S, k, v) < P}
Beyond(P, S, k, F) == {v \in F : Rank(S, k, v) >= P}

\* A change moves at most one account that has not been served yet before rank P,
\* and none if the changed one did not leave its place.
LEMMA MissedMoves ==
    ASSUME NEW U, NEW S, NEW T, NEW k, NEW l, NEW u, Moves(u, U, S, T, k, l),
           NEW P \in Int, NEW F \in SUBSET S, NEW G, NEW H, G \subseteq H,
           \A v \in S \ G : Lone(S, k, v)
    PROVE  LET X == Below(P, S, k, F \ G)
               Y == Below(P, T, l, (F \cap T) \ H)
           IN /\ X \in SUBSET U /\ Y \in SUBSET U
              /\ Cardinality(Y) <= Cardinality(X) + 1
              /\ u \notin S \/ (u \in T /\ k[u] = l[u]) => Y \subseteq X
<1> DEFINE X == Below(P, S, k, F \ G)
           Y == Below(P, T, l, (F \cap T) \ H)
<1>0. X \in SUBSET U /\ Y \in SUBSET U
  BY DEF Moves, Below
<1>1. ASSUME NEW y \in Y \ X, NEW z \in Y \ X PROVE y = z
  <2>1. /\ y \in S /\ y \in T /\ Rank(T, l, y) < P /\ ~(Rank(S, k, y) < P)
        /\ z \in S /\ z \in T /\ Rank(T, l, z) < P /\ ~(Rank(S, k, z) < P)
        /\ Lone(S, k, y) /\ Lone(S, k, z)
    BY DEF Below
  <2>2. Moves(u, U, T, S, l, k)
    BY DEF Moves, SameBut
  <2>3. IsFiniteSet(S) /\ S \in SUBSET U /\ k \in [U -> Int] /\ y \in U /\ z \in U
    BY <2>1, FS_Subset DEF Moves
  <2>4. Rank(S, k, y) \in Nat /\ Rank(S, k, z) \in Nat
    BY <2>3, RankType
  <2>5. Crosses(P, T, S, l, k, y) /\ Crosses(P, T, S, l, k, z)
    BY <2>1, <2>4 DEF Crosses
  <2> QED  BY <2>2, <2>5, OneCrosses
<1>2. Cardinality(Y) <= Cardinality(X) + 1
  BY <1>0, <1>1, OneMore DEF Moves
<1>3. ASSUME u \notin S \/ (u \in T /\ k[u] = l[u]), NEW y \in Y PROVE y \in X
  <2>1. y \in F \ G /\ y \in S /\ y \in T /\ Rank(T, l, y) < P
    BY DEF Below
  <2>2. S \in SUBSET U /\ T \in SUBSET U /\ IsFiniteSet(S) /\ IsFiniteSet(T) /\ y \in U
        /\ k \in [U -> Int] /\ l \in [U -> Int]
    BY <2>1, FS_Subset DEF Moves
  <2>3. CASE u \notin S
    <3>1. Rank(S, k, y) <= Rank(T, l, y)
      BY <2>1, <2>3, <2>2, RanksKept
    <3>2. Rank(S, k, y) \in Nat /\ Rank(T, l, y) \in Nat
      BY <2>2, RankType
    <3> QED  BY <2>1, <3>1, <3>2 DEF Below
  <2>4. CASE u \in S /\ u \in T /\ k[u] = l[u]
    BY <2>1, <2>4, <2>2, RanksKept DEF Below
  <2> QED  BY <1>3, <2>3, <2>4
<1> QED
  BY <1>0, <1>2, <1>3

\* No member comes after u.
Hindmost(u, T, l) == \A v \in T \ {u} : ~(l[u] < l[v])

\* Account u is gone, where it was, or new, not shown before and after all others.
Aside(u, S, T, k, l, G) ==
    \/ u \notin T
    \/ u \in S /\ k[u] = l[u]
    \/ u \notin S /\ u \notin G /\ Hindmost(u, T, l)

\* A change moves at most one account that has been served to rank P or beyond, or
\* brings it back there, and none if the changed one is where it was, is gone, or
\* is new and comes after all others.
LEMMA ShownMoves ==
    ASSUME NEW U, NEW S, NEW T, NEW k, NEW l, NEW u, Moves(u, U, S, T, k, l),
           NEW P \in Int, NEW G, NEW H, NEW I, H \subseteq I,
           \A v \in T \ I : Lone(T, l, v)
    PROVE  LET X == Beyond(P, S, k, (G \cap S) \ H)
               Y == Beyond(P, T, l, (G \cap T) \ I)
           IN /\ X \in SUBSET U /\ Y \in SUBSET U
              /\ Cardinality(Y) <= Cardinality(X) + 1
              /\ Aside(u, S, T, k, l, G) => Y \subseteq X
<1> DEFINE X == Beyond(P, S, k, (G \cap S) \ H)
           Y == Beyond(P, T, l, (G \cap T) \ I)
<1>0. /\ X \in SUBSET U /\ Y \in SUBSET U /\ IsFiniteSet(S) /\ IsFiniteSet(T)
      /\ S \in SUBSET U /\ T \in SUBSET U /\ k \in [U -> Int] /\ l \in [U -> Int]
  BY FS_Subset DEF Moves, Beyond
<1>1. ASSUME NEW y \in Y \ X, NEW z \in Y \ X PROVE y = z
  <2>1. /\ y \in T /\ Rank(T, l, y) >= P /\ (y \in S => ~(Rank(S, k, y) >= P))
        /\ z \in T /\ Rank(T, l, z) >= P /\ (z \in S => ~(Rank(S, k, z) >= P))
        /\ Lone(T, l, y) /\ Lone(T, l, z)
    BY DEF Beyond
  <2>2. /\ Rank(T, l, y) \in Nat /\ Rank(T, l, z) \in Nat
        /\ Rank(S, k, y) \in Nat /\ Rank(S, k, z) \in Nat
    BY <1>0, <2>1, RankType
  <2>3. Crosses(P, S, T, k, l, y) /\ Crosses(P, S, T, k, l, z)
    BY <2>1, <2>2 DEF Crosses
  <2> QED  BY <2>3, OneCrosses
<1>2. Cardinality(Y) <= Cardinality(X) + 1
  BY <1>0, <1>1, OneMore DEF Moves
<1>3. ASSUME Aside(u, S, T, k, l, G), NEW y \in Y
      PROVE  y \in X
  <2>1. y \in T /\ y \in G /\ y \notin H /\ Rank(T, l, y) >= P
    BY DEF Beyond
  <2>2. Rank(S, k, y) \in Nat /\ Rank(T, l, y) \in Nat
    BY <1>0, <2>1, RankType
  <2>3. y # u => y \in S
    BY <1>0, <2>1 DEF Moves, SameBut
  <2>4. CASE u \notin T
    <3>1. Rank(T, l, y) <= Rank(S, k, y)
      BY <1>0, <2>1, <2>4, RanksKept
    <3> QED  BY <2>1, <2>2, <2>3, <2>4, <3>1 DEF Beyond
  <2>5. CASE u \in T /\ u \in S /\ k[u] = l[u]
    BY <1>0, <2>1, <2>5, RanksKept DEF Beyond
  <2>6. CASE u \notin S /\ u \notin G /\ Hindmost(u, T, l)
    <3>1. Rank(T, l, y) = Rank(S, k, y)
      BY <1>0, <2>1, <2>6, RanksKept DEF Hindmost
    <3> QED  BY <2>1, <2>2, <2>3, <2>6, <3>1 DEF Beyond
  <2> QED  BY <1>3, <2>4, <2>5, <2>6 DEF Aside
<1> QED
  BY <1>0, <1>2, <1>3

-----------------------------------------------------------------------------
(* Changes of the table during a walk *)

\* The steady accounts that no page has shown though they are among the first P,
\* and the accounts a page has shown that are not among the first P now; of both
\* only those that have had a key of their own.
Missed(P) == {v \in steady \ (seen \cup rows \cup tied) : Ahead(v) < P}
Shown(P) == {v \in ((seen \cup rows) \cap Listed) \ tied : Ahead(v) >= P}

\* A change of account u is a move between the orders before and after it.
LEMMA ChangeMoves ==
    ASSUME TableInv, NEW w \in Writers, NEW u \in Users, Changed(w, u)
    PROVE  Moves(u, Users, Listed, Listed', KeysOf(query, content), KeysOf(query, content'))
  BY Order, OrderChange DEF InOrder, Moves

\* A change makes the walk miss one account at most, and then one left its place.
LEMMA MissedChange ==
    ASSUME TableInv, NEW w \in Writers, NEW u \in Users, Changed(w, u),
           steady \in SUBSET Listed, Tied \subseteq tied, left \in Nat, NEW P \in Int
    PROVE  /\ left' \in {left, left + 1} /\ steady' = steady \cap Listed'
           /\ Missed(P) \in SUBSET Users /\ Missed(P)' \in SUBSET Users
           /\ Cardinality(Missed(P)') <= Cardinality(Missed(P)) + (left' - left)
<1> DEFINE S == Listed
           T == Listed'
           k == KeysOf(query, content)
           l == KeysOf(query, content')
           G == seen \cup rows \cup tied
           H == seen \cup rows \cup tied'
           X == Below(P, S, k, steady \ G)
           Y == Below(P, T, l, (steady \cap T) \ H)
<1>1. Moves(u, Users, S, T, k, l)
  BY ChangeMoves
<1>2. /\ steady' = steady \cap T /\ seen' = seen /\ rows' = rows
      /\ left' = left + (IF (u \in S /\ u \in T /\ Key(u)' # Key(u)) \/ (u \in S /\ ~(u \in T))
                           THEN 1 ELSE 0)
  BY DEF Changed, Watch, walk
<1>3. /\ S \in SUBSET Users /\ \A v \in Users : Ahead(v) = Rank(S, k, v)
      /\ T \in SUBSET Users /\ \A v \in Users : Ahead(v)' = Rank(T, l, v)
      /\ Key(u)' = Key(u) => k[u] = l[u]
      /\ \A v \in S \ Tied : Lone(S, k, v)
  BY Order, OrderChange DEF InOrder
<1>4. Missed(P) = X
  <2> HIDE DEF S, k
  <2> QED  BY <1>3 DEF Missed, S, Below
<1>5. Missed(P)' = Y
  <2>1. Missed(P)' = {v \in steady' \ (seen' \cup rows' \cup tied') : Ahead(v)' < P}
    BY DEF Missed
  <2>2. \A v \in steady' : Ahead(v)' = Rank(T, l, v)
    BY <1>2, <1>3
  <2> HIDE DEF T, l
  <2> QED  BY <1>2, <2>1, <2>2 DEF Below
<1> HIDE DEF S, T, k, l
<1>6. /\ X \in SUBSET Users /\ Y \in SUBSET Users
      /\ Cardinality(Y) <= Cardinality(X) + 1
      /\ u \notin S \/ (u \in T /\ k[u] = l[u]) => Y \subseteq X
  <2>1. steady \in SUBSET S
    BY DEF S
  <2>2. G \subseteq H
    BY DEF Changed, Watch
  <2>3. \A v \in S \ G : Lone(S, k, v)
    BY <1>3
  <2> HIDE DEF G, H
  <2> QED  BY <1>1, <2>1, <2>2, <2>3, MissedMoves
<1>7. IsFiniteSet(X) /\ Cardinality(X) \in Nat /\ IsFiniteSet(Y) /\ Cardinality(Y) \in Nat
  BY <1>6, FS_Subset, FS_CardinalityType
<1>8. CASE u \notin S \/ (u \in T /\ Key(u)' = Key(u))
  <2>1. Cardinality(Y) <= Cardinality(X)
    BY <1>3, <1>6, <1>7, <1>8, FS_Subset
  <2>2. left' = left
    BY <1>2, <1>8
  <2> HIDE DEF X, Y
  <2>3. Cardinality(Y) <= Cardinality(X) + (left' - left)
    BY <1>7, <2>1, <2>2
  <2> QED  BY <1>2, <1>4, <1>5, <1>6, <2>2, <2>3 DEF T
<1>9. CASE u \in S /\ ~(u \in T /\ Key(u)' = Key(u))
  <2>1. left' = left + 1
    BY <1>2, <1>9
  <2> HIDE DEF X, Y
  <2>2. Cardinality(Y) <= Cardinality(X) + (left' - left)
    BY <1>6, <1>7, <2>1
  <2> QED  BY <1>2, <1>4, <1>5, <1>6, <2>1, <2>2 DEF T
<1> QED
  BY <1>8, <1>9

\* A change makes the walk meet one account again at most, and then one came back,
\* or came before another.
LEMMA ShownChange ==
    ASSUME TableInv, NEW w \in Writers, NEW u \in Users, Changed(w, u),
           came \in Nat, NEW P \in Int
    PROVE  /\ came' \in {came, came + 1}
           /\ Shown(P) \in SUBSET Users /\ Shown(P)' \in SUBSET Users
           /\ Cardinality(Shown(P)') <= Cardinality(Shown(P)) + (came' - came)
<1> DEFINE S == Listed
           T == Listed'
           k == KeysOf(query, content)
           l == KeysOf(query, content')
           G == seen \cup rows
           H == tied
           I == tied'
           X == Beyond(P, S, k, (G \cap S) \ H)
           Y == Beyond(P, T, l, (G \cap T) \ I)
           Comes == \/ u \in S /\ u \in T /\ Key(u)' # Key(u)
                    \/ u \notin S /\ u \in T /\ (u \in G \/ \E v \in T \ {u} : l[u] < l[v])
<1>1. Moves(u, Users, S, T, k, l)
  BY ChangeMoves
<1>3. /\ S \in SUBSET Users /\ \A v \in Users : Ahead(v) = Rank(S, k, v)
      /\ T \in SUBSET Users /\ \A v \in Users : Ahead(v)' = Rank(T, l, v)
      /\ Key(u)' = Key(u) => k[u] = l[u]
      /\ \A v \in Users : Before(u, v)' <=> l[u] < l[v]
      /\ \A v \in T \ Tied' : Lone(T, l, v)
  BY Order, OrderChange DEF InOrder
<1>2. seen' = seen /\ rows' = rows /\ came' = came + (IF Comes THEN 1 ELSE 0)
  <2>1. (\E v \in T \ {u} : Before(u, v)') <=> \E v \in T \ {u} : l[u] < l[v]
    <3> HIDE DEF T, l
    <3> QED  BY <1>3
  <2> QED  BY <2>1 DEF Changed, Watch, walk
<1>4. Shown(P) = X
  <2> HIDE DEF k
  <2> QED  BY <1>3 DEF Shown, Beyond
<1>5. Shown(P)' = Y
  <2>1. Shown(P)' = {v \in ((seen' \cup rows') \cap T) \ tied' : Ahead(v)' >= P}
    BY DEF Shown
  <2> HIDE DEF T, l
  <2> QED  BY <1>2, <1>3, <2>1 DEF Beyond
<1> HIDE DEF S, T, k, l
<1>6. /\ X \in SUBSET Users /\ Y \in SUBSET Users
      /\ Cardinality(Y) <= Cardinality(X) + 1
      /\ Aside(u, S, T, k, l, G) => Y \subseteq X
  <2>1. H \subseteq I /\ \A v \in T \ I : Lone(T, l, v)
    BY <1>3 DEF Changed, Watch
  <2> HIDE DEF G, H, I
  <2> QED  BY <1>1, <2>1, ShownMoves
<1>7. IsFiniteSet(X) /\ Cardinality(X) \in Nat /\ IsFiniteSet(Y) /\ Cardinality(Y) \in Nat
  BY <1>6, FS_Subset, FS_CardinalityType
<1>8. CASE ~Comes
  <2>1. Y \subseteq X
    BY <1>3, <1>6, <1>8 DEF Aside, Hindmost
  <2>2. Cardinality(Y) <= Cardinality(X)
    BY <1>7, <2>1, FS_Subset
  <2>3. came' = came
    BY <1>2, <1>8
  <2> HIDE DEF X, Y
  <2>4. Cardinality(Y) <= Cardinality(X) + (came' - came)
    BY <1>7, <2>2, <2>3
  <2> QED  BY <1>4, <1>5, <1>6, <2>3, <2>4
<1>9. CASE Comes
  <2>1. came' = came + 1
    BY <1>2, <1>9
  <2> HIDE DEF X, Y
  <2>2. Cardinality(Y) <= Cardinality(X) + (came' - came)
    BY <1>6, <1>7, <2>1
  <2> QED  BY <1>4, <1>5, <1>6, <2>1, <2>2
<1> QED
  BY <1>8, <1>9

-----------------------------------------------------------------------------
(* The walk *)

\* The rows before a page, and those up to its end.
Start(at, lim) == (ServedPage(at) - 1) * lim
End(at, lim) == ServedPage(at) * lim

WalkTypes ==
    /\ pc \in {"idle", "rows", "count", "answered", "done", "failed"}
    /\ query \in Queries \cup {NoQuery}
    /\ page \in Ints /\ query.page <= page
    /\ rows \in SUBSET Users /\ Cardinality(rows) <= limit /\ seen \in SUBSET Users
    /\ repeats \in Nat /\ left \in Nat /\ came \in Nat /\ moved \in BOOLEAN
    /\ steady \in SUBSET Listed /\ Tied \subseteq tied /\ tied \in SUBSET Users

\* What has been shown where the walk is.  A page whose offset wraps is the first
\* of its walk, and no walk from the start has one.
PlaceInv ==
    /\ pc = "idle" => rows = {} /\ seen = {} /\ repeats = 0
    /\ pc \in {"rows", "answered"} => rows \subseteq seen
    /\ pc = "rows" => seen = {} \/ Start(page, limit) < HalfRange
    /\ pc = "rows" /\ FromTheStart => Start(page, limit) < HalfRange

\* The page and its pagination are those of the table, unless it has changed.
AnswerInv ==
    /\ pc \in {"count", "answered", "done"} =>
          offset >= 0 /\ (~moved => Served)
    /\ Answered =>
          /\ answer.current = page /\ answer.perPage = limit
          /\ answer.last = LastPage(answer.count, limit) /\ answer.count \in 0..(HalfRange - 1)
          /\ pc = "answered" => page < answer.last
          /\ ~moved => answer.count = Cardinality(Listed)

\* The accounts that are missed though the walk has passed their place, as often
\* as one left its place.
MissedInv ==
    FromTheStart =>
       /\ pc = "rows" => Cardinality(Missed(Start(page, limit))) <= left
       /\ pc \in {"count", "answered"} => Cardinality(Missed(End(page, limit))) <= left
       /\ pc = "done" => Cardinality((steady \ seen) \ tied) <= left

\* The repetitions so far, those of this page and those that are to come, as
\* often as one came.
ShownInv ==
    query.page >= 1 =>
       /\ pc \in {"idle", "failed", "done"} => repeats <= came
       /\ pc = "rows" => repeats + Cardinality(Shown(Start(page, limit))) <= came
       /\ pc = "count" => repeats + Cardinality((rows \cap seen) \ tied)
                                  + Cardinality(Shown(End(page, limit))) <= came
       /\ pc = "answered" => repeats + Cardinality(Shown(End(page, limit))) <= came

WalkInv == WalkTypes /\ PlaceInv /\ AnswerInv /\ MissedInv /\ ShownInv
ListingInv == TableInv /\ WalkInv

\* Every query ends up with a limit in bounds.
LEMMA QueryLimits ==
    ASSUME NEW q \in Queries \cup {NoQuery}
    PROVE  q.page \in Ints /\ q.limit \in Ints /\ LimitMax(q.limit) \in 1..MaxLimit
<1>1. q.page \in Ints /\ q.limit \in Ints
  <2>1. CASE q \in Queries
    <3>1. q \in [page : Ints, limit : Ints, by : STRING, sort : STRING]
      BY <2>1
    <3> QED  BY <3>1
  <2>2. CASE q = NoQuery
    <3>1. 1 \in Ints
      BY DEF Ints
    <3> QED  BY <2>2, <3>1 DEF NoQuery
  <2> QED  BY <2>1, <2>2
<1> QED
  BY <1>1, LimitsInBounds

\* Pages follow each other.
LEMMA PageEnds ==
    ASSUME NEW at \in Int, NEW lim \in Nat \ {0}
    PROVE  /\ Start(at, lim) \in Nat /\ End(at, lim) = Start(at, lim) + lim
           /\ at <= 1 => Start(at, lim) = 0
           /\ at >= 1 => Start(at + 1, lim) = End(at, lim) /\ End(at, lim) = at * lim
           /\ Start(at + 1, lim) \in Nat /\ Start(at + 1, lim) <= End(at, lim)
<1>1. ServedPage(at) \in Nat \ {0} /\ ServedPage(at + 1) \in Nat \ {0}
  BY DEF ServedPage
<1>2. \A p \in Nat : p * lim \in Nat /\ (p + 1) * lim = p * lim + lim
  OBVIOUS
<1>3. End(at, lim) = Start(at, lim) + lim /\ Start(at, lim) \in Nat /\ Start(at + 1, lim) \in Nat
  <2>1. ServedPage(at) - 1 \in Nat /\ ServedPage(at + 1) - 1 \in Nat
        /\ ServedPage(at) = (ServedPage(at) - 1) + 1
    BY <1>1
  <2> QED  BY <1>2, <2>1 DEF Start, End
<1>4. at <= 1 => ServedPage(at) - 1 = 0
  BY DEF ServedPage
<1>5. at >= 1 => ServedPage(at) = at /\ ServedPage(at + 1) - 1 = at
  BY DEF ServedPage
<1>6. at <= 0 => ServedPage(at + 1) - 1 = 0
  BY DEF ServedPage
<1>7. 0 * lim = 0
  OBVIOUS
<1>8. at <= 1 => Start(at, lim) = 0
  BY <1>4, <1>7 DEF Start
<1>9. at >= 1 => Start(at + 1, lim) = End(at, lim) /\ End(at, lim) = at * lim
  BY <1>5 DEF Start, End
<1>10. at <= 0 => Start(at + 1, lim) = 0
  BY <1>6, <1>7 DEF Start
<1> QED
  BY <1>3, <1>8, <1>9, <1>10

\* A start that fits an int is the offset.
LEMMA OffsetIsStart ==
    ASSUME NEW at \in Int, NEW lim \in Ints, Start(at, LimitMax(lim)) < HalfRange
    PROVE  PageOffset(at, lim) = Start(at, LimitMax(lim))
<1>1. LimitMax(lim) \in Nat \ {0}
  BY LimitsInBounds
<1>2. Start(at, LimitMax(lim)) \in Nat
  BY <1>1, PageEnds
<1>3. Start(at, LimitMax(lim)) \in Ints
  BY <1>2 DEF Ints
<1> QED
  BY <1>3, NoWrap DEF PageOffset, Start

\* A step that leaves the table and the query alone leaves the order alone.
LEMMA SameOrder ==
    ASSUME UNCHANGED <<status, content, query>>
    PROVE  /\ Listed' = Listed /\ limit' = limit /\ \A v : Ahead(v)' = Ahead(v)
           /\ Tied' = Tied /\ \A n : First(n)' = First(n)
<1>1. Listed' = Listed
  BY DEF Listed
<1>2. Leading' = Leading
  BY <1>1 DEF Leading, Before, Key
<1> QED
  BY <1>1, <1>2 DEF Ahead, Before, Key, limit, Tied, First

\* A walk that has not begun has shown nothing.
LEMMA WalkInit == Init => WalkInv
<1> SUFFICES ASSUME Init PROVE WalkInv
  OBVIOUS
<1>1. limit \in 1..MaxLimit
  BY QueryLimits DEF Init, limit
<1>2. Cardinality({}) = 0
  BY FS_EmptySet
<1>3. WalkTypes
  <2>1. 1 \in Ints
    BY DEF Ints
  <2>2. query.page = 1 /\ page = 1 /\ query \in Queries \cup {NoQuery}
    BY DEF Init, NoQuery
  <2>3. rows = {} /\ Cardinality({}) <= limit
    BY <1>1, <1>2 DEF Init
  <2>4. /\ pc = "idle" /\ seen = {} /\ repeats = 0 /\ left = 0 /\ came = 0 /\ moved = FALSE
        /\ steady = {} /\ tied = Tied
    BY DEF Init
  <2>5. moved \in BOOLEAN
    BY <2>4, Zenon
  <2>6. Tied \in SUBSET Users
    BY DEF Tied, Listed
  <2> QED  BY <2>1, <2>2, <2>3, <2>4, <2>5, <2>6 DEF WalkTypes
<1>4. PlaceInv /\ AnswerInv /\ MissedInv /\ ShownInv
  BY DEF Init, PlaceInv, AnswerInv, Answered, MissedInv, ShownInv
<1> QED
  BY <1>3, <1>4 DEF WalkInv

\* A client asks for any page: nothing has been shown, and all that is listed is
\* to be shown.
LEMMA AskStep == ASSUME ListingInv, TableInv', Ask PROVE WalkInv'
<1>1. PICK q \in Queries : query' = q /\ page' = q.page
  BY DEF Ask
<1>2. /\ pc = "idle" /\ pc' = "rows" /\ steady' = Listed /\ left' = 0 /\ came' = 0
      /\ tied' = Tied'
      /\ UNCHANGED <<status, content, rows, answer, seen, repeats, moved>>
  BY DEF Ask, Goto, table
<1>3. rows = {} /\ seen = {} /\ repeats = 0 /\ moved \in BOOLEAN
  BY <1>2 DEF ListingInv, WalkInv, PlaceInv, WalkTypes
<1>4. page' \in Ints /\ query'.page = page' /\ limit' \in 1..MaxLimit
  BY <1>1, QueryLimits DEF limit
<1>5. Listed' = Listed /\ Listed \in SUBSET Users
  BY <1>2 DEF Listed
<1>6. Cardinality({}) = 0
  BY FS_EmptySet
<1>7. WalkTypes'
  <2>1. rows' = {} /\ seen' = {} /\ Cardinality(rows') <= limit'
    BY <1>2, <1>3, <1>4, <1>6
  <2>2. query'.page <= page'
    BY <1>4 DEF Ints
  <2>3. steady' \in SUBSET Listed' /\ query' \in Queries \cup {NoQuery}
    BY <1>1, <1>2, <1>5
  <2>4. Tied' \in SUBSET Users
    BY <1>5 DEF Tied
  <2> QED  BY <1>2, <1>3, <1>4, <2>1, <2>2, <2>3, <2>4 DEF WalkTypes
<1>8. Start(page', limit') \in Nat /\ (page' <= 1 => Start(page', limit') = 0)
  <2>1. page' \in Int /\ limit' \in Nat \ {0}
    BY <1>4 DEF Ints
  <2> QED  BY <2>1, PageEnds
<1>9. PlaceInv' /\ AnswerInv'
  BY <1>2, <1>3, <1>4, <1>8 DEF PlaceInv, AnswerInv, Answered, FromTheStart
<1>10. MissedInv'
  <2>1. ASSUME page' <= 1 PROVE Missed(Start(page, limit))' = {}
    <3>1. \A v \in Users : Ahead(v)' \in Nat
      <4>1. (TableInv => InOrder)'
        BY Order, PTL
      <4>2. InOrder'
        BY <4>1
      <4> QED  BY <4>2, RankType DEF InOrder
    <3>2. Missed(Start(page, limit))' =
             {v \in steady' \ (seen' \cup rows' \cup tied') : Ahead(v)' < Start(page', limit')}
      BY DEF Missed
    <3>3. \A v \in steady' : Ahead(v)' \in Nat
      BY <1>2, <1>5, <3>1
    <3>4. Start(page', limit') = 0
      BY <1>8, <2>1
    <3> QED  BY <3>2, <3>3, <3>4
  <2> QED  BY <1>2, <1>4, <1>6, <2>1 DEF MissedInv, FromTheStart
<1>11. ShownInv'
  <2>1. Shown(Start(page, limit))' = {}
    BY <1>2, <1>3 DEF Shown
  <2> QED  BY <1>2, <1>3, <1>6, <2>1 DEF ShownInv
<1> QED
  BY <1>7, <1>9, <1>10, <1>11 DEF WalkInv

\* Either statement fails: nothing more is shown.
LEMMA ReadFailsStep == ASSUME ListingInv, ReadFails PROVE WalkInv'
<1>1. /\ pc \in {"rows", "count"} /\ pc' = "failed"
      /\ UNCHANGED <<status, content, query, page, rows, answer, seen, repeats, history>>
  BY DEF ReadFails, Goto, table
<1>2. Listed' = Listed /\ limit' = limit /\ Tied' = Tied
  BY <1>1, SameOrder
<1>3. WalkTypes /\ ShownInv
  BY DEF ListingInv, WalkInv
<1>4. WalkTypes'
  BY <1>1, <1>2, <1>3 DEF WalkTypes, history
<1>5. PlaceInv' /\ AnswerInv' /\ MissedInv'
  BY <1>1 DEF PlaceInv, AnswerInv, Answered, MissedInv
<1>6. \A P : Cardinality(Shown(P)) \in Nat
  BY <1>3, FS_Subset, FS_CardinalityType DEF Shown, WalkTypes, Listed
<1>7. Cardinality((rows \cap seen) \ tied) \in Nat
  BY <1>3, FS_Subset, FS_CardinalityType DEF WalkTypes
<1>8. ShownInv'
  BY <1>1, <1>3, <1>6, <1>7 DEF ShownInv, WalkTypes, history
<1> QED
  BY <1>4, <1>5, <1>8 DEF WalkInv

\* The rows of a page: who is on it is shown in its place, and nobody else is
\* passed over.
LEMMA ReadRowsStep == ASSUME ListingInv, ReadRows PROVE WalkInv'
<1>0. PICK S \in First(offset), T \in First(offset + limit) : S \subseteq T /\ rows' = T \ S
  BY DEF ReadRows
<1>1. /\ pc = "rows" /\ pc' = "count" /\ offset >= 0 /\ moved' = FALSE
      /\ UNCHANGED <<status, content, query, page, answer, seen, repeats,
                     tied, steady, left, came>>
  BY DEF ReadRows, Goto, table
<1>2. /\ Listed' = Listed /\ limit' = limit /\ \A v : Ahead(v)' = Ahead(v)
      /\ Tied' = Tied /\ \A n : First(n)' = First(n)
  BY <1>1, SameOrder
<1>3. TableInv /\ WalkTypes /\ PlaceInv /\ MissedInv /\ ShownInv
  BY DEF ListingInv, WalkInv
<1>4. InOrder
  BY <1>3, Order
<1>5. query.limit \in Ints /\ limit \in 1..MaxLimit /\ page \in Int
  BY <1>3, QueryLimits DEF WalkTypes, limit, Ints
<1> DEFINE P == Start(page, limit)
           L == limit
<1>6. P \in Nat /\ End(page, limit) = P + L /\ L \in Nat /\ L \in 1..MaxLimit
  <2>1. L \in Nat \ {0} /\ L \in 1..MaxLimit
    BY <1>5
  <2> HIDE DEF L
  <2>2. Start(page, L) \in Nat /\ End(page, L) = Start(page, L) + L
    BY <1>5, <2>1, PageEnds
  <2> QED  BY <2>1, <2>2 DEF L
<1>7. offset' = offset /\ offset \in Int
  <2>1. offset \in Int
    BY <1>5, <1>6 DEF offset, PageOffset, Wrap, Start, limit
  <2> QED  BY <1>1, <2>1 DEF offset
<1>8. P < HalfRange => offset = P
  BY <1>5, OffsetIsStart DEF offset, limit
<1>9. /\ Listed \in SUBSET Users /\ IsFiniteSet(Listed) /\ Cardinality(Listed) < HalfRange
      /\ \A v \in Listed : Ahead(v) \in Nat /\ Ahead(v) < Cardinality(Listed)
      /\ Cardinality(Listed) \in Nat
  BY <1>4, RankType DEF InOrder
<1>10. /\ rows' \in SUBSET Listed /\ Cardinality(rows') <= L
       /\ \A v \in Listed \ tied : v \in rows' <=> offset <= Ahead(v) /\ Ahead(v) < offset + L
  <2>1. offset \in Nat /\ offset + L \in Nat
    BY <1>1, <1>6, <1>7
  <2>2. /\ Firsts(S, Listed, offset) /\ Firsts(T, Listed, offset + L)
        /\ \A v \in Listed \ Tied : v \in S <=> Ahead(v) < offset
        /\ \A v \in Listed \ Tied : v \in T <=> Ahead(v) < offset + L
    <3> HIDE DEF L, P
    <3>1. T \in First(offset + L)
      BY DEF L
    <3> QED  BY <1>3, <2>1, <3>1, FirstOnes
  <2> HIDE DEF L, P
  <2>3. Cardinality(T \ S) <= L
    BY <1>0, <1>6, <1>9, <2>1, <2>2, PageFills
  <2>4. rows' \in SUBSET Listed
    BY <1>0, <2>2 DEF Firsts
  <2>5. ASSUME NEW v \in Listed \ tied
        PROVE  v \in rows' <=> offset <= Ahead(v) /\ Ahead(v) < offset + L
    <3>1. Ahead(v) \in Nat /\ (v \in S <=> Ahead(v) < offset) /\ (v \in T <=> Ahead(v) < offset + L)
      BY <1>3, <1>9, <2>2 DEF WalkTypes
    <3> QED  BY <1>0, <2>1, <3>1
  <2> QED  BY <1>0, <2>3, <2>4, <2>5
<1> HIDE DEF P, L
<1>11. WalkTypes'
  <2>1. rows' \in SUBSET Users
    BY <1>9, <1>10
  <2> QED  BY <1>1, <1>2, <1>3, <1>10, <2>1 DEF WalkTypes, L
<1>12. PlaceInv'
  BY <1>1 DEF PlaceInv
<1>13. AnswerInv'
  <2>1. Served'
    BY <1>0, <1>2, <1>7 DEF Served
  <2> QED  BY <1>1, <1>7, <2>1 DEF AnswerInv, Answered
<1>14. rows \subseteq seen /\ seen \in SUBSET Users /\ steady \in SUBSET Listed
  BY <1>1, <1>3 DEF PlaceInv, WalkTypes
<1>15. MissedInv'
  <2> SUFFICES ASSUME FromTheStart
               PROVE  Cardinality(Missed(End(page, limit))') <= left
    BY <1>1, <1>2 DEF MissedInv, FromTheStart
  <2>1. offset = P
    BY <1>1, <1>3, <1>8 DEF PlaceInv, P
  <2>2. Missed(End(page, limit))' =
           {v \in steady \ (seen \cup rows' \cup tied) : Ahead(v) < P + L}
    BY <1>1, <1>2, <1>6 DEF Missed
  <2>3. Missed(P) = {v \in steady \ (seen \cup rows \cup tied) : Ahead(v) < P}
    BY DEF Missed
  <2>4. ASSUME NEW v \in steady \ (seen \cup rows' \cup tied), Ahead(v) < P + L
        PROVE  v \in Missed(P)
    <3>1. /\ v \in Listed \ tied /\ Ahead(v) \in Nat
          /\ v \notin rows' /\ v \notin seen
      BY <1>9, <1>14, <2>4
    <3>2. Ahead(v) < P
      BY <1>6, <1>10, <2>1, <2>4, <3>1
    <3> QED  BY <1>14, <2>3, <2>4, <3>1, <3>2
  <2>5. Missed(End(page, limit))' \subseteq Missed(P)
    BY <2>2, <2>4
  <2>6. IsFiniteSet(Missed(P))
    BY <1>9, <1>14, <2>3, FS_Subset
  <2>7. Cardinality(Missed(End(page, limit))') <= Cardinality(Missed(P))
    BY <2>5, <2>6, FS_Subset
  <2>8. Cardinality(Missed(P)) <= left
    BY <1>1, <1>3 DEF MissedInv, P
  <2>9. Cardinality(Missed(P)) \in Nat /\ Cardinality(Missed(End(page, limit))') \in Nat
        /\ left \in Nat
    BY <1>3, <2>5, <2>6, FS_Subset, FS_CardinalityType DEF WalkTypes
  <2> QED  BY <2>7, <2>8, <2>9
<1>16. ShownInv'
  <2> SUFFICES ASSUME query.page >= 1
               PROVE  repeats + Cardinality((rows' \cap seen) \ tied)
                              + Cardinality(Shown(End(page, limit))') <= came
    BY <1>1, <1>2 DEF ShownInv
  <2> DEFINE New == Shown(End(page, limit))'
             Old == Shown(P)
             Again == (rows' \cap seen) \ tied
  <2>1. New = {v \in ((seen \cup rows') \cap Listed) \ tied : Ahead(v) >= P + L}
    BY <1>1, <1>2, <1>6 DEF Shown
  <2>2. Old = {v \in (seen \cap Listed) \ tied : Ahead(v) >= P}
    BY <1>14 DEF Shown
  <2> HIDE DEF New, Old
  <2>3. IsFiniteSet(Old) /\ Cardinality(Old) \in Nat
    BY <1>9, <2>2, FS_Subset, FS_CardinalityType
  <2>4. New \cup Again \subseteq Old /\ New \cap Again = {}
    <3>1. CASE P < HalfRange
      <4>1. offset = P
        BY <1>8, <3>1
      <4>2. ASSUME NEW v \in Again
            PROVE  /\ v \in Listed \ tied /\ v \in seen /\ Ahead(v) \in Nat
                   /\ P <= Ahead(v) /\ Ahead(v) < P + L
        BY <1>9, <1>10, <4>1
      <4>3. ASSUME NEW v \in New
            PROVE  v \in Listed \ tied /\ v \in seen /\ Ahead(v) \in Nat /\ Ahead(v) >= P + L
        BY <1>6, <1>9, <1>10, <2>1, <4>1
      <4>4. New \cup Again \subseteq Old
        BY <1>6, <2>2, <4>2, <4>3
      <4>5. New \cap Again = {}
        <5> SUFFICES ASSUME NEW v \in New, v \in Again PROVE FALSE
          OBVIOUS
        <5> QED  BY <1>6, <4>2, <4>3
      <4> QED  BY <4>4, <4>5
    <3>2. CASE ~(P < HalfRange)
      <4>1. seen = {}
        BY <1>1, <1>3, <3>2 DEF PlaceInv, P
      <4>2. New = {}
        <5> SUFFICES ASSUME NEW v \in New PROVE FALSE
          OBVIOUS
        <5>1. v \in Listed /\ Ahead(v) >= P + L
          BY <2>1
        <5> QED  BY <1>6, <1>9, <3>2, <5>1
      <4> QED  BY <4>1, <4>2
    <3> QED  BY <3>1, <3>2
  <2>5. IsFiniteSet(New) /\ IsFiniteSet(Again)
    BY <2>3, <2>4, FS_Subset
  <2>6. Cardinality(New \cup Again) = Cardinality(New) + Cardinality(Again) - Cardinality(New \cap Again)
    BY <2>5, FS_Union
  <2>7. Cardinality(New \cap Again) = 0
    BY <2>4, FS_EmptySet
  <2>8. Cardinality(New \cup Again) <= Cardinality(Old)
    BY <2>3, <2>4, FS_Subset
  <2>9. Cardinality(New) \in Nat /\ Cardinality(Again) \in Nat
    BY <2>5, FS_CardinalityType
  <2>10. repeats + Cardinality(Old) <= came
    BY <1>1, <1>3 DEF ShownInv, Old, P
  <2>11. repeats \in Nat /\ came \in Nat
    BY <1>3 DEF WalkTypes
  <2>12. repeats + Cardinality(Again) + Cardinality(New) <= came
    <3> HIDE DEF Again
    <3> QED  BY <2>3, <2>6, <2>7, <2>8, <2>9, <2>10, <2>11
  <2> QED  BY <2>12 DEF New
<1> QED
  BY <1>11, <1>12, <1>13, <1>15, <1>16 DEF WalkInv

\* The number of rows: what was read is shown now, and the walk is over when no
\* row comes after the page.
LEMMA ReadCountStep == ASSUME ListingInv, ReadCount PROVE WalkInv'
<1> DEFINE n == Cardinality(Listed)
           last == LastPage(n, limit)
<1>1. /\ pc = "count" /\ pc' = (IF page < last THEN "answered" ELSE "done")
      /\ answer' = PaginationRes(page, n, limit)
      /\ repeats' = repeats + Cardinality((rows \cap seen) \ tied) /\ seen' = seen \cup rows
      /\ UNCHANGED <<status, content, query, page, rows, tied, steady, left, came, moved>>
  BY DEF ReadCount, Goto, table, history, PaginationRes
<1>2. /\ Listed' = Listed /\ limit' = limit /\ \A v : Ahead(v)' = Ahead(v)
      /\ Tied' = Tied /\ \A m : First(m)' = First(m)
  BY <1>1, SameOrder
<1>3. TableInv /\ WalkTypes /\ PlaceInv /\ AnswerInv /\ MissedInv /\ ShownInv
  BY DEF ListingInv, WalkInv
<1>4. /\ Listed \in SUBSET Users /\ IsFiniteSet(Listed) /\ n \in Nat /\ n < HalfRange
      /\ \A v \in Listed : Ahead(v) \in Nat /\ Ahead(v) < n
  BY <1>3, Order, RankType DEF InOrder
<1>5. limit \in Nat \ {0} /\ page \in Int
  BY <1>3, QueryLimits DEF WalkTypes, limit, Ints
<1> HIDE DEF n
<1>6. last \in Nat /\ n <= last * limit
  <2> HIDE DEF limit
  <2> QED  BY <1>4, <1>5, LastPageIsLast
<1> HIDE DEF last
<1>7. rows \in SUBSET Users /\ Cardinality((rows \cap seen) \ tied) \in Nat
  BY <1>3, FS_Subset, FS_CardinalityType DEF WalkTypes
<1>8. WalkTypes'
  BY <1>1, <1>2, <1>3, <1>7 DEF WalkTypes
<1>9. PlaceInv'
  BY <1>1 DEF PlaceInv
<1>10. AnswerInv'
  <2>1. offset' = offset /\ (Served' <=> Served)
    BY <1>1, <1>2 DEF Served, offset
  <2>2. offset >= 0 /\ (~moved => Served)
    BY <1>1, <1>3 DEF AnswerInv
  <2>3. /\ answer'.current = page /\ answer'.perPage = limit
        /\ answer'.last = LastPage(n, limit) /\ answer'.count = n
    BY <1>1 DEF PaginationRes
  <2>4. pc' = "answered" => page < last
    BY <1>1
  <2>5. n \in 0..(HalfRange - 1)
    BY <1>4
  <2> HIDE DEF limit
  <2> QED  BY <1>1, <1>2, <2>1, <2>2, <2>3, <2>4, <2>5 DEF AnswerInv, Answered, n, last
<1>11. MissedInv'
  <2> SUFFICES ASSUME FromTheStart
               PROVE  /\ Cardinality(Missed(End(page, limit))') <= left
                      /\ pc' = "done" => Cardinality((steady \ seen') \ tied) <= left
    BY <1>1, <1>2 DEF MissedInv, FromTheStart
  <2>1. Missed(End(page, limit))' = Missed(End(page, limit))
    <3>1. seen' \cup rows' = seen \cup rows
      BY <1>1
    <3> QED  BY <1>1, <1>2, <3>1 DEF Missed
  <2>2. Cardinality(Missed(End(page, limit))) <= left
    BY <1>1, <1>3 DEF MissedInv
  <2>3. ASSUME pc' = "done" PROVE (steady \ seen') \ tied \subseteq Missed(End(page, limit))
    <3> SUFFICES ASSUME NEW v \in steady, v \notin seen \cup rows \cup tied
                 PROVE  Ahead(v) < End(page, limit)
      BY <1>1 DEF Missed
    <3>1. Ahead(v) \in Nat /\ Ahead(v) < n
      BY <1>3, <1>4 DEF WalkTypes
    <3>2. last <= page
      BY <1>1, <1>5, <1>6, <2>3
    <3>3. CASE page >= 1
      <4>1. last * limit <= page * limit
        <5> HIDE DEF limit
        <5> QED  BY <1>5, <1>6, <3>2, <3>3, Products
      <4>2. End(page, limit) = page * limit
        <5> HIDE DEF limit
        <5> QED  BY <1>5, <3>3, PageEnds
      <4>3. last * limit \in Nat /\ page * limit \in Int
        <5> HIDE DEF limit
        <5> QED  BY <1>5, <1>6
      <4> HIDE DEF limit
      <4> QED  BY <1>4, <1>6, <3>1, <4>1, <4>2, <4>3
    <3>4. CASE ~(page >= 1)
      <4>1. last = 0 /\ 0 * limit = 0
        <5> HIDE DEF limit
        <5> QED  BY <1>5, <1>6, <3>2, <3>4
      <4> QED  BY <1>4, <1>6, <3>1, <4>1
    <3> QED  BY <3>3, <3>4
  <2>4. IsFiniteSet(Missed(End(page, limit))) /\ Cardinality(Missed(End(page, limit))) \in Nat
    <3>1. Missed(End(page, limit)) \in SUBSET Listed
      BY <1>3 DEF Missed, WalkTypes
    <3> QED  BY <1>4, <3>1, FS_Subset, FS_CardinalityType
  <2>5. ASSUME pc' = "done" PROVE Cardinality((steady \ seen') \ tied) <= left
    <3>1. /\ Cardinality((steady \ seen') \ tied) <= Cardinality(Missed(End(page, limit)))
          /\ Cardinality((steady \ seen') \ tied) \in Nat
      BY <2>3, <2>4, <2>5, FS_Subset, FS_CardinalityType
    <3>2. left \in Nat
      BY <1>3 DEF WalkTypes
    <3> QED  BY <2>2, <2>4, <3>1, <3>2
  <2> QED  BY <2>1, <2>2, <2>5
<1>12. ShownInv'
  <2> SUFFICES ASSUME query.page >= 1
               PROVE  /\ repeats' <= came
                      /\ repeats' + Cardinality(Shown(End(page, limit))') <= came
    BY <1>1, <1>2 DEF ShownInv
  <2>1. Shown(End(page, limit))' = Shown(End(page, limit))
    <3>1. seen' \cup rows' = seen \cup rows
      BY <1>1
    <3> QED  BY <1>1, <1>2, <3>1 DEF Shown
  <2>2. repeats + Cardinality((rows \cap seen) \ tied) + Cardinality(Shown(End(page, limit))) <= came
    BY <1>1, <1>3 DEF ShownInv
  <2>3. Cardinality(Shown(End(page, limit))) \in Nat
    <3>1. Shown(End(page, limit)) \in SUBSET Listed
      BY DEF Shown
    <3> QED  BY <1>4, <3>1, FS_Subset, FS_CardinalityType
  <2>4. repeats \in Nat /\ came \in Nat
    BY <1>3 DEF WalkTypes
  <2> QED  BY <1>1, <1>7, <2>1, <2>2, <2>3, <2>4
<1> QED
  BY <1>8, <1>9, <1>10, <1>11, <1>12 DEF WalkInv

\* The client asks for the next page: it begins where the last one ended, within
\* the integers.
LEMMA AskNextStep == ASSUME ListingInv, AskNext PROVE WalkInv'
<1>1. /\ pc = "answered" /\ pc' = "rows" /\ page' = page + 1
      /\ UNCHANGED <<status, content, query, rows, answer, seen, repeats, history>>
  BY DEF AskNext, Goto, table
<1>2. /\ Listed' = Listed /\ limit' = limit /\ \A v : Ahead(v)' = Ahead(v)
      /\ Tied' = Tied
  BY <1>1, SameOrder
<1>3. TableInv /\ WalkTypes /\ PlaceInv /\ AnswerInv /\ MissedInv /\ ShownInv
  BY DEF ListingInv, WalkInv
<1>4. Listed \in SUBSET Users /\ IsFiniteSet(Listed)
  BY <1>3, Order DEF InOrder
<1>5. limit \in Nat \ {0} /\ page \in Int /\ page >= -HalfRange /\ query.page \in Int
  BY <1>3, QueryLimits DEF WalkTypes, limit, Ints
<1>6. /\ answer.count \in Nat /\ answer.count < HalfRange
      /\ page < LastPage(answer.count, limit)
  BY <1>1, <1>3 DEF AnswerInv, Answered
<1>7. page + 1 < HalfRange /\ Start(page + 1, limit) < HalfRange
  <2> HIDE DEF limit
  <2> DEFINE last == LastPage(answer.count, limit)
  <2>1. /\ last \in Nat
        /\ answer.count > 0 => (last - 1) * limit < answer.count
    BY <1>5, <1>6, LastPageIsLast
  <2>2. CASE page <= 0
    <3>1. Start(page + 1, limit) = 0
      <4> DEFINE next == page + 1
      <4>1. next \in Int /\ next <= 1
        BY <1>5, <2>2
      <4> HIDE DEF next
      <4>2. Start(next, limit) = 0
        BY <1>5, <4>1, PageEnds
      <4> QED  BY <4>2 DEF next
    <3> QED  BY <1>5, <2>2, <3>1
  <2>3. CASE page >= 1
    <3>1. answer.count # 0
      BY <1>5, <1>6, <2>3, NoLastPage
    <3> HIDE DEF last
    <3>2. page \in Nat /\ last - 1 \in Nat /\ page <= last - 1
      BY <1>5, <1>6, <2>1, <2>3 DEF last
    <3>3. page * limit <= (last - 1) * limit
      BY <1>5, <3>2, Products
    <3>4. page <= page * limit /\ page * limit \in Nat /\ (last - 1) * limit \in Nat
      <4>1. 1 * page <= limit * page
        BY <1>5, <3>2, Products
      <4>2. 1 * page = page /\ limit * page = page * limit
        BY <1>5
      <4> QED  BY <1>5, <3>2, <4>1, <4>2
    <3>5. page * limit < HalfRange - 1 \/ page * limit < answer.count
      BY <1>6, <2>1, <3>1, <3>3, <3>4
    <3>6. Start(page + 1, limit) = page * limit
      BY <1>5, <2>3, PageEnds
    <3> QED  BY <1>5, <1>6, <3>4, <3>5, <3>6
  <2> QED  BY <1>5, <2>2, <2>3
<1>8. WalkTypes'
  <2>1. page' \in Ints /\ query'.page <= page'
    BY <1>1, <1>3, <1>5, <1>7 DEF WalkTypes, Ints
  <2> QED  BY <1>1, <1>2, <1>3, <2>1 DEF WalkTypes, history
<1>9. PlaceInv'
  BY <1>1, <1>2, <1>3, <1>7 DEF PlaceInv
<1>10. AnswerInv'
  BY <1>1 DEF AnswerInv, Answered
<1>11. /\ Start(page + 1, limit) \in Nat /\ Start(page + 1, limit) <= End(page, limit)
       /\ page >= 1 => Start(page + 1, limit) = End(page, limit)
       /\ End(page, limit) \in Nat
  <2> HIDE DEF limit
  <2>1. Start(page, limit) \in Nat /\ End(page, limit) = Start(page, limit) + limit
    BY <1>5, PageEnds
  <2>2. Start(page + 1, limit) \in Nat /\ Start(page + 1, limit) <= End(page, limit)
    BY <1>5, PageEnds
  <2>3. page >= 1 => Start(page + 1, limit) = End(page, limit)
    BY <1>5, PageEnds
  <2> QED  BY <1>5, <2>1, <2>2, <2>3
<1>12. MissedInv'
  <2> SUFFICES ASSUME FromTheStart
               PROVE  Cardinality(Missed(Start(page, limit))') <= left
    BY <1>1, <1>2 DEF MissedInv, FromTheStart, history
  <2> DEFINE Old == Missed(End(page, limit))
             New == Missed(Start(page, limit))'
  <2>1. New = {v \in steady \ (seen \cup rows \cup tied) : Ahead(v) < Start(page + 1, limit)}
    BY <1>1, <1>2 DEF Missed, history
  <2>2. steady \in SUBSET Listed /\ left \in Nat /\ \A v \in steady : Ahead(v) \in Nat
    BY <1>3, Order, RankType DEF WalkTypes, InOrder
  <2>3. New \subseteq Old
    BY <1>11, <2>1, <2>2 DEF Missed
  <2>4. IsFiniteSet(Old)
    BY <1>4, <2>2, FS_Subset DEF Missed
  <2>5. Cardinality(Old) <= left
    BY <1>1, <1>3 DEF MissedInv
  <2> HIDE DEF Old, New
  <2>6. Cardinality(New) <= Cardinality(Old) /\ Cardinality(New) \in Nat /\ Cardinality(Old) \in Nat
    BY <2>3, <2>4, FS_Subset, FS_CardinalityType
  <2> QED  BY <2>2, <2>5, <2>6 DEF New
<1>13. ShownInv'
  <2> SUFFICES ASSUME query.page >= 1
               PROVE  repeats + Cardinality(Shown(Start(page, limit))') <= came
    BY <1>1, <1>2 DEF ShownInv, history
  <2>1. page >= 1
    BY <1>3, <1>5 DEF WalkTypes
  <2>2. Shown(Start(page, limit))' = Shown(End(page, limit))
    <3>1. Shown(Start(page, limit))' =
             {v \in ((seen \cup rows) \cap Listed) \ tied : Ahead(v) >= Start(page + 1, limit)}
      BY <1>1, <1>2 DEF Shown, history
    <3>2. Start(page + 1, limit) = End(page, limit)
      BY <1>11, <2>1
    <3> QED  BY <3>1, <3>2 DEF Shown
  <2> QED  BY <1>1, <1>3, <2>2 DEF ShownInv
<1> QED
  BY <1>8, <1>9, <1>10, <1>12, <1>13 DEF WalkInv

\* A writer changes the table: what the walk misses or repeats for it is counted.
LEMMA ChangeStep ==
    ASSUME ListingInv, NEW w \in Writers, NEW u \in Users, Changed(w, u)
    PROVE  WalkInv'
<1>1. /\ UNCHANGED <<pc, query, page, rows, answer, seen, repeats>> /\ moved' = TRUE
      /\ steady' = steady \cap Listed' /\ tied' = tied \cup Tied'
  BY DEF Changed, Watch, walk
<1>2. TableInv /\ WalkTypes /\ PlaceInv /\ AnswerInv /\ MissedInv /\ ShownInv
  BY DEF ListingInv, WalkInv
<1>3. limit' = limit /\ offset' = offset
  BY <1>1 DEF limit, offset
<1>4. limit \in Nat \ {0} /\ page \in Int
  BY <1>2, QueryLimits DEF WalkTypes, limit, Ints
<1>5. steady \in SUBSET Listed /\ left \in Nat /\ came \in Nat /\ repeats \in Nat
      /\ steady \in SUBSET Users /\ Tied \subseteq tied
  BY <1>2 DEF WalkTypes, Listed
<1>6. Start(page, limit) \in Int /\ End(page, limit) \in Int
  <2> HIDE DEF limit
  <2>1. Start(page, limit) \in Nat /\ End(page, limit) = Start(page, limit) + limit
    BY <1>4, PageEnds
  <2> QED  BY <1>4, <2>1
<1>7. left' \in {left, left + 1} /\ came' \in {came, came + 1}
  BY <1>2, <1>5, <1>6, MissedChange, ShownChange
<1>8. ASSUME NEW P \in Int
      PROVE  /\ Cardinality(Missed(P)) <= left => Cardinality(Missed(P)') <= left'
             /\ \A m \in Nat : m + Cardinality(Shown(P)) <= came =>
                                  m + Cardinality(Shown(P)') <= came'
  <2>1. /\ Missed(P) \in SUBSET Users /\ Missed(P)' \in SUBSET Users
        /\ Cardinality(Missed(P)') <= Cardinality(Missed(P)) + (left' - left)
    BY <1>2, <1>5, MissedChange
  <2>2. /\ Shown(P) \in SUBSET Users /\ Shown(P)' \in SUBSET Users
        /\ Cardinality(Shown(P)') <= Cardinality(Shown(P)) + (came' - came)
    BY <1>2, <1>5, ShownChange
  <2>3. /\ Cardinality(Missed(P)') \in Nat /\ Cardinality(Missed(P)) \in Nat
        /\ Cardinality(Shown(P)') \in Nat /\ Cardinality(Shown(P)) \in Nat
    BY <2>1, <2>2, FS_Subset, FS_CardinalityType
  <2> QED  BY <1>5, <1>7, <2>1, <2>2, <2>3
<1> PICK s \in Int : s = Start(page, limit)
  BY <1>6
<1> PICK e \in Int : e = End(page, limit)
  BY <1>6
<1>s. /\ Missed(Start(page, limit)) = Missed(s) /\ Missed(End(page, limit)) = Missed(e)
      /\ Shown(Start(page, limit)) = Shown(s) /\ Shown(End(page, limit)) = Shown(e)
  OBVIOUS
<1>e. /\ Missed(Start(page, limit))' = Missed(s)' /\ Missed(End(page, limit))' = Missed(e)'
      /\ Shown(Start(page, limit))' = Shown(s)' /\ Shown(End(page, limit))' = Shown(e)'
  BY <1>1, <1>3 DEF Missed, Shown
<1>9. WalkTypes'
  <2>1. left' \in Nat /\ came' \in Nat /\ moved' \in BOOLEAN
    BY <1>1, <1>5, <1>7
  <2>2. steady' \in SUBSET Listed' /\ Tied' \subseteq tied' /\ tied' \in SUBSET Users
    BY <1>1, <1>2 DEF WalkTypes, Tied, Listed
  <2> QED  BY <1>1, <1>2, <1>3, <2>1, <2>2 DEF WalkTypes
<1>10. PlaceInv' /\ AnswerInv'
  BY <1>1, <1>2, <1>3 DEF PlaceInv, AnswerInv, Answered, FromTheStart
<1>11. MissedInv'
  <2> SUFFICES ASSUME FromTheStart
               PROVE  /\ pc = "rows" => Cardinality(Missed(Start(page, limit))') <= left'
                      /\ pc \in {"count", "answered"} =>
                            Cardinality(Missed(End(page, limit))') <= left'
                      /\ pc = "done" => Cardinality((steady' \ seen) \ tied') <= left'
    BY <1>1, <1>3 DEF MissedInv, FromTheStart, Missed
  <2>1. /\ pc = "rows" => Cardinality(Missed(Start(page, limit))) <= left
        /\ pc \in {"count", "answered"} => Cardinality(Missed(End(page, limit))) <= left
        /\ pc = "done" => Cardinality((steady \ seen) \ tied) <= left
    BY <1>2 DEF MissedInv
  <2>2. ASSUME pc = "done" PROVE Cardinality((steady' \ seen) \ tied') <= left'
    <3>1. /\ IsFiniteSet((steady \ seen) \ tied)
          /\ (steady' \ seen) \ tied' \in SUBSET ((steady \ seen) \ tied)
      BY <1>1, <1>5, FS_Subset
    <3>2. /\ Cardinality((steady' \ seen) \ tied') <= Cardinality((steady \ seen) \ tied)
          /\ Cardinality((steady' \ seen) \ tied') \in Nat /\ Cardinality((steady \ seen) \ tied) \in Nat
      BY <3>1, FS_Subset, FS_CardinalityType
    <3> QED  BY <1>5, <1>7, <2>1, <2>2, <3>2
  <2>3. /\ Cardinality(Missed(s)) <= left => Cardinality(Missed(s)') <= left'
        /\ Cardinality(Missed(e)) <= left => Cardinality(Missed(e)') <= left'
    BY <1>8
  <2> QED
    BY <1>s, <1>e, <2>1, <2>2, <2>3, Zenon
<1>12. ShownInv'
  <2> SUFFICES ASSUME query.page >= 1
               PROVE  /\ pc \in {"idle", "failed", "done"} => repeats <= came'
                      /\ pc = "rows" => repeats + Cardinality(Shown(Start(page, limit))') <= came'
                      /\ pc = "count" => repeats + Cardinality((rows \cap seen) \ tied')
                                            + Cardinality(Shown(End(page, limit))') <= came'
                      /\ pc = "answered" => repeats + Cardinality(Shown(End(page, limit))') <= came'
    BY <1>1, <1>3 DEF ShownInv, Shown
  <2>1. /\ pc \in {"idle", "failed", "done"} => repeats <= came
        /\ pc = "rows" => repeats + Cardinality(Shown(Start(page, limit))) <= came
        /\ pc = "count" => repeats + Cardinality((rows \cap seen) \ tied)
                                   + Cardinality(Shown(End(page, limit))) <= came
        /\ pc = "answered" => repeats + Cardinality(Shown(End(page, limit))) <= came
    BY <1>2 DEF ShownInv
  <2> DEFINE old == Cardinality((rows \cap seen) \ tied)
             new == Cardinality((rows \cap seen) \ tied')
  <2>2. old \in Nat /\ new \in Nat /\ new <= old
    <3>1. IsFiniteSet((rows \cap seen) \ tied)
      BY <1>2, FS_Subset DEF WalkTypes
    <3>2. (rows \cap seen) \ tied' \in SUBSET ((rows \cap seen) \ tied)
      BY <1>1
    <3> QED  BY <3>1, <3>2, FS_Subset, FS_CardinalityType
  <2> HIDE DEF old, new
  <2>3. repeats + old \in Nat /\ repeats + new \in Nat /\ repeats + new <= repeats + old
    BY <1>5, <2>2
  <2>4. repeats <= came => repeats <= came'
    BY <1>5, <1>7
  <2>5. /\ repeats + Cardinality(Shown(s)) <= came => repeats + Cardinality(Shown(s)') <= came'
        /\ repeats + Cardinality(Shown(e)) <= came => repeats + Cardinality(Shown(e)') <= came'
    BY <1>5, <1>8
  <2>6. repeats + old + Cardinality(Shown(e)) <= came =>
           repeats + new + Cardinality(Shown(e)') <= came'
    <3>1. Cardinality(Shown(e)) \in Nat
      BY <1>2, FS_Subset, FS_CardinalityType DEF WalkTypes, Shown
    <3>2. repeats + old + Cardinality(Shown(e)) <= came =>
             repeats + new + Cardinality(Shown(e)) <= came
      BY <1>5, <2>3, <3>1
    <3> QED  BY <1>8, <2>3, <3>2
  <2> QED
    BY <1>s, <1>e, <2>1, <2>4, <2>5, <2>6, Zenon DEF old, new
<1> QED
  BY <1>9, <1>10, <1>11, <1>12 DEF WalkInv

\* A writer that takes a stamp disturbs no walk.
LEMMA QuietStep ==
    ASSUME ListingInv, UNCHANGED <<status, content, walk, history>> PROVE WalkInv'
<1>1. UNCHANGED <<pc, query, page, rows, answer, seen, repeats, tied, steady, left, came, moved>>
  BY DEF walk, history
<1>2. /\ Listed' = Listed /\ limit' = limit /\ offset' = offset
      /\ Tied' = Tied /\ (\A v : Ahead(v)' = Ahead(v)) /\ \A n : First(n)' = First(n)
  BY <1>1, SameOrder DEF offset
<1>3. \A P : Missed(P)' = Missed(P) /\ Shown(P)' = Shown(P)
  BY <1>1, <1>2 DEF Missed, Shown
<1>4. Served' <=> Served
  BY <1>1, <1>2 DEF Served
<1>5. WalkTypes' /\ PlaceInv'
  BY <1>1, <1>2 DEF ListingInv, WalkInv, WalkTypes, PlaceInv, FromTheStart
<1>6. AnswerInv'
  BY <1>1, <1>2, <1>4 DEF ListingInv, WalkInv, AnswerInv, Answered
<1>7. MissedInv'
  <2>1. /\ Missed(Start(page, limit))' = Missed(Start(page, limit))
        /\ Missed(End(page, limit))' = Missed(End(page, limit))
    BY <1>1, <1>2, <1>3 DEF Missed
  <2> QED  BY <1>1, <1>2, <2>1 DEF ListingInv, WalkInv, MissedInv, FromTheStart
<1>8. ShownInv'
  <2>1. /\ Shown(Start(page, limit))' = Shown(Start(page, limit))
        /\ Shown(End(page, limit))' = Shown(End(page, limit))
    BY <1>1, <1>2, <1>3 DEF Shown
  <2> QED  BY <1>1, <1>2, <2>1 DEF ListingInv, WalkInv, ShownInv
<1> QED
  BY <1>5, <1>6, <1>7, <1>8 DEF WalkInv

\* Every step keeps the invariant.
LEMMA ListingStep == ListingInv /\ [Next]_vars => ListingInv'
<1> SUFFICES ASSUME ListingInv, [Next]_vars PROVE ListingInv'
  OBVIOUS
<1>1. TableInv'
  BY TableStep DEF ListingInv
<1>2. CASE Reader
  BY <1>1, <1>2, AskStep, ReadRowsStep, ReadFailsStep, ReadCountStep, AskNextStep
     DEF Reader, ListingInv
<1>3. ASSUME NEW w \in Writers, TakeStamp(w) PROVE ListingInv'
  BY <1>1, <1>3, QuietStep DEF TakeStamp, ListingInv, table
<1>4. ASSUME NEW w \in Writers, Insert(w) \/ Change(w) \/ Delete(w) PROVE ListingInv'
  <2>1. PICK u \in Users : Changed(w, u)
    BY <1>4, OneAccount DEF ListingInv, TableInv
  <2> QED  BY <1>1, <2>1, ChangeStep DEF ListingInv
<1>5. CASE UNCHANGED vars
  BY <1>1, <1>5, QuietStep DEF vars, table, ListingInv
<1> QED
  BY <1>2, <1>3, <1>4, <1>5 DEF Next, Writer

\* The invariant holds in every state of every walk.
LEMMA ListingAlways == Spec => []ListingInv
<1>1. Init => ListingInv
  BY TableInit, WalkInit DEF ListingInv
<1> QED
  BY <1>1, ListingStep, PTL DEF Spec

\* Tables, walks and what a page may hold (FindAll with the limit LimitMax gives).
THEOREM ListingTypes == Spec => []TypeOK
<1>1. ListingInv => TypeOK
  <2> SUFFICES ASSUME ListingInv PROVE TypeOK
    OBVIOUS
  <2>1. TableTypes /\ WritesLeft /\ WalkTypes
    BY DEF ListingInv, TableInv, WalkInv
  <2>3. Cardinality(Taken) \in Nat
    BY FS_Subset, FS_CardinalityType DEF Taken
  <2>4. writes \in 0..MaxWrites
    BY <2>1, <2>3 DEF WritesLeft
  <2>5. limit \in 1..MaxLimit
    BY <2>1, QueryLimits DEF WalkTypes, limit
  <2> QED  BY <2>1, <2>4, <2>5 DEF TypeOK, TableTypes, WalkTypes
<1> QED
  BY <1>1, ListingAlways, PTL

\* The two statements of FindAll belong together unless the table changes between
\* them: a page up to LargestSafePage holds the rows its pagination speaks of.
THEOREM PagesMatchTotals == Spec => []PageMatchesTotal
<1>1. ListingInv => PageMatchesTotal
  <2> SUFFICES ASSUME ListingInv, Answered, ~moved, page \in 1..LargestSafePage
               PROVE  LET before == (answer.current - 1) * answer.perPage
                          found == Cardinality(rows)
                      IN /\ answer.count <= before => found = 0
                         /\ answer.count > before + answer.perPage => found = answer.perPage
                         /\ answer.count \in before + 1 .. before + answer.perPage =>
                               found = answer.count - before
    BY DEF PageMatchesTotal
  <2>1. TableInv /\ WalkTypes /\ AnswerInv
    BY DEF ListingInv, WalkInv
  <2>2. /\ answer.current = page /\ answer.perPage = limit
        /\ answer.count = Cardinality(Listed) /\ Served
    BY <2>1 DEF AnswerInv, Answered
  <2>3. query.limit \in Ints /\ limit \in Nat
    BY <2>1, QueryLimits DEF WalkTypes, limit
  <2>4. offset = (page - 1) * limit /\ offset \in Nat
    <3>1. offset = (page - 1) * limit /\ offset >= 0
      BY <2>3, SafePages DEF offset, limit
    <3>2. (page - 1) * limit \in Int
      <4> HIDE DEF limit
      <4>1. page \in Int
        OBVIOUS
      <4> QED  BY <2>3, <4>1
    <3> QED  BY <3>1, <3>2
  <2>5. IsFiniteSet(Listed)
    BY <2>1, Order DEF InOrder
  <2>6. PICK S \in First(offset), T \in First(offset + limit) : S \subseteq T /\ rows = T \ S
    BY <2>2 DEF Served
  <2>7. Fills(Cardinality(rows), Cardinality(Listed), offset, limit)
    <3> HIDE DEF limit, offset
    <3>1. Firsts(S, Listed, offset) /\ Firsts(T, Listed, offset + limit)
      BY <2>1, <2>3, <2>4, FirstOnes
    <3> QED  BY <2>3, <2>4, <2>5, <2>6, <3>1, PageFills
  <2> HIDE DEF limit, offset
  <2> QED  BY <2>2, <2>4, <2>7 DEF Fills
<1> QED
  BY <1>1, ListingAlways, PTL

\* A walk from the first to the last page misses, of the accounts listed all the
\* time and with a key of their own, at most one for each that left its place, however
\* the changes fall between the statements of FindAll and rows with one key are ordered.
THEOREM LittleIsMissed == Spec => []NothingMissed
<1>1. ListingInv => NothingMissed
  BY DEF ListingInv, WalkInv, MissedInv, NothingMissed
<1> QED
  BY <1>1, ListingAlways, PTL

\* A walk repeats an account with a key of its own at most once for each that came back
\* or came in before the end of the order, whatever page it starts at and however rows
\* with one key are ordered.
THEOREM LittleIsRepeated == Spec => []NothingRepeated
<1>1. ListingInv => NothingRepeated
  <2> SUFFICES ASSUME ListingInv, query.page >= 1 PROVE repeats <= came
    BY DEF NothingRepeated
  <2>1. WalkTypes /\ ShownInv
    BY DEF ListingInv, WalkInv
  <2>2. \A P : Cardinality(Shown(P)) \in Nat
    BY <2>1, FS_Subset, FS_CardinalityType DEF Shown, WalkTypes, Listed
  <2>3. Cardinality((rows \cap seen) \ tied) \in Nat
    BY <2>1, FS_Subset, FS_CardinalityType DEF WalkTypes
  <2> QED  BY <2>1, <2>2, <2>3 DEF WalkTypes, ShownInv
<1> QED
  BY <1>1, ListingAlways, PTL
=============================================================================
