------------------------------ MODULE MCListing ------------------------------
(* Instances of Listing: two or three pages of at most three rows, ints of    *)
(* five bits, limits and pages at their boundaries.                           *)
EXTENDS Listing, TLC

CONSTANTS root, u1, u2, u3

Wish(at, lim, col, dir) == [page |-> at, limit |-> lim, by |-> col, sort |-> dir]

\* Three accounts with keys of their own, and three of which two share theirs.
At(t) == Row(t, t, TRUE)
MCBeginnings == {(root :> At(1)) @@ (u1 :> At(2)) @@ (u2 :> At(3)),
                 (root :> At(1)) @@ (u1 :> At(2)) @@ (u2 :> At(2))}
MCQueries ==
    {Wish(1, lim, col, dir) : lim \in {0, 1}, col \in {"def.created_at", ""}, dir \in {"ASC", ""}}
    \cup {Wish(0, 3, "def.created_at", "asc"), Wish(3, 4, "def.created_at", "asc"),
          Wish(7, 3, "", ""), Wish(12, 3, "", "")}
=============================================================================
