----------------------------- MODULE Pagination -----------------------------
(***************************************************************************)
(* The page arithmetic of ContractUC and the white lists of FindAll and    *)
(* SelectAll: what becomes of the page, limit, by and sort a client sends. *)
(* Numbers are Go ints: they run from -HalfRange to HalfRange - 1 and wrap. *)
(***************************************************************************)
EXTENDS Integers

CONSTANTS MaxLimit, DefaultLimit, HalfRange

ASSUME PaginationAssumption ==
    /\ MaxLimit \in Nat \ {0} /\ DefaultLimit \in 1..MaxLimit
    /\ HalfRange \in Nat /\ MaxLimit < HalfRange

Ints == (-HalfRange) .. (HalfRange - 1)
Wrap(n) == ((n + HalfRange) % (2 * HalfRange)) - HalfRange

\* Variant: zero is a limit, too.
LimitMaxOrZero(limit) == IF limit < 0 \/ limit > MaxLimit THEN DefaultLimit ELSE limit

LimitMax(limit) == IF limit <= 0 \/ limit > MaxLimit THEN DefaultLimit ELSE limit

\* The page PaginationPageOffset goes by.
ServedPage(page) == IF page <= 0 THEN 1 ELSE page

\* Variant: pages are counted from 0.
PageOffsetFromZero(page, limit) == Wrap(ServedPage(page) * LimitMax(limit))

PageOffset(page, limit) == Wrap((ServedPage(page) - 1) * LimitMax(limit))

\* Variant: a last page that is not full does not count.
LastPageRoundedDown(count, limit) == count \div limit

LastPage(count, limit) ==
    (count \div limit) + (IF count % limit > 0 THEN 1 ELSE 0)

\* PaginationRes: the page comes back as it was sent.
PaginationRes(page, count, limit) ==
    [current |-> page, last |-> LastPage(count, limit), count |-> count, perPage |-> limit]

\* str.Contains(model.AdminBy, by), or the default.
AdminBy == {"def.created_at", "def.updated_at"}
OrderColumn(by) == IF by \in AdminBy THEN by ELSE "def.updated_at"

\* str.Contains(SortWhitelist, strings.ToLower(sort)), or the default.
Ascending(sort) == sort \in {"asc", "ASC"}

\* Up to here the offset is the right one: the product cannot wrap.
LargestSafePage == (HalfRange - 1) \div MaxLimit
=============================================================================
