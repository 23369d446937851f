------------------------------- MODULE Listing -------------------------------
(***************************************************************************)
(* The listing of accounts: a client walks through the pages GetAllHandler *)
(* serves, one request after the other, while writers change the table.    *)
(* A page is two statements, the rows and their number; the table may      *)
(* change between them as well as between the pages.                       *)
(*                                                                         *)
(* The table is the one of Directory, its content here the time stamps of  *)
(* a row and whether the search matches it.  Writers read the clock before *)
(* their statement runs, as AdminService has it, so a row may appear with  *)
(* an older stamp than one that is already there.  The clock may read one  *)
(* time twice, and step back, and no column of stamps is unique: rows may  *)
(* have one key in common, and then every query may order them as it likes.*)
(***************************************************************************)
EXTENDS Pagination, FiniteSets

CONSTANTS
    Users,       \* ids of accounts
    Founder,     \* the account db.sql seeds
    Times,       \* the times time.Now() may read
    Beginnings,  \* the live rows, by account, that a walk may begin with
    Writers,     \* requests that change accounts at the same time
    Queries,     \* what clients ask for: page, limit, by, sort
    MaxWrites    \* bound: changes of the table

Rows == [created : Times, updated : Times, matches : BOOLEAN]

ASSUME ListingAssumption ==
    /\ IsFiniteSet(Users) /\ IsFiniteSet(Writers)
    /\ Cardinality(Users) < HalfRange   \* the number of rows is scanned into an int
    /\ Times \subseteq Nat \ {0}
    /\ Founder \in Users
    /\ \A b \in Beginnings : b \in [DOMAIN b -> Rows] /\ Founder \in DOMAIN b /\ DOMAIN b \subseteq Users
    /\ Queries \subseteq [page : Ints, limit : Ints, by : STRING, sort : STRING]
    /\ MaxWrites \in Nat

VARIABLES
    status, content, granted,   \* the table, as in Directory
    stamp,      \* the stamp each writer has taken and not used, 0 for none
    writes,     \* changes of the table so far
    pc,         \* where the walk is
    query,      \* what the client asked for first
    page,       \* the page it asks for now
    rows,       \* the accounts on that page
    answer,     \* the pagination of the latest answer
    seen,       \* history: the accounts served on earlier pages of the walk
    repeats,    \* history: rows, not of tied accounts, that had been served before
    tied,       \* history: the accounts that have shared their key during the walk
    steady,     \* history: the accounts listed ever since the walk began
    left,       \* history: how often an account left its place in the order
    came,       \* history: how often one came back, or came before the end of the order
    moved       \* history: has the table changed since the rows were read?

table == <<status, content, granted>>
walk == <<pc, query, page, rows, answer, seen, repeats>>
history == <<tied, steady, left, came, moved>>
vars == <<table, stamp, writes, walk, history>>

Row(created, updated, matches) ==
    [created |-> created, updated |-> updated, matches |-> matches]

\* An id without a row: the columns mean nothing.
NoRow == Row(0, 0, FALSE)

Dir == INSTANCE Directory WITH Contents <- Rows \cup {NoRow}, FoundersContent <- NoRow

NoQuery == [page |-> 1, limit |-> 1, by |-> "", sort |-> ""]

-----------------------------------------------------------------------------
(* The order of the rows *)

\* WHERE def."deleted_at" IS NULL AND (... LIKE $1 ...)
Listed == {u \in Users : status[u] = "live" /\ content[u].matches}

Key(u) == IF OrderColumn(query.by) = "def.created_at"
            THEN content[u].created ELSE content[u].updated
Before(u, v) == IF Ascending(query.sort) THEN Key(u) < Key(v) ELSE Key(u) > Key(v)

\* History, no code: the accounts whose place another query may change.
Tied == {u \in Listed : \E v \in Listed \ {u} : Key(v) = Key(u)}

Init ==
    /\ \E b \in Beginnings :
          /\ status = [u \in Users |-> IF u \in DOMAIN b THEN "live" ELSE "absent"]
          /\ content = [u \in Users |-> IF u \in DOMAIN b THEN b[u] ELSE NoRow]
    /\ granted = {Founder}
    /\ writes = 0 /\ stamp = [w \in Writers |-> 0]
    /\ pc = "idle" /\ query = NoQuery /\ page = 1
    /\ rows = {} /\ answer = PaginationRes(1, 0, 1)
    /\ seen = {} /\ repeats = 0
    /\ tied = Tied /\ steady = {} /\ left = 0 /\ came = 0 /\ moved = FALSE

-----------------------------------------------------------------------------
(* The statements of FindAll *)

\* Variant: always ordered by the default column.
LeadByDefault ==
    {S \in SUBSET Listed :
        \A u \in S, v \in Listed \ S : content[u].updated >= content[v].updated}

\* ORDER BY one column: the accounts that may come first, so and so many of them.
\* The order of rows with one key is the database's, and not always the same.
Leading == {S \in SUBSET Listed : \A u \in S, v \in Listed \ S : ~Before(v, u)}

\* The first n of the rows, or all when there are no more.
First(n) == {S \in Leading : Cardinality(S) = n \/ (S = Listed /\ Cardinality(S) < n)}

-----------------------------------------------------------------------------
(* The walk: AdminUC.FindAll for one page after the other *)

Goto(place) == pc' = place
limit == LimitMax(query.limit)
offset == PageOffset(page, query.limit)

Ask ==
    /\ pc = "idle"
    /\ \E q \in Queries : query' = q /\ page' = q.page
    /\ Goto("rows")
    /\ UNCHANGED <<table, stamp, writes, rows, answer, seen, repeats, moved>>
    /\ tied' = Tied' /\ steady' = Listed /\ left' = 0 /\ came' = 0

ReadRows ==
    /\ pc = "rows" /\ offset >= 0
    \* OFFSET offset LIMIT limit
    /\ \E S \in First(offset), T \in First(offset + limit) : S \subseteq T /\ rows' = T \ S
    /\ moved' = FALSE
    /\ Goto("count")
    /\ UNCHANGED <<table, stamp, writes, query, page, answer, seen, repeats,
                   tied, steady, left, came>>

\* Variant: a statement that failed is tried again.
ReadFailsRetried == pc = "rows" /\ offset < 0 /\ UNCHANGED vars

\* Either statement may fail, and the first does for a negative offset: the client
\* gets an error and gives up.
ReadFails ==
    /\ pc \in {"rows", "count"}
    /\ Goto("failed")
    /\ UNCHANGED <<table, stamp, writes, query, page, rows, answer, seen,
                   repeats, history>>

\* SELECT COUNT, then PaginationRes and the answer.
ReadCount ==
    /\ pc = "count"
    /\ answer' = PaginationRes(page, Cardinality(Listed), limit)
    /\ repeats' = repeats + Cardinality((rows \cap seen) \ tied)
    /\ seen' = seen \cup rows
    /\ Goto(IF page < answer'.last THEN "answered" ELSE "done")
    /\ UNCHANGED <<table, stamp, writes, query, page, rows, history>>

AskNext ==
    /\ pc = "answered"
    /\ page' = page + 1
    /\ Goto("rows")
    /\ UNCHANGED <<table, stamp, writes, query, rows, answer, seen, repeats, history>>

Reader == Ask \/ ReadRows \/ ReadFails \/ ReadCount \/ AskNext

-----------------------------------------------------------------------------
(* The writers *)

TakeStamp(w) ==
    /\ stamp[w] = 0 /\ writes + Cardinality({v \in Writers : stamp[v] # 0}) < MaxWrites
    /\ \E now \in Times : stamp' = [stamp EXCEPT ![w] = now]
    /\ UNCHANGED <<table, writes, walk, history>>

\* What a change of account u means for the walk.  An account changes its place
\* in the order when the column it goes by is written.
Watch(u) ==
    LET was == u \in Listed
        is == u \in Listed'
        displaced == was /\ is /\ Key(u)' # Key(u)
        back == u \in seen \cup rows
        before == \E v \in Listed' \ {u} : Before(u, v)'
    IN /\ tied' = tied \cup Tied'
       /\ steady' = steady \cap Listed'
       /\ left' = left + (IF displaced \/ (was /\ ~is) THEN 1 ELSE 0)
       /\ came' = came + (IF displaced \/ (~was /\ is /\ (back \/ before)) THEN 1 ELSE 0)
       /\ moved' = TRUE
       /\ writes' = writes + 1

Insert(w) ==
    /\ stamp[w] # 0
    /\ UNCHANGED walk
    /\ \E u \in Users, matches \in BOOLEAN :
          /\ content' = [content EXCEPT ![u] = Row(stamp[w], stamp[w], matches)]
          /\ Dir!Register(u)
          /\ Watch(u)
    /\ stamp' = [stamp EXCEPT ![w] = 0]

Change(w) ==
    /\ stamp[w] # 0
    /\ UNCHANGED walk
    /\ \E u \in Users, matches \in BOOLEAN :
          /\ content' = [content EXCEPT ![u] = Row(@.created, stamp[w], matches)]
          /\ Dir!Amend(u)
          /\ Watch(u)
    /\ stamp' = [stamp EXCEPT ![w] = 0]

Delete(w) ==
    /\ stamp[w] # 0
    /\ UNCHANGED walk
    /\ \E u \in Users : Dir!Retire(u) /\ Watch(u)
    /\ stamp' = [stamp EXCEPT ![w] = 0]

Writer(w) == TakeStamp(w) \/ Insert(w) \/ Change(w) \/ Delete(w)

Next == Reader \/ \E w \in Writers : Writer(w)

\* A walk goes on; nobody has to write.
Spec == Init /\ [][Next]_vars
FairSpec == Spec /\ WF_vars(Reader)
-----------------------------------------------------------------------------
(* Properties *)

\* The type invariant, with the limit every query ends up with.
TypeOK ==
    /\ status \in [Users -> {"absent", "live", "deleted"}]
    /\ content \in [Users -> Rows \cup {NoRow}]
    /\ writes \in 0..MaxWrites /\ stamp \in [Writers -> Times \cup {0}]
    /\ pc \in {"idle", "rows", "count", "answered", "done", "failed"}
    /\ query \in Queries \cup {NoQuery}
    /\ limit \in 1..MaxLimit
    /\ page \in Ints /\ rows \subseteq Users /\ Cardinality(rows) <= limit
    /\ steady \subseteq Listed /\ Tied \subseteq tied /\ tied \subseteq Users

Answered == pc \in {"answered", "done"}

\* A page and its pagination belong together, if nothing was written between the
\* two statements: the page has as many rows as the count leaves for the page it
\* says it is (pages below 1 are served as page 1, and say otherwise; a page
\* beyond LargestSafePage may be served with the rows of another).
PageMatchesTotal ==
    Answered /\ ~moved /\ page \in 1..LargestSafePage =>
        LET before == (answer.current - 1) * answer.perPage
            found == Cardinality(rows)
        IN /\ answer.count <= before => found = 0
           /\ answer.count > before + answer.perPage => found = answer.perPage
           /\ answer.count \in before + 1 .. before + answer.perPage =>
                 found = answer.count - before

FromTheStart == query.page <= 1

\* A walk from the first to the last page misses, of the accounts listed all the
\* time and with a key of their own, at most one for each account that left its
\* place meanwhile: was deleted, no longer matched, or was updated in a walk by
\* updated_at.  New accounts, wherever they appear, make no account be missed.
NothingMissed ==
    pc = "done" /\ FromTheStart => Cardinality((steady \ seen) \ tied) <= left

\* A walk that starts at a page >= 1 shows an account with a key of its own again at
\* most once for each account that came back or came in before the end of the
\* order: in a walk by created_at ascending that takes an insert that is slower than
\* a later one, a clock that steps back, or a change of what the search matches.
NothingRepeated == query.page >= 1 => repeats <= came

\* Once writers pause, every walk ends: each page asked for is nearer to the last.
WalksEnd == pc = "rows" ~> pc \in {"done", "failed"}
=============================================================================
