------------------------------ MODULE Requests ------------------------------
(***************************************************************************)
(* A request's way through the server: start-up, the middlewares (Recoverer *)
(* and NotfoundMiddleware of this repository, ulule's rate limiter and      *)
(* chi's Recoverer inside /v1), the limiter per visitor of limit.go, and a  *)
(* handler that does its work in a transaction of model/index.go.           *)
(*                                                                          *)
(* The visitor limiter and TxEnd have no caller at this commit: they stand  *)
(* here where a route that uses them would put them, after the other        *)
(* middlewares and in the handler.                                          *)
(***************************************************************************)
EXTENDS Naturals, FiniteSets, Sequences

CONSTANTS
    Reqs,       \* requests
    Visitors,   \* remote addresses, an IP and a port each
    Origins,    \* the ways requests may come from visitors
    MaxTime     \* bound: seconds

None == "none"

ASSUME RequestsAssumption ==
    /\ IsFiniteSet(Reqs) /\ None \notin Reqs
    /\ Origins \subseteq [Reqs -> Visitors]
    /\ MaxTime \in Nat

\* A limiter is named for the request that made it.
Limiters == Reqs
Outcomes == {"ok", "error", "panic"}

VARIABLES
    stage,     \* how far main is
    now,       \* seconds since the start
    from,      \* the visitor each request comes from
    visitors,  \* the map from a visitor to its limiter
    taken,     \* the seconds in which a token of each limiter was taken
    pc,        \* where each request is
    limiter,   \* the limiter it has got
    tx,        \* its transaction
    outcome,   \* how the work of its transaction ended
    answers,   \* the status codes written, in order
    durable,   \* requests whose work is in the database
    first      \* history: requests that came before one of their visitor was limited

server == <<stage, now, from>>
limits == <<visitors, taken, limiter>>
work == <<tx, outcome, durable>>
vars == <<server, limits, work, pc, answers, first>>

Init ==
    /\ stage = "redis" /\ now = 0
    /\ from \in Origins
    /\ visitors = [v \in Visitors |-> None]
    /\ taken = [l \in Limiters |-> {}]
    /\ pc = [r \in Reqs |-> "idle"]
    /\ limiter = [r \in Reqs |-> None]
    /\ tx = [r \in Reqs |-> "none"]
    /\ outcome = [r \in Reqs |-> None]
    /\ answers = [r \in Reqs |-> <<>>]
    /\ durable = {} /\ first = {}

At(r, place) == pc[r] = place
Goto(r, place) == pc' = [pc EXCEPT ![r] = place]

\* RespondWithJSON, SendSuccess, SendBadRequest, http.Error: a status code is written.
Respond(r, code) == answers' = [answers EXCEPT ![r] = Append(@, code)]
Finish(r, code) == Goto(r, "done") /\ Respond(r, code)

-----------------------------------------------------------------------------
(* main *)

\* Redis is pinged and the queue dialled; sql.Open makes no connection, so a
\* database that is down is not noticed.
Stages == <<"redis", "queue", "routes", "serving">>

Start ==
    /\ \E i \in 1..3 : stage = Stages[i] /\ stage' = Stages[i + 1]
    /\ UNCHANGED <<now, from, limits, work, pc, answers, first>>

\* panic(err), with nobody to recover it.
StartFails ==
    /\ stage \in {"redis", "queue"}
    /\ stage' = "dead"
    /\ UNCHANGED <<now, from, limits, work, pc, answers, first>>

Tick ==
    /\ stage = "serving" /\ now < MaxTime
    /\ now' = now + 1
    /\ UNCHANGED <<stage, from, limits, work, pc, answers, first>>

-----------------------------------------------------------------------------
(* The middlewares *)

Arrive(r) ==
    /\ stage = "serving" /\ At(r, "idle")
    /\ Goto(r, "match")
    /\ first' = IF \E q \in Reqs : from[q] = from[r] /\ limiter[q] # None
                  THEN first ELSE first \cup {r}
    /\ UNCHANGED <<server, limits, work, answers>>

\* NotfoundMiddleware: the path and method belong to a route, or not.
Match(r) ==
    /\ At(r, "match")
    /\ \/ Goto(r, "rate") /\ UNCHANGED answers
       \/ Finish(r, 404)
    /\ UNCHANGED <<server, limits, work, first>>

\* The rate limiter of /v1: it lets the request pass or answers itself, and panics
\* when its Redis store fails, outside of chi's Recoverer.
RateLimit(r) ==
    /\ At(r, "rate")
    /\ \/ pc' \in {[pc EXCEPT ![r] = place] : place \in {"look up", "outside"}}
          /\ UNCHANGED answers
       \/ Finish(r, 429)
    /\ UNCHANGED <<server, limits, work, first>>

\* getVisitor, up to the unlock
GetVisitor(r) ==
    /\ At(r, "look up")
    /\ limiter' = [limiter EXCEPT ![r] = visitors[from[r]]]
    /\ Goto(r, IF visitors[from[r]] = None THEN "add" ELSE "allow")
    /\ UNCHANGED <<server, visitors, taken, work, answers, first>>

\* Variant: the limiter does not get into the map.
AddVisitorForgotten(r) ==
    /\ At(r, "add")
    /\ limiter' = [limiter EXCEPT ![r] = r]
    /\ Goto(r, "allow")
    /\ UNCHANGED <<server, visitors, taken, work, answers, first>>

AddVisitor(r) ==
    /\ At(r, "add")
    /\ visitors' = [visitors EXCEPT ![from[r]] = r]
    /\ limiter' = [limiter EXCEPT ![r] = r]
    /\ Goto(r, "allow")
    /\ UNCHANGED <<server, taken, work, answers, first>>

\* limit: rate.NewLimiter(1, 1) has a token when the last was taken a second ago.
Allow(r) ==
    LET l == limiter[r]
    IN /\ At(r, "allow")
       /\ IF now \in taken[l]
            THEN Finish(r, 429) /\ UNCHANGED taken
            ELSE /\ taken' = [taken EXCEPT ![l] = @ \cup {now}]
                 /\ Goto(r, "handle") /\ UNCHANGED answers
       /\ UNCHANGED <<server, visitors, limiter, work, first>>

-----------------------------------------------------------------------------
(* The handler *)

TxBegin(r) ==
    /\ At(r, "handle")
    /\ \/ tx' = [tx EXCEPT ![r] = "open"] /\ Goto(r, "work") /\ UNCHANGED answers
       \/ UNCHANGED tx /\ Finish(r, 400)
    /\ UNCHANGED <<server, limits, outcome, durable, first>>

\* Variant: the deferred function commits whatever txFunc returned.
TxFuncUnchecked(r) ==
    /\ At(r, "work")
    /\ \E o \in Outcomes :
          /\ outcome' = [outcome EXCEPT ![r] = o]
          /\ Goto(r, IF o = "panic" THEN "rollback" ELSE "commit")
    /\ UNCHANGED <<server, limits, tx, durable, answers, first>>

\* TxEnd: txFunc() does the work and returns nil or an error, or panics.
TxFunc(r) ==
    /\ At(r, "work")
    /\ \E o \in Outcomes :
          /\ outcome' = [outcome EXCEPT ![r] = o]
          /\ Goto(r, IF o = "ok" THEN "commit" ELSE "rollback")
    /\ UNCHANGED <<server, limits, tx, durable, answers, first>>

\* Variant: a panic passes without a rollback.
RollbackErrorsOnly(r) ==
    /\ At(r, "rollback")
    /\ IF outcome[r] = "panic"
         THEN Goto(r, "panicking") /\ UNCHANGED <<tx, answers>>
         ELSE tx' = [tx EXCEPT ![r] = "closed"] /\ Finish(r, 400)
    /\ UNCHANGED <<server, limits, outcome, durable, first>>

\* The deferred function, after a panic (thrown again) or an error (returned).  An
\* error of Rollback is dropped; the database forgets the work all the same.
Rollback(r) ==
    /\ At(r, "rollback")
    /\ tx' = [tx EXCEPT ![r] = "closed"]
    /\ IF outcome[r] = "panic"
         THEN Goto(r, "panicking") /\ UNCHANGED answers
         ELSE Finish(r, 400)
    /\ UNCHANGED <<server, limits, outcome, durable, first>>

\* The deferred function, after a success.  Commit may fail, before or after the
\* database has done it, and then its error is assigned to err too late: TxEnd has
\* returned nil, and the handler answers with success whatever became of the work.
Commit(r) ==
    /\ At(r, "commit")
    /\ tx' = [tx EXCEPT ![r] = "closed"]
    /\ durable' \in {durable, durable \cup {r}}
    /\ Finish(r, 200)
    /\ UNCHANGED <<server, limits, outcome, first>>

\* Variant: it answers and lets the panic go on.
ChiRecovererRethrows(r) ==
    /\ At(r, "panicking")
    /\ Goto(r, "outside") /\ Respond(r, 500)
    /\ UNCHANGED <<server, limits, work, first>>

\* chi's Recoverer, the innermost, answers with 500 and no body.
ChiRecoverer(r) ==
    /\ At(r, "panicking")
    /\ Finish(r, 500)
    /\ UNCHANGED <<server, limits, work, first>>

\* Variant: no Recoverer; net/http ends the connection without an answer.
RecovererMissing(r) ==
    /\ At(r, "outside")
    /\ Goto(r, "done")
    /\ UNCHANGED <<server, limits, work, answers, first>>

\* RecoverInit.Recoverer, outside of everything, answers with 500 and its JSON.
Recoverer(r) ==
    /\ At(r, "outside")
    /\ Finish(r, 500)
    /\ UNCHANGED <<server, limits, work, first>>

Handle(r) ==
    \/ Match(r) \/ RateLimit(r) \/ GetVisitor(r) \/ AddVisitor(r) \/ Allow(r)
    \/ TxBegin(r) \/ TxFunc(r) \/ Rollback(r) \/ Commit(r)
    \/ ChiRecoverer(r) \/ Recoverer(r)

Next == Start \/ StartFails \/ Tick \/ \E r \in Reqs : Arrive(r) \/ Handle(r)

Spec == Init /\ [][Next]_vars

\* net/http runs a goroutine for each request; clients need not send any.
FairSpec == Spec /\ \A r \in Reqs : WF_vars(Handle(r))
-----------------------------------------------------------------------------
(* Properties *)

Places == {"idle", "match", "rate", "look up", "add", "allow", "handle", "work", "commit",
           "rollback", "panicking", "outside", "done"}

\* The type invariant, with what a place says: a limiter is at hand from "allow"
\* on, a transaction from "work" on, and an answer is written once, at the end.
TypeOK ==
    /\ stage \in {"redis", "queue", "routes", "serving", "dead"} /\ now \in 0..MaxTime
    /\ from \in [Reqs -> Visitors]
    /\ visitors \in [Visitors -> Limiters \cup {None}]
    /\ taken \in [Limiters -> SUBSET (0..MaxTime)]
    /\ pc \in [Reqs -> Places]
    /\ limiter \in [Reqs -> Limiters \cup {None}]
    /\ tx \in [Reqs -> {"none", "open", "closed"}]
    /\ outcome \in [Reqs -> Outcomes \cup {None}]
    /\ answers \in [Reqs -> Seq({200, 400, 404, 429, 500})]
    /\ durable \subseteq Reqs /\ first \subseteq Reqs
    /\ \A r \in Reqs :
          /\ At(r, "allow") => limiter[r] # None
          /\ pc[r] \in {"work", "commit", "rollback"} => tx[r] = "open"
          /\ IF At(r, "done") THEN Len(answers[r]) = 1 ELSE answers[r] = <<>>

\* A limiter lets one request through in a second, so its requests of that
\* second are as many as the limiters.
Admitted(v, t) == {l \in Limiters : from[l] = v /\ t \in taken[l]}

\* In one second a visitor gets no more requests through than it had sent before
\* one of them was limited (one, if those did not overlap): the first ones may
\* each make a limiter of their own, all later ones share the one in the map.
\* The lookup and addVisitor lock the map one after the other.
BurstBounded ==
    \A v \in Visitors, t \in 0..now :
        Cardinality(Admitted(v, t)) <= Cardinality({r \in first : from[r] = v})

\* TxEnd "commits a transaction if no errors, otherwise rollback": the work of a
\* transaction is kept only if txFunc returned nil, and never if the request was
\* answered with an error.
FailedWorkIsGone ==
    \A r \in Reqs :
        /\ r \in durable => outcome[r] = "ok"
        /\ At(r, "done") /\ answers[r] # <<200>> => r \notin durable

\* TxEnd returns the error of Commit, as the comment in its deferred function
\* says, so that a success is answered only for work that is kept.
SuccessMeansKept == \A r \in Reqs : answers[r] = <<200>> => r \in durable

\* A request that is done has left no transaction (and database connection) open,
\* whether its work succeeded, failed or panicked.
NoTransactionLeft == \A r \in Reqs : At(r, "done") => tx[r] # "open"

\* Every request gets an answer, also when its handler panics.
EveryRequestAnswered == \A r \in Reqs : At(r, "match") ~> Len(answers[r]) = 1
=============================================================================
