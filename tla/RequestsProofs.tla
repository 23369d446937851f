--------------------------- MODULE RequestsProofs ---------------------------
(***************************************************************************)
(* Proofs about requests, their limiters and their transactions, for any   *)
(* number of requests, visitors and seconds.                               *)
(***************************************************************************)
EXTENDS Requests, FiniteSetTheorems, TLAPS

\* A request that has got a limiter, or is about to make one, found the map empty
\* or came when none of its visitor was limited; and limiters are made by such.
Limited ==
    /\ \A r \in Reqs : At(r, "add") => r \in first
    /\ \A r \in Reqs : ~At(r, "idle") /\ r \notin first => visitors[from[r]] # None
    /\ \A r \in Reqs : limiter[r] # None => /\ visitors[from[r]] # None
                                            /\ limiter[r] \in first
                                            /\ from[limiter[r]] = from[r]
    /\ \A v \in Visitors : visitors[v] # None => visitors[v] \in first /\ from[visitors[v]] = v
    /\ \A l \in Limiters : taken[l] # {} => l \in first

\* Where the transaction stands at each place, and what is kept of its work.
Before == {"idle", "match", "rate", "look up", "add", "allow", "handle"}

Stands(r) ==
    /\ pc[r] \in Before => tx[r] = "none"
    /\ pc[r] \in {"work", "commit", "rollback"} => tx[r] = "open"
    /\ pc[r] \in {"panicking", "outside", "done"} => tx[r] # "open"
    /\ pc[r] = "commit" => outcome[r] = "ok"
    /\ r \in durable => pc[r] = "done" /\ outcome[r] = "ok" /\ answers[r] = <<200>>

Transacted == \A r \in Reqs : Stands(r)

RequestsInv == TypeOK /\ Limited /\ Transacted

-----------------------------------------------------------------------------
(* Types, part by part *)

Codes == {200, 400, 404, 429, 500}

WorldOK ==
    /\ stage \in {"redis", "queue", "routes", "serving", "dead"} /\ now \in 0..MaxTime
    /\ from \in [Reqs -> Visitors]

LimitsOK ==
    /\ visitors \in [Visitors -> Limiters \cup {None}]
    /\ taken \in [Limiters -> SUBSET (0..MaxTime)]
    /\ limiter \in [Reqs -> Limiters \cup {None}]
    /\ \A r \in Reqs : At(r, "allow") => limiter[r] # None
    /\ first \subseteq Reqs

WorkOK ==
    /\ tx \in [Reqs -> {"none", "open", "closed"}]
    /\ outcome \in [Reqs -> Outcomes \cup {None}]
    /\ durable \subseteq Reqs
    /\ \A r \in Reqs : pc[r] \in {"work", "commit", "rollback"} => tx[r] = "open"

AnswersOK ==
    /\ answers \in [Reqs -> Seq(Codes)]
    /\ \A r \in Reqs : IF At(r, "done") THEN Len(answers[r]) = 1 ELSE answers[r] = <<>>

PlacesOK == pc \in [Reqs -> Places]

\* The type invariant in the parts that are disturbed by different steps.
LEMMA TypeParts == TypeOK <=> WorldOK /\ PlacesOK /\ LimitsOK /\ WorkOK /\ AnswersOK
  BY DEF TypeOK, WorldOK, PlacesOK, LimitsOK, WorkOK, AnswersOK, Codes

\* A step is main's, the clock's, or one of a request, and then moves that one alone.
LEMMA Moves ==
    ASSUME PlacesOK, NEW r \in Reqs, Arrive(r) \/ Handle(r)
    PROVE  \E place \in Places \ {"idle"} :
              pc' = [pc EXCEPT ![r] = place] /\ ~At(r, "done")
  BY DEF PlacesOK, Places, Arrive, Handle, Match, GetVisitor, AddVisitor, Allow, TxBegin,
     TxFunc, Rollback, Commit, ChiRecoverer, Recoverer, RateLimit, Finish, Goto, At

\* No step changes the sender of a request, nor the type of the shared state.
LEMMA WorldKept == ASSUME WorldOK, [Next]_vars PROVE WorldOK' /\ UNCHANGED from
<1>1. ASSUME NEW r \in Reqs, Arrive(r) \/ Handle(r) PROVE UNCHANGED server
  BY <1>1, Zenon DEF Arrive, Handle, Match, GetVisitor, AddVisitor, Allow, TxBegin, TxFunc,
     Rollback, Commit, ChiRecoverer, Recoverer, RateLimit
<1>2. ASSUME UNCHANGED server PROVE WorldOK' /\ UNCHANGED from
  BY <1>2 DEF WorldOK, server
<1>3. CASE Tick
  BY <1>3, RequestsAssumption DEF WorldOK, Tick
<1>4. CASE Start \/ StartFails
  BY <1>4 DEF WorldOK, Start, StartFails, Stages
<1> QED
  BY <1>1, <1>2, <1>3, <1>4 DEF Next, vars

\* A request moves from one place of the handler chain to the next.
LEMMA PlacesKept == ASSUME PlacesOK, [Next]_vars PROVE PlacesOK'
<1>1. ASSUME NEW r \in Reqs, Arrive(r) \/ Handle(r) PROVE PlacesOK'
  BY <1>1, Moves DEF PlacesOK
<1>2. CASE UNCHANGED pc
  BY <1>2 DEF PlacesOK
<1> QED
  BY <1>1, <1>2 DEF Next, vars, Start, StartFails, Tick

\* A request has an answer exactly when it is done.
LEMMA AnswersKept ==
    ASSUME PlacesOK, AnswersOK, [Next]_vars PROVE AnswersOK'
<1>1. CASE UNCHANGED <<pc, answers>>
  BY <1>1 DEF AnswersOK, At
<1>2. ASSUME NEW r \in Reqs, NEW code \in Codes, Finish(r, code), ~At(r, "done") PROVE AnswersOK'
  <2>1. answers[r] = <<>> /\ answers' = [answers EXCEPT ![r] = Append(answers[r], code)]
        /\ pc' = [pc EXCEPT ![r] = "done"]
    BY <1>2 DEF AnswersOK, Finish, Respond, Goto
  <2>2. Append(answers[r], code) \in Seq(Codes) /\ Len(Append(answers[r], code)) = 1
    BY <2>1
  <2> QED
    BY <2>1, <2>2 DEF AnswersOK, PlacesOK, At
<1>3. ASSUME NEW r \in Reqs, NEW place, Goto(r, place), place # "done", ~At(r, "done"),
             UNCHANGED answers
      PROVE AnswersOK'
  BY <1>3 DEF AnswersOK, PlacesOK, Goto, At
<1>4. ASSUME NEW r \in Reqs, Arrive(r) \/ Handle(r) PROVE AnswersOK'
  <2>1. ~At(r, "done")
    BY <1>4, Moves
  <2>2. \/ \E code \in Codes : Finish(r, code)
        \/ \E place : Goto(r, place) /\ place # "done" /\ UNCHANGED answers
    <3>1. CASE Arrive(r) \/ GetVisitor(r) \/ AddVisitor(r) \/ TxFunc(r)
      <4>1. \E place \in {"match", "add", "allow", "commit", "rollback"} : Goto(r, place)
        BY <3>1 DEF Arrive, GetVisitor, AddVisitor, TxFunc
      <4>2. UNCHANGED answers
        BY <3>1 DEF Arrive, GetVisitor, AddVisitor, TxFunc
      <4> QED  BY <4>1, <4>2
    <3>2. CASE Match(r) \/ RateLimit(r)
      <4>1. CASE Match(r)  BY <4>1 DEF Match, Codes
      <4>2. CASE RateLimit(r)
        <5>1. \A place : pc' = [pc EXCEPT ![r] = place] <=> Goto(r, place)
          BY DEF Goto
        <5> QED  BY <4>2, <5>1 DEF RateLimit, Codes
      <4> QED  BY <3>2, <4>1, <4>2
    <3>3. CASE Allow(r)  BY <3>3 DEF Allow, Codes
    <3>4. CASE TxBegin(r)  BY <3>4 DEF TxBegin, Codes
    <3>5. CASE Rollback(r)  BY <3>5 DEF Rollback, Codes
    <3>6. CASE Commit(r) \/ ChiRecoverer(r) \/ Recoverer(r)
      <4>1. Finish(r, 200) \/ Finish(r, 500)
        BY <3>6 DEF Commit, ChiRecoverer, Recoverer
      <4> QED  BY <4>1 DEF Codes
    <3> QED
      BY <1>4, <3>1, <3>2, <3>3, <3>4, <3>5, <3>6, Zenon DEF Handle
  <2> QED
    BY <1>2, <1>3, <2>1, <2>2
<1> QED
  BY <1>1, <1>4 DEF Next, vars, Start, StartFails, Tick

-----------------------------------------------------------------------------
(* Limiters *)

\* All but four kinds of steps leave the limits, and the places where they are
\* used, alone.
LEMMA LimitSteps ==
    ASSUME [Next]_vars
    PROVE  \/ UNCHANGED <<limits, pc, first>>
           \/ \E r \in Reqs : Arrive(r) \/ GetVisitor(r) \/ AddVisitor(r) \/ Allow(r)
           \/ \E r \in Reqs, place \in Places \ {"idle", "add", "allow"} :
                 ~At(r, "idle") /\ Goto(r, place) /\ UNCHANGED <<limits, first>>
<1>1. CASE UNCHANGED vars \/ Start \/ StartFails \/ Tick
  BY <1>1, Zenon DEF vars, Start, StartFails, Tick
<1>2. ASSUME NEW r \in Reqs,
             Match(r) \/ RateLimit(r) \/ TxBegin(r) \/ TxFunc(r) \/ Rollback(r) \/ Commit(r)
             \/ ChiRecoverer(r) \/ Recoverer(r)
      PROVE  \E place \in Places \ {"idle", "add", "allow"} :
                ~At(r, "idle") /\ Goto(r, place) /\ UNCHANGED <<limits, first>>
  BY <1>2 DEF At, Places, Match, TxBegin, TxFunc, Rollback, Commit, ChiRecoverer, Recoverer, RateLimit, Finish, Goto
<1> QED
  BY <1>1, <1>2, Zenon DEF Next, Handle

\* What requests got through is paid from the burst of a limiter.
LEMMA LimitsKept ==
    ASSUME WorldOK, PlacesOK, LimitsOK, Limited, [Next]_vars
    PROVE  LimitsOK' /\ Limited'
<1> USE DEF WorldOK, PlacesOK, LimitsOK, Limited, Limiters, At
<1>0. UNCHANGED from /\ None \notin Reqs
  BY WorldKept, RequestsAssumption
<1>1. CASE UNCHANGED <<limits, pc, first>>
  BY <1>0, <1>1 DEF limits
<1>2. ASSUME NEW r \in Reqs, Arrive(r) PROVE LimitsOK' /\ Limited'
  <2>1. UNCHANGED limits /\ pc' = [pc EXCEPT ![r] = "match"] /\ pc[r] = "idle"
    BY <1>2 DEF Arrive, Goto
  <2>2. first \subseteq first' /\ first' \subseteq first \cup {r}
    BY <1>2 DEF Arrive
  <2>3. r \notin first' => visitors[from[r]] # None
    BY <1>2 DEF Arrive
  <2> QED  BY <1>0, <2>1, <2>2, <2>3 DEF limits
<1>3. ASSUME NEW r \in Reqs, GetVisitor(r) PROVE LimitsOK' /\ Limited'
  <2>1. /\ UNCHANGED <<visitors, taken, first>>
        /\ limiter' = [limiter EXCEPT ![r] = visitors[from[r]]]
        /\ pc' = [pc EXCEPT ![r] = IF visitors[from[r]] = None THEN "add" ELSE "allow"]
        /\ pc[r] = "look up"
    BY <1>3 DEF GetVisitor, Goto
  <2>2. from[r] \in Visitors /\ visitors[from[r]] \in Reqs \cup {None}
    OBVIOUS
  <2>3. LimitsOK'
    BY <2>1, <2>2
  <2>4. \A q \in Reqs : limiter'[q] # None => /\ visitors[from[q]] # None
                                              /\ limiter'[q] \in first
                                              /\ from[limiter'[q]] = from[q]
    BY <2>1, <2>2
  <2>5. \A q \in Reqs : pc'[q] = "add" => q \in first
    BY <2>1, <2>2
  <2>6. \A q \in Reqs : pc'[q] # "idle" /\ q \notin first => visitors[from[q]] # None
    BY <2>1
  <2>7. /\ \A v \in Visitors : visitors[v] # None => visitors[v] \in first /\ from[visitors[v]] = v
        /\ \A l \in Limiters : taken[l] # {} => l \in first
    OBVIOUS
  <2>8. Limited'
    BY ONLY <1>0, <2>1, <2>4, <2>5, <2>6, <2>7 DEF Limited, At
  <2> QED  BY <2>3, <2>8
<1>4. ASSUME NEW r \in Reqs, AddVisitor(r) PROVE LimitsOK' /\ Limited'
  <2>1. /\ UNCHANGED <<taken, first>>
        /\ visitors' = [visitors EXCEPT ![from[r]] = r]
        /\ limiter' = [limiter EXCEPT ![r] = r]
        /\ pc' = [pc EXCEPT ![r] = "allow"] /\ pc[r] = "add"
    BY <1>4 DEF AddVisitor, Goto
  <2>2. from[r] \in Visitors /\ r \in first /\ r # None
    BY <1>0, <2>1
  <2>3. LimitsOK'
    BY <2>1, <2>2
  <2>4. \A v \in Visitors : visitors'[v] = visitors[v] \/ (v = from[r] /\ visitors'[v] = r)
    BY <2>1, <2>2
  <2>5. \A q \in Reqs : limiter'[q] = limiter[q] \/ (q = r /\ limiter'[q] = r)
    BY <2>1
  <2>6. visitors'[from[r]] = r
    BY <2>1, <2>2
  <2>7. \A q \in Reqs : from[q] \in Visitors
    OBVIOUS
  <2> QED  BY <1>0, <2>1, <2>2, <2>3, <2>4, <2>5, <2>6, <2>7
<1>5. ASSUME NEW r \in Reqs, Allow(r) PROVE LimitsOK' /\ Limited'
  <2>1. UNCHANGED <<visitors, limiter, first>> /\ pc[r] = "allow"
    BY <1>5 DEF Allow
  <2>2. pc' = [pc EXCEPT ![r] = "done"] \/ pc' = [pc EXCEPT ![r] = "handle"]
    BY <1>5 DEF Allow, Goto, Finish
  <2>3. limiter[r] \in Reqs /\ limiter[r] \in first
    BY <2>1
  <2>4. taken' = taken \/ taken' = [taken EXCEPT ![limiter[r]] = @ \cup {now}]
    BY <1>5 DEF Allow
  <2> QED  BY <1>0, <2>1, <2>2, <2>3, <2>4
<1>6. ASSUME NEW r \in Reqs, NEW place \in Places \ {"idle", "add", "allow"},
             ~At(r, "idle"), Goto(r, place), UNCHANGED <<limits, first>>
      PROVE  LimitsOK' /\ Limited'
  BY <1>0, <1>6 DEF limits, Goto
<1> QED
  BY <1>1, <1>2, <1>3, <1>4, <1>5, <1>6, LimitSteps, Zenon

-----------------------------------------------------------------------------
(* Transactions *)

WorkTypes ==
    /\ tx \in [Reqs -> {"none", "open", "closed"}]
    /\ outcome \in [Reqs -> Outcomes \cup {None}]
    /\ durable \subseteq Reqs

\* Transactions stay of their type.
LEMMA WorkTypesKept == ASSUME WorkTypes, [Next]_vars PROVE WorkTypes'
<1>1. CASE UNCHANGED work
  BY <1>1 DEF WorkTypes, work
<1>2. ASSUME NEW r \in Reqs, TxBegin(r) \/ TxFunc(r) \/ Rollback(r) \/ Commit(r)
      PROVE  WorkTypes'
  BY <1>2 DEF WorkTypes, Outcomes, TxBegin, TxFunc, Rollback, Commit
<1> QED
  BY <1>1, <1>2 DEF Next, vars, Start, StartFails, Tick, Arrive, Handle, Match, GetVisitor,
     AddVisitor, Allow, RateLimit, ChiRecoverer, Recoverer

\* A request's step is about its own transaction only.
Same(q) == /\ pc'[q] = pc[q] /\ tx'[q] = tx[q] /\ outcome'[q] = outcome[q]
           /\ answers'[q] = answers[q]
           /\ (q \in durable' <=> q \in durable)

\* A step of another request, or of the server, leaves this one's work alone.
LEMMA OwnWork ==
    ASSUME PlacesOK, WorkTypes, AnswersOK, [Next]_vars, NEW q \in Reqs, ~Arrive(q), ~Handle(q)
    PROVE  Same(q)
<1>1. CASE UNCHANGED <<work, pc, answers>>
  BY <1>1 DEF Same, work
<1>2. ASSUME NEW r \in Reqs, r # q, Arrive(r) \/ Handle(r) PROVE Same(q)
  <2>1. pc'[q] = pc[q]
    BY <1>2, Moves DEF PlacesOK
  <2>2. answers'[q] = answers[q]
    BY <1>2 DEF AnswersOK, Arrive, Handle, Match, GetVisitor, AddVisitor, Allow, TxBegin,
       TxFunc, Rollback, Commit, ChiRecoverer, Recoverer, RateLimit, Finish, Respond
  <2>3. /\ tx'[q] = tx[q] /\ outcome'[q] = outcome[q]
        /\ (q \in durable' <=> q \in durable)
    BY <1>2 DEF WorkTypes, work, Arrive, Handle, Match, GetVisitor, AddVisitor, Allow, TxBegin,
       TxFunc, Rollback, Commit, ChiRecoverer, Recoverer, RateLimit
  <2> QED  BY <2>1, <2>2, <2>3 DEF Same
<1> QED
  BY <1>1, <1>2, Zenon DEF Next, vars, Start, StartFails, Tick

\* The answer of a request that finishes is the one it is given.
LEMMA Answered ==
    ASSUME PlacesOK, AnswersOK, NEW q \in Reqs, ~At(q, "done"), NEW code \in Codes, Finish(q, code)
    PROVE  pc'[q] = "done" /\ (answers'[q] = <<200>> <=> code = 200)
<1>1. pc'[q] = "done"
  BY DEF Finish, Goto, PlacesOK
<1>2. answers[q] = <<>> /\ answers'[q] = Append(answers[q], code)
  BY DEF AnswersOK, Finish, Respond
<1>3. answers'[q] = <<code>>
  BY <1>2
<1>4. <<code>>[1] = code /\ <<200>>[1] = 200
  OBVIOUS
<1>5. <<code>> = <<200>> => code = 200
  BY <1>4
<1> QED
  BY <1>1, <1>3, <1>5

\* A transaction is opened, ended and answered by its own request.
LEMMA TransactedKept ==
    ASSUME PlacesOK, WorkTypes, AnswersOK, Transacted, [Next]_vars PROVE Transacted'
<1>1. ASSUME NEW q \in Reqs PROVE Stands(q)'
  <2>0. Stands(q) /\ pc[q] \in Places
    BY DEF Transacted, PlacesOK
  <2>a. ASSUME NEW code \in Codes, Finish(q, code), pc[q] # "done"
        PROVE  pc'[q] = "done" /\ (answers'[q] = <<200>> <=> code = 200)
    BY <2>a, Answered DEF At
  <2> USE DEF PlacesOK, WorkTypes, At, Before, Goto
  <2>1. CASE Same(q)
    BY <2>0, <2>1 DEF Stands, Same
  <2>2. CASE Arrive(q) \/ GetVisitor(q) \/ AddVisitor(q)
    <3>1. pc[q] \in Before /\ pc'[q] \in Before /\ UNCHANGED <<work, answers>>
      BY <2>2 DEF Arrive, GetVisitor, AddVisitor
    <3> QED  BY <2>0, <3>1 DEF Stands, work
  <2>3. CASE Match(q) \/ RateLimit(q) \/ Allow(q)
    <3>1. /\ pc[q] \in Before /\ UNCHANGED work
          /\ \/ pc'[q] \in Before \cup {"outside"} /\ UNCHANGED answers
             \/ Finish(q, 404) \/ Finish(q, 429)
      BY <2>3 DEF Match, RateLimit, Allow
    <3>2. \/ pc'[q] \in Before \cup {"outside"} /\ UNCHANGED answers
          \/ pc'[q] = "done" /\ answers'[q] # <<200>>
      <4>0. pc[q] # "done"  BY <3>1
      <4>1. CASE Finish(q, 404)
        <5>1. pc'[q] = "done" /\ answers'[q] # <<200>>  BY <2>a, <4>0, <4>1 DEF Codes
        <5> QED  BY <5>1
      <4>2. CASE Finish(q, 429)
        <5>1. pc'[q] = "done" /\ answers'[q] # <<200>>  BY <2>a, <4>0, <4>2 DEF Codes
        <5> QED  BY <5>1
      <4> QED  BY <3>1, <4>1, <4>2
    <3> QED  BY <2>0, <3>1, <3>2 DEF Stands, work
  <2>4. CASE TxBegin(q)
    <3>1. CASE Finish(q, 400)
      <4>1. pc'[q] = "done" /\ answers'[q] # <<200>>
        BY <2>4, <2>a, <3>1 DEF TxBegin, Codes
      <4>2. pc[q] = "handle" /\ UNCHANGED <<outcome, durable>>
            /\ (tx'[q] = tx[q] \/ (tx'[q] = "open" /\ pc'[q] = "work"))
        BY <2>4 DEF TxBegin
      <4> QED  BY <2>0, <4>1, <4>2 DEF Stands
    <3>2. CASE ~Finish(q, 400)
      BY <2>0, <2>4, <3>2 DEF Stands, TxBegin
    <3> QED  BY <3>1, <3>2
  <2>5. CASE TxFunc(q)
    BY <2>0, <2>5 DEF Stands, TxFunc
  <2>6. CASE Rollback(q)
    <3>1. /\ pc[q] = "rollback" /\ tx'[q] = "closed" /\ UNCHANGED <<outcome, durable>>
          /\ (pc'[q] = "panicking" /\ UNCHANGED answers) \/ Finish(q, 400)
      BY <2>6 DEF Rollback
    <3>2. (pc'[q] = "panicking" /\ UNCHANGED answers) \/ (pc'[q] = "done" /\ answers'[q] # <<200>>)
      BY <2>a, <3>1 DEF Codes
    <3> QED  BY <2>0, <3>1, <3>2 DEF Stands
  <2>7. CASE Commit(q)
    <3>1. /\ pc[q] = "commit" /\ tx'[q] = "closed" /\ UNCHANGED outcome /\ Finish(q, 200)
          /\ durable \subseteq durable'
      BY <2>7 DEF Commit
    <3>2. pc'[q] = "done" /\ answers'[q] = <<200>>
      BY <2>a, <3>1 DEF Codes
    <3> QED  BY <2>0, <3>1, <3>2 DEF Stands
  <2>8. CASE ChiRecoverer(q) \/ Recoverer(q)
    <3>1. /\ pc[q] \in {"panicking", "outside"} /\ UNCHANGED work
          /\ Finish(q, 500)
      BY <2>8 DEF ChiRecoverer, Recoverer
    <3>2. pc[q] # "done" /\ 500 \in Codes /\ 500 # 200
      BY <3>1 DEF Codes
    <3>3. pc'[q] = "done" /\ answers'[q] # <<200>>
      BY <2>a, <3>1, <3>2
    <3> QED  BY <2>0, <3>1, <3>3 DEF Stands, work
  <2> QED
    BY <2>1, <2>2, <2>3, <2>4, <2>5, <2>6, <2>7, <2>8, OwnWork, Zenon DEF Handle
<1> QED
  BY <1>1 DEF Transacted
-----------------------------------------------------------------------------
(* Theorems *)

\* The invariant holds before the first request.
LEMMA InitInv == ASSUME Init PROVE RequestsInv
<1>1. TypeOK
  BY RequestsAssumption DEF Init, TypeOK, Places, At
<1>2. Limited
  BY DEF Init, Limited, At
<1>3. Transacted
  <2>1. \A r \in Reqs : answers[r] # <<200>>
    BY DEF Init
  <2> QED  BY <2>1 DEF Init, Transacted, Stands, Before
<1> QED
  BY <1>1, <1>2, <1>3 DEF RequestsInv

\* Every step preserves the invariant.
LEMMA StepInv == ASSUME RequestsInv, [Next]_vars PROVE RequestsInv'
<1>1. WorldOK /\ PlacesOK /\ LimitsOK /\ WorkOK /\ AnswersOK /\ Limited /\ Transacted
  BY TypeParts DEF RequestsInv
<1>2. WorkTypes
  BY <1>1 DEF WorkOK, WorkTypes
<1>3. WorldOK' /\ PlacesOK' /\ AnswersOK' /\ WorkTypes'
  BY <1>1, <1>2, WorldKept, PlacesKept, AnswersKept, WorkTypesKept
<1>4. LimitsOK' /\ Limited'
  BY <1>1, LimitsKept
<1>5. Transacted'
  BY <1>1, <1>2, TransactedKept
<1>6. WorkOK'
  BY <1>3, <1>5 DEF WorkOK, WorkTypes, Transacted, Stands
<1>7. TypeOK' <=> WorldOK' /\ PlacesOK' /\ LimitsOK' /\ WorkOK' /\ AnswersOK'
  BY DEF TypeOK, WorldOK, PlacesOK, LimitsOK, WorkOK, AnswersOK, Codes
<1> QED
  BY <1>3, <1>4, <1>5, <1>6, <1>7 DEF RequestsInv

\* The inductive invariant holds in every reachable state.
THEOREM RequestsInvariance == Spec => []RequestsInv
  BY InitInv, StepInv, PTL DEF Spec

\* Every state is of its type: a request that asks its limiter has one, and no
\* request is answered twice.
THEOREM RequestsTypes == Spec => []TypeOK
<1>1. RequestsInv => TypeOK
  BY DEF RequestsInv
<1> QED
  BY <1>1, RequestsInvariance, PTL

\* A burst of a visitor passes the limiters of the requests that came first, one
\* each, and no more (limit.go:25-69), however lookups and additions interleave.
THEOREM BurstsAreBounded == Spec => []BurstBounded
<1>1. ASSUME RequestsInv PROVE BurstBounded
  <2> SUFFICES ASSUME NEW v \in Visitors, NEW t \in 0..now
               PROVE  Cardinality(Admitted(v, t)) <= Cardinality({r \in first : from[r] = v})
    BY DEF BurstBounded
  <2>1. Admitted(v, t) \subseteq {r \in first : from[r] = v}
    BY <1>1 DEF RequestsInv, Limited, Admitted
  <2>2. IsFiniteSet({r \in first : from[r] = v})
    BY <1>1, RequestsAssumption, FS_Subset DEF RequestsInv, TypeOK
  <2> QED
    BY <2>1, <2>2, FS_Subset
<1> QED
  BY <1>1, RequestsInvariance, PTL

\* What a transaction did is kept only if txFunc returned nil, and never after an
\* answer that is an error (model/index.go:47-66).
THEOREM FailedWorkIsUndone == Spec => []FailedWorkIsGone
<1>1. ASSUME RequestsInv PROVE FailedWorkIsGone
  BY <1>1 DEF RequestsInv, Transacted, Stands, FailedWorkIsGone, At
<1> QED
  BY <1>1, RequestsInvariance, PTL

\* No request ends with its transaction open, also one whose handler panicked.
THEOREM TransactionsEnd == Spec => []NoTransactionLeft
<1>1. ASSUME RequestsInv PROVE NoTransactionLeft
  BY <1>1 DEF RequestsInv, Transacted, Stands, NoTransactionLeft, At
<1> QED
  BY <1>1, RequestsInvariance, PTL
=============================================================================
