----------------------------- MODULE RedisLimiter -----------------------------
(***************************************************************************)
(* The limits that are kept as a counter under one Redis key: ContractUC's *)
(* LimitByKey and ResetByKey, its AddCounterRedis, which only counts, and  *)
(* the middlewares limitRedis and LimitForgotPassword.                     *)
(*                                                                         *)
(* All of them read the counter, compare, and write the counter plus one   *)
(* with a time to live; the two commands are separate, so other callers    *)
(* may run in between.  ResetByKey writes 0.  Of failing commands only     *)
(* AddCounterRedis tells its caller.                                       *)
(***************************************************************************)
EXTENDS Naturals, FiniteSets

CONSTANTS
    Callers,       \* goroutines using the same key
    Rules,         \* what may be done with the key: a function and its limit
    TTL,           \* the 24 hours, or the middleware's Duration, in ticks
    RedisCanFail,  \* may GET or SET fail?
    MaxTime,       \* bound: ticks of the clock
    MaxAdmitted    \* bound: no call begins once so many were admitted

Forms == {"LimitByKey", "limitRedis", "LimitForgotPassword", "AddCounterRedis"}

ASSUME CallersAssumption == IsFiniteSet(Callers)
ASSUME RulesAssumption == Rules \subseteq [form : Forms, limit : Nat]
ASSUME TTLAssumption == TTL \in Nat \ {0}
ASSUME SwitchAssumption == RedisCanFail \in BOOLEAN
ASSUME LimiterBoundsAssumption == MaxTime \in Nat /\ MaxAdmitted \in Nat

VARIABLES
    rule,        \* the function that uses the key, and its limit
    stored,      \* the counter under the key; an absent key counts 0
    expires,     \* when the key goes away, 0 when it has no time to live
    now,         \* the time
    pc,          \* "idle", or "set" between the two commands of LimitByKey
    count,       \* the caller's local: the counter it read, plus one
    before,      \* history: calls admitted before the clock reached each time
    total,       \* history: calls admitted
    sinceReset,  \* history: calls admitted since the latest ResetByKey
    disturbed,   \* history: has the key expired or been reset, a command failed?
    crowded      \* history: has a call or a reset begun between the two commands
                 \* of another call, or a command failed?

vars == <<rule, stored, expires, now, pc, count, before, total, sinceReset,
          disturbed, crowded>>

Init ==
    /\ rule \in Rules
    /\ stored = 0 /\ expires = 0 /\ now = 0
    /\ pc = [c \in Callers |-> "idle"]
    /\ count = [c \in Callers |-> 0]
    /\ before = [t \in 0..MaxTime |-> 0]
    /\ total = 0 /\ sinceReset = 0 /\ disturbed = FALSE /\ crowded = FALSE

-----------------------------------------------------------------------------
(* A call: GET and compare, then SET *)

\* GetFromRedis: any error, a failing command as well as a missing key, leaves
\* the count at 0.
Reads == {stored} \cup (IF RedisCanFail THEN {0} ELSE {})

\* LimitByKey compares the counter plus one, ...
KeyAdmits(n) == n + 1 <= rule.limit

\* ... limitRedis the counter itself, and only one it has found, ...
RouteAdmits(n) == n = 0 \/ n < rule.limit

\* ... LimitForgotPassword alike, ...
ForgotAdmits(n) == n = 0 \/ ~(n >= rule.limit)

\* ... and AddCounterRedis nothing.
Admits(n) == \/ rule.form = "LimitByKey" /\ KeyAdmits(n)
             \/ rule.form = "limitRedis" /\ RouteAdmits(n)
             \/ rule.form = "LimitForgotPassword" /\ ForgotAdmits(n)
             \/ rule.form = "AddCounterRedis"

\* The middlewares answer 500 before they look at the counter when their Duration
\* does not parse or, LimitForgotPassword, when the body is not the JSON it expects.
MayGiveUp == rule.form \in {"limitRedis", "LimitForgotPassword"}

\* Is another call between its two commands?
Overlap(c) == \E d \in Callers \ {c} : pc[d] = "set"

\* Variant: the stored counter is compared before one is added to it.
GetOffByOne(c) ==
    /\ pc[c] = "idle" /\ total < MaxAdmitted
    /\ \E n \in Reads :
          /\ n <= rule.limit
          /\ count' = [count EXCEPT ![c] = n + 1]
          /\ disturbed' = (disturbed \/ n # stored)
          /\ crowded' = (crowded \/ n # stored \/ Overlap(c))
    /\ pc' = [pc EXCEPT ![c] = "set"]
    /\ UNCHANGED <<rule, stored, expires, now, before, total, sinceReset>>

\* Variant: the counter is written back before it is compared, at refused calls
\* too, and every write extends the time to live.
RefuseWrites(c) ==
    /\ pc[c] = "idle" /\ total < MaxAdmitted
    /\ \E n \in Reads : ~Admits(n)
    /\ expires' = now + TTL
    /\ UNCHANGED <<rule, stored, now, pc, count, before, total, sinceReset,
                   disturbed, crowded>>

\* The GET and the comparison: the call is refused with the error message or 429
\* (or with 500 before either), and nothing is written ...
Refuse(c) ==
    /\ pc[c] = "idle" /\ total < MaxAdmitted
    /\ MayGiveUp \/ \E n \in Reads : ~Admits(n)
    /\ UNCHANGED vars

\* ... and otherwise goes on with the counter it has read, plus one.
Get(c) ==
    /\ pc[c] = "idle" /\ total < MaxAdmitted
    /\ \E n \in Reads :
          /\ Admits(n)
          /\ count' = [count EXCEPT ![c] = n + 1]
          /\ disturbed' = (disturbed \/ n # stored)
          /\ crowded' = (crowded \/ n # stored \/ Overlap(c))
    /\ pc' = [pc EXCEPT ![c] = "set"]
    /\ UNCHANGED <<rule, stored, expires, now, before, total, sinceReset>>

\* The call is over and was let through: its request goes on.
Admitted(c) ==
    /\ pc' = [pc EXCEPT ![c] = "idle"]
    /\ count' = [count EXCEPT ![c] = 0]
    /\ total' = total + 1
    /\ sinceReset' = sinceReset + 1
    /\ UNCHANGED before

\* Variant: without a time to live of its own, the key keeps the one it has.
SetKeepsTTL(c) ==
    /\ pc[c] = "set"
    /\ stored' = count[c] /\ expires' = IF expires = 0 THEN now + TTL ELSE expires
    /\ Admitted(c)
    /\ UNCHANGED <<rule, now, disturbed, crowded>>

\* Variant: one is added when writing, as the middlewares do, and was added
\* when reading.
SetAddsAgain(c) ==
    /\ pc[c] = "set"
    /\ stored' = count[c] + 1 /\ expires' = now + TTL
    /\ Admitted(c)
    /\ UNCHANGED <<rule, now, disturbed, crowded>>

Set(c) ==
    /\ pc[c] = "set"
    /\ stored' = count[c] /\ expires' = now + TTL
    /\ Admitted(c)
    /\ UNCHANGED <<rule, now, disturbed, crowded>>

\* A failing SET: AddCounterRedis returns the error, to the others it is lost
\* and the call is let through.
SetFails(c) ==
    /\ pc[c] = "set" /\ RedisCanFail
    /\ IF rule.form = "AddCounterRedis"
         THEN /\ pc' = [pc EXCEPT ![c] = "idle"]
              /\ count' = [count EXCEPT ![c] = 0]
              /\ UNCHANGED <<before, total, sinceReset>>
         ELSE Admitted(c)
    /\ disturbed' = TRUE /\ crowded' = TRUE
    /\ UNCHANGED <<rule, stored, expires, now>>

-----------------------------------------------------------------------------
(* ResetByKey *)

\* Variant: the counter starts at 1, as it does in AddCounterRedis.
ResetToOne(c) ==
    /\ rule.form = "LimitByKey" /\ pc[c] = "idle"
    /\ stored' = 1 /\ expires' = now + TTL
    /\ crowded' = (crowded \/ Overlap(c))
    /\ sinceReset' = 0 /\ disturbed' = TRUE
    /\ UNCHANGED <<rule, now, pc, count, before, total>>

\* One SET of 0, its error dropped.  (The value is LimitByKey's, a record: the
\* other functions could not read it.)
Reset(c) ==
    /\ rule.form = "LimitByKey" /\ pc[c] = "idle"
    /\ \/ /\ stored' = 0 /\ expires' = now + TTL
          /\ crowded' = (crowded \/ Overlap(c))
       \/ RedisCanFail /\ crowded' = TRUE /\ UNCHANGED <<stored, expires>>
    /\ sinceReset' = 0 /\ disturbed' = TRUE
    /\ UNCHANGED <<rule, now, pc, count, before, total>>

-----------------------------------------------------------------------------
(* Time: Redis drops the key when its time to live is over. *)

Tick ==
    /\ now < MaxTime
    /\ now' = now + 1
    /\ before' = [before EXCEPT ![now + 1] = total]
    /\ IF expires # 0 /\ expires <= now + 1
         THEN stored' = 0 /\ expires' = 0 /\ disturbed' = TRUE
         ELSE UNCHANGED <<stored, expires, disturbed>>
    /\ UNCHANGED <<rule, pc, count, total, sinceReset, crowded>>

Next == Tick \/ \E c \in Callers : Refuse(c) \/ Get(c) \/ Set(c) \/ SetFails(c) \/ Reset(c)

Spec == Init /\ [][Next]_vars
-----------------------------------------------------------------------------
(* Properties *)

Limiting == rule.form # "AddCounterRedis"

\* What a limit admits before it refuses: the middlewares let the first call
\* through whatever the limit is.
Allowed == IF rule.form # "LimitByKey" /\ rule.limit = 0 THEN 1 ELSE rule.limit

\* The variables have their types, and no counter, stored or about to be, ever
\* exceeds the limit: it is compared before it is written.
TypeOK ==
    /\ rule \in Rules
    /\ stored \in Nat /\ expires \in Nat /\ now \in 0..MaxTime
    /\ Limiting => stored <= Allowed
    /\ pc \in [Callers -> {"idle", "set"}]
    /\ count \in [Callers -> Nat]
    /\ Limiting => \A c \in Callers : count[c] <= Allowed
    /\ before \in [0..MaxTime -> Nat]
    /\ total \in Nat /\ sinceReset \in Nat
    /\ disturbed \in BOOLEAN /\ crowded \in BOOLEAN

\* The first of the TTL ticks that end at t, and the calls admitted from it on.
WindowStart(t) == IF t < TTL THEN 0 ELSE t - TTL + 1
AdmittedLately == total - before[WindowStart(now)]

\* As long as no two calls overlap and Redis answers, the limit holds in every
\* stretch of 24 hours that no reset cuts short, not only between two moments at
\* which the key expires: LimitByKey's "limit action using redis".  (The fewer of
\* AdmittedLately and sinceReset were admitted both lately and since the reset.)
WindowRespected ==
    Limiting /\ ~crowded => AdmittedLately <= Allowed \/ sinceReset <= Allowed

\* Would a call be refused now, if its GET is answered?
Refuses == ~Admits(stored)

\* A call is refused only after as many calls as the limit were admitted: lost
\* updates and failures may let calls through, they never turn one away that
\* came before the limit was used up.
RefusalsEarned == Refuses => total >= rule.limit

\* Being refused does not last: whoever keeps trying is refused only while some
\* call was admitted in the latest 24 hours, for a refused call does not renew
\* the key's time to live.
LockoutEnds == Refuses /\ Allowed > 0 => AdmittedLately > 0

\* After a ResetByKey with no call in progress, a call is refused only when as
\* many calls as the limit were admitted since, until calls overlap or Redis
\* fails: ResetByKey's "reset counter using redis".
ResetTakesEffect == Refuses /\ ~crowded => sinceReset >= rule.limit

\* As long as calls come one after the other, Redis answers and the key lives,
\* the counter is the number of calls that were let through: AddCounterRedis's
\* "add counter to redis by key".
CounterExact == ~crowded /\ ~disturbed => stored = total

\* The ways to choose k of m: a binomial coefficient, as many as sets.
Choices(m, k) == {S \in SUBSET (1..m) : Cardinality(S) = k}

\* How far lost updates can carry: n callers that interleave GET and SET at
\* will, until the key expires, is reset or a command fails, are admitted fewer
\* than (Allowed + n over n) times, which is Allowed for n = 1.
OverAdmissionBounded ==
    LET n == Cardinality(Callers)
    IN Limiting /\ ~disturbed => total < Cardinality(Choices(Allowed + n, Allowed))
=============================================================================
