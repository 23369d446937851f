------------------------- MODULE RedisLimiterProofs -------------------------
(***************************************************************************)
(* What RedisLimiter promises for any number of callers, any limits, with  *)
(* failures and resets; and what it promises calls that do not overlap.    *)
(***************************************************************************)
EXTENDS RedisLimiter, Integers, FiniteSetTheorems, FunctionTheorems, TLAPS

USE CallersAssumption, RulesAssumption, TTLAssumption, SwitchAssumption,
    LimiterBoundsAssumption

-----------------------------------------------------------------------------
(* The type invariant is inductive: a counter is compared before it is       *)
(* written.                                                                  *)

\* Init gives every variable of the limiter its type.
LEMMA TypeInit == Init => TypeOK
<1>1. Init => disturbed \in BOOLEAN /\ crowded \in BOOLEAN
  BY Zenon DEF Init
<1>2. Init => /\ rule \in Rules /\ Allowed \in Nat
              /\ stored = 0 /\ expires \in Nat /\ now \in 0..MaxTime
              /\ total \in Nat /\ sinceReset \in Nat
  BY DEF Init, Allowed
<1>3. Init => /\ pc \in [Callers -> {"idle", "set"}]
              /\ count \in [Callers -> Nat] /\ \A c \in Callers : count[c] = 0
              /\ before \in [0..MaxTime -> Nat]
  BY DEF Init
<1> QED
  BY <1>1, <1>2, <1>3 DEF TypeOK

\* The limit of a rule is a number; the calls it allows are that many, or one.
LEMMA RuleType ==
    rule \in Rules => /\ rule.form \in Forms /\ rule.limit \in Nat
                      /\ Allowed \in Nat /\ rule.limit <= Allowed
  BY DEF Allowed

\* What a GET can read, and what the counter it leads to is bounded by.
LEMMA ReadsBounded ==
    TypeOK => \A n \in Reads : /\ n \in Nat /\ n <= stored
                               /\ Admits(n) /\ Limiting => n + 1 <= Allowed
<1>1. SUFFICES ASSUME TypeOK, NEW n \in Reads
               PROVE /\ n \in Nat /\ n <= stored
                     /\ Admits(n) /\ Limiting => n + 1 <= Allowed
  OBVIOUS
<1>2. n \in Nat /\ n <= stored
  BY <1>1 DEF TypeOK, Reads
<1>3. ASSUME Admits(n), Limiting PROVE n + 1 <= Allowed
  BY <1>1, <1>2, <1>3, RuleType
     DEF TypeOK, Limiting, Admits, KeyAdmits, RouteAdmits, ForgotAdmits, Allowed
<1> QED
  BY <1>2, <1>3

\* A call that is let through counts in each of the histories.
LEMMA AdmittedTypes ==
    ASSUME TypeOK, NEW c \in Callers, Admitted(c), rule' = rule
    PROVE /\ pc' \in [Callers -> {"idle", "set"}] /\ pc'[c] = "idle"
          /\ count' \in [Callers -> Nat]
          /\ Limiting => \A d \in Callers : count'[d] <= Allowed
          /\ before' \in [0..MaxTime -> Nat]
          /\ total' \in Nat /\ sinceReset' \in Nat
<1>1. Allowed \in Nat
  BY RuleType DEF TypeOK
<1> QED
  BY <1>1 DEF TypeOK, Admitted

\* Every step of the limiter keeps the types, and every counter within bounds.
LEMMA TypeStep == TypeOK /\ [Next]_vars => TypeOK'
<1>1. SUFFICES ASSUME TypeOK, [Next]_vars PROVE TypeOK'
  OBVIOUS
<1> USE <1>1
<1>a. rule' = rule /\ (Limiting' <=> Limiting) /\ Allowed' = Allowed
  <2>1. rule' = rule
    BY DEF Next, vars, Tick, Refuse, Get, Set, SetFails, Reset
  <2> QED
    BY <2>1 DEF Limiting, Allowed
<1>b. Allowed \in Nat
  BY RuleType DEF TypeOK
<1> USE <1>a, <1>b
<1>2. CASE UNCHANGED vars
  BY <1>2 DEF TypeOK, vars
<1>3. CASE Tick
  <2>1. disturbed' \in BOOLEAN /\ crowded' \in BOOLEAN
    BY <1>1, <1>3, Zenon DEF TypeOK, Tick
  <2>2. stored' \in Nat /\ (stored' = stored \/ stored' = 0) /\ expires' \in Nat /\ now' \in 0..MaxTime
    BY <1>3 DEF TypeOK, Tick
  <2>3. Limiting => stored' <= Allowed
    BY <2>2 DEF TypeOK
  <2>4. UNCHANGED <<rule, pc, count, total, sinceReset>>
    BY <1>3 DEF Tick
  <2>5. before' \in [0..MaxTime -> Nat]
    BY <1>3 DEF TypeOK, Tick
  <2> QED
    BY <2>1, <2>2, <2>3, <2>4, <2>5 DEF TypeOK
<1>4. ASSUME NEW c \in Callers, Refuse(c) PROVE TypeOK'
  BY <1>4 DEF TypeOK, Refuse, vars
<1>5. ASSUME NEW c \in Callers, Get(c) PROVE TypeOK'
  <2>1. PICK n \in Reads : /\ Admits(n) /\ count' = [count EXCEPT ![c] = n + 1]
                           /\ disturbed' = (disturbed \/ n # stored)
                           /\ crowded' = (crowded \/ n # stored \/ Overlap(c))
    BY <1>5 DEF Get
  <2>2. n + 1 \in Nat /\ (Limiting => n + 1 <= Allowed)
    BY <2>1, ReadsBounded
  <2>3. count' \in [Callers -> Nat] /\ pc' \in [Callers -> {"idle", "set"}]
    BY <1>5, <2>1, <2>2 DEF TypeOK, Get
  <2>4. Limiting => \A d \in Callers : count'[d] <= Allowed
    BY <2>1, <2>2 DEF TypeOK
  <2>5. disturbed' \in BOOLEAN /\ crowded' \in BOOLEAN
    BY <2>1
  <2>6. UNCHANGED <<rule, stored, expires, now, before, total, sinceReset>>
    BY <1>5 DEF Get
  <2> QED
    BY <2>3, <2>4, <2>5, <2>6 DEF TypeOK
<1>6. ASSUME NEW c \in Callers, Set(c) PROVE TypeOK'
  <2>1. stored' \in Nat /\ expires' \in Nat /\ (Limiting => stored' <= Allowed)
    BY <1>6 DEF TypeOK, Set
  <2>2. Admitted(c) /\ UNCHANGED <<rule, now, disturbed, crowded>>
    BY <1>6 DEF Set
  <2> QED
    BY <2>1, <2>2, AdmittedTypes DEF TypeOK
<1>7. ASSUME NEW c \in Callers, SetFails(c) PROVE TypeOK'
  <2>1. disturbed' \in BOOLEAN /\ crowded' \in BOOLEAN
    BY <1>7, Zenon DEF SetFails
  <2>2. UNCHANGED <<rule, stored, expires, now>>
    BY <1>7 DEF SetFails
  <2>3. CASE Admitted(c)
    BY <2>1, <2>2, <2>3, AdmittedTypes DEF TypeOK
  <2>4. CASE ~Admitted(c)
    <3>1. /\ pc' = [pc EXCEPT ![c] = "idle"] /\ count' = [count EXCEPT ![c] = 0]
          /\ UNCHANGED <<before, total, sinceReset>>
      BY <1>7, <2>4, Zenon DEF SetFails
    <3> QED
      BY <2>1, <2>2, <3>1 DEF TypeOK
  <2> QED
    BY <2>3, <2>4
<1>8. ASSUME NEW c \in Callers, Reset(c) PROVE TypeOK'
  <2>1. disturbed' \in BOOLEAN /\ crowded' \in BOOLEAN
    BY <1>1, <1>8, Zenon DEF TypeOK, Reset
  <2>2. stored' \in Nat /\ (stored' = stored \/ stored' = 0) /\ expires' \in Nat
    BY <1>8 DEF TypeOK, Reset
  <2>3. sinceReset' = 0 /\ UNCHANGED <<rule, now, pc, count, before, total>>
    BY <1>8 DEF Reset
  <2>4. Limiting => stored' <= Allowed
    BY <2>2 DEF TypeOK
  <2> QED
    BY <2>1, <2>2, <2>3, <2>4 DEF TypeOK
<1> QED
  BY <1>2, <1>3, <1>4, <1>5, <1>6, <1>7, <1>8 DEF Next

\* No function that limits ever stores, nor carries between its two commands, a
\* counter beyond its limit, however callers interleave and whatever fails.
THEOREM CounterWithinLimit == Spec => []TypeOK
  BY TypeInit, TypeStep, PTL DEF Spec

-----------------------------------------------------------------------------
(* Refusals are earned.  The counter in Redis counts calls that were         *)
(* admitted, and the one a caller is about to write counts its own besides:  *)
(* neither a lost update nor a failed command ever adds to it.               *)

Earned == stored <= total /\ \A c \in Callers : pc[c] = "set" => count[c] <= total + 1

EarnedInv == TypeOK /\ Earned

\* The strengthening of RefusalsEarned is inductive.
LEMMA EarnedStep == EarnedInv /\ [Next]_vars => EarnedInv'
<1>1. SUFFICES ASSUME TypeOK, Earned, [Next]_vars PROVE Earned'
  BY TypeStep DEF EarnedInv
<1>2. CASE UNCHANGED vars
  BY <1>1, <1>2 DEF Earned, vars
<1>3. CASE Tick
  BY <1>1, <1>3 DEF TypeOK, Earned, Tick
<1>4. ASSUME NEW c \in Callers, Refuse(c) PROVE Earned'
  BY <1>1, <1>4 DEF Earned, Refuse, vars
<1>5. ASSUME NEW c \in Callers, Get(c) PROVE Earned'
  <2>1. PICK n \in Reads : count' = [count EXCEPT ![c] = n + 1]
    BY <1>5 DEF Get
  <2>2. n \in Nat /\ n <= total
    BY <1>1, <2>1, ReadsBounded DEF TypeOK, Earned
  <2>3. SUFFICES ASSUME NEW d \in Callers, pc'[d] = "set" PROVE count'[d] <= total + 1
    BY <1>1, <1>5 DEF Earned, Get
  <2>4. CASE d = c
    BY <1>1, <2>1, <2>2, <2>4 DEF TypeOK
  <2>5. CASE d # c
    BY <1>1, <1>5, <2>1, <2>3, <2>5 DEF TypeOK, Earned, Get
  <2> QED
    BY <2>4, <2>5
<1>6. ASSUME NEW c \in Callers, Admitted(c), stored' = count[c] \/ stored' = stored,
             pc[c] = "set"
      PROVE Earned'
  <2>1. total' = total + 1 /\ total \in Nat /\ stored \in Nat
    BY <1>1, <1>6 DEF TypeOK, Admitted
  <2>2. stored' <= total'
    BY <1>1, <1>6, <2>1 DEF Earned
  <2>3. SUFFICES ASSUME NEW d \in Callers, pc'[d] = "set" PROVE count'[d] <= total' + 1
    BY <2>2 DEF Earned
  <2>4. d # c /\ pc[d] = "set" /\ count'[d] = count[d] /\ count[d] \in Nat
    BY <1>1, <1>6, <2>3 DEF TypeOK, Admitted
  <2> QED
    BY <1>1, <2>1, <2>4 DEF Earned
<1>7. ASSUME NEW c \in Callers, Set(c) PROVE Earned'
  BY <1>6, <1>7 DEF Set
<1>8. ASSUME NEW c \in Callers, SetFails(c) PROVE Earned'
  <2>1. CASE Admitted(c)
    BY <1>6, <1>8, <2>1 DEF SetFails
  <2>2. CASE ~Admitted(c)
    <3>1. /\ pc' = [pc EXCEPT ![c] = "idle"] /\ count' = [count EXCEPT ![c] = 0]
          /\ UNCHANGED <<stored, total>>
      BY <1>8, <2>2, Zenon DEF SetFails
    <3> QED
      BY <1>1, <3>1 DEF TypeOK, Earned
  <2> QED
    BY <2>1, <2>2
<1>9. ASSUME NEW c \in Callers, Reset(c) PROVE Earned'
  BY <1>1, <1>9 DEF TypeOK, Earned, Reset
<1> QED
  BY <1>1, <1>2, <1>3, <1>4, <1>5, <1>7, <1>8, <1>9 DEF Next

\* A refused counter has reached the limit of its rule.
LEMMA RefusesAtLimit == TypeOK /\ Refuses => stored >= rule.limit
  BY RuleType DEF TypeOK, Refuses, Admits, KeyAdmits, RouteAdmits, ForgotAdmits, Forms

\* No call is refused before the limit was used up, for any number of callers,
\* with failing GETs and SETs and with resets.
THEOREM RefusalsAreEarned == Spec => []RefusalsEarned
<1>1. Init => EarnedInv
  BY TypeInit DEF Init, EarnedInv, Earned
<1>2. EarnedInv => RefusalsEarned
  BY RefusesAtLimit, RuleType DEF EarnedInv, TypeOK, Earned, RefusalsEarned
<1> QED
  BY <1>1, <1>2, EarnedStep, PTL DEF Spec

-----------------------------------------------------------------------------
(* The calls admitted before each tick form a staircase: none of its steps  *)
(* is above a later one, nor above the calls admitted so far.               *)

Staircase == \A t \in 0..now : /\ before[t] <= total
                               /\ \A s \in 0..t : before[s] <= before[t]

StairInv == TypeOK /\ Staircase

\* How time and the histories change.
LEMMA HistoryStep ==
    ASSUME TypeOK, [Next]_vars
    PROVE  \/ /\ now' = now /\ before' = before
              /\ total' = total \/ total' = total + 1
           \/ /\ now + 1 \in 0..MaxTime /\ now' = now + 1 /\ total' = total
              /\ before' = [before EXCEPT ![now + 1] = total]
<1>1. CASE Tick
  BY <1>1 DEF Tick, TypeOK
<1>2. ASSUME NEW c \in Callers, Set(c) \/ SetFails(c)
      PROVE now' = now /\ before' = before /\ (total' = total \/ total' = total + 1)
  BY <1>2 DEF Set, SetFails, Admitted
<1>3. ASSUME NEW c \in Callers, Refuse(c) \/ Get(c) \/ Reset(c)
      PROVE now' = now /\ before' = before /\ total' = total
  BY <1>3 DEF Refuse, Get, Reset, vars
<1>4. CASE UNCHANGED vars
  BY <1>4 DEF vars
<1> QED
  BY <1>1, <1>2, <1>3, <1>4 DEF Next

\* The staircase grows at its end.
LEMMA StairStep == StairInv /\ [Next]_vars => StairInv'
<1>1. SUFFICES ASSUME TypeOK, Staircase, [Next]_vars PROVE Staircase'
  BY TypeStep DEF StairInv
<1>2. now \in 0..MaxTime /\ total \in Nat /\ before \in [0..MaxTime -> Nat]
  BY <1>1 DEF TypeOK
<1>3. \A t \in 0..now : t \in 0..MaxTime /\ before[t] \in Nat
  BY <1>2
<1>4. CASE now' = now /\ before' = before /\ (total' = total \/ total' = total + 1)
  BY <1>1, <1>2, <1>3, <1>4 DEF Staircase
<1>5. CASE /\ now + 1 \in 0..MaxTime /\ now' = now + 1 /\ total' = total
           /\ before' = [before EXCEPT ![now + 1] = total]
  <2>1. \A t \in 0..now' : before'[t] = IF t = now + 1 THEN total ELSE before[t]
    BY <1>2, <1>5
  <2>2. SUFFICES ASSUME NEW t \in 0..now'
                 PROVE before'[t] <= total /\ \A s \in 0..t : before'[s] <= before'[t]
    BY <1>5 DEF Staircase
  <2>3. CASE t = now + 1
    BY <1>1, <1>2, <1>5, <2>1, <2>3 DEF Staircase
  <2>4. CASE t # now + 1
    <3>1. t \in 0..now /\ \A s \in 0..t : s \in 0..now /\ s # now + 1 /\ s \in 0..now'
      BY <1>2, <1>5, <2>4
    <3> QED
      BY <1>1, <2>1, <2>4, <3>1 DEF Staircase
  <2> QED
    BY <2>3, <2>4
<1> QED
  BY <1>1, <1>4, <1>5, HistoryStep

\* The window begins at a tick that has been reached.
LEMMA WindowType ==
    ASSUME NEW t \in Nat
    PROVE  WindowStart(t) \in 0..t /\ t < WindowStart(t) + TTL
  BY DEF WindowStart

-----------------------------------------------------------------------------
(* Being refused ends.  A counter that is not 0 was written by a call that   *)
(* was admitted, a time to live before the key goes away.                    *)

Dated == stored > 0 => \E t \in 0..now : expires = t + TTL /\ now < expires /\ before[t] < total

DatedInv == StairInv /\ Dated

\* A date stays good while no write, no tick and no loss of the key intervenes.
LEMMA DateKept ==
    ASSUME TypeOK, Dated, now' = now, before' = before, stored' = stored \/ stored' = 0,
           stored' # 0 => expires' = expires,
           total' = total \/ total' = total + 1
    PROVE  Dated'
<1>1. SUFFICES ASSUME stored' > 0
               PROVE \E t \in 0..now : expires' = t + TTL /\ now < expires' /\ before[t] < total'
  BY DEF Dated
<1>2. stored > 0 /\ expires' = expires
  BY <1>1 DEF TypeOK
<1>3. PICK t \in 0..now : expires = t + TTL /\ now < expires /\ before[t] < total
  BY <1>2 DEF Dated
<1>4. t \in 0..MaxTime /\ before[t] \in Nat /\ total \in Nat
  BY <1>3 DEF TypeOK
<1> QED
  BY <1>2, <1>3, <1>4

\* Every step keeps the counter dated; only a call that is let through renews it.
LEMMA DatedStep == DatedInv /\ [Next]_vars => DatedInv'
<1>1. SUFFICES ASSUME TypeOK, Staircase, Dated, [Next]_vars PROVE Dated'
  BY StairStep DEF DatedInv, StairInv
<1>2. /\ now \in Nat /\ now \in 0..MaxTime /\ total \in Nat
      /\ before \in [0..MaxTime -> Nat]
  BY <1>1 DEF TypeOK
<1>3. ASSUME UNCHANGED <<now, before, total>>, stored' = stored \/ stored' = 0,
             stored' # 0 => expires' = expires
      PROVE Dated'
  BY <1>1, <1>3, DateKept
<1>4. ASSUME NEW c \in Callers, Set(c) PROVE Dated'
  <2>1. expires' = now + TTL /\ now' = now /\ before' = before /\ total' = total + 1
    BY <1>4 DEF Set, Admitted
  <2>2. before[now] < total + 1 /\ now \in 0..now /\ now < now + TTL
    BY <1>1, <1>2 DEF Staircase
  <2> QED
    BY <2>1, <2>2 DEF Dated
<1>5. ASSUME NEW c \in Callers, SetFails(c) PROVE Dated'
  <2>1. UNCHANGED <<stored, expires, now, before>> /\ (total' = total \/ total' = total + 1)
    BY <1>5 DEF SetFails, Admitted
  <2> QED
    BY <1>1, <2>1, DateKept
<1>6. CASE Tick
  <2>1. SUFFICES ASSUME stored' > 0
                 PROVE \E t \in 0..now' : expires' = t + TTL /\ now' < expires'
                                          /\ before'[t] < total'
    BY DEF Dated
  <2>2. /\ now' = now + 1 /\ before' = [before EXCEPT ![now + 1] = total] /\ total' = total
        /\ stored' = stored /\ expires' = expires
        /\ ~(expires # 0 /\ expires <= now + 1)
    BY <1>6, <2>1 DEF Tick
  <2>3. PICK t \in 0..now : expires = t + TTL /\ now < expires /\ before[t] < total
    BY <1>1, <2>1, <2>2 DEF Dated
  <2>4. t \in 0..now' /\ now' < expires' /\ before'[t] = before[t]
    BY <1>2, <2>2, <2>3
  <2> QED
    BY <2>2, <2>3, <2>4
<1>7. ASSUME NEW c \in Callers, Refuse(c) \/ Get(c) \/ Reset(c) PROVE Dated'
  BY <1>3, <1>7 DEF Refuse, Get, Reset, vars
<1>8. CASE UNCHANGED vars
  BY <1>3, <1>8 DEF vars
<1> QED
  BY <1>1, <1>4, <1>5, <1>6, <1>7, <1>8 DEF Next

\* Nobody is refused for longer than the time to live after the last call that
\* was let through, however often refused callers keep trying.
THEOREM LockoutsEnd == Spec => []LockoutEnds
<1>1. Init => DatedInv
  BY TypeInit DEF Init, DatedInv, Dated, StairInv, Staircase
<1>2. DatedInv => LockoutEnds
  <2>1. SUFFICES ASSUME TypeOK, Staircase, Dated, Refuses, Allowed > 0
                 PROVE AdmittedLately > 0
    BY DEF DatedInv, StairInv, LockoutEnds
  <2>2. stored > 0
    BY <2>1, RuleType
       DEF TypeOK, Refuses, Admits, KeyAdmits, RouteAdmits, ForgotAdmits, Forms, Allowed
  <2>3. PICK t \in 0..now : expires = t + TTL /\ now < expires /\ before[t] < total
    BY <2>1, <2>2 DEF Dated
  <2>4. now \in Nat /\ total \in Nat /\ before[t] \in Nat
    BY <2>1 DEF TypeOK
  <2>5. WindowStart(now) \in 0..t
    BY <2>3, <2>4 DEF WindowStart
  <2>6. before[WindowStart(now)] <= before[t] /\ before[WindowStart(now)] \in Nat
    BY <2>1, <2>3, <2>4, <2>5 DEF TypeOK, Staircase
  <2> QED
    BY <2>3, <2>4, <2>6 DEF AdmittedLately
<1> QED
  BY <1>1, <1>2, DatedStep, PTL DEF Spec

-----------------------------------------------------------------------------
(* Calls that do not overlap.  At most one is between its commands, and the  *)
(* counter it is about to write is one more than what is stored; so the      *)
(* counter follows the calls admitted since the reset, and all of them while *)
(* the key lives.                                                            *)

AtMostOne == \A c, d \in Callers : pc[c] = "set" /\ pc[d] = "set" => c = d
Follows(n) == stored <= n /\ \A c \in Callers : pc[c] = "set" => count[c] <= n + 1
Equals(n) == stored = n /\ \A c \in Callers : pc[c] = "set" => count[c] = n + 1

Alone == ~crowded => /\ AtMostOne
                     /\ Follows(sinceReset)
                     /\ disturbed \/ Equals(total)

AloneInv == TypeOK /\ Alone

\* A GET of a call that overlaps no other reads what is stored.
LEMMA GetAlone ==
    ASSUME TypeOK, Alone, NEW c \in Callers, Get(c), ~crowded'
    PROVE /\ ~crowded /\ disturbed' = disturbed
          /\ \A d \in Callers : pc[d] # "set"
          /\ count' = [count EXCEPT ![c] = stored + 1]
          /\ pc' = [pc EXCEPT ![c] = "set"]
          /\ UNCHANGED <<stored, total, sinceReset>>
<1>1. PICK n \in Reads : /\ count' = [count EXCEPT ![c] = n + 1]
                         /\ disturbed' = (disturbed \/ n # stored)
                         /\ crowded' = (crowded \/ n # stored \/ Overlap(c))
  BY DEF Get
<1>2. ~crowded /\ n = stored /\ ~Overlap(c)
  BY <1>1
<1>3. disturbed' = disturbed
  BY <1>1, <1>2, Zenon DEF TypeOK
<1>4. \A d \in Callers : pc[d] # "set"
  BY <1>2 DEF Overlap, Get
<1> QED
  BY <1>1, <1>2, <1>3, <1>4 DEF Get

\* Every step keeps what the counter of calls that do not overlap follows.
LEMMA AloneStep == AloneInv /\ [Next]_vars => AloneInv'
<1>1. SUFFICES ASSUME TypeOK, Alone, [Next]_vars, ~crowded'
               PROVE AtMostOne' /\ Follows(sinceReset)' /\ (disturbed' \/ Equals(total)')
  BY TypeStep DEF AloneInv, Alone
<1>2. CASE UNCHANGED vars
  BY <1>1, <1>2 DEF Alone, AtMostOne, Follows, Equals, vars
<1>3. CASE Tick
  <2>1. ~crowded /\ UNCHANGED <<pc, count, total, sinceReset>>
    BY <1>1, <1>3 DEF Tick
  <2>2. \/ stored' = stored /\ disturbed' = disturbed
        \/ stored' = 0 /\ disturbed'
    BY <1>3, Zenon DEF Tick
  <2>3. sinceReset \in Nat
    BY <1>1 DEF TypeOK
  <2> QED
    BY <1>1, <2>1, <2>2, <2>3 DEF Alone, AtMostOne, Follows, Equals
<1>4. ASSUME NEW c \in Callers, Refuse(c) PROVE UNCHANGED vars
  BY <1>4 DEF Refuse
<1>5. ASSUME NEW c \in Callers, Get(c)
      PROVE AtMostOne' /\ Follows(sinceReset)' /\ (disturbed' \/ Equals(total)')
  <2>1. /\ ~crowded /\ disturbed' = disturbed
        /\ \A d \in Callers : pc[d] # "set"
        /\ count' = [count EXCEPT ![c] = stored + 1]
        /\ pc' = [pc EXCEPT ![c] = "set"]
        /\ UNCHANGED <<stored, total, sinceReset>>
    BY <1>1, <1>5, GetAlone
  <2>2. stored \in Nat /\ sinceReset \in Nat /\ pc \in [Callers -> {"idle", "set"}]
        /\ count \in [Callers -> Nat]
    BY <1>1 DEF TypeOK
  <2>3. \A d \in Callers : pc'[d] = "set" => d = c /\ count'[d] = stored + 1
    BY <2>1, <2>2
  <2>4. stored <= sinceReset /\ (disturbed \/ stored = total)
    BY <1>1, <2>1 DEF Alone, Follows, Equals
  <2>5. AtMostOne' /\ Follows(sinceReset)'
    BY <2>1, <2>2, <2>3, <2>4 DEF AtMostOne, Follows
  <2>6. disturbed' \/ Equals(total)'
    BY <2>1, <2>3, <2>4 DEF Equals
  <2> QED
    BY <2>5, <2>6
<1>6. ASSUME NEW c \in Callers, Set(c)
      PROVE AtMostOne' /\ Follows(sinceReset)' /\ (disturbed' \/ Equals(total)')
  <2>1. /\ ~crowded /\ disturbed' = disturbed /\ pc[c] = "set" /\ stored' = count[c]
        /\ total' = total + 1 /\ sinceReset' = sinceReset + 1
        /\ pc' = [pc EXCEPT ![c] = "idle"]
    BY <1>1, <1>6 DEF Set, Admitted
  <2>2. \A d \in Callers : pc'[d] # "set"
    BY <1>1, <2>1 DEF TypeOK, Alone, AtMostOne
  <2>3. count[c] <= sinceReset + 1 /\ (disturbed \/ count[c] = total + 1)
    BY <1>1, <2>1 DEF Alone, Follows, Equals
  <2> QED
    BY <2>1, <2>2, <2>3 DEF AtMostOne, Follows, Equals
<1>7. ASSUME NEW c \in Callers, SetFails(c) PROVE FALSE
  BY <1>1, <1>7 DEF SetFails
<1>8. ASSUME NEW c \in Callers, Reset(c)
      PROVE AtMostOne' /\ Follows(sinceReset)' /\ (disturbed' \/ Equals(total)')
  <2>1. /\ ~Overlap(c) /\ pc[c] = "idle"
        /\ stored' = 0 /\ sinceReset' = 0 /\ disturbed' /\ pc' = pc
    BY <1>1, <1>8 DEF Reset
  <2>2. \A d \in Callers : pc'[d] # "set"
    BY <2>1 DEF Overlap
  <2> QED
    BY <2>1, <2>2 DEF AtMostOne, Follows
<1> QED
  BY <1>1, <1>2, <1>3, <1>4, <1>5, <1>6, <1>7, <1>8 DEF Next

\* The invariant of calls that do not overlap holds in every behaviour.
LEMMA AloneInvariance == Spec => []AloneInv
<1>1. Init => AloneInv
  BY TypeInit DEF Init, AloneInv, Alone, AtMostOne, Follows, Equals
<1> QED
  BY <1>1, AloneStep, PTL DEF Spec

\* ResetByKey gives back the whole limit, for any number of callers, until calls
\* overlap (a SET may then restore the count read before the reset) or Redis fails.
THEOREM ResetsTakeEffect == Spec => []ResetTakesEffect
<1>1. AloneInv => ResetTakesEffect
  BY RefusesAtLimit, RuleType DEF AloneInv, TypeOK, Alone, Follows, ResetTakesEffect
<1> QED
  BY <1>1, AloneInvariance, PTL

\* The counter is the number of calls let through, for any number of callers,
\* until calls overlap, Redis fails, or the key expires or is reset.
THEOREM CountsAreExact == Spec => []CounterExact
<1>1. AloneInv => CounterExact
  BY DEF AloneInv, Alone, Equals, CounterExact
<1> QED
  BY <1>1, AloneInvariance, PTL

-----------------------------------------------------------------------------
(* The limit in every window.  While calls do not overlap and Redis answers, *)
(* the counter covers the calls of the latest TTL ticks, or else those since *)
(* the reset: each write renews the key, so when the key does go away no     *)
(* call is left that the window still holds.                                 *)

\* No call was admitted after the latest renewal of the key's time to live.
Renewed == expires # 0 => \A t \in 0..now : t + TTL > expires => before[t] = total

Covers(n) == AdmittedLately <= n \/ sinceReset <= n

Covered == ~crowded => /\ Renewed
                       /\ Covers(stored)
                       /\ \A c \in Callers : pc[c] = "set" => count[c] > 0 /\ Covers(count[c] - 1)

WindowInv == AloneInv /\ Staircase /\ Covered

\* As time passes, fewer calls are recent.
LEMMA WindowMoves ==
    ASSUME TypeOK, Staircase, now + 1 \in 0..MaxTime
    PROVE  LET later == [before EXCEPT ![now + 1] = total]
           IN  /\ later[WindowStart(now + 1)] \in Nat
               /\ before[WindowStart(now)] <= later[WindowStart(now + 1)]
<1>1. now \in Nat /\ now \in 0..MaxTime /\ total \in Nat /\ before \in [0..MaxTime -> Nat]
  BY DEF TypeOK
<1>2. WindowStart(now) \in 0..now /\ WindowStart(now + 1) \in WindowStart(now)..(now + 1)
  BY <1>1 DEF WindowStart
<1>3. CASE WindowStart(now + 1) = now + 1
  BY <1>1, <1>2, <1>3 DEF Staircase
<1>4. CASE WindowStart(now + 1) # now + 1
  <2>1. WindowStart(now + 1) \in 0..now /\ WindowStart(now) \in 0..WindowStart(now + 1)
    BY <1>1, <1>2, <1>4
  <2>2. before[WindowStart(now)] <= before[WindowStart(now + 1)]
    BY <2>1 DEF Staircase
  <2> QED
    BY <1>1, <1>4, <2>1, <2>2
<1> QED
  BY <1>3, <1>4

\* Every step keeps the counter a cover of the calls in the window.
LEMMA CoveredStep == WindowInv /\ [Next]_vars => WindowInv'
<1>1. SUFFICES ASSUME TypeOK, Alone, Staircase, Covered, [Next]_vars, TypeOK', ~crowded'
               PROVE /\ Renewed' /\ Covers(stored)'
                     /\ \A c \in Callers : pc'[c] = "set" => count'[c] > 0 /\ Covers(count[c] - 1)'
  <2>1. SUFFICES ASSUME WindowInv, [Next]_vars PROVE Covered'
    BY AloneStep, StairStep DEF WindowInv, AloneInv, StairInv
  <2> QED
    BY <2>1, TypeStep DEF WindowInv, AloneInv, Covered
<1>2. /\ now \in Nat /\ now \in 0..MaxTime /\ total \in Nat /\ stored \in Nat /\ sinceReset \in Nat
      /\ before \in [0..MaxTime -> Nat] /\ count \in [Callers -> Nat]
      /\ pc \in [Callers -> {"idle", "set"}] /\ expires \in Nat
  BY <1>1 DEF TypeOK
<1>3. /\ WindowStart(now) \in 0..MaxTime /\ before[WindowStart(now)] \in Nat
      /\ AdmittedLately \in Int
  <2>1. WindowStart(now) \in 0..now
    BY <1>2, WindowType
  <2>2. WindowStart(now) \in 0..MaxTime
    BY <1>2, <2>1
  <2> QED
    BY <1>2, <2>2 DEF AdmittedLately
<1> DEFINE Goal == /\ Renewed' /\ Covers(stored)'
                   /\ \A c \in Callers : pc'[c] = "set" => count'[c] > 0 /\ Covers(count[c] - 1)'
<1>4. CASE UNCHANGED vars
  BY <1>1, <1>4 DEF vars, Covered, Renewed, Covers, AdmittedLately
<1>5. CASE Tick
  <2>1. /\ now + 1 \in 0..MaxTime /\ now' = now + 1 /\ total' = total
        /\ before' = [before EXCEPT ![now + 1] = total]
        /\ UNCHANGED <<pc, count, sinceReset, crowded>>
    BY <1>2, <1>5 DEF Tick
  <2>2. AdmittedLately' \in Int /\ AdmittedLately' <= AdmittedLately
    <3>1. /\ before'[WindowStart(now + 1)] \in Nat
          /\ before[WindowStart(now)] <= before'[WindowStart(now + 1)]
      BY <1>1, <2>1, WindowMoves
    <3>2. AdmittedLately' = total - before'[WindowStart(now + 1)]
      BY <2>1 DEF AdmittedLately
    <3> QED
      BY <1>2, <1>3, <3>1, <3>2 DEF AdmittedLately
  <2>3. Renewed /\ Covers(stored)
        /\ \A c \in Callers : pc[c] = "set" => count[c] > 0 /\ Covers(count[c] - 1)
    BY <1>1, <2>1 DEF Covered
  <2>4. \A c \in Callers : pc'[c] = "set" => count'[c] > 0 /\ Covers(count[c] - 1)'
    <3>1. SUFFICES ASSUME NEW c \in Callers, pc[c] = "set" PROVE Covers(count[c] - 1)'
      BY <2>1, <2>3
    <3>2. Covers(count[c] - 1) /\ count[c] \in Nat
      BY <1>2, <2>3, <3>1
    <3> QED
      BY <1>2, <1>3, <2>1, <2>2, <3>2 DEF Covers
  <2>5. \A t \in 0..now' : before'[t] = IF t = now + 1 THEN total ELSE before[t]
    BY <1>2, <2>1
  <2>6. CASE expires # 0 /\ expires <= now + 1
    <3>1. expires' = 0 /\ stored' = 0
      BY <1>5, <2>6 DEF Tick
    <3>a. now + 1 \in Nat
      BY <1>2
    <3>b. WindowStart(now + 1) \in 0..(now + 1) /\ now + 1 < WindowStart(now + 1) + TTL
      BY <3>a, WindowType
    <3>2. WindowStart(now + 1) \in 0..(now + 1) /\ expires < WindowStart(now + 1) + TTL
      BY <1>2, <2>6, <3>b
    <3>3. before'[WindowStart(now + 1)] = total
      <4>1. CASE WindowStart(now + 1) = now + 1
        BY <2>1, <2>5, <4>1
      <4>2. CASE WindowStart(now + 1) # now + 1
        <5>1. WindowStart(now + 1) \in 0..now /\ WindowStart(now + 1) \in 0..now'
          BY <1>2, <2>1, <3>2, <4>2
        <5> QED
          BY <2>3, <2>5, <2>6, <3>2, <4>2, <5>1 DEF Renewed
      <4> QED
        BY <4>1, <4>2
    <3>5. AdmittedLately' = 0
      BY <1>2, <2>1, <3>3 DEF AdmittedLately
    <3>6. Covers(stored)' /\ Renewed'
      BY <3>1, <3>5 DEF Covers, Renewed
    <3> QED
      BY <2>4, <3>6
  <2>7. CASE ~(expires # 0 /\ expires <= now + 1)
    <3>1. expires' = expires /\ stored' = stored
      BY <1>5, <2>7 DEF Tick
    <3>2. Covers(stored)'
      BY <1>2, <1>3, <2>1, <2>2, <2>3, <3>1 DEF Covers
    <3>3. Renewed'
      BY <1>2, <2>1, <2>3, <2>5, <3>1 DEF Renewed
    <3> QED
      BY <2>4, <3>2, <3>3
  <2> QED
    BY <2>6, <2>7
<1>6. ASSUME NEW c \in Callers, Refuse(c) PROVE UNCHANGED vars
  BY <1>6 DEF Refuse
<1>7. ASSUME NEW c \in Callers, Get(c) PROVE Goal
  <2>1. /\ ~crowded
        /\ \A d \in Callers : pc[d] # "set"
        /\ count' = [count EXCEPT ![c] = stored + 1]
        /\ pc' = [pc EXCEPT ![c] = "set"]
        /\ UNCHANGED <<stored, total, sinceReset>>
    BY <1>1, <1>7, GetAlone
  <2>2. UNCHANGED <<expires, now, before>>
    BY <1>7 DEF Get
  <2>3. AdmittedLately' = AdmittedLately
    BY <2>1, <2>2 DEF AdmittedLately
  <2>4. Renewed /\ Covers(stored)
    BY <1>1, <2>1 DEF Covered
  <2>5. Renewed' /\ Covers(stored)'
    BY <2>1, <2>2, <2>3, <2>4 DEF Renewed, Covers
  <2>6. \A d \in Callers : pc'[d] = "set" => d = c
    BY <1>2, <2>1
  <2>7. count'[c] = stored + 1 /\ count'[c] - 1 = stored
    BY <1>2, <2>1
  <2>8. Covers(count[c] - 1)'
    BY <2>1, <2>3, <2>4, <2>7 DEF Covers
  <2> QED
    BY <1>2, <2>5, <2>6, <2>7, <2>8
<1>8. ASSUME NEW c \in Callers, Set(c) PROVE Goal
  <2>1. /\ ~crowded /\ pc[c] = "set" /\ stored' = count[c] /\ expires' = now + TTL
        /\ total' = total + 1 /\ sinceReset' = sinceReset + 1
        /\ pc' = [pc EXCEPT ![c] = "idle"]
        /\ UNCHANGED <<now, before>>
    BY <1>1, <1>8 DEF Set, Admitted
  <2>2. \A d \in Callers : pc'[d] # "set"
    BY <1>1, <2>1 DEF TypeOK, Alone, AtMostOne
  <2>3. AdmittedLately' = AdmittedLately + 1
    <3>1. AdmittedLately' = total' - before[WindowStart(now)]
      BY <2>1 DEF AdmittedLately
    <3> QED
      BY <1>2, <1>3, <2>1, <3>1 DEF AdmittedLately
  <2>4. Covers(count[c] - 1) /\ count[c] \in Nat
    BY <1>1, <1>2, <2>1 DEF Covered
  <2>5. Covers(stored)'
    BY <1>2, <1>3, <2>1, <2>3, <2>4 DEF Covers
  <2>6. Renewed'
    BY <1>2, <2>1 DEF Renewed
  <2> QED
    BY <2>2, <2>5, <2>6
<1>9. ASSUME NEW c \in Callers, SetFails(c) PROVE FALSE
  BY <1>1, <1>9 DEF SetFails
<1>10. ASSUME NEW c \in Callers, Reset(c) PROVE Goal
  <2>1. /\ ~Overlap(c) /\ pc[c] = "idle" /\ expires' = now + TTL
        /\ stored' = 0 /\ sinceReset' = 0 /\ pc' = pc
        /\ UNCHANGED <<now, before, total>>
    BY <1>1, <1>10 DEF Reset
  <2>2. \A d \in Callers : pc'[d] # "set"
    BY <2>1 DEF Overlap
  <2>3. Covers(stored)'
    BY <2>1 DEF Covers
  <2>4. Renewed'
    BY <1>2, <2>1 DEF Renewed
  <2> QED
    BY <2>2, <2>3, <2>4
<1> QED
  BY <1>1, <1>4, <1>5, <1>6, <1>7, <1>8, <1>9, <1>10 DEF Next

\* As long as calls do not overlap and Redis answers, every stretch of TTL ticks
\* that no reset cuts short admits no more calls than the limit, for any number of
\* callers and wherever the key happens to expire (LimitByKey's and the
\* middlewares' reading of "attempts per duration").
THEOREM WindowsAreRespected == Spec => []WindowRespected
<1>1. Init => WindowInv
  <2>1. Init => AloneInv /\ Staircase
    BY TypeInit DEF Init, AloneInv, Alone, AtMostOne, Follows, Equals, Staircase
  <2>2. Init => Covered
    BY DEF Init, Covered, Renewed, Covers
  <2> QED
    BY <2>1, <2>2 DEF WindowInv
<1>2. WindowInv => WindowRespected
  <2>1. SUFFICES ASSUME TypeOK, Covers(stored), Limiting
                 PROVE AdmittedLately <= Allowed \/ sinceReset <= Allowed
    BY DEF WindowInv, AloneInv, Covered, WindowRespected
  <2>2. stored \in Nat /\ stored <= Allowed /\ Allowed \in Nat /\ sinceReset \in Nat /\ total \in Nat
    BY <2>1, RuleType DEF TypeOK
  <2>3. AdmittedLately \in Int
    <3>1. now \in Nat /\ now \in 0..MaxTime /\ before \in [0..MaxTime -> Nat] /\ total \in Nat
      BY <2>1 DEF TypeOK
    <3>2. WindowStart(now) \in 0..now
      BY <3>1, WindowType
    <3>3. before[WindowStart(now)] \in Nat
      BY <3>1, <3>2
    <3> QED
      BY <3>1, <3>3 DEF AdmittedLately
  <2> QED
    BY <2>1, <2>2, <2>3 DEF Covers
<1> QED
  BY <1>1, <1>2, CoveredStep, PTL DEF Spec

-----------------------------------------------------------------------------
(* Over-admission.  A caller stands at the level of the counter it works      *)
(* with: the one it has read, or the one that is stored, which it would read. *)
(* Marks encodes how many callers stand below each level as a choice of       *)
(* numbers.  A GET leaves it as it is and every SET replaces it by a later    *)
(* one, in an order in which it never comes back; so there are no more SETs   *)
(* than choices.                                                              *)

Level(c) == IF pc[c] = "set" THEN count[c] - 1 ELSE stored
Under(j) == {c \in Callers : Level(c) < j}
Profile == [j \in 1..Allowed |-> Cardinality(Under(j))]

\* The choice of k numbers that k numbers in ascending order stand for.
Marks(f, k) == {f[j] + j : j \in 1..k}
Here == Marks(Profile, Allowed)
All == Allowed + Cardinality(Callers)

\* A comes before B: the least number they do not share is one of B.
Sooner(A, B) == \E x \in B \ A : \A y \in 1..x - 1 : y \in A <=> y \in B
Passed(A, m, k) == {S \in Choices(m, k) : Sooner(S, A)}

Counted ==
    Limiting /\ ~disturbed =>
        /\ total <= Cardinality(Passed(Here, All, Allowed))
        /\ \A c \in Callers : pc[c] = "set" => count[c] \in 1..Allowed

\* The choices are finitely many, and none comes before itself.
LEMMA ChoicesOrdered ==
    ASSUME NEW m \in Nat, NEW k \in Nat
    PROVE  /\ IsFiniteSet(Choices(m, k))
           /\ \A A \in Choices(m, k) : ~Sooner(A, A)
           /\ \A A, B, C \in Choices(m, k) : Sooner(A, B) /\ Sooner(B, C) => Sooner(A, C)
<1>1. IsFiniteSet(Choices(m, k))
  <2>1. IsFiniteSet(1..m)
    BY FS_Interval
  <2>2. IsFiniteSet(SUBSET (1..m))
    BY <2>1, FS_SUBSET
  <2>3. Choices(m, k) \in SUBSET (SUBSET (1..m))
    BY DEF Choices
  <2> QED
    BY <2>2, <2>3, FS_Subset
<1>2. ASSUME NEW A \in Choices(m, k), NEW B \in Choices(m, k), NEW C \in Choices(m, k),
             Sooner(A, B), Sooner(B, C)
      PROVE  Sooner(A, C)
  <2>1. PICK x \in B \ A : \A y \in 1..x - 1 : y \in A <=> y \in B
    BY <1>2 DEF Sooner
  <2>2. PICK z \in C \ B : \A y \in 1..z - 1 : y \in B <=> y \in C
    BY <1>2 DEF Sooner
  <2>3. x \in 1..m /\ z \in 1..m
    BY DEF Choices
  <2>4. CASE x < z
    <3>1. x \in C \ A
      BY <2>1, <2>2, <2>3, <2>4
    <3>2. \A y \in 1..x - 1 : y \in A <=> y \in C
      BY <2>1, <2>2, <2>3, <2>4
    <3> QED
      BY <3>1, <3>2 DEF Sooner
  <2>5. CASE z < x
    <3>1. z \in C \ A
      BY <2>1, <2>2, <2>3, <2>5
    <3>2. \A y \in 1..z - 1 : y \in A <=> y \in C
      BY <2>1, <2>2, <2>3, <2>5
    <3> QED
      BY <3>1, <3>2 DEF Sooner
  <2> QED
    BY <2>1, <2>2, <2>3, <2>4, <2>5
<1> QED
  BY <1>1, <1>2 DEF Sooner

\* A later choice has more choices before it, and none has all of them.
LEMMA LaterPassesMore ==
    ASSUME NEW m \in Nat, NEW k \in Nat, NEW A \in Choices(m, k)
    PROVE  /\ Cardinality(Passed(A, m, k)) \in Nat
           /\ Cardinality(Choices(m, k)) \in Nat
           /\ Cardinality(Passed(A, m, k)) < Cardinality(Choices(m, k))
           /\ \A B \in Choices(m, k) :
                 Sooner(A, B) => Cardinality(Passed(A, m, k)) < Cardinality(Passed(B, m, k))
<1>1. /\ IsFiniteSet(Choices(m, k))
      /\ \A B \in Choices(m, k) : ~Sooner(B, B)
      /\ \A C, B, D \in Choices(m, k) : Sooner(C, B) /\ Sooner(B, D) => Sooner(C, D)
  BY ChoicesOrdered
<1>2. ASSUME NEW B \in Choices(m, k) PROVE IsFiniteSet(Passed(B, m, k))
  BY <1>1, FS_Subset DEF Passed
<1>3. A \notin Passed(A, m, k)
  BY <1>1 DEF Passed
<1>4. /\ Cardinality(Passed(A, m, k)) \in Nat
      /\ Cardinality(Passed(A, m, k) \cup {A}) = Cardinality(Passed(A, m, k)) + 1
  BY <1>2, <1>3, FS_CardinalityType, FS_AddElement
<1>5. ASSUME NEW T, IsFiniteSet(T), Passed(A, m, k) \cup {A} \in SUBSET T
      PROVE  Cardinality(T) \in Nat /\ Cardinality(Passed(A, m, k)) < Cardinality(T)
  <2>1. Cardinality(Passed(A, m, k) \cup {A}) <= Cardinality(T)
    BY <1>5, FS_Subset
  <2>2. Cardinality(T) \in Nat
    BY <1>5, FS_CardinalityType
  <2> QED
    BY <1>4, <2>1, <2>2
<1>6. Passed(A, m, k) \cup {A} \in SUBSET Choices(m, k)
  BY DEF Passed
<1>7. ASSUME NEW B \in Choices(m, k), Sooner(A, B)
      PROVE  Passed(A, m, k) \cup {A} \in SUBSET Passed(B, m, k)
  BY <1>1, <1>7 DEF Passed
<1> QED
  BY <1>1, <1>2, <1>4, <1>5, <1>6, <1>7

\* Numbers in ascending order, none above n.
Ascending(f, k, n) ==
    /\ f \in [1..k -> 0..n]
    /\ \A i, j \in 1..k : i < j => f[i] <= f[j]

\* They stand for a choice of k out of k + n.
LEMMA MarksAreChosen ==
    ASSUME NEW k \in Nat, NEW n \in Nat, NEW f, Ascending(f, k, n)
    PROVE  Marks(f, k) \in Choices(k + n, k)
<1> DEFINE g == [j \in 1..k |-> f[j] + j]
<1>1. \A j \in 1..k : f[j] \in 0..n
  BY DEF Ascending
<1>2. g \in Bijection(1..k, Marks(f, k))
  <2>1. g \in [1..k -> Marks(f, k)]
    BY DEF Marks
  <2>2. \A i, j \in 1..k : i < j => g[i] < g[j]
    BY <1>1 DEF Ascending
  <2>3. \A i, j \in 1..k : g[i] = g[j] => i = j
    <3> SUFFICES ASSUME NEW i \in 1..k, NEW j \in 1..k, g[i] = g[j], i # j PROVE FALSE
      OBVIOUS
    <3>1. i < j \/ j < i
      OBVIOUS
    <3>2. g[i] \in Int /\ g[j] \in Int
      BY <1>1
    <3> QED
      BY <2>2, <3>1, <3>2
  <2>4. \A x \in Marks(f, k) : \E j \in 1..k : g[j] = x
    BY DEF Marks
  <2> HIDE DEF g
  <2> QED
    BY <2>1, <2>3, <2>4, Fun_IsBij
<1>3. Cardinality(1..k) = k /\ IsFiniteSet(1..k)
  BY FS_Interval
<1>4. Cardinality(Marks(f, k)) = k
  <2>1. ExistsBijection(1..k, Marks(f, k))
    BY <1>2, Fun_ExistsBij
  <2> QED
    BY <1>3, <2>1, FS_Bijection
<1>5. Marks(f, k) \in SUBSET (1..k + n)
  BY <1>1 DEF Marks
<1> QED
  BY <1>4, <1>5 DEF Choices

\* When the first number that changes falls, a later choice results.
LEMMA FallsAreLater ==
    ASSUME NEW k \in Nat, NEW n \in Nat, NEW f, NEW g, Ascending(f, k, n), Ascending(g, k, n),
           NEW j \in 1..k, g[j] < f[j], \A i \in 1..j - 1 : f[i] = g[i]
    PROVE  Sooner(Marks(f, k), Marks(g, k))
<1>1. \A i \in 1..k : f[i] \in 0..n /\ g[i] \in 0..n
  BY DEF Ascending
<1>2. \A i \in 1..k : i < j => f[i] = g[i] /\ g[i] + i < g[j] + j
  BY <1>1 DEF Ascending
<1>3. \A i \in 1..k : ~(i < j) => g[j] + j < f[i] + i /\ g[j] + j <= g[i] + i
  <2> SUFFICES ASSUME NEW i \in 1..k, ~(i < j)
               PROVE  g[j] + j < f[i] + i /\ g[j] + j <= g[i] + i
    OBVIOUS
  <2>1. f[j] <= f[i] /\ g[j] <= g[i]
    <3>1. CASE i = j  BY <1>1, <3>1
    <3>2. CASE j < i  BY <3>2 DEF Ascending
    <3> QED  BY <3>1, <3>2
  <2> QED
    BY <1>1, <2>1
<1> DEFINE x == g[j] + j
<1>4. x \in Marks(g, k) /\ x \in Int
  BY <1>1 DEF Marks
<1>5. x \notin Marks(f, k)
  <2> SUFFICES ASSUME NEW i \in 1..k, x = f[i] + i PROVE FALSE
    BY DEF Marks
  <2>1. CASE i < j  BY <1>1, <1>2, <2>1
  <2>2. CASE ~(i < j)  BY <1>1, <1>3, <2>2
  <2> QED  BY <2>1, <2>2
<1>6. ASSUME NEW y \in 1..x - 1 PROVE y \in Marks(f, k) <=> y \in Marks(g, k)
  <2>1. ASSUME NEW i \in 1..k, y = f[i] + i PROVE y \in Marks(g, k)
    <3>1. i < j
      BY <1>1, <1>3, <1>4, <1>6, <2>1
    <3> QED
      BY <1>2, <2>1, <3>1 DEF Marks
  <2>2. ASSUME NEW i \in 1..k, y = g[i] + i PROVE y \in Marks(f, k)
    <3>1. i < j
      BY <1>1, <1>3, <1>4, <1>6, <2>2
    <3> QED
      BY <1>2, <2>2, <3>1 DEF Marks
  <2> QED
    BY <2>1, <2>2 DEF Marks
<1> HIDE DEF x
<1> QED
  BY <1>4, <1>5, <1>6 DEF Sooner

\* The number of callers below a level grows with the level.
LEMMA ProfileAscends == TypeOK => Ascending(Profile, Allowed, Cardinality(Callers))
<1> SUFFICES ASSUME TypeOK PROVE Ascending(Profile, Allowed, Cardinality(Callers))
  OBVIOUS
<1>1. Allowed \in Nat /\ Cardinality(Callers) \in Nat
  BY RuleType, FS_CardinalityType DEF TypeOK
<1>2. \A c \in Callers : Level(c) \in Int
  BY DEF TypeOK, Level
<1>3. \A j \in Int : /\ IsFiniteSet(Under(j)) /\ Cardinality(Under(j)) \in Nat
                     /\ Cardinality(Under(j)) <= Cardinality(Callers)
  BY FS_Subset, FS_CardinalityType DEF Under
<1>4. ASSUME NEW i \in Int, NEW j \in Int, i < j
      PROVE  Cardinality(Under(i)) <= Cardinality(Under(j))
  <2>1. Under(i) \in SUBSET Under(j)
    BY <1>2, <1>4 DEF Under
  <2> QED
    BY <1>3, <2>1, FS_Subset
<1>5. Profile \in [1..Allowed -> 0..Cardinality(Callers)]
  BY <1>1, <1>3 DEF Profile
<1>6. \A i, j \in 1..Allowed : i < j => Profile[i] <= Profile[j]
  BY <1>4 DEF Profile
<1> QED
  BY <1>5, <1>6 DEF Ascending

\* A SET lets no caller come to stand below the level where the first one leaves.
LEMMA SetFalls ==
    ASSUME TypeOK, TypeOK', NEW c \in Callers, Set(c), count[c] \in 1..Allowed
    PROVE  \E j \in 1..Allowed : /\ Profile'[j] < Profile[j]
                                 /\ \A i \in 1..j - 1 : Profile[i] = Profile'[i]
<1>0. PICK v \in 1..Allowed : v = count[c]
  OBVIOUS
<1>1. rule' = rule /\ Allowed' = Allowed /\ Allowed \in Nat
  BY RuleType DEF Set, Allowed, TypeOK
<1>2. stored \in Nat /\ pc[c] = "set" /\ stored' = v
  BY <1>0 DEF TypeOK, Set
<1>3. \A d \in Callers : Level(d)' = IF d = c \/ pc[d] # "set" THEN v ELSE Level(d)
  BY <1>0 DEF Set, Admitted, TypeOK, Level
<1>4. /\ Level(c) = v - 1
      /\ \A d \in Callers : Level(d) \in Int /\ (pc[d] # "set" => Level(d) = stored)
  BY <1>0, <1>2 DEF Level, TypeOK
<1>5. ASSUME NEW j \in 1..Allowed, NEW d \in Under(j) \ Under(j)',
             \A i \in 1..j : Under(i)' \subseteq Under(i),
             \A i \in 1..j - 1 : Under(i) \subseteq Under(i)'
      PROVE  /\ Profile'[j] < Profile[j]
             /\ \A i \in 1..j - 1 : Profile[i] = Profile'[i]
  <2>1. IsFiniteSet(Under(j)) /\ Cardinality(Under(j)) \in Nat
    BY FS_Subset, FS_CardinalityType DEF Under
  <2>2. Under(j)' \in SUBSET Under(j) /\ Under(j)' # Under(j)
    BY <1>5
  <2>3. Cardinality(Under(j)') \in Nat /\ Cardinality(Under(j)') < Cardinality(Under(j))
    BY <2>1, <2>2, FS_Subset, FS_CardinalityType
  <2>4. \A i \in 1..j - 1 : Under(i)' = Under(i)
    <3> SUFFICES ASSUME NEW i \in 1..j - 1 PROVE Under(i)' = Under(i)
      OBVIOUS
    <3>1. i \in 1..j
      BY <1>1
    <3> QED
      BY <1>5, <3>1
  <2>5. \A i \in 1..Allowed : Profile[i] = Cardinality(Under(i)) /\ Profile'[i] = Cardinality(Under(i)')
    BY <1>1 DEF Profile
  <2> QED
    BY <1>1, <2>3, <2>4, <2>5
<1>6. CASE stored < v /\ \E d \in Callers : pc[d] # "set"
  <2>1. PICK d \in Callers : pc[d] # "set"
    BY <1>6
  <2>2. PICK j \in 1..Allowed : j = stored + 1
    BY <1>1, <1>2, <1>6
  <2>3. d \in Under(j) \ Under(j)'
    BY <1>1, <1>2, <1>3, <1>4, <1>6, <2>1, <2>2 DEF Under
  <2>4. ASSUME NEW i \in 1..j PROVE Under(i)' \subseteq Under(i)
    BY <1>1, <1>2, <1>3, <1>4, <1>6, <2>2 DEF Under
  <2>5. ASSUME NEW i \in 1..j - 1 PROVE Under(i) \subseteq Under(i)'
    BY <1>1, <1>2, <1>3, <1>4, <1>6, <2>2 DEF Under
  <2>6. \A i \in 1..j : Under(i)' \subseteq Under(i)
    BY <2>4
  <2>7. \A i \in 1..j - 1 : Under(i) \subseteq Under(i)'
    BY <2>5
  <2> QED
    BY <1>5, <2>3, <2>6, <2>7
<1>7. CASE ~(stored < v /\ \E d \in Callers : pc[d] # "set")
  <2>1. c \in Under(v) \ Under(v)'
    BY <1>1, <1>2, <1>3, <1>4 DEF Under
  <2>2. ASSUME NEW i \in 1..v PROVE Under(i)' \subseteq Under(i)
    BY <1>1, <1>2, <1>3, <1>4, <1>7 DEF Under
  <2>3. ASSUME NEW i \in 1..v - 1 PROVE Under(i) \subseteq Under(i)'
    BY <1>1, <1>2, <1>3, <1>4, <1>7 DEF Under
  <2>4. \A i \in 1..v : Under(i)' \subseteq Under(i)
    BY <2>2
  <2>5. \A i \in 1..v - 1 : Under(i) \subseteq Under(i)'
    BY <2>3
  <2> QED
    BY <1>5, <2>1, <2>4, <2>5
<1> QED
  BY <1>6, <1>7

CountedInv == TypeOK /\ Counted

\* What the callers have passed is a choice, and a SET passes one more.
LEMMA CountedStep == CountedInv /\ [Next]_vars => CountedInv'
<1> SUFFICES ASSUME TypeOK, Counted, [Next]_vars, TypeOK', Limiting', ~disturbed'
             PROVE  /\ total' <= Cardinality(Passed(Here, All, Allowed))'
                    /\ \A c \in Callers : pc'[c] = "set" => count'[c] \in (1..Allowed)'
  BY TypeStep DEF CountedInv, Counted
<1>1. rule' = rule /\ Limiting /\ Allowed' = Allowed /\ All' = All /\ Allowed \in Nat /\ All \in Nat
  <2>1. rule' = rule
    BY DEF Next, vars, Tick, Refuse, Get, Set, SetFails, Reset
  <2>2. Cardinality(Callers) \in Nat
    BY FS_CardinalityType
  <2> QED
    BY <2>1, <2>2, RuleType DEF Limiting, Allowed, All, TypeOK
<1>2. ~disturbed
  BY DEF Next, vars, Tick, Refuse, Get, Set, SetFails, Reset
<1>3. /\ total <= Cardinality(Passed(Here, All, Allowed))
      /\ \A c \in Callers : pc[c] = "set" => count[c] \in 1..Allowed
  BY <1>1, <1>2 DEF Counted
<1>4. ASSUME total' = total, \A c \in Callers : Level(c)' = Level(c)
      PROVE  total' <= Cardinality(Passed(Here, All, Allowed))'
  <2>1. \A j : Under(j)' = Under(j)
    BY <1>4 DEF Under
  <2>2. Profile' = Profile
    BY <1>1, <2>1 DEF Profile
  <2>3. Here' = Here
    BY <1>1, <2>2 DEF Here, Marks
  <2> QED
    BY <1>1, <1>3, <1>4, <2>3 DEF Passed, Choices, Sooner
<1>5. CASE UNCHANGED vars
  BY <1>1, <1>3, <1>4, <1>5 DEF vars, Level
<1>6. CASE Tick
  BY <1>1, <1>3, <1>4, <1>6 DEF Tick, Level
<1>7. ASSUME NEW c \in Callers, Refuse(c)
      PROVE  /\ total' <= Cardinality(Passed(Here, All, Allowed))'
             /\ \A d \in Callers : pc'[d] = "set" => count'[d] \in (1..Allowed)'
  BY <1>1, <1>3, <1>4, <1>7 DEF Refuse, vars, Level
<1>8. ASSUME NEW c \in Callers, Get(c)
      PROVE  /\ total' <= Cardinality(Passed(Here, All, Allowed))'
             /\ \A d \in Callers : pc'[d] = "set" => count'[d] \in (1..Allowed)'
  <2>1. PICK n \in Reads : Admits(n) /\ count' = [count EXCEPT ![c] = n + 1] /\ n = stored
    BY <1>8 DEF Get
  <2>2. n \in Nat /\ n + 1 \in 1..Allowed
    BY <1>1, <2>1, ReadsBounded
  <2>3. pc[c] = "idle" /\ pc' = [pc EXCEPT ![c] = "set"] /\ stored' = stored /\ total' = total
    BY <1>8 DEF Get
  <2>4. \A d \in Callers : Level(d)' = Level(d)
    BY <2>1, <2>2, <2>3 DEF TypeOK, Level
  <2>5. \A d \in Callers : pc'[d] = "set" => count'[d] \in (1..Allowed)'
    BY <1>1, <1>3, <2>1, <2>2, <2>3 DEF TypeOK
  <2> QED
    BY <1>4, <2>3, <2>4, <2>5
<1>9. ASSUME NEW c \in Callers, Set(c)
      PROVE  /\ total' <= Cardinality(Passed(Here, All, Allowed))'
             /\ \A d \in Callers : pc'[d] = "set" => count'[d] \in (1..Allowed)'
  <2>1. pc[c] = "set" /\ total' = total + 1 /\ total \in Nat
    BY <1>9 DEF Set, Admitted, TypeOK
  <2>2. \A d \in Callers : pc'[d] = "set" => count'[d] \in (1..Allowed)'
    BY <1>1, <1>3, <1>9 DEF Set, Admitted, TypeOK
  <2>3. Ascending(Profile, Allowed, Cardinality(Callers)) /\ Ascending(Profile', Allowed, Cardinality(Callers))
    <3>1. Ascending(Profile, Allowed, Cardinality(Callers))'
      BY ProfileAscends, PTL
    <3> QED
      BY <1>1, <3>1, ProfileAscends DEF Ascending
  <2>4. PICK j \in 1..Allowed : /\ Profile'[j] < Profile[j]
                                /\ \A i \in 1..j - 1 : Profile[i] = Profile'[i]
    BY <1>3, <1>9, <2>1, SetFalls
  <2>5. Cardinality(Callers) \in Nat
    BY FS_CardinalityType
  <2>6. Sooner(Marks(Profile, Allowed), Marks(Profile', Allowed))
    BY <1>1, <2>3, <2>4, <2>5, FallsAreLater
  <2>7. /\ Marks(Profile, Allowed) \in Choices(All, Allowed)
        /\ Marks(Profile', Allowed) \in Choices(All, Allowed)
    BY <1>1, <2>3, <2>5, MarksAreChosen DEF All
  <2>8. Here' = Marks(Profile', Allowed)
    BY <1>1 DEF Here, Marks
  <2>9. Cardinality(Passed(Here, All, Allowed)) < Cardinality(Passed(Marks(Profile', Allowed), All, Allowed))
    BY <1>1, <2>6, <2>7, LaterPassesMore DEF Here
  <2>10. /\ Cardinality(Passed(Here, All, Allowed)) \in Nat
         /\ Cardinality(Passed(Marks(Profile', Allowed), All, Allowed)) \in Nat
    BY <1>1, <2>7, LaterPassesMore DEF Here
  <2>11. Passed(Here, All, Allowed)' = Passed(Marks(Profile', Allowed), All, Allowed)
    BY <1>1, <2>8 DEF Passed, Choices, Sooner
  <2>12. total' <= Cardinality(Passed(Marks(Profile', Allowed), All, Allowed))
    BY <1>3, <2>1, <2>9, <2>10
  <2> QED
    BY <2>2, <2>11, <2>12
<1>10. ASSUME NEW c \in Callers, SetFails(c) \/ Reset(c) PROVE FALSE
  BY <1>10 DEF SetFails, Reset
<1> QED
  BY <1>5, <1>6, <1>7, <1>8, <1>9, <1>10 DEF Next

\* Until the key expires, is reset or a command fails, callers whose GETs and SETs
\* interleave at will are let through fewer times than there are ways to choose
\* the limit out of the limit and their number, for any of both (LimitByKey, which is
\* there "to limit action using redis", and the middlewares).
THEOREM OverAdmissionIsBounded == Spec => []OverAdmissionBounded
<1>1. Init => CountedInv
  <2> SUFFICES ASSUME Init PROVE Counted
    BY TypeInit DEF CountedInv
  <2>1. total = 0 /\ TypeOK /\ \A c \in Callers : pc[c] = "idle"
    BY TypeInit DEF Init
  <2>2. Allowed \in Nat /\ All \in Nat /\ Cardinality(Callers) \in Nat
    BY <2>1, RuleType, FS_CardinalityType DEF TypeOK, All
  <2>3. Here \in Choices(All, Allowed)
    BY <2>1, <2>2, ProfileAscends, MarksAreChosen DEF Here, All
  <2>4. Cardinality(Passed(Here, All, Allowed)) \in Nat
    BY <2>2, <2>3, LaterPassesMore
  <2> QED
    BY <2>1, <2>4 DEF Counted
<1>2. CountedInv => OverAdmissionBounded
  <2> SUFFICES ASSUME TypeOK, Counted, Limiting, ~disturbed
               PROVE  total < Cardinality(Choices(All, Allowed))
    BY DEF CountedInv, OverAdmissionBounded, All
  <2>1. Allowed \in Nat /\ All \in Nat /\ Cardinality(Callers) \in Nat /\ total \in Nat
    BY RuleType, FS_CardinalityType DEF TypeOK, All
  <2>2. Here \in Choices(All, Allowed)
    BY <2>1, ProfileAscends, MarksAreChosen DEF Here, All
  <2>3. /\ Cardinality(Passed(Here, All, Allowed)) < Cardinality(Choices(All, Allowed))
        /\ Cardinality(Passed(Here, All, Allowed)) \in Nat /\ Cardinality(Choices(All, Allowed)) \in Nat
    BY <2>1, <2>2, LaterPassesMore
  <2> QED
    BY <2>1, <2>3 DEF Counted
<1> QED
  BY <1>1, <1>2, CountedStep, PTL DEF Spec
=============================================================================
