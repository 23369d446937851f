-------------------------- MODULE AdminServiceProofs --------------------------
(***************************************************************************)
(* Theorems about AdminService for every value of its constants.           *)
(***************************************************************************)
EXTENDS AdminService, FiniteSetTheorems, TLAPS

-----------------------------------------------------------------------------
(* Data *)

\* The values requests and slots start from are of the right kind.
LEMMA StartingValues ==
    /\ AnyBody \in Bodies
    /\ NoInput \in Inputs
    /\ Fresh \in Locals
    /\ RootRow \in Rows /\ UnusedRow \in Rows
  <1>1. AnyBody \in Bodies
    BY BodiesAssumption DEF AnyBody
  <1>2. NoInput \in Inputs
    BY <1>1, UsersAssumption DEF NoInput, Inputs, AdminOps
  <1>0. 0 \in Times
    BY BoundsAssumption DEF Times
  <1>3. Fresh \in Locals
    BY <1>0 DEF Fresh, Locals, Pwds, Plain, Plaintexts
  <1>4. RootRow \in Rows
    BY <1>0, EmailsAssumption, PasswordsAssumption, RolesAssumption
       DEF RootRow, Rows, Pwds, Plain, Plaintexts, HashPassword
  <1>5. UnusedRow \in Rows
    BY <1>4 DEF UnusedRow, Rows
  <1> QED BY <1>1, <1>2, <1>3, <1>4, <1>5

\* Hashing gives a password of the right kind.
LEMMA HashType == ASSUME NEW x \in Pwds PROVE HashPassword(x) \in Pwds
  BY DEF HashPassword, Pwds

\* An update whose role exists makes a row of a row.
LEMMA UpdatedType ==
    ASSUME NEW row \in Rows, NEW b \in Bodies, NEW pwd \in Pwds, b.role \in Roles
    PROVE  Updated(row, b, pwd) \in Rows
  <1>1. b.email \in Emails /\ b.active \in BOOLEAN
    BY BodiesAssumption
  <1> QED BY <1>1 DEF Updated, Rows

\* An answer leaves the slot's own variables in their sets.
LEMMA AnswerType ==
    ASSUME TypeOK, NEW w \in Requests, NEW r \in Replies, Answer(w, r)
    PROVE  /\ pc' \in [Requests -> Stages]
           /\ input' \in [Requests -> Inputs]
           /\ local' \in [Requests -> Locals]
           /\ reply' \in [Requests -> Replies]
  BY StartingValues DEF TypeOK, Answer, Goto, Stages

\* Moving a slot on keeps the stages' type.
LEMMA GotoType ==
    ASSUME TypeOK, NEW w \in Requests, NEW s \in Stages, Goto(w, s)
    PROVE  pc' \in [Requests -> Stages]
  BY DEF TypeOK, Goto

\* The history variables stay Boolean whatever the other variables do.
LEMMA WitnessType ==
    ASSUME Witness, blind \in BOOLEAN
    PROVE  /\ vouched' \in [Requests -> BOOLEAN]
           /\ stale' \in [Requests -> BOOLEAN]
           /\ blind' \in BOOLEAN
  <1>1. vouched' \in [Requests -> BOOLEAN]
    BY Zenon DEF Witness, Vouch
  <1>2. stale' \in [Requests -> BOOLEAN]
    BY Zenon DEF Witness, Age
  <1>3. blind' \in BOOLEAN
    BY Zenon DEF Witness, Blind
  <1> QED BY <1>1, <1>2, <1>3

-----------------------------------------------------------------------------
(* Type correctness *)

\* What a step of a request may rely on besides the types: a request that
\* goes through the token middleware is one of the four operations behind it, a
\* login about to be answered knows an account that exists, and a handler runs
\* for an actor who was entitled to it.  Without the first two TypeOK is not
\* inductive.
StageFacts(w) ==
    /\ pc[w] \in {"verify"} \cup HandlerStages => input[w].op \in AdminOps
    /\ pc[w] = "issue" => local[w].id \in {u \in Users : users[u].status # "absent"}
    /\ pc[w] \in HandlerStages => vouched[w]

TypeInv == TypeOK /\ \A w \in Requests : StageFacts(w)

\* The seeded table is of its type.
LEMMA InitType == Init => TypeOK
  <1> SUFFICES ASSUME Init PROVE TypeOK
    OBVIOUS
  <1>1. /\ vouched \in [Requests -> BOOLEAN]
        /\ stale \in [Requests -> BOOLEAN]
        /\ blind \in BOOLEAN
    BY Zenon DEF Init
  <1> QED BY <1>1, StartingValues, UsersAssumption DEF Init, TypeOK, Stages, Replies

\* The arrival of a request keeps the types.
LEMMA BeginType ==
    ASSUME TypeOK, NEW w \in Requests, BeginSome(w), Witness
    PROVE  TypeOK'
  <1>1. ASSUME NEW s \in Stages, NEW in \in Inputs, Begin(w, s, in)
        PROVE  TypeOK'
    <2>1. pc' \in [Requests -> Stages]
      BY <1>1, GotoType DEF Begin
    <2>2. input' \in [Requests -> Inputs]
      BY <1>1 DEF Begin, TypeOK
    <2>3. reply' \in [Requests -> Replies]
      BY <1>1 DEF Begin, TypeOK, Replies
    <2>4. begun' \in Nat
      BY <1>1 DEF Begin, TypeOK
    <2>5. UNCHANGED <<users, issued, local>>
      BY <1>1 DEF Begin
    <2> QED BY <2>1, <2>2, <2>3, <2>4, <2>5, WitnessType DEF TypeOK
  <1>2. {"verify", "find"} \subseteq Stages
    BY DEF Stages, LoginStages
  <1>3. issued \subseteq Users /\ AnyBody \in Bodies
    BY StartingValues DEF TypeOK
  <1>4. CASE BeginCreate(w)
    BY <1>1, <1>2, <1>3, <1>4 DEF BeginCreate, Inputs, AdminOps
  <1>5. CASE BeginUpdate(w)
    BY <1>1, <1>2, <1>3, <1>5 DEF BeginUpdate, Inputs, AdminOps
  <1>6. CASE BeginDelete(w)
    BY <1>1, <1>2, <1>3, <1>6 DEF BeginDelete, Inputs, AdminOps
  <1>7. CASE BeginRead(w)
    BY <1>1, <1>2, <1>3, <1>7 DEF BeginRead, Inputs, AdminOps
  <1>8. CASE BeginLogin(w)
    BY <1>1, <1>2, <1>3, <1>8 DEF BeginLogin, Inputs
  <1> QED BY <1>4, <1>5, <1>6, <1>7, <1>8 DEF BeginSome

\* So does the next call of a request under way.
LEMMA ProceedType ==
    ASSUME TypeInv, NEW w \in Requests, Proceed(w), Witness
    PROVE  TypeOK'
  <1>0. TypeOK /\ StageFacts(w)
    BY DEF TypeInv
  <1>1. /\ vouched' \in [Requests -> BOOLEAN]
        /\ stale' \in [Requests -> BOOLEAN]
        /\ blind' \in BOOLEAN
    BY <1>0, WitnessType DEF TypeOK
  <1>2. {"idle", "verify", "find", "issue", "load", "check", "hash", "write",
         "destroy", "read"} \subseteq Stages
    BY DEF Stages, LoginStages, HandlerStages
  <1>3. CASE VerifyAdmits(w)
    <2>1. input[w].op \in AdminOps
      BY <1>0, <1>3 DEF VerifyAdmits, StageFacts
    <2>2. HandlerOf[input[w].op] \in Stages
      BY <1>0, <1>2, <2>1 DEF HandlerOf, AdminOps
    <2> QED BY <1>0, <1>1, <1>3, <2>2, GotoType DEF VerifyAdmits, TypeOK
  <1>4. CASE VerifyRefuses(w)
    BY <1>0, <1>1, <1>4, AnswerType DEF VerifyRefuses, TypeOK, Replies
  <1>5. CASE LoadOld(w)
    <2>1. CASE \E u \in FindByID(input[w].target) :
                  /\ local' = [local EXCEPT ![w] = [@ EXCEPT !.id = u, !.pwd = users[u].pwd]]
                  /\ Goto(w, "check")
                  /\ UNCHANGED <<input, reply>>
      <3>1. PICK u \in Users :
               local' = [local EXCEPT ![w] = [local[w] EXCEPT !.id = u, !.pwd = users[u].pwd]]
        BY <2>1 DEF FindByID
      <3>2. [local[w] EXCEPT !.id = u, !.pwd = users[u].pwd] \in Locals
        BY <1>0 DEF TypeOK, Locals, Rows
      <3>3. local' \in [Requests -> Locals]
        BY <1>0, <3>1, <3>2 DEF TypeOK
      <3> QED BY <1>0, <1>1, <1>2, <1>5, <2>1, <3>3, GotoType DEF LoadOld, TypeOK
    <2>2. CASE Answer(w, "error")
      BY <1>0, <1>1, <1>5, <2>2, AnswerType DEF LoadOld, TypeOK, Replies
    <2> QED BY <1>5, <2>1, <2>2 DEF LoadOld
  <1>6. CASE CheckRefuses(w)
    BY <1>0, <1>1, <1>6, AnswerType DEF CheckRefuses, TypeOK, Replies
  <1>7. CASE CheckAccepts(w)
    <2>1. Plain(input[w].body.pwd) \in Pwds
      BY <1>0, BodiesAssumption DEF TypeOK, Inputs, Plain, Pwds
    <2>2. local' \in [Requests -> Locals]
      BY <1>0, <1>7, <2>1 DEF CheckAccepts, TypeOK, Locals
    <2> QED BY <1>0, <1>1, <1>2, <1>7, <2>2, GotoType DEF CheckAccepts, TypeOK
  <1>8. CASE HashAndStamp(w)
    <2>1. HashPassword(local[w].pwd) \in Pwds
      BY <1>0, HashType DEF TypeOK, Locals
    <2>2. local' \in [Requests -> Locals]
      BY <1>0, <1>8, <2>1 DEF HashAndStamp, TypeOK, Locals
    <2> QED BY <1>0, <1>1, <1>2, <1>8, <2>2, GotoType DEF HashAndStamp, TypeOK
  <1>18. CASE HashFails(w)
    BY <1>0, <1>1, <1>18, AnswerType DEF HashFails, TypeOK, Replies
  <1>9. WriteAnswers \subseteq Replies
    BY DEF WriteAnswers, Replies
  <1>10. CASE Store(w)
    <2>1. PICK u \in Users, r \in WriteAnswers :
              /\ users' = [users EXCEPT ![u] = Row(input[w].body, local[w].pwd, local[w].now)]
              /\ Answer(w, r)
      BY <1>0, <1>10 DEF Store
    <2>2. Row(input[w].body, local[w].pwd, local[w].now) \in Rows
      BY <1>0, <1>10, BodiesAssumption DEF Store, Row, Rows, TypeOK, Inputs, Locals
    <2>3. users' \in [Users -> Rows]
      BY <1>0, <2>1, <2>2 DEF TypeOK
    <2> QED BY <1>0, <1>1, <1>9, <1>10, <2>1, <2>3, AnswerType DEF Store, TypeOK
  <1>11. CASE UpdateRow(w)
    <2>1. PICK u \in Users, r \in WriteAnswers :
              /\ users' = [users EXCEPT ![u] = Updated(users[u], input[w].body, local[w].pwd)]
              /\ Answer(w, r)
      BY <1>0, <1>11 DEF UpdateRow, FindByID
    <2>2. input[w].body \in Bodies /\ local[w].pwd \in Pwds /\ users[u] \in Rows
      BY <1>0 DEF TypeOK, Inputs, Locals
    <2>3. input[w].body.role \in Roles
      BY <1>11 DEF UpdateRow
    <2>4. Updated(users[u], input[w].body, local[w].pwd) \in Rows
      BY <2>2, <2>3, UpdatedType
    <2>5. users' \in [Users -> Rows]
      BY <1>0, <2>1, <2>4 DEF TypeOK
    <2> QED BY <1>0, <1>1, <1>9, <1>11, <2>1, <2>5, AnswerType DEF UpdateRow, TypeOK
  <1>12. CASE WriteFails(w)
    BY <1>0, <1>1, <1>12, AnswerType DEF WriteFails, TypeOK, Replies
  <1>13. CASE Destroy(w)
    <2>1. users' \in [Users -> Rows]
      BY <1>0, <1>13 DEF Destroy, FindByID, TypeOK, Rows
    <2>2. \E r \in Replies : Answer(w, r)
      BY <1>0, <1>9, <1>13 DEF Destroy, Replies
    <2> QED BY <1>0, <1>1, <1>13, <2>1, <2>2, AnswerType DEF Destroy, TypeOK
  <1>14. CASE Read(w)
    BY <1>0, <1>1, <1>14, AnswerType DEF Read, TypeOK, Replies
  <1>15. CASE LoginRefuses(w)
    BY <1>0, <1>1, <1>15, AnswerType DEF LoginRefuses, TypeOK, Replies
  <1>16. CASE LoginFinds(w)
    <2>1. local' \in [Requests -> Locals]
      BY <1>0, <1>16 DEF LoginFinds, TypeOK, Locals
    <2> QED BY <1>0, <1>1, <1>2, <1>16, <2>1, GotoType DEF LoginFinds, TypeOK
  <1>17. CASE IssueToken(w)
    <2>1. issued' \subseteq Users
      BY <1>0, <1>17 DEF IssueToken, TypeOK, StageFacts
    <2> QED BY <1>0, <1>1, <1>17, <2>1, AnswerType DEF IssueToken, TypeOK, Replies
  <1> QED BY <1>0, <1>3, <1>4, <1>5, <1>6, <1>7, <1>8, <1>10, <1>11, <1>12, <1>13, <1>14,
             <1>15, <1>16, <1>17, <1>18 DEF Proceed

-----------------------------------------------------------------------------
(* The facts about stages *)

\* A step of one slot leaves the others where they are.
LEMMA Frame ==
    ASSUME TypeOK, NEW w \in Requests, BeginSome(w) \/ Proceed(w),
           NEW x \in Requests, x # w
    PROVE  pc'[x] = pc[x] /\ input'[x] = input[x] /\ local'[x] = local[x]
  <1> USE DEF TypeOK, Goto
  <1>1. ASSUME NEW r, Answer(w, r)
        PROVE  pc'[x] = pc[x] /\ input'[x] = input[x] /\ local'[x] = local[x]
    BY <1>1 DEF Answer
  <1>2. ASSUME NEW s, NEW in, Begin(w, s, in)
        PROVE  pc'[x] = pc[x] /\ input'[x] = input[x] /\ local'[x] = local[x]
    BY <1>2 DEF Begin
  <1>3. CASE BeginSome(w)
    BY <1>2, <1>3 DEF BeginSome, BeginCreate, BeginUpdate, BeginDelete, BeginRead, BeginLogin
  <1>4. CASE VerifyAdmits(w) \/ VerifyRefuses(w)
    BY <1>1, <1>4 DEF VerifyAdmits, VerifyRefuses
  <1>5. CASE LoadOld(w) \/ CheckRefuses(w) \/ HashFails(w)
    BY <1>1, <1>5 DEF LoadOld, CheckRefuses, HashFails
  <1>6. CASE CheckAccepts(w) \/ HashAndStamp(w)
    BY <1>6 DEF CheckAccepts, HashAndStamp
  <1>7. CASE Store(w) \/ UpdateRow(w) \/ WriteFails(w)
    BY <1>1, <1>7 DEF Store, UpdateRow, WriteFails
  <1>8. CASE Destroy(w) \/ Read(w)
    BY <1>1, <1>8 DEF Destroy, Read
  <1>9. CASE LoginRefuses(w) \/ LoginFinds(w) \/ IssueToken(w)
    BY <1>1, <1>9 DEF LoginRefuses, LoginFinds, IssueToken
  <1> QED BY <1>3, <1>4, <1>5, <1>6, <1>7, <1>8, <1>9 DEF Proceed

\* What a step can do to the table: insert a row, rewrite a live one, or mark a
\* live one deleted, leaving the tokens alone.
Inserts(u, row) == /\ users[u].status = "absent" /\ row.status = "live"
                   /\ users' = [users EXCEPT ![u] = row]
Rewrites(u, row) == /\ users[u].status = "live" /\ row.status = "live"
                    /\ users' = [users EXCEPT ![u] = row]
Removes(u) == /\ users[u].status = "live"
              /\ users' = [users EXCEPT ![u] = [users[u] EXCEPT !.status = "deleted"]]

TableChange == \E u \in Users :
    \/ \E row \in Rows : Inserts(u, row) \/ Rewrites(u, row)
    \/ Removes(u)

\* Only the INSERT, the UPDATE and the soft delete touch the table.
LEMMA TableKept ==
    ASSUME NEW w \in Requests, BeginSome(w) \/ Proceed(w),
           ~Store(w), ~UpdateRow(w), ~Destroy(w)
    PROVE  users' = users
  <1>1. CASE BeginSome(w)
    BY <1>1 DEF BeginSome, BeginCreate, BeginUpdate, BeginDelete, BeginRead, BeginLogin, Begin
  <1>2. CASE VerifyAdmits(w) \/ VerifyRefuses(w) \/ LoadOld(w) \/ CheckRefuses(w)
    BY <1>2 DEF VerifyAdmits, VerifyRefuses, LoadOld, CheckRefuses
  <1>3. CASE CheckAccepts(w) \/ HashAndStamp(w) \/ HashFails(w) \/ WriteFails(w) \/ Read(w)
    BY <1>3 DEF CheckAccepts, HashAndStamp, HashFails, WriteFails, Read
  <1>4. CASE LoginRefuses(w) \/ LoginFinds(w) \/ IssueToken(w)
    BY <1>4 DEF LoginRefuses, LoginFinds, IssueToken
  <1> QED BY <1>1, <1>2, <1>3, <1>4 DEF Proceed

\* Each of these changes one row, and a step that does signs no token.
LEMMA TableSteps ==
    ASSUME TypeOK, NEW w \in Requests, BeginSome(w) \/ Proceed(w)
    PROVE  \/ users' = users
           \/ TableChange /\ issued' = issued
  <1>1. CASE Store(w)
    <2>1. PICK u \in Users :
              /\ users[u].status = "absent"
              /\ users' = [users EXCEPT ![u] = Row(input[w].body, local[w].pwd, local[w].now)]
      BY <1>1 DEF Store
    <2>2. /\ Row(input[w].body, local[w].pwd, local[w].now) \in Rows
          /\ Row(input[w].body, local[w].pwd, local[w].now).status = "live"
      BY <1>1, BodiesAssumption DEF Store, Row, Rows, TypeOK, Inputs, Locals
    <2> QED BY <1>1, <2>1, <2>2 DEF Store, TableChange, Inserts
  <1>2. CASE UpdateRow(w)
    <2>1. PICK u \in Users :
              /\ users[u].status = "live"
              /\ users' = [users EXCEPT ![u] = Updated(users[u], input[w].body, local[w].pwd)]
      BY <1>2 DEF UpdateRow, FindByID, Live
    <2>2. users[u] \in Rows /\ input[w].body \in Bodies /\ local[w].pwd \in Pwds
      BY DEF TypeOK, Inputs, Locals
    <2>3. /\ Updated(users[u], input[w].body, local[w].pwd) \in Rows
          /\ Updated(users[u], input[w].body, local[w].pwd).status = "live"
      BY <1>2, <2>1, <2>2, UpdatedType DEF UpdateRow, Updated, Rows
    <2> QED BY <1>2, <2>1, <2>3 DEF UpdateRow, TableChange, Rewrites
  <1>3. CASE Destroy(w)
    BY <1>3 DEF Destroy, FindByID, Live, TableChange, Removes
  <1>4. CASE ~Store(w) /\ ~UpdateRow(w) /\ ~Destroy(w)
    BY <1>4, TableKept
  <1> QED BY <1>1, <1>2, <1>3, <1>4

\* Only the last step of a login gives out a token.
LEMMA OnlyLoginIssues ==
    ASSUME NEW w \in Requests, BeginSome(w) \/ Proceed(w), ~IssueToken(w)
    PROVE  issued' = issued
  <1>1. CASE BeginSome(w)
    BY <1>1 DEF BeginSome, BeginCreate, BeginUpdate, BeginDelete, BeginRead, BeginLogin, Begin
  <1>2. CASE VerifyAdmits(w) \/ VerifyRefuses(w) \/ LoadOld(w) \/ CheckRefuses(w)
    BY <1>2 DEF VerifyAdmits, VerifyRefuses, LoadOld, CheckRefuses
  <1>3. CASE CheckAccepts(w) \/ HashAndStamp(w) \/ Store(w) \/ UpdateRow(w) \/ WriteFails(w)
    BY <1>3 DEF CheckAccepts, HashAndStamp, Store, UpdateRow, WriteFails
  <1>5. CASE HashFails(w)
    BY <1>5 DEF HashFails
  <1>4. CASE Destroy(w) \/ Read(w) \/ LoginRefuses(w) \/ LoginFinds(w)
    BY <1>4 DEF Destroy, Read, LoginRefuses, LoginFinds
  <1> QED BY <1>1, <1>2, <1>3, <1>4, <1>5 DEF Proceed

\* An id that is in use stays in use.
LEMMA UsedStaysUsed ==
    ASSUME TypeOK, NEW w \in Requests, BeginSome(w) \/ Proceed(w),
           NEW u \in Users, users[u].status # "absent"
    PROVE  users'[u].status # "absent"
  BY TableSteps DEF TypeOK, TableChange, Inserts, Rewrites, Removes, Rows

\* A request once vouched for stays so until it is answered.
LEMMA VouchedStays ==
    ASSUME Witness, NEW x \in Requests, vouched[x], pc[x] # "idle", pc'[x] # "idle"
    PROVE  vouched'[x]
  BY DEF Witness, Vouch

\* A step of one slot leaves what is known of the others.
LEMMA OthersFacts ==
    ASSUME TypeInv, NEW w \in Requests, BeginSome(w) \/ Proceed(w), Witness,
           NEW x \in Requests, x # w
    PROVE  StageFacts(x)'
  <1>1. pc'[x] = pc[x] /\ input'[x] = input[x] /\ local'[x] = local[x]
    BY Frame DEF TypeInv
  <1>2. TypeOK /\ StageFacts(x)
    BY DEF TypeInv
  <1>3. ASSUME pc[x] \in HandlerStages PROVE vouched'[x]
    BY <1>1, <1>2, <1>3, VouchedStays DEF StageFacts, HandlerStages
  <1>4. ASSUME pc[x] = "issue"
        PROVE  local'[x].id \in Users /\ users'[local'[x].id].status # "absent"
    BY <1>1, <1>2, <1>4, UsedStaysUsed DEF StageFacts
  <1> QED BY <1>1, <1>2, <1>3, <1>4 DEF StageFacts

\* A step carries on what is known of its own slot.
LEMMA OwnFacts ==
    ASSUME TypeInv, NEW w \in Requests, BeginSome(w) \/ Proceed(w), Witness
    PROVE  StageFacts(w)'
  <1>0. TypeOK /\ StageFacts(w)
    BY DEF TypeInv
  <1> USE <1>0
  <1>1. ASSUME NEW r, Answer(w, r) PROVE StageFacts(w)'
    BY <1>1 DEF TypeOK, Answer, Goto, StageFacts, HandlerStages
  <1>2. ASSUME NEW in \in Inputs, Begin(w, "verify", in), in.op \in AdminOps
        PROVE  StageFacts(w)'
    BY <1>2 DEF TypeOK, Begin, Goto, StageFacts, HandlerStages
  <1>3. CASE BeginCreate(w) \/ BeginUpdate(w) \/ BeginDelete(w) \/ BeginRead(w)
    BY <1>2, <1>3, StartingValues
       DEF TypeOK, BeginCreate, BeginUpdate, BeginDelete, BeginRead, Inputs, AdminOps
  <1>4. CASE BeginLogin(w)
    BY <1>4 DEF TypeOK, BeginLogin, Begin, Goto, StageFacts, HandlerStages
  <1>5. CASE VerifyAdmits(w)
    <2>1. input[w].op \in AdminOps
      BY <1>5 DEF VerifyAdmits, StageFacts
    <2>2. pc'[w] \in HandlerStages /\ input'[w].op = input[w].op
      BY <1>5, <2>1 DEF VerifyAdmits, TypeOK, Goto, HandlerOf, AdminOps, HandlerStages
    <2>3. Entitled(input[w].actor, input[w].op)'
      BY <1>5 DEF VerifyAdmits, Entitled, FindByID, Live
    <2>4. vouched'[w]
      BY <2>2, <2>3 DEF Witness, Vouch, HandlerStages
    <2> QED BY <2>1, <2>2, <2>4 DEF StageFacts, HandlerStages
  <1>6. ASSUME pc[w] \in HandlerStages, pc'[w] \in HandlerStages, input'[w] = input[w]
        PROVE  StageFacts(w)'
    <2>1. vouched'[w]
      BY <1>6, VouchedStays DEF StageFacts, HandlerStages
    <2> QED BY <1>6, <2>1 DEF StageFacts, HandlerStages
  <1>7. CASE LoadOld(w)
    BY <1>1, <1>6, <1>7 DEF LoadOld, TypeOK, Goto, HandlerStages
  <1>8. CASE CheckAccepts(w) \/ HashAndStamp(w)
    BY <1>6, <1>8 DEF CheckAccepts, HashAndStamp, TypeOK, Goto, HandlerStages
  <1>9. CASE LoginFinds(w)
    <2>1. PICK u \in Users : /\ users[u].status # "absent"
                              /\ local' = [local EXCEPT ![w].id = u]
      <3>1. PICK found \in FindByEmail(input[w].body.email), u \in Users :
                u \in found /\ local' = [local EXCEPT ![w].id = u]
        BY <1>9 DEF LoginFinds
      <3>2. u \in Matching(input[w].body.email)
        BY <3>1 DEF FindByEmail, Newest
      <3> QED BY <3>1, <3>2 DEF Matching, Live
    <2>2. pc'[w] = "issue" /\ users' = users
      BY <1>9 DEF LoginFinds, TypeOK, Goto
    <2>3. local'[w].id = u
      BY <2>1 DEF TypeOK, Locals
    <2> QED BY <2>1, <2>2, <2>3 DEF StageFacts, HandlerStages
  <1>10. CASE VerifyRefuses(w) \/ CheckRefuses(w) \/ Store(w) \/ UpdateRow(w) \/ WriteFails(w)
    BY <1>1, <1>10 DEF VerifyRefuses, CheckRefuses, Store, UpdateRow, WriteFails
  <1>12. CASE HashFails(w)
    BY <1>1, <1>12 DEF HashFails
  <1>11. CASE Destroy(w) \/ Read(w) \/ LoginRefuses(w) \/ IssueToken(w)
    BY <1>1, <1>11 DEF Destroy, Read, LoginRefuses, IssueToken
  <1> QED BY <1>3, <1>4, <1>5, <1>7, <1>8, <1>9, <1>10, <1>11, <1>12 DEF BeginSome, Proceed

\* TypeInv is inductive.
LEMMA InitInv == Init => TypeInv
  <1> SUFFICES ASSUME Init PROVE TypeInv
    OBVIOUS
  <1>1. TypeOK
    BY InitType
  <1>2. ASSUME NEW w \in Requests PROVE StageFacts(w)
    BY DEF Init, StageFacts, HandlerStages
  <1> QED BY <1>1, <1>2 DEF TypeInv

\* The invariant is kept by every step.
LEMMA NextInv == TypeInv /\ [Next]_vars => TypeInv'
  <1> SUFFICES ASSUME TypeInv, [Next]_vars PROVE TypeInv'
    OBVIOUS
  <1>1. ASSUME NEW w \in Requests, BeginSome(w) \/ Proceed(w), Witness
        PROVE  TypeInv'
    <2>1. TypeOK'
      BY <1>1, BeginType, ProceedType DEF TypeInv
    <2>2. ASSUME NEW x \in Requests PROVE StageFacts(x)'
      BY <1>1, OwnFacts, OthersFacts
    <2> QED BY <2>1, <2>2 DEF TypeInv
  <1>2. CASE UNCHANGED vars
    BY <1>2 DEF vars, history, TypeInv, TypeOK, StageFacts
  <1> QED BY <1>1, <1>2 DEF Next, Finished

\* The type invariant and what is known at each stage hold in every state.
THEOREM Invariance == Spec => []TypeInv
  BY InitInv, NextInv, PTL DEF Spec

\* Every variable keeps to its set, for any number of slots, users, bodies and
\* whether or not calls fail.
THEOREM TypeCorrect == Spec => []TypeOK
  <1>1. TypeInv => TypeOK
    BY DEF TypeInv
  <1> QED BY <1>1, Invariance, PTL

\* No handler runs for an actor who has not been entitled to its request since
\* the request arrived (the token middleware): an account that was deleted or
\* lost the Admin role beforehand opens nothing, however requests interleave.
THEOREM HandlersRunForEntitled == Spec => []ActorEntitled
  <1>1. TypeInv => ActorEntitled
    BY DEF TypeInv, StageFacts, ActorEntitled
  <1> QED BY <1>1, Invariance, PTL

\* A deleted account never changes, whatever was on its way to it when it was
\* deleted (WHERE "deleted_at" IS NULL in Update and Destroy).
THEOREM DeletionIsFinal == Spec => DeletedIsFinal
  <1>1. TypeInv /\ [Next]_vars =>
            [\A u \in Users : users[u].status = "deleted" => users'[u] = users[u]]_vars
    <2> SUFFICES ASSUME TypeInv, Next, NEW u \in Users, users[u].status = "deleted"
                 PROVE  users'[u] = users[u]
      OBVIOUS
    <2>1. CASE \E w \in Requests : BeginSome(w) \/ Proceed(w)
      BY <2>1, TableSteps DEF TypeInv, TypeOK, TableChange, Inserts, Rewrites, Removes
    <2> QED BY <2>1 DEF Next, Finished, vars
  <1> QED BY <1>1, Invariance, PTL DEF Spec, DeletedIsFinal

-----------------------------------------------------------------------------
(* The directory of accounts *)

\* What the directory keeps of a row is of its type.
LEMMA ContentType ==
    ASSUME NEW row \in Rows
    PROVE  Content(row) \in Contents
  BY DEF Content, Contents, Rows

\* The seeded table is an initial directory.
LEMMA InitDirectory == Init => Dir!Init
  <1> SUFFICES ASSUME Init PROVE Dir!Init
    OBVIOUS
  <1> USE DEF Init
  <1>1. \A u \in Users : users[u].status = IF u = Root THEN "live" ELSE "absent"
    BY UsersAssumption DEF RootRow, UnusedRow
  <1>2. \A u \in Users : Content(users[u]) \in Contents
    BY StartingValues, ContentType
  <1>3. Content(users[Root]) = Content(RootRow)
    BY UsersAssumption
  <1> QED BY <1>1, <1>2, <1>3, UsersAssumption DEF Dir!Init

\* Every step is one of the directory, or leaves it as it is.
LEMMA StepDirectory ==
    ASSUME TypeInv, [Next]_vars
    PROVE  [Dir!Next]_(Dir!dirVars)
  <1>0. TypeOK
    BY DEF TypeInv
  <1>1. CASE UNCHANGED <<users, issued>>
    BY <1>1 DEF Dir!dirVars
  <1>2. ASSUME NEW w \in Requests, BeginSome(w) \/ Proceed(w), users' = users
        PROVE  \/ UNCHANGED <<users, issued>>
               \/ \E u \in Users : Dir!Grant(u)
    <2>1. CASE IssueToken(w)
      <3>1. StageFacts(w)
        BY DEF TypeInv
      <3>2. /\ local[w].id \in Users /\ users[local[w].id].status # "absent"
        BY <2>1, <3>1 DEF IssueToken, StageFacts
      <3>3. issued' = issued \/ issued' = issued \cup {local[w].id}
        BY <2>1 DEF IssueToken
      <3> QED BY <1>2, <3>2, <3>3 DEF Dir!Grant
    <2>2. CASE ~IssueToken(w)
      BY <1>2, <2>2, OnlyLoginIssues
    <2> QED BY <2>1, <2>2
  <1>3. ASSUME NEW u \in Users, NEW row \in Rows, issued' = issued,
               Inserts(u, row) \/ Rewrites(u, row)
        PROVE  Dir!Register(u) \/ Dir!Amend(u)
    <2>1. Dir!Put(u)
      BY <1>0, <1>3, ContentType DEF Inserts, Rewrites, TypeOK, Dir!Put
    <2>2. CASE Inserts(u, row)
      BY <1>0, <1>3, <2>1, <2>2 DEF Inserts, TypeOK, Dir!Register
    <2>3. CASE Rewrites(u, row)
      BY <1>0, <1>3, <2>1, <2>3 DEF Rewrites, TypeOK, Dir!Amend
    <2> QED BY <1>3, <2>2, <2>3
  <1>4. ASSUME NEW u \in Users, Removes(u), issued' = issued
        PROVE  Dir!Retire(u)
    <2>1. users[u] \in Rows
      BY <1>0 DEF TypeOK
    <2>2. Content([users[u] EXCEPT !.status = "deleted"]) = Content(users[u])
      BY <2>1 DEF Content, Rows
    <2>3. [v \in Users |-> Content(users'[v])] = [v \in Users |-> Content(users[v])]
      BY <1>0, <1>4, <2>2 DEF Removes, TypeOK
    <2>4. \A v \in Users : users'[v].status = IF v = u THEN "deleted" ELSE users[v].status
      BY <1>0, <1>4, <2>1 DEF Removes, TypeOK, Rows
    <2> QED BY <1>4, <2>3, <2>4 DEF Removes, Dir!Retire
  <1>5. ASSUME NEW w \in Requests, BeginSome(w) \/ Proceed(w)
        PROVE  \/ UNCHANGED <<users, issued>>
               \/ Dir!Next
    BY <1>0, <1>2, <1>3, <1>4, <1>5, TableSteps DEF TableChange, Dir!Next
  <1> QED BY <1>1, <1>5 DEF Next, Finished, vars

\* The service implements the directory for every value of the constants: the
\* handlers, interleaved and failing anywhere, change one account at a time and
\* move ids from absent to live to deleted.
THEOREM DirectoryImplemented == Spec => ImplementsDirectory
  <1>1. TypeInv /\ [Next]_vars => [Dir!Next]_(Dir!dirVars)
    BY StepDirectory
  <1> QED BY <1>1, InitDirectory, Invariance, PTL DEF Spec, ImplementsDirectory, Dir!Spec

-----------------------------------------------------------------------------
(***************************************************************************)
(* How many live accounts can share an e-mail when requests run at the     *)
(* same time, until a failed query lets a request pass the check blindly.  *)
(*                                                                         *)
(* The argument is a seating: for each e-mail, every live account that     *)
(* holds it sits on a request slot, and so does the account every update   *)
(* past its check is about to give it to; a create past its check keeps    *)
(* its own slot free for the account it will insert.  A request gets past  *)
(* the check only when nobody else holds the e-mail, and then everybody    *)
(* can be seated anew.  So there are never more holders than slots.        *)
(***************************************************************************)

\* Slot x has passed the check for e-mail e and has not written yet.
Committed(x, e) == /\ pc[x] \in {"hash", "write"}
                   /\ Lower[input[x].body.email] = Lower[e]

Seats(e, f) ==
    /\ \A u \in Matching(e) : \E x \in Requests : f[x] = u
    /\ \A x \in Requests : Committed(x, e) =>
          IF local[x].id = NoUser THEN f[x] = NoUser
          ELSE \E y \in Requests : f[y] = local[x].id

Seatings == [Requests -> Users \cup {NoUser}]

Seated == \A e \in Emails : \E f \in Seatings : Seats(e, f)

\* What a slot's locals are at each stage.
SlotFacts(x) ==
    /\ pc[x] \in {"idle", "verify", "load", "find"} => local[x].id = NoUser
    /\ pc[x] = "load" => input[x].op = "update"
    /\ pc[x] \in {"check", "hash", "write"} =>
          \/ input[x].op = "create" /\ local[x].id = NoUser
          \/ /\ input[x].op = "update"
             /\ local[x].id = input[x].target /\ input[x].target \in Users

SlotInv == TypeInv /\ \A x \in Requests : SlotFacts(x)

SharersInv == SlotInv /\ (blind \/ Seated)

-----------------------------------------------------------------------------
(* Locals *)

\* A step of one slot leaves the locals of the others as they were.
LEMMA OthersSlotFacts ==
    ASSUME SlotInv, NEW w \in Requests, BeginSome(w) \/ Proceed(w),
           NEW x \in Requests, x # w
    PROVE  SlotFacts(x)'
  <1>1. pc'[x] = pc[x] /\ input'[x] = input[x] /\ local'[x] = local[x]
    BY Frame DEF SlotInv, TypeInv
  <1>2. SlotFacts(x)
    BY DEF SlotInv
  <1> QED BY <1>1, <1>2 DEF SlotFacts

\* A step sets its own slot's locals as the next stage needs them.
LEMMA OwnSlotFacts ==
    ASSUME SlotInv, TypeOK', NEW w \in Requests, BeginSome(w) \/ Proceed(w)
    PROVE  SlotFacts(w)'
  <1>0. TypeOK /\ SlotFacts(w)
    BY DEF SlotInv, TypeInv
  <1>1. ASSUME NEW r, Answer(w, r) PROVE SlotFacts(w)'
    BY <1>0, <1>1 DEF Answer, Goto, SlotFacts, TypeOK, Fresh
  <1>2. CASE BeginSome(w)
    <2>1. ASSUME NEW s \in {"verify", "find"}, NEW in, Begin(w, s, in) PROVE SlotFacts(w)'
      BY <1>0, <2>1 DEF Begin, Goto, SlotFacts, TypeOK
    <2> QED BY <1>2, <2>1 DEF BeginSome, BeginCreate, BeginUpdate, BeginDelete, BeginRead, BeginLogin
  <1>3. CASE VerifyAdmits(w)
    <2>1. input[w].op \in AdminOps
      BY <1>3 DEF VerifyAdmits, SlotInv, TypeInv, StageFacts
    <2> QED BY <1>0, <1>3, <2>1 DEF VerifyAdmits, Goto, SlotFacts, TypeOK, HandlerOf, AdminOps
  <1>4. CASE LoadOld(w)
    <2>1. CASE \E r : Answer(w, r)
      BY <1>1, <2>1
    <2>2. CASE ~\E r : Answer(w, r)
      <3>1. PICK u \in FindByID(input[w].target) :
                /\ local' = [local EXCEPT ![w] = [local[w] EXCEPT !.id = u, !.pwd = users[u].pwd]]
                /\ Goto(w, "check")
                /\ UNCHANGED input
        BY <1>4, <2>2 DEF LoadOld
      <3>2. local'[w].id = u
        BY <1>0, <3>1 DEF TypeOK, Locals
      <3>3. input[w].op = "update"
        BY <1>4, <1>0 DEF LoadOld, SlotFacts
      <3> QED BY <1>0, <3>1, <3>2, <3>3 DEF SlotFacts, FindByID, Goto, TypeOK
    <2> QED BY <2>1, <2>2
  <1>5. CASE CheckAccepts(w)
    <2>1. local'[w].id = local[w].id
      BY <1>0, <1>5 DEF CheckAccepts, TypeOK, Locals
    <2> QED BY <1>0, <1>5, <2>1 DEF CheckAccepts, Goto, SlotFacts, TypeOK
  <1>6. CASE HashAndStamp(w)
    BY <1>0, <1>6 DEF HashAndStamp, Goto, SlotFacts, TypeOK, Locals
  <1>7. CASE LoginFinds(w)
    BY <1>0, <1>7 DEF LoginFinds, Goto, SlotFacts, TypeOK
  <1>8. CASE VerifyRefuses(w) \/ CheckRefuses(w) \/ Store(w) \/ UpdateRow(w) \/ WriteFails(w)
    BY <1>1, <1>8 DEF VerifyRefuses, CheckRefuses, Store, UpdateRow, WriteFails
  <1>10. CASE HashFails(w)
    BY <1>1, <1>10 DEF HashFails
  <1>9. CASE Destroy(w) \/ Read(w) \/ LoginRefuses(w) \/ IssueToken(w)
    BY <1>1, <1>9 DEF Destroy, Read, LoginRefuses, IssueToken
  <1> QED BY <1>2, <1>3, <1>4, <1>5, <1>6, <1>7, <1>8, <1>9, <1>10 DEF Proceed

\* What is known of the locals is known in every state.
LEMMA InitSlots == Init => SlotInv
  <1> SUFFICES ASSUME Init PROVE SlotInv
    OBVIOUS
  <1>1. \A x \in Requests : SlotFacts(x)
    BY DEF Init, SlotFacts, Fresh
  <1> QED BY <1>1, InitInv DEF SlotInv

\* Every step carries it on.
LEMMA NextSlots ==
    ASSUME SlotInv, [Next]_vars
    PROVE  SlotInv'
  <1>1. TypeInv'
    BY NextInv DEF SlotInv
  <1>2. ASSUME NEW w \in Requests, BeginSome(w) \/ Proceed(w)
        PROVE  SlotInv'
    <2>1. TypeOK'
      BY <1>1 DEF TypeInv
    <2>2. \A x \in Requests : SlotFacts(x)'
      BY <1>2, <2>1, OwnSlotFacts, OthersSlotFacts
    <2> QED BY <1>1, <2>2 DEF SlotInv
  <1>3. CASE UNCHANGED vars
    BY <1>1, <1>3 DEF vars, SlotInv, SlotFacts
  <1> QED BY <1>2, <1>3 DEF Next, Finished

-----------------------------------------------------------------------------
(* The seating *)

\* A seating still does when nobody new is to be seated.
LEMMA SmallerSeats ==
    ASSUME NEW e \in Emails, NEW f \in Seatings, Seats(e, f),
           Matching(e)' \subseteq Matching(e),
           \A x \in Requests : Committed(x, e)' =>
               Committed(x, e) /\ local'[x].id = local[x].id
    PROVE  Seats(e, f)'
  BY DEF Seats

\* The other slots are committed to what they were committed to.
LEMMA OthersCommitted ==
    ASSUME TypeOK, NEW w \in Requests, BeginSome(w) \/ Proceed(w), NEW e \in Emails,
           NEW x \in Requests, x # w
    PROVE  /\ Committed(x, e)' = Committed(x, e)
           /\ local'[x].id = local[x].id
  BY Frame DEF Committed

\* Everybody seated anew: each committed request on its own slot.
Claims(e) == [x \in Requests |-> IF Committed(x, e) THEN local[x].id ELSE NoUser]

\* Getting past the check: nobody else holds the e-mail, or the query has failed.
LEMMA SeatsCheckAccepts ==
    ASSUME SharersInv, TypeOK', Blind, ~blind', NEW w \in Requests, CheckAccepts(w),
           NEW e \in Emails, NEW f \in Seatings, Seats(e, f)
    PROVE  \E g \in Seatings : Seats(e, g)'
  <1>0. TypeOK
    BY DEF SharersInv, SlotInv, TypeInv
  <1>1. BeginSome(w) \/ Proceed(w)
    BY DEF Proceed
  <1>2. Matching(e)' = Matching(e)
    BY DEF CheckAccepts, Matching, Live
  <1>3. local'[w].id = local[w].id /\ input' = input
    BY <1>0 DEF CheckAccepts, TypeOK, Locals
  <1>4. CASE Lower[input[w].body.email] # Lower[e]
    <2>1. ~Committed(w, e)'
      BY <1>3, <1>4 DEF Committed
    <2>2. Seats(e, f)'
      BY <1>0, <1>1, <1>2, <2>1, OthersCommitted, SmallerSeats
    <2> QED BY <2>2
  <1>5. CASE Lower[input[w].body.email] = Lower[e] /\ Matching(e) = {}
    <2>1. PICK g \in Seatings : \A x \in Requests :
              g[x] = IF Committed(x, e)' THEN local'[x].id ELSE NoUser
      <3>1. Claims(e)' \in Seatings
        BY DEF Claims, Seatings, TypeOK, Locals
      <3>2. \A x \in Requests :
               Claims(e)'[x] = IF Committed(x, e)' THEN local'[x].id ELSE NoUser
        BY DEF Claims
      <3> QED BY <3>1, <3>2
    <2>2. Seats(e, g)'
      BY <1>2, <1>5, <2>1 DEF Seats
    <2> QED BY <2>2
  <1>6. CASE Lower[input[w].body.email] = Lower[e] /\ Matching(e) # {}
    <2>1. pc[w] = "check" /\ pc'[w] = "hash"
      BY <1>0 DEF CheckAccepts, Goto, TypeOK
    <2>2. PICK found \in FindByEmail(input[w].body.email) : ~TakenByOther(w, found)
      BY <2>1 DEF Blind, Refusable
    <2>3. PICK u \in Matching(e) : u = local[w].id
      <3>1. Matching(input[w].body.email) = Matching(e)
        BY <1>6 DEF Matching
      <3>2. PICK u \in Users : u \in Matching(e) /\ found = {u}
        BY <1>6, <3>1 DEF FindByEmail, Newest, Matching
      <3> QED BY <2>2, <3>2 DEF TakenByOther
    <2>4. u # NoUser /\ \E y \in Requests : f[y] = u
      BY <2>3, UsersAssumption DEF Matching, Seats
    <2>5. Seats(e, f)'
      BY <1>0, <1>1, <1>2, <1>3, <2>3, <2>4, OthersCommitted DEF Seats
    <2> QED BY <2>5
  <1> QED BY <1>4, <1>5, <1>6

\* An insert: the new account takes the slot its request kept free.
LEMMA SeatsStore ==
    ASSUME SharersInv, TypeOK', NEW w \in Requests, Store(w),
           NEW e \in Emails, NEW f \in Seatings, Seats(e, f)
    PROVE  \E g \in Seatings : Seats(e, g)'
  <1>0. TypeOK /\ SlotFacts(w) /\ (BeginSome(w) \/ Proceed(w))
    BY DEF SharersInv, SlotInv, TypeInv, Proceed
  <1>1. PICK u \in Users :
            /\ users[u].status = "absent"
            /\ users' = [users EXCEPT ![u] = Row(input[w].body, local[w].pwd, local[w].now)]
    BY DEF Store
  <1>2. \A v \in Users \ {u} : users'[v] = users[v]
    BY <1>0, <1>1 DEF TypeOK
  <1>3. users'[u].email = input[w].body.email
    BY <1>0, <1>1 DEF TypeOK, Row
  <1>4. ~Committed(w, e)'
    BY <1>0 DEF Store, Answer, Goto, Committed, TypeOK
  <1>5. CASE Lower[input[w].body.email] # Lower[e]
    <2>1. Matching(e)' \subseteq Matching(e)
      BY <1>2, <1>3, <1>5 DEF Matching, Live
    <2>2. Seats(e, f)'
      BY <1>0, <1>4, <2>1, OthersCommitted, SmallerSeats
    <2> QED BY <2>2
  <1>6. CASE Lower[input[w].body.email] = Lower[e]
    <2>1. f[w] = NoUser
      BY <1>0, <1>6 DEF Store, Committed, SlotFacts, Seats
    <2> DEFINE g == [f EXCEPT ![w] = u]
    <2>2. g \in Seatings /\ g[w] = u /\ \A x \in Requests : x # w => g[x] = f[x]
      BY DEF Seatings
    <2>3. \A v \in Users : (\E x \in Requests : f[x] = v) => \E x \in Requests : g[x] = v
      BY <2>1, <2>2, UsersAssumption
    <2>4. \A v \in Matching(e)' : v \in Users /\ (v = u \/ v \in Matching(e))
      BY <1>2 DEF Matching, Live
    <2>5. \A v \in Matching(e)' : \E x \in Requests : g[x] = v
      BY <2>2, <2>3, <2>4 DEF Seats
    <2>6. \A x \in Requests : local[x].id \in Users \cup {NoUser}
      BY <1>0 DEF TypeOK, Locals
    <2> HIDE DEF g
    <2>7. ASSUME NEW x \in Requests, Committed(x, e)'
          PROVE  IF local'[x].id = NoUser THEN g[x] = NoUser
                 ELSE \E y \in Requests : g[y] = local'[x].id
      <3>1. x # w /\ Committed(x, e) /\ local'[x].id = local[x].id
        BY <1>0, <1>4, <2>7, OthersCommitted
      <3>2. CASE local[x].id = NoUser
        BY <2>2, <3>1, <3>2 DEF Seats
      <3>3. CASE local[x].id # NoUser
        BY <2>3, <2>6, <3>1, <3>3 DEF Seats
      <3> QED BY <3>1, <3>2, <3>3
    <2>8. Seats(e, g)'
      BY <2>5, <2>7 DEF Seats
    <2> QED BY <2>2, <2>8
  <1> QED BY <1>5, <1>6

\* An update: the account it rewrites has a seat already.
LEMMA SeatsUpdateRow ==
    ASSUME SharersInv, TypeOK', NEW w \in Requests, UpdateRow(w),
           NEW e \in Emails, NEW f \in Seatings, Seats(e, f)
    PROVE  Seats(e, f)'
  <1>0. TypeOK /\ SlotFacts(w) /\ (BeginSome(w) \/ Proceed(w))
    BY DEF SharersInv, SlotInv, TypeInv, Proceed
  <1>1. PICK u \in Users :
            /\ u = input[w].target
            /\ users' = [users EXCEPT ![u] = Updated(users[u], input[w].body, local[w].pwd)]
    BY DEF UpdateRow, FindByID
  <1>2. \A v \in Users \ {u} : users'[v] = users[v]
    BY <1>0, <1>1 DEF TypeOK
  <1>3. users'[u].email = input[w].body.email
    BY <1>0, <1>1 DEF TypeOK, Rows, Updated
  <1>4. ~Committed(w, e)'
    BY <1>0 DEF UpdateRow, Answer, Goto, Committed, TypeOK
  <1>5. u \in Matching(e)' => \E y \in Requests : f[y] = u
    <2> SUFFICES ASSUME u \in Matching(e)' PROVE \E y \in Requests : f[y] = u
      OBVIOUS
    <2>1. Lower[input[w].body.email] = Lower[e]
      BY <1>3 DEF Matching
    <2>2. Committed(w, e) /\ local[w].id = u /\ u # NoUser
      BY <1>0, <1>1, <2>1, UsersAssumption DEF UpdateRow, Committed, SlotFacts
    <2> QED BY <2>2 DEF Seats
  <1>6. \A v \in Matching(e)' : v = u \/ v \in Matching(e)
    BY <1>2 DEF Matching, Live
  <1>7. \A x \in Requests : Committed(x, e)' => Committed(x, e) /\ local'[x].id = local[x].id
    BY <1>0, <1>4, OthersCommitted
  <1> QED BY <1>5, <1>6, <1>7 DEF Seats

\* The remaining steps seat nobody.
LEMMA SeatsOther ==
    ASSUME SharersInv, NEW w \in Requests, BeginSome(w) \/ Proceed(w),
           ~CheckAccepts(w), ~Store(w), ~UpdateRow(w),
           NEW e \in Emails, NEW f \in Seatings, Seats(e, f)
    PROVE  Seats(e, f)'
  <1>0. TypeOK
    BY DEF SharersInv, SlotInv, TypeInv
  <1>1. Matching(e)' \subseteq Matching(e)
    <2>1. CASE Destroy(w)
      <3>1. \A u \in Users : /\ users'[u].email = users[u].email
                             /\ users'[u].status = "live" => users[u].status = "live"
        BY <1>0, <2>1 DEF Destroy, FindByID, Live, TypeOK, Rows
      <3> QED BY <3>1 DEF Matching, Live
    <2>2. CASE ~Destroy(w)
      BY <2>2, TableKept DEF Matching, Live
    <2> QED BY <2>1, <2>2
  <1>2. Committed(w, e)' => Committed(w, e) /\ local'[w].id = local[w].id
    <2>1. ASSUME NEW r, Answer(w, r) PROVE ~Committed(w, e)'
      BY <1>0, <2>1 DEF Answer, Goto, Committed, TypeOK
    <2>2. CASE BeginSome(w)
      <3>1. ASSUME NEW s \in {"verify", "find"}, NEW in, Begin(w, s, in)
            PROVE  ~Committed(w, e)'
        BY <1>0, <3>1 DEF Begin, Goto, Committed, TypeOK
      <3> QED BY <2>2, <3>1
              DEF BeginSome, BeginCreate, BeginUpdate, BeginDelete, BeginRead, BeginLogin
    <2>3. CASE HashAndStamp(w)
      BY <1>0, <2>3 DEF HashAndStamp, Goto, Committed, TypeOK, Locals
    <2>4. CASE VerifyAdmits(w)
      <3>1. input[w].op \in AdminOps
        BY <2>4 DEF VerifyAdmits, SharersInv, SlotInv, TypeInv, StageFacts
      <3> QED BY <1>0, <2>4, <3>1 DEF VerifyAdmits, Goto, Committed, HandlerOf, AdminOps, TypeOK
    <2>5. CASE LoadOld(w)
      BY <1>0, <2>1, <2>5 DEF LoadOld, Goto, Committed, TypeOK
    <2>6. CASE LoginFinds(w)
      BY <1>0, <2>6 DEF LoginFinds, Goto, Committed, TypeOK
    <2>7. CASE VerifyRefuses(w) \/ CheckRefuses(w) \/ WriteFails(w) \/ Destroy(w)
      BY <2>1, <2>7 DEF VerifyRefuses, CheckRefuses, WriteFails, Destroy
    <2>8. CASE Read(w) \/ LoginRefuses(w) \/ IssueToken(w)
      BY <2>1, <2>8 DEF Read, LoginRefuses, IssueToken
    <2>9. CASE HashFails(w)
      BY <2>1, <2>9 DEF HashFails
    <2> QED BY <2>2, <2>3, <2>4, <2>5, <2>6, <2>7, <2>8, <2>9 DEF Proceed
  <1>3. \A x \in Requests : Committed(x, e)' => Committed(x, e) /\ local'[x].id = local[x].id
    BY <1>0, <1>2, OthersCommitted
  <1> QED BY <1>1, <1>3, SmallerSeats

-----------------------------------------------------------------------------
(* The theorems *)

\* The seeded root is seated alone.
LEMMA InitSharers == Init => SharersInv
  <1> SUFFICES ASSUME Init PROVE SharersInv
    OBVIOUS
  <1>1. SlotInv
    BY InitSlots
  <1>4. ASSUME NEW e \in Emails PROVE \E f \in Seatings : Seats(e, f)
    <2> DEFINE f == [x \in Requests |-> Root]
    <2>1. f \in Seatings
      BY UsersAssumption DEF Seatings
    <2>2. \A u \in Matching(e) : u = Root
      BY DEF Init, Matching, Live, UnusedRow, RootRow
    <2>3. \A x \in Requests : ~Committed(x, e)
      BY DEF Init, Committed
    <2>4. Seats(e, f)
      BY <2>2, <2>3, SlotsAssumption DEF Seats
    <2> QED BY <2>1, <2>4
  <1> QED BY <1>1, <1>4 DEF SharersInv, Seated

\* The seating invariant is kept by every step.
LEMMA NextSharers ==
    ASSUME SharersInv, [Next]_vars
    PROVE  SharersInv'
  <1>1. SlotInv'
    BY NextSlots DEF SharersInv
  <1>2. ASSUME NEW w \in Requests, BeginSome(w) \/ Proceed(w), Witness
        PROVE  SharersInv'
    <2>1. TypeOK /\ TypeOK'
      BY <1>1 DEF SharersInv, SlotInv, TypeInv
    <2>2. Blind
      BY <1>2 DEF Witness
    <2>3. ASSUME ~blind', NEW e \in Emails PROVE \E g \in Seatings : Seats(e, g)'
      <3>1. Seated
        BY <2>2, <2>3 DEF SharersInv, Blind
      <3>2. PICK f \in Seatings : Seats(e, f)
        BY <3>1 DEF Seated
      <3> QED BY <1>2, <2>1, <2>2, <2>3, <3>2,
                 SeatsCheckAccepts, SeatsStore, SeatsUpdateRow, SeatsOther
    <2> QED BY <1>1, <2>3 DEF SharersInv, Seated
  <1>3. CASE UNCHANGED vars
    BY <1>1, <1>3 DEF vars, history, SharersInv, Seated, Seats, Committed, Matching, Live
  <1> QED BY <1>2, <1>3 DEF Next, Finished

\* With everybody seated, there are no more holders than slots.
LEMMA SeatedBounds ==
    ASSUME Seated, NEW e \in Emails
    PROVE  Cardinality(Matching(e)) <= Cardinality(Requests)
  <1>1. PICK f \in Seatings : Seats(e, f)
    BY DEF Seated
  <1> DEFINE S == {x \in Requests : f[x] \in Matching(e)}
             g == [x \in S |-> f[x]]
  <1>2. g \in Surjection(S, Matching(e))
    BY <1>1 DEF Seats, Surjection
  <1>3. S \in SUBSET Requests /\ IsFiniteSet(Requests)
    BY SlotsAssumption
  <1>4. IsFiniteSet(S) /\ Cardinality(S) <= Cardinality(Requests)
    BY <1>3, FS_Subset
  <1>5. IsFiniteSet(Matching(e)) /\ Cardinality(Matching(e)) <= Cardinality(S)
    BY <1>2, <1>4, FS_Surjection
  <1> QED BY <1>3, <1>4, <1>5, FS_CardinalityType

\* Until a failed query lets a request pass the check, an e-mail never has more live
\* accounts than there are request slots (CheckDetails, Store and Update in any
\* order, any other call failing).
THEOREM SharersAreBounded == Spec => []SharersBounded
  <1>1. SharersInv /\ [Next]_vars => SharersInv'
    BY NextSharers
  <1>2. SharersInv => SharersBounded
    BY SeatedBounds DEF SharersInv, SharersBounded
  <1> QED BY <1>1, <1>2, InitSharers, PTL DEF Spec

\* A request passes the check blindly only where queries can fail.
LEMMA NeverBlind ==
    ASSUME SharersInv, ~DBCanFail, blind = FALSE, [Next]_vars
    PROVE  blind' = FALSE
  <1>1. ASSUME NEW w \in Requests, BeginSome(w) \/ Proceed(w), Witness
        PROVE  blind' = FALSE
    <2>1. TypeOK
      BY DEF SharersInv, SlotInv, TypeInv
    <2>2. ASSUME NEW x \in Requests, pc[x] = "check", pc'[x] = "hash"
          PROVE  ~Refusable(x)
      <3>1. x = w
        BY <1>1, <2>1, <2>2, Frame
      <3>2. ASSUME NEW r PROVE ~Answer(w, r)
        BY <2>1, <2>2, <3>1 DEF Answer, Goto, TypeOK
      <3>3. ~BeginSome(w)
        BY <2>2, <3>1 DEF BeginSome, BeginCreate, BeginUpdate, BeginDelete, BeginRead,
                          BeginLogin, Begin
      <3>4. CheckAccepts(w)
        BY <1>1, <2>2, <3>1, <3>2, <3>3
           DEF Proceed, VerifyAdmits, VerifyRefuses, LoadOld, CheckRefuses, HashAndStamp,
               HashFails, Store, UpdateRow, WriteFails, Destroy, Read, LoginRefuses,
               LoginFinds, IssueToken
      <3> QED BY <3>1, <3>4 DEF CheckAccepts, Passes, Refusable
    <2> QED BY <1>1, <2>2 DEF Witness, Blind
  <1>2. CASE UNCHANGED vars
    BY <1>2 DEF vars, history
  <1> QED BY <1>1, <1>2 DEF Next, Finished

\* So nobody does where none can: everybody is seated.
SightedInv == SharersInv /\ blind = FALSE

\* The seeded table is sighted.
LEMMA InitSighted == Init => SightedInv
  BY InitSharers DEF Init, SightedInv

\* It stays so.
LEMMA NextSighted ==
    ASSUME ~DBCanFail, SightedInv, [Next]_vars
    PROVE  SightedInv'
  BY NextSharers, NeverBlind DEF SightedInv

\* With one slot, at most one live account has an e-mail.
LEMMA SeatedUnique ==
    ASSUME SightedInv, NEW w \in Requests, Requests = {w}
    PROVE  UniqueEmail
  <1> SUFFICES ASSUME NEW u \in Users, NEW v \in Users, Live(u), Live(v),
                      Lower[users[u].email] = Lower[users[v].email]
               PROVE  u = v
    BY DEF UniqueEmail
  <1>1. users[u].email \in Emails
    BY DEF SightedInv, SharersInv, SlotInv, TypeInv, TypeOK, Rows
  <1>2. u \in Matching(users[u].email) /\ v \in Matching(users[u].email)
    BY DEF Matching
  <1>3. PICK f \in Seatings : Seats(users[u].email, f)
    BY <1>1 DEF SightedInv, SharersInv, Seated
  <1> QED BY <1>2, <1>3 DEF Seats

\* Served one request at a time, the service keeps e-mails unique.
THEOREM SerialEmailsAreUnique ==
    ASSUME ~DBCanFail, NEW w \in Requests, Requests = {w}
    PROVE  Spec => []UniqueEmail
  <1>1. SightedInv /\ [Next]_vars => SightedInv'
    BY NextSighted
  <1> QED BY <1>1, InitSighted, SeatedUnique, PTL DEF Spec

-----------------------------------------------------------------------------
(***************************************************************************)
(* One slot and no failing query: the service is as good as atomic.        *)
(*                                                                         *)
(* What the slot has read is then still so when it is used.  SerialFacts   *)
(* says so stage by stage; the steps that answer are then the steps of     *)
(* AtomicAdmin, the others change nothing a client sees.                   *)
(***************************************************************************)

\* The password an accepted request will hash: the body's, or else the one
\* oldData holds, as it is stored.
Chosen(w) == IF input[w].body.pwd # NoPassword THEN Plain(input[w].body.pwd)
             ELSE users[input[w].target].pwd

\* The account these credentials open.
OpenedBy(u, b) == u \in Matching(b.email) /\ Opens(u, b.pwd) /\ b.pwd \in LongEnough

\* What the only slot knows at each stage: what it has read is still so.
SerialFacts(w) ==
    /\ pc[w] = "idle" <=> input[w] = NoInput
    /\ pc[w] \in {"idle", "verify", "load", "find"} => local[w].pwd = Plain(NoPassword)
    /\ pc[w] \in {"find", "issue"} => input[w].op = "login"
    /\ pc[w] = "destroy" => input[w].op = "delete"
    /\ pc[w] = "read" => input[w].op = "read"
    /\ input[w].op = "create" => input[w].target = NoUser
    /\ pc[w] \in HandlerStages => Entitled(input[w].actor, input[w].op)
    /\ pc[w] \in {"check", "hash", "write"} /\ input[w].op = "update" => Live(input[w].target)
    /\ pc[w] = "check" => local[w].pwd = IF input[w].op = "create" THEN Plain(NoPassword)
                                         ELSE users[input[w].target].pwd
    /\ pc[w] \in {"hash", "write"} =>
          /\ input[w].op = "create" => input[w].body.pwd # NoPassword
          /\ \A u \in Matching(input[w].body.email) : u = input[w].target
    /\ pc[w] = "hash"  => local[w].pwd = Chosen(w)
    /\ pc[w] = "write" => local[w].pwd = HashPassword(Chosen(w))
    /\ pc[w] = "issue" => OpenedBy(local[w].id, input[w].body) /\ users[local[w].id].active

\* Every row holds a password that has been hashed at least once.
RowsHashed == \A u \in Users : users[u].pwd.times # 0

SerialInv == /\ SightedInv
             /\ RowsHashed
             /\ \A x \in Requests : SerialFacts(x)

\* What the query for an e-mail finds is then all there is.
LEMMA FindByEmailExact ==
    ASSUME TypeOK, UniqueEmail, NEW e \in Emails
    PROVE  FindByEmail(e) = {Matching(e)}
  <1>1. \A u, v \in Matching(e) : u = v
    BY DEF UniqueEmail, Matching
  <1>2. CASE Matching(e) = {}
    BY <1>2 DEF FindByEmail
  <1>3. CASE Matching(e) # {}
    <2>1. PICK u \in Users : Matching(e) = {u}
      BY <1>1, <1>3 DEF Matching
    <2>2. users[u].created <= users[u].created
      <3>1. users[u].created \in Int
        BY BoundsAssumption DEF TypeOK, Rows, Times
      <3> QED BY <3>1
    <2>3. Newest(e) = {u}
      BY <2>1, <2>2 DEF Newest
    <2> QED BY <2>1, <2>3 DEF FindByEmail
  <1> QED BY <1>2, <1>3

\* Hashing adds a layer to a password and keeps what it was made from.
LEMMA HashAdds ==
    ASSUME NEW x \in Pwds
    PROVE  /\ HashPassword(x) \in Pwds
           /\ HashPassword(x).of = x.of
           /\ HashPassword(x).times = x.times + 1
           /\ HashPassword(x).times # 0
  BY DEF HashPassword, Pwds

\* The password chosen for an account is one of the right kind.
LEMMA ChosenType ==
    ASSUME TypeOK, NEW w \in Requests,
           input[w].op = "create" => input[w].body.pwd # NoPassword,
           input[w].op # "create" => input[w].target \in Users
    PROVE  Chosen(w) \in Pwds
  <1>1. Plain(input[w].body.pwd) \in Pwds
    BY BodiesAssumption DEF TypeOK, Inputs, Plain, Pwds
  <1>2. \A u \in Users : users[u].pwd \in Pwds
    BY DEF TypeOK, Rows
  <1> QED BY <1>1, <1>2 DEF Chosen

\* The serial invariant holds before the first request.
LEMMA InitSerial == Init => SerialInv
  <1> SUFFICES ASSUME Init PROVE SerialInv
    OBVIOUS
  <1>1. SightedInv
    BY InitSighted
  <1>2. RowsHashed
    BY DEF Init, RowsHashed, RootRow, UnusedRow, HashPassword, Plain
  <1>3. \A x \in Requests : SerialFacts(x)
    BY DEF Init, SerialFacts, NoInput, Fresh, HandlerStages, Plain
  <1> QED BY <1>1, <1>2, <1>3 DEF SerialInv

\* Stored passwords stay hashed: the only slot writes what it has just hashed.
LEMMA RowsHashedStep ==
    ASSUME SerialInv, NEW w \in Requests, BeginSome(w) \/ Proceed(w)
    PROVE  RowsHashed'
  <1>0. TypeOK /\ SlotFacts(w) /\ SerialFacts(w)
    BY DEF SerialInv, SightedInv, SharersInv, SlotInv, TypeInv
  <1>1. pc[w] = "write" => local[w].pwd.times # 0
    BY <1>0, ChosenType, HashAdds DEF SerialFacts, SlotFacts
  <1>2. CASE Store(w)
    <2>1. PICK u \in Users :
              users' = [users EXCEPT ![u] = Row(input[w].body, local[w].pwd, local[w].now)]
      BY <1>2 DEF Store
    <2>2. Row(input[w].body, local[w].pwd, local[w].now).pwd.times # 0
      BY <1>1, <1>2 DEF Store, Row
    <2> QED BY <1>0, <2>1, <2>2 DEF SerialInv, RowsHashed, TypeOK
  <1>3. CASE UpdateRow(w)
    <2>1. PICK u \in Users :
              users' = [users EXCEPT ![u] = Updated(users[u], input[w].body, local[w].pwd)]
      BY <1>3 DEF UpdateRow, FindByID
    <2>2. Updated(users[u], input[w].body, local[w].pwd).pwd = local[w].pwd
      BY <1>0 DEF Updated, TypeOK, Rows
    <2> QED BY <1>0, <1>1, <1>3, <2>1, <2>2 DEF UpdateRow, SerialInv, RowsHashed, TypeOK
  <1>4. CASE Destroy(w)
    <2>1. \A u \in Users : users'[u].pwd = users[u].pwd
      BY <1>0, <1>4 DEF Destroy, FindByID, TypeOK, Rows
    <2> QED BY <2>1 DEF SerialInv, RowsHashed
  <1>5. CASE ~Store(w) /\ ~UpdateRow(w) /\ ~Destroy(w)
    BY <1>5, TableKept DEF SerialInv, RowsHashed
  <1> QED BY <1>2, <1>3, <1>4, <1>5

\* Each step of the only slot leaves it knowing what its next stage relies on.
LEMMA SerialStep ==
    ASSUME SerialInv, ~DBCanFail, NEW w \in Requests, Requests = {w},
           BeginSome(w) \/ Proceed(w)
    PROVE  SerialFacts(w)'
  <1>0. TypeOK /\ SlotFacts(w) /\ SerialFacts(w) /\ StageFacts(w) /\ RowsHashed
    BY DEF SerialInv, SightedInv, SharersInv, SlotInv, TypeInv
  <1>a. UniqueEmail
    BY SeatedUnique DEF SerialInv
  <1>b. input[w].body \in Bodies /\ input[w].body.email \in Emails
    BY <1>0, BodiesAssumption DEF TypeOK, Inputs
  <1>c. FindByEmail(input[w].body.email) = {Matching(input[w].body.email)}
    BY <1>0, <1>a, <1>b, FindByEmailExact
  <1>1. ASSUME NEW r, Answer(w, r) PROVE SerialFacts(w)'
    BY <1>0, <1>1 DEF Answer, Goto, SerialFacts, TypeOK, HandlerStages, Fresh, NoInput
  <1>2. CASE BeginSome(w)
    <2>1. ASSUME NEW in, Begin(w, "verify", in), in # NoInput,
                 in.op = "create" => in.target = NoUser
          PROVE  SerialFacts(w)'
      BY <1>0, <2>1 DEF Begin, Goto, SerialFacts, TypeOK, HandlerStages
    <2>2. ASSUME NEW in, Begin(w, "find", in), in.op = "login"
          PROVE  SerialFacts(w)'
      BY <1>0, <2>2 DEF Begin, Goto, SerialFacts, TypeOK, HandlerStages, NoInput
    <2>3. NoInput.actor \notin issued
      BY <1>0, UsersAssumption DEF TypeOK, NoInput
    <2>4. CASE BeginCreate(w)
      BY <2>1, <2>3, <2>4 DEF BeginCreate
    <2>5. CASE BeginUpdate(w)
      BY <2>1, <2>3, <2>5 DEF BeginUpdate
    <2>6. CASE BeginDelete(w)
      BY <2>1, <2>3, <2>6 DEF BeginDelete
    <2>7. CASE BeginRead(w)
      BY <2>1, <2>3, <2>7 DEF BeginRead
    <2>8. CASE BeginLogin(w)
      BY <2>2, <2>8 DEF BeginLogin
    <2> QED BY <1>2, <2>4, <2>5, <2>6, <2>7, <2>8 DEF BeginSome
  <1>3. CASE VerifyAdmits(w)
    <2>1. input[w].op \in AdminOps
      BY <1>0, <1>3 DEF VerifyAdmits, StageFacts
    <2>2. Entitled(input[w].actor, input[w].op)'
      BY <1>3 DEF VerifyAdmits, Entitled, FindByID, Live
    <2>3. /\ pc'[w] = HandlerOf[input[w].op]
          /\ input' = input /\ local' = local /\ users' = users
      BY <1>0, <1>3 DEF VerifyAdmits, Goto, TypeOK
    <2>4. local[w].pwd = Plain(NoPassword) /\ input[w] # NoInput
      BY <1>0, <1>3 DEF VerifyAdmits, SerialFacts
    <2>5. input[w].op = "create" => input[w].target = NoUser
      BY <1>0 DEF SerialFacts
    <2> QED BY <2>1, <2>2, <2>3, <2>4, <2>5 DEF SerialFacts, HandlerOf, AdminOps, HandlerStages
  <1>4. CASE LoadOld(w)
    <2>1. CASE \E r : Answer(w, r)
      BY <1>1, <2>1
    <2>2. CASE ~\E r : Answer(w, r)
      <3>1. PICK u \in FindByID(input[w].target) :
                /\ local' = [local EXCEPT ![w] = [local[w] EXCEPT !.id = u, !.pwd = users[u].pwd]]
                /\ Goto(w, "check")
                /\ UNCHANGED <<users, input>>
        BY <1>4, <2>2 DEF LoadOld
      <3>2. local'[w].pwd = users[input[w].target].pwd /\ Live(input[w].target)
        BY <1>0, <3>1 DEF TypeOK, Locals, FindByID
      <3>3. input[w].op = "update" /\ Entitled(input[w].actor, input[w].op) /\ input[w] # NoInput
        BY <1>0, <1>4 DEF LoadOld, SlotFacts, SerialFacts, HandlerStages
      <3>4. pc'[w] = "check" /\ users' = users /\ input' = input
        BY <1>0, <3>1 DEF Goto, TypeOK
      <3> QED BY <3>2, <3>3, <3>4 DEF SerialFacts, Entitled, Live
    <2> QED BY <2>1, <2>2
  <1>5. CASE CheckAccepts(w)
    <2>1. pc'[w] = "hash" /\ users' = users /\ input' = input
      BY <1>0, <1>5 DEF CheckAccepts, Goto, TypeOK
    <2>2. /\ input[w] # NoInput
          /\ Entitled(input[w].actor, input[w].op)
          /\ input[w].op = "create" => input[w].target = NoUser
          /\ input[w].op = "update" => Live(input[w].target)
      BY <1>0, <1>5 DEF CheckAccepts, SerialFacts, HandlerStages
    <2>3. \A u \in Matching(input[w].body.email) : u = input[w].target
      <3>1. \A u \in Matching(input[w].body.email) : u = local[w].id
        BY <1>5, <1>c DEF CheckAccepts, Passes, TakenByOther
      <3>2. \/ local[w].id = input[w].target
            \/ input[w].op = "create" /\ local[w].id = NoUser
        BY <1>0, <1>5 DEF CheckAccepts, SlotFacts
      <3> QED BY <2>2, <3>1, <3>2
    <2>4. input[w].op \in {"create", "update"}
      BY <1>0, <1>5 DEF CheckAccepts, SlotFacts
    <2>5. /\ local[w].pwd = IF input[w].op = "create" THEN Plain(NoPassword)
                            ELSE users[input[w].target].pwd
      BY <1>0, <1>5 DEF CheckAccepts, SerialFacts
    <2>6. local'[w].pwd = Chosen(w) /\ (input[w].op = "create" => input[w].body.pwd # NoPassword)
      BY <1>0, <1>5, <2>5 DEF CheckAccepts, Chosen, TypeOK, Locals
    <2>7. Matching(input[w].body.email)' = Matching(input[w].body.email) /\ Chosen(w)' = Chosen(w)
      BY <2>1 DEF Matching, Live, Chosen
    <2> QED BY <2>1, <2>2, <2>3, <2>6, <2>7 DEF SerialFacts, Entitled, Live, HandlerStages
  <1>6. CASE HashAndStamp(w)
    <2>1. pc'[w] = "write" /\ users' = users /\ input' = input
      BY <1>0, <1>6 DEF HashAndStamp, Goto, TypeOK
    <2>2. local'[w].pwd = HashPassword(local[w].pwd)
      BY <1>0, <1>6 DEF HashAndStamp, TypeOK
    <2>3. Matching(input[w].body.email)' = Matching(input[w].body.email) /\ Chosen(w)' = Chosen(w)
      BY <2>1 DEF Matching, Live, Chosen
    <2>4. pc[w] = "hash"
      BY <1>6 DEF HashAndStamp
    <2> QED BY <1>0, <2>1, <2>2, <2>3, <2>4 DEF SerialFacts, Entitled, Live, HandlerStages
  <1>7. CASE LoginFinds(w)
    <2>1. PICK u \in Matching(input[w].body.email) :
              /\ Opens(u, input[w].body.pwd) /\ users[u].active
              /\ local' = [local EXCEPT ![w] = [local[w] EXCEPT !.id = u]]
      BY <1>7, <1>c DEF LoginFinds
    <2>2. local'[w].id = u /\ input[w].body.pwd \in LongEnough
      BY <1>0, <1>7, <2>1 DEF LoginFinds, TypeOK, Locals
    <2>3. pc'[w] = "issue" /\ users' = users /\ input' = input /\ pc[w] = "find"
      BY <1>0, <1>7 DEF LoginFinds, Goto, TypeOK
    <2>4. (OpenedBy(local[w].id, input[w].body) /\ users[local[w].id].active)'
      BY <2>1, <2>2, <2>3 DEF OpenedBy, Opens, Matching, Live
    <2> QED BY <1>0, <2>3, <2>4 DEF SerialFacts, HandlerStages
  <1>8. CASE VerifyRefuses(w) \/ CheckRefuses(w) \/ Store(w) \/ UpdateRow(w) \/ WriteFails(w)
    BY <1>1, <1>8 DEF VerifyRefuses, CheckRefuses, Store, UpdateRow, WriteFails
  <1>9. CASE Destroy(w) \/ Read(w) \/ LoginRefuses(w) \/ IssueToken(w)
    BY <1>1, <1>9 DEF Destroy, Read, LoginRefuses, IssueToken
  <1>10. CASE HashFails(w)
    BY <1>1, <1>10 DEF HashFails
  <1> QED BY <1>2, <1>3, <1>4, <1>5, <1>6, <1>7, <1>8, <1>9, <1>10 DEF Proceed

\* It is kept by every step of the only slot.
LEMMA NextSerial ==
    ASSUME ~DBCanFail, NEW w \in Requests, Requests = {w}, SerialInv, [Next]_vars
    PROVE  SerialInv'
  <1>1. SightedInv'
    BY NextSighted DEF SerialInv
  <1>2. CASE BeginSome(w) \/ Proceed(w)
    BY <1>1, <1>2, RowsHashedStep, SerialStep DEF SerialInv
  <1>3. CASE UNCHANGED vars
    BY <1>1, <1>3 DEF vars, history, SerialInv, RowsHashed, SerialFacts, Chosen, OpenedBy, Opens,
                      Entitled, Matching, Live
  <1> QED BY <1>2, <1>3 DEF Next, Finished

-----------------------------------------------------------------------------
(* One slot is as good as one step *)

\* The slot the refinement looks at is the only one.
LEMMA TheOnlySlot == ASSUME NEW w \in Requests, Requests = {w} PROVE TheSlot = w
  BY DEF TheSlot

\* The abstract guards say of the mapped accounts what the code's queries say
\* of the rows.
LEMMA AtomicGuards ==
    ASSUME TypeOK, NEW w \in Requests, Requests = {w}, input[w] # NoInput
    PROVE  /\ \A u \in Users : Atomic!Live(u) <=> Live(u)
           /\ Atomic!Authorised <=> /\ input[w].op # "login"
                                    /\ Entitled(input[w].actor, input[w].op)
           /\ Atomic!Taken <=> \E u \in Matching(input[w].body.email) : u # input[w].target
           /\ \A u \in Users : Atomic!OpenedBy(u) <=> OpenedBy(u, input[w].body)
  <1>1. TheSlot = w
    BY TheOnlySlot
  <1>2. \A u : Atomic!Live(u) <=> u \in Users /\ Live(u)
    BY DEF Atomic!Live, Live, Account
  <1>3. \A u \in Users : Account(users[u]).role = users[u].role
                         /\ Account(users[u]).email = users[u].email
                         /\ Account(users[u]).opener = Opener(users[u].pwd)
    BY DEF Account
  <1>4. Atomic!Authorised <=> /\ input[w].op # "login"
                              /\ Entitled(input[w].actor, input[w].op)
    BY <1>1, <1>2, <1>3 DEF Atomic!Authorised, Entitled
  <1>5. \A u \in Users : Atomic!Holds(u, input[w].body.email)
                            <=> u \in Matching(input[w].body.email)
    BY <1>2, <1>3 DEF Atomic!Holds, Matching
  <1>6. Atomic!Taken <=> \E u \in Matching(input[w].body.email) : u # input[w].target
    BY <1>1, <1>5 DEF Atomic!Taken, Matching
  <1>7. ASSUME NEW u \in Users, NEW p \in LongEnough
        PROVE  Opener(users[u].pwd) = p <=> Opens(u, p)
    <2>1. p # NoPassword /\ users[u].pwd \in Pwds
      BY PasswordsAssumption DEF TypeOK, Rows
    <2> QED BY <2>1 DEF Opener, Opens, CheckPasswordHash, HashPassword, Plain, Pwds
  <1>8. \A u \in Users : Atomic!OpenedBy(u) <=> OpenedBy(u, input[w].body)
    BY <1>1, <1>3, <1>5, <1>7 DEF Atomic!OpenedBy, OpenedBy
  <1> QED BY <1>2, <1>4, <1>6, <1>8

\* The mapped table after one row has been replaced.
LEMMA MappedTable ==
    ASSUME TypeOK, NEW u \in Users, NEW row, users' = [users EXCEPT ![u] = row]
    PROVE  [v \in Users |-> Account(users'[v])]
              = [[v \in Users |-> Account(users[v])] EXCEPT ![u] = Account(row)]
  BY DEF TypeOK

\* A request arrives.
LEMMA BeginAtomic ==
    ASSUME SerialInv, TypeOK', NEW w \in Requests, Requests = {w}, BeginSome(w)
    PROVE  Atomic!Ask
  <1>0. TypeOK /\ SerialFacts(w) /\ TheSlot = w
    BY TheOnlySlot DEF SerialInv, SightedInv, SharersInv, SlotInv, TypeInv
  <1>1. ASSUME NEW s, NEW in, Begin(w, s, in), in # NoInput,
               in.op # "login" => in.actor \in issued
        PROVE  Atomic!Ask
    <2>1. /\ input[w] = NoInput /\ input'[w] = in /\ reply'[w] = "none"
          /\ users' = users /\ issued' = issued
      BY <1>0, <1>1 DEF Begin, SerialFacts, TypeOK
    <2>2. input'[w] \in Inputs
      BY DEF TypeOK
    <2> QED BY <1>0, <1>1, <2>1, <2>2 DEF Atomic!Ask
  <1>2. NoInput.actor \notin issued /\ NoInput.op # "login"
    BY <1>0, UsersAssumption DEF TypeOK, NoInput
  <1>3. CASE BeginCreate(w)
    BY <1>1, <1>2, <1>3 DEF BeginCreate
  <1>4. CASE BeginUpdate(w)
    BY <1>1, <1>2, <1>4 DEF BeginUpdate
  <1>5. CASE BeginDelete(w)
    BY <1>1, <1>2, <1>5 DEF BeginDelete
  <1>6. CASE BeginRead(w)
    BY <1>1, <1>2, <1>6 DEF BeginRead
  <1>7. CASE BeginLogin(w)
    BY <1>1, <1>2, <1>7 DEF BeginLogin
  <1> QED BY <1>3, <1>4, <1>5, <1>6, <1>7 DEF BeginSome

\* An answer is the end of the abstract request.
LEMMA AnswerReplies ==
    ASSUME TypeOK, NEW w \in Requests, Requests = {w}, NEW r, Answer(w, r)
    PROVE  /\ Atomic!Reply(r)
           /\ UNCHANGED <<users, issued>> => Atomic!Refuse(r)
  <1>1. input'[w] = NoInput /\ reply'[w] = r /\ TheSlot = w
    BY TheOnlySlot DEF TypeOK, Answer
  <1>2. Atomic!Reply(r)
    BY <1>1 DEF Atomic!Reply
  <1>3. UNCHANGED <<users, issued>> => Atomic!Refuse(r)
    BY <1>2 DEF Atomic!Refuse
  <1> QED BY <1>2, <1>3

\* The token middleware refuses exactly the unauthorised.
LEMMA VerifyAtomic ==
    ASSUME SerialInv, ~DBCanFail, NEW w \in Requests, Requests = {w}, VerifyRefuses(w)
    PROVE  Atomic!Unauthorised
  <1>0. TypeOK /\ SerialFacts(w) /\ StageFacts(w) /\ TheSlot = w
    BY TheOnlySlot DEF SerialInv, SightedInv, SharersInv, SlotInv, TypeInv
  <1>1. input[w] # NoInput /\ input[w].op # "login"
    BY <1>0 DEF VerifyRefuses, SerialFacts, StageFacts, AdminOps
  <1>2. \/ FindByID(input[w].actor) = {} /\ Answer(w, "not found (401)")
        \/ /\ FindByID(input[w].actor) # {} /\ Answer(w, "only admin can access")
           /\ input[w].op # "read" /\ users[input[w].actor].role # AdminRole
    BY DEF VerifyRefuses
  <1>3. FindByID(input[w].actor) = {} <=> ~Atomic!Live(input[w].actor)
    BY DEF FindByID, Live, Atomic!Live, Account
  <1>4. ~Atomic!Authorised
    BY <1>0, <1>1, <1>2, AtomicGuards DEF Entitled, FindByID, Live
  <1>5. UNCHANGED <<users, issued>>
    BY DEF VerifyRefuses
  <1>6. Atomic!Refuse(IF Atomic!Live(input[w].actor) THEN "only admin can access"
                                                     ELSE "not found (401)")
    BY <1>0, <1>2, <1>3, <1>5, AnswerReplies
  <1> QED BY <1>0, <1>1, <1>4, <1>6 DEF Atomic!Unauthorised

\* Behind the middleware every request is authorised.
LEMMA HandlerAuthorised ==
    ASSUME SerialInv, NEW w \in Requests, Requests = {w}, pc[w] \in HandlerStages
    PROVE  /\ Atomic!Authorised
           /\ input[w] # NoInput
           /\ Atomic!Taken <=> \E u \in Matching(input[w].body.email) : u # input[w].target
           /\ \A u : Atomic!Live(u) <=> FindByID(u) # {}
           /\ FindByEmail(input[w].body.email) = {Matching(input[w].body.email)}
  <1>0. TypeOK /\ SerialFacts(w) /\ StageFacts(w) /\ SightedInv
    BY DEF SerialInv, SightedInv, SharersInv, SlotInv, TypeInv
  <1>1. input[w] # NoInput /\ input[w].op # "login" /\ Entitled(input[w].actor, input[w].op)
    BY <1>0 DEF SerialFacts, StageFacts, AdminOps, HandlerStages
  <1>2. \A u : Atomic!Live(u) <=> FindByID(u) # {}
    BY DEF FindByID, Live, Atomic!Live, Account
  <1>3. input[w].body.email \in Emails
    BY <1>0, BodiesAssumption DEF TypeOK, Inputs
  <1>4. FindByEmail(input[w].body.email) = {Matching(input[w].body.email)}
    BY <1>0, <1>3, SeatedUnique, FindByEmailExact
  <1> QED BY <1>0, <1>1, <1>2, <1>4, AtomicGuards

\* What an accepted request stores opens to the body's password: a fresh hash
\* to the password typed, an old hash that is hashed again to none.
LEMMA ChosenOpens ==
    ASSUME TypeOK, RowsHashed, NEW w \in Requests,
           input[w].op = "create" => input[w].body.pwd # NoPassword,
           input[w].op # "create" => input[w].target \in Users
    PROVE  Opener(HashPassword(Chosen(w))) = input[w].body.pwd
  <1>1. CASE input[w].body.pwd # NoPassword
    BY <1>1 DEF Chosen, Opener, HashPassword, Plain
  <1>2. CASE input[w].body.pwd = NoPassword
    <2>1. Chosen(w) \in Pwds /\ Chosen(w).times # 0
      BY <1>2, ChosenType DEF Chosen, RowsHashed
    <2>2. Chosen(w).times \in Nat
      BY <2>1 DEF Pwds
    <2>3. HashPassword(Chosen(w)).times # 1
      BY <2>1, <2>2, HashAdds
    <2> QED BY <1>2, <2>3 DEF Opener
  <1> QED BY <1>1, <1>2

\* CheckDetails refuses what the abstract create or update refuses.
LEMMA CheckAtomic ==
    ASSUME SerialInv, ~DBCanFail, NEW w \in Requests, Requests = {w}, CheckRefuses(w)
    PROVE  Atomic!Create \/ Atomic!Update
  <1>0. TypeOK /\ SerialFacts(w) /\ SlotFacts(w) /\ RowsHashed /\ TheSlot = w
    BY TheOnlySlot DEF SerialInv, SightedInv, SharersInv, SlotInv, TypeInv
  <1>1. /\ Atomic!Authorised
        /\ Atomic!Taken <=> \E u \in Matching(input[w].body.email) : u # input[w].target
        /\ FindByEmail(input[w].body.email) = {Matching(input[w].body.email)}
    BY HandlerAuthorised DEF CheckRefuses, HandlerStages
  <1>2. UNCHANGED <<users, issued>>
    BY DEF CheckRefuses
  <1>3. local[w].id = input[w].target
    BY <1>0 DEF CheckRefuses, SlotFacts, SerialFacts
  <1>4. Atomic!Taken <=>
            \E found \in FindByEmail(input[w].body.email) : TakenByOther(w, found)
    BY <1>1, <1>3 DEF TakenByOther
  <1>7. ~Atomic!Taken <=> Passes(w)
    BY <1>1, <1>4 DEF Passes
  <1>5. CASE input[w].op = "create"
    BY <1>0, <1>1, <1>2, <1>4, <1>5, <1>7, AnswerReplies DEF CheckRefuses, Atomic!Create
  <1>6. CASE input[w].op = "update"
    <2>1. Live(input[w].target) /\ input[w].target \in Users
      BY <1>0, <1>6 DEF CheckRefuses, SerialFacts, SlotFacts
    <2>2. Atomic!Live(input[w].target)
      BY <2>1 DEF Live, Atomic!Live, Account
    <2>3. local[w].pwd # Plain(NoPassword)
      BY <1>0, <1>6, <2>1 DEF CheckRefuses, SerialFacts, RowsHashed, Plain
    <2>4. Atomic!Taken /\ Answer(w, "duplicate_email")
      BY <1>4, <2>3 DEF CheckRefuses
    <2> QED BY <1>0, <1>1, <1>2, <1>6, <2>2, <2>4, AnswerReplies DEF Atomic!Update
  <1> QED BY <1>0, <1>5, <1>6 DEF CheckRefuses, SlotFacts

\* What holds of a request about to write.
LEMMA WriteFacts ==
    ASSUME SerialInv, NEW w \in Requests, Requests = {w}, pc[w] = "write"
    PROVE  /\ Atomic!Authorised /\ ~Atomic!Taken
           /\ input[w].op \in {"create", "update"}
           /\ input[w].op = "create" => input[w].body.pwd # NoPassword
           /\ input[w].op = "update" => /\ input[w].target \in Users
                                        /\ Live(input[w].target)
                                        /\ Atomic!Live(input[w].target)
           /\ Opener(local[w].pwd) = input[w].body.pwd
  <1>0. TypeOK /\ SerialFacts(w) /\ SlotFacts(w) /\ RowsHashed
    BY DEF SerialInv, SightedInv, SharersInv, SlotInv, TypeInv
  <1>1. /\ Atomic!Authorised
        /\ Atomic!Taken <=> \E u \in Matching(input[w].body.email) : u # input[w].target
        /\ \A u : Atomic!Live(u) <=> FindByID(u) # {}
    BY HandlerAuthorised DEF HandlerStages
  <1>2. ~Atomic!Taken
    BY <1>0, <1>1 DEF SerialFacts
  <1>3. /\ input[w].op \in {"create", "update"}
        /\ input[w].op = "create" => input[w].body.pwd # NoPassword
        /\ input[w].op = "update" => input[w].target \in Users /\ Live(input[w].target)
    BY <1>0 DEF SerialFacts, SlotFacts
  <1>4. local[w].pwd = HashPassword(Chosen(w))
    BY <1>0 DEF SerialFacts
  <1> QED BY <1>0, <1>1, <1>2, <1>3, <1>4, ChosenOpens DEF FindByID

\* The INSERT is the step that creates the account and answers.
LEMMA StoreAtomic ==
    ASSUME SerialInv, ~DBCanFail, NEW w \in Requests, Requests = {w}, Store(w)
    PROVE  Atomic!Create
  <1>0. TypeOK /\ TheSlot = w
    BY TheOnlySlot DEF SerialInv, SightedInv, SharersInv, SlotInv, TypeInv
  <1>1. PICK u \in Users :
            /\ users[u].status = "absent"
            /\ users' = [users EXCEPT ![u] = Row(input[w].body, local[w].pwd, local[w].now)]
            /\ Answer(w, "ok")
    BY DEF Store, WriteAnswers
  <1>2. Account(Row(input[w].body, local[w].pwd, local[w].now))
           = Atomic!Account(input[w].body.pwd)
    BY <1>0, WriteFacts DEF Store, Account, Row, Atomic!Account
  <1>3. [v \in Users |-> Account(users[v])][u].status = "absent"
    BY <1>1 DEF Account
  <1>4. Atomic!Reply("ok") /\ issued' = issued
    BY <1>0, <1>1, AnswerReplies DEF Store
  <1>5. [v \in Users |-> Account(users'[v])]
           = [[v \in Users |-> Account(users[v])] EXCEPT ![u] = Atomic!Account(input[w].body.pwd)]
    BY <1>0, <1>1, <1>2, MappedTable
  <1> QED BY <1>0, <1>3, <1>4, <1>5, WriteFacts DEF Store, Atomic!Create

\* The UPDATE is the step that changes the account and answers.
LEMMA UpdateAtomic ==
    ASSUME SerialInv, ~DBCanFail, NEW w \in Requests, Requests = {w}, UpdateRow(w)
    PROVE  Atomic!Update
  <1>0. TypeOK /\ TheSlot = w
    BY TheOnlySlot DEF SerialInv, SightedInv, SharersInv, SlotInv, TypeInv
  <1> DEFINE t == input[w].target
             row == Updated(users[t], input[w].body, local[w].pwd)
  <1>1. t \in Users /\ Live(t) /\ users' = [users EXCEPT ![t] = row] /\ Answer(w, "ok")
    BY DEF UpdateRow, WriteAnswers, FindByID
  <1>2. users[t] \in Rows
    BY <1>0, <1>1 DEF TypeOK
  <1>3. Account(row) = Atomic!Account(input[w].body.pwd)
    <2>1. /\ row.status = "live" /\ row.email = input[w].body.email
          /\ row.pwd = local[w].pwd /\ row.active = input[w].body.active
          /\ row.role = input[w].body.role
      BY <1>1, <1>2 DEF Updated, Rows, Live
    <2> HIDE DEF row
    <2> QED BY <1>0, <2>1, WriteFacts DEF UpdateRow, Account, Atomic!Account
  <1>4. Atomic!Reply("ok") /\ issued' = issued
    BY <1>0, <1>1, AnswerReplies DEF UpdateRow
  <1>5. [v \in Users |-> Account(users'[v])]
           = [[v \in Users |-> Account(users[v])] EXCEPT ![t] = Atomic!Account(input[w].body.pwd)]
    BY <1>0, <1>1, <1>3, MappedTable
  <1> QED BY <1>0, <1>4, <1>5, WriteFacts DEF UpdateRow, Atomic!Update

\* Without failures of the database, a write fails for a role that does not exist.
LEMMA WriteFailsAtomic ==
    ASSUME SerialInv, ~DBCanFail, NEW w \in Requests, Requests = {w}, WriteFails(w)
    PROVE  Atomic!Create \/ Atomic!Update
  <1>0. TypeOK /\ TheSlot = w
    BY TheOnlySlot DEF SerialInv, SightedInv, SharersInv, SlotInv, TypeInv
  <1>1. Answer(w, "error") /\ UNCHANGED <<users, issued>> /\ pc[w] = "write"
    BY DEF WriteFails
  <1>2. input[w].body.role \notin Roles
    BY WriteFacts DEF WriteFails, FindByID
  <1>3. Atomic!Refuse("error")
    BY <1>0, <1>1, AnswerReplies
  <1> QED BY <1>0, <1>1, <1>2, <1>3, WriteFacts DEF Atomic!Create, Atomic!Update

\* The soft delete is the step that deletes the account and answers.
LEMMA DestroyAtomic ==
    ASSUME SerialInv, ~DBCanFail, NEW w \in Requests, Requests = {w}, Destroy(w)
    PROVE  Atomic!Delete
  <1>0. TypeOK /\ SerialFacts(w) /\ TheSlot = w
    BY TheOnlySlot DEF SerialInv, SightedInv, SharersInv, SlotInv, TypeInv
  <1> DEFINE t == input[w].target
  <1>1. /\ Atomic!Authorised
        /\ Atomic!Live(t) <=> FindByID(t) # {}
    BY HandlerAuthorised DEF Destroy, HandlerStages
  <1>2. input[w].op = "delete" /\ issued' = issued
    BY <1>0 DEF Destroy, SerialFacts
  <1>3. CASE FindByID(t) = {}
    <2>1. Answer(w, "error") /\ users' = users
      BY <1>3 DEF Destroy
    <2> QED BY <1>0, <1>1, <1>2, <1>3, <2>1, AnswerReplies DEF Atomic!Delete
  <1>4. CASE FindByID(t) # {}
    <2> DEFINE row == [users[t] EXCEPT !.status = "deleted"]
    <2>1. t \in Users /\ users' = [users EXCEPT ![t] = row] /\ Answer(w, "ok")
      BY <1>4 DEF Destroy, WriteAnswers, FindByID
    <2>2. Account(row) = [Account(users[t]) EXCEPT !.status = "deleted"]
      BY <1>0, <2>1 DEF Account, TypeOK, Rows
    <2> HIDE DEF row
    <2>3. [v \in Users |-> Account(users'[v])]
             = [[v \in Users |-> Account(users[v])] EXCEPT ![t] = Account(row)]
      BY <1>0, <2>1, MappedTable
    <2>4. [v \in Users |-> Account(users'[v])]
             = [[v \in Users |-> Account(users[v])] EXCEPT ![t].status = "deleted"]
      BY <2>1, <2>2, <2>3
    <2>5. Atomic!Reply("ok")
      BY <1>0, <2>1, AnswerReplies
    <2> QED BY <1>0, <1>1, <1>2, <1>4, <2>4, <2>5 DEF Atomic!Delete
  <1> QED BY <1>3, <1>4

\* The SELECT is the step that reads the account and answers.
LEMMA ReadAtomic ==
    ASSUME SerialInv, ~DBCanFail, NEW w \in Requests, Requests = {w}, Read(w)
    PROVE  Atomic!Read
  <1>0. TypeOK /\ SerialFacts(w) /\ TheSlot = w
    BY TheOnlySlot DEF SerialInv, SightedInv, SharersInv, SlotInv, TypeInv
  <1>1. /\ Atomic!Authorised
        /\ Atomic!Live(input[w].target) <=> FindByID(input[w].target) # {}
    BY HandlerAuthorised DEF Read, HandlerStages
  <1>2. input[w].op = "read" /\ UNCHANGED <<users, issued>>
    BY <1>0 DEF Read, SerialFacts
  <1>3. Answer(w, IF FindByID(input[w].target) # {} THEN "ok" ELSE "error")
    BY DEF Read
  <1>4. Atomic!Refuse(IF FindByID(input[w].target) # {} THEN "ok" ELSE "error")
    BY <1>0, <1>2, <1>3, AnswerReplies
  <1> QED BY <1>0, <1>1, <1>2, <1>4 DEF Atomic!Read

\* Login refuses when no account is opened, or when the one that is, is inactive.
LEMMA LoginRefusesAtomic ==
    ASSUME SerialInv, ~DBCanFail, NEW w \in Requests, Requests = {w}, LoginRefuses(w)
    PROVE  Atomic!Login
  <1>0. TypeOK /\ SerialFacts(w) /\ TheSlot = w /\ SightedInv
    BY TheOnlySlot DEF SerialInv, SightedInv, SharersInv, SlotInv, TypeInv
  <1>1. input[w].op = "login" /\ input[w] # NoInput /\ UNCHANGED <<users, issued>>
    BY <1>0 DEF LoginRefuses, SerialFacts
  <1> DEFINE b == input[w].body
  <1>2. b.email \in Emails
    BY <1>0, BodiesAssumption DEF TypeOK, Inputs
  <1>3. UniqueEmail /\ FindByEmail(b.email) = {Matching(b.email)}
    BY <1>0, <1>2, SeatedUnique, FindByEmailExact
  <1>4. \A u, v \in Matching(b.email) : u = v
    BY <1>3 DEF UniqueEmail, Matching
  <1>5. \A u \in Users : Atomic!OpenedBy(u) <=> OpenedBy(u, b)
    BY <1>0, <1>1, AtomicGuards
  <1>6. CASE /\ \/ b.pwd \notin LongEnough
                \/ \A u \in Matching(b.email) : ~Opens(u, b.pwd)
             /\ Answer(w, "invalid_credentials")
    <2>1. \A u \in Users : ~Atomic!OpenedBy(u)
      BY <1>3, <1>4, <1>5, <1>6 DEF OpenedBy
    <2> QED BY <1>0, <1>1, <1>6, <2>1, AnswerReplies DEF Atomic!Login
  <1>7. CASE /\ b.pwd \in LongEnough /\ Answer(w, "inactive_admin")
             /\ \E u \in Matching(b.email) : Opens(u, b.pwd) /\ ~users[u].active
    <2>1. PICK u \in Users : Atomic!OpenedBy(u) /\ ~users[u].active
      BY <1>3, <1>5, <1>7 DEF OpenedBy, Matching
    <2>2. Account(users[u]).active = users[u].active
      BY DEF Account
    <2> QED BY <1>0, <1>1, <1>7, <2>1, <2>2, AnswerReplies DEF Atomic!Login
  <1> QED BY <1>3, <1>6, <1>7 DEF LoginRefuses

\* Signing the token is the step that admits a login.
LEMMA IssueAtomic ==
    ASSUME SerialInv, ~DBCanFail, NEW w \in Requests, Requests = {w}, IssueToken(w)
    PROVE  Atomic!Login
  <1>0. TypeOK /\ SerialFacts(w) /\ TheSlot = w
    BY TheOnlySlot DEF SerialInv, SightedInv, SharersInv, SlotInv, TypeInv
  <1> DEFINE u == local[w].id
  <1>1. /\ input[w].op = "login" /\ input[w] # NoInput
        /\ OpenedBy(u, input[w].body) /\ users[u].active
    BY <1>0 DEF IssueToken, SerialFacts
  <1>2. u \in Users /\ Atomic!OpenedBy(u)
    BY <1>0, <1>1, AtomicGuards DEF OpenedBy, Matching
  <1>3. Account(users[u]).active
    BY <1>1 DEF Account
  <1>4. issued' = issued \cup {u} /\ users' = users /\ Answer(w, "ok")
    BY DEF IssueToken
  <1>5. Atomic!Reply("ok")
    BY <1>0, <1>4, AnswerReplies
  <1> QED BY <1>0, <1>1, <1>2, <1>3, <1>4, <1>5 DEF Atomic!Login

\* Every step of the only slot is one step of the abstract service or none.
LEMMA StepAtomic ==
    ASSUME SerialInv, TypeOK', ~DBCanFail, NEW w \in Requests, Requests = {w},
           BeginSome(w) \/ Proceed(w)
    PROVE  [Atomic!Next]_(Atomic!atomicVars)
  <1>1. CASE BeginSome(w)
    BY <1>1, BeginAtomic DEF Atomic!Next
  <1>2. CASE VerifyRefuses(w) \/ CheckRefuses(w)
    BY <1>2, VerifyAtomic, CheckAtomic DEF Atomic!Next
  <1>3. CASE Store(w) \/ UpdateRow(w) \/ WriteFails(w)
    BY <1>3, StoreAtomic, UpdateAtomic, WriteFailsAtomic DEF Atomic!Next
  <1>4. CASE Destroy(w) \/ Read(w)
    BY <1>4, DestroyAtomic, ReadAtomic DEF Atomic!Next
  <1>5. CASE LoginRefuses(w) \/ IssueToken(w)
    BY <1>5, LoginRefusesAtomic, IssueAtomic DEF Atomic!Next
  <1>6. ASSUME UNCHANGED <<users, issued, input, reply>>
        PROVE  UNCHANGED Atomic!atomicVars
    BY <1>6 DEF Atomic!atomicVars
  <1>7. CASE VerifyAdmits(w) \/ CheckAccepts(w) \/ HashAndStamp(w) \/ LoginFinds(w)
    BY <1>6, <1>7 DEF VerifyAdmits, CheckAccepts, HashAndStamp, LoginFinds
  <1>8. CASE LoadOld(w)
    <2>1. CASE UNCHANGED <<input, reply>>
      BY <1>6, <1>8, <2>1 DEF LoadOld
    <2>2. CASE FindByID(input[w].target) = {} /\ Answer(w, "error")
      <3>1. TypeOK /\ SerialFacts(w) /\ SlotFacts(w) /\ TheSlot = w
        BY TheOnlySlot DEF SerialInv, SightedInv, SharersInv, SlotInv, TypeInv
      <3>2. Atomic!Authorised /\ ~Atomic!Live(input[w].target) /\ input[w].op = "update"
        BY <1>8, <2>2, <3>1, HandlerAuthorised DEF LoadOld, SlotFacts, HandlerStages
      <3>3. Atomic!Refuse("error")
        BY <1>8, <2>2, <3>1, AnswerReplies DEF LoadOld
      <3>4. Atomic!Update
        BY <3>1, <3>2, <3>3 DEF Atomic!Update
      <3> QED BY <3>4 DEF Atomic!Next
    <2> QED BY <1>8, <2>1, <2>2 DEF LoadOld
  <1>9. ~HashFails(w)
    BY DEF HashFails
  <1> QED BY <1>1, <1>2, <1>3, <1>4, <1>5, <1>7, <1>8, <1>9 DEF Proceed

\* The seeded table is an initial state of the atomic service.
LEMMA InitAtomic == Init => Atomic!Init
  <1> SUFFICES ASSUME Init PROVE Atomic!Init
    OBVIOUS
  <1>1. TheSlot \in Requests
    BY SlotsAssumption DEF TheSlot
  <1>2. \A u \in Users : users[u] = IF u = Root THEN RootRow ELSE UnusedRow
    BY DEF Init
  <1>3. [u \in Users |-> Account(users[u])]
           = [u \in Users |-> IF u = Root THEN Account(RootRow) ELSE Account(UnusedRow)]
    BY <1>2
  <1> QED BY <1>1, <1>3 DEF Init, Atomic!Init

\* Served one request at a time and with no failing query, the sequence of
\* calls a handler makes is as good as one step: every answer and every change
\* is what the table calls for as it was when the request arrived.
THEOREM SerialRefinesAtomic ==
    ASSUME ~DBCanFail, NEW w \in Requests, Requests = {w}
    PROVE  Spec => SerialIsAtomic
  <1>1. SerialInv /\ [Next]_vars => SerialInv'
    BY NextSerial
  <1>2. SerialInv /\ SerialInv' /\ [Next]_vars => [Atomic!Next]_(Atomic!atomicVars)
    <2> SUFFICES ASSUME SerialInv, SerialInv', [Next]_vars
                 PROVE  [Atomic!Next]_(Atomic!atomicVars)
      OBVIOUS
    <2>1. TypeOK'
      BY DEF SerialInv, SightedInv, SharersInv, SlotInv, TypeInv
    <2>2. CASE BeginSome(w) \/ Proceed(w)
      BY <2>1, <2>2, StepAtomic
    <2>3. CASE UNCHANGED vars
      BY <2>3 DEF vars, Atomic!atomicVars
    <2> QED BY <2>2, <2>3 DEF Next, Finished
  <1> QED BY <1>1, <1>2, InitSerial, InitAtomic, PTL DEF Spec, SerialIsAtomic, Atomic!Spec

-----------------------------------------------------------------------------
(***************************************************************************)
(* An update without a password, among other requests and failing calls:   *)
(* as long as nobody has replaced the password since the update loaded it, *)
(* what it carries to the UPDATE is what the row holds.                    *)
(***************************************************************************)

CarriesPassword(x) ==
    input[x].op = "update" /\ ~stale[x] =>
        /\ pc[x] = "check" => local[x].pwd = users[input[x].target].pwd
        /\ pc[x] = "hash" /\ input[x].body.pwd = NoPassword
              => local[x].pwd = users[input[x].target].pwd
        /\ pc[x] = "write" /\ input[x].body.pwd = NoPassword
              => local[x].pwd = HashPassword(users[input[x].target].pwd)

CarryInv == SlotInv /\ \A x \in Requests : CarriesPassword(x)

\* A password that was not stale after a step was not before it, and is the same.
LEMMA FreshPassword ==
    ASSUME TypeInv, Age, NEW x \in Requests, ~stale'[x], input[x].op = "update",
           pc'[x] \in {"check", "hash", "write"}
    PROVE  ~stale[x] /\ users'[input[x].target].pwd = users[input[x].target].pwd
  BY Zenon DEF Age

\* The other slots carry what they carried.
LEMMA OthersCarry ==
    ASSUME CarryInv, NEW w \in Requests, BeginSome(w) \/ Proceed(w), Age,
           NEW x \in Requests, x # w
    PROVE  CarriesPassword(x)'
  <1>1. pc'[x] = pc[x] /\ input'[x] = input[x] /\ local'[x] = local[x]
    BY Frame DEF CarryInv, SlotInv, TypeInv
  <1>2. CarriesPassword(x) /\ TypeInv
    BY DEF CarryInv, SlotInv
  <1>3. ASSUME ~stale'[x], input[x].op = "update", pc'[x] \in {"check", "hash", "write"}
        PROVE  ~stale[x] /\ users'[input[x].target].pwd = users[input[x].target].pwd
    BY <1>2, <1>3, FreshPassword
  <1> QED BY <1>1, <1>2, <1>3 DEF CarriesPassword

\* A slot's own step hands the password on, hashed once.
LEMMA OwnCarry ==
    ASSUME CarryInv, NEW w \in Requests, BeginSome(w) \/ Proceed(w), Age
    PROVE  CarriesPassword(w)'
  <1>0. TypeOK /\ TypeInv /\ SlotFacts(w) /\ StageFacts(w) /\ CarriesPassword(w)
    BY DEF CarryInv, SlotInv, TypeInv
  <1>1. ASSUME pc'[w] \notin {"check", "hash", "write"} PROVE CarriesPassword(w)'
    BY <1>1 DEF CarriesPassword
  <1>2. ASSUME NEW r, Answer(w, r) PROVE CarriesPassword(w)'
    BY <1>0, <1>1, <1>2 DEF Answer, Goto, TypeOK
  <1>3. CASE BeginSome(w)
    <2>1. ASSUME NEW st \in {"verify", "find"}, NEW in, Begin(w, st, in)
          PROVE  CarriesPassword(w)'
      BY <1>0, <1>1, <2>1 DEF Begin, Goto, TypeOK
    <2> QED BY <1>3, <2>1
            DEF BeginSome, BeginCreate, BeginUpdate, BeginDelete, BeginRead, BeginLogin
  <1>4. CASE VerifyAdmits(w)
    <2>1. input[w].op \in AdminOps /\ input' = input /\ pc'[w] = HandlerOf[input[w].op]
      BY <1>0, <1>4 DEF VerifyAdmits, StageFacts, TypeOK, Goto
    <2> QED BY <2>1 DEF HandlerOf, AdminOps, CarriesPassword
  <1>5. CASE LoadOld(w)
    <2>1. CASE \E r : Answer(w, r)
      BY <1>2, <2>1
    <2>2. CASE ~\E r : Answer(w, r)
      <3>1. PICK u \in FindByID(input[w].target) :
                /\ local' = [local EXCEPT ![w] = [local[w] EXCEPT !.id = u, !.pwd = users[u].pwd]]
                /\ Goto(w, "check")
                /\ UNCHANGED <<users, input>>
        BY <1>5, <2>2 DEF LoadOld
      <3>2. local'[w].pwd = users'[input'[w].target].pwd /\ pc'[w] = "check"
        BY <1>0, <3>1 DEF TypeOK, Locals, FindByID, Goto
      <3> QED BY <3>2 DEF CarriesPassword
    <2> QED BY <2>1, <2>2
  <1>6. CASE CheckAccepts(w)
    <2>1. pc[w] = "check" /\ pc'[w] = "hash" /\ users' = users /\ input' = input
      BY <1>0, <1>6 DEF CheckAccepts, Goto, TypeOK
    <2>2. input[w].body.pwd = NoPassword => local'[w].pwd = local[w].pwd
      BY <1>6 DEF CheckAccepts
    <2>3. ~stale'[w] /\ input[w].op = "update" => ~stale[w]
      BY <1>0, <2>1, FreshPassword
    <2> QED BY <1>0, <2>1, <2>2, <2>3 DEF CarriesPassword
  <1>7. CASE HashAndStamp(w)
    <2>1. pc[w] = "hash" /\ pc'[w] = "write" /\ users' = users /\ input' = input
      BY <1>0, <1>7 DEF HashAndStamp, Goto, TypeOK
    <2>2. local'[w].pwd = HashPassword(local[w].pwd)
      BY <1>0, <1>7 DEF HashAndStamp, TypeOK
    <2>3. ~stale'[w] /\ input[w].op = "update" => ~stale[w]
      BY <1>0, <2>1, FreshPassword
    <2> QED BY <1>0, <2>1, <2>2, <2>3 DEF CarriesPassword
  <1>8. CASE LoginFinds(w)
    BY <1>0, <1>1, <1>8 DEF LoginFinds, Goto, TypeOK
  <1>9. CASE VerifyRefuses(w) \/ CheckRefuses(w) \/ HashFails(w) \/ Store(w) \/ UpdateRow(w)
    BY <1>2, <1>9 DEF VerifyRefuses, CheckRefuses, HashFails, Store, UpdateRow
  <1>10. CASE WriteFails(w) \/ Destroy(w) \/ Read(w) \/ LoginRefuses(w) \/ IssueToken(w)
    BY <1>2, <1>10 DEF WriteFails, Destroy, Read, LoginRefuses, IssueToken
  <1> QED BY <1>3, <1>4, <1>5, <1>6, <1>7, <1>8, <1>9, <1>10 DEF Proceed

\* A request carries the right password until somebody replaces it.
LEMMA NextCarry ==
    ASSUME CarryInv, [Next]_vars
    PROVE  CarryInv'
  <1>1. SlotInv'
    BY NextSlots DEF CarryInv
  <1>2. ASSUME NEW w \in Requests, BeginSome(w) \/ Proceed(w), Witness
        PROVE  CarryInv'
    <2>1. Age
      BY <1>2 DEF Witness
    <2>2. \A x \in Requests : CarriesPassword(x)'
      BY <1>2, <2>1, OwnCarry, OthersCarry
    <2> QED BY <1>1, <2>2 DEF CarryInv
  <1>3. CASE UNCHANGED vars
    BY <1>1, <1>3 DEF vars, history, CarryInv, CarriesPassword
  <1> QED BY <1>2, <1>3 DEF Next, Finished

\* However requests interleave and whatever fails, an update that carries no
\* password writes the hash of what its row holds at that moment, unless the
\* password was replaced after the update had loaded it (CheckDetails keeps oldData's).
THEOREM PasswordsAreLostOnlyByRace == Spec => PasswordLostOnlyByRace
  <1>1. Init => CarryInv
    BY InitSlots DEF Init, CarryInv, CarriesPassword
  <1>2. CarryInv /\ [Next]_vars => CarryInv'
    BY NextCarry
  <1>3. CarryInv =>
           [\A w \in Requests :
               UpdateRow(w) /\ input[w].body.pwd = NoPassword /\ ~stale[w]
                   => users'[input[w].target].pwd
                         = HashPassword(users[input[w].target].pwd)]_vars
    <2> SUFFICES ASSUME CarryInv, NEW w \in Requests, UpdateRow(w),
                        input[w].body.pwd = NoPassword, ~stale[w]
                 PROVE  users'[input[w].target].pwd
                           = HashPassword(users[input[w].target].pwd)
      OBVIOUS
    <2> DEFINE t == input[w].target
    <2>1. TypeOK /\ CarriesPassword(w)
      BY DEF CarryInv, SlotInv, TypeInv
    <2>2. /\ t \in Users
          /\ users' = [users EXCEPT ![t] = Updated(users[t], input[w].body, local[w].pwd)]
      BY DEF UpdateRow, FindByID
    <2>3. users'[t].pwd = local[w].pwd
      BY <2>1, <2>2 DEF TypeOK, Updated, Rows
    <2> QED BY <2>1, <2>3 DEF UpdateRow, CarriesPassword
  <1> QED BY <1>1, <1>2, <1>3, PTL DEF Spec, PasswordLostOnlyByRace

=============================================================================
