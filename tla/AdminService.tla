---------------------------- MODULE AdminService ----------------------------
(***************************************************************************)
(* The admin-accounts service: HTTP requests, each served by a goroutine   *)
(* of its own, over the "users" table of one Postgres database.            *)
(*                                                                         *)
(* A request is a sequence of steps separated by its database calls: no    *)
(* handler opens a transaction and the table has no unique constraint on   *)
(* the e-mail, so other requests may run between any two calls.  A slot of *)
(* Requests is one such goroutine; a slot whose request has been answered  *)
(* serves a new one.                                                       *)
(***************************************************************************)
EXTENDS Naturals, FiniteSets

CONSTANTS
    Requests,     \* request goroutines that may run at the same time
    Users,        \* values the id column of "users" can take
    NoUser,       \* the empty id ""
    Emails,       \* e-mail addresses, as they are spelled
    Lower,        \* LOWER(): the lower-case spelling of an address
    Passwords,    \* passwords a client can type
    NoPassword,   \* the empty password ""
    LongEnough,   \* the passwords of 8 characters or more
    Roles,        \* the rows of "roles"
    AdminRole,    \* the role called "Admin" (RoleCodeSuperadmin)
    UnknownRole,  \* a role id "roles" does not have
    Bodies,       \* the bodies a create or update request can carry
    Root,         \* the account db.sql seeds ...
    RootEmail,    \* ... its address ...
    RootPassword, \* ... and the password its hash was made from
    MaxTime,      \* the times time.Now() may read are 0..MaxTime
    DBCanFail,    \* may a database or Redis call, or bcrypt, fail?
    MaxRequests   \* bound: requests begun in a behaviour

Plaintexts == Passwords \cup {NoPassword}

ASSUME SlotsAssumption == IsFiniteSet(Requests) /\ Requests # {}
ASSUME UsersAssumption == IsFiniteSet(Users) /\ Root \in Users /\ NoUser \notin Users
ASSUME EmailsAssumption == Lower \in [Emails -> Emails] /\ RootEmail \in Emails
ASSUME PasswordsAssumption ==
    /\ NoPassword \notin Passwords
    /\ LongEnough \subseteq Passwords
    /\ RootPassword \in Passwords
ASSUME RolesAssumption == AdminRole \in Roles /\ UnknownRole \notin Roles
ASSUME BodiesAssumption ==
    /\ Bodies # {}
    /\ Bodies \subseteq [email  : Emails,
                         pwd    : Plaintexts,
                         role   : Roles \cup {UnknownRole},
                         active : BOOLEAN]
ASSUME BoundsAssumption == DBCanFail \in BOOLEAN /\ MaxRequests \in Nat /\ MaxTime \in Nat

VARIABLES
    users,    \* the table: one row per id
    issued,   \* the ids Login has given a token to
    begun,    \* requests begun so far
    pc,       \* the step a slot is at
    input,    \* what the client of a slot asked for
    local,    \* the handler's locals: oldData.ID, the password, now
    reply,    \* the answer of a slot's last request
    vouched,  \* history: was a slot's actor entitled to its request at
              \* some moment since the request began?
    stale,    \* history: has the password an update loaded been replaced in its row?
    blind     \* history: has an e-mail check passed only because its query failed?

history == <<vouched, stale, blind>>
vars == <<users, issued, begun, pc, input, local, reply, history>>

-----------------------------------------------------------------------------
(* Data *)

\* A stored or typed password: the plaintext it comes from and how many
\* layers of bcrypt lie over it (none when typed, one in a sound row).
Plain(p) == [of |-> p, times |-> 0]
HashPassword(x) == [x EXCEPT !.times = @ + 1]
CheckPasswordHash(p, stored) == stored = HashPassword(Plain(p))

Pwds == [of : Plaintexts, times : Nat]

\* The wall clock may read the same time again, and step back.
Times == 0..MaxTime

Rows == [status  : {"absent", "live", "deleted"},
         email   : Emails,
         pwd     : Pwds,
         active  : BOOLEAN,
         role    : Roles,
         created : Times]

Row(b, pwd, now) == [status |-> "live", email |-> b.email, pwd |-> pwd,
                     active |-> b.active, role |-> b.role, created |-> now]

RootRow == [status |-> "live", email |-> RootEmail,
            pwd |-> HashPassword(Plain(RootPassword)),
            active |-> TRUE, role |-> AdminRole, created |-> 0]

\* An id no INSERT has returned; the other columns mean nothing.
UnusedRow == [RootRow EXCEPT !.status = "absent"]

\* Locals of a request that has computed nothing yet: a zero UserVM.
Fresh == [id |-> NoUser, pwd |-> Plain(NoPassword), now |-> 0]
Locals == [id : Users \cup {NoUser}, pwd : Pwds, now : Times]

AdminOps == {"create", "update", "delete", "read"}
AnyBody == CHOOSE b \in Bodies : TRUE
Inputs == [op : AdminOps \cup {"login"}, actor : Users \cup {NoUser},
           target : Users \cup {NoUser}, body : Bodies]
NoInput == [op |-> "read", actor |-> NoUser, target |-> NoUser, body |-> AnyBody]

LoginStages   == {"find", "issue"}
HandlerStages == {"load", "check", "hash", "write", "destroy", "read"}
Stages == {"idle", "verify"} \cup LoginStages \cup HandlerStages

Replies == {"none", "ok", "not found (401)", "only admin can access",
            "duplicate_email", "invalid_password", "invalid_credentials",
            "inactive_admin", "internal_server", "error"}

-----------------------------------------------------------------------------
(* Queries *)

Live(u) == users[u].status = "live"

\* WHERE "deleted_at" IS NULL AND LOWER(email) = e ...
Matching(e) == {u \in Users : Live(u) /\ Lower[users[u].email] = Lower[e]}

\* ... ORDER BY "created_at" DESC LIMIT 1: the answers the query may give, one row
\* or none; of rows that were created at one time it may be any.
Newest(e) == {u \in Matching(e) : \A v \in Matching(e) : users[v].created <= users[u].created}
FindByEmail(e) == IF Matching(e) = {} THEN {{}} ELSE {{u} : u \in Newest(e)}

\* Variant: the query without "deleted_at" IS NULL.
FindByIDEvenDeleted(u) == {v \in Users : v = u /\ users[v].status # "absent"}

\* What FindByID can see: rows not soft-deleted.
FindByID(u) == {v \in Users : v = u /\ Live(v)}

\* May the actor make this request, going by the table as it is now?  The
\* superadmin group asks for the Admin role, the admin group for a live row.
Entitled(actor, op) ==
    /\ actor \in Users
    /\ Live(actor)
    /\ op = "read" \/ users[actor].role = AdminRole

-----------------------------------------------------------------------------
Init ==
    /\ users = [u \in Users |-> IF u = Root THEN RootRow ELSE UnusedRow]
    /\ issued = {Root}   \* the seeded superadmin has logged in before
    /\ begun = 0
    /\ pc = [w \in Requests |-> "idle"]
    /\ input = [w \in Requests |-> NoInput]
    /\ local = [w \in Requests |-> Fresh]
    /\ reply = [w \in Requests |-> "none"]
    /\ vouched = [w \in Requests |-> FALSE]
    /\ stale = [w \in Requests |-> FALSE]
    /\ blind = FALSE

Goto(w, stage) == pc' = [pc EXCEPT ![w] = stage]

\* The handler returns: its answer is sent and its locals are gone.
Answer(w, r) ==
    /\ Goto(w, "idle")
    /\ reply' = [reply EXCEPT ![w] = r]
    /\ local' = [local EXCEPT ![w] = Fresh]
    /\ input' = [input EXCEPT ![w] = NoInput]

\* A failing write is answered with an error, whether or not it took effect.
WriteAnswers == {"ok"} \cup (IF DBCanFail THEN {"error"} ELSE {})

-----------------------------------------------------------------------------
(* A request arrives *)

Begin(w, stage, in) ==
    /\ pc[w] = "idle"
    /\ begun < MaxRequests
    /\ begun' = begun + 1
    /\ Goto(w, stage)
    /\ input' = [input EXCEPT ![w] = in]
    /\ reply' = [reply EXCEPT ![w] = "none"]
    /\ UNCHANGED <<users, issued, local>>

\* Bound: a create is only sent while the finite set Users still has an id
\* for every create in flight.
Creating == {w \in Requests : input[w].op = "create"}
IdLeft == Cardinality(Creating) < Cardinality({u \in Users : users[u].status = "absent"})

\* Each of these carries a token Login issued to the actor.
BeginCreate(w) == \E actor \in issued, b \in Bodies :
    /\ IdLeft
    /\ Begin(w, "verify", [op |-> "create", actor |-> actor, target |-> NoUser, body |-> b])

BeginUpdate(w) == \E actor \in issued, target \in Users, b \in Bodies :
    Begin(w, "verify", [op |-> "update", actor |-> actor, target |-> target, body |-> b])

BeginDelete(w) == \E actor \in issued, target \in Users :
    Begin(w, "verify", [op |-> "delete", actor |-> actor, target |-> target, body |-> AnyBody])

BeginRead(w) == \E actor \in issued, target \in Users :
    Begin(w, "verify", [op |-> "read", actor |-> actor, target |-> target, body |-> AnyBody])

BeginLogin(w) == \E b \in Bodies :
    /\ b.pwd \in Passwords
    /\ Begin(w, "find", [op |-> "login", actor |-> NoUser, target |-> NoUser, body |-> b])

-----------------------------------------------------------------------------
(* The token middleware *)

HandlerOf == [create |-> "check", update |-> "load", delete |-> "destroy", read |-> "read"]

VerifyAdmits(w) ==
    /\ pc[w] = "verify"
    /\ FindByID(input[w].actor) # {}
    /\ input[w].op = "read" \/ users[input[w].actor].role = AdminRole
    /\ Goto(w, HandlerOf[input[w].op])
    /\ UNCHANGED <<users, issued, begun, input, local, reply>>

\* A failing query leaves the admin's ID empty, as a missing row does.
VerifyRefuses(w) ==
    /\ pc[w] = "verify"
    /\ \/ /\ FindByID(input[w].actor) = {} \/ DBCanFail
          /\ Answer(w, "not found (401)")
       \/ /\ FindByID(input[w].actor) # {}
          /\ input[w].op # "read" /\ users[input[w].actor].role # AdminRole
          /\ Answer(w, "only admin can access")
    /\ UNCHANGED <<users, issued, begun>>

-----------------------------------------------------------------------------
(* AdminUC: create and update *)

\* Update: oldData, err := uc.FindByID(id, true)
LoadOld(w) ==
    /\ pc[w] = "load"
    /\ \/ \E u \in FindByID(input[w].target) :
             /\ local' = [local EXCEPT ![w] = [@ EXCEPT !.id = u, !.pwd = users[u].pwd]]
             /\ Goto(w, "check")
             /\ UNCHANGED <<input, reply>>
       \/ /\ FindByID(input[w].target) = {} \/ DBCanFail
          /\ Answer(w, "error")
    /\ UNCHANGED <<users, issued, begun>>

\* Variant: admin.ID != "" alone.
TakenByAnyone(w, found) == found # {}

\* Variant: the row found counts only if it has the very spelling of the body.
TakenBySpelling(w, found) ==
    \E u \in found : u # local[w].id /\ users[u].email = input[w].body.email

\* admin.ID != "" && admin.ID != oldData.ID
TakenByOther(w, found) == \E u \in found : u # local[w].id

\* CheckDetails up to the hashing.  The error of FindByEmail is dropped, so a
\* failing query reads as "no such e-mail".
Passes(w) == \/ \E found \in FindByEmail(input[w].body.email) : ~TakenByOther(w, found)
             \/ DBCanFail

CheckRefuses(w) ==
    /\ pc[w] = "check"
    /\ \/ /\ \E found \in FindByEmail(input[w].body.email) : TakenByOther(w, found)
          /\ Answer(w, "duplicate_email")
       \/ /\ Passes(w)
          /\ input[w].body.pwd = NoPassword /\ local[w].pwd = Plain(NoPassword)
          /\ Answer(w, "invalid_password")
    /\ UNCHANGED <<users, issued, begun>>

\* Variant: without the fall-back on oldData's password.
CheckAcceptsAnyPassword(w) ==
    /\ pc[w] = "check" /\ Passes(w)
    /\ local' = [local EXCEPT ![w].pwd = Plain(input[w].body.pwd)]
    /\ Goto(w, "hash")
    /\ UNCHANGED <<users, issued, begun, input, reply>>

CheckAccepts(w) ==
    /\ pc[w] = "check" /\ Passes(w)
    /\ \/ /\ input[w].body.pwd # NoPassword
          /\ local' = [local EXCEPT ![w].pwd = Plain(input[w].body.pwd)]
       \/ /\ input[w].body.pwd = NoPassword /\ local[w].pwd # Plain(NoPassword)
          /\ local' = local   \* oldData's password, as it is stored
    /\ Goto(w, "hash")
    /\ UNCHANGED <<users, issued, begun, input, reply>>

\* bcrypt.HashPassword, then now := time.Now().UTC(): no shared state is read, but
\* the hash takes long and the time stamp is taken here.
HashAndStamp(w) ==
    /\ pc[w] = "hash"
    /\ \E now \in Times :
          local' = [local EXCEPT ![w] = [id |-> @.id, pwd |-> HashPassword(@.pwd), now |-> now]]
    /\ Goto(w, "write")
    /\ UNCHANGED <<users, issued, begun, input, reply>>

\* bcrypt returns an error, which is returned.
HashFails(w) ==
    /\ pc[w] = "hash" /\ DBCanFail
    /\ Answer(w, "error")
    /\ UNCHANGED <<users, issued, begun>>

\* INSERT: the database picks the id and checks the role's foreign key.
Store(w) ==
    /\ pc[w] = "write" /\ input[w].op = "create"
    /\ input[w].body.role \in Roles
    /\ \E u \in Users, r \in WriteAnswers :
          /\ users[u].status = "absent"
          /\ users' = [users EXCEPT ![u] = Row(input[w].body, local[w].pwd, local[w].now)]
          /\ Answer(w, r)
    /\ UNCHANGED <<issued, begun>>

\* UPDATE ... WHERE "deleted_at" IS NULL AND "id" = $4: the whole data column
\* and the role are replaced, created_at stays.
Updated(row, b, pwd) == [row EXCEPT !.email = b.email, !.pwd = pwd,
                                    !.active = b.active, !.role = b.role]

\* Variant: WHERE "id" = $4 alone.
UpdateRowEvenDeleted(w) ==
    /\ pc[w] = "write" /\ input[w].op = "update"
    /\ input[w].body.role \in Roles
    /\ users' = [users EXCEPT ![input[w].target] = Updated(@, input[w].body, local[w].pwd)]
    /\ Answer(w, "ok")
    /\ UNCHANGED <<issued, begun>>

UpdateRow(w) ==
    /\ pc[w] = "write" /\ input[w].op = "update"
    /\ input[w].body.role \in Roles
    /\ \E u \in FindByID(input[w].target), r \in WriteAnswers :
          /\ users' = [users EXCEPT ![u] = Updated(@, input[w].body, local[w].pwd)]
          /\ Answer(w, r)
    /\ UNCHANGED <<issued, begun>>

\* The statement changes nothing: no such role, no live row, or a failure.
WriteFails(w) ==
    /\ pc[w] = "write"
    /\ \/ input[w].body.role \notin Roles
       \/ input[w].op = "update" /\ FindByID(input[w].target) = {}
       \/ DBCanFail
    /\ Answer(w, "error")
    /\ UNCHANGED <<users, issued, begun>>

-----------------------------------------------------------------------------
(* AdminUC: delete and read *)

\* Variant: a hard delete, after which the id may be given out again.
DestroyFreesId(w) ==
    /\ pc[w] = "destroy"
    /\ users' = [users EXCEPT ![input[w].target].status = "absent"]
    /\ Answer(w, "ok")
    /\ UNCHANGED <<issued, begun>>

Destroy(w) ==
    /\ pc[w] = "destroy"
    /\ \/ \E u \in FindByID(input[w].target), r \in WriteAnswers :
             /\ users' = [users EXCEPT ![u].status = "deleted"]
             /\ Answer(w, r)
       \/ /\ FindByID(input[w].target) = {} \/ DBCanFail
          /\ users' = users
          /\ Answer(w, "error")
    /\ UNCHANGED <<issued, begun>>

Read(w) ==
    /\ pc[w] = "read"
    /\ \/ FindByID(input[w].target) # {} /\ Answer(w, "ok")
       \/ (FindByID(input[w].target) = {} \/ DBCanFail) /\ Answer(w, "error")
    /\ UNCHANGED <<users, issued, begun>>

-----------------------------------------------------------------------------
(* AdminUC: login *)

\* The row the credentials open, with the checks in the code's order.
Opens(u, p) == CheckPasswordHash(p, users[u].pwd)

LoginRefuses(w) ==
    LET p == input[w].body.pwd
    IN  /\ pc[w] = "find"
        /\ \/ /\ \/ p \notin LongEnough \/ DBCanFail
                 \/ \E found \in FindByEmail(input[w].body.email) :
                       \A u \in found : ~Opens(u, p)
              /\ Answer(w, "invalid_credentials")
           \/ /\ p \in LongEnough
              /\ \E found \in FindByEmail(input[w].body.email), u \in Users :
                    u \in found /\ Opens(u, p) /\ ~users[u].active
              /\ Answer(w, "inactive_admin")
        /\ UNCHANGED <<users, issued, begun>>

\* Variant: the payload is built from an empty view of the admin.
LoginFindsNoId(w) ==
    /\ pc[w] = "find"
    /\ \E found \in FindByEmail(input[w].body.email), u \in Users :
          u \in found /\ Opens(u, input[w].body.pwd) /\ users[u].active
    /\ Goto(w, "issue")
    /\ UNCHANGED <<users, issued, begun, input, reply, local>>

LoginFinds(w) ==
    LET p == input[w].body.pwd
    IN  /\ pc[w] = "find"
        /\ p \in LongEnough
        /\ \E found \in FindByEmail(input[w].body.email), u \in Users :
              /\ u \in found /\ Opens(u, p) /\ users[u].active
              /\ local' = [local EXCEPT ![w].id = u]
        /\ Goto(w, "issue")
        /\ UNCHANGED <<users, issued, begun, input, reply>>

\* GenerateToken: the device record goes to Redis first, then the token is made.
IssueToken(w) ==
    /\ pc[w] = "issue"
    /\ \/ issued' = issued \cup {local[w].id} /\ Answer(w, "ok")
       \/ DBCanFail /\ issued' = issued /\ Answer(w, "internal_server")
    /\ UNCHANGED <<users, begun>>

-----------------------------------------------------------------------------
BeginSome(w) == BeginCreate(w) \/ BeginUpdate(w) \/ BeginDelete(w)
                \/ BeginRead(w) \/ BeginLogin(w)

Proceed(w) ==
    \/ VerifyAdmits(w) \/ VerifyRefuses(w)
    \/ LoadOld(w) \/ CheckRefuses(w) \/ CheckAccepts(w)
    \/ HashAndStamp(w) \/ HashFails(w)
    \/ Store(w) \/ UpdateRow(w) \/ WriteFails(w)
    \/ Destroy(w) \/ Read(w)
    \/ LoginRefuses(w) \/ LoginFinds(w) \/ IssueToken(w)

\* History, no code.  Has the actor been entitled at some state of its request?
Vouch ==
    vouched' = [w \in Requests |->
                   /\ pc'[w] # "idle"
                   /\ (pc[w] # "idle" /\ vouched[w])
                         \/ Entitled(input[w].actor, input[w].op)']

\* Has the row of an update got another password since the update loaded it?
Age ==
    stale' = [w \in Requests |->
                 /\ input[w].op = "update" /\ pc'[w] \in {"check", "hash", "write"}
                 /\ \/ stale[w]
                    \/ users'[input[w].target].pwd # users[input[w].target].pwd]

\* Has a request passed the e-mail check only because its query failed?
Refusable(w) == \A found \in FindByEmail(input[w].body.email) : TakenByOther(w, found)

Blind ==
    blind' = (blind \/ \E w \in Requests : pc[w] = "check" /\ pc'[w] = "hash" /\ Refusable(w))

Witness == Vouch /\ Age /\ Blind

\* Bound: the last request has been answered.
Finished == /\ begun = MaxRequests /\ \A w \in Requests : pc[w] = "idle"
            /\ UNCHANGED vars

Next == \/ \E w \in Requests : (BeginSome(w) \/ Proceed(w)) /\ Witness
        \/ Finished

Spec == Init /\ [][Next]_vars

-----------------------------------------------------------------------------
(* Properties *)

\* The type invariant: every variable keeps to its set (AdminUC's structures
\* and the columns of "users").
TypeOK ==
    /\ users \in [Users -> Rows]
    /\ begun \in Nat
    /\ issued \subseteq Users
    /\ pc \in [Requests -> Stages]
    /\ input \in [Requests -> Inputs]
    /\ local \in [Requests -> Locals]
    /\ reply \in [Requests -> Replies]
    /\ vouched \in [Requests -> BOOLEAN]
    /\ stale \in [Requests -> BOOLEAN]
    /\ blind \in BOOLEAN

\* No two live accounts share an e-mail, upper and lower case alike: what the
\* "duplicate_email" answer of CheckDetails is for.
UniqueEmail ==
    \A u, v \in Users : Live(u) /\ Live(v) /\ Lower[users[u].email] = Lower[users[v].email]
                        => u = v

\* What the check of CheckDetails is worth when N requests run at once: as long as
\* no failed query has let a request pass blindly, an e-mail never has more live
\* accounts than N, because a request gets past the check only while nobody else
\* holds the e-mail.
SharersBounded ==
    ~blind => \A e \in Emails : Cardinality(Matching(e)) <= Cardinality(Requests)

\* A soft-deleted account never changes again and never comes back, although
\* an update that has already loaded it may still be on its way to the table
\* (WHERE "deleted_at" IS NULL in Update and Destroy).
DeletedIsFinal ==
    [][\A u \in Users : users[u].status = "deleted" => users'[u] = users[u]]_vars

\* No handler runs for an actor who was not entitled to the request at some
\* moment after it arrived: a token whose account was deleted or lost the Admin
\* role beforehand opens nothing (the token middleware).
ActorEntitled == \A w \in Requests : pc[w] \in HandlerStages => vouched[w]

\* An update that carries no password never brings an old password back, unless
\* the password was replaced after the update had read the row: what it writes is
\* then, whatever ran meanwhile, the hash of what the row holds at that moment
\* (CheckDetails falls back on oldData's password, read two calls earlier).
PasswordLostOnlyByRace ==
    [][\A w \in Requests :
          UpdateRow(w) /\ input[w].body.pwd = NoPassword /\ ~stale[w]
              => users'[input[w].target].pwd = HashPassword(users[input[w].target].pwd)]_vars

\* What is stored is the hash of a password: "Decrypt password input" before
\* "Encrypt password", as CheckDetails has it in its comments.
StoredIsHashOfPlaintext == \A u \in Users : Live(u) => users[u].pwd.times = 1

-----------------------------------------------------------------------------
(* What the service implements *)

\* A row without its place in time, and the password that opens it: none does
\* when the stored hash was hashed again.
Opener(pwd) == IF pwd.times = 1 THEN pwd.of ELSE NoPassword

Account(row) == [status |-> row.status, email |-> row.email, opener |-> Opener(row.pwd),
                 active |-> row.active, role |-> row.role]

Content(row) == [email |-> row.email, pwd |-> row.pwd, active |-> row.active,
                 role |-> row.role, created |-> row.created]

Contents == [email : Emails, pwd : Pwds, active : BOOLEAN, role : Roles, created : Times]

\* Whatever runs at once and whatever fails, the table is a directory of
\* accounts (module Directory): one row changes at a time, ids go from absent to
\* live to deleted, tokens go to rows that exist.
Dir == INSTANCE Directory WITH
           Founder <- Root, FoundersContent <- Content(RootRow),
           status  <- [u \in Users |-> users[u].status],
           content <- [u \in Users |-> Content(users[u])],
           granted <- issued

ImplementsDirectory == Dir!Spec

\* With one slot and no failures the sequence of calls is as good as one step
\* (module AtomicAdmin): each answer and each change is the one the table as it
\* was when the request arrived calls for.
TheSlot == CHOOSE w \in Requests : TRUE

Atomic == INSTANCE AtomicAdmin WITH
              RootAccount  <- Account(RootRow),
              BlankAccount <- Account(UnusedRow),
              accounts <- [u \in Users |-> Account(users[u])],
              asked    <- input[TheSlot],
              answer   <- reply[TheSlot]

SerialIsAtomic == Atomic!Spec

=============================================================================
