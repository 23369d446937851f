----------------------------- MODULE AtomicAdmin -----------------------------
(***************************************************************************)
(* The admin service as its clients are told to see it: a request is       *)
(* checked, carried out and answered in one step.  Accounts have no        *)
(* creation time here (no e-mail is held twice, so no query has to choose) *)
(* and a password is the plaintext that opens the account.                 *)
(*                                                                         *)
(* An update without a password leaves the account with none that opens    *)
(* it: that is what the service does (the stored hash is hashed again),    *)
(* and this specification says so instead of hiding it.                    *)
(***************************************************************************)
EXTENDS Naturals

CONSTANTS Users, NoUser, Lower, NoPassword, LongEnough, Roles, AdminRole,
          Inputs, NoInput, Root, RootAccount, BlankAccount

VARIABLES
    accounts,  \* [status, email, opener, active, role] of each id
    issued,    \* the accounts that hold a token
    asked,     \* the request being served, NoInput when there is none
    answer     \* the answer to the latest request

atomicVars == <<accounts, issued, asked, answer>>

Live(u) == u \in Users /\ accounts[u].status = "live"

Holds(u, e) == Live(u) /\ Lower[accounts[u].email] = Lower[e]

Init ==
    /\ accounts = [u \in Users |-> IF u = Root THEN RootAccount ELSE BlankAccount]
    /\ issued = {Root}
    /\ asked = NoInput
    /\ answer = "none"

Ask ==
    /\ asked = NoInput
    /\ asked' \in Inputs \ {NoInput}
    /\ asked'.op # "login" => asked'.actor \in issued
    /\ answer' = "none"
    /\ UNCHANGED <<accounts, issued>>

Reply(r) == asked' = NoInput /\ answer' = r

Refuse(r) == Reply(r) /\ UNCHANGED <<accounts, issued>>

\* The actor has the right to ask for this.
Authorised ==
    /\ asked # NoInput /\ asked.op # "login"
    /\ Live(asked.actor)
    /\ asked.op = "read" \/ accounts[asked.actor].role = AdminRole

Unauthorised ==
    /\ asked # NoInput /\ asked.op # "login" /\ ~Authorised
    /\ Refuse(IF Live(asked.actor) THEN "only admin can access" ELSE "not found (401)")

Taken == \E u \in Users : u # asked.target /\ Holds(u, asked.body.email)

Account(opener) == [status |-> "live", email |-> asked.body.email, opener |-> opener,
                    active |-> asked.body.active, role |-> asked.body.role]

Create ==
    /\ Authorised /\ asked.op = "create"
    /\ \/ Taken /\ Refuse("duplicate_email")
       \/ ~Taken /\ asked.body.pwd = NoPassword /\ Refuse("invalid_password")
       \/ /\ ~Taken /\ asked.body.pwd # NoPassword
          /\ asked.body.role \notin Roles /\ Refuse("error")
       \/ /\ ~Taken /\ asked.body.pwd # NoPassword /\ asked.body.role \in Roles
          /\ \E u \in Users :
                /\ accounts[u].status = "absent"
                /\ accounts' = [accounts EXCEPT ![u] = Account(asked.body.pwd)]
          /\ UNCHANGED issued
          /\ Reply("ok")

Update ==
    /\ Authorised /\ asked.op = "update"
    /\ \/ ~Live(asked.target) /\ Refuse("error")
       \/ Live(asked.target) /\ Taken /\ Refuse("duplicate_email")
       \/ /\ Live(asked.target) /\ ~Taken
          /\ asked.body.role \notin Roles /\ Refuse("error")
       \/ /\ Live(asked.target) /\ ~Taken /\ asked.body.role \in Roles
          /\ accounts' = [accounts EXCEPT ![asked.target] = Account(asked.body.pwd)]
          /\ UNCHANGED issued
          /\ Reply("ok")

Delete ==
    /\ Authorised /\ asked.op = "delete"
    /\ \/ ~Live(asked.target) /\ Refuse("error")
       \/ /\ Live(asked.target)
          /\ accounts' = [accounts EXCEPT ![asked.target].status = "deleted"]
          /\ UNCHANGED issued
          /\ Reply("ok")

Read ==
    /\ Authorised /\ asked.op = "read"
    /\ Refuse(IF Live(asked.target) THEN "ok" ELSE "error")

\* The account whose e-mail and password these are.
OpenedBy(u) == /\ Holds(u, asked.body.email)
               /\ accounts[u].opener = asked.body.pwd
               /\ asked.body.pwd \in LongEnough

Login ==
    /\ asked # NoInput /\ asked.op = "login"
    /\ \/ /\ \A u \in Users : ~OpenedBy(u)
          /\ Refuse("invalid_credentials")
       \/ /\ \E u \in Users : OpenedBy(u) /\ ~accounts[u].active
          /\ Refuse("inactive_admin")
       \/ \E u \in Users :
             /\ OpenedBy(u) /\ accounts[u].active
             /\ issued' = issued \cup {u}
             /\ UNCHANGED accounts
             /\ Reply("ok")

Next == Ask \/ Unauthorised \/ Create \/ Update \/ Delete \/ Read \/ Login

Spec == Init /\ [][Next]_atomicVars
=============================================================================
