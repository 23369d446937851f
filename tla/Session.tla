------------------------------- MODULE Session -------------------------------
(***************************************************************************)
(* Tokens and device records: concurrent runs of JwtUC.GenerateToken, what *)
(* verifyJWT and verifyRefreshJWT make of the tokens, and the record       *)
(* "userDeviceID"+id in Redis that names the device of the latest login.   *)
(*                                                                         *)
(* A login stores the record first and signs its tokens afterwards, each   *)
(* step a call that may fail; the clock may move, and other logins of the  *)
(* same account may run, between the steps.                                *)
(***************************************************************************)
EXTENDS Naturals, FiniteSets

CONSTANTS
    Logins,      \* goroutines that may log in at the same time
    Accounts,    \* ids in the payload
    RoleOf,      \* the role in the payload of each account
    Configs,     \* configurations of the server: see Config
    MaxLogins,   \* bound: GenerateToken calls in a behaviour
    MaxTime      \* bound: the clock, in hours

\* Secrets of the two kinds of token, their hours to live, and whether a usable
\* RSA key is configured.
Config == [secret : STRING, refreshSecret : STRING,
           exp : Nat, refreshExp : Nat, rsa : BOOLEAN]

ASSUME LoginsAssumption == IsFiniteSet(Logins)
ASSUME RoleAssumption == RoleOf \in [Accounts -> {"admin", "user"}]
ASSUME ConfigsAssumption == Configs \subseteq Config
ASSUME SessionBoundsAssumption == MaxLogins \in Nat /\ MaxTime \in Nat

VARIABLES
    config,   \* the environment the server was started with
    now,      \* the time
    record,   \* userDeviceID of each account, and when it goes away (0: never)
    begun,    \* GenerateToken calls so far; a call's number is its xid
    pc,       \* the step each login is at
    call,     \* what it has computed: the arguments of its tokens
    tokens    \* the tokens clients have been given

vars == <<config, now, record, begun, pc, call, tokens>>

Devices == 1..MaxLogins
Keys == {"file", "temp"}

NoCall == [account |-> "none", login |-> 0, device |-> 0, started |-> 0, key |-> "temp", exp |-> 0]

Init ==
    /\ config \in Configs
    /\ now = 0 /\ begun = 0
    /\ record = [a \in Accounts |-> [device |-> 0, expires |-> 0]]
    /\ pc = [l \in Logins |-> "idle"]
    /\ call = [l \in Logins |-> NoCall]
    /\ tokens = {}

-----------------------------------------------------------------------------
(* GenerateToken *)

At(l, place) == pc[l] = place
Goto(l, place) == pc' = [pc EXCEPT ![l] = place]
Fail(l) == Goto(l, "idle") /\ call' = [call EXCEPT ![l] = NoCall]

\* A call is named by its xid, which also names the device.
NewCall(a, xid) ==
    [account |-> a, login |-> xid, device |-> xid, started |-> now, key |-> "temp", exp |-> 0]

\* Variant: the client's own name for its device, the same at each login.
BeginNamed(l) ==
    /\ At(l, "idle") /\ begun < MaxLogins
    /\ begun' = begun + 1
    /\ \E a \in Accounts, d \in Devices :
          /\ \A k \in Logins \ {l} : call[k].device # d
          /\ call' = [call EXCEPT ![l] = [NewCall(a, begun') EXCEPT !.device = d]]
    /\ Goto(l, "store")
    /\ UNCHANGED <<config, now, record, tokens>>

\* deviceID := xid.New()
Begin(l) ==
    /\ At(l, "idle") /\ begun < MaxLogins
    /\ begun' = begun + 1
    /\ \E a \in Accounts : call' = [call EXCEPT ![l] = NewCall(a, begun')]
    /\ Goto(l, "store")
    /\ UNCHANGED <<config, now, record, tokens>>

\* StoreToRedisExp(..., TOKEN_EXP_SECRET + "h"): a time to live of "0h" is none.
Stored(l) ==
    record' = [record EXCEPT ![call[l].account] =
                  [device  |-> call[l].device,
                   expires |-> IF config.exp = 0 THEN 0 ELSE now + config.exp]]

\* Variant: the record keeps the time to live it has.
StoreDeviceKeepingTTL(l) ==
    /\ At(l, "store")
    /\ record' = [record EXCEPT ![call[l].account] =
                     [device  |-> call[l].device,
                      expires |-> IF @.device # 0 /\ now < @.expires THEN @.expires
                                  ELSE now + config.exp]]
    /\ Goto(l, "encrypt")
    /\ UNCHANGED <<config, now, begun, call, tokens>>

StoreDevice(l) ==
    /\ At(l, "store")
    /\ Stored(l)
    /\ Goto(l, "encrypt")
    /\ UNCHANGED <<config, now, begun, call, tokens>>

\* An error of the SET; the record may have been written all the same.
StoreFails(l) ==
    /\ At(l, "store")
    /\ Stored(l) \/ UNCHANGED record
    /\ Fail(l)
    /\ UNCHANGED <<config, now, begun, tokens>>

\* Jwe.Generate: the key is read from its file at every call, and when that is
\* not possible a temporary one is made, which nobody can ever open.
Encrypt(l) ==
    /\ At(l, "encrypt")
    /\ \E key \in Keys :
          /\ key = "file" => config.rsa
          /\ call' = [call EXCEPT ![l].key = key]
    /\ Goto(l, "sign")
    /\ UNCHANGED <<config, now, record, begun, tokens>>

EncryptFails(l) ==
    /\ At(l, "encrypt")
    /\ Fail(l)
    /\ UNCHANGED <<config, now, record, begun, tokens>>

\* A token; kind, login and started are for the properties to tell them apart.
Token(l, kind, secret, exp) ==
    [account |-> call[l].account, device |-> call[l].device, key |-> call[l].key,
     secret |-> secret, exp |-> exp,
     kind |-> kind, login |-> call[l].login, started |-> call[l].started]

\* Jwt.GetToken
GetToken(l) ==
    /\ At(l, "sign")
    /\ call' = [call EXCEPT ![l].exp = now + config.exp]
    /\ Goto(l, "sign refresh")
    /\ UNCHANGED <<config, now, record, begun, tokens>>

\* Jwt.GetRefreshToken, after which the client is given both.
GetRefreshToken(l) ==
    /\ At(l, "sign refresh")
    /\ tokens' = tokens \cup {Token(l, "access", config.secret, call[l].exp),
                              Token(l, "refresh", config.refreshSecret, now + config.refreshExp)}
    /\ Goto(l, "idle") /\ call' = [call EXCEPT ![l] = NoCall]
    /\ UNCHANGED <<config, now, record, begun>>

SignFails(l) ==
    /\ pc[l] \in {"sign", "sign refresh"}
    /\ Fail(l)
    /\ UNCHANGED <<config, now, record, begun, tokens>>

Tick ==
    /\ now < MaxTime
    /\ now' = now + 1
    /\ UNCHANGED <<config, record, begun, pc, call, tokens>>

GenerateToken(l) == \/ Begin(l) \/ StoreDevice(l) \/ StoreFails(l)
                    \/ Encrypt(l) \/ EncryptFails(l)
                    \/ GetToken(l) \/ GetRefreshToken(l) \/ SignFails(l)

Next == Tick \/ \E l \in Logins : GenerateToken(l)

Spec == Init /\ [][Next]_vars
-----------------------------------------------------------------------------
(* Verification: what becomes of a token presented now, if Redis answers and *)
(* the RSA key can be read.                                                  *)

\* Jwe.Rollback
Rollback(t) == config.rsa /\ t.key = "file"

HasRole(t, role) == RoleOf[t.account] = role

\* GetFromRedis("userDeviceID" + id) and the comparison.
DeviceRecorded(t) ==
    LET r == record[t.account]
    IN r.device = t.device /\ (r.expires = 0 \/ now < r.expires)

VerifyJWT(t, role, singleLogin) ==
    /\ t.secret = config.secret
    /\ ~(t.exp < now)
    /\ Rollback(t)
    /\ HasRole(t, role)
    /\ singleLogin /\ role = "user" => DeviceRecorded(t)

VerifyRefreshJWT(t, role) ==
    /\ t.secret = config.refreshSecret
    /\ ~(t.exp < now)
    /\ Rollback(t)
    /\ HasRole(t, role)

-----------------------------------------------------------------------------
(* Properties *)

Calls == [account : Accounts \cup {"none"}, login : 0..begun, device : 0..begun,
          started : 0..now, key : Keys, exp : Nat]
Tokens == [account : Accounts, device : Devices, key : Keys,
           secret : {config.secret, config.refreshSecret}, exp : Nat,
           kind : {"access", "refresh"}, login : 1..begun, started : 0..now]

\* The type invariant; a record always names a login that has begun.
TypeOK ==
    /\ config \in Configs /\ now \in 0..MaxTime /\ begun \in 0..MaxLogins
    /\ record \in [Accounts -> [device : 0..begun, expires : Nat]]
    /\ pc \in [Logins -> {"idle", "store", "encrypt", "sign", "sign refresh"}]
    /\ call \in [Logins -> Calls]
    /\ \A l \in Logins : ~At(l, "idle") => call[l].account \in Accounts
                                           /\ call[l].device \in 1..begun
    /\ tokens \subseteq Tokens

\* Is the token of the user's latest login (singleLogin)?
Alone(t) == VerifyJWT(t, "user", TRUE)

\* With singleLogin, at most one login of a user has a token that is accepted,
\* however the steps of logins on several devices interleave: "Expired Device
\* Token!" on all others.
OneDevice ==
    \A t, u \in tokens : t.account = u.account /\ Alone(t) /\ Alone(u)
                         => t.login = u.login

\* A token that was refused for its device or its age is never accepted again.
NoRevival == [][\A t \in tokens : Alone(t)' => Alone(t)]_vars

\* A token cannot stand in for one of the other kind, when the two secrets differ.
KindsApart ==
    config.secret # config.refreshSecret =>
        \A t \in tokens, role \in {"admin", "user"} :
            /\ t.kind = "access" => ~VerifyRefreshJWT(t, role)
            /\ t.kind = "refresh" => ~VerifyJWT(t, role, FALSE)

\* A session lasts: an access token of the login that stored its device last,
\* sealed with the key of the file, is accepted for the whole time to live
\* counted from the moment its login began.  Only a later login can end it,
\* also one that fails after it has stored its device.
SessionLasts ==
    \A t \in tokens :
        /\ t.kind = "access" /\ t.key = "file"
        /\ RoleOf[t.account] = "user"
        /\ record[t.account].device = t.device
        /\ now < t.started + config.exp
        => Alone(t)
=============================================================================
