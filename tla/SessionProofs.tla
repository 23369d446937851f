---------------------------- MODULE SessionProofs ----------------------------
(***************************************************************************)
(* Proofs about tokens and device records, for any number of logins,       *)
(* accounts and configurations.                                            *)
(*                                                                         *)
(* What the properties rest on: the xid of a call is its own (Numbered),   *)
(* a key or secret says what sealed or signed a token (Sealed, Kinds), and *)
(* a record that names a login's device lives as long as that login was    *)
(* promised (Recorded).                                                    *)
(***************************************************************************)
EXTENDS Session, TLAPS

Busy(l) == pc[l] # "idle"

Numbered ==
    /\ \A l \in Logins : Busy(l) => call[l].device = call[l].login
    /\ \A k, l \in Logins : Busy(k) /\ Busy(l) /\ call[k].device = call[l].device => k = l
    /\ \A t \in tokens : t.device = t.login /\ \A l \in Logins : Busy(l) => t.device # call[l].device

Sealed ==
    /\ \A l \in Logins : call[l].key = "file" => config.rsa
    /\ \A t \in tokens : t.key = "file" => config.rsa

Kinds ==
    /\ \A l \in Logins : pc[l] = "sign refresh" => call[l].started + config.exp <= call[l].exp
    /\ \A t \in tokens :
          /\ t.kind = "access" => t.secret = config.secret /\ t.started + config.exp <= t.exp
          /\ t.kind = "refresh" => t.secret = config.refreshSecret

\* If the record of the account names the device, it is there for the hours
\* promised to a login that started then.
Kept(account, device, started) ==
    record[account].device = device =>
        record[account].expires = 0 \/ started + config.exp <= record[account].expires

Lasting(e) == Kept(e.account, e.device, e.started)

Recorded ==
    /\ \A l \in Logins : pc[l] \in {"encrypt", "sign", "sign refresh"} => Lasting(call[l])
    /\ \A t \in tokens : Lasting(t)

SessionInv == TypeOK /\ Numbered /\ Sealed /\ Kinds /\ Recorded

-----------------------------------------------------------------------------
(* Types, part by part *)

WorldOK == config \in Configs /\ now \in 0..MaxTime /\ begun \in 0..MaxLogins
RecordOK == record \in [Accounts -> [device : 0..begun, expires : Nat]]
PlacesOK == pc \in [Logins -> {"idle", "store", "encrypt", "sign", "sign refresh"}]
CallsOK == /\ call \in [Logins -> Calls]
           /\ \A l \in Logins : Busy(l) => call[l].account \in Accounts /\ call[l].device \in 1..begun
TokensOK == \A t \in tokens : t \in Tokens

\* The type invariant is the conjunction of its parts.
LEMMA TypeParts == TypeOK <=> WorldOK /\ RecordOK /\ PlacesOK /\ CallsOK /\ TokensOK
  BY DEF TypeOK, WorldOK, RecordOK, PlacesOK, CallsOK, TokensOK, Busy, At

\* Times and numbers of calls are naturals.
LEMMA Numbers == ASSUME WorldOK
                 PROVE /\ config.exp \in Nat /\ config.refreshExp \in Nat
                       /\ now \in Nat /\ begun \in Nat
  BY ConfigsAssumption, SessionBoundsAssumption DEF WorldOK, Config

\* Time and the number of calls only grow; nothing else of the world changes.
LEMMA WorldKept == ASSUME WorldOK, [Next]_vars
                   PROVE WorldOK' /\ config' = config /\ now <= now' /\ begun <= begun'
<1>1. /\ config' = config
      /\ \/ UNCHANGED <<now, begun>>
         \/ now < MaxTime /\ now' = now + 1 /\ UNCHANGED begun
         \/ begun < MaxLogins /\ begun' = begun + 1 /\ UNCHANGED now
  BY Zenon DEF Next, vars, Tick, GenerateToken, Begin, StoreDevice, StoreFails, Encrypt,
     EncryptFails, GetToken, GetRefreshToken, SignFails
<1> QED
  BY <1>1, Numbers, SessionBoundsAssumption DEF WorldOK

\* Every step leads each goroutine to a place there is.
LEMMA PlacesKept == ASSUME PlacesOK, [Next]_vars PROVE PlacesOK'
  BY DEF PlacesOK, Next, vars, Tick, GenerateToken, Begin, StoreDevice, StoreFails, Encrypt,
         EncryptFails, GetToken, GetRefreshToken, SignFails, Fail, Goto

\* A record names no device that does not exist yet.
LEMMA RecordKept == ASSUME WorldOK, RecordOK, CallsOK, [Next]_vars PROVE RecordOK'
<1>1. /\ config.exp \in Nat /\ now \in Nat /\ begun \in Nat /\ begun' \in Nat /\ begun <= begun'
  BY Numbers, WorldKept DEF WorldOK
<1>2. CASE UNCHANGED record
  BY <1>1, <1>2 DEF RecordOK
<1>3. ASSUME NEW l \in Logins, Stored(l), At(l, "store") PROVE RecordOK'
  <2>1. call[l].account \in Accounts /\ call[l].device \in 0..begun
    BY <1>1, <1>3 DEF CallsOK, Busy, At
  <2>2. (IF config.exp = 0 THEN 0 ELSE now + config.exp) \in Nat
    BY <1>1
  <2> QED
    BY <1>1, <1>3, <2>1, <2>2 DEF RecordOK, Stored
<1> QED
  BY <1>2, <1>3 DEF Next, vars, Tick, GenerateToken, Begin, StoreDevice, StoreFails, Encrypt,
     EncryptFails, GetToken, GetRefreshToken, SignFails

\* Every step keeps the types of the calls in progress.
LEMMA CallsKept == ASSUME WorldOK, PlacesOK, CallsOK, [Next]_vars PROVE CallsOK'
<1>1. /\ config.exp \in Nat /\ now \in Nat /\ begun \in Nat
      /\ now' \in Nat /\ begun' \in Nat /\ now <= now' /\ begun <= begun'
  BY Numbers, WorldKept DEF WorldOK
<1>2. Calls \subseteq Calls'
  BY <1>1 DEF Calls
<1>3. CASE UNCHANGED <<pc, call>>
  BY <1>1, <1>2, <1>3 DEF CallsOK, Busy
<1>4. ASSUME NEW l \in Logins, NEW place, NEW c \in Calls', Goto(l, place),
             call' = [call EXCEPT ![l] = c],
             place # "idle" => c.account \in Accounts /\ c.device \in 1..begun'
      PROVE CallsOK'
  <2>1. call' \in [Logins -> Calls']
    BY <1>2, <1>4 DEF CallsOK
  <2>2. ASSUME NEW k \in Logins, pc'[k] # "idle"
        PROVE call'[k].account \in Accounts /\ call'[k].device \in 1..begun'
    <3>1. CASE k = l  BY <1>4, <2>2, <3>1 DEF CallsOK, PlacesOK, Goto
    <3>2. CASE k # l
      <4>1. pc[k] # "idle" /\ call'[k] = call[k]  BY <1>4, <2>2, <3>2 DEF CallsOK, PlacesOK, Goto
      <4> QED  BY <1>1, <4>1 DEF CallsOK, Busy
    <3> QED  BY <3>1, <3>2
  <2> QED  BY <2>1, <2>2 DEF CallsOK, Busy
<1>5. ASSUME NEW l \in Logins, Begin(l) PROVE CallsOK'
  <2>1. PICK a \in Accounts : call' = [call EXCEPT ![l] = NewCall(a, begun')]
    BY <1>5 DEF Begin
  <2>2. NewCall(a, begun') \in Calls'
    <3>1. now \in 0..now' /\ begun' \in 0..begun'  BY <1>1
    <3> QED  BY <3>1 DEF NewCall, Calls, Keys
  <2>3. NewCall(a, begun').account = a /\ NewCall(a, begun').device = begun'
    BY DEF NewCall
  <2>4. begun' \in 1..begun'  BY <1>1, <1>5 DEF Begin
  <2> QED  BY <1>4, <1>5, <2>1, <2>2, <2>3, <2>4 DEF Begin
<1>6. ASSUME NEW l \in Logins, Fail(l) PROVE CallsOK'
  <2>1. NoCall \in Calls'
    BY <1>1 DEF NoCall, Calls, Keys
  <2> QED
    BY <1>4, <1>6, <2>1 DEF Fail
<1>7. ASSUME NEW l \in Logins, NEW place, NEW c \in Calls, Busy(l), Goto(l, place),
             c.account = call[l].account, c.device = call[l].device,
             call' = [call EXCEPT ![l] = c]
      PROVE CallsOK'
  <2>1. c \in Calls' /\ c.account \in Accounts /\ c.device \in 1..begun'
    BY <1>1, <1>2, <1>7 DEF CallsOK
  <2> QED  BY <1>4, <1>7, <2>1
<1>8. ASSUME NEW l \in Logins, Encrypt(l) PROVE CallsOK'
  <2>1. PICK key \in Keys : call' = [call EXCEPT ![l].key = key]
    BY <1>8 DEF Encrypt
  <2>2. call[l] \in Calls
    BY DEF CallsOK
  <2>3. [call[l] EXCEPT !.key = key] \in Calls
    BY <2>2 DEF Calls
  <2>4. /\ [call[l] EXCEPT !.key = key].account = call[l].account
        /\ [call[l] EXCEPT !.key = key].device = call[l].device
    BY <2>2 DEF Calls
  <2> QED
    BY <1>7, <1>8, <2>1, <2>3, <2>4 DEF Encrypt, Busy, At
<1>9. ASSUME NEW l \in Logins, GetToken(l) PROVE CallsOK'
  <2>2. call[l] \in Calls
    BY DEF CallsOK
  <2>3. now + config.exp \in Nat
    BY <1>1
  <2>4. [call[l] EXCEPT !.exp = now + config.exp] \in Calls
    BY <2>2, <2>3 DEF Calls
  <2>5. /\ [call[l] EXCEPT !.exp = now + config.exp].account = call[l].account
        /\ [call[l] EXCEPT !.exp = now + config.exp].device = call[l].device
    BY <2>2 DEF Calls
  <2> QED
    BY <1>7, <1>9, <2>4, <2>5 DEF GetToken, Busy, At
<1>10. ASSUME NEW l \in Logins, StoreDevice(l) PROVE CallsOK'
  <2>1. call[l] \in Calls /\ call' = [call EXCEPT ![l] = call[l]]
    BY <1>10 DEF StoreDevice, CallsOK
  <2> QED  BY <1>7, <1>10, <2>1 DEF StoreDevice, Busy, At
<1> QED
  BY <1>3, <1>5, <1>6, <1>8, <1>9, <1>10
     DEF Next, vars, Tick, GenerateToken, StoreFails, EncryptFails,
         GetRefreshToken, SignFails, Fail

\* A token is made of the account, device and key of its call.
LEMMA TokensKept ==
    ASSUME WorldOK, CallsOK, TokensOK, Numbered, [Next]_vars PROVE TokensOK'
<1>1. /\ config' = config /\ config.exp \in Nat /\ config.refreshExp \in Nat
      /\ now \in Nat /\ begun \in Nat /\ begun <= MaxLogins
      /\ now' \in Nat /\ begun' \in Nat /\ now <= now' /\ begun <= begun'
  BY Numbers, WorldKept, SessionBoundsAssumption DEF WorldOK
<1>2. Tokens \subseteq Tokens'
  BY <1>1 DEF Tokens
<1>3. CASE UNCHANGED tokens
  BY <1>2, <1>3 DEF TokensOK
<1>4. ASSUME NEW l \in Logins, GetRefreshToken(l) PROVE TokensOK'
  <2>1. Busy(l)  BY <1>4 DEF GetRefreshToken, At, Busy
  <2>2. call[l] \in Calls  BY DEF CallsOK
  <2>3. /\ call[l].account \in Accounts /\ call[l].device \in Devices
        /\ call[l].key \in Keys /\ call[l].exp \in Nat
        /\ call[l].login \in 1..begun /\ call[l].started \in 0..now
    BY <1>1, <2>1, <2>2, SessionBoundsAssumption DEF CallsOK, Calls, Devices, Numbered
  <2>4. Token(l, "access", config.secret, call[l].exp) \in Tokens
    BY <2>3 DEF Token, Tokens
  <2>5. now + config.refreshExp \in Nat  BY <1>1
  <2>6. Token(l, "refresh", config.refreshSecret, now + config.refreshExp) \in Tokens
    BY <2>3, <2>5 DEF Token, Tokens
  <2> QED
    BY <1>2, <1>4, <2>4, <2>6 DEF TokensOK, GetRefreshToken
<1> QED
  BY <1>3, <1>4 DEF Next, vars, Tick, GenerateToken, Begin, StoreDevice, StoreFails, Encrypt,
     EncryptFails, GetToken, SignFails

\* The type invariant is inductive, relative to Numbered.
LEMMA TypeKept == ASSUME TypeOK, Numbered, [Next]_vars PROVE TypeOK'
<1>1. WorldOK /\ RecordOK /\ PlacesOK /\ CallsOK /\ TokensOK
  BY TypeParts
<1>2. WorldOK' /\ RecordOK' /\ PlacesOK' /\ CallsOK' /\ TokensOK'
  BY <1>1, WorldKept, RecordKept, PlacesKept, CallsKept, TokensKept
<1>3. TypeOK' <=> WorldOK' /\ RecordOK' /\ PlacesOK' /\ CallsOK' /\ TokensOK'
  BY DEF TypeOK, WorldOK, RecordOK, PlacesOK, CallsOK, TokensOK, Busy, At
<1> QED
  BY <1>2, <1>3

-----------------------------------------------------------------------------
(* What a step does to a call, in general: it begins, ends, or goes on with  *)
(* the same account, device and start.                                       *)

SameCall(l) == /\ call'[l].account = call[l].account /\ call'[l].device = call[l].device
               /\ call'[l].login = call[l].login /\ call'[l].started = call[l].started

\* A call that is in progress after a step began with it, or is the same as before.
LEMMA CallSteps ==
    ASSUME PlacesOK, CallsOK, [Next]_vars, NEW l \in Logins, pc'[l] # "idle"
    PROVE  Begin(l) \/ (pc[l] # "idle" /\ SameCall(l))
<1> USE DEF PlacesOK, CallsOK, Calls, SameCall
<1>1. CASE UNCHANGED <<pc, call>>  BY <1>1
<1>2. ASSUME NEW k \in Logins, k # l, GenerateToken(k) PROVE pc'[l] = pc[l] /\ call'[l] = call[l]
  BY <1>2 DEF GenerateToken, Begin, StoreDevice, StoreFails, Encrypt, EncryptFails, GetToken,
     GetRefreshToken, SignFails, Fail, Goto
<1>3. CASE StoreFails(l) \/ EncryptFails(l) \/ GetRefreshToken(l) \/ SignFails(l)
  <2>1. pc' = [pc EXCEPT ![l] = "idle"]
    BY <1>3 DEF StoreFails, EncryptFails, GetRefreshToken, SignFails, Fail, Goto
  <2> QED  BY <2>1
<1>4. CASE StoreDevice(l)  BY <1>4 DEF StoreDevice, At
<1>5. CASE Encrypt(l)
  <2>1. PICK key \in Keys : call' = [call EXCEPT ![l].key = key]  BY <1>5 DEF Encrypt
  <2>2. call'[l] = [call[l] EXCEPT !.key = key]  BY <2>1
  <2>3. call[l] \in Calls  OBVIOUS
  <2> QED  BY <1>5, <2>2, <2>3 DEF Encrypt, At
<1>6. CASE GetToken(l)
  <2>1. call'[l] = [call[l] EXCEPT !.exp = now + config.exp]  BY <1>6 DEF GetToken
  <2>2. call[l] \in Calls  OBVIOUS
  <2> QED  BY <1>6, <2>1, <2>2 DEF GetToken, At
<1>7. ASSUME NEW k \in Logins, GenerateToken(k)
      PROVE Begin(l) \/ (pc[l] # "idle" /\ SameCall(l))
  <2>1. CASE k # l
    <3>1. pc'[l] = pc[l] /\ call'[l] = call[l]  BY <1>2, <1>7, <2>1
    <3> QED  BY <3>1
  <2>2. CASE k = l
    <3>1. GenerateToken(l)  BY <1>7, <2>2
    <3>2. \/ Begin(l) \/ StoreDevice(l) \/ Encrypt(l) \/ GetToken(l)
          \/ StoreFails(l) \/ EncryptFails(l) \/ GetRefreshToken(l) \/ SignFails(l)
      BY <3>1, Zenon DEF GenerateToken
    <3> QED  BY <1>3, <1>4, <1>5, <1>6, <3>2
  <2> QED  BY <2>1, <2>2
<1> QED
  BY <1>1, <1>7, Zenon DEF Next, vars, Tick

\* A token is new only as one of the two of a call that ends.
LEMMA TokenSteps ==
    ASSUME [Next]_vars, NEW t \in tokens', t \notin tokens
    PROVE  \E l \in Logins :
              /\ GetRefreshToken(l)
              /\ \/ t = Token(l, "access", config.secret, call[l].exp)
                 \/ t = Token(l, "refresh", config.refreshSecret, now + config.refreshExp)
  BY DEF Next, vars, Tick, GenerateToken, Begin, StoreDevice, StoreFails, Encrypt,
     EncryptFails, GetToken, GetRefreshToken, SignFails

\* What a call that begins knows, and that the others go on undisturbed.
LEMMA BeginFacts ==
    ASSUME PlacesOK, CallsOK, NEW l \in Logins, Begin(l)
    PROVE  /\ call'[l].device = begun + 1 /\ call'[l].login = begun + 1
           /\ call'[l].started = now /\ call'[l].key = "temp" /\ pc'[l] = "store"
           /\ \A k \in Logins \ {l} : pc'[k] = pc[k] /\ call'[k] = call[k]
           /\ UNCHANGED <<record, tokens, config>>
<1>1. PICK a \in Accounts : call' = [call EXCEPT ![l] = NewCall(a, begun')]
  BY DEF Begin
<1>2. call'[l] = NewCall(a, begun + 1)
  BY <1>1 DEF CallsOK, Begin
<1> QED
  BY <1>1, <1>2 DEF NewCall, CallsOK, PlacesOK, Begin, Goto

\* No two calls or tokens of different logins share a device.
LEMMA NumberedKept ==
    ASSUME WorldOK, PlacesOK, CallsOK, TokensOK, Numbered, [Next]_vars PROVE Numbered'
<1>0. begun \in Nat
  BY Numbers
<1>1. ASSUME NEW l \in Logins, pc'[l] # "idle" PROVE call'[l].device = call'[l].login
  <2>1. CASE Begin(l)  BY <2>1, BeginFacts
  <2>2. CASE pc[l] # "idle" /\ SameCall(l)  BY <2>2 DEF SameCall, Numbered, Busy
  <2> QED  BY <1>1, <2>1, <2>2, CallSteps
<1>2. ASSUME NEW l \in Logins, pc[l] # "idle" PROVE call[l].device \in 1..begun
  BY <1>2 DEF CallsOK, Busy
<1>3. ASSUME NEW k \in Logins, NEW l \in Logins, k # l, pc'[k] # "idle", pc'[l] # "idle"
      PROVE call'[k].device # call'[l].device
  <2>1. ASSUME NEW i \in Logins, NEW j \in Logins, i # j, Begin(i), pc'[j] # "idle"
        PROVE call'[i].device # call'[j].device
    <3>1. pc[j] # "idle" /\ call'[j] = call[j] /\ call'[i].device = begun + 1
      BY <2>1, BeginFacts
    <3>2. call[j].device \in 1..begun  BY <1>2, <3>1
    <3> QED  BY <1>0, <3>1, <3>2
  <2>2. CASE Begin(k)  BY <1>3, <2>1, <2>2
  <2>3. CASE Begin(l)
    <3>1. call'[l].device # call'[k].device  BY <1>3, <2>1, <2>3
    <3> QED  BY <3>1
  <2>4. CASE ~Begin(k) /\ ~Begin(l)
    <3>1. pc[k] # "idle" /\ SameCall(k) /\ pc[l] # "idle" /\ SameCall(l)
      BY <1>3, <2>4, CallSteps
    <3> QED  BY <1>3, <3>1 DEF SameCall, Numbered, Busy
  <2> QED  BY <2>2, <2>3, <2>4
<1>4. ASSUME NEW t \in tokens' PROVE t.device = t.login
  <2>1. CASE t \in tokens  BY <2>1 DEF Numbered
  <2>2. CASE t \notin tokens
    <3>1. PICK l \in Logins : /\ GetRefreshToken(l)
                              /\ \/ t = Token(l, "access", config.secret, call[l].exp)
                                 \/ t = Token(l, "refresh", config.refreshSecret,
                                              now + config.refreshExp)
      BY <2>2, TokenSteps
    <3>2. t.device = call[l].device /\ t.login = call[l].login  BY <3>1 DEF Token
    <3> QED  BY <3>1, <3>2 DEF Numbered, GetRefreshToken, At, Busy
  <2> QED  BY <2>1, <2>2
<1>5. ASSUME NEW t \in tokens', NEW l \in Logins, pc'[l] # "idle"
      PROVE t.device # call'[l].device
  <2>1. CASE t \in tokens
    <3>1. CASE Begin(l)
      <4>1. t.login \in 1..begun  BY <2>1 DEF TokensOK, Tokens
      <4>2. t.device = t.login  BY <2>1 DEF Numbered
      <4>3. call'[l].device = begun + 1  BY <3>1, BeginFacts
      <4> QED  BY <1>0, <4>1, <4>2, <4>3
    <3>2. CASE pc[l] # "idle" /\ SameCall(l)  BY <2>1, <3>2 DEF SameCall, Numbered, Busy
    <3> QED  BY <1>5, <3>1, <3>2, CallSteps
  <2>2. CASE t \notin tokens
    <3>1. PICK k \in Logins : /\ GetRefreshToken(k)
                              /\ \/ t = Token(k, "access", config.secret, call[k].exp)
                                 \/ t = Token(k, "refresh", config.refreshSecret,
                                              now + config.refreshExp)
      BY <2>2, TokenSteps
    <3>2. t.device = call[k].device  BY <3>1 DEF Token
    <3>3. pc[k] # "idle" /\ l # k /\ ~Begin(l)
      BY <1>5, <3>1, BeginFacts DEF GetRefreshToken, At, Goto, PlacesOK
    <3>4. pc[l] # "idle" /\ SameCall(l)  BY <1>5, <3>3, CallSteps
    <3> QED  BY <3>2, <3>3, <3>4 DEF SameCall, Numbered, Busy
  <2> QED  BY <2>1, <2>2
<1> QED
  BY <1>1, <1>3, <1>4, <1>5, Zenon DEF Numbered, Busy

-----------------------------------------------------------------------------
(* Keys, secrets and times *)

\* An old key stays, and only one the server has is taken anew.
LEMMA SealedKept == ASSUME WorldOK, PlacesOK, CallsOK, Sealed, [Next]_vars PROVE Sealed'
<1>1. config' = config
  BY WorldKept
<1>2. ASSUME NEW l \in Logins, call'[l].key = "file" PROVE config.rsa
  <2>1. CASE call'[l] = call[l]  BY <1>2, <2>1 DEF Sealed
  <2>2. ASSUME NEW k \in Logins, GenerateToken(k) PROVE config.rsa
    <3>1. CASE k # l
      <4>1. call'[l] = call[l]
        BY <2>2, <3>1 DEF GenerateToken, Begin, StoreDevice, StoreFails, Encrypt, EncryptFails,
           GetToken, GetRefreshToken, SignFails, Fail, CallsOK
      <4> QED  BY <2>1, <4>1
    <3>2. CASE Begin(k) /\ k = l  BY <1>2, <3>2, BeginFacts
    <3>3. CASE Fail(k) /\ k = l
      <4>1. call'[l] = NoCall  BY <3>3 DEF Fail, CallsOK
      <4> QED  BY <1>2, <4>1 DEF NoCall
    <3>4. CASE Encrypt(k) /\ k = l
      <4>1. PICK key \in Keys : (key = "file" => config.rsa) /\ call' = [call EXCEPT ![l].key = key]
        BY <3>4 DEF Encrypt
      <4>2. call'[l] = [call[l] EXCEPT !.key = key] /\ call[l] \in Calls  BY <4>1 DEF CallsOK
      <4>3. call'[l].key = key  BY <4>2 DEF Calls
      <4> QED  BY <1>2, <4>1, <4>3
    <3>5. CASE GetToken(k) /\ k = l
      <4>1. call'[l] = [call[l] EXCEPT !.exp = now + config.exp] /\ call[l] \in Calls
        BY <3>5 DEF CallsOK, GetToken
      <4>2. call'[l].key = call[l].key  BY <4>1 DEF Calls
      <4> QED  BY <1>2, <4>2 DEF Sealed
    <3>6. CASE StoreDevice(k) /\ k = l  BY <2>1, <3>6 DEF StoreDevice
    <3> QED
      BY <2>2, <3>1, <3>2, <3>3, <3>4, <3>5, <3>6
         DEF GenerateToken, StoreFails, EncryptFails, GetRefreshToken, SignFails, Fail
  <2> QED  BY <2>1, <2>2 DEF Next, vars, Tick
<1>3. ASSUME NEW t \in tokens', t.key = "file" PROVE config.rsa
  <2>1. CASE t \in tokens  BY <1>3, <2>1 DEF Sealed
  <2>2. CASE t \notin tokens
    <3>1. PICK l \in Logins : t.key = call[l].key  BY <2>2, TokenSteps DEF Token
    <3> QED  BY <1>3, <3>1 DEF Sealed
  <2> QED  BY <2>1, <2>2
<1> QED
  BY <1>1, <1>2, <1>3 DEF Sealed

\* Each kind of token is signed with its own secret, for the hours promised.
LEMMA KindsKept == ASSUME WorldOK, PlacesOK, CallsOK, Kinds, [Next]_vars PROVE Kinds'
<1>1. /\ config' = config /\ config.exp \in Nat /\ now \in Nat
  BY WorldKept, Numbers
<1>2. ASSUME NEW l \in Logins, pc'[l] = "sign refresh"
      PROVE call'[l].started + config.exp <= call'[l].exp
  <2>1. CASE GetToken(l)
    <3>1. call'[l] = [call[l] EXCEPT !.exp = now + config.exp] /\ call[l] \in Calls
      BY <2>1 DEF GetToken, CallsOK
    <3>2. call'[l].exp = now + config.exp /\ call'[l].started = call[l].started
          /\ call[l].started \in 0..now
      BY <3>1 DEF Calls
    <3> QED  BY <1>1, <3>2
  <2>2. CASE pc'[l] = pc[l] /\ call'[l] = call[l]
    BY <1>2, <2>2 DEF Kinds
  <2>3. ASSUME NEW k \in Logins, GenerateToken(k), ~GetToken(l)
        PROVE pc'[l] = pc[l] /\ call'[l] = call[l]
    BY <1>2, <2>3 DEF GenerateToken, Begin, StoreDevice, StoreFails, Encrypt, EncryptFails,
       GetToken, GetRefreshToken, SignFails, Fail, Goto, CallsOK, PlacesOK
  <2> QED  BY <2>1, <2>2, <2>3 DEF Next, vars, Tick
<1>3. ASSUME NEW t \in tokens'
      PROVE /\ t.kind = "access" => t.secret = config.secret /\ t.started + config.exp <= t.exp
            /\ t.kind = "refresh" => t.secret = config.refreshSecret
  <2>1. CASE t \in tokens  BY <2>1 DEF Kinds
  <2>2. CASE t \notin tokens
    <3>1. PICK l \in Logins : /\ GetRefreshToken(l)
                              /\ \/ t = Token(l, "access", config.secret, call[l].exp)
                                 \/ t = Token(l, "refresh", config.refreshSecret,
                                              now + config.refreshExp)
      BY <2>2, TokenSteps
    <3>2. call[l].started + config.exp <= call[l].exp
      BY <3>1 DEF GetRefreshToken, At, Kinds
    <3> QED  BY <3>1, <3>2 DEF Token
  <2> QED  BY <2>1, <2>2
<1> QED
  BY <1>1, <1>2, <1>3 DEF Kinds
-----------------------------------------------------------------------------
(* The record *)

\* Only the SET of a call that is at it writes the record.
LEMMA RecordSteps ==
    ASSUME [Next]_vars
    PROVE  UNCHANGED record \/ \E k \in Logins : At(k, "store") /\ Stored(k)
  BY DEF Next, vars, Tick, GenerateToken, Begin, StoreDevice, StoreFails, Encrypt,
     EncryptFails, GetToken, GetRefreshToken, SignFails

\* A claim about a device survives the SET of every other device.
LEMMA ClaimKept ==
    ASSUME WorldOK, RecordOK, CallsOK, [Next]_vars, NEW a \in Accounts, NEW d, NEW s, Kept(a, d, s),
           \A k \in Logins : Busy(k) => call[k].device # d \/ pc[k] # "store"
    PROVE  Kept(a, d, s)'
<1>1. config' = config
  BY WorldKept
<1>2. CASE UNCHANGED record
  BY <1>1, <1>2 DEF Kept
<1>3. ASSUME NEW k \in Logins, At(k, "store"), Stored(k) PROVE Kept(a, d, s)'
  <2>1. call[k].device # d /\ call[k].account \in Accounts
    BY <1>3 DEF At, Busy, CallsOK
  <2>2. CASE call[k].account = a
    <3>1. record'[a].device = call[k].device  BY <1>3, <2>2 DEF Stored, RecordOK
    <3> QED  BY <2>1, <3>1 DEF Kept
  <2>3. CASE call[k].account # a
    <3>1. record'[a] = record[a]  BY <1>3, <2>3 DEF Stored, RecordOK
    <3> QED  BY <1>1, <3>1 DEF Kept
  <2> QED  BY <2>2, <2>3
<1> QED
  BY <1>2, <1>3, RecordSteps

\* What a record promises its device, no step takes back.
LEMMA RecordedKept ==
    ASSUME WorldOK, RecordOK, PlacesOK, CallsOK, TokensOK, Numbered, Recorded, [Next]_vars
    PROVE  Recorded'
<1>1. /\ config' = config /\ config.exp \in Nat /\ now \in Nat
  BY WorldKept, Numbers
<1> DEFINE After == {"encrypt", "sign", "sign refresh"}
<1>2. ASSUME NEW l \in Logins, pc'[l] \in After PROVE Lasting(call[l])'
  <2>1. pc[l] # "idle" /\ SameCall(l)
    BY <1>2, CallSteps, BeginFacts
  <2>2. call[l].account \in Accounts /\ call[l].started \in 0..now
    BY <2>1 DEF CallsOK, Calls, Busy
  <2>3. Kept(call[l].account, call[l].device, call[l].started)' => Lasting(call[l])'
    BY <2>1 DEF SameCall, Lasting, Kept
  <2>4. CASE StoreDevice(l)
    <3>1. record'[call[l].account].expires = IF config.exp = 0 THEN 0 ELSE now + config.exp
      BY <2>2, <2>4 DEF StoreDevice, Stored, RecordOK
    <3>2. call[l].started + config.exp <= now + config.exp
      BY <1>1, <2>2
    <3>3. call'[l] = call[l]  BY <2>4 DEF StoreDevice
    <3> QED  BY <1>1, <3>1, <3>2, <3>3 DEF Lasting, Kept
  <2>5. CASE ~StoreDevice(l)
    <3>1. pc[l] \in After
      BY <1>2, <2>1, <2>5 DEF PlacesOK, Next, vars, Tick, GenerateToken, Begin, StoreDevice,
         StoreFails, Encrypt, EncryptFails, GetToken, GetRefreshToken, SignFails, Fail, Goto, At
    <3>2. Kept(call[l].account, call[l].device, call[l].started)
      BY <3>1 DEF Recorded, Lasting
    <3>3. \A k \in Logins : Busy(k) => call[k].device # call[l].device \/ pc[k] # "store"
      BY <2>1, <3>1 DEF Numbered, Busy
    <3>4. Kept(call[l].account, call[l].device, call[l].started)
          /\ call[l].account \in Accounts
      BY <2>2, <3>2
    <3>5. \A a \in Accounts : \A d, s :
             /\ Kept(a, d, s)
             /\ \A k \in Logins : Busy(k) => call[k].device # d \/ pc[k] # "store"
             => (record'[a].device = d =>
                   record'[a].expires = 0 \/ s + config.exp <= record'[a].expires)
      BY <1>1, ClaimKept DEF Kept
    <3>6. record'[call[l].account].device = call[l].device =>
             \/ record'[call[l].account].expires = 0
             \/ call[l].started + config.exp <= record'[call[l].account].expires
      BY <3>3, <3>4, <3>5
    <3> QED  BY <1>1, <2>1, <3>6 DEF Lasting, Kept, SameCall
  <2> QED  BY <2>4, <2>5
<1>3. ASSUME NEW t \in tokens' PROVE Lasting(t)'
  <2>1. t.account \in Accounts /\ Kept(t.account, t.device, t.started)
        /\ \A k \in Logins : Busy(k) => call[k].device # t.device \/ pc[k] # "store"
    <3>1. CASE t \in tokens
      BY <3>1 DEF TokensOK, Tokens, Recorded, Lasting, Numbered
    <3>2. CASE t \notin tokens
      <4>1. PICK l \in Logins : /\ GetRefreshToken(l)
                                /\ \/ t = Token(l, "access", config.secret, call[l].exp)
                                   \/ t = Token(l, "refresh", config.refreshSecret,
                                                now + config.refreshExp)
        BY <3>2, TokenSteps
      <4>2. /\ t.account = call[l].account /\ t.device = call[l].device
            /\ t.started = call[l].started
        BY <4>1 DEF Token
      <4>3. pc[l] = "sign refresh"
        BY <4>1 DEF GetRefreshToken, At
      <4> QED  BY <4>2, <4>3 DEF Recorded, Lasting, CallsOK, Numbered, Busy
    <3> QED  BY <3>1, <3>2
  <2>2. Kept(t.account, t.device, t.started)'
    BY <2>1, ClaimKept
  <2> QED  BY <2>2 DEF Lasting
<1> QED
  BY <1>2, <1>3 DEF Recorded

-----------------------------------------------------------------------------
(* Theorems *)

\* The invariant holds initially.
LEMMA InitInv == ASSUME Init PROVE SessionInv
<1>1. TypeOK
  BY ConfigsAssumption, SessionBoundsAssumption
     DEF Init, TypeOK, Config, NoCall, Calls, Keys, At, Tokens
<1>2. Numbered /\ Sealed /\ Kinds /\ Recorded
  BY DEF Init, Numbered, Sealed, Kinds, Recorded, Busy, NoCall
<1> QED
  BY <1>1, <1>2 DEF SessionInv

\* Every step keeps the invariant.
LEMMA StepInv == ASSUME SessionInv, [Next]_vars PROVE SessionInv'
<1>1. WorldOK /\ RecordOK /\ PlacesOK /\ CallsOK /\ TokensOK /\ TypeOK
      /\ Numbered /\ Sealed /\ Kinds /\ Recorded
  BY TypeParts DEF SessionInv
<1>2. TypeOK'
  BY <1>1, TypeKept
<1>3. Numbered' /\ Sealed' /\ Kinds' /\ Recorded'
  BY <1>1, NumberedKept, SealedKept, KindsKept, RecordedKept
<1> QED
  BY <1>2, <1>3 DEF SessionInv

\* The inductive invariant holds in every reachable state.
THEOREM SessionInvariance == Spec => []SessionInv
  BY InitInv, StepInv, PTL DEF Spec

\* Every state is of its type; a device record names a login that has begun
\* (jwt_uc.go:20-34).
THEOREM SessionTypes == Spec => []TypeOK
<1>1. SessionInv => TypeOK
  BY DEF SessionInv
<1> QED
  BY <1>1, SessionInvariance, PTL

\* Whatever the interleaving of the logins of a user, the tokens that verifyJWT
\* accepts with single login are of one login (verify_user.go, jwt_uc.go:22-34).
THEOREM OneDeviceHolds == Spec => []OneDevice
<1>1. ASSUME SessionInv PROVE OneDevice
  BY <1>1 DEF SessionInv, OneDevice, Alone, VerifyJWT, DeviceRecorded, Numbered
<1> QED
  BY <1>1, SessionInvariance, PTL

\* An access token does not pass for a refresh token, nor the reverse, under any
\* configuration with two secrets (pkg/jwt, verify_user.go).
THEOREM KindsApartHolds == Spec => []KindsApart
<1>1. ASSUME SessionInv PROVE KindsApart
  BY <1>1 DEF SessionInv, KindsApart, VerifyJWT, VerifyRefreshJWT, Kinds
<1> QED
  BY <1>1, SessionInvariance, PTL

\* The session of the login that stored its device last lasts for all the hours
\* its token was made for, however long the calls in between took.
THEOREM SessionLastsHolds == Spec => []SessionLasts
<1>1. ASSUME SessionInv PROVE SessionLasts
  <2> SUFFICES ASSUME NEW t \in tokens, t.kind = "access", t.key = "file",
                      RoleOf[t.account] = "user", record[t.account].device = t.device,
                      now < t.started + config.exp
               PROVE  Alone(t)
    BY DEF SessionLasts
  <2>1. WorldOK /\ RecordOK /\ TokensOK
    BY <1>1, TypeParts DEF SessionInv
  <2>2. config.exp \in Nat /\ now \in Nat /\ t.exp \in Nat /\ t.account \in Accounts
        /\ t.started \in 0..now /\ record[t.account].expires \in Nat
    BY <2>1, Numbers DEF TokensOK, Tokens, RecordOK
  <2>3. t.secret = config.secret /\ t.started + config.exp <= t.exp
    BY <1>1 DEF SessionInv, Kinds
  <2>4. record[t.account].expires = 0 \/ t.started + config.exp <= record[t.account].expires
    BY <1>1 DEF SessionInv, Recorded, Lasting, Kept
  <2>5. ~(t.exp < now) /\ (record[t.account].expires = 0 \/ now < record[t.account].expires)
    BY <2>2, <2>3, <2>4
  <2>6. config.rsa
    BY <1>1 DEF SessionInv, Sealed
  <2> QED
    BY <2>3, <2>5, <2>6, Zenon DEF Alone, VerifyJWT, DeviceRecorded, Rollback, HasRole
<1> QED
  BY <1>1, SessionInvariance, PTL

\* A token that is refused for its device or its age stays refused: no SET of a
\* later login names the device of a token that exists, and time moves one way.
THEOREM NoRevivalHolds == Spec => NoRevival
<1>1. ASSUME SessionInv, [Next]_vars
      PROVE  [\A t \in tokens : Alone(t)' => Alone(t)]_vars
  <2> SUFFICES ASSUME NEW t \in tokens, Alone(t)' PROVE Alone(t)
    OBVIOUS
  <2>1. WorldOK /\ RecordOK /\ CallsOK /\ TokensOK
    BY <1>1, TypeParts DEF SessionInv
  <2>2. config' = config /\ now \in Nat /\ now' \in Nat /\ now <= now'
    BY <1>1, <2>1, WorldKept DEF WorldOK
  <2>3. t.account \in Accounts /\ t.exp \in Nat /\ record[t.account].expires \in Nat
    BY <2>1 DEF TokensOK, Tokens, RecordOK
  <2>4. t.secret = config.secret /\ Rollback(t) /\ HasRole(t, "user") /\ ~(t.exp < now')
    BY <2>2, Zenon DEF Alone, VerifyJWT, Rollback, HasRole
  <2>5. /\ record'[t.account].device = t.device
        /\ record'[t.account].expires = 0 \/ now' < record'[t.account].expires
    BY <2>4, Zenon DEF Alone, VerifyJWT, DeviceRecorded
  <2>6. record'[t.account] = record[t.account]
    <3>1. CASE UNCHANGED record  BY <3>1
    <3>2. ASSUME NEW k \in Logins, At(k, "store"), Stored(k)
          PROVE  record'[t.account] = record[t.account]
      <4>1. call[k].device # t.device
        BY <1>1, <3>2 DEF SessionInv, Numbered, Busy, At
      <4>2. CASE call[k].account = t.account
        <5>1. record'[t.account].device = call[k].device
          BY <2>1, <2>3, <3>2, <4>2 DEF Stored, RecordOK
        <5> QED  BY <2>5, <4>1, <5>1
      <4>3. CASE call[k].account # t.account
        BY <2>1, <2>3, <3>2, <4>3 DEF Stored, RecordOK
      <4> QED  BY <4>2, <4>3
    <3> QED  BY <1>1, <3>1, <3>2, RecordSteps
  <2>7. ~(t.exp < now) /\ (record[t.account].expires = 0 \/ now < record[t.account].expires)
    BY <2>2, <2>3, <2>4, <2>5, <2>6
  <2>8. record[t.account].device = t.device
    BY <2>5, <2>6
  <2> QED
    BY <2>4, <2>7, <2>8, Zenon DEF Alone, VerifyJWT, DeviceRecorded
<1> QED
  BY <1>1, SessionInvariance, PTL DEF Spec, NoRevival
=============================================================================
