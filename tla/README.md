# Kriya People: formal models, checks and proofs

Kriya People is the back end of an administration tool: an HTTP service in Go
(`server/`, `usecase/`, `model/`) over PostgreSQL and Redis, with small packages
(`pkg/`) for tokens, hashing, queues and the like. This directory holds TLA+
models of the parts that have behaviour worth arguing about, the TLC
configurations that check them, and proofs for TLAPS.

Contents: [inventory](#1-inventory), [modules](#2-what-is-modelled),
[runs](#3-what-the-runs-show), [bounds and fairness](#4-bounds-and-fairness),
[proofs](#5-what-is-proved), [left out](#6-what-is-not-modelled),
[known gaps of the code](#7-known-gaps-of-the-code), [plan](#8-plan).

## 1. Inventory

| component | state | operations | who it talks to |
|---|---|---|---|
| admin accounts: `usecase/admin_uc.go`, `model/Admin.go`, `server/handler/admin_handler.go` | table `users` (soft delete by `deleted_at`; e-mail, bcrypt hash, `is_active` in a JSON column; `role_id`) | Create, Update, Delete, FindByID, FindAll, Login | PostgreSQL, one statement per call, no transaction; bcrypt; the token issuer |
| token gate: `server/middleware/jwt_verify.go` | none (claims in the token) | VerifySuperadminTokenCredential before Create, Update, Delete; VerifyAdminTokenCredential before reads | JWT and JWE libraries; FindByID of the accounts |
| tokens and sessions: `usecase/jwt_uc.go`, `pkg/jwt`, `pkg/jwe`, verifyJWT and verifyRefreshJWT of the gate | Redis key `userDeviceID<id>` with a time to live | GenerateToken; the tests a token has to pass | Redis, the RSA key file, signing |
| Redis counters: `usecase/contract.go` | a counter with a time to live under a key | LimitByKey, ResetByKey, AddCounterRedis | Redis GET and SET, separately |
| route limiters: `server/middleware/limit.go` | Redis counters; a process-wide map of rate limiters under a mutex | limitRedis, LimitForgotPassword, limit | Redis |
| queue consumer: `pkg/amqpconsumer` | connection, channel, the Go channel `done`, worker goroutines | Connect, AnnounceQueue, ReConnect, Handle | RabbitMQ |
| queue publisher: `pkg/amqp`, globals `AmqpConnection`, `AmqpChannel` set by `server/main.go` | one shared connection and channel | PushQueue, PushQueueReconnect, PushDLQueueReconnect | RabbitMQ |
| transactions: `model/index.go` | an open `sql.Tx` | TxBegin, TxEnd | PostgreSQL |
| listing: `FindAll`, `PaginationPageOffset`, `LimitMax`, `PaginationRes` | none | a page of rows and a count, in two statements | PostgreSQL |
| routing and start-up: `server/main.go`, `server/bootstrap`, `server/middleware` | how far main is | Redis, queue, routes, then serving; two recoverers, not-found | everything above |
| files: `pkg/file` | files under the upload path | DownloadImage, OpenFile, DecodeBase64 | the network, the file system |
| helpers: `pkg/str`, `pkg/number`, `pkg/interfacepkg`, `pkg/time` | none | lists, tax numbers, names of fields, numbers in words, censoring, differences of moments | |
| roles, configuration, logging, clients of other services | read-only or none | queries, conversions | |

net/http gives every request a goroutine of its own, so any two requests
interleave at every database or Redis call. Nothing in the service holds a lock
over two calls and no handler opens a transaction; what keeps the table right
is what single SQL statements say.

What makes each part right, and what is hard about it:

* Accounts: no two live accounts share an e-mail (case aside); a deleted
  account never returns; a handler runs only for an entitled actor; a password
  opens the account it was set for. Hard: the e-mail
  check and the write are separate statements; an error of the check is
  dropped; an update works on a row read earlier; a statement may be executed
  and its answer lost.
* Counters: never more than the limit in 24 hours, never a refusal that was not
  earned, and no refusal that lasts. Hard: GET and SET interleave, the key
  expires between them, either may fail silently.
* Consumer: a lost connection is noticed and replaced; a working one is not
  abandoned. Hard: closes at any step of a reconnect, an unbuffered channel,
  steps that go on after the previous one failed.

* Sessions: where a single login is asked for, one login's tokens are accepted,
  and it stays accepted for its hours. Hard: the device record is written
  before the tokens exist, with a time to live of its own; logins interleave
  and fail in between.
* Publisher: no error is swallowed, no connection is lost, and after a fault the
  pair of connection and channel is repaired. Hard: every call works on a copy
  of the globals, returns what its caller then stores, and returns nil on some
  errors and the pair on others.
* Requests: every request is answered once, whatever panics; a transaction is
  ended, and what is answered agrees with what is kept. Hard: the deferred
  function of TxEnd runs after the result is fixed; the visitors' map is locked
  twice, not once.
* Listing: a page says what it holds; a walk through the pages misses and
  repeats no more than it must. Hard: OFFSET over an order that changes, and over
  rows that share a time stamp; the count in a second statement; ints that wrap.
* Helpers: each does what it is for at the boundaries of its rules. Hard: ends of
  months and clocks that are set back, the ten forms of a spelt number, the smallest
  int.
* Files: a success means a whole file of the type that is returned, and nothing
  stays open. Hard: every system call may fail, and two calls may use one name.

`PROJECT.json` lists every component and, under `hazards`, each of these places
with its line and the properties that watch it.

## 2. What is modelled

### AdminService (with Directory, AtomicAdmin, MCAdmin)

`AdminService` is the account service as the network sees it: a set `Requests`
of slots, each of which serves one HTTP request at a time.

| model | code |
|---|---|
| `users[u]`: status, e-mail, password, active, role, created | a row of `users`; `status` is "absent" before the INSERT, "deleted" once `deleted_at` is set |
| `pwd = [of, times]` | the hash: of which password, hashed how many times (`bcrypt.HashPassword` of a stored hash is a hash of a hash) |
| `users[u].created` | `created_at`, by which FindByEmail picks one row: any time the clock may read, so two rows may share one and then either is picked |
| `issued` | accounts a token has been signed for |
| `input`, `local` | what the goroutine was given; the view it has read (`oldData`) and the time it has taken |
| `pc`, `reply` | the next call of the goroutine; the latest answer of the slot |
| `vouched` | history: was the actor entitled at some state of this request |
| `stale` | history: has the password an update loaded been replaced in its row |
| `blind` | history: has a request passed the e-mail check that it would have failed, had its query not failed |

Actions follow the calls in order. Begin*X*: routing and validation.
`VerifyAdmits`, `VerifyRefuses`: the gate's FindByID and role test. Update and
Create: `LoadOld` (Update only), `CheckRefuses` or `CheckAccepts`,
`HashAndStamp` or `HashFails` (bcrypt's error), then `Store` or `UpdateRow`, or `WriteFails`. Delete: `Destroy`.
`Read`. Login: `LoginRefuses`, `LoginFinds`, `IssueToken`. Each action is one
statement of the database or Redis, with the Go code up to the next.
With `DBCanFail` each of them may fail as well, and a write may have been
executed although its answer is an error. An e-mail query that fails takes the
code's way: the check passes.

Requests reach the gate only with tokens the service has issued; that a
token cannot be made otherwise is taken from JWT and JWE and not modelled. Bodies are
members of `Bodies`, spellings of an address are told apart and `Lower` maps
them together, as SQL `LOWER` and `strings.ToLower` do. The table begins with the
live account `files/db.sql` seeds. The second one it seeds is deleted already; it
is left out, since a deleted row is what every run makes for itself.

Two abstract specifications say what this amounts to:

* `Directory`: accounts go from absent to live to deleted, one at a time;
  tokens are granted to accounts that exist. `ImplementsDirectory` maps the rows to it. It holds whatever
  interleaves and fails.
* `AtomicAdmin`: a request is answered and takes effect in one step, judged by
  the table as it was. `SerialIsAtomic` maps to it; it holds with one slot and
  no failures. It also describes honestly what an update without a password
  does today (the account has no opener afterwards).

### RedisLimiter (with MCLimiter)

Everything that keeps a count under one Redis key. `rule` says which function
uses it: `LimitByKey`, `limitRedis`, `LimitForgotPassword` or
`AddCounterRedis`; they differ in the comparison (`KeyAdmits`, `RouteAdmits`,
`ForgotAdmits`, none), in what they write and in what they do when a command
fails. The middlewares also answer 500 when their duration or, LimitForgotPassword,
the body cannot be parsed (`MayGiveUp`): such a call leaves the counter alone.
`Refuse` and `Get` are the GET with the comparison, `Set` and `SetFails`
the SET after it, `Reset` ResetByKey's SET of 0, `Tick` the passing of time at
which Redis drops an expired key. `stored` and `expires` are the key, `count`
the goroutine's variable; `total` (calls let through), `before` (how many of them
before each moment), `sinceReset`, `disturbed` and `crowded` are history. A failing GET reads as 0 and a failing SET leaves the key alone;
only `AddCounterRedis` tells its caller. None of the functions has a caller at this
commit; the callers are any goroutines.

### Consumer

`Handle` and what it calls, after a caller has connected and announced the
queue. The k-th successful dial makes connection k. `watcher[k]` is the goroutine
Connect starts for it (waiting in NotifyClose, sending on `done`, done),
`channel` is the field `c.channel` (0 for nil), `d` the deliveries Handle reads,
`workers[k]` the goroutines on the deliveries of connection k. `Notice` is the
rendezvous on `done`. Each step of ReConnect may fail: the dial
(`DialFails`), the channel (`OpenChannelFails`), the exchange
(`DeclareExchange`, whose error only closes the channel), the queue
(`AnnounceFails`, which ends the process: `log.Fatalf`, or a panic on a nil
channel). `CloseConnection` and `CloseChannel` are the broker and the network,
`WorkerReturns` the worker function, assumed to range over its deliveries.

### Publisher (with MCPublisher)

`shared` is the pair of globals, `m[c]` the receiver of a call (the copy made by
NewQueue when it began), `use[c]` its function and queue. Dial k makes
connection k with one channel, so a pair is a number and 0 is nil. A call goes
through Connect (`KeepConnection`, `Dial`, `DialFails`, `OpenChannel`,
`OpenChannelFails`), the declaration of its queue (`Declare`, `DeclareFails`,
`DeclareOnNil`: a panic), and `Publish`, `PublishFails` or `MarshalFails`. `Return`
is its end together with the caller's store of what it returned. The repository has
no caller of NewQueue: that it stores the pair is what the pair is returned for, and
that it reads and writes both globals at once is an assumption. Only a reconnecting
function gives a pair up (`GivesUp`): PushQueue returns none.
`CloseConnection` and `CloseChannel` are the network and the broker; a queue
declared with other arguments than it has (`args`) closes the channel, as
RabbitMQ does. `failures` and `mishap` are history.

### Session (with MCSession)

GenerateToken step by step for any number of logins at a time: `Begin`,
`StoreDevice`, `Encrypt`, `GetToken`, `GetRefreshToken`, each of which may fail
(`StoreFails`, `EncryptFails`, `SignFails`; a failed SET may have been
executed). `record[a]` is `userDeviceID<a>`, `tokens` all tokens that were given
out; `VerifyJWT` and `VerifyRefreshJWT` are the gate's tests of one. `config`
is the environment the server runs in: the hours of both kinds of token, "0h"
included, the secrets, and whether there is a key file. `Tick` is an hour.

### Listing and Pagination (with MCListing)

`Pagination` is the page arithmetic of `LimitMax`, `PaginationPageOffset` and
`PaginationRes` on ints of a given width, with Go's wrap-around and truncating
division. `Listing` is a client that walks from a page to the last (`Ask`,
`AskNext`), each page two statements (`ReadRows`, `ReadCount`, `ReadFails`),
against writers that take a time stamp, insert, change and delete rows. The
table is the one of `Directory`, with stamps and a search that matches or not as its
content. Stamps are what the clock reads before the statement runs: it may read one
time twice, or an earlier one, and nothing in `files/db.sql` makes a column of
stamps unique. `ORDER BY` names one column (`Admin.go:78`), so rows that share a key
have no order: each query may put them in another one, and a page is any set of
accounts that are the rows `offset + 1 .. offset + limit` of some such order
(`Leading`, `First`). `tied`, `steady`, `left`, `came`, `moved` and `repeats` are history.

### Requests (with MCRequests)

Start-up in main's order (`Start`, `StartFails`), then every request's way:
`Arrive`, `Match` (not found), the rate limiter of `/v1` (`RateLimit`, which panics when
its Redis store fails), the limiter per visitor (`GetVisitor`,
`AddVisitor`, `Allow`), `TxBegin`, `TxFunc` with its three outcomes,
`Rollback`, `Commit`, and the two recoverers: chi's inside the routes
(`ChiRecoverer`) and `RecoverInit.Recoverer` outside of everything (`Recoverer`),
which gets the panics chi's does not see. `visitors` is the map, `taken` the tokens
taken from each limiter, `durable` what the database keeps. The limiter per visitor and
the transactions have no caller at this commit; they stand where a route that
uses them would have them, and the answers 200 and 400 after TxEnd and a failed
TxBegin are those such a handler would give (`SendSuccess`, `SendBadRequest`).

### Text, Calendar, Files, Library (with MCLibrary)

`Text` and `Calendar` are the helpers with an algorithm, as operators. A loop of the
code is a recursive function of the rounds it has gone through (`list`, `b`, `words`),
with what one round does in an operator of its own (`Add`, `Write`, `Extend`); the calls
SpellNumberRec makes of itself are for smaller numbers, so the spelling of a number
is a function of those of the numbers below it (`Spelt`). The smallest int is its own
opposite, and makes SpellNumberRec panic (`Opposite`). A moment is an instant and a
zone, and `Wall` is what the clock of each zone reads at each instant, any clock that
may be set forward or back. `Diff` reads its second moment in the zone of the first
(`In`), compares instants (`After`) and subtracts readings (`Between`), as the code does. `Files` is
DownloadImage and DecodeBase64 with every system call a step that may fail, and
several calls at a time. `Library` puts them together: a behaviour is the call
of one helper with an enumerated input, or any number of calls of `Files`.

Every definition's lines are in `PROJECT.json` under `map`. Definitions that
begin with "Variant:" in their comment are not part of a specification: they
are plausible bugs, each of which a run must catch (`mutants`).

## 3. What the runs show

Passing runs:

| run | instance | properties |
|---|---|---|
| admin_shared | 2 slots, 4 requests, all failures | `TypeOK`, `ActorEntitled`, `DeletedIsFinal`, `ImplementsDirectory`: deletion is final even against an update under way; no handler runs for somebody who had lost the right before asking. `SharersBounded`: the race of the e-mail check is bounded by the requests in flight, and duplicates do not breed more duplicates, until an e-mail query fails. `PasswordLostOnlyByRace`: an update without a password writes the hash of what its row holds, unless somebody has replaced that after it was read |
| admin_serial | 1 slot, no failures | `UniqueEmail`, `SerialIsAtomic` |
| limiter | 2 callers of each of the four functions, limits 0 and 2, resets, expiry, failures | `TypeOK` (no counter beyond the limit); `WindowRespected`: the limit holds in a sliding window as long as no two calls overlap, because each SET renews the time to live; `RefusalsEarned`; `LockoutEnds`: retries do not prolong a lockout; `ResetTakesEffect`; `OverAdmissionBounded`: until a reset, an expiry or a failure, fewer than binomial(limit + callers, limit) calls are admitted, a bound that is attained |
| consumer | 4 connections, 2 workers, fair | `TypeOK`, `EveryLossReported`, `ReconnectOnlyAfterLoss`; `Settles`: as long as nothing worse happens than that a connection in use is lost (before Handle waits, too), the process lives on and comes to rest on an open channel with all its workers. A failing step of ReConnect, the loss of a channel alone and that of a connection not yet in use are what `mishap` excepts (section 7) |
| publisher | 2 callers, 2 faults, queues used alike or in two ways, fair | `NilMeansWritten`: no error, but for data that cannot be encoded, is answered as success; `LeaksExplained`: which events cost a connection; `FaultsBounded`: how many calls one fault can fail; `Recovers` |
| session | 2 logins at a time, 3 in all, a user and an admin, 2 configurations | `OneDevice`, `NoRevival`, `SessionLasts` |
| listing | a walk, 2 writers, 2 changes of the table, ints of five bits, fair | `TypeOK`, `PageMatchesTotal`; `NothingMissed`, `NothingRepeated`: of the accounts that share their time stamp with no other, what a walk misses or shows twice is accounted for, one by one, by what left its place or came in, and ties of others do not change that; `WalksEnd` |
| requests | 3 requests of 1 or 2 visitors, fair | `TypeOK`, `BurstBounded`; `FailedWorkIsGone`: nothing is kept of work that failed or was answered with an error; `NoTransactionLeft`, `EveryRequestAnswered` |
| library | enumerated inputs; 3 calls that write 2 files | `HelpersRight`: the helpers do what they are for at the boundaries of their rules, where `Diff` does not order moments, and what it answers when a clock is set back; `FilesTypeOK`, `SuccessMeansWhole`, `LeaksAreKnown` |

Runs that end in a violation, each a disagreement of the code with what the
repository says of it (`findings`):

| run | what happens |
|---|---|
| admin_duplicate | two requests check one e-mail, both find it free, both write |
| admin_rehash | an update without a password stores the hash of the hash; nobody can log in with it |
| requests_commit | the database drops the work at Commit, and the request is answered with success: the error is assigned to a result that was returned already |

Several properties state an exception, where the code has one: `NilMeansWritten`
(data that cannot be encoded), `SharersBounded` (an e-mail query that failed),
`PasswordLostOnlyByRace` (the password was replaced after it was read),
`SuccessMeansWhole` (a download that broke off), `LeaksExplained` and
`LeaksAreKnown` (the errors that leak), `NothingMissed` and `NothingRepeated` (rows with
one time stamp), `HelpersRight` (clocks set back, borrowed months, the smallest int). The
run shows that it is the only one.

## 4. Bounds and fairness

* Accounts: three ids (the seeded root and two), three spellings of two
  addresses, `MaxRequests` requests in all. A duplicate needs two requests and two
  ids; resurrecting a deleted account needs an update and a delete in flight
  and an actor; a stale actor needs an update that takes his role while his own
  request waits; a broken password needs a create, a blank update, and a login; a lost
  password an update that loads, one that sets a password, and the write of the first.
  All fit in four. `FewBodies` contains two spellings of an address, a blank
  and a short password, a role that is lost and one that is unknown;
  `ManyBodies` varies each field. `MaxTime = 2` has three times for three rows: in order,
  in reverse, and alike.
* Limiter: `TTL = 2` ticks leave a tick between two calls and let the key
  expire with a call under way; `MaxTime = 5` spans two lifetimes and a half.
  `MaxAdmitted = 6` is one more than `OverAdmissionBounded` allows, so the bound
  on calls does not hide a violation. The limit 0 is where the middlewares,
  which let the first call through, differ from LimitByKey.
* Consumer: `MaxDials = 4` gives three reconnects. The last connection is never
  closed, so that a fair behaviour can come to rest; its channel may be.
* Publisher: two faults are enough for a fault during the recovery from
  another, two callers for a stale copy that is stored over a fresh pair.
  `MaxDials = 6` is more than a program that declares its queues alike can need
  (five); one that does not would dial for ever and stops at four. `MaxFailures = 11`
  is one more than `FaultsBounded` allows for two faults.
* Session: three logins give two that race and one that comes after; three
  hours outlive both times to live (2 and 3, and 0h with no key file).
* Listing: five bits (`HalfRange = 16`) put the wrap of an offset within reach of
  the pages asked for; three rows make two pages or three, and a fourth id is left for an
  insert; two changes suffice for a delete that shifts a page with an insert behind it.
  Three times for four rows, and a walk that begins with a tie or without, make ties
  before, between and behind the rows a walk has reached.
* Requests: to exceed one request in a second takes two first requests that overlap,
  and to test the bound a third that comes later; `MaxTime = 1` gives the second
  in which a limiter lets one through again.
* Library: all lists of at most four entries over three, all names of at most five
  letters over two capitals, a small letter and an underscore, all
  texts of at most five characters to censor, numbers around every change of
  the spelling's rules, days around a leap day, ends of months and of a year. March 31 and April 1 after a
  February 28 are among them: the days on which `Diff` runs backwards. Two zones, UTC and
  New York, over the hour in November that New York has twice. `IntLimit` is 2^30, as
  TLC's own integers have 32 bits and the limit itself must be one of them.
* What the assumptions ask of the constants: finitely many requests, accounts, callers,
  writers and names; a table whose number of rows fits an int (`FindAll` scans it into
  one); in `Files`, that `Empty`, the block nobody has written, is not a caller.
  Of the helpers' inputs `LibraryAssumption` asks that texts and lists are sequences,
  tax numbers digits and at most 15 of them, numbers ints, moments in
  ascending order, clocks of readings in the calendar, and that no text to censor has a star, which could not be
  told from the stars of the censor.
* Symmetry (ids, slots, logins) is used only in runs without liveness.
* Deadlock is checked in the accounts' runs, where `Finished` marks the bound.
  The limiter stops at its time and call bounds, the consumer when its
  process ends or nothing more is lost, the others when all calls have been made
  or the walk is over, so their configurations switch the check off.

Fairness. `AdminService`, `RedisLimiter`, `Session` and `Library` are checked for safety
and need none. `Consumer`: weak fairness of Handle, of each watcher
and of each worker, which are goroutines; none of connections closing or dials
succeeding. `Publisher`: weak fairness of the next step of each call (a network
call ends, with a result or an error), and strong fairness of beginning a
reconnecting call: recovery is something the callers do, and a program that
publishes no more does not recover. Faults are finitely many. `Listing`: weak
fairness of the client that walks; none of writers. `Requests`: weak fairness of each request's
next step, since net/http runs each request in a goroutine of its own without a deadline
(`server/main.go` calls `ListenAndServe`) and a database call ends, with a result or an error; none of arrivals, of the clock, or of main.

## 5. What is proved

For all values of the constants that satisfy the named assumptions, so for any
number of requests, callers, logins, connections and faults:

| theorem | says |
|---|---|
| `AdminServiceProofs!TypeCorrect` | `Spec => []TypeOK` |
| `AdminServiceProofs!HandlersRunForEntitled` | `Spec => []ActorEntitled` |
| `AdminServiceProofs!DeletionIsFinal` | `Spec => DeletedIsFinal` |
| `AdminServiceProofs!DirectoryImplemented` | `Spec => ImplementsDirectory` |
| `AdminServiceProofs!SharersAreBounded` | `Spec => []SharersBounded` |
| `AdminServiceProofs!SerialEmailsAreUnique` | with one slot and no failures, `Spec => []UniqueEmail` |
| `AdminServiceProofs!SerialRefinesAtomic` | with one slot and no failures, `Spec => SerialIsAtomic` |
| `AdminServiceProofs!PasswordsAreLostOnlyByRace` | `Spec => PasswordLostOnlyByRace` |
| `RedisLimiterProofs!CounterWithinLimit` | `Spec => []TypeOK` |
| `RedisLimiterProofs!RefusalsAreEarned` | `Spec => []RefusalsEarned` |
| `RedisLimiterProofs!LockoutsEnd` | `Spec => []LockoutEnds` |
| `RedisLimiterProofs!ResetsTakeEffect` | `Spec => []ResetTakesEffect` |
| `RedisLimiterProofs!CountsAreExact` | `Spec => []CounterExact`: calls one after the other are counted exactly |
| `RedisLimiterProofs!WindowsAreRespected` | `Spec => []WindowRespected` |
| `RedisLimiterProofs!OverAdmissionIsBounded` | `Spec => []OverAdmissionBounded` |
| `ConsumerProofs!ConsumerTypes` | `Spec => []TypeOK` |
| `ConsumerProofs!LossesAreReported` | `Spec => []EveryLossReported` |
| `ConsumerProofs!ReconnectsAfterLoss` | `Spec => []ReconnectOnlyAfterLoss` |
| `PublisherProofs!PublisherTypes` | `Spec => []TypeOK`: nothing is done with a nil pair but where the code panics |
| `PublisherProofs!NilsMeanWritten` | `Spec => []NilMeansWritten` |
| `PublisherProofs!LeaksAreExplained` | `Spec => []LeaksExplained` |
| `PublisherProofs!FaultsAreBounded` | `Spec => []FaultsBounded` |
| `SessionProofs!SessionTypes` | `Spec => []TypeOK` |
| `SessionProofs!OneDeviceHolds` | `Spec => []OneDevice` |
| `SessionProofs!KindsApartHolds` | `Spec => []KindsApart`: with two secrets, no access token passes for a refresh token, nor the reverse |
| `SessionProofs!SessionLastsHolds` | `Spec => []SessionLasts` |
| `SessionProofs!NoRevivalHolds` | `Spec => NoRevival` |
| `RequestsProofs!RequestsTypes` | `Spec => []TypeOK`, with "answered once" |
| `RequestsProofs!BurstsAreBounded` | `Spec => []BurstBounded` |
| `RequestsProofs!FailedWorkIsUndone` | `Spec => []FailedWorkIsGone` |
| `RequestsProofs!TransactionsEnd` | `Spec => []NoTransactionLeft` |
| `ListingProofs!SafePages` | up to `LargestSafePage`, an offset does not wrap and is the number of rows before the page |
| `ListingProofs!RowsOnOnePage` | every row is on exactly one of the pages `1..LastPage` |
| `ListingProofs!ListingTypes` | `Spec => []TypeOK` |
| `ListingProofs!PagesMatchTotals` | `Spec => []PageMatchesTotal` |
| `ListingProofs!LittleIsMissed` | `Spec => []NothingMissed` |
| `ListingProofs!LittleIsRepeated` | `Spec => []NothingRepeated` |
| `LibraryProofs!HelpersAreRight` | `Spec => []HelpersRight`, for every list, text, number, moment and wall clock |
| `LibraryProofs!CallsWriteFiles` | `Spec => FSpec`: what holds of `Files` holds of `Library` |
| `LibraryProofs!FilesTypes` | `FSpec => []FilesTypeOK` |
| `LibraryProofs!SuccessIsWhole` | `FSpec => []SuccessMeansWhole` |
| `LibraryProofs!LeaksAreTheKnownOnes` | `FSpec => []LeaksAreKnown` |
| `LibraryProofs!DifferencesAreNormal` | the years of a `Diff` are negative just when the first moment's clock was set back past the other; otherwise no number is negative or over its unit |
| `LibraryProofs!DifferencesAreSymmetric` | `Diff(p, q) = Diff(q, p)` for moments of one zone |
| `LibraryProofs!NoTimeApartReadsAlike` | `Diff(p, q)` is zero just when the clock of `p`'s zone reads both alike |
| `LibraryProofs!LaterIsFurther` | while the clock runs on, a later moment is further away, but for ends of months, where less than three days are lost and the months stay |

The arguments:

* `TypeOK` of the service is not inductive: that a slot's `input` belongs to
  the operation whose stage it is in, and that a login about to issue has found
  an account, must be known. `StageFacts` says so; `TypeInv` is the two together,
  and one step per action keeps it. Deletion is final, and the directory is
  implemented, by looking at each action with `TypeInv` in hand: each write
  touches one row, and only a live one. A gate that admits has just seen an
  entitled actor, which `vouched` remembers.
* `SharersBounded` cannot be had by counting rows. `SharersInv` says that for
  each e-mail there is a seating, a function from slots to accounts, that seats
  every live account holding the e-mail, and the account that every update past
  its check is about to give it to; a create past its check keeps its own slot
  empty, for the account it will insert. The check passes only while nobody else holds the
  e-mail, and then everybody can be seated anew; a write fills the writer's
  seat; no other step needs a new seat. So there are at most as many holders
  as slots. That FindByEmail finds a row whenever there is one (the newest of the live
  rows exists) is a lemma by well-foundedness of the natural numbers.
* `SerialIsAtomic` maps a request to one step of `AtomicAdmin`: the one at which the
  code decides its answer, a refusal or the last write. Everything before only
  asks. For that, `SerialInv` says at each stage that what the only slot has read
  is still so: the gate's actor is entitled now, the e-mail is free now, the password
  read by `LoadOld` is the one of the row, and a login's account is the one the given
  password opens. One lemma per action shows what it is in `AtomicAdmin`, a step or a
  stutter (`StoreAtomic`, `UpdateAtomic`, `IssueAtomic`, ...).
* `PasswordLostOnlyByRace` is about one update among others. `CarryInv` says what each update
  whose password is not `stale` carries: until it hashes the one it has loaded, what the
  row holds, and afterwards the hash of that. A write by another slot either leaves
  the password of the row alone or makes the update stale.
* The limiter: the stored counter counts admitted calls (`Earned`), and a
  counter about to be written counts its own besides; lost updates and
  failures only make it smaller. A counter above 0 was written by a call
  admitted within the time to live (`Dated`), so a lockout ends. Before calls
  overlap, only one caller is between its commands and what it read is still
  what is stored (`Alone`), so resets and counts are exact. `WindowRespected`
  builds on that: the counter covers the calls of the last time to live (`Covered`),
  since each call let through renews the key, and a key that expired was not
  renewed for that long. `before` only grows (`Staircase`), so as the window
  moves on, no call comes into it that was not counted.
* `OverAdmissionBounded` says how far lost updates can carry: with a limit of l and n callers,
  fewer than binomial(l + n, l) calls are let through. A caller stands at the level of
  the counter it has read or, between calls, would read. How many callers stand below each of the
  levels 1 .. l are l ascending numbers of at most n, and these are one of the
  choices of l numbers out of l + n (`Marks`). A GET leaves the choice as it is; a SET moves the
  writer up a level, and all idle callers to its level, up or down, but at
  the lowest level that changes there are fewer callers than before
  (`SetFalls`). So each SET replaces the choice by one that is later in an order
  without cycles (`Sooner`), and each choice is passed at most once (`Counted`). That
  the bound is attained is seen on the instance only.
* The consumer (`ConsumerInv`): only the newest connection may be open or have
  a watcher that has not delivered; a watcher that sends or is done has seen its
  connection close. So AnnounceQueue succeeds only on the newest connection.
* The publisher (`PublisherInv`): calls that may still dial are counted when they
  begin (`DialsLeft`), and only reconnecting functions connect
  (`ConnectsOnce`). Until a mishap, one call reconnects at a time, each open
  connection is the shared one or that call's, and the call has left the
  shared one only if that had closed (`Held`). When it returns its pair, the
  pair is stored, and nothing else was open.
* `FaultsBounded` needs a potential, as a fault is followed by failures much later.
  `Risk` is twice the number of failures that may still come without another fault:
  a call that works with a dead pair fails once (`Failing`); while the shared pair is a
  dead channel on a live connection, which Connect takes for a good one, every
  caller may begin on it (`Exposed`); and a call that fails to publish hands its pair
  back to be shared once more (`Storing`), each time with one caller fewer to
  do it again. `FaultsInv`: twice the failures so far and `Risk` are at most
  n (n + 3) for each fault. A fault raises the right side by that, and `Risk`
  by no more; a failure lowers `Risk` by the 2 it counts; no other step raises it.
* Sessions (`SessionInv`): a login is named by its number, so two logins never share a
  device (`Numbered`); a token sealed with the key of the file exists only where
  there is one (`Sealed`); a token has the secret of its kind and lives at least its
  hours (`Kinds`); a record that names a login's device lives for the hours
  promised to that login (`Recorded`). An accepted token names the device of the
  record, so accepted tokens of an account are of one login; a record never
  comes to name the device of a login whose tokens are out again, since a
  login that is still to store its device has given out none.
* Requests (`RequestsInv`): limiters are made only by requests that came before
  one of their visitor had a limiter, and a later one finds one of these
  (`Limited`), so there are no more limiters than such requests; a transaction is opened and ended by its own request, and what is
  durable follows from its outcome (`Transacted`).
* Pages: what fits an int does not wrap; with that, products and divisions of
  naturals.
* A walk (`ListingInv`): rows may share a key, so the rank of a row, how many are strictly
  ahead of it, is its place only if its key is its own. Still the first a rows, in whatever
  order the database takes tied ones, hold every row with a key of its own and a
  rank below a, no other such row, and as many rows as there are up to a; that gives the number of rows on a page
  (`PageMatchesTotal`). One change of the table touches one account, and moves at
  most one other across each rank boundary, so it puts at most one account out of
  reach of the walk, or brings one back to it. `MissedInv` counts the steady accounts that
  were not shown though their rank is behind the walk (at most `left`), `ShownInv` the
  repetitions so far together with the shown accounts that stand ahead of the walk and
  may yet be repeated (at most `came`).
* Files (`FilesInv`): what a call holds at each place (`Holds`), and that a call alone on its
  name has written the blocks its place says (`Written`).
* Differences: a reading is a count of months and a count of seconds beyond them, and
  `Earlier` orders readings, and differences, by these two (`ReadingsInOrder`). The borrows
  of `Between` subtract the counts (`BetweenCounts`), with one month's seconds moved from
  one to the other if the seconds ran out; if the readings are in reverse, the years
  are what becomes negative. `Diff` is `Between` of two readings of one clock, from the
  earlier instant to the later (`DiffIsBetween`), and nothing is assumed of the clock. That month has the length of the
  earlier moment's month, so between two later moments on either side of the end of
  a longer one the days fall: from 28 February 2020 to 31 March is one month and three days,
  to 1 April one month and two days. `LaterIsFurther` says that this
  is the only exception.

* The helpers. The induction theorems of the library cannot be used here (the provers
  cannot instantiate their operator parameters), so the loops are reasoned
  about with sets: the naturals are well-founded, hence a set of them has a least
  number (`Least`), and a set that holds 0, and n with n - 1, holds all numbers up to
  a bound (`UpTo`). With that every loop runs (`LoopRuns`: the recursive function is
  what it says), and what its first state has and each round keeps, all its
  states have. Each helper then needs the right thing to say of a round:
  * `Unique` (`UniquePromise`): the list after n rounds has each of the first n entries once, and
    the place of an entry is the number of entries that came first before it.
  * Tax numbers (`NpwpPromise`): the places of a formatted number are those of the 15 digits and
    five others, which GetNpwpNumber undoes.
  * `Underscore` (`LettersKept`): what is written and the capital that waits are together the
    letters so far, in lower case; without capitals nothing waits, so the second
    time changes nothing.
  * `SpellNumberRec` (`AllUnderstood`): a spelling is understood in the middle of a sentence
    (`Understood`): up to 11 as a unit that may still get its place from the next word,
    below a thousand as what it adds to the group in hand, above as what it adds
    to the whole. Each of the ten forms (`OneForm`) is put together from the
    parts below it. Without the difference between the three the claim is not inductive: "dua" is
    not yet 2 when "puluh" or "ribu" may follow.
  * The censors (`CensorPromise`): the words of a text are never empty, so a factor between 0 and
    1 cuts within the word, and one below 0 or from 2 on panics at the first.
  * `Diff` (`DiffPromise`): the theorems above; where the months agree, less than three days'
    seconds are at most three days (`DaysLost`).

Every safety property of the passing runs is stated by a theorem. Left to TLC are the
liveness properties (`EveryRequestAnswered`, `Settles`, `Recovers`,
`WalksEnd`): the provers do not reason about ENABLED and fairness.

## 6. What is not modelled

* What lies below the statements: SQL is taken as one atomic step per
  statement (each call of `database/sql` here is its own implicit
  transaction), Redis commands likewise.
* Tokens are taken as unforgeable: a token is one that `Session` or the account
  service has issued, and the libraries that sign and seal are not modelled.
* `singleLogin` is false at every call of the gate at this commit; `OneDevice`,
  `NoRevival` and `SessionLasts` are about routes that ask for it.
* How the rate limiter of the ulule library counts (it lets a request pass, refuses it
  or panics), CORS, static files, validation
  messages, formatting of answers, logging.
* StoreToRedis, GetAllStringFromRedis and RemoveFromRedis: single commands
  without a caller.
* Roles: read-only queries, over columns `files/db.sql` does not give the table,
  of rows nothing in the repository writes.
* `model/File.go` (rows without a caller), Download (DownloadImage without its
  checks), PathToBase64 and ToBase64 (they only read).
* AES and HMAC helpers, clients of Apple, Facebook, Google and REST services,
  configuration: no state of their own, or no caller. Helpers that
  are one library call, random strings, and constants.
* Vendored libraries, except as the models of the Redis, AMQP, SQL and file
  system calls above.

## 7. Known gaps of the code

Met while modelling, and part of the models, but contradicted by no property
that a run checks:

* `amqpconsumer.go:225`: one failed reconnect ends the process, where the comment
  above it says it should not. `Settles` excepts it.
* `amqpconsumer.go:93`: the loss of a channel alone is not noticed, though the comment at
  :92 speaks of the channel; Handle waits with no worker left. `Settles` excepts it.
* `contract.go:242`, `limit.go:102` and `:147`: concurrent callers exceed the limit;
  `OverAdmissionBounded` says by how much.
* `admin_uc.go:144`: an e-mail query that fails lets a single request write a
  duplicate.
* `admin_uc.go:207`: an update that carries no password overwrites one that was set
  after it had read the row with the hash of the old hash.
* `Admin.go:78`: the order of a listing has no tie-breaker, and time stamps are not
  unique (`files/db.sql:17-18`; `time.Now()` may repeat or step back): a walk may miss or
  repeat rows that share one though nothing is written.
* `time.go:48-65`: instants are compared and wall clocks subtracted. From 01:50 EDT to
  01:10 EST of one night the difference is year -1, month 11, day 29 and so on, though
  the comment at :67 speaks of normalising negative values; 01:30 EDT and 01:30 EST are
  no time apart; and as the second moment is read in the first one's zone, the order
  of the arguments matters across zones.
* `number.go:25`: SpellNumberRec panics for the smallest int.
* `file.go:63`: a download that broke off is answered as a success.
* `time.go:82`: the difference to a later moment may be the smaller one, by up to three days,
  because the month that is borrowed is the earlier moment's.
* `admin_uc.go:242`: the last account with the Admin role can be deleted or demoted.

## 8. Plan

Done: the accounts with their two abstract specifications, the limiters, the
consumer, the publisher, sessions, listing, requests with transactions, files
and helpers; invariants and their proofs.

Left, in order:

1. A composition of `Session` with `AdminService`: what a deletion does to tokens
   that are out (the gate looks the actor up, verifyJWT alone does not).
2. Roles, once something in the repository writes them.
