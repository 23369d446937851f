--------------------------- MODULE ConsumerProofs ---------------------------
(***************************************************************************)
(* The consumer is told of every connection it loses, and reconnects only  *)
(* then, for any number of workers and of reconnects.                      *)
(***************************************************************************)
EXTENDS Consumer, TLAPS

USE ConsumerAssumption

-----------------------------------------------------------------------------
(* The inductive invariant: only the newest connection can be open or have a *)
(* watcher that has not delivered; a watcher that is done, or sends, has     *)
(* seen its connection close; Handle's deliveries are the newest's whenever  *)
(* it waits for that watcher.                                                *)

Newest ==
    /\ \A k \in Ids : k > dials => watcher[k] = "none" /\ conns[k] = "none"
    /\ \A k \in Ids : k < dials => watcher[k] = "done"
    /\ watcher[dials] # "none"

Seen == \A k \in Ids : watcher[k] \in {"sending", "done"} => conns[k] = "closed"

OpenInOpen == \A k \in Ids : chans[k] = "open" => conns[k] = "open"

HandleWaitsForNewest ==
    /\ handle \in {"spawn", "waiting"} => d = dials /\ watcher[dials] \in {"waiting", "sending"}
    /\ handle = "sleeping" => watcher[dials] = "done"
    /\ handle = "declaring" => channel # 0

ConsumerInv == TypeOK /\ Newest /\ Seen /\ OpenInOpen /\ HandleWaitsForNewest

-----------------------------------------------------------------------------

\* Handle is called with connection 1 open and watched.
LEMMA InvInit == Init => ConsumerInv
<1>1. Init => TypeOK
  <2>1. SUFFICES ASSUME Init PROVE TypeOK
    OBVIOUS
  <2>2. 1 \in Ids /\ handle = "spawn"
    BY <2>1 DEF Init, Ids
  <2>4. mishap \in BOOLEAN
    BY <2>1, Zenon DEF Init
  <2>3. /\ conns \in [Ids -> {"none", "open", "closed"}]
        /\ chans \in [Ids -> {"none", "open", "closed"}]
        /\ watcher \in [Ids -> {"none", "waiting", "sending", "done"}]
        /\ workers \in [Ids -> 0..Threads]
    BY <2>1 DEF Init
  <2> QED
    BY <2>1, <2>2, <2>3, <2>4 DEF Init, TypeOK, Ids
<1> QED
  BY <1>1 DEF Init, ConsumerInv, Newest, Seen, OpenInOpen, HandleWaitsForNewest, Ids

\* A successful dial: the connection that was newest is closed, its watcher done.
LEMMA DialKeeps == ConsumerInv /\ Dial => ConsumerInv'
<1>1. SUFFICES ASSUME ConsumerInv, Dial PROVE ConsumerInv'
  OBVIOUS
<1>2. dials' \in Ids /\ dials' = dials + 1 /\ dials \in Ids /\ watcher[dials] = "done"
  BY <1>1 DEF ConsumerInv, TypeOK, Dial, At, HandleWaitsForNewest, Ids
<1>3. TypeOK'
  BY <1>1, <1>2 DEF ConsumerInv, TypeOK, Dial, Ended
<1>4. /\ conns' = [conns EXCEPT ![dials'] = "open"]
      /\ watcher' = [watcher EXCEPT ![dials'] = "waiting"]
  BY <1>1, <1>2 DEF Dial
<1>5. Newest' /\ Seen' /\ OpenInOpen'
  <2>1. Newest'
    BY <1>1, <1>2, <1>4 DEF ConsumerInv, TypeOK, Newest, Ids
  <2>2. Seen'
    BY <1>1, <1>2, <1>4 DEF ConsumerInv, TypeOK, Seen, Ids
  <2>3. OpenInOpen'
    BY <1>1, <1>2, <1>4 DEF ConsumerInv, TypeOK, OpenInOpen, Ids, Dial
  <2> QED
    BY <2>1, <2>2, <2>3
<1>6. HandleWaitsForNewest'
  BY <1>1 DEF Dial, HandleWaitsForNewest
<1> QED
  BY <1>3, <1>5, <1>6 DEF ConsumerInv

\* The rest of ReConnect, and the head of Handle's loop.
LEMMA HandleKeeps == ConsumerInv /\ Handle => ConsumerInv'
<1>1. SUFFICES ASSUME ConsumerInv, Handle PROVE ConsumerInv'
  OBVIOUS
<1> USE DEF ConsumerInv, At
<1>2. CASE Spawn
  BY <1>1, <1>2 DEF Spawn, TypeOK, Newest, Seen, OpenInOpen, HandleWaitsForNewest, Ids
<1>3. CASE Dial
  BY <1>1, <1>3, DialKeeps
<1>4. CASE DialFails
  BY <1>1, <1>4 DEF DialFails, TypeOK, Newest, Seen, OpenInOpen, HandleWaitsForNewest
<1>5. CASE OpenChannel
  BY <1>1, <1>5 DEF OpenChannel, TypeOK, Newest, Seen, OpenInOpen, HandleWaitsForNewest, Ids
<1>6. CASE OpenChannelFails
  BY <1>1, <1>6 DEF OpenChannelFails, TypeOK, Newest, Seen, OpenInOpen, HandleWaitsForNewest
<1>7. CASE DeclareExchange
  BY <1>1, <1>7 DEF DeclareExchange, TypeOK, Newest, Seen, OpenInOpen, HandleWaitsForNewest, Ids
<1>8. CASE AnnounceQueue
  <2>1. channel \in Ids /\ conns[channel] = "open"
    BY <1>1, <1>8 DEF AnnounceQueue, TypeOK, OpenInOpen, Ids
  <2>2. channel = dials
    BY <1>1, <2>1 DEF Newest, Seen, TypeOK, Ids
  <2>3. watcher[dials] \in {"waiting", "sending"}
    BY <1>1, <2>1, <2>2 DEF Newest, Seen, TypeOK
  <2> QED
    BY <1>1, <1>8, <2>1, <2>2, <2>3
       DEF AnnounceQueue, TypeOK, Newest, Seen, OpenInOpen, HandleWaitsForNewest
<1>9. CASE AnnounceFails
  BY <1>1, <1>9 DEF AnnounceFails, TypeOK, Newest, Seen, OpenInOpen, HandleWaitsForNewest, Ended
<1>10. ASSUME NEW k \in Ids, Notice(k) PROVE ConsumerInv'
  <2>1. k = dials
    BY <1>1, <1>10 DEF Notice, Newest, TypeOK, Ids
  <2> QED
    BY <1>1, <1>10, <2>1 DEF Notice, TypeOK, Newest, Seen, OpenInOpen, HandleWaitsForNewest
<1> QED
  BY <1>1, <1>2, <1>3, <1>4, <1>5, <1>6, <1>7, <1>8, <1>9, <1>10 DEF Handle, ReConnect

\* Watchers, workers and the world.
LEMMA WorldKeeps ==
    ASSUME ConsumerInv, NEW k \in Ids,
           WatcherSees(k) \/ WorkerReturns(k) \/ CloseConnection(k) \/ CloseChannel(k)
    PROVE ConsumerInv'
<1> USE DEF ConsumerInv
<1>1. CASE WatcherSees(k)
  <2>1. k = dials
    BY <1>1 DEF WatcherSees, Newest, TypeOK, Ids
  <2> QED
    BY <1>1, <2>1 DEF WatcherSees, TypeOK, Newest, Seen, OpenInOpen, HandleWaitsForNewest
<1>2. CASE WorkerReturns(k)
  BY <1>2 DEF WorkerReturns, TypeOK, Newest, Seen, OpenInOpen, HandleWaitsForNewest
<1>3. CASE CloseConnection(k)
  BY <1>3 DEF CloseConnection, TypeOK, Newest, Seen, OpenInOpen, HandleWaitsForNewest, Ids
<1>4. CASE CloseChannel(k)
  BY <1>4 DEF CloseChannel, TypeOK, Newest, Seen, OpenInOpen, HandleWaitsForNewest
<1> QED
  BY <1>1, <1>2, <1>3, <1>4

\* The invariant is inductive.
LEMMA InvStep == ConsumerInv /\ [Next]_vars => ConsumerInv'
<1>1. SUFFICES ASSUME ConsumerInv, [Next]_vars PROVE ConsumerInv'
  OBVIOUS
<1>2. CASE Next
  BY <1>1, <1>2, HandleKeeps, WorldKeeps DEF Next
<1>3. CASE UNCHANGED vars
  BY <1>1, <1>3 DEF ConsumerInv, TypeOK, Newest, Seen, OpenInOpen, HandleWaitsForNewest, vars
<1> QED
  BY <1>1, <1>2, <1>3

\* The invariant holds in every reachable state.
THEOREM ConsumerInvariance == Spec => []ConsumerInv
  BY InvInit, InvStep, PTL DEF Spec

\* Every state is of its type: Handle ranges over a channel that was opened, of a
\* connection that was made, after any number of reconnects.
THEOREM ConsumerTypes == Spec => []TypeOK
<1>1. ConsumerInv => TypeOK
  BY DEF ConsumerInv
<1> QED
  BY <1>1, ConsumerInvariance, PTL

\* Whenever Handle waits on done, the goroutine of the connection it works with
\* has yet to send, and no other has: no loss of a connection goes unreported.
THEOREM LossesAreReported == Spec => []EveryLossReported
<1>1. ConsumerInv => EveryLossReported
  BY DEF ConsumerInv, TypeOK, Newest, HandleWaitsForNewest, EveryLossReported, Ids
<1> QED
  BY <1>1, ConsumerInvariance, PTL

\* ReConnect is reached only when every connection made so far has closed.
THEOREM ReconnectsAfterLoss == Spec => []ReconnectOnlyAfterLoss
<1>1. ConsumerInv => ReconnectOnlyAfterLoss
  <2>1. SUFFICES ASSUME ConsumerInv, handle = "sleeping", NEW k \in Ids
                 PROVE conns[k] # "open"
    BY DEF ReconnectOnlyAfterLoss
  <2>2. watcher[k] \in {"none", "done"} /\ (watcher[k] = "none" => conns[k] = "none")
    BY <2>1 DEF ConsumerInv, TypeOK, Newest, HandleWaitsForNewest, Ids
  <2> QED
    BY <2>1, <2>2 DEF ConsumerInv, Seen
<1> QED
  BY <1>1, ConsumerInvariance, PTL
=============================================================================
