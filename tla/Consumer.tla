------------------------------ MODULE Consumer ------------------------------
(***************************************************************************)
(* The queue consumer: Handle starts worker goroutines on a deliveries     *)
(* channel, waits on the unbuffered Go channel done, and reconnects when a *)
(* value arrives there.  Every successful dial starts a goroutine, here    *)
(* the watcher of that connection, which waits for the connection to close *)
(* and then sends on done.                                                 *)
(*                                                                         *)
(* The k-th successful dial makes connection k, with at most one AMQP      *)
(* channel.  The broker or the network may close a connection, which       *)
(* closes its channel, or the broker the channel alone.                    *)
(***************************************************************************)
EXTENDS Naturals

CONSTANTS
    Threads,   \* workers Handle starts on one deliveries channel
    MaxDials   \* bound: connections ever made; the last one is never closed

ASSUME ConsumerAssumption == Threads \in Nat \ {0} /\ MaxDials \in Nat \ {0}

VARIABLES
    dials,    \* connections made so far
    conns,    \* state of each connection
    chans,    \* state of each connection's channel
    watcher,  \* state of each connection's watcher
    channel,  \* c.channel: the connection it belongs to, 0 for nil
    d,        \* Handle's deliveries: the connection they come from
    workers,  \* workers running, for each connection
    handle,   \* where Handle is; "fatal" and "panic" end the process
    mishap    \* history: more went wrong than the loss of a connection in use

vars == <<dials, conns, chans, watcher, channel, d, workers, handle, mishap>>

Ids == 1..MaxDials
Ended == {"fatal", "panic"}
Running == handle \notin Ended

TypeOK ==
    /\ dials \in Ids /\ d \in Ids /\ channel \in 0..MaxDials
    /\ conns \in [Ids -> {"none", "open", "closed"}]
    /\ chans \in [Ids -> {"none", "open", "closed"}]
    /\ watcher \in [Ids -> {"none", "waiting", "sending", "done"}]
    /\ workers \in [Ids -> 0..Threads]
    /\ handle \in {"spawn", "waiting", "sleeping", "opening", "declaring", "announcing"}
                  \cup Ended
    /\ mishap \in BOOLEAN

\* The caller has connected, announced the queue, and calls Handle.
Init ==
    /\ dials = 1 /\ d = 1 /\ channel = 1
    /\ conns = [k \in Ids |-> IF k = 1 THEN "open" ELSE "none"]
    /\ chans = [k \in Ids |-> IF k = 1 THEN "open" ELSE "none"]
    /\ watcher = [k \in Ids |-> IF k = 1 THEN "waiting" ELSE "none"]
    /\ workers = [k \in Ids |-> 0]
    /\ handle = "spawn" /\ mishap = FALSE

-----------------------------------------------------------------------------
(* Handle *)

At(from) == Running /\ handle = from

\* The head of the loop: threads goroutines read the deliveries.
Spawn ==
    /\ At("spawn") /\ handle' = "waiting"
    /\ workers' = [workers EXCEPT ![d] = Threads]
    /\ UNCHANGED <<dials, conns, chans, watcher, channel, d, mishap>>

\* A watcher's send and Handle's receive happen together: done has no buffer.
Notice(k) ==
    /\ At("waiting") /\ watcher[k] = "sending"
    /\ handle' = "sleeping"
    /\ watcher' = [watcher EXCEPT ![k] = "done"]
    /\ UNCHANGED <<dials, conns, chans, channel, d, workers, mishap>>

\* Variant: Connect starts the watcher only when all of it has succeeded.
DialWithoutWatcher ==
    /\ At("sleeping") /\ dials < MaxDials
    /\ dials' = dials + 1
    /\ conns' = [conns EXCEPT ![dials + 1] = "open"]
    /\ handle' = "opening"
    /\ UNCHANGED <<chans, watcher, channel, d, workers, mishap>>

\* ReConnect, after its 30 seconds, calls Connect: the dial, and the goroutine.
Dial ==
    /\ At("sleeping") /\ dials < MaxDials
    /\ dials' = dials + 1
    /\ conns' = [conns EXCEPT ![dials + 1] = "open"]
    /\ watcher' = [watcher EXCEPT ![dials + 1] = "waiting"]
    /\ handle' = "opening"
    /\ UNCHANGED <<chans, channel, d, workers, mishap>>

\* ReConnect only logs an error of Connect and goes on to AnnounceQueue: with
\* the old channel when the dial failed ...
DialFails ==
    /\ At("sleeping") /\ handle' = "announcing" /\ mishap' = TRUE
    /\ UNCHANGED <<dials, conns, chans, watcher, channel, d, workers>>

OpenChannel ==
    /\ At("opening") /\ conns[dials] = "open"
    /\ channel' = dials
    /\ chans' = [chans EXCEPT ![dials] = "open"]
    /\ handle' = "declaring"
    /\ UNCHANGED <<dials, conns, watcher, d, workers, mishap>>

\* ... with nil when no channel could be opened ...
OpenChannelFails ==
    /\ At("opening") /\ channel' = 0 /\ handle' = "announcing" /\ mishap' = TRUE
    /\ UNCHANGED <<dials, conns, chans, watcher, d, workers>>

\* ... and with the new one, which an error has closed, when the exchange could
\* not be declared.
DeclareExchange ==
    /\ At("declaring") /\ handle' = "announcing"
    /\ \/ UNCHANGED <<chans, mishap>>
       \/ chans' = [chans EXCEPT ![channel] = "closed"] /\ mishap' = TRUE
    /\ UNCHANGED <<dials, conns, watcher, channel, d, workers>>

\* AnnounceQueue needs an open channel; Handle then starts workers on the new
\* deliveries.
AnnounceQueue ==
    /\ At("announcing") /\ channel # 0 /\ chans[channel] = "open"
    /\ d' = channel /\ handle' = "spawn"
    /\ UNCHANGED <<dials, conns, chans, watcher, channel, workers, mishap>>

\* Variant: the error is only logged, and Handle's d takes the nil that came with it.
AnnounceFailsNil ==
    /\ At("announcing") /\ handle' = "spawn" /\ d' = 0
    /\ UNCHANGED <<dials, conns, chans, watcher, channel, workers, mishap>>

\* An error of AnnounceQueue is fatal; calling it on a nil channel panics.
AnnounceFails ==
    /\ At("announcing")
    /\ handle' = IF channel = 0 THEN "panic" ELSE "fatal"
    /\ mishap' = (mishap \/ (channel # 0 /\ chans[channel] = "open"))
    /\ UNCHANGED <<dials, conns, chans, watcher, channel, d, workers>>

-----------------------------------------------------------------------------
(* The other goroutines, and the world *)

\* Variant: the watcher waits for the channel to be closed, as its comment says.
WatcherSeesChannel(k) ==
    /\ Running /\ watcher[k] = "waiting" /\ chans[k] = "closed"
    /\ watcher' = [watcher EXCEPT ![k] = "sending"]
    /\ UNCHANGED <<dials, conns, chans, channel, d, workers, handle, mishap>>

\* Variant: a send that nobody is ready to receive is dropped.
WatcherSeesInPassing(k) ==
    /\ Running /\ watcher[k] = "waiting" /\ conns[k] = "closed"
    /\ watcher' = [watcher EXCEPT ![k] = IF handle = "waiting" THEN "sending" ELSE "done"]
    /\ UNCHANGED <<dials, conns, chans, channel, d, workers, handle, mishap>>

\* NotifyClose reports (or finds) the connection closed: the watcher is about
\* to send on done, and stays there until Handle receives.
WatcherSees(k) ==
    /\ Running /\ watcher[k] = "waiting" /\ conns[k] = "closed"
    /\ watcher' = [watcher EXCEPT ![k] = "sending"]
    /\ UNCHANGED <<dials, conns, chans, channel, d, workers, handle, mishap>>

\* A worker that ranges over the deliveries returns when they are closed.
WorkerReturns(k) ==
    /\ Running /\ workers[k] > 0 /\ chans[k] = "closed"
    /\ workers' = [workers EXCEPT ![k] = @ - 1]
    /\ UNCHANGED <<dials, conns, chans, watcher, channel, d, handle, mishap>>

CloseConnection(k) ==
    /\ Running /\ dials < MaxDials /\ conns[k] = "open"
    /\ conns' = [conns EXCEPT ![k] = "closed"]
    /\ chans' = [chans EXCEPT ![k] = IF @ = "open" THEN "closed" ELSE @]
    /\ mishap' = (mishap \/ handle \notin {"spawn", "waiting"})
    /\ UNCHANGED <<dials, watcher, channel, d, workers, handle>>

CloseChannel(k) ==
    /\ Running /\ chans[k] = "open"
    /\ chans' = [chans EXCEPT ![k] = "closed"] /\ mishap' = TRUE
    /\ UNCHANGED <<dials, conns, watcher, channel, d, workers, handle>>

-----------------------------------------------------------------------------

ReConnect == \/ Dial \/ DialFails \/ OpenChannel \/ OpenChannelFails
             \/ DeclareExchange \/ AnnounceQueue \/ AnnounceFails

Handle == Spawn \/ ReConnect \/ \E k \in Ids : Notice(k)

Next == \/ Handle
        \/ \E k \in Ids : \/ WatcherSees(k) \/ WorkerReturns(k)
                          \/ CloseConnection(k) \/ CloseChannel(k)

Spec == Init /\ [][Next]_vars

\* Every goroutine that can go on does; the dial succeeds or fails, the
\* connection need never close.
FairSpec == /\ Spec /\ WF_vars(Handle)
            /\ \A k \in Ids : WF_vars(WatcherSees(k)) /\ WF_vars(WorkerReturns(k))

-----------------------------------------------------------------------------
(* Properties *)

\* While Handle waits, a connection that has closed, or will, has a watcher to
\* tell it so: across any number of reconnects no loss goes unreported, nor is
\* a loss reported twice or by the watcher of another connection.
EveryLossReported ==
    handle \in {"spawn", "waiting"} =>
        \A k \in 1..dials : watcher[k] \in {"waiting", "sending"} <=> k = d

\* ReConnect never abandons a connection that works: when Handle goes to sleep
\* before reconnecting, every connection has been closed.
ReconnectOnlyAfterLoss == handle = "sleeping" => \A k \in Ids : conns[k] # "open"

\* Handle "has all the logic to make sure your program keeps running": as long as
\* connections are lost only while it works with them, be it before it waits for
\* the loss, and every step of ReConnect succeeds, the process does not end, and
\* when no more is lost it comes to rest waiting with a full set of workers on an
\* open channel of an open connection.
Settles ==
    <>[](\/ mishap
         \/ /\ handle = "waiting" /\ workers[d] = Threads
            /\ conns[d] = "open" /\ chans[d] = "open")
=============================================================================
