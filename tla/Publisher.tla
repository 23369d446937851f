------------------------------ MODULE Publisher ------------------------------
(***************************************************************************)
(* The queue publisher (pkg/amqp): calls of PushQueue, PushQueueReconnect  *)
(* and PushDLQueueReconnect made by concurrent requests over one shared    *)
(* connection and channel, the globals AmqpConnection and AmqpChannel that *)
(* main sets when it starts.                                               *)
(*                                                                         *)
(* A call works on the pair as it was when NewQueue was called (the        *)
(* receiver is a copy); the reconnecting ones return the pair to use from  *)
(* now on, or nil with an error, and their caller stores what they return. *)
(* Dial k makes connection k, which has one channel, so a pair is a number *)
(* and 0 is nil.                                                           *)
(***************************************************************************)
EXTENDS Naturals, FiniteSets

CONSTANTS
    Callers,     \* requests that may publish at the same time
    Queues,      \* names of queues
    UseSets,     \* the uses a program may make: which function for which queue
    MaxDials,    \* bound: connections made in a behaviour, ...
    DialBound,   \* ... and in a behaviour of each program
    MaxFaults,   \* bound: faults of the network, the broker or the data
    MaxFailures  \* bound: failed calls are counted up to here

Kinds == {"push", "reconnect", "deadletter"}
Uses == [kind : Kinds, queue : Queues]

ASSUME PublisherAssumption ==
    /\ IsFiniteSet(Callers)
    /\ UseSets \subseteq SUBSET Uses
    /\ DialBound \in [UseSets -> 1..MaxDials]
    /\ MaxDials \in Nat \ {0} /\ MaxFaults \in Nat \ {0} /\ MaxFailures \in Nat

VARIABLES
    conns,     \* state of each connection
    chans,     \* state of each connection's channel
    dials,     \* connections made so far
    args,      \* the arguments the broker has each queue declared with
    shared,    \* AmqpConnection and AmqpChannel
    uses,      \* the uses the program makes of the queues
    pc,        \* where each caller's call is
    use,       \* the call's function and queue
    m,         \* the call's receiver: the pair it works with
    result,    \* what the caller's latest call returned
    message,   \* what became of that call's message
    faults,    \* faults so far; declaring a queue in two ways counts as one
    failures,  \* history: reconnecting calls that returned an error
    mishap     \* history: has something happened that can cost a connection?

vars == <<conns, chans, dials, args, shared, uses, pc, use, m, result, message,
          faults, failures, mishap>>
world == <<conns, chans, dials, args>>

Ids == 1..MaxDials
NoUse == [kind |-> "none", queue |-> "none"]

\* The arguments a function declares its queue with: PushQueueReconnect's name
\* a dead-letter queue.
Args(kind) == IF kind = "reconnect" THEN "dead-letter" ELSE "plain"

\* Do all uses of a queue declare it alike?
Compatible(U) == \A u, v \in U : u.queue = v.queue => Args(u.kind) = Args(v.kind)

\* main: connects, or panics, and sets the globals.
Init ==
    /\ conns = [k \in Ids |-> IF k = 1 THEN "open" ELSE "none"]
    /\ chans = [k \in Ids |-> IF k = 1 THEN "open" ELSE "none"]
    /\ dials = 1 /\ shared = 1
    /\ args = [q \in Queues |-> "absent"]
    /\ uses \in UseSets
    /\ pc = [c \in Callers |-> "idle"]
    /\ use = [c \in Callers |-> NoUse]
    /\ m = [c \in Callers |-> 0]
    /\ result = [c \in Callers |-> "none"]
    /\ message = [c \in Callers |-> "none"]
    /\ faults = IF Compatible(uses) THEN 0 ELSE 1
    /\ failures = 0 /\ mishap = FALSE

-----------------------------------------------------------------------------
(* Steps of a call *)

At(c, place) == pc[c] = place
Goto(c, place) == pc' = [pc EXCEPT ![c] = place]
Fault == faults < MaxFaults /\ faults' = faults + 1

Reconnecting(c) == pc[c] # "idle" /\ use[c].kind # "push"
Alive(k) == k # 0 /\ conns[k] = "open"
Usable(k) == k # 0 /\ chans[k] = "open"

\* A call that returns nil in the place of an open connection gives it up; PushQueue
\* returns no pair and gives up none.
GivesUp(c) == use[c].kind # "push" /\ Alive(m[c])

\* The call returns pair k and err; the caller of a reconnecting one stores k.  (The
\* repository has no caller of NewQueue.  Storing the pair is what it is returned
\* for; the two globals, and the two results, are taken as one.)
Return(c, k, err) ==
    /\ Goto(c, "idle")
    /\ result' = [result EXCEPT ![c] = err]
    /\ m' = [m EXCEPT ![c] = 0]
    /\ use' = [use EXCEPT ![c] = NoUse]
    /\ IF use[c].kind = "push" \/ err = "panic"
         THEN UNCHANGED <<shared, failures>>
         ELSE /\ shared' = k
              /\ failures' = IF err = "error" /\ failures < MaxFailures
                              THEN failures + 1 ELSE failures

\* NewQueue copies the globals.  Bound: every call in progress may still dial.
Begin(c) ==
    /\ At(c, "idle")
    /\ dials + Cardinality({d \in Callers : pc[d] # "idle"}) < DialBound[uses]
    /\ \E u \in uses :
          /\ use' = [use EXCEPT ![c] = u]
          /\ Goto(c, IF u.kind = "push" THEN "declare" ELSE "connect")
          /\ mishap' = (mishap \/ (u.kind # "push" /\ \E d \in Callers : Reconnecting(d)))
    /\ m' = [m EXCEPT ![c] = shared]
    /\ message' = [message EXCEPT ![c] = "none"]
    /\ result' = [result EXCEPT ![c] = "none"]
    /\ UNCHANGED <<world, shared, uses, faults, failures>>

KeepConnection(c) ==
    /\ At(c, "connect") /\ Alive(m[c])
    /\ Goto(c, "declare")
    /\ UNCHANGED <<world, shared, uses, use, m, result, message, faults, failures, mishap>>

\* m.Connection is nil or IsClosed().
Dial(c) ==
    /\ At(c, "connect") /\ ~Alive(m[c])
    /\ dials' = dials + 1
    /\ conns' = [conns EXCEPT ![dials + 1] = "open"]
    /\ m' = [m EXCEPT ![c] = dials + 1]
    /\ Goto(c, "channel")
    /\ UNCHANGED <<chans, args, shared, uses, use, result, message, faults, failures, mishap>>

DialFails(c) ==
    /\ At(c, "connect") /\ ~Alive(m[c]) /\ Fault
    /\ Return(c, 0, "error")
    /\ UNCHANGED <<world, uses, message, mishap>>

\* Variant: Connect's results are declared anew inside the if and shadow m's.
OpenChannelShadowed(c) ==
    /\ At(c, "channel") /\ Alive(m[c])
    /\ chans' = [chans EXCEPT ![m[c]] = "open"]
    /\ m' = [m EXCEPT ![c] = shared]
    /\ Goto(c, "declare")
    /\ UNCHANGED <<conns, dials, args, shared, uses, use, result, message,
                   faults, failures, mishap>>

OpenChannel(c) ==
    /\ At(c, "channel") /\ Alive(m[c])
    /\ chans' = [chans EXCEPT ![m[c]] = "open"]
    /\ Goto(c, "declare")
    /\ UNCHANGED <<conns, dials, args, shared, uses, use, m, result, message,
                   faults, failures, mishap>>

\* Connect returns the connection with the error; the call returns nil for both.
OpenChannelFails(c) ==
    /\ At(c, "channel")
    /\ \/ Alive(m[c]) /\ Fault /\ mishap' = TRUE
       \/ ~Alive(m[c]) /\ UNCHANGED <<faults, mishap>>
    /\ Return(c, 0, "error")
    /\ UNCHANGED <<world, uses, message>>

Declare(c) ==
    /\ At(c, "declare") /\ Usable(m[c])
    /\ args[use[c].queue] \in {"absent", Args(use[c].kind)}
    /\ args' = [args EXCEPT ![use[c].queue] = Args(use[c].kind)]
    /\ Goto(c, "publish")
    /\ UNCHANGED <<conns, chans, dials, shared, uses, use, m, result, message,
                   faults, failures, mishap>>

\* Variant: the pair comes back with the error, as it does from a failing Publish.
DeclareFailsKeepingPair(c) ==
    /\ At(c, "declare") /\ m[c] # 0
    /\ ~Usable(m[c])
    /\ Return(c, m[c], "error")
    /\ UNCHANGED <<world, uses, message, faults, mishap>>

\* The broker refuses to declare a queue with other arguments and closes the
\* channel; a closed channel refuses everything.  The pair is given up.
DeclareFails(c) ==
    /\ At(c, "declare") /\ m[c] # 0
    /\ \/ /\ Usable(m[c]) /\ args[use[c].queue] \notin {"absent", Args(use[c].kind)}
          /\ chans' = [chans EXCEPT ![m[c]] = "closed"]
       \/ /\ ~Usable(m[c])
          /\ UNCHANGED chans
    /\ mishap' = (mishap \/ GivesUp(c))
    /\ Return(c, 0, "error")
    /\ UNCHANGED <<conns, dials, args, uses, message, faults>>

\* PushQueue does not look for nil; the server's recoverer answers the request.
DeclareOnNil(c) ==
    /\ At(c, "declare") /\ m[c] = 0
    /\ Return(c, 0, "panic")
    /\ UNCHANGED <<world, uses, message, faults, mishap>>

\* Data JSON cannot express, found just before the publishing.  The reconnecting
\* functions return nil, nil, nil.
MarshalFails(c) ==
    /\ At(c, "publish") /\ Fault
    /\ message' = [message EXCEPT ![c] = "unencodable"]
    /\ mishap' = (mishap \/ GivesUp(c))
    /\ Return(c, 0, IF use[c].kind = "push" THEN "error" ELSE "nil")
    /\ UNCHANGED <<world, uses>>

\* Publish is not confirmed: what is written just before the connection turns
\* out to be gone is lost without an error.
Publish(c) ==
    /\ At(c, "publish") /\ Usable(m[c])
    /\ \/ UNCHANGED <<conns, chans, faults>>
       \/ /\ Fault
          /\ conns' = [conns EXCEPT ![m[c]] = "closed"]
          /\ chans' = [chans EXCEPT ![m[c]] = "closed"]
    /\ message' = [message EXCEPT ![c] = "written"]
    /\ Return(c, m[c], "nil")
    /\ UNCHANGED <<dials, args, uses, mishap>>

\* Variant: PublishFails drops the pair, as the earlier errors do, and its error.
PublishFailsQuietly(c) ==
    /\ At(c, "publish") /\ ~Usable(m[c])
    /\ Return(c, 0, "nil")
    /\ UNCHANGED <<world, uses, message, faults, mishap>>

\* The pair comes back with the error, and is kept.
PublishFails(c) ==
    /\ At(c, "publish") /\ ~Usable(m[c])
    /\ Return(c, m[c], "error")
    /\ UNCHANGED <<world, uses, message, faults, mishap>>

-----------------------------------------------------------------------------
(* The network and the broker *)

CloseConnection(k) ==
    /\ conns[k] = "open" /\ Fault
    /\ conns' = [conns EXCEPT ![k] = "closed"]
    /\ chans' = [chans EXCEPT ![k] = IF @ = "open" THEN "closed" ELSE @]
    /\ UNCHANGED <<dials, args, shared, uses, pc, use, m, result, message, failures, mishap>>

CloseChannel(k) ==
    /\ chans[k] = "open" /\ Fault
    /\ chans' = [chans EXCEPT ![k] = "closed"]
    /\ UNCHANGED <<conns, dials, args, shared, uses, pc, use, m, result, message, failures, mishap>>

-----------------------------------------------------------------------------

Connect(c) == KeepConnection(c) \/ Dial(c) \/ DialFails(c)
              \/ OpenChannel(c) \/ OpenChannelFails(c)
Push(c) == \/ Declare(c) \/ DeclareFails(c) \/ DeclareOnNil(c)
           \/ MarshalFails(c) \/ Publish(c) \/ PublishFails(c)
Step(c) == Connect(c) \/ Push(c)

Next == \/ \E c \in Callers : Begin(c) \/ Step(c)
        \/ \E k \in Ids : CloseConnection(k) \/ CloseChannel(k)

Spec == Init /\ [][Next]_vars

\* A call that was made goes on (its network operations return).  Requests may
\* come for ever, and then not all of them only push.
BeginReconnecting(c) == Begin(c) /\ use'[c].kind # "push"
FairSpec == /\ Spec
            /\ \A c \in Callers : WF_vars(Step(c)) /\ SF_vars(BeginReconnecting(c))

-----------------------------------------------------------------------------
(* Properties *)

Places == {"idle", "connect", "channel", "declare", "publish"}

\* The type invariant.  A pair is only ever a connection that was made, and one
\* a call is about to open a channel or publish on is not nil.
TypeOK ==
    /\ dials \in Ids /\ shared \in 0..dials
    /\ conns \in [Ids -> {"none", "open", "closed"}]
    /\ chans \in [Ids -> {"none", "open", "closed"}]
    /\ args \in [Queues -> {"absent", "plain", "dead-letter"}]
    /\ uses \in UseSets
    /\ pc \in [Callers -> Places]
    /\ use \in [Callers -> Uses \cup {NoUse}]
    /\ m \in [Callers -> 0..dials]
    /\ \A c \in Callers : pc[c] \in {"channel", "publish"} => m[c] # 0
    /\ result \in [Callers -> {"none", "nil", "error", "panic"}]
    /\ message \in [Callers -> {"none", "written", "unencodable"}]
    /\ faults \in 0..MaxFaults /\ failures \in 0..MaxFailures /\ mishap \in BOOLEAN

\* A call that returns no error has had its message written to a channel that
\* was open, unless the data could not be encoded (PushQueueReconnect's and
\* PushDLQueueReconnect's nil, nil, nil): an error on the way, also after a
\* reconnect, is never swallowed.
NilMeansWritten ==
    \A c \in Callers : result[c] = "nil" => message[c] # "none"

\* Open connections nobody can reach any more.
Abandoned == {k \in Ids : /\ conns[k] = "open" /\ k # shared
                          /\ \A c \in Callers : m[c] # k}

\* No connection is leaked but by a call that gave its pair up on an error, or
\* by two calls that reconnected at the same time.
LeaksExplained == Abandoned # {} => mishap

\* Calls that declare their queues alike recover: once faults stop, there comes
\* a moment from which no reconnecting call fails and nothing has to be dialled.
Recovers == Compatible(uses) => <>[](Usable(shared) /\ \A c \in Callers : At(c, "connect") => Usable(m[c]))

\* What a fault can cost when queues are declared alike, with n requests at a
\* time: each of the n calls that may be running fails once, and as a failing
\* publish stores its dead pair again, the calls begun on that pair fail too,
\* one after the first such store, two after the second, ...
FaultCost == LET n == Cardinality(Callers) IN (n * (n + 3)) \div 2
FaultsBounded == Compatible(uses) => failures <= faults * FaultCost
=============================================================================
