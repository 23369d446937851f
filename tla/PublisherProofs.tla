-------------------------- MODULE PublisherProofs --------------------------
(***************************************************************************)
(* Proofs about the queue publisher, for any number of callers, of queues, *)
(* of faults and of connections.                                           *)
(***************************************************************************)
EXTENDS Publisher, FiniteSetTheorems, TLAPS

\* The calls that may still dial are counted when they begin.
Connecting == {c \in Callers : pc[c] = "connect"}
DialsLeft == dials + Cardinality(Connecting) <= MaxDials

\* Only the reconnecting functions connect.
ConnectsOnce == \A c \in Callers : pc[c] \in {"connect", "channel"} => use[c].kind # "push"

\* Until a mishap, one call reconnects at a time; every open connection is the
\* shared one or its own, and it has left the shared one only if that had closed.
Held ==
    /\ \A c, d \in Callers : Reconnecting(c) /\ Reconnecting(d) => c = d
    /\ \A k \in Ids : conns[k] = "open" =>
          k = shared \/ \E c \in Callers : Reconnecting(c) /\ m[c] = k
    /\ \A c \in Callers : Reconnecting(c) => m[c] = shared \/ ~Alive(shared)

PublisherInv == TypeOK /\ DialsLeft /\ ConnectsOnce /\ NilMeansWritten /\ (mishap \/ Held)

-----------------------------------------------------------------------------
(* Types, part by part *)

PairsOK == dials \in Ids /\ shared \in 0..dials /\ m \in [Callers -> 0..dials]
LinksOK == conns \in [Ids -> {"none", "open", "closed"}]
           /\ chans \in [Ids -> {"none", "open", "closed"}]
CallsOK == /\ pc \in [Callers -> Places]
           /\ use \in [Callers -> Uses \cup {NoUse}]
           /\ uses \in UseSets
           /\ \A c \in Callers : pc[c] \in {"channel", "publish"} => m[c] # 0
ResultsOK == result \in [Callers -> {"none", "nil", "error", "panic"}]
             /\ message \in [Callers -> {"none", "written", "unencodable"}]
CountsOK == faults \in 0..MaxFaults /\ failures \in 0..MaxFailures
ArgsOK == args \in [Queues -> {"absent", "plain", "dead-letter"}]

\* The type invariant in the parts that are disturbed by different steps.
LEMMA TypeParts ==
    TypeOK <=> /\ PairsOK /\ LinksOK /\ CallsOK /\ ResultsOK /\ CountsOK /\ ArgsOK
               /\ mishap \in BOOLEAN
  BY DEF TypeOK, PairsOK, LinksOK, CallsOK, ResultsOK, CountsOK, ArgsOK

\* A step of the system, by what it is a step of.
LEMMA NextCases ==
    ASSUME [Next]_vars
    PROVE  \/ UNCHANGED vars
           \/ \E c \in Callers : Begin(c)
           \/ \E c \in Callers : KeepConnection(c) \/ Dial(c) \/ OpenChannel(c) \/ Declare(c)
           \/ \E c \in Callers : DialFails(c) \/ OpenChannelFails(c) \/ DeclareFails(c)
                                 \/ DeclareOnNil(c)
           \/ \E c \in Callers : MarshalFails(c) \/ Publish(c) \/ PublishFails(c)
           \/ \E k \in Ids : CloseConnection(k) \/ CloseChannel(k)
  BY Zenon DEF Next, Step, Connect, Push

\* A call that ends: the pair it returns, and the result, are the function's.
LEMMA Returns ==
    ASSUME PairsOK, CallsOK, NEW c \in Callers,
           DialFails(c) \/ OpenChannelFails(c) \/ DeclareFails(c) \/ DeclareOnNil(c)
           \/ MarshalFails(c) \/ Publish(c) \/ PublishFails(c)
    PROVE  /\ pc[c] # "idle" /\ UNCHANGED <<dials, uses>>
           /\ \E k \in {0, m[c]}, err \in {"nil", "error", "panic"} : Return(c, k, err)
<1>1. CASE DialFails(c) \/ OpenChannelFails(c) \/ DeclareFails(c)
  <2>1. pc[c] # "idle" /\ UNCHANGED <<dials, uses>> /\ Return(c, 0, "error")
    BY <1>1 DEF DialFails, OpenChannelFails, DeclareFails, world, At
  <2> QED  BY <2>1
<1>2. CASE DeclareOnNil(c)
  <2>1. pc[c] # "idle" /\ UNCHANGED <<dials, uses>> /\ Return(c, 0, "panic")
    BY <1>2 DEF DeclareOnNil, world, At
  <2> QED  BY <2>1
<1>3. CASE MarshalFails(c)
  <2>1. pc[c] # "idle" /\ UNCHANGED <<dials, uses>>
        /\ (Return(c, 0, "error") \/ Return(c, 0, "nil"))
    BY <1>3 DEF MarshalFails, world, At
  <2> QED  BY <2>1
<1>4. CASE Publish(c) \/ PublishFails(c)
  <2>1. pc[c] # "idle" /\ UNCHANGED <<dials, uses>>
        /\ (Return(c, m[c], "error") \/ Return(c, m[c], "nil"))
    BY <1>4 DEF Publish, PublishFails, world, At
  <2> QED  BY <2>1
<1> QED
  BY <1>1, <1>2, <1>3, <1>4

\* The dial a call may still make is left to it until it has made it.
LEMMA DialsKept ==
    ASSUME PairsOK, CallsOK, DialsLeft, [Next]_vars
    PROVE  DialsLeft' /\ dials' \in Ids /\ dials <= dials'
<1>0. /\ IsFiniteSet(Callers) /\ IsFiniteSet(Connecting) /\ IsFiniteSet(Connecting')
      /\ Cardinality(Connecting) \in Nat /\ Cardinality(Connecting') \in Nat
      /\ dials \in Nat /\ dials >= 1 /\ MaxDials \in Nat
  <2>1. Connecting \subseteq Callers /\ Connecting' \subseteq Callers
    BY DEF Connecting
  <2> QED  BY <2>1, PublisherAssumption, FS_Subset, FS_CardinalityType DEF PairsOK, Ids
<1>1. ASSUME UNCHANGED dials, Connecting' \subseteq Connecting
      PROVE  DialsLeft' /\ dials' \in Ids /\ dials <= dials'
  BY <1>0, <1>1, FS_Subset DEF DialsLeft, PairsOK
<1>2. ASSUME NEW c \in Callers, Begin(c)
      PROVE  DialsLeft' /\ dials' \in Ids /\ dials <= dials'
  <2> DEFINE Running == {d \in Callers : pc[d] # "idle"}
  <2>1. IsFiniteSet(Running) /\ Cardinality(Running) \in Nat
    BY <1>0, FS_Subset, FS_CardinalityType
  <2>2. dials + Cardinality(Running) < DialBound[uses] /\ dials' = dials
    BY <1>2 DEF Begin, world
  <2>3. DialBound[uses] \in Nat /\ DialBound[uses] <= MaxDials
    BY <1>0, PublisherAssumption DEF CallsOK
  <2>4. Connecting' \subseteq Running \cup {c}
    BY <1>2 DEF Begin, Goto, CallsOK, Connecting
  <2> HIDE DEF Running
  <2>5. /\ IsFiniteSet(Running \cup {c})
        /\ Cardinality(Running \cup {c}) \in {Cardinality(Running), Cardinality(Running) + 1}
    BY <2>1, FS_AddElement, Zenon
  <2>6. Cardinality(Connecting') <= Cardinality(Running \cup {c})
    BY <2>4, <2>5, FS_Subset
  <2> QED
    BY <1>0, <2>1, <2>2, <2>3, <2>5, <2>6 DEF DialsLeft, PairsOK
<1>3. ASSUME NEW c \in Callers, Dial(c)
      PROVE  DialsLeft' /\ dials' \in Ids /\ dials <= dials'
  <2>1. c \in Connecting /\ Connecting' = Connecting \ {c} /\ dials' = dials + 1
    BY <1>3 DEF Dial, At, Goto, CallsOK, Connecting
  <2>2. Cardinality(Connecting') = Cardinality(Connecting) - 1
    BY <1>0, <2>1, FS_RemoveElement
  <2> QED
    BY <1>0, <2>1, <2>2 DEF DialsLeft, Ids
<1>4. ASSUME NEW c \in Callers, KeepConnection(c) \/ OpenChannel(c) \/ Declare(c)
      PROVE  DialsLeft' /\ dials' \in Ids /\ dials <= dials'
  <2>1. UNCHANGED dials /\ Connecting' \subseteq Connecting
    BY <1>4 DEF KeepConnection, OpenChannel, Declare, Goto, CallsOK, Connecting, world
  <2> QED  BY <1>1, <2>1
<1>5. ASSUME NEW c \in Callers, UNCHANGED dials, NEW k, NEW err, Return(c, k, err)
      PROVE  DialsLeft' /\ dials' \in Ids /\ dials <= dials'
  <2>1. Connecting' \subseteq Connecting
    BY <1>5 DEF Return, Goto, CallsOK, Connecting
  <2> QED  BY <1>1, <1>5, <2>1
<1>6. ASSUME NEW k \in Ids, CloseConnection(k) \/ CloseChannel(k)
      PROVE  DialsLeft' /\ dials' \in Ids /\ dials <= dials'
  <2>1. UNCHANGED dials /\ Connecting' \subseteq Connecting
    BY <1>6 DEF CloseConnection, CloseChannel, Connecting
  <2> QED  BY <1>1, <2>1
<1>7. CASE UNCHANGED vars
  BY <1>1, <1>7 DEF vars, Connecting
<1> QED
  BY <1>2, <1>3, <1>4, <1>5, <1>6, <1>7, NextCases, Returns

-----------------------------------------------------------------------------
(* Types *)

\* Pairs stay of their type.
LEMMA PairsKept ==
    ASSUME PairsOK, CallsOK, DialsLeft, [Next]_vars PROVE PairsOK'
<1>0. dials' \in Ids /\ dials <= dials' /\ dials \in Nat /\ dials' \in Nat
  BY DialsKept DEF PairsOK, Ids
<1>1. CASE UNCHANGED <<shared, m>>
  BY <1>0, <1>1 DEF PairsOK
<1>2. ASSUME NEW c \in Callers, NEW k \in 0..dials', UNCHANGED shared,
             m' = [m EXCEPT ![c] = k]
      PROVE  PairsOK'
  BY <1>0, <1>2 DEF PairsOK
<1>3. ASSUME NEW c \in Callers, Begin(c) PROVE PairsOK'
  BY <1>0, <1>3 DEF Begin, PairsOK
<1>4. ASSUME NEW c \in Callers, KeepConnection(c) \/ OpenChannel(c) \/ Declare(c) PROVE PairsOK'
  BY <1>1, <1>4 DEF KeepConnection, OpenChannel, Declare
<1>5. ASSUME NEW c \in Callers, Dial(c) PROVE PairsOK'
  <2>1. dials + 1 \in 0..dials' /\ m' = [m EXCEPT ![c] = dials + 1] /\ UNCHANGED shared
    BY <1>0, <1>5 DEF Dial
  <2> QED  BY <1>2, <2>1
<1>6. ASSUME NEW c \in Callers, NEW k \in {0, m[c]}, NEW err, Return(c, k, err) PROVE PairsOK'
  <2>1. m[c] \in 0..dials'
    BY <1>0 DEF PairsOK
  <2>2. m' = [m EXCEPT ![c] = 0] /\ shared' \in {shared, k}
    BY <1>6 DEF Return
  <2> QED  BY <1>0, <2>1, <2>2 DEF PairsOK
<1>7. ASSUME NEW k \in Ids, CloseConnection(k) \/ CloseChannel(k) PROVE PairsOK'
  BY <1>1, <1>7 DEF CloseConnection, CloseChannel
<1> QED
  BY <1>1, <1>3, <1>4, <1>5, <1>6, <1>7, NextCases, Returns DEF vars

\* Connections stay of their type.
LEMMA LinksKept ==
    ASSUME PairsOK, CallsOK, LinksOK, DialsLeft, [Next]_vars PROVE LinksOK'
<1>1. CASE UNCHANGED <<conns, chans>>
  BY <1>1 DEF LinksOK
<1>2. ASSUME NEW c \in Callers,
             Dial(c) \/ OpenChannel(c) \/ DeclareFails(c) \/ Publish(c)
      PROVE  LinksOK'
  BY <1>2 DEF Dial, OpenChannel, DeclareFails, Publish, LinksOK
<1>3. ASSUME NEW k \in Ids, CloseConnection(k) \/ CloseChannel(k) PROVE LinksOK'
  BY <1>3 DEF CloseConnection, CloseChannel, LinksOK
<1> QED
  BY <1>1, <1>2, <1>3, NextCases DEF vars, world, Begin, KeepConnection, Declare, DialFails,
     OpenChannelFails, DeclareOnNil, MarshalFails, PublishFails

\* Calls stay of their type.
LEMMA CallsKept ==
    ASSUME PairsOK, CallsOK, ConnectsOnce, [Next]_vars PROVE CallsOK' /\ ConnectsOnce'
<1> USE DEF Places
<1>0. uses' = uses /\ uses \subseteq Uses
  <2>1. uses \subseteq Uses  BY PublisherAssumption DEF CallsOK
  <2> QED
    BY <2>1, NextCases, Returns DEF vars, Begin, KeepConnection, Dial, OpenChannel, Declare,
       CloseConnection, CloseChannel
<1>1. CASE UNCHANGED <<pc, use, m>>
  BY <1>0, <1>1 DEF CallsOK, ConnectsOnce
<1>2. ASSUME NEW c \in Callers, Begin(c) PROVE CallsOK' /\ ConnectsOnce'
  <2>1. PICK u \in uses : /\ use' = [use EXCEPT ![c] = u]
                          /\ Goto(c, IF u.kind = "push" THEN "declare" ELSE "connect")
    BY <1>2 DEF Begin
  <2>2. u \in Uses /\ m' = [m EXCEPT ![c] = shared]
    BY <1>0, <1>2 DEF Begin
  <2> QED
    BY <1>0, <2>1, <2>2 DEF CallsOK, ConnectsOnce, PairsOK, Goto
<1>3. ASSUME NEW c \in Callers, KeepConnection(c) \/ Dial(c) \/ OpenChannel(c) \/ Declare(c)
      PROVE  CallsOK' /\ ConnectsOnce'
  <2>1. /\ pc' \in [Callers -> Places] /\ use' = use
        /\ \A d \in Callers \ {c} : pc'[d] = pc[d] /\ m'[d] = m[d]
    BY <1>3 DEF KeepConnection, Dial, OpenChannel, Declare, Goto, CallsOK, PairsOK
  <2>2. /\ pc'[c] \in {"channel", "publish"} => m'[c] # 0
        /\ pc'[c] \in {"connect", "channel"} => pc[c] = "connect"
    <3>1. dials + 1 # 0  BY DEF PairsOK, Ids
    <3> QED
      BY <1>3, <3>1 DEF KeepConnection, Dial, OpenChannel, Declare, Goto, At, CallsOK, PairsOK, Usable
  <2> QED
    BY <1>0, <2>1, <2>2 DEF CallsOK, ConnectsOnce
<1>4. ASSUME NEW c \in Callers, NEW k, NEW err, Return(c, k, err)
      PROVE  CallsOK' /\ ConnectsOnce'
  BY <1>0, <1>4 DEF Return, Goto, CallsOK, PairsOK, ConnectsOnce
<1>5. ASSUME NEW k \in Ids, CloseConnection(k) \/ CloseChannel(k)
      PROVE  CallsOK' /\ ConnectsOnce'
  BY <1>1, <1>5 DEF CloseConnection, CloseChannel
<1> QED
  BY <1>1, <1>2, <1>3, <1>4, <1>5, NextCases, Returns DEF vars

\* Results stay of their type, and tell what happened to the message.
LEMMA ResultsKept ==
    ASSUME ResultsOK, NilMeansWritten, [Next]_vars PROVE ResultsOK' /\ NilMeansWritten'
<1>1. CASE UNCHANGED <<result, message>>
  BY <1>1 DEF ResultsOK, NilMeansWritten
<1>2. ASSUME NEW c \in Callers, Begin(c) PROVE ResultsOK' /\ NilMeansWritten'
  BY <1>2 DEF Begin, ResultsOK, NilMeansWritten
<1>3. ASSUME NEW c \in Callers, NEW err \in {"error", "panic"},
             result' = [result EXCEPT ![c] = err], UNCHANGED message
      PROVE  ResultsOK' /\ NilMeansWritten'
  BY <1>3 DEF ResultsOK, NilMeansWritten
<1>4. ASSUME NEW c \in Callers, NEW err \in {"nil", "error"},
             NEW text \in {"written", "unencodable"},
             result' = [result EXCEPT ![c] = err], message' = [message EXCEPT ![c] = text]
      PROVE  ResultsOK' /\ NilMeansWritten'
  BY <1>4 DEF ResultsOK, NilMeansWritten
<1>5. ASSUME NEW c \in Callers,
             DialFails(c) \/ OpenChannelFails(c) \/ DeclareFails(c) \/ DeclareOnNil(c)
             \/ PublishFails(c)
      PROVE  ResultsOK' /\ NilMeansWritten'
  BY <1>3, <1>5 DEF DialFails, OpenChannelFails, DeclareFails, DeclareOnNil, PublishFails, Return
<1>6. ASSUME NEW c \in Callers, MarshalFails(c) \/ Publish(c)
      PROVE  ResultsOK' /\ NilMeansWritten'
  BY <1>4, <1>6 DEF MarshalFails, Publish, Return
<1> QED
  BY <1>1, <1>2, <1>5, <1>6, NextCases DEF vars, KeepConnection, Dial, OpenChannel, Declare,
     CloseConnection, CloseChannel

\* The counters stay within their bounds.
LEMMA CountsKept ==
    ASSUME CountsOK, ArgsOK, [Next]_vars PROVE CountsOK' /\ ArgsOK'
<1> USE PublisherAssumption
<1>1. faults' = faults \/ Fault
  BY NextCases DEF vars, Begin, KeepConnection, Dial, OpenChannel, Declare, DialFails,
     OpenChannelFails, DeclareFails, DeclareOnNil, MarshalFails, Publish, PublishFails,
     CloseConnection, CloseChannel
<1>2. failures' = failures \/ (failures < MaxFailures /\ failures' = failures + 1)
  BY NextCases DEF vars, Begin, KeepConnection, Dial, OpenChannel, Declare, DialFails,
     OpenChannelFails, DeclareFails, DeclareOnNil, MarshalFails, Publish, PublishFails,
     CloseConnection, CloseChannel, Return
<1>3. args' = args \/ \E c \in Callers : args' = [args EXCEPT ![use[c].queue] = Args(use[c].kind)]
  BY NextCases DEF vars, Begin, KeepConnection, Dial, OpenChannel, Declare, DialFails,
     OpenChannelFails, DeclareFails, DeclareOnNil, MarshalFails, Publish, PublishFails,
     CloseConnection, CloseChannel, world
<1> QED
  BY <1>1, <1>2, <1>3 DEF CountsOK, ArgsOK, Fault, Args

-----------------------------------------------------------------------------
(* Who holds the open connections *)

\* Once a mishap, always a mishap.
LEMMA MishapKept ==
    ASSUME mishap \in BOOLEAN, [Next]_vars PROVE mishap' \in BOOLEAN /\ (mishap => mishap')
  BY NextCases, Zenon DEF vars, Begin, KeepConnection, Dial, OpenChannel, Declare, DialFails,
     OpenChannelFails, DeclareFails, DeclareOnNil, MarshalFails, Publish, PublishFails,
     CloseConnection, CloseChannel

\* A step that opens no connection and moves no call from its pair.
LEMMA HeldStays ==
    ASSUME Held, LinksOK, UNCHANGED shared,
           \A k \in Ids : conns'[k] = "open" => conns[k] = "open",
           \A c \in Callers : (Reconnecting(c)' <=> Reconnecting(c)) /\ m'[c] = m[c],
           shared \in {0} \cup Ids
    PROVE  Held'
  BY DEF Held, Alive

\* A call that returns k leaves nothing open but k: before a mishap it is the only
\* one that reconnects, and it gives its pair up only if that had closed.
LEMMA HeldReturns ==
    ASSUME Held, PairsOK, CallsOK, LinksOK, NEW c \in Callers, pc[c] # "idle",
           NEW k \in {0, m[c]}, NEW err \in {"nil", "error", "panic"}, Return(c, k, err),
           err = "panic" => m[c] = 0,
           Reconnecting(c) => k = m[c] \/ ~Alive(m[c]),
           \A j \in Ids : conns'[j] = "open" => conns[j] = "open"
    PROVE  Held'
<1>0. m[c] \in {0} \cup Ids /\ shared \in {0} \cup Ids
  BY PublisherAssumption DEF PairsOK, Ids
<1>1. /\ pc' = [pc EXCEPT ![c] = "idle"] /\ m' = [m EXCEPT ![c] = 0]
      /\ use' = [use EXCEPT ![c] = NoUse]
  BY DEF Return, Goto
<1>2. \A d \in Callers \ {c} : (Reconnecting(d)' <=> Reconnecting(d)) /\ m'[d] = m[d]
  BY <1>1 DEF Reconnecting, CallsOK, PairsOK
<1>3. ~Reconnecting(c)'
  BY <1>1 DEF Reconnecting, CallsOK
<1>4. CASE ~Reconnecting(c)
  <2>1. UNCHANGED shared
    BY <1>4 DEF Return, Reconnecting
  <2>2. \A d \in Callers : Reconnecting(d)' <=> Reconnecting(d)
    BY <1>2, <1>3, <1>4
  <2>3. \A d \in Callers : Reconnecting(d) => m'[d] = m[d]
    BY <1>2, <1>4
  <2>4. Alive(shared)' => Alive(shared)
    BY <1>0, <2>1 DEF Alive
  <2> QED  BY <2>1, <2>2, <2>3, <2>4 DEF Held
<1>5. CASE Reconnecting(c)
  <2>1. \A d \in Callers : ~Reconnecting(d)'
    BY <1>2, <1>3, <1>5 DEF Held
  <2>2. \A j \in Ids : conns[j] = "open" => j = m[c]
    BY <1>0, <1>5 DEF Held, Alive, Ids
  <2>3. \A j \in Ids : conns'[j] = "open" => j = m[c] /\ k = m[c] /\ err # "panic"
    BY <1>0, <1>5, <2>2 DEF Alive, Ids
  <2>4. err # "panic" => shared' = k
    BY <1>5 DEF Return, Reconnecting
  <2> QED  BY <2>1, <2>3, <2>4 DEF Held
<1> QED
  BY <1>4, <1>5

\* Until a mishap, every open connection is held by somebody.
LEMMA HeldKept ==
    ASSUME PairsOK, CallsOK, LinksOK, ConnectsOnce, Held, [Next]_vars, mishap \in BOOLEAN, ~mishap'
    PROVE  Held'
<1>0. shared \in {0} \cup Ids /\ dials \in Nat
  BY PublisherAssumption DEF PairsOK, Ids
<1>1. CASE UNCHANGED <<shared, conns, pc, use, m>>
  BY <1>0, <1>1, HeldStays DEF Reconnecting
<1>2. ASSUME NEW c \in Callers, Begin(c) PROVE Held'
  <2>1. PICK u \in uses : /\ use' = [use EXCEPT ![c] = u]
                          /\ pc' = [pc EXCEPT ![c] = IF u.kind = "push" THEN "declare" ELSE "connect"]
                          /\ mishap' = (mishap \/ (u.kind # "push" /\ \E d \in Callers : Reconnecting(d)))
    BY <1>2 DEF Begin, Goto
  <2>2. m' = [m EXCEPT ![c] = shared] /\ UNCHANGED <<shared, conns>> /\ pc[c] = "idle"
    BY <1>2 DEF Begin, At, world
  <2>3. \A d \in Callers \ {c} : (Reconnecting(d)' <=> Reconnecting(d)) /\ m'[d] = m[d]
    BY <2>1, <2>2 DEF Reconnecting, CallsOK, PairsOK
  <2>4. ~Reconnecting(c) /\ m'[c] = shared
    BY <2>2 DEF Reconnecting, PairsOK
  <2>5. Reconnecting(c)' => \A d \in Callers : ~Reconnecting(d)
    BY <2>1 DEF Reconnecting, CallsOK
  <2>6. Alive(shared)' <=> Alive(shared)
    BY <2>2 DEF Alive
  <2> QED
    BY <2>2, <2>3, <2>4, <2>5, <2>6 DEF Held
<1>3. ASSUME NEW c \in Callers, KeepConnection(c) \/ OpenChannel(c) \/ Declare(c) PROVE Held'
  <2>1. UNCHANGED <<shared, conns, use, m>>
    BY <1>3 DEF KeepConnection, OpenChannel, Declare, world
  <2>2. pc[c] # "idle" /\ pc'[c] # "idle" /\ \A d \in Callers \ {c} : pc'[d] = pc[d]
    BY <1>3 DEF KeepConnection, OpenChannel, Declare, CallsOK, Goto, At
  <2> QED
    BY <1>0, <2>1, <2>2, HeldStays DEF Reconnecting
<1>4. ASSUME NEW c \in Callers, Dial(c) PROVE Held'
  <2>1. /\ conns' = [conns EXCEPT ![dials + 1] = "open"] /\ m' = [m EXCEPT ![c] = dials + 1]
        /\ pc' = [pc EXCEPT ![c] = "channel"] /\ UNCHANGED <<shared, use>>
        /\ ~Alive(m[c]) /\ pc[c] = "connect"
    BY <1>4 DEF Dial, Goto, At
  <2>2. \A d \in Callers : Reconnecting(d)' <=> Reconnecting(d)
    BY <2>1 DEF Reconnecting, CallsOK
  <2>3. Reconnecting(c)
    BY <2>1 DEF Reconnecting, ConnectsOnce
  <2>4. \A k \in Ids : k # dials + 1 => conns'[k] = conns[k]
    BY <2>1 DEF LinksOK
  <2>5. shared # dials + 1
    BY <1>0 DEF PairsOK
  <2>6. ~Alive(shared)
    BY <2>1, <2>3 DEF Held
  <2>7. ~Alive(shared)'
    BY <1>0, <2>1, <2>4, <2>5, <2>6 DEF Alive
  <2>8. m'[c] = dials + 1
    BY <2>1 DEF PairsOK
  <2>9. ASSUME NEW k \in Ids, conns'[k] = "open"
        PROVE  k = shared' \/ \E d \in Callers : Reconnecting(d)' /\ m'[d] = k
    <3>1. CASE k = dials + 1  BY <2>2, <2>3, <2>8, <3>1
    <3>2. CASE k # dials + 1
      <4>1. conns[k] = "open" /\ k # 0  BY <2>4, <2>9, <3>2 DEF Ids
      <4>2. k # m[c] /\ k # shared  BY <2>1, <2>6, <4>1 DEF Alive
      <4> QED  BY <2>3, <4>1, <4>2 DEF Held
    <3> QED  BY <3>1, <3>2
  <2> QED
    BY <2>1, <2>2, <2>7, <2>9 DEF Held
<1>5. ASSUME NEW c \in Callers, DialFails(c) PROVE Held'
  <2>1. /\ Return(c, 0, "error") /\ UNCHANGED conns /\ ~Alive(m[c]) /\ pc[c] # "idle"
    BY <1>5 DEF DialFails, At, world
  <2> QED  BY <2>1, HeldReturns
<1>6. ASSUME NEW c \in Callers, OpenChannelFails(c) PROVE Held'
  <2>1. /\ Return(c, 0, "error") /\ UNCHANGED conns /\ ~Alive(m[c]) /\ pc[c] # "idle"
    BY <1>6 DEF OpenChannelFails, At, world
  <2> QED  BY <2>1, HeldReturns
<1>7. ASSUME NEW c \in Callers, DeclareFails(c) PROVE Held'
  <2>1. /\ Return(c, 0, "error") /\ UNCHANGED conns /\ pc[c] # "idle"
        /\ Reconnecting(c) => ~Alive(m[c])
    BY <1>7 DEF DeclareFails, GivesUp, Reconnecting, At
  <2> QED  BY <2>1, HeldReturns
<1>8. ASSUME NEW c \in Callers, DeclareOnNil(c) PROVE Held'
  <2>1. /\ Return(c, 0, "panic") /\ UNCHANGED conns /\ m[c] = 0 /\ pc[c] # "idle"
    BY <1>8 DEF DeclareOnNil, At, world
  <2> QED  BY <2>1, HeldReturns
<1>9. ASSUME NEW c \in Callers, MarshalFails(c) PROVE Held'
  <2>1. /\ Return(c, 0, IF use[c].kind = "push" THEN "error" ELSE "nil")
        /\ UNCHANGED conns /\ pc[c] # "idle"
        /\ Reconnecting(c) => ~Alive(m[c])
    BY <1>9 DEF MarshalFails, GivesUp, Reconnecting, At, world
  <2> QED  BY <2>1, HeldReturns
<1>10. ASSUME NEW c \in Callers, Publish(c) \/ PublishFails(c) PROVE Held'
  <2>1. \A j \in Ids : conns'[j] = "open" => conns[j] = "open"
    BY <1>10 DEF Publish, PublishFails, world, LinksOK
  <2>2. pc[c] # "idle" /\ (Return(c, m[c], "nil") \/ Return(c, m[c], "error"))
    BY <1>10 DEF Publish, PublishFails, At
  <2> QED  BY <2>1, <2>2, HeldReturns
<1>11. ASSUME NEW k \in Ids, CloseConnection(k) \/ CloseChannel(k) PROVE Held'
  <2>1. UNCHANGED <<shared, pc, use, m>>
        /\ \A j \in Ids : conns'[j] = "open" => conns[j] = "open"
    BY <1>11 DEF CloseConnection, CloseChannel, LinksOK
  <2> QED  BY <1>0, <2>1, HeldStays DEF Reconnecting
<1> QED
  BY <1>1, <1>2, <1>3, <1>4, <1>5, <1>6, <1>7, <1>8, <1>9, <1>10, <1>11, NextCases DEF vars

-----------------------------------------------------------------------------
(* Theorems *)

\* The invariant holds before the first call.
LEMMA InitInv == ASSUME Init PROVE PublisherInv
<1>1. /\ PairsOK /\ LinksOK /\ CallsOK /\ ResultsOK /\ CountsOK /\ ArgsOK
      /\ ConnectsOnce /\ NilMeansWritten
  BY PublisherAssumption
     DEF Init, PairsOK, LinksOK, CallsOK, ResultsOK, CountsOK, ArgsOK, ConnectsOnce,
         NilMeansWritten, Ids, NoUse, Places
<1>2. mishap = FALSE /\ mishap \in BOOLEAN
  BY Zenon DEF Init
<1>3. Held
  BY DEF Init, Held, Reconnecting, Ids
<1>4. DialsLeft
  <2>1. Connecting = {}
    BY DEF Init, Connecting
  <2> QED
    BY <2>1, FS_EmptySet, PublisherAssumption DEF Init, DialsLeft
<1> QED
  BY <1>1, <1>2, <1>3, <1>4, TypeParts DEF PublisherInv

\* Every step preserves the invariant.
LEMMA StepInv == ASSUME PublisherInv, [Next]_vars PROVE PublisherInv'
<1>1. /\ PairsOK /\ LinksOK /\ CallsOK /\ ResultsOK /\ CountsOK /\ ArgsOK
      /\ mishap \in BOOLEAN
  BY TypeParts, Zenon DEF PublisherInv
<1>2. DialsLeft /\ ConnectsOnce /\ NilMeansWritten /\ (mishap \/ Held)
  BY Zenon DEF PublisherInv
<1>3. PairsOK' /\ LinksOK' /\ DialsLeft'
  BY <1>1, <1>2, PairsKept, LinksKept, DialsKept
<1>4. CallsOK' /\ ConnectsOnce' /\ ResultsOK' /\ NilMeansWritten' /\ CountsOK' /\ ArgsOK'
  BY <1>1, <1>2, CallsKept, ResultsKept, CountsKept
<1>5. mishap' \in BOOLEAN /\ (mishap' \/ Held')
  BY <1>1, <1>2, MishapKept, HeldKept, Zenon
<1>6. TypeOK' <=> /\ PairsOK' /\ LinksOK' /\ CallsOK' /\ ResultsOK' /\ CountsOK' /\ ArgsOK'
                  /\ mishap' \in BOOLEAN
  BY Zenon DEF TypeOK, PairsOK, LinksOK, CallsOK, ResultsOK, CountsOK, ArgsOK
<1> QED
  BY <1>3, <1>4, <1>5, <1>6, Zenon DEF PublisherInv

\* The inductive invariant holds in every reachable state.
THEOREM PublisherInvariance == Spec => []PublisherInv
  BY InitInv, StepInv, PTL DEF Spec

\* Every state is of its type: no call opens a channel or publishes on nil, and
\* no more connections are made than calls were given.
THEOREM PublisherTypes == Spec => []TypeOK
<1>1. PublisherInv => TypeOK
  BY DEF PublisherInv
<1> QED
  BY <1>1, PublisherInvariance, PTL

\* No error is swallowed, across any number of reconnects: a call that returns nil
\* had its message written, but for data JSON cannot express (amqp.go:33-160).
THEOREM NilsMeanWritten == Spec => []NilMeansWritten
<1>1. PublisherInv => NilMeansWritten
  BY DEF PublisherInv
<1> QED
  BY <1>1, PublisherInvariance, PTL

\* Without a call that gave up an open pair, and without two that reconnected at
\* the same time, no connection is ever out of reach.
THEOREM LeaksAreExplained == Spec => []LeaksExplained
<1>1. ASSUME PublisherInv PROVE LeaksExplained
  BY <1>1 DEF PublisherInv, Held, LeaksExplained, Abandoned
<1> QED
  BY <1>1, PublisherInvariance, PTL

-----------------------------------------------------------------------------
(* What a fault can cost.  The number of failures that are still to come with   *)
(* no further fault is bounded by what can be read off a state: every call that *)
(* works with a dead pair fails once; while the shared pair is a dead channel   *)
(* on a live connection, everybody else may begin on it, and fail; and a call   *)
(* that fails to publish shares its pair once more.                             *)

Slots == Cardinality(Callers)

\* Will the call fail, whatever else happens?
Fails(c) ==
    /\ Reconnecting(c)
    /\ IF At(c, "channel") THEN ~Alive(m[c]) ELSE ~Usable(m[c])
    /\ At(c, "connect") => Alive(m[c])

Failing == {c \in Callers : Fails(c)}

\* The calls that share their dead pair again when they fail.
Storing == {c \in Failing : At(c, "publish")}

\* The shared pair is one that calls neither replace nor can use.
Baited == Alive(shared) /\ ~Usable(shared)

\* Twice the failures to come: the j-th store from the last finds all callers but
\* the j - 1 that are still to store free to begin on the dead pair.
Exposed == IF Baited THEN Slots ELSE Cardinality(Failing)
Stores(p) == p * (2 * Slots - p + 1)
Risk == 2 * Exposed + Stores(Cardinality(Storing))

\* The broker's arguments of a queue are those of a use the program makes of it.
DeclaredByUses ==
    /\ \A c \in Callers : pc[c] # "idle" => use[c] \in uses
    /\ \A q \in Queues : args[q] # "absent" =>
          \E u \in uses : u.queue = q /\ args[q] = Args(u.kind)

RiskCovered == Compatible(uses) => 2 * failures + Risk <= faults * (Slots * (Slots + 3))

\* The sets that are counted are finite.
LEMMA CallersCounted ==
    /\ Slots \in Nat /\ Cardinality(Failing) \in 0..Slots
    /\ Cardinality(Storing) \in 0..Cardinality(Failing)
    /\ IsFiniteSet(Failing) /\ IsFiniteSet(Storing)
<1>1. IsFiniteSet(Callers) /\ Failing \subseteq Callers /\ Storing \subseteq Failing
  BY PublisherAssumption DEF Failing, Storing
<1>2. IsFiniteSet(Failing) /\ IsFiniteSet(Storing)
  BY <1>1, FS_Subset
<1>3. /\ Slots \in Nat /\ Cardinality(Failing) \in Nat /\ Cardinality(Storing) \in Nat
      /\ Cardinality(Failing) <= Slots /\ Cardinality(Storing) <= Cardinality(Failing)
  BY <1>1, <1>2, FS_Subset, FS_CardinalityType DEF Slots
<1> QED
  BY <1>2, <1>3

\* More calls that store are worth more, as long as there are that many callers.
LEMMA StoresGrow ==
    ASSUME NEW p \in 0..Slots, NEW q \in 0..p
    PROVE  Stores(p) \in Nat /\ Stores(q) <= Stores(p)
<1>1. PICK a \in Nat, b \in Nat : p = q + a /\ Slots = p + b
  <2>1. Slots \in Nat /\ p - q \in Nat /\ Slots - p \in Nat
    BY CallersCounted
  <2> QED
    BY <2>1
<1>2. 2 * Slots - p + 1 = q + a + 2 * b + 1 /\ 2 * Slots - q + 1 = q + 2 * a + 2 * b + 1
  BY <1>1
<1>3. Stores(p) = (q + a) * (q + a + 2 * b + 1) /\ Stores(q) = q * (q + 2 * a + 2 * b + 1)
  BY <1>1, <1>2 DEF Stores
<1>4. (q + a) * (q + a + 2 * b + 1) = q * (q + 2 * a + 2 * b + 1) + a * (a + 2 * b + 1)
  BY <1>1
<1>5. a * (a + 2 * b + 1) \in Nat /\ q * (q + 2 * a + 2 * b + 1) \in Nat
  BY <1>1
<1> QED
  BY <1>3, <1>4, <1>5

\* All callers together cannot be more of a risk than a fault is charged with.
LEMMA RiskAtMost == Risk \in Nat /\ Risk <= Slots * (Slots + 3)
<1>1. Exposed \in 0..Slots
  BY CallersCounted DEF Exposed
<1>2. Stores(Cardinality(Storing)) \in Nat /\ Stores(Cardinality(Storing)) <= Stores(Slots)
  BY CallersCounted, StoresGrow
<1>3. Stores(Slots) = Slots * (Slots + 1)
  BY CallersCounted DEF Stores
<1>4. Slots * (Slots + 3) = Slots * (Slots + 1) + 2 * Slots
  BY CallersCounted
<1> QED
  BY <1>1, <1>2, <1>3, <1>4, CallersCounted DEF Risk

RiskNoMore == Risk' <= Risk
RiskLess == Risk' + 2 <= Risk

\* Fewer calls that fail or store, and no new bait: no more of a risk.
LEMMA RiskStays ==
    ASSUME Failing' \subseteq Failing, Storing' \subseteq Storing, Baited' => Baited
    PROVE  RiskNoMore
<1>1. Cardinality(Failing') <= Cardinality(Failing) /\ Cardinality(Storing') <= Cardinality(Storing)
      /\ Cardinality(Failing') \in Nat /\ Cardinality(Storing') \in Nat
  BY CallersCounted, FS_Subset, FS_CardinalityType
<1>2. Exposed' <= Exposed /\ Exposed \in Nat /\ Exposed' \in Nat
  BY <1>1, CallersCounted DEF Exposed, Slots
<1>3. Stores(Cardinality(Storing')) <= Stores(Cardinality(Storing))
      /\ Stores(Cardinality(Storing)) \in Nat
  BY <1>1, CallersCounted, StoresGrow
<1>4. Stores(Cardinality(Storing')) \in Nat
  BY <1>1, CallersCounted, StoresGrow
<1>5. Risk' = 2 * Exposed' + Stores(Cardinality(Storing'))
  BY DEF Risk, Stores, Slots
<1> QED
  BY <1>2, <1>3, <1>4, <1>5 DEF Risk, RiskNoMore

\* A call that fails for its dead pair takes its failure with it, and leaves
\* the risk of those that have yet to store.
LEMMA RiskDrops ==
    ASSUME NEW c \in Failing, Failing' = Failing \ {c}, Storing' = Storing \ {c},
           c \in Storing \/ ~Baited'
    PROVE  RiskLess
<1>1. Cardinality(Failing') = Cardinality(Failing) - 1
  BY CallersCounted, FS_RemoveElement
<1>2. Stores(Cardinality(Storing)) \in Nat
  BY CallersCounted, StoresGrow
<1>3. Risk' = 2 * Exposed' + Stores(Cardinality(Storing'))
  BY DEF Risk, Stores, Slots
<1>4. Exposed >= Cardinality(Failing)
  BY CallersCounted DEF Exposed
<1>5. CASE c \in Storing
  <2>1. PICK p \in 1..Slots : p = Cardinality(Storing) /\ p <= Cardinality(Failing)
    <3>1. Cardinality(Storing) # 0
      BY <1>5, CallersCounted, FS_EmptySet
    <3> QED
      BY <3>1, CallersCounted
  <2>2. Cardinality(Storing') = p - 1
    BY <1>5, <2>1, CallersCounted, FS_RemoveElement
  <2>3. Stores(p) = Stores(p - 1) + 2 * (Slots - p + 1)
    <3>1. PICK b \in Nat : Slots = p + b
      <4>1. Slots - p \in Nat  BY CallersCounted
      <4> QED  BY <4>1, CallersCounted
    <3>2. 2 * Slots - p + 1 = p + 2 * b + 1 /\ 2 * Slots - (p - 1) + 1 = p + 2 * b + 2
      BY <3>1
    <3>3. Stores(p) = p * (p + 2 * b + 1) /\ Stores(p - 1) = (p - 1) * (p + 2 * b + 2)
      BY <3>2 DEF Stores
    <3>4. p * (p + 2 * b + 1) = (p - 1) * (p + 2 * b + 2) + 2 * (b + 1)
      BY <3>1
    <3> QED  BY <3>1, <3>3, <3>4
  <2>4. Exposed' <= Slots /\ Exposed' \in Nat
    BY <1>1, <2>1, CallersCounted DEF Exposed, Slots
  <2>5. Stores(p - 1) \in Nat
    BY CallersCounted, StoresGrow
  <2> QED
    BY <1>3, <1>4, <2>1, <2>2, <2>3, <2>4, <2>5, CallersCounted DEF Risk, RiskLess, Exposed
<1>6. CASE c \notin Storing /\ ~Baited'
  <2>1. Stores(Cardinality(Storing')) = Stores(Cardinality(Storing))
    BY <1>6
  <2>2. Exposed' = Cardinality(Failing) - 1
    BY <1>1, <1>6 DEF Exposed
  <2>3. Exposed \in Nat
    BY CallersCounted DEF Exposed
  <2> QED
    BY <1>2, <1>3, <1>4, <2>1, <2>2, <2>3, CallersCounted DEF Risk, RiskLess
<1> QED
  BY <1>5, <1>6

\* A call that ends without touching the connections is no longer counted; no
\* other call is affected.
LEMMA EndOfCall ==
    ASSUME PairsOK, CallsOK, NEW c \in Callers, pc[c] # "idle", NEW k, NEW err, Return(c, k, err),
           UNCHANGED <<conns, chans>>
    PROVE  Failing' = Failing \ {c} /\ Storing' = Storing \ {c}
<1>1. pc' = [pc EXCEPT ![c] = "idle"] /\ m' = [m EXCEPT ![c] = 0] /\ use' = [use EXCEPT ![c] = NoUse]
  BY DEF Return, Goto
<1>2. ~Reconnecting(c)'
  BY <1>1 DEF Reconnecting, CallsOK
<1>3. \A d \in Callers \ {c} : pc'[d] = pc[d] /\ m'[d] = m[d] /\ use'[d] = use[d]
  BY <1>1 DEF CallsOK, PairsOK
<1>4. \A d \in Callers \ {c} : (Fails(d)' <=> Fails(d)) /\ (At(d, "publish")' <=> At(d, "publish"))
  BY <1>3 DEF Fails, Reconnecting, At, Alive, Usable
<1> QED
  BY <1>2, <1>4 DEF Failing, Storing, Fails

\* What a step does to the count of failures and to the risk.
Costless == faults' = faults /\ failures' = failures /\ RiskNoMore
Earned == faults' = faults /\ failures' \in {failures, failures + 1} /\ RiskLess
Struck == faults' = faults + 1 /\ failures' = failures
StruckAtOnce == faults' = faults + 1 /\ failures' \in {failures, failures + 1} /\ RiskNoMore

\* The functions of a program that declares its queues alike never disagree with
\* the broker.
LEMMA DeclaredAlike ==
    ASSUME CallsOK, ArgsOK, DeclaredByUses, Compatible(uses), NEW c \in Callers, pc[c] # "idle"
    PROVE  args[use[c].queue] \in {"absent", Args(use[c].kind)}
<1>1. use[c] \in uses /\ use[c].queue \in Queues
  BY PublisherAssumption DEF DeclaredByUses, CallsOK, Uses
<1> QED
  BY <1>1 DEF DeclaredByUses, Compatible

\* Nobody begins on a pair that does not work, but on the bait; and then the caller
\* was counted before.
LEMMA BeginCosts ==
    ASSUME PairsOK, CallsOK, NEW c \in Callers, Begin(c) PROVE Costless
<1>1. /\ pc[c] = "idle" /\ pc'[c] \in {"connect", "declare"} /\ m'[c] = shared
      /\ \A d \in Callers \ {c} : pc'[d] = pc[d] /\ m'[d] = m[d] /\ use'[d] = use[d]
      /\ UNCHANGED <<conns, chans, shared, faults, failures>>
      /\ pc'[c] = "declare" => use'[c].kind = "push"
  BY DEF Begin, At, Goto, PairsOK, CallsOK, world
<1>2. \A d \in Callers \ {c} : (Fails(d)' <=> Fails(d)) /\ (At(d, "publish")' <=> At(d, "publish"))
  BY <1>1 DEF Fails, Reconnecting, At, Alive, Usable
<1>3. Baited' <=> Baited
  BY <1>1 DEF Baited, Alive, Usable
<1>4. Storing' = Storing
  BY <1>1, <1>2 DEF Storing, Failing, At, Fails, Reconnecting
<1>5. CASE Baited
  <2>1. Exposed' = Exposed
    BY <1>3, <1>5 DEF Exposed, Slots
  <2>2. Risk' = Risk
    BY <1>4, <2>1 DEF Risk, Stores, Slots
  <2> QED
    BY <1>1, <2>2, RiskAtMost DEF Costless, RiskNoMore
<1>6. CASE ~Baited
  <2>1. ~Fails(c)'
    BY <1>1, <1>6 DEF Fails, Reconnecting, At, Alive, Usable, Baited
  <2>2. Failing' \subseteq Failing
    BY <1>2, <2>1 DEF Failing
  <2>3. RiskNoMore
    BY <1>3, <1>4, <2>2, RiskStays
  <2> QED
    BY <1>1, <2>3 DEF Costless
<1> QED
  BY <1>5, <1>6

\* A call that goes on is not at risk where it goes unless it was before.
LEMMA GoingOnCosts ==
    ASSUME PairsOK, CallsOK, LinksOK, NEW c \in Callers, dials' \in Ids,
           KeepConnection(c) \/ Dial(c) \/ OpenChannel(c) \/ Declare(c)
    PROVE  Costless
<1>0. dials \in Nat /\ dials + 1 # 0 /\ shared # dials + 1 /\ \A d \in Callers : m[d] # dials + 1
  BY PublisherAssumption DEF PairsOK, Ids
<1>1. /\ UNCHANGED <<shared, use, faults, failures>>
      /\ \A d \in Callers \ {c} : pc'[d] = pc[d] /\ m'[d] = m[d]
  BY DEF KeepConnection, Dial, OpenChannel, Declare, Goto, PairsOK, CallsOK, world
<1>2. /\ \A k \in Ids \cup {0} : k # dials + 1 => (Alive(k)' <=> Alive(k))
      /\ \A k \in Ids \cup {0} : Usable(k) => Usable(k)'
  BY DEF KeepConnection, Dial, OpenChannel, Declare, LinksOK, Alive, Usable, world
<1>3. shared \in Ids \cup {0} /\ \A d \in Callers : m[d] \in Ids \cup {0}
  BY PublisherAssumption DEF PairsOK, Ids
<1>4. Baited' => Baited
  <2>1. Alive(shared)' => Alive(shared)
    BY <1>0, <1>1, <1>2, <1>3 DEF Alive
  <2>2. Usable(shared) => Usable(shared)'
    BY <1>1, <1>2, <1>3 DEF Usable
  <2> QED
    BY <2>1, <2>2 DEF Baited
<1>5. ASSUME NEW d \in Callers \ {c}, Fails(d)' PROVE Fails(d)
  <2>1. (Alive(m[d])' <=> Alive(m[d])) /\ (Usable(m[d]) => Usable(m[d])')
    BY <1>0, <1>1, <1>2, <1>3 DEF Alive, Usable
  <2> QED
    BY <1>1, <1>5, <2>1 DEF Fails, Reconnecting, At
<1>6. Fails(c)' => Fails(c) /\ ~At(c, "publish")'
  <2>1. CASE KeepConnection(c)
    <3>1. /\ pc[c] = "connect" /\ Alive(m[c]) /\ pc'[c] = "declare" /\ m'[c] = m[c]
          /\ UNCHANGED <<conns, chans, use>>
      BY <2>1 DEF KeepConnection, Goto, At, CallsOK, world
    <3> QED
      BY <3>1 DEF Fails, Reconnecting, At, Alive, Usable
  <2>2. CASE Dial(c)
    <3>1. m'[c] = dials + 1 /\ pc'[c] = "channel" /\ conns'[dials + 1] = "open"
      BY <2>2 DEF Dial, Goto, CallsOK, PairsOK, LinksOK
    <3> QED
      BY <1>0, <3>1 DEF Fails, At, Alive
  <2>3. CASE OpenChannel(c)
    <3>1. m'[c] = m[c] /\ pc'[c] = "declare" /\ chans'[m[c]] = "open" /\ m[c] # 0
      BY <1>3, <2>3 DEF OpenChannel, Goto, CallsOK, LinksOK, Alive
    <3> QED
      BY <3>1 DEF Fails, At, Usable
  <2>4. CASE Declare(c)
    <3>1. m'[c] = m[c] /\ pc'[c] = "publish" /\ Usable(m[c]) /\ UNCHANGED chans
      BY <2>4 DEF Declare, Goto, CallsOK
    <3> QED
      BY <3>1 DEF Fails, At, Usable
  <2> QED
    BY <2>1, <2>2, <2>3, <2>4
<1>7. Failing' \subseteq Failing /\ Storing' \subseteq Storing
  BY <1>1, <1>5, <1>6 DEF Failing, Storing, At
<1> QED
  BY <1>1, <1>4, <1>7, RiskStays DEF Costless

\* A call that ends with no fault fails only if it was counted; one that a fault
\* ends stores nil, and leaves the rest as it was.
LEMMA EndingCosts ==
    ASSUME PairsOK, CallsOK, CountsOK, ArgsOK, DeclaredByUses, Compatible(uses), NEW c \in Callers,
           DialFails(c) \/ OpenChannelFails(c) \/ DeclareFails(c) \/ DeclareOnNil(c)
           \/ MarshalFails(c) \/ Publish(c) \/ PublishFails(c)
    PROVE  Costless \/ Earned \/ Struck \/ StruckAtOnce
<1>0. failures \in Nat /\ faults \in Nat
  BY PublisherAssumption DEF CountsOK
<1>1. ASSUME NEW k \in {0, m[c]}, NEW err \in {"nil", "error", "panic"}, Return(c, k, err)
      PROVE  /\ failures' \in {failures, failures + 1}
             /\ err # "error" \/ use[c].kind = "push" => failures' = failures
             /\ use[c].kind = "push" \/ err = "panic" => shared' = shared
             /\ ~(use[c].kind = "push" \/ err = "panic") => shared' = k
  BY <1>1 DEF Return
<1>2. ASSUME NEW k \in {0, m[c]}, NEW err \in {"nil", "error", "panic"}, Return(c, k, err),
             UNCHANGED <<conns, chans>>, pc[c] # "idle"
      PROVE  /\ Failing' = Failing \ {c} /\ Storing' = Storing \ {c}
             /\ (k = 0 \/ Usable(k) \/ use[c].kind = "push" \/ err = "panic") => (Baited' => Baited)
             /\ (k = 0 \/ Usable(k) \/ use[c].kind = "push" \/ err = "panic") => RiskNoMore
             /\ (k = 0 /\ use[c].kind # "push" /\ err # "panic") => ~Baited'
  <2>1. Failing' = Failing \ {c} /\ Storing' = Storing \ {c}
    BY <1>2, EndOfCall
  <2>2. (k = 0 \/ Usable(k) \/ use[c].kind = "push" \/ err = "panic") => (Baited' => Baited)
    BY <1>1, <1>2 DEF Baited, Alive, Usable
  <2>3. (k = 0 /\ use[c].kind # "push" /\ err # "panic") => ~Baited'
    BY <1>1, <1>2 DEF Baited, Alive
  <2>4. (Baited' => Baited) => RiskNoMore
    BY <2>1, RiskStays
  <2> QED
    BY <2>1, <2>2, <2>3, <2>4
<1>3. CASE DialFails(c)
  <2>1. Return(c, 0, "error") /\ faults' = faults + 1 /\ UNCHANGED <<conns, chans>> /\ pc[c] # "idle"
    BY <1>3 DEF DialFails, Fault, At, world
  <2>2. RiskNoMore /\ failures' \in {failures, failures + 1}
    BY <1>1, <1>2, <2>1
  <2> QED
    BY <2>1, <2>2 DEF StruckAtOnce
<1>4. CASE OpenChannelFails(c)
  <2>1. Return(c, 0, "error") /\ UNCHANGED <<conns, chans>> /\ pc[c] = "channel"
    BY <1>4 DEF OpenChannelFails, At, world
  <2>2. RiskNoMore /\ failures' \in {failures, failures + 1}
    BY <1>1, <1>2, <2>1
  <2>3. CASE faults' = faults + 1
    BY <2>2, <2>3 DEF StruckAtOnce
  <2>4. CASE ~Alive(m[c]) /\ faults' = faults
    <3>1. CASE use[c].kind = "push"
      BY <1>1, <2>1, <2>2, <2>4, <3>1 DEF Costless
    <3>2. CASE use[c].kind # "push"
      <4>1. c \in Failing
        BY <2>1, <2>4, <3>2 DEF Failing, Fails, Reconnecting, At
      <4>2. RiskLess
        BY <1>2, <2>1, <3>2, <4>1, RiskDrops
      <4> QED
        BY <2>2, <2>4, <4>2 DEF Earned
    <3> QED
      BY <3>1, <3>2
  <2> QED
    BY <1>4, <2>3, <2>4 DEF OpenChannelFails, Fault
<1>5. CASE DeclareFails(c)
  <2>1. Return(c, 0, "error") /\ pc[c] = "declare" /\ faults' = faults
    BY <1>5 DEF DeclareFails, At
  <2>2. ~Usable(m[c]) /\ UNCHANGED <<conns, chans>>
    BY <1>5, <2>1, DeclaredAlike DEF DeclareFails
  <2>3. RiskNoMore /\ failures' \in {failures, failures + 1}
    BY <1>1, <1>2, <2>1, <2>2
  <2>4. CASE use[c].kind = "push"
    BY <1>1, <2>1, <2>3, <2>4 DEF Costless
  <2>5. CASE use[c].kind # "push"
    <3>1. c \in Failing
      BY <2>1, <2>2, <2>5 DEF Failing, Fails, Reconnecting, At
    <3>2. RiskLess
      BY <1>2, <2>1, <2>2, <2>5, <3>1, RiskDrops
    <3> QED
      BY <2>1, <2>3, <3>2 DEF Earned
  <2> QED
    BY <2>4, <2>5
<1>6. CASE DeclareOnNil(c)
  <2>1. /\ Return(c, 0, "panic") /\ pc[c] # "idle" /\ faults' = faults
        /\ UNCHANGED <<conns, chans>>
    BY <1>6 DEF DeclareOnNil, At, world
  <2> QED
    BY <1>1, <1>2, <2>1 DEF Costless
<1>7. CASE MarshalFails(c)
  <2>1. faults' = faults + 1 /\ Return(c, 0, IF use[c].kind = "push" THEN "error" ELSE "nil")
    BY <1>7 DEF MarshalFails, Fault
  <2> QED
    BY <1>1, <2>1 DEF Struck
<1>8. CASE Publish(c)
  <2>1. Return(c, m[c], "nil") /\ pc[c] # "idle" /\ Usable(m[c]) /\ failures' = failures
    BY <1>1, <1>8 DEF Publish, At
  <2>2. CASE faults' = faults + 1
    BY <2>1, <2>2 DEF Struck
  <2>3. CASE UNCHANGED <<conns, chans, faults>>
    BY <1>2, <2>1, <2>3 DEF Costless
  <2> QED
    BY <1>8, <2>2, <2>3 DEF Publish, Fault
<1>9. CASE PublishFails(c)
  <2>1. /\ Return(c, m[c], "error") /\ pc[c] = "publish" /\ faults' = faults
        /\ UNCHANGED <<conns, chans>> /\ ~Usable(m[c])
    BY <1>9 DEF PublishFails, At, world
  <2>2. CASE use[c].kind = "push"
    BY <1>1, <1>2, <2>1, <2>2 DEF Costless
  <2>3. CASE use[c].kind # "push"
    <3>1. c \in Failing /\ c \in Storing
      BY <2>1, <2>3 DEF Failing, Storing, Fails, Reconnecting, At
    <3>2. RiskLess
      BY <1>2, <2>1, <3>1, RiskDrops
    <3> QED
      BY <1>1, <2>1, <3>2 DEF Earned
  <2> QED
    BY <2>2, <2>3
<1> QED
  BY <1>3, <1>4, <1>5, <1>6, <1>7, <1>8, <1>9

\* The uses of a program are settled when it starts, and a queue is declared with
\* the arguments of one of them.
LEMMA DeclaredKept ==
    ASSUME PairsOK, CallsOK, ArgsOK, DeclaredByUses, [Next]_vars PROVE DeclaredByUses' /\ uses' = uses
<1>1. uses' = uses
  BY NextCases DEF vars, Begin, KeepConnection, Dial, OpenChannel, Declare, DialFails,
     OpenChannelFails, DeclareFails, DeclareOnNil, MarshalFails, Publish, PublishFails,
     CloseConnection, CloseChannel
<1>2. \A c \in Callers : pc'[c] # "idle" => use'[c] \in uses
  <2>1. CASE UNCHANGED <<pc, use>>
    BY <2>1 DEF DeclaredByUses
  <2>2. ASSUME NEW c \in Callers, Begin(c) PROVE \A d \in Callers : pc'[d] # "idle" => use'[d] \in uses
    <3>1. PICK u \in uses : use' = [use EXCEPT ![c] = u]
                            /\ pc' = [pc EXCEPT ![c] = IF u.kind = "push" THEN "declare" ELSE "connect"]
      BY <2>2 DEF Begin, Goto
    <3> QED
      BY <3>1 DEF DeclaredByUses, CallsOK
  <2>3. ASSUME NEW c \in Callers, KeepConnection(c) \/ Dial(c) \/ OpenChannel(c) \/ Declare(c)
        PROVE  \A d \in Callers : pc'[d] # "idle" => use'[d] \in uses
    <3>1. /\ pc[c] # "idle" /\ use' = use
          /\ \A d \in Callers \ {c} : pc'[d] = pc[d]
      BY <2>3 DEF KeepConnection, Dial, OpenChannel, Declare, At, Goto, CallsOK
    <3> QED
      BY <3>1 DEF DeclaredByUses
  <2>4. ASSUME NEW c \in Callers, NEW k, NEW err, Return(c, k, err)
        PROVE  \A d \in Callers : pc'[d] # "idle" => use'[d] \in uses
    BY <2>4 DEF Return, Goto, DeclaredByUses, CallsOK
  <2>5. ASSUME NEW k \in Ids, CloseConnection(k) \/ CloseChannel(k) PROVE UNCHANGED <<pc, use>>
    BY <2>5 DEF CloseConnection, CloseChannel
  <2> QED
    BY <2>1, <2>2, <2>3, <2>4, <2>5, NextCases, Returns DEF vars
<1>3. ASSUME NEW q \in Queues, args'[q] # "absent"
      PROVE  \E u \in uses : u.queue = q /\ args'[q] = Args(u.kind)
  <2>1. CASE args'[q] = args[q]
    BY <1>3, <2>1 DEF DeclaredByUses
  <2>2. ASSUME NEW c \in Callers, Declare(c), args'[q] # args[q]
        PROVE  \E u \in uses : u.queue = q /\ args'[q] = Args(u.kind)
    <3>1. use[c] \in uses /\ use[c].queue = q /\ args'[q] = Args(use[c].kind)
      BY <2>2 DEF Declare, At, DeclaredByUses, ArgsOK
    <3> QED  BY <3>1
  <2>3. args' = args \/ \E c \in Callers : Declare(c)
    BY NextCases DEF vars, Begin, KeepConnection, Dial, OpenChannel, DialFails, world,
       OpenChannelFails, DeclareFails, DeclareOnNil, MarshalFails, Publish, PublishFails,
       CloseConnection, CloseChannel
  <2> QED
    BY <2>1, <2>2, <2>3
<1> QED
  BY <1>1, <1>2, <1>3 DEF DeclaredByUses

\* A fault is charged with more than all that it may cost.
LEMMA RiskKept ==
    ASSUME CountsOK, RiskCovered, uses' = uses, CountsOK',
           Costless \/ Earned \/ Struck \/ (StruckAtOnce /\ Callers # {})
    PROVE  RiskCovered'
<1> DEFINE Charge == Slots * (Slots + 3)
<1>0. failures \in Nat /\ faults \in Nat /\ Charge \in Nat
  BY PublisherAssumption, CallersCounted DEF CountsOK
<1>1. Risk \in Nat /\ Risk' \in Nat /\ Risk' <= Charge
  <2>1. (Risk \in Nat /\ Risk <= Slots * (Slots + 3))'
    BY RiskAtMost, PTL
  <2> QED
    BY <2>1, RiskAtMost DEF Slots
<1>2. SUFFICES ASSUME Compatible(uses) PROVE 2 * failures' + Risk' <= faults' * Charge
  BY DEF RiskCovered, Compatible, Slots, Args
<1>3. 2 * failures + Risk <= faults * Charge /\ faults * Charge \in Nat
  BY <1>0, <1>2 DEF RiskCovered
<1>4. CASE Costless
  BY <1>0, <1>1, <1>3, <1>4 DEF Costless, RiskNoMore
<1>5. CASE Earned
  <2>1. /\ failures' \in Nat /\ failures' <= failures + 1 /\ Risk' + 2 <= Risk
        /\ faults' * Charge = faults * Charge
    BY <1>0, <1>5 DEF Earned, RiskLess
  <2>2. failures \in Nat /\ Risk \in Nat /\ Risk' \in Nat
    BY <1>0, <1>1
  <2>3. \A a, b, x, y, most \in Nat :
            b <= a + 1 /\ y + 2 <= x /\ 2 * a + x <= most => 2 * b + y <= most
    OBVIOUS
  <2> HIDE DEF Charge
  <2> QED
    BY <1>3, <2>1, <2>2, <2>3
<1>6. (faults + 1) * Charge = faults * Charge + Charge
  BY <1>0
<1>7. CASE Struck
  BY <1>0, <1>1, <1>3, <1>6, <1>7 DEF Struck
<1>8. CASE StruckAtOnce /\ Callers # {}
  <2>1. Slots >= 1
    BY <1>8, CallersCounted, FS_EmptySet, PublisherAssumption DEF Slots
  <2>2. Charge >= 2
    <3>1. Charge = Slots * Slots + 3 * Slots /\ Slots * Slots \in Nat
      BY CallersCounted
    <3> QED  BY <2>1, <3>1, CallersCounted
  <2> QED
    BY <1>0, <1>1, <1>3, <1>6, <1>8, <2>2 DEF StruckAtOnce, RiskNoMore
<1> QED
  BY <1>4, <1>5, <1>7, <1>8

\* What the bound on failures rests on, besides the types.
FaultsInv == DeclaredByUses /\ RiskCovered

\* Nobody fails before the first fault.
LEMMA InitFaults == ASSUME Init PROVE FaultsInv
<1>1. DeclaredByUses
  BY DEF Init, DeclaredByUses
<1>2. ~Baited /\ Failing = {} /\ Storing = {}
  BY PublisherAssumption DEF Init, Baited, Usable, Ids, Failing, Storing, Fails, Reconnecting
<1>3. Risk = 0
  BY <1>2, FS_EmptySet, CallersCounted DEF Risk, Exposed, Stores
<1>4. Compatible(uses) => faults = 0 /\ failures = 0
  BY DEF Init
<1>5. 0 * (Slots * (Slots + 3)) = 0
  BY CallersCounted
<1> QED
  BY <1>1, <1>3, <1>4, <1>5 DEF FaultsInv, RiskCovered

\* Every step of a call, and every fault, keeps the failures to come paid for.
LEMMA StepFaults ==
    ASSUME PublisherInv, PublisherInv', FaultsInv, [Next]_vars PROVE FaultsInv'
<1>1. /\ PairsOK /\ LinksOK /\ CallsOK /\ CountsOK /\ ArgsOK /\ CountsOK' /\ dials' \in Ids
      /\ DeclaredByUses /\ RiskCovered
  <2>1. PairsOK' /\ CountsOK'
    BY Zenon DEF PublisherInv, TypeOK, PairsOK, CountsOK
  <2> QED
    BY <2>1, TypeParts, Zenon DEF PublisherInv, FaultsInv, PairsOK
<1>2. DeclaredByUses' /\ uses' = uses
  BY <1>1, DeclaredKept
<1>3. Compatible(uses) => Costless \/ Earned \/ Struck \/ (StruckAtOnce /\ Callers # {})
  <2> SUFFICES ASSUME Compatible(uses)
               PROVE  Costless \/ Earned \/ Struck \/ (StruckAtOnce /\ Callers # {})
    OBVIOUS
  <2>1. CASE UNCHANGED vars
    <3>1. Failing' = Failing /\ Storing' = Storing /\ Baited' = Baited
      BY <2>1 DEF vars, Failing, Storing, Baited, Fails, Reconnecting, At, Alive, Usable
    <3>2. RiskNoMore
      BY <3>1, RiskStays
    <3> QED
      BY <2>1, <3>2 DEF vars, Costless
  <2>2. ASSUME NEW c \in Callers, Begin(c) PROVE Costless
    BY <1>1, <2>2, BeginCosts
  <2>3. ASSUME NEW c \in Callers, KeepConnection(c) \/ Dial(c) \/ OpenChannel(c) \/ Declare(c)
        PROVE  Costless
    BY <1>1, <2>3, GoingOnCosts
  <2>4. ASSUME NEW c \in Callers,
               DialFails(c) \/ OpenChannelFails(c) \/ DeclareFails(c) \/ DeclareOnNil(c)
               \/ MarshalFails(c) \/ Publish(c) \/ PublishFails(c)
        PROVE  Costless \/ Earned \/ Struck \/ (StruckAtOnce /\ Callers # {})
    BY <1>1, <2>4, EndingCosts
  <2>5. ASSUME NEW k \in Ids, CloseConnection(k) \/ CloseChannel(k) PROVE Struck
    BY <2>5 DEF CloseConnection, CloseChannel, Fault, Struck
  <2> QED
    BY <2>1, <2>2, <2>3, <2>4, <2>5, NextCases
<1>4. RiskCovered'
  <2>1. CASE Compatible(uses)
    BY <1>1, <1>2, <1>3, <2>1, RiskKept
  <2>2. CASE ~Compatible(uses)
    BY <1>2, <2>2 DEF RiskCovered, Compatible, Args
  <2> QED
    BY <2>1, <2>2
<1> QED
  BY <1>2, <1>4 DEF FaultsInv

\* The charge of a fault is a whole number of failures.
LEMMA ChargeIsEven == 2 * FaultCost = Slots * (Slots + 3)
<1>1. Slots \in Nat
  BY CallersCounted
<1>2. \A a \in Nat : (2 * a) \div 2 = a
  OBVIOUS
<1>3. \E a \in Nat : Slots * (Slots + 3) = 2 * a
  <2>1. PICK k \in Nat : Slots = 2 * k \/ Slots = 2 * k + 1
    <3>1. /\ Slots \div 2 \in Nat
          /\ Slots = 2 * (Slots \div 2) \/ Slots = 2 * (Slots \div 2) + 1
      BY <1>1
    <3> QED  BY <3>1
  <2>2. CASE Slots = 2 * k
    <3>1. Slots * (Slots + 3) = 2 * (k * (2 * k + 3)) /\ k * (2 * k + 3) \in Nat
      BY <2>2
    <3> QED  BY <3>1
  <2>3. CASE Slots = 2 * k + 1
    <3>1. Slots * (Slots + 3) = 2 * ((2 * k + 1) * (k + 2)) /\ (2 * k + 1) * (k + 2) \in Nat
      BY <2>3
    <3> QED  BY <3>1
  <2> QED
    BY <2>1, <2>2, <2>3
<1> QED
  BY <1>1, <1>2, <1>3 DEF FaultCost, Slots

\* A program that declares its queues alike has at most n (n + 3) / 2 calls fail for
\* each fault, with n requests at a time: a dead pair that a failing publish hands
\* back (amqp.go:114, :159) is given out again only until the next call gives it up.
THEOREM FaultsAreBounded == Spec => []FaultsBounded
<1>1. ASSUME PublisherInv, FaultsInv PROVE FaultsBounded
  <2>1. failures \in Nat /\ faults \in Nat /\ Risk \in Nat
    BY <1>1, RiskAtMost, PublisherAssumption, TypeParts DEF PublisherInv, CountsOK
  <2>2. Compatible(uses) => 2 * failures <= faults * (2 * FaultCost)
    BY <1>1, <2>1, ChargeIsEven, CallersCounted DEF FaultsInv, RiskCovered
  <2>3. FaultCost \in Nat
    BY CallersCounted DEF FaultCost, Slots
  <2>4. faults * (2 * FaultCost) = 2 * (faults * FaultCost) /\ faults * FaultCost \in Nat
    BY <2>1, <2>3
  <2> QED
    BY <2>1, <2>2, <2>4 DEF FaultsBounded
<1> QED
  BY <1>1, InitFaults, StepFaults, PublisherInvariance, PTL DEF Spec
=============================================================================
