--------------------------- MODULE TransportProofs --------------------------
(***************************************************************************)
(* For any set of engines, any bound on pending sends and any number of     *)
(* parts: a batch is processed with its own tensor, the dispatcher keeps    *)
(* alive what NCCL still reads, and every step is a step of the abstract    *)
(* link between engines, or none.                                           *)
(***************************************************************************)
EXTENDS Transport, SequenceTheorems, FiniteSetTheorems, TLAPS

Sending == {"drain", "metadata", "tensor"}

\* The part a dispatcher has announced and not yet put on the channel.
InHand(c) ==
    IF pc[c[1]] = "tensor" /\ PairOf(Head(parts[c[1]])) = c
    THEN <<Head(parts[c[1]])>> ELSE <<>>

\* What a pool has read the metadata of and not yet received.
Asked(c) == IF c[1] = c[2] THEN local_recv[c[1]] ELSE posted[c]

\* Announcements and tensors of a pair are the same parts in the same order, but
\* for the one in the dispatcher's hand.
Balanced(c) == Asked(c) \o metas[c] = tensors[c] \o InHand(c)

AllOf(s, c) == \A i \in 1 .. Len(s) : PairOf(s[i]) = c

AllFrom(s, e) == \A i \in 1 .. Len(s) : s[i].src = e

QueueTypes ==
    /\ puts \in [Engine -> Seq(Engine)]
    /\ send_queue \in [Engine -> Seq(Seq(Part))]
    /\ parts \in [Engine -> Seq(Part)]
    /\ metas \in [Pair -> Seq(Part)]
    /\ tensors \in [Pair -> Seq(Part)]
    /\ posted \in [Pair -> Seq(Part)]
    /\ local_recv \in [Engine -> Seq(Part)]
    /\ pc \in [Engine -> {"clean", "wait", "dead"} \cup Sending]

\* A dispatcher has only parts of its own engine, and one while it is sending.
OwnParts ==
    /\ \A e \in Engine : AllFrom(parts[e], e)
    /\ \A e \in Engine : \A k \in 1 .. Len(send_queue[e]) :
          send_queue[e][k] # <<>> /\ AllFrom(send_queue[e][k], e)
    /\ \A e \in Engine : pc[e] \in Sending => parts[e] # <<>>

OwnChannel ==
    \A c \in Pair : /\ AllOf(metas[c], c) /\ AllOf(tensors[c], c)
                    /\ c[1] = c[2] => posted[c] = <<>>

Matched == \A e \in Engine : \A x \in pending_recvs[e] : x[1] = x[2]

PairIInv ==
    /\ QueueTypes /\ OwnParts /\ OwnChannel
    /\ \A e \in Engine : Len(local_recv[e]) <= 1
    /\ \A c \in Pair : Balanced(c)
    /\ pending_recvs \in [Engine -> SUBSET (Part \X Part)]
    /\ Matched /\ PairedWithOwnTensor

SendIInv ==
    /\ pending_sends \in [Engine -> Seq(Part)]
    /\ SourcesKeptAlive
    /\ \A e \in Engine : pc[e] \in {"metadata", "tensor"} => Len(pending_sends[e]) < MaxPending[e]

-----------------------------------------------------------------------------
(* Reading one announcement moves it from the metadata queue to the posted   *)
(* receives.                                                                 *)
LEMMA MoveOne ==
    ASSUME NEW S, NEW a \in Seq(S), NEW m \in Seq(S), m # <<>>
    PROVE  Append(a, Head(m)) \o Tail(m) = a \o m
<1>1. Head(m) \in S /\ Tail(m) \in Seq(S) /\ Len(Tail(m)) = Len(m) - 1
      /\ Len(m) \in Nat \ {0} /\ Len(a) \in Nat
  BY HeadTailProperties, EmptySeq
<1>2. Append(a, Head(m)) \in Seq(S)
  BY <1>1, AppendProperties, Zenon
<1>3. Append(a, Head(m)) \o Tail(m) \in Seq(S) /\ a \o m \in Seq(S)
  BY <1>1, <1>2, ConcatProperties, Zenon
<1>4. Len(Append(a, Head(m)) \o Tail(m)) = Len(a \o m)
  BY <1>1, <1>2, ConcatProperties, AppendProperties
<1>5. ASSUME NEW i \in 1 .. Len(a \o m)
      PROVE  (Append(a, Head(m)) \o Tail(m))[i] = (a \o m)[i]
  BY <1>1, <1>2
<1> QED
  BY <1>3, <1>4, <1>5, SeqEqual, Zenon

(* Announcing a part adds it to both sides.                                  *)
LEMMA AnnounceOne ==
    ASSUME NEW S, NEW a \in Seq(S), NEW m \in Seq(S), NEW t \in Seq(S), NEW x \in S,
           a \o m = t \o <<>>
    PROVE  a \o Append(m, x) = t \o <<x>>
<1>1. a \o m = t /\ Len(a) \in Nat /\ Len(m) \in Nat /\ Len(t) = Len(a) + Len(m)
  BY ConcatEmptySeq, ConcatProperties
<1>2. /\ Append(m, x) \in Seq(S) /\ Len(Append(m, x)) = Len(m) + 1
      /\ <<x>> \in Seq(S) /\ Len(<<x>>) = 1
  BY AppendProperties
<1>c. \A u, v \in Seq(S) : u \o v \in Seq(S) /\ Len(u \o v) = Len(u) + Len(v)
  BY ConcatProperties, Zenon
<1>p. a \o Append(m, x) \in Seq(S) /\ Len(a \o Append(m, x)) = Len(a) + (Len(m) + 1)
  BY <1>c, <1>2
<1>q. t \o <<x>> \in Seq(S) /\ Len(t \o <<x>>) = Len(t) + 1
  BY <1>c, <1>2, Zenon
<1>3. /\ Len(a \o Append(m, x)) = Len(a) + Len(m) + 1
      /\ Len(t \o <<x>>) = Len(a) + Len(m) + 1
  BY <1>1, <1>p, <1>q
<1>4. ASSUME NEW i \in 1 .. Len(a) + Len(m) + 1
      PROVE  (a \o Append(m, x))[i] = (t \o <<x>>)[i]
  BY <1>1, <1>2
<1> QED
  BY <1>p, <1>q, <1>3, <1>4, SeqEqual, Zenon

(* Putting the announced part on the channel leaves the balance as it is.    *)
LEMMA SendOne ==
    ASSUME NEW S, NEW t \in Seq(S), NEW x \in S
    PROVE  Append(t, x) \o <<>> = t \o <<x>>
<1>1. Append(t, x) \in Seq(S) /\ Append(t, x) = t \o <<x>>
  BY AppendProperties, AppendIsConcat, Zenon
<1> QED
  BY <1>1, ConcatEmptySeq, Zenon

\* Two ways to read one sequence, and what their fronts have in common then.
SameSeq(a, m, t, h) == a \o m = t \o h
SameFront(a, m, t, h) == Head(a) = Head(t) /\ SameSeq(Tail(a), m, Tail(t), h)

(* The oldest receive and the oldest tensor of a pair are the same part.     *)
LEMMA BothHeads ==
    ASSUME NEW S, NEW a \in Seq(S), NEW m \in Seq(S), NEW t \in Seq(S), NEW p \in Seq(S),
           a # <<>>, t # <<>>, SameSeq(a, m, t, p)
    PROVE  SameFront(a, m, t, p)
<1>e. a \o m = t \o p
  BY Zenon DEF SameSeq
<1>1. /\ Len(a) \in Nat \ {0} /\ Len(t) \in Nat \ {0}
      /\ Len(m) \in Nat /\ Len(p) \in Nat
      /\ Tail(a) \in Seq(S) /\ Tail(t) \in Seq(S)
      /\ Len(Tail(a)) = Len(a) - 1 /\ Len(Tail(t)) = Len(t) - 1
  BY HeadTailProperties, EmptySeq
<1>2. Len(a) + Len(m) = Len(t) + Len(p)
  BY <1>e, ConcatProperties
<1>3. Head(a) = (a \o m)[1] /\ Head(t) = (t \o p)[1]
  BY <1>1
<1>4. Tail(a) \o m \in Seq(S) /\ Tail(t) \o p \in Seq(S)
  BY <1>1, ConcatProperties, Zenon
<1>5. Len(Tail(a) \o m) = Len(Tail(t) \o p)
  BY <1>1, <1>2, ConcatProperties
<1>6. ASSUME NEW i \in 1 .. Len(Tail(a) \o m)
      PROVE  (Tail(a) \o m)[i] = (Tail(t) \o p)[i]
  <2>1. i \in Nat /\ i >= 1 /\ i + 1 \in 1 .. Len(a) + Len(m)
    BY <1>1, ConcatProperties
  <2>2. (Tail(a) \o m)[i] = (a \o m)[i + 1]
    BY <2>1, <1>1
  <2>3. (Tail(t) \o p)[i] = (t \o p)[i + 1]
    BY <2>1, <1>1, <1>2
  <2> QED
    BY <1>e, <2>2, <2>3, Zenon
<1>7. Tail(a) \o m = Tail(t) \o p
  BY <1>4, <1>5, <1>6, SeqEqual, Zenon
<1> QED
  BY <1>e, <1>3, <1>7, Zenon DEF SameFront, SameSeq

-----------------------------------------------------------------------------
(* Where the dispatcher goes after each statement of send_batch_nonblocking. *)
LEMMA StepOnFacts ==
    ASSUME NEW e \in Engine, pc \in [Engine -> {"clean", "wait", "dead"} \cup Sending],
           parts[e] \in Seq(Part), parts[e] # <<>>, pc[e] \in Sending, StepOn(e)
    PROVE  /\ pc' \in [Engine -> {"clean", "wait", "dead"} \cup Sending]
           /\ \A f \in Engine \ {e} : pc'[f] = pc[f]
           /\ pc[e] = "drain" => pc'[e] = "metadata"
           /\ pc[e] = "metadata" => pc'[e] = "tensor"
           /\ pc[e] = "tensor" => pc'[e] = IF Len(parts[e]) > 1 THEN "drain" ELSE "clean"
<1> DEFINE next == IF pc[e] # SendOrder[Len(SendOrder)]
                   THEN SendOrder[(CHOOSE i \in DOMAIN SendOrder : SendOrder[i] = pc[e]) + 1]
                   ELSE IF Len(parts[e]) > 1 THEN Head(SendOrder) ELSE "clean"
<1>1. pc' = [pc EXCEPT ![e] = next]
  BY Zenon DEF StepOn
<1>2. SendOrder[Len(SendOrder)] = "tensor" /\ Head(SendOrder) = "drain" /\ DOMAIN SendOrder = 1 .. 3
      /\ SendOrder[1] = "drain" /\ SendOrder[2] = "metadata" /\ SendOrder[3] = "tensor"
  BY DEF SendOrder
<1>3. pc[e] = "drain" => next = "metadata"
  BY <1>2
<1>4. pc[e] = "metadata" => next = "tensor"
  BY <1>2
<1>6. pc[e] = "tensor" => next = IF Len(parts[e]) > 1 THEN "drain" ELSE "clean"
  BY <1>2, Zenon
<1>7. next \in {"clean", "wait", "dead"} \cup Sending
  BY <1>3, <1>4, <1>6, Zenon DEF Sending
<1> HIDE DEF next
<1> QED
  BY <1>1, <1>3, <1>4, <1>6, <1>7, Zenon

(* Steps that neither announce, send nor receive keep every pair balanced.   *)
LEMMA BalanceFrame ==
    ASSUME \A c \in Pair : Balanced(c),
           UNCHANGED <<metas, tensors, posted, local_recv>>,
           \A e \in Engine : (pc'[e] = "tensor") <=> (pc[e] = "tensor"),
           \A e \in Engine : pc[e] = "tensor" => parts'[e] = parts[e]
    PROVE  \A c \in Pair : Balanced(c)'
<1> SUFFICES ASSUME NEW c \in Pair PROVE Balanced(c)'
  BY Zenon
<1>1. c[1] \in Engine
  BY Zenon DEF Pair
<1>2. InHand(c)' = InHand(c)
  BY <1>1, Zenon DEF InHand
<1>3. Asked(c)' = Asked(c)
  BY Zenon DEF Asked
<1> QED
  BY <1>2, <1>3, Zenon DEF Balanced

(* A route is a sequence of peers, at least one.                             *)
LEMMA RouteFacts ==
    ASSUME NEW route \in Route
    PROVE  route \in Seq(Engine) /\ route # <<>>
BY TransportAssumption, SMTT(30) DEF Route

(* The parts of a batch belong to the engine that put it.                    *)
LEMMA SplitFacts ==
    ASSUME NEW e \in Engine, NEW route \in Route, puts[e] \in Seq(Engine),
           Len(puts[e]) + Len(route) <= MaxParts
    PROVE  /\ route \in Seq(Engine) /\ route # <<>>
           /\ Split(e, route) \in Seq(Part) /\ Split(e, route) # <<>>
           /\ AllFrom(Split(e, route), e)
<1>1. route \in Seq(Engine) /\ route # <<>>
  BY RouteFacts, Zenon
<1>2. Len(route) \in Nat \ {0} /\ DOMAIN route = 1 .. Len(route) /\ Len(puts[e]) \in Nat
  BY <1>1, EmptySeq, LenProperties, Zenon
<1>3. \A i \in 1 .. Len(route) : [src |-> e, dst |-> route[i], n |-> Len(puts[e]) + i] \in Part
  BY <1>1, <1>2, TransportAssumption, SMTT(30) DEF Part
<1>4. Split(e, route) = [i \in 1 .. Len(route) |->
                            [src |-> e, dst |-> route[i], n |-> Len(puts[e]) + i]]
  BY <1>2, Zenon DEF Split
<1>5. Split(e, route) \in Seq(Part) /\ Len(Split(e, route)) = Len(route)
  BY <1>2, <1>3, <1>4
<1>6. AllFrom(Split(e, route), e)
  BY <1>2, <1>4, <1>5 DEF AllFrom
<1> QED
  BY <1>1, <1>2, <1>5, <1>6, EmptySeq, Zenon

-----------------------------------------------------------------------------
(* put queues a batch whose parts are the engine's own.                      *)
LEMMA PutKeeps ==
    ASSUME PairIInv, NEW e \in Engine, NEW route \in Route, Put(e, route)
    PROVE  PairIInv'
<1>1. Len(puts[e]) + Len(route) <= MaxParts
  <2>1. Quota[e] \in Nat /\ Quota[e] <= MaxParts /\ MaxParts \in Nat
    BY TransportAssumption
  <2>2. puts[e] \in Seq(Engine) /\ route \in Seq(Engine)
    BY RouteFacts, Zenon DEF PairIInv, QueueTypes
  <2>3. Len(puts[e]) \in Nat /\ Len(route) \in Nat
    BY <2>2, LenProperties, Zenon
  <2>4. Len(puts[e]) + Len(route) <= Quota[e]
    BY Zenon DEF Put
  <2> QED
    BY <2>1, <2>3, <2>4
<1>2. /\ UNCHANGED <<pc, parts, metas, tensors, posted, local_recv, pending_recvs, processed>>
      /\ puts' = [puts EXCEPT ![e] = @ \o route]
      /\ send_queue' = [send_queue EXCEPT ![e] = Append(@, Split(e, route))]
  BY Zenon DEF Put, recvVars
<1>3. /\ route \in Seq(Engine) /\ Split(e, route) \in Seq(Part)
      /\ Split(e, route) # <<>> /\ AllFrom(Split(e, route), e)
  BY <1>1, <1>2, SplitFacts, Zenon DEF PairIInv, QueueTypes
<1>4. QueueTypes'
  <2>1. puts[e] \o route \in Seq(Engine)
    BY <1>1, <1>3, ConcatProperties DEF PairIInv, QueueTypes
  <2>2. Append(send_queue[e], Split(e, route)) \in Seq(Seq(Part))
    BY <1>1, <1>3, AppendProperties, Zenon DEF PairIInv, QueueTypes
  <2> QED
    BY <1>1, <1>2, <2>1, <2>2, Zenon DEF PairIInv, QueueTypes
<1>5. OwnParts'
  <2> DEFINE part == Split(e, route)
  <2> HIDE DEF part
  <2>1. \A f \in Engine : f # e => send_queue'[f] = send_queue[f]
    BY <1>1, <1>2, Zenon DEF PairIInv, QueueTypes
  <2>2. /\ send_queue'[e] = Append(send_queue[e], part)
        /\ send_queue[e] \in Seq(Seq(Part)) /\ part \in Seq(Part)
    BY <1>1, <1>2, <1>3, Zenon DEF PairIInv, QueueTypes, part
  <2>3. /\ Len(send_queue[e]) \in Nat /\ Len(send_queue'[e]) = Len(send_queue[e]) + 1
        /\ \A k \in 1 .. Len(send_queue[e]) : send_queue'[e][k] = send_queue[e][k]
        /\ send_queue'[e][Len(send_queue[e]) + 1] = part
    BY <2>2, AppendProperties
  <2>4. ASSUME NEW k \in 1 .. Len(send_queue'[e])
        PROVE  send_queue'[e][k] # <<>> /\ AllFrom(send_queue'[e][k], e)
    <3>1. CASE k = Len(send_queue[e]) + 1
      BY <2>3, <3>1, <1>3, Zenon DEF part
    <3>2. CASE k \in 1 .. Len(send_queue[e])
      BY <2>3, <3>2, <1>1, Zenon DEF PairIInv, OwnParts
    <3> QED
      BY <2>3, <3>1, <3>2
  <2>5. ASSUME NEW f \in Engine, NEW k \in 1 .. Len(send_queue'[f])
        PROVE  send_queue'[f][k] # <<>> /\ AllFrom(send_queue'[f][k], f)
    BY <2>1, <2>4, Zenon DEF PairIInv, OwnParts
  <2> QED
    BY <1>2, <2>5, Zenon DEF PairIInv, OwnParts, AllFrom
<1>6. \A c \in Pair : Balanced(c)'
  BY <1>2, BalanceFrame, Zenon DEF PairIInv
<1> QED
  BY <1>2, <1>4, <1>5, <1>6, Zenon
     DEF PairIInv, OwnChannel, AllOf, Matched, PairedWithOwnTensor

(* The dispatcher cleans, takes a batch, or drains: nothing is sent.         *)
LEMMA QuietKeeps ==
    ASSUME PairIInv, NEW e \in Engine,
           CleanPendingSends(e) \/ NextBatch(e) \/ DrainPendingSends(e)
    PROVE  PairIInv'
<1>1. /\ UNCHANGED <<puts, metas, tensors, posted, local_recv, pending_recvs, processed>>
      /\ pc[e] # "tensor"
  BY Zenon DEF CleanPendingSends, NextBatch, DrainPendingSends, recvVars
<1>t. QueueTypes /\ OwnParts
  BY Zenon DEF PairIInv
<1>2. /\ pc' \in [Engine -> {"clean", "wait", "dead"} \cup Sending]
      /\ pc'[e] # "tensor"
      /\ \A f \in Engine \ {e} : pc'[f] = pc[f]
      /\ parts' \in [Engine -> Seq(Part)] /\ send_queue' \in [Engine -> Seq(Seq(Part))]
      /\ \A f \in Engine \ {e} : parts'[f] = parts[f] /\ send_queue'[f] = send_queue[f]
      /\ pc'[e] \in Sending => parts'[e] # <<>>
      /\ AllFrom(parts'[e], e)
      /\ \A k \in 1 .. Len(send_queue'[e]) :
            send_queue'[e][k] # <<>> /\ AllFrom(send_queue'[e][k], e)
  <2>1. CASE CleanPendingSends(e)
    <3>1. UNCHANGED <<parts, send_queue>>
      BY <2>1, Zenon DEF CleanPendingSends
    <3>2. pc' = [pc EXCEPT ![e] = "dead"] \/ pc' = [pc EXCEPT ![e] = "wait"]
      BY <2>1, Zenon DEF CleanPendingSends
    <3>3. /\ pc' \in [Engine -> {"clean", "wait", "dead"} \cup Sending]
          /\ pc'[e] \in {"dead", "wait"} /\ \A f \in Engine \ {e} : pc'[f] = pc[f]
      BY <3>2, <1>t, Zenon DEF QueueTypes
    <3>4. pc'[e] # "tensor" /\ pc'[e] \notin Sending
      BY <3>3, Zenon DEF Sending
    <3> QED
      BY <3>1, <3>3, <3>4, <1>t, Zenon DEF QueueTypes, OwnParts
  <2>2. CASE NextBatch(e)
    <3>1. /\ send_queue[e] # <<>> /\ pc' = [pc EXCEPT ![e] = Head(SendOrder)]
          /\ parts' = [parts EXCEPT ![e] = Head(send_queue[e])]
          /\ send_queue' = [send_queue EXCEPT ![e] = Tail(@)]
      BY <2>2, Zenon DEF NextBatch
    <3>2. Head(SendOrder) = "drain"
      BY DEF SendOrder
    <3>3. /\ send_queue[e] \in Seq(Seq(Part)) /\ Len(send_queue[e]) \in Nat \ {0}
          /\ Head(send_queue[e]) = send_queue[e][1] /\ send_queue[e][1] \in Seq(Part)
          /\ Tail(send_queue[e]) \in Seq(Seq(Part))
          /\ Len(Tail(send_queue[e])) = Len(send_queue[e]) - 1
          /\ \A k \in 1 .. Len(Tail(send_queue[e])) : Tail(send_queue[e])[k] = send_queue[e][k + 1]
      BY <3>1, <1>t, EmptySeq, HeadTailProperties DEF QueueTypes
    <3>4. /\ pc' \in [Engine -> {"clean", "wait", "dead"} \cup Sending] /\ pc'[e] = "drain"
          /\ \A f \in Engine \ {e} : pc'[f] = pc[f]
      BY <3>1, <3>2, <1>t, Zenon DEF QueueTypes, Sending
    <3>5. /\ parts' \in [Engine -> Seq(Part)] /\ send_queue' \in [Engine -> Seq(Seq(Part))]
          /\ parts'[e] = send_queue[e][1] /\ send_queue'[e] = Tail(send_queue[e])
          /\ \A f \in Engine \ {e} : parts'[f] = parts[f] /\ send_queue'[f] = send_queue[f]
      BY <3>1, <3>3, <1>t, Zenon DEF QueueTypes
    <3>6. send_queue[e][1] # <<>> /\ AllFrom(send_queue[e][1], e)
      <4>1. 1 \in 1 .. Len(send_queue[e])
        BY <3>3
      <4> QED
        BY <4>1, <1>t, Zenon DEF OwnParts
    <3>7. ASSUME NEW k \in 1 .. Len(send_queue'[e])
          PROVE  send_queue'[e][k] # <<>> /\ AllFrom(send_queue'[e][k], e)
      <4>1. k + 1 \in 1 .. Len(send_queue[e]) /\ send_queue'[e][k] = send_queue[e][k + 1]
        BY <3>3, <3>5, SMTT(30)
      <4> QED
        BY <4>1, <1>t, Zenon DEF OwnParts
    <3> QED
      BY <3>4, <3>5, <3>6, <3>7, Zenon
  <2>3. CASE DrainPendingSends(e)
    <3>1. UNCHANGED <<parts, send_queue>> /\ pc[e] = "drain" /\ StepOn(e)
      BY <2>3, Zenon DEF DrainPendingSends
    <3>2. /\ pc' \in [Engine -> {"clean", "wait", "dead"} \cup Sending]
          /\ pc'[e] = "metadata" /\ \A f \in Engine \ {e} : pc'[f] = pc[f]
      BY <3>1, <1>t, StepOnFacts, Zenon DEF QueueTypes, OwnParts, Sending
    <3>3. parts[e] # <<>>
      BY <3>1, <1>t, Zenon DEF OwnParts, Sending
    <3> QED
      BY <3>1, <3>2, <3>3, <1>t, Zenon DEF QueueTypes, OwnParts
  <2> QED
    BY <2>1, <2>2, <2>3, Zenon
<1>3. \A c \in Pair : Balanced(c)'
  BY <1>1, <1>2, BalanceFrame, Zenon DEF PairIInv
<1>4. QueueTypes'
  BY <1>1, <1>2, <1>t, Zenon DEF QueueTypes
<1>5. OwnParts'
  <2>1. ASSUME NEW f \in Engine
        PROVE  /\ AllFrom(parts'[f], f)
               /\ pc'[f] \in Sending => parts'[f] # <<>>
               /\ \A k \in 1 .. Len(send_queue'[f]) :
                     send_queue'[f][k] # <<>> /\ AllFrom(send_queue'[f][k], f)
    <3>1. CASE f = e
      BY <3>1, <1>2, Zenon
    <3>2. CASE f # e
      BY <3>2, <1>2, <1>t, ZenonT(30) DEF OwnParts
    <3> QED
      BY <3>1, <3>2, Zenon
  <2> QED
    BY <2>1, Zenon DEF OwnParts, AllFrom
<1> QED
  BY <1>1, <1>3, <1>4, <1>5, Zenon
     DEF PairIInv, OwnChannel, AllOf, Matched, PairedWithOwnTensor

(* The part a dispatcher is sending is one of its own engine's.              *)
LEMMA CurrentPart ==
    ASSUME PairIInv, NEW e \in Engine, pc[e] \in Sending
    PROVE  /\ parts[e] \in Seq(Part) /\ parts[e] # <<>>
           /\ Head(parts[e]) \in Part /\ Head(parts[e]).src = e
           /\ PairOf(Head(parts[e])) \in Pair /\ PairOf(Head(parts[e]))[1] = e
           /\ Tail(parts[e]) \in Seq(Part) /\ AllFrom(Tail(parts[e]), e)
           /\ Len(parts[e]) > 1 => Tail(parts[e]) # <<>>
<1>1. parts[e] \in Seq(Part) /\ parts[e] # <<>> /\ AllFrom(parts[e], e)
  BY Zenon DEF PairIInv, QueueTypes, OwnParts
<1>2. /\ Len(parts[e]) \in Nat \ {0} /\ Head(parts[e]) = parts[e][1] /\ Head(parts[e]) \in Part
      /\ Tail(parts[e]) \in Seq(Part) /\ Len(Tail(parts[e])) = Len(parts[e]) - 1
      /\ \A i \in 1 .. Len(Tail(parts[e])) : Tail(parts[e])[i] = parts[e][i + 1]
  BY <1>1, EmptySeq, HeadTailProperties
<1>3. Head(parts[e]).src = e
  BY <1>1, <1>2 DEF AllFrom
<1>4. AllFrom(Tail(parts[e]), e)
  BY <1>1, <1>2 DEF AllFrom
<1>5. Len(parts[e]) > 1 => Tail(parts[e]) # <<>>
  <2>1. Tail(parts[e]) = <<>> => Len(Tail(parts[e])) = 0
    BY EmptySeq, Zenon
  <2>2. Len(parts[e]) \in Nat /\ Len(Tail(parts[e])) = Len(parts[e]) - 1
    BY <1>2, Zenon
  <2>3. Len(parts[e]) > 1 => Len(Tail(parts[e])) # 0
    <3> DEFINE n == Len(parts[e])
               m == Len(Tail(parts[e]))
    <3> SUFFICES n > 1 => m # 0
      BY Zenon
    <3>1. n \in Nat /\ m = n - 1
      BY <2>2, Zenon
    <3> HIDE DEF n, m
    <3> QED
      BY <3>1
  <2> QED
    BY <2>1, <2>3, Zenon
<1>6. PairOf(Head(parts[e])) \in Pair /\ PairOf(Head(parts[e]))[1] = e
  BY <1>2, <1>3, Zenon DEF PairOf, Pair, Part
<1> QED
  BY <1>1, <1>2, <1>3, <1>4, <1>5, <1>6, Zenon

(* Appending a part of the pair keeps a channel's parts its own.             *)
LEMMA AppendOwn ==
    ASSUME NEW q \in Seq(Part), NEW x \in Part, NEW c, AllOf(q, c), PairOf(x) = c
    PROVE  Append(q, x) \in Seq(Part) /\ AllOf(Append(q, x), c)
<1>1. /\ Append(q, x) \in Seq(Part) /\ Len(q) \in Nat /\ Len(Append(q, x)) = Len(q) + 1
      /\ \A i \in 1 .. Len(q) : Append(q, x)[i] = q[i]
      /\ Append(q, x)[Len(q) + 1] = x
  BY AppendProperties
<1>2. ASSUME NEW i \in 1 .. Len(q) + 1 PROVE PairOf(Append(q, x)[i]) = c
  <2>1. CASE i = Len(q) + 1
    BY <1>1, <2>1, Zenon
  <2>2. CASE i \in 1 .. Len(q)
    BY <1>1, <2>2 DEF AllOf
  <2> QED
    BY <1>1, <2>1, <2>2
<1> QED
  BY <1>1, <1>2, Zenon DEF AllOf

(* So does taking the oldest one.                                            *)
LEMMA TailOwn ==
    ASSUME NEW q \in Seq(Part), NEW c, AllOf(q, c), q # <<>>
    PROVE  /\ Head(q) \in Part /\ PairOf(Head(q)) = c
           /\ Tail(q) \in Seq(Part) /\ AllOf(Tail(q), c)
<1>1. /\ Len(q) \in Nat \ {0} /\ Head(q) = q[1] /\ Head(q) \in Part
      /\ Tail(q) \in Seq(Part) /\ Len(Tail(q)) = Len(q) - 1
      /\ \A i \in 1 .. Len(Tail(q)) : Tail(q)[i] = q[i + 1]
  BY EmptySeq, HeadTailProperties
<1> QED
  BY <1>1 DEF AllOf

(* The announcement of a part is the one message without its tensor.         *)
LEMMA MetadataKeeps ==
    ASSUME PairIInv, NEW e \in Engine, SendMetadata(e)
    PROVE  PairIInv'
<1> DEFINE x == Head(parts[e])
           p == PairOf(x)
<1>1. /\ UNCHANGED <<puts, send_queue, parts, tensors, posted, local_recv,
                     pending_recvs, processed>>
      /\ pc[e] = "metadata" /\ StepOn(e)
      /\ metas' = [metas EXCEPT ![p] = Append(@, x)]
  BY Zenon DEF SendMetadata, recvVars
<1>t. QueueTypes /\ OwnParts /\ OwnChannel /\ \A c \in Pair : Balanced(c)
  BY Zenon DEF PairIInv
<1>2. /\ x \in Part /\ p \in Pair /\ p[1] = e
      /\ parts[e] \in Seq(Part) /\ parts[e] # <<>>
  BY <1>1, CurrentPart, Zenon DEF Sending
<1>3. /\ pc' \in [Engine -> {"clean", "wait", "dead"} \cup Sending]
      /\ pc'[e] = "tensor" /\ \A f \in Engine \ {e} : pc'[f] = pc[f]
  BY <1>1, <1>2, <1>t, StepOnFacts, Zenon DEF QueueTypes, Sending
<1>4. /\ metas' \in [Pair -> Seq(Part)] /\ AllOf(metas'[p], p)
      /\ metas'[p] = Append(metas[p], x)
      /\ \A c \in Pair \ {p} : metas'[c] = metas[c]
  <2>1. metas[p] \in Seq(Part) /\ AllOf(metas[p], p) /\ PairOf(x) = p
    BY <1>2, <1>t, Zenon DEF QueueTypes, OwnChannel
  <2>2. Append(metas[p], x) \in Seq(Part) /\ AllOf(Append(metas[p], x), p)
    BY <2>1, <1>2, AppendOwn, Zenon
  <2> HIDE DEF x, p
  <2> QED
    BY <1>1, <1>2, <2>2, <1>t, Zenon DEF QueueTypes
<1>5. QueueTypes'
  BY <1>1, <1>3, <1>4, <1>t, Zenon DEF QueueTypes
<1>6. OwnParts'
  <2>1. \A f \in Engine : pc'[f] \in Sending => parts[f] # <<>>
    BY <1>2, <1>3, <1>t, Zenon DEF OwnParts
  <2> QED
    BY <1>1, <2>1, <1>t, Zenon DEF OwnParts
<1>7. OwnChannel'
  <2> HIDE DEF x, p
  <2> QED
    BY <1>1, <1>2, <1>4, <1>t, Zenon DEF OwnChannel
<1>8. ASSUME NEW c \in Pair PROVE Balanced(c)'
  <2>1. Asked(c)' = Asked(c)
    BY <1>1, Zenon DEF Asked
  <2>2. CASE c = p
    <3>1. InHand(c) = <<>> /\ InHand(c)' = <<x>>
      BY <1>1, <1>2, <1>3, <2>2, Zenon DEF InHand
    <3>2. Asked(c) \o metas[c] = tensors[c] \o <<>>
      BY <3>1, <1>t, Zenon DEF Balanced
    <3>3. Asked(c) \in Seq(Part) /\ metas[c] \in Seq(Part) /\ tensors[c] \in Seq(Part)
      BY <1>t, Zenon DEF QueueTypes, Asked, Pair
    <3>4. Asked(c) \o Append(metas[c], x) = tensors[c] \o <<x>>
      BY <3>2, <3>3, <1>2, AnnounceOne, ZenonT(30)
    <3> HIDE DEF x, p
    <3> QED
      BY <3>1, <3>4, <2>1, <2>2, <1>1, <1>4, Zenon DEF Balanced
  <2>3. CASE c # p
    <3>1. c[1] \in Engine
      BY Zenon DEF Pair
    <3>2. InHand(c)' = InHand(c)
      BY <1>1, <1>2, <1>3, <2>3, <3>1, Zenon DEF InHand
    <3> HIDE DEF x, p
    <3> QED
      BY <3>2, <2>1, <2>3, <1>1, <1>4, <1>t, Zenon DEF Balanced
  <2> QED
    BY <2>2, <2>3, Zenon
<1> QED
  BY <1>1, <1>5, <1>6, <1>7, <1>8, Zenon DEF PairIInv, Matched, PairedWithOwnTensor

(* Its tensor follows, before any other announcement to that peer.           *)
LEMMA TensorKeeps ==
    ASSUME PairIInv, NEW e \in Engine, SendTensor(e)
    PROVE  PairIInv'
<1> DEFINE x == Head(parts[e])
           p == PairOf(x)
<1>1. /\ UNCHANGED <<puts, send_queue, metas, posted, local_recv, pending_recvs, processed>>
      /\ pc[e] = "tensor" /\ StepOn(e)
      /\ tensors' = [tensors EXCEPT ![p] = Append(@, x)]
      /\ parts' = [parts EXCEPT ![e] = Tail(@)]
  BY Zenon DEF SendTensor, recvVars
<1>t. QueueTypes /\ OwnParts /\ OwnChannel /\ \A c \in Pair : Balanced(c)
  BY Zenon DEF PairIInv
<1>2. /\ x \in Part /\ p \in Pair /\ p[1] = e
      /\ parts[e] \in Seq(Part) /\ parts[e] # <<>>
      /\ Tail(parts[e]) \in Seq(Part) /\ AllFrom(Tail(parts[e]), e)
      /\ Len(parts[e]) > 1 => Tail(parts[e]) # <<>>
  BY <1>1, CurrentPart, Zenon DEF Sending
<1>3. /\ pc' \in [Engine -> {"clean", "wait", "dead"} \cup Sending]
      /\ pc'[e] = IF Len(parts[e]) > 1 THEN "drain" ELSE "clean"
      /\ \A f \in Engine \ {e} : pc'[f] = pc[f]
  BY <1>1, <1>2, <1>t, StepOnFacts, Zenon DEF QueueTypes, Sending
<1>4. /\ tensors' \in [Pair -> Seq(Part)] /\ AllOf(tensors'[p], p)
      /\ tensors'[p] = Append(tensors[p], x)
      /\ \A c \in Pair \ {p} : tensors'[c] = tensors[c]
  <2>1. tensors[p] \in Seq(Part) /\ AllOf(tensors[p], p) /\ PairOf(x) = p
    BY <1>2, <1>t, Zenon DEF QueueTypes, OwnChannel
  <2>2. Append(tensors[p], x) \in Seq(Part) /\ AllOf(Append(tensors[p], x), p)
    BY <2>1, <1>2, AppendOwn, Zenon
  <2> HIDE DEF x, p
  <2> QED
    BY <1>1, <1>2, <2>2, <1>t, Zenon DEF QueueTypes
<1>5. /\ parts' \in [Engine -> Seq(Part)] /\ parts'[e] = Tail(parts[e])
      /\ \A f \in Engine \ {e} : parts'[f] = parts[f]
  BY <1>1, <1>2, <1>t, Zenon DEF QueueTypes
<1>6. QueueTypes'
  BY <1>1, <1>3, <1>4, <1>5, <1>t, Zenon DEF QueueTypes
<1>7. OwnParts'
  <2>1. ASSUME NEW f \in Engine
        PROVE  AllFrom(parts'[f], f) /\ (pc'[f] \in Sending => parts'[f] # <<>>)
    <3>1. CASE f = e
      BY <3>1, <1>2, <1>3, <1>5, Zenon DEF Sending
    <3>2. CASE f # e
      BY <3>2, <1>3, <1>5, <1>t, Zenon DEF OwnParts
    <3> QED
      BY <3>1, <3>2, Zenon
  <2> QED
    BY <1>1, <2>1, <1>t, Zenon DEF OwnParts
<1>8. OwnChannel'
  <2> HIDE DEF x, p
  <2> QED
    BY <1>1, <1>2, <1>4, <1>t, Zenon DEF OwnChannel
<1>9. ASSUME NEW c \in Pair PROVE Balanced(c)'
  <2>1. Asked(c)' = Asked(c)
    BY <1>1, Zenon DEF Asked
  <2>2. CASE c = p
    <3>1. InHand(c) = <<x>> /\ InHand(c)' = <<>>
      BY <1>1, <1>2, <1>3, <2>2, Zenon DEF InHand
    <3>2. tensors[c] \in Seq(Part)
      BY <1>t, Zenon DEF QueueTypes
    <3>3. Append(tensors[c], x) \o <<>> = tensors[c] \o <<x>>
      BY <3>2, <1>2, SendOne, Zenon
    <3> HIDE DEF x, p
    <3> QED
      BY <3>1, <3>3, <2>1, <2>2, <1>1, <1>4, <1>t, Zenon DEF Balanced
  <2>3. CASE c # p
    <3>1. c[1] \in Engine
      BY Zenon DEF Pair
    <3>2. InHand(c)' = InHand(c)
      BY <1>1, <1>2, <1>3, <1>5, <2>3, <3>1, Zenon DEF InHand
    <3> HIDE DEF x, p
    <3> QED
      BY <3>2, <2>1, <2>3, <1>1, <1>4, <1>t, Zenon DEF Balanced
  <2> QED
    BY <2>2, <2>3, Zenon
<1> QED
  BY <1>1, <1>6, <1>7, <1>8, <1>9, Zenon DEF PairIInv, Matched, PairedWithOwnTensor

(* What both sides of a balance are made of.                                 *)
LEMMA BalanceTypes ==
    ASSUME PairIInv, NEW c \in Pair
    PROVE  /\ c[1] \in Engine /\ c[2] \in Engine
           /\ metas[c] \in Seq(Part) /\ tensors[c] \in Seq(Part) /\ posted[c] \in Seq(Part)
           /\ Asked(c) \in Seq(Part) /\ InHand(c) \in Seq(Part)
           /\ Asked(c) \o metas[c] = tensors[c] \o InHand(c)
<1>1. c[1] \in Engine /\ c[2] \in Engine
  BY Zenon DEF Pair
<1>2. metas[c] \in Seq(Part) /\ tensors[c] \in Seq(Part) /\ posted[c] \in Seq(Part)
      /\ local_recv[c[1]] \in Seq(Part)
  BY <1>1, Zenon DEF PairIInv, QueueTypes
<1>3. pc[c[1]] = "tensor" => Head(parts[c[1]]) \in Part
  BY <1>1, CurrentPart, Zenon DEF Sending
<1>4. InHand(c) \in Seq(Part)
  BY <1>3 DEF InHand
<1> QED
  BY <1>1, <1>2, <1>4, Zenon DEF PairIInv, Balanced, Asked

(* NCCL joins a receive with the tensor it was posted for.                   *)
LEMMA TransferKeeps ==
    ASSUME PairIInv, NEW p \in Pair, Transfer(p)
    PROVE  PairIInv'
<1>1. /\ UNCHANGED <<puts, send_queue, pc, parts, metas, local_recv, processed>>
      /\ posted[p] # <<>> /\ tensors[p] # <<>>
      /\ posted' = [posted EXCEPT ![p] = Tail(@)]
      /\ tensors' = [tensors EXCEPT ![p] = Tail(@)]
      /\ pending_recvs' = [pending_recvs EXCEPT ![p[2]] =
                              @ \cup {<<Head(posted[p]), Head(tensors[p])>>}]
  BY Zenon DEF Transfer, sendVars
<1>t. /\ QueueTypes /\ OwnParts /\ OwnChannel /\ Matched
      /\ pending_recvs \in [Engine -> SUBSET (Part \X Part)]
  BY Zenon DEF PairIInv
<1>2. p[1] # p[2] /\ Asked(p) = posted[p]
  BY <1>1, <1>t, Zenon DEF OwnChannel, Asked
<1>3. /\ p[2] \in Engine /\ metas[p] \in Seq(Part) /\ tensors[p] \in Seq(Part)
      /\ posted[p] \in Seq(Part) /\ InHand(p) \in Seq(Part)
      /\ posted[p] \o metas[p] = tensors[p] \o InHand(p)
  BY <1>2, BalanceTypes, Zenon
<1>4. /\ Head(posted[p]) = Head(tensors[p])
      /\ Tail(posted[p]) \o metas[p] = Tail(tensors[p]) \o InHand(p)
  <2>1. SameSeq(posted[p], metas[p], tensors[p], InHand(p))
    BY <1>3, Zenon DEF SameSeq
  <2>2. SameFront(posted[p], metas[p], tensors[p], InHand(p))
    BY <2>1, <1>1, <1>3, BothHeads, Zenon
  <2> QED
    BY <2>2, Zenon DEF SameFront, SameSeq
<1>5. /\ Tail(posted[p]) \in Seq(Part) /\ Head(posted[p]) \in Part
      /\ Tail(tensors[p]) \in Seq(Part) /\ Head(tensors[p]) \in Part
      /\ AllOf(Tail(tensors[p]), p)
  BY <1>1, <1>3, <1>t, TailOwn, HeadTailProperties, Zenon DEF OwnChannel
<1>6. /\ posted' \in [Pair -> Seq(Part)] /\ tensors' \in [Pair -> Seq(Part)]
      /\ posted'[p] = Tail(posted[p]) /\ tensors'[p] = Tail(tensors[p])
      /\ \A c \in Pair \ {p} : posted'[c] = posted[c] /\ tensors'[c] = tensors[c]
  BY <1>1, <1>5, <1>t, Zenon DEF QueueTypes
<1>7. QueueTypes' /\ OwnParts'
  BY <1>1, <1>6, <1>t, ZenonT(30) DEF QueueTypes, OwnParts
<1>8. OwnChannel'
  BY <1>1, <1>2, <1>5, <1>6, <1>t, ZenonT(30) DEF OwnChannel
<1>9. ASSUME NEW c \in Pair PROVE Balanced(c)'
  <2>1. InHand(c)' = InHand(c)
    BY <1>1, Zenon DEF InHand
  <2>2. CASE c = p
    BY <2>1, <2>2, <1>1, <1>2, <1>4, <1>6, Zenon DEF Balanced, Asked
  <2>3. CASE c # p
    <3>1. Asked(c)' = Asked(c)
      BY <1>1, <1>6, <2>3, Zenon DEF Asked
    <3> QED
      BY <3>1, <2>1, <2>3, <1>1, <1>6, Zenon DEF Balanced, PairIInv
  <2> QED
    BY <2>2, <2>3, Zenon
<1>10. pending_recvs' \in [Engine -> SUBSET (Part \X Part)] /\ Matched'
  <2> DEFINE new == <<Head(posted[p]), Head(tensors[p])>>
  <2>1. new \in Part \X Part /\ new[1] = new[2]
    BY <1>4, <1>5, Zenon
  <2> HIDE DEF new
  <2>2. pending_recvs' = [pending_recvs EXCEPT ![p[2]] = @ \cup {new}]
    BY <1>1, Zenon DEF new
  <2> QED
    BY <2>1, <2>2, <1>3, <1>t, ZenonT(30) DEF Matched
<1> QED
  BY <1>1, <1>7, <1>8, <1>9, <1>10, Zenon DEF PairIInv, PairedWithOwnTensor

(* A pool reads an announcement and asks for its tensor.                     *)
LEMMA RecvMetadataKeeps ==
    ASSUME PairIInv, NEW e \in Engine, NEW s \in Engine, RecvMetadata(e, s)
    PROVE  PairIInv'
<1> DEFINE p == <<s, e>>
           x == Head(metas[p])
<1>1. /\ UNCHANGED <<puts, send_queue, pc, parts, tensors, pending_recvs, processed>>
      /\ local_recv[e] = <<>> /\ metas[p] # <<>>
      /\ metas' = [metas EXCEPT ![p] = Tail(@)]
      /\ \/ IsLocal(x) /\ local_recv' = [local_recv EXCEPT ![e] = <<x>>] /\ UNCHANGED posted
         \/ ~IsLocal(x) /\ posted' = [posted EXCEPT ![PairOf(x)] = Append(@, x)]
            /\ UNCHANGED local_recv
  BY Zenon DEF RecvMetadata, PostRecv, sendVars
<1>t. QueueTypes /\ OwnParts /\ OwnChannel /\ \A f \in Engine : Len(local_recv[f]) <= 1
  BY Zenon DEF PairIInv
<1>p. p \in Pair /\ p[1] = s /\ p[2] = e
  BY Zenon DEF Pair
<1>b. /\ metas[p] \in Seq(Part) /\ tensors[p] \in Seq(Part) /\ posted[p] \in Seq(Part)
      /\ Asked(p) \in Seq(Part)
      /\ Asked(p) \o metas[p] = tensors[p] \o InHand(p)
  BY <1>p, BalanceTypes, Zenon
<1>2. /\ x \in Part /\ PairOf(x) = p
      /\ Tail(metas[p]) \in Seq(Part) /\ AllOf(Tail(metas[p]), p)
  BY <1>1, <1>p, <1>b, <1>t, TailOwn, Zenon DEF OwnChannel
<1>3. IsLocal(x) <=> s = e
  BY <1>2, <1>p, Zenon DEF IsLocal, PairOf
<1>4. Append(Asked(p), x) \o Tail(metas[p]) = tensors[p] \o InHand(p)
  BY <1>1, <1>b, MoveOne, ZenonT(30)
<1>5. /\ metas' \in [Pair -> Seq(Part)] /\ metas'[p] = Tail(metas[p])
      /\ \A c \in Pair \ {p} : metas'[c] = metas[c]
  BY <1>1, <1>2, <1>p, <1>t, Zenon DEF QueueTypes
<1>x. <<x>> \in Seq(Part) /\ Len(<<x>>) = 1 /\ Append(<<>>, x) = <<x>>
  BY <1>2
<1>i. \A c : InHand(c)' = InHand(c)
  BY <1>1, Zenon DEF InHand
<1>6. CASE s = e
  <2>1. /\ UNCHANGED posted /\ local_recv' = [local_recv EXCEPT ![e] = <<x>>]
    BY <1>1, <1>3, <1>6, Zenon
  <2>2. /\ local_recv' \in [Engine -> Seq(Part)] /\ local_recv'[e] = <<x>>
        /\ \A f \in Engine \ {e} : local_recv'[f] = local_recv[f]
    BY <2>1, <1>x, <1>t, ZenonT(30) DEF QueueTypes
  <2>3. QueueTypes' /\ OwnParts'
    <3>1. QueueTypes'
      BY <2>1, <2>2, <1>1, <1>5, <1>t, ZenonT(30) DEF QueueTypes
    <3>2. OwnParts'
      BY <1>1, <1>t, ZenonT(30) DEF OwnParts
    <3> QED
      BY <3>1, <3>2, Zenon
  <2>4. OwnChannel'
    BY <2>1, <1>1, <1>2, <1>5, <1>t, Zenon DEF OwnChannel
  <2>5. ASSUME NEW f \in Engine PROVE Len(local_recv'[f]) <= 1
    <3>1. CASE f = e
      <4>1. Len(local_recv'[f]) = 1
        BY <3>1, <2>2, <1>x, Zenon
      <4> QED
        BY <4>1
    <3>2. CASE f # e
      BY <3>2, <2>2, <1>t, Zenon
    <3> QED
      BY <3>1, <3>2, Zenon
  <2>6. ASSUME NEW c \in Pair PROVE Balanced(c)'
    <3>1. CASE c = p
      <4>1. Asked(p) = <<>> /\ Asked(c)' = <<x>>
        BY <3>1, <2>2, <1>1, <1>p, <1>6, Zenon DEF Asked
      <4>2. <<x>> \o Tail(metas[p]) = tensors[p] \o InHand(p)
        BY <4>1, <1>4, <1>x, Zenon
      <4> HIDE DEF x, p
      <4> QED
        BY <3>1, <4>1, <4>2, <1>1, <1>5, <1>i, Zenon DEF Balanced
    <3>2. CASE c # p
      <4>1. c[1] = c[2] => c[1] # e /\ c[1] \in Engine
        BY <3>2, <1>6 DEF Pair
      <4>2. Asked(c)' = Asked(c)
        BY <4>1, <2>1, <2>2, Zenon DEF Asked
      <4> HIDE DEF p
      <4> QED
        BY <3>2, <4>2, <1>1, <1>5, <1>i, Zenon DEF Balanced, PairIInv
    <3> QED
      BY <3>1, <3>2, Zenon
  <2> QED
    BY <1>1, <2>3, <2>4, <2>5, <2>6, Zenon DEF PairIInv, Matched, PairedWithOwnTensor
<1>7. CASE s # e
  <2>1. /\ UNCHANGED local_recv /\ posted' = [posted EXCEPT ![p] = Append(@, x)]
    BY <1>1, <1>2, <1>3, <1>7, Zenon
  <2>2. /\ posted' \in [Pair -> Seq(Part)] /\ posted'[p] = Append(posted[p], x)
        /\ \A c \in Pair \ {p} : posted'[c] = posted[c]
    <3>1. Append(posted[p], x) \in Seq(Part)
      BY <1>2, <1>b, AppendProperties, Zenon
    <3> HIDE DEF x, p
    <3> QED
      BY <2>1, <3>1, <1>p, <1>t, Zenon DEF QueueTypes
  <2>3. QueueTypes' /\ OwnParts'
    BY <2>1, <2>2, <1>1, <1>5, <1>t, ZenonT(30) DEF QueueTypes, OwnParts
  <2>4. OwnChannel'
    BY <2>2, <1>1, <1>2, <1>5, <1>p, <1>7, <1>t, ZenonT(30) DEF OwnChannel
  <2>6. ASSUME NEW c \in Pair PROVE Balanced(c)'
    <3>1. CASE c = p
      <4>1. Asked(p) = posted[p] /\ Asked(c)' = Append(posted[p], x)
        BY <3>1, <2>2, <1>p, <1>7, Zenon DEF Asked
      <4> HIDE DEF x, p
      <4> QED
        BY <3>1, <4>1, <1>1, <1>4, <1>5, <1>i, Zenon DEF Balanced
    <3>2. CASE c # p
      <4>2. Asked(c)' = Asked(c)
        BY <3>2, <2>1, <2>2, Zenon DEF Asked
      <4> HIDE DEF p
      <4> QED
        BY <3>2, <4>2, <1>1, <1>5, <1>i, Zenon DEF Balanced, PairIInv
    <3> QED
      BY <3>1, <3>2, Zenon
  <2> QED
    BY <1>1, <2>1, <2>3, <2>4, <2>6, Zenon DEF PairIInv, Matched, PairedWithOwnTensor
<1> QED
  BY <1>6, <1>7, Zenon

(* A local part is received with its own tensor.                             *)
LEMMA RecvLocalKeeps ==
    ASSUME PairIInv, NEW e \in Engine, RecvLocal(e)
    PROVE  PairIInv'
<1> DEFINE p == <<e, e>>
<1>1. /\ UNCHANGED <<puts, send_queue, pc, parts, metas, posted, pending_recvs>>
      /\ local_recv[e] # <<>> /\ tensors[p] # <<>>
      /\ local_recv' = [local_recv EXCEPT ![e] = <<>>]
      /\ tensors' = [tensors EXCEPT ![p] = Tail(@)]
      /\ processed' = processed \cup {<<Head(local_recv[e]), Head(tensors[p])>>}
  BY Zenon DEF RecvLocal, sendVars
<1>t. QueueTypes /\ OwnParts /\ OwnChannel /\ \A f \in Engine : Len(local_recv[f]) <= 1
  BY Zenon DEF PairIInv
<1>p. p \in Pair /\ p[1] = e /\ p[2] = e
  BY Zenon DEF Pair
<1>2. /\ metas[p] \in Seq(Part) /\ tensors[p] \in Seq(Part) /\ InHand(p) \in Seq(Part)
      /\ Asked(p) = local_recv[e] /\ local_recv[e] \in Seq(Part)
      /\ SameSeq(local_recv[e], metas[p], tensors[p], InHand(p))
  BY <1>p, <1>t, BalanceTypes, Zenon DEF Asked, QueueTypes, SameSeq
<1>3. SameFront(local_recv[e], metas[p], tensors[p], InHand(p))
  BY <1>1, <1>2, BothHeads, Zenon
<1>4. Tail(local_recv[e]) = <<>>
  <2>1. /\ Len(local_recv[e]) \in Nat \ {0}
        /\ Tail(local_recv[e]) \in Seq(Part) /\ Len(Tail(local_recv[e])) = Len(local_recv[e]) - 1
    BY <1>1, <1>2, EmptySeq, HeadTailProperties, Zenon
  <2>2. Len(local_recv[e]) <= 1
    BY <1>t, Zenon
  <2>3. Len(Tail(local_recv[e])) = 0
    <3> DEFINE n == Len(local_recv[e])
               m == Len(Tail(local_recv[e]))
    <3> SUFFICES m = 0
      BY Zenon
    <3>1. n \in Nat \ {0} /\ m = n - 1 /\ n <= 1
      BY <2>1, <2>2, Zenon
    <3> HIDE DEF n, m
    <3> QED
      BY <3>1
  <2> QED
    BY <2>1, <2>3, EmptySeq, Zenon
<1>5. <<>> \o metas[p] = Tail(tensors[p]) \o InHand(p)
  BY <1>3, <1>4, Zenon DEF SameFront, SameSeq
<1>6. Tail(tensors[p]) \in Seq(Part) /\ AllOf(Tail(tensors[p]), p)
  BY <1>1, <1>2, <1>p, <1>t, TailOwn, Zenon DEF OwnChannel
<1>7. /\ tensors' \in [Pair -> Seq(Part)] /\ tensors'[p] = Tail(tensors[p])
      /\ \A c \in Pair \ {p} : tensors'[c] = tensors[c]
  <2> HIDE DEF p
  <2> QED
    BY <1>1, <1>6, <1>p, <1>t, Zenon DEF QueueTypes
<1>8. /\ local_recv' \in [Engine -> Seq(Part)] /\ local_recv'[e] = <<>>
      /\ \A f \in Engine \ {e} : local_recv'[f] = local_recv[f]
  BY <1>1, <1>t DEF QueueTypes
<1>9. QueueTypes' /\ OwnParts'
  BY <1>1, <1>7, <1>8, <1>t, ZenonT(30) DEF QueueTypes, OwnParts
<1>10. OwnChannel'
  <2> HIDE DEF p
  <2> QED
    BY <1>1, <1>6, <1>7, <1>t, Zenon DEF OwnChannel
<1>11. ASSUME NEW f \in Engine PROVE Len(local_recv'[f]) <= 1
  <2>1. CASE f = e
    BY <2>1, <1>8
  <2>2. CASE f # e
    BY <2>2, <1>8, <1>t, Zenon
  <2> QED
    BY <2>1, <2>2, Zenon
<1>12. ASSUME NEW c \in Pair PROVE Balanced(c)'
  <2>1. InHand(c)' = InHand(c)
    BY <1>1, Zenon DEF InHand
  <2>2. CASE c = p
    <3>1. Asked(c)' = <<>>
      BY <2>2, <1>8, <1>p, Zenon DEF Asked
    <3> HIDE DEF p
    <3> QED
      BY <3>1, <2>1, <2>2, <1>1, <1>5, <1>7, Zenon DEF Balanced
  <2>3. CASE c # p
    <3>1. c[1] = c[2] => c[1] # e /\ c[1] \in Engine
      BY <2>3 DEF Pair
    <3>2. Asked(c)' = Asked(c)
      BY <3>1, <1>1, <1>8, Zenon DEF Asked
    <3> HIDE DEF p
    <3> QED
      BY <3>2, <2>1, <2>3, <1>1, <1>7, Zenon DEF Balanced, PairIInv
  <2> QED
    BY <2>2, <2>3, Zenon
<1>13. PairedWithOwnTensor'
  <2>1. Head(local_recv[e]) = Head(tensors[p])
    BY <1>3, Zenon DEF SameFront
  <2> HIDE DEF p
  <2> QED
    BY <2>1, <1>1 DEF PairIInv, PairedWithOwnTensor
<1> QED
  BY <1>1, <1>9, <1>10, <1>11, <1>12, <1>13, Zenon DEF PairIInv, Matched

(* A completed receive is processed as it was matched.                       *)
LEMMA ProcessKeeps ==
    ASSUME PairIInv, NEW e \in Engine, NEW x \in pending_recvs[e], ProcessRecv(e, x)
    PROVE  PairIInv'
<1>1. /\ UNCHANGED <<puts, send_queue, pc, parts, metas, tensors, posted, local_recv>>
      /\ pending_recvs' = [pending_recvs EXCEPT ![e] = @ \ {x}]
      /\ processed' = processed \cup {x}
  BY Zenon DEF ProcessRecv, sendVars
<1>2. QueueTypes' /\ OwnParts' /\ OwnChannel'
  BY <1>1, Zenon DEF PairIInv, QueueTypes, OwnParts, OwnChannel
<1>3. \A c \in Pair : Balanced(c)'
  BY <1>1, BalanceFrame, Zenon DEF PairIInv
<1>4. pending_recvs' \in [Engine -> SUBSET (Part \X Part)] /\ Matched' /\ PairedWithOwnTensor'
  BY <1>1, Zenon DEF PairIInv, Matched, PairedWithOwnTensor
<1> QED
  BY <1>1, <1>2, <1>3, <1>4, Zenon DEF PairIInv

(* At first every queue is empty.                                            *)
LEMMA PairInit == Init => PairIInv
<1> SUFFICES ASSUME Init PROVE PairIInv
  BY Zenon
<1>1. QueueTypes
  BY DEF Init, QueueTypes, Sending
<1>2. OwnParts
  BY DEF Init, OwnParts, AllFrom, Sending
<1>3. OwnChannel
  BY DEF Init, OwnChannel, AllOf
<1>4. ASSUME NEW c \in Pair PROVE Balanced(c)
  <2>1. c[1] \in Engine
    BY Zenon DEF Pair
  <2>2. metas[c] = <<>> /\ tensors[c] = <<>> /\ Asked(c) = <<>> /\ InHand(c) = <<>>
    BY <2>1, Zenon DEF Init, Asked, InHand
  <2> QED
    BY <2>2, Zenon DEF Balanced
<1>5. \A e \in Engine : Len(local_recv[e]) <= 1
  BY DEF Init
<1>6. pending_recvs \in [Engine -> SUBSET (Part \X Part)] /\ Matched /\ PairedWithOwnTensor
  BY Zenon DEF Init, Matched, PairedWithOwnTensor
<1> QED
  BY <1>1, <1>2, <1>3, <1>4, <1>5, <1>6, Zenon DEF PairIInv

(* Every step of a dispatcher, a pool or a channel keeps the pairs balanced. *)
LEMMA PairNext == PairIInv /\ [Next]_vars => PairIInv'
<1> SUFFICES ASSUME PairIInv, [Next]_vars PROVE PairIInv'
  BY Zenon
<1>1. ASSUME NEW e \in Engine, NEW route \in Route, Put(e, route) PROVE PairIInv'
  BY <1>1, PutKeeps, Zenon
<1>2. ASSUME NEW e \in Engine, Dispatcher(e) PROVE PairIInv'
  BY <1>2, QuietKeeps, MetadataKeeps, TensorKeeps, Zenon DEF Dispatcher
<1>3. ASSUME NEW e \in Engine, RecvLocal(e) PROVE PairIInv'
  BY <1>3, RecvLocalKeeps, Zenon
<1>4. ASSUME NEW c \in Pair, Transfer(c) PROVE PairIInv'
  BY <1>4, TransferKeeps, Zenon
<1>5. ASSUME NEW e \in Engine, NEW s \in Engine, RecvMetadata(e, s) PROVE PairIInv'
  BY <1>5, RecvMetadataKeeps, Zenon
<1>6. ASSUME NEW e \in Engine, NEW x \in pending_recvs[e], ProcessRecv(e, x) PROVE PairIInv'
  BY <1>6, ProcessKeeps, Zenon
<1>7. CASE UNCHANGED vars
  <2>1. UNCHANGED <<puts, send_queue, pc, parts, metas, tensors, posted, local_recv,
                    pending_recvs, processed>>
    BY <1>7, Zenon DEF vars, sendVars, recvVars
  <2>2. \A c \in Pair : Balanced(c)'
    BY <2>1, BalanceFrame, Zenon DEF PairIInv
  <2> QED
    BY <2>1, <2>2, Zenon
       DEF PairIInv, QueueTypes, OwnParts, OwnChannel, Matched, PairedWithOwnTensor
<1> QED
  BY <1>1, <1>2, <1>3, <1>4, <1>5, <1>6, <1>7, Zenon DEF Next, Pool

(* Metadata and tensor of a part meet again in the peer's pool, although only *)
(* their order relates them, for any number of engines, parts and pending    *)
(* sends.                                                                    *)
THEOREM PartsArePaired == Spec => []PairedWithOwnTensor
<1>1. PairIInv => PairedWithOwnTensor
  BY Zenon DEF PairIInv
<1> QED
  BY <1>1, PairInit, PairNext, PTL DEF Spec

-----------------------------------------------------------------------------
(* The elements of a queue, seen from both of its ends.                      *)
LEMMA QueueElements ==
    ASSUME NEW q \in Seq(Part)
    PROVE  /\ \A x \in Part : Range(Append(q, x)) = Range(q) \cup {x}
           /\ q # <<>> => Range(Tail(q)) \subseteq Range(q)
           /\ q # <<>> => Range(q) \subseteq Range(Tail(q)) \cup {Head(q)}
<1>1. ASSUME NEW x \in Part PROVE Range(Append(q, x)) = Range(q) \cup {x}
  <2>1. /\ DOMAIN q = 1 .. Len(q) /\ Len(q) \in Nat
        /\ DOMAIN Append(q, x) = 1 .. Len(q) + 1
        /\ \A i \in 1 .. Len(q) : Append(q, x)[i] = q[i]
        /\ Append(q, x)[Len(q) + 1] = x
    BY AppendProperties
  <2>2. \A i \in 1 .. Len(q) + 1 : i \in 1 .. Len(q) \/ i = Len(q) + 1
    BY <2>1
  <2>3. 1 .. Len(q) \subseteq 1 .. Len(q) + 1 /\ Len(q) + 1 \in 1 .. Len(q) + 1
    BY <2>1
  <2> QED
    BY <2>1, <2>2, <2>3, Zenon DEF Range
<1>2. ASSUME q # <<>>
      PROVE  Range(Tail(q)) \subseteq Range(q) /\ Range(q) \subseteq Range(Tail(q)) \cup {Head(q)}
  <2>1. /\ DOMAIN q = 1 .. Len(q) /\ Len(q) \in Nat \ {0} /\ Head(q) = q[1]
        /\ Tail(q) \in Seq(Part) /\ Len(Tail(q)) = Len(q) - 1
        /\ DOMAIN Tail(q) = 1 .. Len(Tail(q))
        /\ \A i \in 1 .. Len(Tail(q)) : Tail(q)[i] = q[i + 1]
    BY <1>2, EmptySeq, HeadTailProperties
  <2>2. \A i \in 1 .. Len(Tail(q)) : i + 1 \in 1 .. Len(q)
    BY <2>1
  <2>3. \A i \in 1 .. Len(q) : i = 1 \/ \E j \in 1 .. Len(Tail(q)) : Tail(q)[j] = q[i]
    <3> SUFFICES ASSUME NEW i \in 1 .. Len(q), i # 1
                 PROVE  \E j \in 1 .. Len(Tail(q)) : Tail(q)[j] = q[i]
      BY Zenon
    <3>1. i - 1 \in 1 .. Len(Tail(q)) /\ (i - 1) + 1 = i
      BY <2>1
    <3> QED
      BY <3>1, <2>1, Zenon
  <2>4. Range(Tail(q)) \subseteq Range(q)
    <3> SUFFICES ASSUME NEW i \in 1 .. Len(Tail(q)) PROVE Tail(q)[i] \in Range(q)
      BY <2>1, Zenon DEF Range
    <3>1. i + 1 \in DOMAIN q /\ Tail(q)[i] = q[i + 1]
      BY <2>1, <2>2, Zenon
    <3> QED
      BY <3>1, Zenon DEF Range
  <2>5. Range(q) \subseteq Range(Tail(q)) \cup {Head(q)}
    <3> DEFINE ends == Range(Tail(q)) \cup {Head(q)}
    <3>1. ASSUME NEW i \in 1 .. Len(q) PROVE q[i] \in ends
      BY <2>1, <2>3, Zenon DEF Range
    <3> HIDE DEF ends
    <3>2. Range(q) \subseteq ends
      BY <3>1, <2>1, Zenon DEF Range
    <3> QED
      BY <3>2, Zenon DEF ends
  <2> QED
    BY <2>4, <2>5, Zenon
<1> QED
  BY <1>1, <1>2, Zenon

(* The elements behind the first k.                                          *)
LEMMA QueueRest ==
    ASSUME NEW q \in Seq(Part), NEW k \in 0 .. Len(q)
    PROVE  LET rest == SubSeq(q, k + 1, Len(q))
           IN  /\ rest \in Seq(Part) /\ Len(rest) = Len(q) - k
               /\ \A i \in k + 1 .. Len(q) : q[i] \in Range(rest)
<1> DEFINE rest == SubSeq(q, k + 1, Len(q))
<1>0. Len(q) \in Nat /\ k \in Nat /\ k <= Len(q)
  OBVIOUS
<1>1. /\ rest \in Seq(Part) /\ Len(rest) = Len(q) - k
      /\ \A i \in 1 .. Len(q) - k : rest[i] = q[k + i]
  <2>1. \A i \in k + 1 .. Len(q) : q[i] \in Part
    BY <1>0
  <2>2. Len(rest) = Len(q) - k
    BY <1>0
  <2>3. \A i \in 1 .. Len(q) - k : rest[i] = q[k + i]
    BY <1>0
  <2>4. rest \in Seq(Part)
    BY <1>0
  <2> QED
    BY <2>2, <2>3, <2>4, Zenon
<1> HIDE DEF rest
<1>2. ASSUME NEW i \in k + 1 .. Len(q) PROVE q[i] \in Range(rest)
  <2>1. i - k \in 1 .. Len(rest) /\ k + (i - k) = i
    BY <1>0, <1>1
  <2>2. rest[i - k] = q[i] /\ i - k \in DOMAIN rest
    BY <2>1, <1>1
  <2> QED
    BY <2>2, Zenon DEF Range
<1> QED
  BY <1>1, <1>2, Zenon DEF rest

(* The event of a send still on its channel is not ready.                    *)
LEMMA NotReady ==
    ASSUME PairIInv, NEW e \in Engine, NEW d \in Engine \ {e}, NEW x \in Range(tensors[<<e, d>>])
    PROVE  ~Ready(x)
<1>1. <<e, d>> \in Pair
  BY Zenon DEF Pair
<1>2. tensors[<<e, d>>] \in Seq(Part) /\ AllOf(tensors[<<e, d>>], <<e, d>>)
  BY <1>1, Zenon DEF PairIInv, QueueTypes, OwnChannel
<1>3. PairOf(x) = <<e, d>>
  <2> DEFINE q == tensors[<<e, d>>]
  <2>1. PICK i \in DOMAIN q : x = q[i]
    BY Zenon DEF Range
  <2>2. DOMAIN q = 1 .. Len(q)
    BY <1>2
  <2> QED
    BY <1>2, <2>1, <2>2, Zenon DEF AllOf
<1> QED
  BY <1>3, Zenon DEF Ready, IsLocal, PairOf

(* Steps that leave the dispatchers alone and at most take from channels.    *)
LEMMA ReceiveKeepsSources ==
    ASSUME SendIInv, UNCHANGED <<pc, pending_sends>>,
           \A c \in Pair : Range(tensors'[c]) \subseteq Range(tensors[c])
    PROVE  SendIInv'
<1>1. \A e, d \in Engine : <<e, d>> \in Pair
  BY Zenon DEF Pair
<1> QED
  BY <1>1, Zenon DEF SendIInv, SourcesKeptAlive, Alive

(* The dispatcher's own steps, seen from the engine that takes one.          *)
LEMMA SourcesFrame ==
    ASSUME SendIInv, NEW e \in Engine,
           \A f \in Engine \ {e} : pc'[f] = pc[f] /\ pending_sends'[f] = pending_sends[f],
           \A f \in Engine \ {e}, d \in Engine : tensors'[<<f, d>>] = tensors[<<f, d>>],
           pending_sends' \in [Engine -> Seq(Part)],
           pc'[e] # "dead" => \A d \in Engine \ {e} :
               Range(tensors'[<<e, d>>]) \subseteq Range(pending_sends'[e]),
           Len(pending_sends'[e]) <= MaxPending[e],
           pc'[e] \in {"metadata", "tensor"} => Len(pending_sends'[e]) < MaxPending[e]
    PROVE  SendIInv'
<1>1. ASSUME NEW f \in Engine
      PROVE  /\ pc'[f] # "dead" => \A d \in Engine \ {f} :
                    Range(tensors'[<<f, d>>]) \subseteq Range(pending_sends'[f])
             /\ Len(pending_sends'[f]) <= MaxPending[f]
             /\ pc'[f] \in {"metadata", "tensor"} => Len(pending_sends'[f]) < MaxPending[f]
  <2>1. CASE f = e
    BY <2>1, Zenon
  <2>2. CASE f # e
    BY <2>2, Zenon DEF SendIInv, SourcesKeptAlive, Alive
  <2> QED
    BY <2>1, <2>2, Zenon
<1> QED
  BY <1>1, Zenon DEF SendIInv, SourcesKeptAlive, Alive

(* clean_pending_sends forgets only sends whose event is ready.              *)
LEMMA CleanKeepsSources ==
    ASSUME PairIInv, SendIInv, NEW e \in Engine, CleanPendingSends(e)
    PROVE  SendIInv'
<1> DEFINE q == pending_sends[e]
<1>1. PICK k \in Poppable(e) :
         LET left == SubSeq(q, k + 1, Len(q))
         IN  /\ \/ /\ pending_sends' = [pending_sends EXCEPT ![e] = <<>>]
                   /\ pc' = [pc EXCEPT ![e] = "dead"]
                \/ /\ pending_sends' = [pending_sends EXCEPT ![e] = left]
                   /\ pc' = [pc EXCEPT ![e] = "wait"]
             /\ UNCHANGED tensors
  BY Zenon DEF CleanPendingSends
<1> DEFINE left == SubSeq(q, k + 1, Len(q))
<1>2. /\ q \in Seq(Part) /\ Len(q) <= MaxPending[e] /\ Len(q) \in Nat
      /\ k \in 0 .. Len(q) /\ \A i \in 1 .. k : Ready(q[i])
  BY DEF Poppable, SendIInv, SourcesKeptAlive
<1>3. /\ left \in Seq(Part) /\ Len(left) = Len(q) - k
      /\ \A i \in k + 1 .. Len(q) : q[i] \in Range(left)
  BY <1>2, QueueRest, Zenon
<1>4. Len(left) <= MaxPending[e]
  BY <1>2, <1>3, TransportAssumption
<1>5. pc \in [Engine -> {"clean", "wait", "dead"} \cup Sending]
      /\ pending_sends \in [Engine -> Seq(Part)]
  BY Zenon DEF PairIInv, QueueTypes, SendIInv
<1>6. CASE pending_sends' = [pending_sends EXCEPT ![e] = <<>>] /\ pc' = [pc EXCEPT ![e] = "dead"]
  <2>1. /\ pending_sends' \in [Engine -> Seq(Part)] /\ pending_sends'[e] = <<>> /\ pc'[e] = "dead"
        /\ \A f \in Engine \ {e} : pc'[f] = pc[f] /\ pending_sends'[f] = pending_sends[f]
    BY <1>5, <1>6
  <2>2. Len(pending_sends'[e]) <= MaxPending[e]
    BY <2>1, TransportAssumption
  <2> QED
    BY <2>1, <2>2, <1>1, SourcesFrame, Zenon
<1>7. CASE pending_sends' = [pending_sends EXCEPT ![e] = left] /\ pc' = [pc EXCEPT ![e] = "wait"]
  <2>0. pc[e] # "dead"
    BY Zenon DEF CleanPendingSends
  <2>1. ASSUME NEW d \in Engine \ {e}, NEW x \in Range(tensors[<<e, d>>])
        PROVE  x \in Range(left)
    <3>1. x \in Range(q)
      BY <2>0, Zenon DEF SendIInv, SourcesKeptAlive, Alive
    <3>2. PICK i \in 1 .. Len(q) : x = q[i]
      <4>1. DOMAIN q = 1 .. Len(q)
        BY <1>2
      <4> QED
        BY <3>1, <4>1, Zenon DEF Range
    <3>3. ~Ready(q[i])
      BY <3>2, NotReady, Zenon
    <3>4. i \in k + 1 .. Len(q)
      BY <3>3, <1>2
    <3> QED
      BY <3>2, <3>4, <1>3, Zenon
  <2> HIDE DEF left
  <2>2. /\ pending_sends' \in [Engine -> Seq(Part)] /\ pending_sends'[e] = left /\ pc'[e] = "wait"
        /\ \A f \in Engine \ {e} : pc'[f] = pc[f] /\ pending_sends'[f] = pending_sends[f]
    BY <1>3, <1>5, <1>7, Zenon
  <2> QED
    BY <2>1, <2>2, <1>1, <1>4, SourcesFrame, Zenon
<1> QED
  BY <1>1, <1>6, <1>7, Zenon

(* drain_pending_sends_to makes room by waiting for the oldest event.        *)
LEMMA DrainKeepsSources ==
    ASSUME PairIInv, SendIInv, NEW e \in Engine, DrainPendingSends(e)
    PROVE  SendIInv'
<1> DEFINE q == pending_sends[e]
<1>1. pc[e] = "drain" /\ StepOn(e) /\ UNCHANGED tensors
  BY Zenon DEF DrainPendingSends
<1>2. parts[e] \in Seq(Part) /\ parts[e] # <<>>
      /\ pc \in [Engine -> {"clean", "wait", "dead"} \cup Sending]
      /\ pending_sends \in [Engine -> Seq(Part)]
  BY <1>1, CurrentPart, Zenon DEF Sending, PairIInv, QueueTypes, SendIInv
<1>3. pc'[e] = "metadata" /\ \A f \in Engine \ {e} : pc'[f] = pc[f]
  BY <1>1, <1>2, StepOnFacts, Zenon DEF Sending
<1>4. /\ q \in Seq(Part) /\ Len(q) <= MaxPending[e] /\ Len(q) \in Nat
      /\ \A d \in Engine \ {e} : Range(tensors[<<e, d>>]) \subseteq Range(q)
  <2>1. q \in Seq(Part) /\ Len(q) \in Nat
    BY <1>2
  <2>2. Len(q) <= MaxPending[e]
    BY <1>1, Zenon DEF SendIInv, SourcesKeptAlive, Alive
  <2>3. pc[e] # "dead"
    BY <1>1, Zenon
  <2>4. \A d \in Engine \ {e} : Range(tensors[<<e, d>>]) \subseteq Range(q)
    BY <2>3, Zenon DEF SendIInv, SourcesKeptAlive, Alive
  <2> QED
    BY <2>1, <2>2, <2>4, Zenon
<1>5. CASE Len(q) < MaxPending[e] /\ UNCHANGED pending_sends
  BY <1>1, <1>2, <1>3, <1>4, <1>5, SourcesFrame, Zenon
<1>6. CASE /\ Len(q) >= MaxPending[e] /\ Ready(Head(q))
           /\ pending_sends' = [pending_sends EXCEPT ![e] = Tail(@)]
  <2>1. q # <<>>
    BY <1>4, <1>6, TransportAssumption, EmptySeq
  <2>2. Tail(q) \in Seq(Part) /\ Len(Tail(q)) = Len(q) - 1
    BY <2>1, <1>4, HeadTailProperties, Zenon
  <2>3. Len(Tail(q)) < MaxPending[e]
    <3> DEFINE n == Len(q)
               m == Len(Tail(q))
    <3> SUFFICES m < MaxPending[e]
      BY Zenon
    <3>1. n \in Nat /\ n <= MaxPending[e] /\ m = n - 1 /\ MaxPending[e] \in Nat
      BY <1>4, <2>2, TransportAssumption, Zenon
    <3> HIDE DEF n, m
    <3> QED
      BY <3>1
  <2>4. \A d \in Engine \ {e} : Range(tensors[<<e, d>>]) \subseteq Range(Tail(q))
    <3> SUFFICES ASSUME NEW d \in Engine \ {e}, NEW x \in Range(tensors[<<e, d>>])
                 PROVE  x \in Range(Tail(q))
      BY Zenon
    <3>1. x \in Range(q)
      BY <1>4, Zenon
    <3>2. x # Head(q)
      BY <1>6, NotReady, Zenon
    <3> QED
      BY <3>1, <3>2, <2>1, <1>4, QueueElements, Zenon
  <2>5. /\ pending_sends' \in [Engine -> Seq(Part)] /\ pending_sends'[e] = Tail(q)
        /\ \A f \in Engine \ {e} : pending_sends'[f] = pending_sends[f]
    BY <1>2, <1>6, <2>2, Zenon
  <2>6. Len(Tail(q)) <= MaxPending[e]
    BY <2>2, <2>3, <1>4, TransportAssumption
  <2> HIDE DEF q
  <2> QED
    BY <1>1, <1>3, <2>3, <2>4, <2>5, <2>6, SourcesFrame, Zenon
<1> QED
  BY <1>5, <1>6, Zenon DEF DrainPendingSends

(* The tensor is kept from the moment it is on the channel.                  *)
LEMMA TensorKeepsSources ==
    ASSUME PairIInv, SendIInv, NEW e \in Engine, SendTensor(e)
    PROVE  SendIInv'
<1> DEFINE q == pending_sends[e]
           x == Head(parts[e])
           c == PairOf(x)
<1>1. /\ pc[e] = "tensor" /\ StepOn(e)
      /\ tensors' = [tensors EXCEPT ![c] = Append(@, x)]
      /\ pending_sends' = [pending_sends EXCEPT ![e] = Append(@, x)]
  BY Zenon DEF SendTensor
<1>2. /\ parts[e] \in Seq(Part) /\ parts[e] # <<>> /\ x \in Part /\ c \in Pair /\ c[1] = e
      /\ pc \in [Engine -> {"clean", "wait", "dead"} \cup Sending]
      /\ pending_sends \in [Engine -> Seq(Part)] /\ tensors \in [Pair -> Seq(Part)]
  BY <1>1, CurrentPart, Zenon DEF Sending, PairIInv, QueueTypes, SendIInv
<1>3. pc'[e] \in {"drain", "clean"} /\ \A f \in Engine \ {e} : pc'[f] = pc[f]
  BY <1>1, <1>2, StepOnFacts, Zenon DEF Sending
<1>4. /\ q \in Seq(Part) /\ Len(q) < MaxPending[e] /\ Len(q) \in Nat
      /\ \A d \in Engine \ {e} : Range(tensors[<<e, d>>]) \subseteq Range(q)
  <2>1. q \in Seq(Part) /\ Len(q) \in Nat
    BY <1>2
  <2>2. Len(q) < MaxPending[e]
    BY <1>1, Zenon DEF SendIInv, SourcesKeptAlive, Alive
  <2>3. pc[e] # "dead"
    BY <1>1, Zenon
  <2>4. \A d \in Engine \ {e} : Range(tensors[<<e, d>>]) \subseteq Range(q)
    BY <2>3, Zenon DEF SendIInv, SourcesKeptAlive, Alive
  <2> QED
    BY <2>1, <2>2, <2>4, Zenon
<1> HIDE DEF q, x, c
<1>5. /\ Append(q, x) \in Seq(Part) /\ Len(Append(q, x)) <= MaxPending[e]
      /\ Range(Append(q, x)) = Range(q) \cup {x}
  <2>1. Append(q, x) \in Seq(Part) /\ Len(Append(q, x)) = Len(q) + 1
    BY <1>2, <1>4, AppendProperties
  <2>2. Len(Append(q, x)) <= MaxPending[e]
    BY <2>1, <1>4, TransportAssumption
  <2> QED
    BY <2>1, <2>2, <1>2, <1>4, QueueElements, Zenon
<1>6. \A d \in Engine \ {e} : Range(tensors'[<<e, d>>]) \subseteq Range(Append(q, x))
  <2> SUFFICES ASSUME NEW d \in Engine \ {e}
               PROVE  Range(tensors'[<<e, d>>]) \subseteq Range(q) \cup {x}
    BY <1>5, Zenon
  <2>1. <<e, d>> \in Pair /\ tensors[<<e, d>>] \in Seq(Part)
    BY <1>2, Zenon DEF Pair
  <2>2. CASE <<e, d>> = c
    <3>1. tensors'[<<e, d>>] = Append(tensors[<<e, d>>], x)
      BY <2>2, <1>1, <1>2, Zenon
    <3>2. Range(Append(tensors[<<e, d>>], x)) = Range(tensors[<<e, d>>]) \cup {x}
      BY <2>1, <1>2, QueueElements, Zenon
    <3> QED
      BY <3>1, <3>2, <1>4, Zenon
  <2>3. CASE <<e, d>> # c
    BY <2>1, <2>3, <1>1, <1>2, <1>4, Zenon
  <2> QED
    BY <2>2, <2>3, Zenon
<1>7. \A f \in Engine \ {e}, d \in Engine : tensors'[<<f, d>>] = tensors[<<f, d>>]
  <2> SUFFICES ASSUME NEW f \in Engine \ {e}, NEW d \in Engine
               PROVE  tensors'[<<f, d>>] = tensors[<<f, d>>]
    BY Zenon
  <2>1. <<f, d>> \in Pair /\ <<f, d>> # c
    BY <1>2 DEF Pair
  <2> QED
    BY <2>1, <1>1, <1>2, Zenon
<1>8. /\ pending_sends' \in [Engine -> Seq(Part)] /\ pending_sends'[e] = Append(q, x)
      /\ \A f \in Engine \ {e} : pending_sends'[f] = pending_sends[f]
  <2>1. Append(pending_sends[e], x) = Append(q, x)
    BY Zenon DEF q
  <2> QED
    BY <2>1, <1>1, <1>2, <1>5, Zenon
<1> QED
  BY <1>3, <1>5, <1>6, <1>7, <1>8, SourcesFrame, Zenon

(* At first there is nothing to keep alive.                                  *)
LEMMA SendInit == Init => SendIInv
<1> SUFFICES ASSUME Init PROVE SendIInv
  BY Zenon
<1>1. pending_sends \in [Engine -> Seq(Part)]
      /\ \A e \in Engine : pc[e] = "clean" /\ Len(pending_sends[e]) = 0
  BY DEF Init
<1>2. \A e, d \in Engine : Range(tensors[<<e, d>>]) = {}
  <2> SUFFICES ASSUME NEW e \in Engine, NEW d \in Engine PROVE Range(tensors[<<e, d>>]) = {}
    BY Zenon
  <2>1. <<e, d>> \in Pair
    BY Zenon DEF Pair
  <2>2. tensors[<<e, d>>] = <<>>
    BY <2>1, Zenon DEF Init
  <2> QED
    BY <2>2 DEF Range
<1>3. \A e \in Engine : Len(pending_sends[e]) <= MaxPending[e]
  <2> SUFFICES ASSUME NEW e \in Engine PROVE Len(pending_sends[e]) <= MaxPending[e]
    BY Zenon
  <2>1. MaxPending[e] \in Nat
    BY TransportAssumption, Zenon
  <2>2. Len(pending_sends[e]) = 0
    BY <1>1, Zenon
  <2> QED
    BY <2>1, <2>2
<1>4. \A e \in Engine : pc[e] \notin {"metadata", "tensor"}
  BY <1>1, Zenon
<1> QED
  BY <1>1, <1>2, <1>3, <1>4, Zenon DEF SendIInv, SourcesKeptAlive, Alive

(* Every step of a dispatcher, a pool or a channel keeps the sources.        *)
LEMMA SendNext == PairIInv /\ SendIInv /\ [Next]_vars => SendIInv'
<1> SUFFICES ASSUME PairIInv, SendIInv, [Next]_vars PROVE SendIInv'
  BY Zenon
<1>0. ASSUME UNCHANGED <<pc, pending_sends, tensors>> PROVE SendIInv'
  BY <1>0, ReceiveKeepsSources, Zenon
<1>1. ASSUME NEW e \in Engine, NEW route \in Route, Put(e, route) PROVE SendIInv'
  BY <1>0, <1>1, Zenon DEF Put
<1>2. ASSUME NEW e \in Engine, NextBatch(e) \/ SendMetadata(e) PROVE SendIInv'
  <2>1. UNCHANGED <<pending_sends, tensors>>
        /\ pc \in [Engine -> {"clean", "wait", "dead"} \cup Sending]
        /\ pending_sends \in [Engine -> Seq(Part)]
    BY <1>2, Zenon DEF NextBatch, SendMetadata, PairIInv, QueueTypes, SendIInv
  <2>2. CASE NextBatch(e)
    <3>1. pc[e] = "wait" /\ pc' = [pc EXCEPT ![e] = "drain"]
      BY <2>2 DEF NextBatch, SendOrder
    <3>2. pc'[e] = "drain" /\ \A f \in Engine \ {e} : pc'[f] = pc[f]
      BY <2>1, <3>1, Zenon
    <3> QED
      BY <2>1, <3>1, <3>2, SourcesFrame, Zenon DEF SendIInv, SourcesKeptAlive, Alive
  <2>3. CASE SendMetadata(e)
    <3>1. pc[e] = "metadata" /\ StepOn(e)
      BY <2>3, Zenon DEF SendMetadata
    <3>2. parts[e] \in Seq(Part) /\ parts[e] # <<>>
      BY <3>1, CurrentPart, Zenon DEF Sending
    <3>3. pc'[e] = "tensor" /\ \A f \in Engine \ {e} : pc'[f] = pc[f]
      BY <2>1, <3>1, <3>2, StepOnFacts, Zenon DEF Sending
    <3> QED
      BY <2>1, <3>1, <3>3, SourcesFrame, Zenon DEF SendIInv, SourcesKeptAlive, Alive
  <2> QED
    BY <1>2, <2>2, <2>3, Zenon
<1>3. ASSUME NEW e \in Engine, Dispatcher(e) PROVE SendIInv'
  BY <1>2, <1>3, CleanKeepsSources, DrainKeepsSources, TensorKeepsSources, Zenon DEF Dispatcher
<1>4. ASSUME NEW c \in Pair, tensors[c] # <<>>, UNCHANGED <<pc, pending_sends>>,
             tensors' = [tensors EXCEPT ![c] = Tail(@)]
      PROVE  SendIInv'
  <2>1. tensors \in [Pair -> Seq(Part)]
    BY Zenon DEF PairIInv, QueueTypes
  <2>2. Range(Tail(tensors[c])) \subseteq Range(tensors[c])
    BY <1>4, <2>1, QueueElements, Zenon
  <2>3. \A b \in Pair : Range(tensors'[b]) \subseteq Range(tensors[b])
    BY <1>4, <2>1, <2>2, Zenon
  <2> QED
    BY <1>4, <2>3, ReceiveKeepsSources, Zenon
<1>5. ASSUME NEW e \in Engine, RecvLocal(e) PROVE SendIInv'
  <2>1. <<e, e>> \in Pair
    BY Zenon DEF Pair
  <2> QED
    BY <1>4, <1>5, <2>1, Zenon DEF RecvLocal, sendVars
<1>6. ASSUME NEW c \in Pair, Transfer(c) PROVE SendIInv'
  BY <1>4, <1>6, Zenon DEF Transfer, sendVars
<1>7. ASSUME NEW e \in Engine, NEW s \in Engine, RecvMetadata(e, s) PROVE SendIInv'
  BY <1>0, <1>7, Zenon DEF RecvMetadata, sendVars
<1>8. ASSUME NEW e \in Engine, NEW x \in pending_recvs[e], ProcessRecv(e, x) PROVE SendIInv'
  BY <1>0, <1>8, Zenon DEF ProcessRecv, sendVars
<1>9. CASE UNCHANGED vars
  BY <1>0, <1>9, Zenon DEF vars, sendVars
<1> QED
  BY <1>1, <1>3, <1>5, <1>6, <1>7, <1>8, <1>9, Zenon DEF Next, Pool

(* No tensor leaves pending_sends_ while NCCL may still read it, and there   *)
(* are never more than max_pending_sends_, for any number of engines.        *)
THEOREM SourcesHeld == Spec => []SourcesKeptAlive
<1>1. SendIInv => SourcesKeptAlive
  BY Zenon DEF SendIInv
<1> QED
  BY <1>1, PairInit, PairNext, SendInit, SendNext, PTL DEF Spec

-----------------------------------------------------------------------------
Announced(e) == UNION {Range(metas[<<e, d>>]) : d \in Engine \ {e}}

BoundIInv ==
    \A e \in Engine : IsFiniteSet(Announced(e)) /\ Cardinality(Announced(e)) <= MaxPending[e]

(* A queue has at most as many different parts as entries.                   *)
LEMMA QueueSize ==
    ASSUME NEW q \in Seq(Part)
    PROVE  /\ Len(q) \in Nat /\ IsFiniteSet(Range(q)) /\ Cardinality(Range(q)) \in Nat
           /\ Cardinality(Range(q)) <= Len(q)
<1>1. Len(q) \in Nat /\ DOMAIN q = 1 .. Len(q) /\ q \in [1 .. Len(q) -> Part]
  OBVIOUS
<1>2. q \in Surjection(1 .. Len(q), Range(q))
  BY <1>1 DEF Surjection, Range
<1>3. IsFiniteSet(1 .. Len(q)) /\ Cardinality(1 .. Len(q)) = Len(q)
  BY <1>1, FS_Interval, SMTT(30)
<1>4. IsFiniteSet(Range(q)) /\ Cardinality(Range(q)) <= Cardinality(1 .. Len(q))
  BY <1>2, <1>3, FS_Surjection, Zenon
<1> QED
  BY <1>1, <1>3, <1>4, FS_CardinalityType

(* What is announced is on the channel or in the dispatcher's hand.          *)
LEMMA MemberOfBoth ==
    ASSUME NEW a \in Seq(Part), NEW m \in Seq(Part), NEW t \in Seq(Part), NEW p \in Seq(Part),
           SameSeq(a, m, t, p), NEW x \in Range(m)
    PROVE  x \in Range(t) \/ x \in Range(p)
<1>e. a \o m = t \o p
  BY Zenon DEF SameSeq
<1>1. /\ Len(a) \in Nat /\ Len(m) \in Nat /\ Len(t) \in Nat /\ Len(p) \in Nat
      /\ DOMAIN m = 1 .. Len(m) /\ DOMAIN t = 1 .. Len(t) /\ DOMAIN p = 1 .. Len(p)
  OBVIOUS
<1>2. PICK i \in 1 .. Len(m) : x = m[i]
  BY <1>1 DEF Range
<1>3. Len(a \o m) = Len(a) + Len(m) /\ Len(t \o p) = Len(t) + Len(p) /\ (a \o m)[Len(a) + i] = m[i]
  BY <1>1, ConcatProperties
<1>4. CASE Len(a) + i <= Len(t)
  <2>1. Len(a) + i \in 1 .. Len(t) /\ (t \o p)[Len(a) + i] = t[Len(a) + i]
    BY <1>1, <1>4, ConcatProperties
  <2> QED
    BY <2>1, <1>1, <1>2, <1>3, <1>e, Zenon DEF Range
<1>5. CASE Len(a) + i > Len(t)
  <2>1. Len(a) + i - Len(t) \in 1 .. Len(p)
    BY <1>1, <1>3, <1>5, <1>e
  <2>2. (t \o p)[Len(a) + i] = p[Len(a) + i - Len(t)]
    BY <1>1, <2>1, <1>5, <1>3, <1>e, ConcatProperties
  <2> QED
    BY <2>1, <2>2, <1>1, <1>2, <1>3, <1>e, Zenon DEF Range
<1> QED
  BY <1>1, <1>4, <1>5

(* A living dispatcher keeps every part it has announced to others and their *)
(* pools have not looked at, except one that it has yet to send.             *)
LEMMA AliveBounded ==
    ASSUME PairIInv, SendIInv, NEW e \in Engine, pc[e] # "dead"
    PROVE  IsFiniteSet(Announced(e)) /\ Cardinality(Announced(e)) <= MaxPending[e]
<1> DEFINE q == pending_sends[e]
           x == Head(parts[e])
           R == Range(q)
           n == Cardinality(Announced(e))
<1>t. q \in Seq(Part) /\ MaxPending[e] \in Nat
  BY TransportAssumption DEF SendIInv
<1>1. /\ Len(q) \in Nat /\ IsFiniteSet(R) /\ Cardinality(R) \in Nat /\ Cardinality(R) <= Len(q)
  BY <1>t, QueueSize, Zenon
<1>2. ASSUME NEW y \in Announced(e) PROVE y \in R \/ (pc[e] = "tensor" /\ y = x)
  <2>1. PICK d \in Engine \ {e} : y \in Range(metas[<<e, d>>])
    BY Zenon DEF Announced
  <2>2. <<e, d>> \in Pair /\ <<e, d>>[1] = e
    BY <2>1, Zenon DEF Pair
  <2>3. /\ metas[<<e, d>>] \in Seq(Part) /\ tensors[<<e, d>>] \in Seq(Part)
        /\ Asked(<<e, d>>) \in Seq(Part) /\ InHand(<<e, d>>) \in Seq(Part)
        /\ SameSeq(Asked(<<e, d>>), metas[<<e, d>>], tensors[<<e, d>>], InHand(<<e, d>>))
    BY <2>2, BalanceTypes, Zenon DEF SameSeq
  <2>4. y \in Range(tensors[<<e, d>>]) \/ y \in Range(InHand(<<e, d>>))
    BY <2>1, <2>3, MemberOfBoth, Zenon
  <2>5. Range(tensors[<<e, d>>]) \subseteq R
    BY <2>1, Zenon DEF SendIInv, SourcesKeptAlive, Alive
  <2>6. y \in Range(InHand(<<e, d>>)) => pc[e] = "tensor" /\ y = x
    BY <2>2 DEF InHand, Range
  <2> QED
    BY <2>4, <2>5, <2>6, Zenon
<1>3. CASE pc[e] = "tensor"
  <2>1. Len(q) < MaxPending[e]
    BY <1>3, Zenon DEF SendIInv
  <2>2. /\ IsFiniteSet(R \cup {x}) /\ Cardinality(R \cup {x}) \in Nat
        /\ Cardinality(R \cup {x}) <= Cardinality(R) + 1
    <3>1. /\ IsFiniteSet(R \cup {x})
          /\ Cardinality(R \cup {x}) = IF x \in R THEN Cardinality(R) ELSE Cardinality(R) + 1
      BY <1>1, FS_AddElement, Zenon
    <3> HIDE DEF R, x
    <3> QED
      BY <3>1, <1>1
  <2>3. Announced(e) \in SUBSET (R \cup {x})
    BY <1>2, Zenon
  <2>4. IsFiniteSet(Announced(e)) /\ n <= Cardinality(R \cup {x}) /\ n \in Nat
    BY <2>2, <2>3, FS_Subset, FS_CardinalityType, Zenon
  <2> HIDE DEF n
  <2>5. n <= MaxPending[e]
    BY <2>1, <2>2, <2>4, <1>1, <1>t
  <2> QED
    BY <2>4, <2>5, Zenon DEF n
<1>4. CASE pc[e] # "tensor"
  <2>1. Len(q) <= MaxPending[e]
    BY Zenon DEF SendIInv, SourcesKeptAlive, Alive
  <2>3. Announced(e) \in SUBSET R
    BY <1>2, <1>4, Zenon
  <2>4. IsFiniteSet(Announced(e)) /\ n <= Cardinality(R) /\ n \in Nat
    BY <1>1, <2>3, FS_Subset, FS_CardinalityType, Zenon
  <2> HIDE DEF n
  <2>5. n <= MaxPending[e]
    BY <2>1, <2>4, <1>1, <1>t
  <2> QED
    BY <2>4, <2>5, Zenon DEF n
<1> QED
  BY <1>3, <1>4, Zenon

AliveBound ==
    \A e \in Engine : pc[e] # "dead" =>
        IsFiniteSet(Announced(e)) /\ Cardinality(Announced(e)) <= MaxPending[e]

(* Only a living dispatcher announces; pools take announcements away.        *)
LEMMA DeadAnnouncesNothing ==
    ASSUME PairIInv, [Next]_vars, NEW e \in Engine, pc'[e] = "dead"
    PROVE  Announced(e)' \subseteq Announced(e)
<1>t. metas \in [Pair -> Seq(Part)] /\ pc \in [Engine -> {"clean", "wait", "dead"} \cup Sending]
  BY Zenon DEF PairIInv, QueueTypes
<1>1. ASSUME \A d \in Engine : Range(metas'[<<e, d>>]) \subseteq Range(metas[<<e, d>>])
      PROVE  Announced(e)' \subseteq Announced(e)
  BY <1>1, Zenon DEF Announced
<1>2. ASSUME UNCHANGED metas PROVE Announced(e)' \subseteq Announced(e)
  BY <1>2, Zenon DEF Announced
<1>3. ASSUME NEW f \in Engine, SendMetadata(f) PROVE Announced(e)' \subseteq Announced(e)
  <2> DEFINE p == PairOf(Head(parts[f]))
  <2>1. pc[f] = "metadata" /\ StepOn(f) /\ metas' = [metas EXCEPT ![p] = Append(@, Head(parts[f]))]
    BY <1>3, Zenon DEF SendMetadata
  <2>2. parts[f] \in Seq(Part) /\ parts[f] # <<>> /\ p \in Pair /\ p[1] = f
    BY <2>1, CurrentPart, Zenon DEF Sending
  <2>3. pc'[f] = "tensor"
    BY <2>1, <2>2, <1>t, StepOnFacts, Zenon DEF Sending
  <2> HIDE DEF p
  <2>4. e # f
    BY <2>3
  <2>5. \A d \in Engine : <<e, d>> \in Pair /\ <<e, d>> # p
    <3>1. ASSUME NEW d \in Engine PROVE <<e, d>>[1] = e /\ <<e, d>> \in Pair
      BY DEF Pair
    <3> QED
      BY <3>1, <2>2, <2>4, Zenon
  <2>6. \A d \in Engine : metas'[<<e, d>>] = metas[<<e, d>>]
    BY <2>1, <2>5, <1>t, Zenon
  <2> QED
    BY <2>6, <1>1, Zenon
<1>4. ASSUME NEW f \in Engine, NEW s \in Engine, RecvMetadata(f, s)
      PROVE  Announced(e)' \subseteq Announced(e)
  <2>1. /\ <<s, f>> \in Pair /\ metas[<<s, f>>] # <<>>
        /\ metas' = [metas EXCEPT ![<<s, f>>] = Tail(@)]
    BY <1>4, Zenon DEF RecvMetadata, Pair
  <2>2. Range(Tail(metas[<<s, f>>])) \subseteq Range(metas[<<s, f>>])
    BY <2>1, <1>t, QueueElements, Zenon
  <2>3. \A c \in Pair : Range(metas'[c]) \subseteq Range(metas[c])
    BY <2>1, <2>2, <1>t, Zenon
  <2>4. \A d \in Engine : <<e, d>> \in Pair
    BY Zenon DEF Pair
  <2> QED
    BY <2>3, <2>4, <1>1, Zenon
<1>5. ASSUME NEW f \in Engine, Dispatcher(f) PROVE Announced(e)' \subseteq Announced(e)
  BY <1>2, <1>3, <1>5, Zenon DEF Dispatcher, CleanPendingSends, NextBatch, DrainPendingSends, SendTensor
<1>6. ASSUME NEW f \in Engine, NEW route \in Route, Put(f, route) PROVE UNCHANGED metas
  BY <1>6, Zenon DEF Put
<1>7. ASSUME NEW f \in Engine, RecvLocal(f) \/ \E x \in pending_recvs[f] : ProcessRecv(f, x)
      PROVE  UNCHANGED metas
  BY <1>7, Zenon DEF RecvLocal, ProcessRecv
<1>8. ASSUME NEW c \in Pair, Transfer(c) PROVE UNCHANGED metas
  BY <1>8, Zenon DEF Transfer
<1>9. CASE UNCHANGED vars
  BY <1>2, <1>9, Zenon DEF vars
<1> QED
  BY <1>2, <1>4, <1>5, <1>6, <1>7, <1>8, <1>9, Zenon DEF Next, Pool

(* Every step: alive, a dispatcher is bounded by what it keeps; once dead,   *)
(* by what it had announced before.                                          *)
LEMMA BoundNext == PairIInv /\ BoundIInv /\ AliveBound' /\ [Next]_vars => BoundIInv'
<1> SUFFICES ASSUME PairIInv, BoundIInv, AliveBound', [Next]_vars, NEW e \in Engine
             PROVE  (IsFiniteSet(Announced(e)) /\ Cardinality(Announced(e)) <= MaxPending[e])'
  BY Zenon DEF BoundIInv
<1>1. CASE pc'[e] # "dead"
  BY <1>1, Zenon DEF AliveBound
<1>2. CASE pc'[e] = "dead"
  <2>1. Announced(e)' \in SUBSET Announced(e)
    BY <1>2, DeadAnnouncesNothing, Zenon
  <2>2. /\ IsFiniteSet(Announced(e)) /\ Cardinality(Announced(e)) <= MaxPending[e]
        /\ MaxPending[e] \in Nat /\ Cardinality(Announced(e)) \in Nat
    BY FS_CardinalityType, TransportAssumption DEF BoundIInv
  <2>3. PICK A : A = Announced(e)'
    OBVIOUS
  <2>4. IsFiniteSet(A) /\ Cardinality(A) <= Cardinality(Announced(e)) /\ Cardinality(A) \in Nat
    BY <2>1, <2>2, <2>3, FS_Subset, FS_CardinalityType, Zenon
  <2>5. Cardinality(A) <= MaxPending[e]
    BY <2>2, <2>4
  <2> QED
    BY <2>3, <2>4, <2>5, Zenon
<1> QED
  BY <1>1, <1>2, Zenon

(* At first nothing is announced.                                            *)
LEMMA BoundInit == Init => BoundIInv
<1> SUFFICES ASSUME Init, NEW e \in Engine
             PROVE  IsFiniteSet(Announced(e)) /\ Cardinality(Announced(e)) <= MaxPending[e]
  BY Zenon DEF BoundIInv
<1>1. ASSUME NEW d \in Engine PROVE Range(metas[<<e, d>>]) = {}
  BY DEF Init, Pair, Range
<1>2. Announced(e) = {}
  BY <1>1, Zenon DEF Announced
<1>3. MaxPending[e] \in Nat
  BY TransportAssumption
<1> QED
  BY <1>2, <1>3, FS_EmptySet

(* The metadata queues, which nothing limits by themselves, never hold more  *)
(* than max_pending_sends_ announcements of one engine to the others, even   *)
(* after its dispatcher thread has died.                                     *)
THEOREM AnnouncedIsBoundedAlways == Spec => []AnnouncedIsBounded
<1>1. PairIInv /\ SendIInv => AliveBound
  BY AliveBounded, Zenon DEF AliveBound
<1>2. BoundIInv => AnnouncedIsBounded
  BY Zenon DEF BoundIInv, AnnouncedIsBounded, Announced
<1> QED
  BY <1>1, <1>2, PairInit, PairNext, SendInit, SendNext, BoundInit, BoundNext, PTL DEF Spec

-----------------------------------------------------------------------------
\* The batches a dispatcher has not sent: the rest of the current one, and
\* the queue.
Unsent(e, k) == IF k = 0 THEN parts[e] ELSE send_queue[e][k]

WasPut(y) == y.n \in DOMAIN puts[y.src] /\ puts[y.src][y.n] = y.dst

\* The receiver has its tensor: it waits to be processed, or was.
Gone(y) == <<y, y>> \in pending_recvs[y.dst] \/ <<y, y>> \in processed

AllPut(s) == \A i \in 1 .. Len(s) : WasPut(s[i])
InOrder(s) == \A i, j \in 1 .. Len(s) : i < j => s[i].n < s[j].n
Below(y, s) == \A i \in 1 .. Len(s) : y.n < s[i].n
Above(s, y) == \A i \in 1 .. Len(s) : s[i].n < y.n
Precedes(s, t) == \A i \in 1 .. Len(s) : Below(s[i], t)

\* Along its way, from the queue to the channel of its pair and on to the
\* receiver, a part is behind all those its engine put before it.
UnsentOrder ==
    \A e \in Engine : \A k \in 0 .. Len(send_queue[e]) :
        /\ InOrder(Unsent(e, k)) /\ AllPut(Unsent(e, k))
        /\ \A l \in 0 .. Len(send_queue[e]) : k < l => Precedes(Unsent(e, k), Unsent(e, l))

ChannelOrder ==
    \A c \in Pair :
        /\ InOrder(tensors[c]) /\ AllPut(tensors[c])
        /\ \A k \in 0 .. Len(send_queue[c[1]]) : Precedes(tensors[c], Unsent(c[1], k))

GoneOrder ==
    \A y \in Part : Gone(y) =>
        /\ WasPut(y) /\ Below(y, tensors[PairOf(y)])
        /\ \A k \in 0 .. Len(send_queue[y.src]) : Below(y, Unsent(y.src, k))

\* What is in the pool is not received again.
PoolOnce ==
    /\ processed \subseteq Part \X Part
    /\ \A e \in Engine : \A x \in pending_recvs[e] : x[1].dst = e /\ x \notin processed

WayIInv == UnsentOrder /\ ChannelOrder /\ GoneOrder /\ PoolOnce

-----------------------------------------------------------------------------
(* The oldest of parts in order is below the rest.                           *)
LEMMA OrderTail ==
    ASSUME NEW s \in Seq(Part), s # <<>>
    PROVE  /\ Head(s) \in Part /\ Tail(s) \in Seq(Part)
           /\ AllPut(s) => AllPut(Tail(s)) /\ WasPut(Head(s))
           /\ InOrder(s) => InOrder(Tail(s)) /\ Below(Head(s), Tail(s))
           /\ \A y : Below(y, s) => Below(y, Tail(s)) /\ y.n < Head(s).n
           /\ \A t : Precedes(s, t) => Precedes(Tail(s), t) /\ Below(Head(s), t)
<1>1. /\ Len(s) \in Nat \ {0} /\ Head(s) = s[1] /\ Head(s) \in Part
      /\ Tail(s) \in Seq(Part) /\ Len(Tail(s)) = Len(s) - 1
      /\ \A i \in 1 .. Len(Tail(s)) : Tail(s)[i] = s[i + 1]
  BY EmptySeq, HeadTailProperties
<1>a. PICK m \in Nat \ {0} : m = Len(s)
  BY <1>1, Zenon
<1>b. m - 1 \in Nat /\ (m - 1) + 1 = m
  OBVIOUS
<1>2. PICK n \in Nat : n = Len(Tail(s)) /\ Len(s) = n + 1
  BY <1>1, <1>a, <1>b, Zenon
<1>3. /\ 1 \in 1 .. n + 1 /\ \A i \in 1 .. n : i + 1 \in 1 .. n + 1 /\ 1 < i + 1
      /\ \A i, j \in 1 .. n : i < j => i + 1 < j + 1
  OBVIOUS
<1>4. Head(s) = s[1] /\ \A i \in 1 .. n : Tail(s)[i] = s[i + 1]
  BY <1>1, <1>2, Zenon
<1>5. AllPut(s) => AllPut(Tail(s)) /\ WasPut(Head(s))
  BY <1>2, <1>3, <1>4, Zenon DEF AllPut
<1>6. InOrder(s) => InOrder(Tail(s)) /\ Below(Head(s), Tail(s))
  BY <1>2, <1>3, <1>4, Zenon DEF InOrder, Below
<1>7. \A y : Below(y, s) => Below(y, Tail(s)) /\ y.n < Head(s).n
  BY <1>2, <1>3, <1>4, Zenon DEF Below
<1>8. \A t : Precedes(s, t) => Precedes(Tail(s), t) /\ Below(Head(s), t)
  BY <1>2, <1>3, <1>4, Zenon DEF Precedes
<1> QED
  BY <1>1, <1>5, <1>6, <1>7, <1>8, Zenon

(* A part above all of them goes to the end.                                 *)
LEMMA OrderAppend ==
    ASSUME NEW s \in Seq(Part), NEW x \in Part
    PROVE  /\ AllPut(s) /\ WasPut(x) => AllPut(Append(s, x))
           /\ InOrder(s) /\ Above(s, x) => InOrder(Append(s, x))
           /\ \A y : Below(y, s) /\ y.n < x.n => Below(y, Append(s, x))
           /\ \A t : Precedes(s, t) /\ Below(x, t) => Precedes(Append(s, x), t)
<1>1. /\ Len(s) \in Nat /\ Len(Append(s, x)) = Len(s) + 1
      /\ \A i \in 1 .. Len(s) : Append(s, x)[i] = s[i]
      /\ Append(s, x)[Len(s) + 1] = x
  BY AppendProperties
<1>2. PICK n \in Nat : n = Len(s) /\ Len(Append(s, x)) = n + 1
  BY <1>1
<1>3. PICK a : a = Append(s, x)
  BY Zenon
<1>4. Len(a) = n + 1 /\ a[n + 1] = x /\ \A i \in 1 .. n : a[i] = s[i]
  BY <1>1, <1>2, <1>3, Zenon
<1>5. \A i \in 1 .. n + 1 : i \in 1 .. n \/ i = n + 1
  OBVIOUS
<1>6. \A i, j \in 1 .. n + 1 : i < j => i \in 1 .. n
  OBVIOUS
<1>7. AllPut(s) /\ WasPut(x) => AllPut(a)
  BY <1>2, <1>4, <1>5, Zenon DEF AllPut
<1>8. InOrder(s) /\ Above(s, x) => InOrder(a)
  BY <1>2, <1>4, <1>5, <1>6, Zenon DEF InOrder, Above
<1>9. \A y : Below(y, s) /\ y.n < x.n => Below(y, a)
  BY <1>2, <1>4, <1>5, Zenon DEF Below
<1>10. \A t : Precedes(s, t) /\ Below(x, t) => Precedes(a, t)
  BY <1>2, <1>4, <1>5, Zenon DEF Precedes
<1> QED
  BY <1>3, <1>7, <1>8, <1>9, <1>10, Zenon

(* What precedes a sequence is below each of its parts, and the other way.   *)
LEMMA PrecedesHead ==
    ASSUME NEW s, NEW t \in Seq(Part), t # <<>>, Precedes(s, t)
    PROVE  Above(s, Head(t)) /\ Precedes(s, Tail(t))
BY OrderTail, Zenon DEF Precedes, Above

(* Steps that move no part keep the order.                                   *)
LEMMA WayFrame ==
    ASSUME WayIInv, UNCHANGED <<puts, send_queue, parts, tensors, pending_recvs, processed>>
    PROVE  WayIInv'
<1>1. /\ \A e, k : Unsent(e, k)' = Unsent(e, k)
      /\ \A y : (WasPut(y)' <=> WasPut(y)) /\ (Gone(y)' <=> Gone(y))
  BY Zenon DEF Unsent, WasPut, Gone
<1>2. UnsentOrder'
  <2>1. ASSUME NEW e \in Engine, NEW k \in 0 .. Len(send_queue[e])
        PROVE  /\ (InOrder(Unsent(e, k)) /\ AllPut(Unsent(e, k)))'
               /\ \A l \in 0 .. Len(send_queue[e]) : k < l => Precedes(Unsent(e, k), Unsent(e, l))'
    <3>1. /\ InOrder(Unsent(e, k)) /\ AllPut(Unsent(e, k))
          /\ \A l \in 0 .. Len(send_queue[e]) : k < l => Precedes(Unsent(e, k), Unsent(e, l))
      BY Zenon DEF WayIInv, UnsentOrder
    <3> QED
      BY <3>1, <1>1, Zenon DEF InOrder, AllPut, Precedes, Below
  <2> QED
    BY <2>1, Zenon DEF UnsentOrder
<1>3. ChannelOrder'
  BY <1>1, Zenon DEF WayIInv, ChannelOrder, AllPut, InOrder, Precedes, Below
<1>4. GoneOrder'
  BY <1>1, Zenon DEF WayIInv, GoneOrder, Below
<1>5. PoolOnce'
  BY Zenon DEF WayIInv, PoolOnce
<1> QED
  BY <1>2, <1>3, <1>4, <1>5, Zenon DEF WayIInv

(* The dispatcher takes the next batch: the queue moves up by one.           *)
LEMMA NextBatchKeepsWay ==
    ASSUME PairIInv, WayIInv, NEW e \in Engine, NextBatch(e)
    PROVE  WayIInv'
<1>1. /\ UNCHANGED <<puts, tensors, pending_recvs, processed>> /\ send_queue[e] # <<>>
      /\ parts' = [parts EXCEPT ![e] = Head(send_queue[e])]
      /\ send_queue' = [send_queue EXCEPT ![e] = Tail(@)]
  BY Zenon DEF NextBatch, recvVars
<1>t. /\ send_queue \in [Engine -> Seq(Seq(Part))] /\ parts \in [Engine -> Seq(Part)]
      /\ send_queue[e] \in Seq(Seq(Part))
  BY Zenon DEF PairIInv, QueueTypes
<1>2. /\ Len(send_queue[e]) \in Nat \ {0} /\ Head(send_queue[e]) = send_queue[e][1]
      /\ Len(Tail(send_queue[e])) = Len(send_queue[e]) - 1
      /\ \A k \in 1 .. Len(Tail(send_queue[e])) : Tail(send_queue[e])[k] = send_queue[e][k + 1]
  BY <1>1, <1>t, EmptySeq, HeadTailProperties
<1>3. /\ parts'[e] = send_queue[e][1] /\ send_queue'[e] = Tail(send_queue[e])
      /\ \A f \in Engine \ {e} : parts'[f] = parts[f] /\ send_queue'[f] = send_queue[f]
  BY <1>1, <1>2, <1>t, Zenon
<1> DEFINE Old(f, k) == IF f = e THEN k + 1 ELSE k
<1>4. ASSUME NEW f \in Engine
      PROVE  /\ \A k \in 0 .. Len(send_queue'[f]) :
                   /\ Old(f, k) \in 0 .. Len(send_queue[f])
                   /\ Unsent(f, k)' = Unsent(f, Old(f, k))
             /\ \A k, l \in 0 .. Len(send_queue'[f]) : k < l => Old(f, k) < Old(f, l)
  <2>1. CASE f # e
    BY <2>1, <1>3, Zenon DEF Unsent
  <2>2. CASE f = e
    <3>1. PICK n \in Nat : n = Len(Tail(send_queue[e])) /\ Len(send_queue[e]) = n + 1
      <4>1. PICK m \in Nat \ {0} : m = Len(send_queue[e])
        BY <1>2, Zenon
      <4>2. m - 1 \in Nat /\ (m - 1) + 1 = m
        OBVIOUS
      <4> QED
        BY <1>2, <4>1, <4>2, Zenon
    <3>2. /\ \A k \in 0 .. n : k + 1 \in 0 .. n + 1 /\ k + 1 # 0 /\ (k = 0 \/ k \in 1 .. n)
          /\ \A k, l \in 0 .. n : k < l => k + 1 < l + 1
          /\ 0 + 1 = 1
      OBVIOUS
    <3>3. \A k \in 1 .. n : send_queue'[e][k] = send_queue[e][k + 1]
      BY <3>1, <1>2, <1>3, Zenon
    <3>4. ASSUME NEW k \in 0 .. n PROVE Unsent(e, k)' = Unsent(e, k + 1)
      BY <3>2, <3>3, <1>3, Zenon DEF Unsent
    <3> QED
      BY <2>2, <3>1, <3>2, <3>4, <1>3, Zenon
  <2> QED
    BY <2>1, <2>2, Zenon
<1> HIDE DEF Old
<1>5. \A y : (WasPut(y)' <=> WasPut(y)) /\ (Gone(y)' <=> Gone(y))
  BY <1>1, Zenon DEF WasPut, Gone
<1>6. UnsentOrder'
  <2> SUFFICES ASSUME NEW f \in Engine, NEW k \in 0 .. Len(send_queue'[f])
               PROVE  /\ (InOrder(Unsent(f, k)) /\ AllPut(Unsent(f, k)))'
                      /\ \A l \in 0 .. Len(send_queue'[f]) :
                            k < l => Precedes(Unsent(f, k), Unsent(f, l))'
    BY Zenon DEF UnsentOrder
  <2>1. InOrder(Unsent(f, Old(f, k))) /\ AllPut(Unsent(f, Old(f, k)))
    BY <1>4, Zenon DEF WayIInv, UnsentOrder
  <2>2. ASSUME NEW l \in 0 .. Len(send_queue'[f]), k < l
        PROVE  Precedes(Unsent(f, Old(f, k)), Unsent(f, Old(f, l)))
    BY <2>2, <1>4, Zenon DEF WayIInv, UnsentOrder
  <2> QED
    BY <2>1, <2>2, <1>4, <1>5, Zenon DEF InOrder, AllPut, Precedes, Below
<1>7. ChannelOrder'
  <2> SUFFICES ASSUME NEW c \in Pair
               PROVE  /\ (InOrder(tensors[c]) /\ AllPut(tensors[c]))'
                      /\ \A k \in 0 .. Len(send_queue'[c[1]]) :
                            Precedes(tensors[c], Unsent(c[1], k))'
    BY Zenon DEF ChannelOrder
  <2>1. c[1] \in Engine
    BY Zenon DEF Pair
  <2>2. \A k \in 0 .. Len(send_queue'[c[1]]) : Precedes(tensors[c], Unsent(c[1], Old(c[1], k)))
    BY <2>1, <1>4, Zenon DEF WayIInv, ChannelOrder
  <2>3. InOrder(tensors[c]) /\ AllPut(tensors[c])
    BY Zenon DEF WayIInv, ChannelOrder
  <2> QED
    BY <2>1, <2>2, <2>3, <1>1, <1>4, <1>5, Zenon DEF InOrder, AllPut, Precedes, Below
<1>8. GoneOrder'
  <2> SUFFICES ASSUME NEW y \in Part, Gone(y)'
               PROVE  /\ WasPut(y)' /\ Below(y, tensors[PairOf(y)])'
                      /\ \A k \in 0 .. Len(send_queue'[y.src]) : Below(y, Unsent(y.src, k))'
    BY Zenon DEF GoneOrder
  <2>1. y.src \in Engine
    BY DEF Part
  <2>2. /\ WasPut(y) /\ Below(y, tensors[PairOf(y)])
        /\ \A k \in 0 .. Len(send_queue'[y.src]) : Below(y, Unsent(y.src, Old(y.src, k)))
    BY <2>1, <1>4, <1>5, Zenon DEF WayIInv, GoneOrder
  <2> QED
    BY <2>1, <2>2, <1>1, <1>4, <1>5, Zenon DEF Below
<1>9. PoolOnce'
  BY <1>1, Zenon DEF WayIInv, PoolOnce
<1> QED
  BY <1>6, <1>7, <1>8, <1>9, Zenon DEF WayIInv

(* Sending a tensor: the oldest part of the batch goes behind those on the   *)
(* channel.                                                                  *)
LEMMA TensorKeepsWay ==
    ASSUME PairIInv, WayIInv, NEW e \in Engine, SendTensor(e)
    PROVE  WayIInv'
<1> DEFINE x == Head(parts[e])
           p == PairOf(x)
<1>1. /\ UNCHANGED <<puts, send_queue, pending_recvs, processed>> /\ pc[e] = "tensor"
      /\ tensors' = [tensors EXCEPT ![p] = Append(@, x)]
      /\ parts' = [parts EXCEPT ![e] = Tail(@)]
  BY Zenon DEF SendTensor, recvVars
<1>2. /\ x \in Part /\ x.src = e /\ p \in Pair /\ p[1] = e
      /\ parts[e] \in Seq(Part) /\ parts[e] # <<>>
  BY <1>1, CurrentPart, Zenon DEF Sending
<1>t. /\ send_queue[e] \in Seq(Seq(Part)) /\ tensors[p] \in Seq(Part)
      /\ parts \in [Engine -> Seq(Part)] /\ tensors \in [Pair -> Seq(Part)]
  BY <1>2, Zenon DEF PairIInv, QueueTypes
<1>z. 0 \in 0 .. Len(send_queue[e])
  <2>1. Len(send_queue[e]) \in Nat
    BY <1>t, LenProperties, Zenon
  <2> QED
    BY <2>1
<1>n. \A k \in 0 .. Len(send_queue[e]) : k # 0 => 0 < k
  OBVIOUS
<1>3. /\ parts'[e] = Tail(parts[e]) /\ \A f \in Engine \ {e} : parts'[f] = parts[f]
      /\ tensors'[p] = Append(tensors[p], x) /\ \A c \in Pair \ {p} : tensors'[c] = tensors[c]
  <2> HIDE DEF x, p
  <2> QED
    BY <1>1, <1>2, <1>t, Zenon
<1>u. Unsent(e, 0) = parts[e]
  BY Zenon DEF Unsent
<1>4. /\ InOrder(parts[e]) /\ AllPut(parts[e])
      /\ \A k \in 0 .. Len(send_queue[e]) : k # 0 => Precedes(parts[e], Unsent(e, k))
  BY <1>z, <1>n, <1>u, Zenon DEF WayIInv, UnsentOrder
<1>5. /\ Unsent(e, 0)' = Tail(parts[e])
      /\ \A f \in Engine : \A k : f # e \/ k # 0 => Unsent(f, k)' = Unsent(f, k)
  BY <1>1, <1>3, Zenon DEF Unsent
<1>6. \A y : (WasPut(y)' <=> WasPut(y)) /\ (Gone(y)' <=> Gone(y))
  BY <1>1, Zenon DEF WasPut, Gone
<1>7. /\ WasPut(x) /\ InOrder(Tail(parts[e])) /\ AllPut(Tail(parts[e]))
      /\ Below(x, Tail(parts[e]))
      /\ \A t : Precedes(parts[e], t) => Precedes(Tail(parts[e]), t) /\ Below(x, t)
      /\ \A y : Below(y, parts[e]) => Below(y, Tail(parts[e])) /\ y.n < x.n
  BY <1>2, <1>4, OrderTail, Zenon
<1>8. \A k \in 0 .. Len(send_queue[e]) : Below(x, Unsent(e, k)')
  BY <1>4, <1>5, <1>7, Zenon
<1>9. ASSUME NEW f \in Engine, NEW k \in 0 .. Len(send_queue[f]), NEW y, Below(y, Unsent(f, k))
      PROVE  Below(y, Unsent(f, k)')
  BY <1>9, <1>5, <1>7, <1>u, Zenon
<1> HIDE DEF x, p
<1>10. UnsentOrder'
  <2>1. ASSUME NEW f \in Engine, NEW k \in 0 .. Len(send_queue[f])
        PROVE  /\ InOrder(Unsent(f, k)') /\ AllPut(Unsent(f, k)')
               /\ \A l \in 0 .. Len(send_queue[f]) : k < l => Precedes(Unsent(f, k)', Unsent(f, l)')
    <3>1. /\ InOrder(Unsent(f, k)) /\ AllPut(Unsent(f, k))
          /\ \A l \in 0 .. Len(send_queue[f]) : k < l => Precedes(Unsent(f, k), Unsent(f, l))
      BY Zenon DEF WayIInv, UnsentOrder
    <3>2. \A l \in 0 .. Len(send_queue[f]) : k < l => l # 0
      OBVIOUS
    <3>3. CASE f = e /\ k = 0
      BY <3>1, <3>2, <3>3, <1>4, <1>5, <1>7, Zenon
    <3>4. CASE f # e \/ k # 0
      BY <3>1, <3>2, <3>4, <1>5, Zenon
    <3> QED
      BY <3>3, <3>4, Zenon
  <2>2. \A s : AllPut(s) => \A i \in 1 .. Len(s) : WasPut(s[i])'
    BY <1>6, Zenon DEF AllPut
  <2> QED
    BY <2>1, <2>2, <1>1, Zenon DEF UnsentOrder, InOrder, AllPut, Precedes, Below
<1>11. ChannelOrder'
  <2>1. ASSUME NEW c \in Pair
        PROVE  /\ InOrder(tensors'[c]) /\ AllPut(tensors'[c])
               /\ \A k \in 0 .. Len(send_queue[c[1]]) : Precedes(tensors'[c], Unsent(c[1], k)')
    <3>1. c[1] \in Engine
      BY Zenon DEF Pair
    <3>2. /\ InOrder(tensors[c]) /\ AllPut(tensors[c])
          /\ \A k \in 0 .. Len(send_queue[c[1]]) : Precedes(tensors[c], Unsent(c[1], k))
      BY Zenon DEF WayIInv, ChannelOrder
    <3>3. \A k \in 0 .. Len(send_queue[c[1]]) : Precedes(tensors[c], Unsent(c[1], k)')
      BY <3>1, <3>2, <1>9, Zenon DEF Precedes
    <3>4. CASE c # p
      BY <3>2, <3>3, <3>4, <1>3, Zenon
    <3>5. CASE c = p
      <4>1. Above(tensors[p], x)
        BY <3>2, <3>5, <1>2, <1>z, <1>u, PrecedesHead, Zenon DEF x
      <4>2. \A k \in 0 .. Len(send_queue[c[1]]) : Below(x, Unsent(c[1], k)')
        BY <3>5, <1>2, <1>8, Zenon
      <4>3. tensors'[c] = Append(tensors[c], x) /\ tensors[c] \in Seq(Part)
        BY <3>5, <1>3, <1>t, Zenon
      <4>4. InOrder(tensors'[c]) /\ AllPut(tensors'[c])
        BY <4>1, <4>3, <3>2, <3>5, <1>2, <1>7, OrderAppend, Zenon
      <4>5. \A k \in 0 .. Len(send_queue[c[1]]) : Precedes(tensors'[c], Unsent(c[1], k)')
        BY <4>2, <4>3, <3>3, <1>2, OrderAppend, Zenon
      <4> QED
        BY <4>4, <4>5, Zenon
    <3> QED
      BY <3>4, <3>5, Zenon
  <2>2. \A s : AllPut(s) => \A i \in 1 .. Len(s) : WasPut(s[i])'
    BY <1>6, Zenon DEF AllPut
  <2> QED
    BY <2>1, <2>2, <1>1, Zenon DEF ChannelOrder, InOrder, AllPut, Precedes, Below
<1>12. GoneOrder'
  <2>1. ASSUME NEW y \in Part, Gone(y)
        PROVE  /\ WasPut(y) /\ Below(y, tensors'[PairOf(y)])
               /\ \A k \in 0 .. Len(send_queue[y.src]) : Below(y, Unsent(y.src, k)')
    <3>1. y.src \in Engine /\ PairOf(y) \in Pair /\ PairOf(y)[1] = y.src
      BY Zenon DEF Part, Pair, PairOf
    <3>2. /\ WasPut(y) /\ Below(y, tensors[PairOf(y)])
          /\ \A k \in 0 .. Len(send_queue[y.src]) : Below(y, Unsent(y.src, k))
      BY <2>1, Zenon DEF WayIInv, GoneOrder
    <3>3. \A k \in 0 .. Len(send_queue[y.src]) : Below(y, Unsent(y.src, k)')
      BY <3>1, <3>2, <1>9, Zenon
    <3>4. CASE PairOf(y) # p
      BY <3>1, <3>2, <3>3, <3>4, <1>3, Zenon
    <3>5. CASE PairOf(y) = p
      <4>1. y.n < x.n
        BY <3>1, <3>2, <3>5, <1>2, <1>z, <1>u, <1>7, Zenon
      <4> QED
        BY <4>1, <3>2, <3>3, <3>5, <1>2, <1>3, <1>t, OrderAppend, Zenon
    <3> QED
      BY <3>4, <3>5, Zenon
  <2> QED
    BY <2>1, <1>1, <1>6, Zenon DEF GoneOrder, Below
<1>13. PoolOnce'
  BY <1>1, Zenon DEF WayIInv, PoolOnce
<1> QED
  BY <1>10, <1>11, <1>12, <1>13, Zenon DEF WayIInv

(* The oldest tensor of a channel was put, and is not yet with the receiver. *)
LEMMA OldestIsNew ==
    ASSUME PairIInv, WayIInv, NEW c \in Pair, tensors[c] # <<>>
    PROVE  /\ Head(tensors[c]) \in Part /\ PairOf(Head(tensors[c])) = c
           /\ Head(tensors[c]).src = c[1] /\ Head(tensors[c]).dst = c[2]
           /\ WasPut(Head(tensors[c])) /\ ~Gone(Head(tensors[c]))
<1>1. /\ tensors[c] \in Seq(Part) /\ AllOf(tensors[c], c) /\ AllPut(tensors[c])
  BY Zenon DEF PairIInv, QueueTypes, OwnChannel, WayIInv, ChannelOrder
<1> DEFINE h == Head(tensors[c])
<1>2. /\ h \in Part /\ PairOf(h) = c /\ WasPut(h)
      /\ Below(h, tensors[c]) => h.n < h.n
  BY <1>1, TailOwn, OrderTail, Zenon
<1> HIDE DEF h
<1>3. h.src = c[1] /\ h.dst = c[2]
  BY <1>2, Zenon DEF PairOf
<1>4. ~(h.n < h.n)
  BY <1>2, TransportAssumption DEF Part
<1>5. ~Gone(h)
  BY <1>2, <1>4, Zenon DEF WayIInv, GoneOrder
<1> QED
  BY <1>2, <1>3, <1>5, Zenon DEF h

(* The receiver takes the oldest tensor of a channel.                        *)
LEMMA TakeKeepsOrder ==
    ASSUME PairIInv, WayIInv, NEW p \in Pair, tensors[p] # <<>>,
           tensors' = [tensors EXCEPT ![p] = Tail(@)],
           UNCHANGED <<puts, send_queue, parts>>,
           \A y \in Part : Gone(y)' => Gone(y) \/ y = Head(tensors[p])
    PROVE  UnsentOrder' /\ ChannelOrder' /\ GoneOrder'
<1> DEFINE h == Head(tensors[p])
<1>1. /\ \A e, k : Unsent(e, k)' = Unsent(e, k)
      /\ \A y : WasPut(y)' <=> WasPut(y)
  BY Zenon DEF Unsent, WasPut
<1>2. h \in Part /\ PairOf(h) = p /\ h.src = p[1] /\ WasPut(h)
  BY OldestIsNew, Zenon
<1>3. /\ tensors \in [Pair -> Seq(Part)] /\ tensors[p] \in Seq(Part)
      /\ InOrder(tensors[p]) /\ AllPut(tensors[p])
      /\ \A k \in 0 .. Len(send_queue[p[1]]) : Precedes(tensors[p], Unsent(p[1], k))
  BY Zenon DEF PairIInv, QueueTypes, WayIInv, ChannelOrder
<1>4. tensors'[p] = Tail(tensors[p]) /\ \A c \in Pair \ {p} : tensors'[c] = tensors[c]
  BY <1>3, Zenon
<1>5. /\ InOrder(Tail(tensors[p])) /\ AllPut(Tail(tensors[p])) /\ Below(h, Tail(tensors[p]))
      /\ \A t : Precedes(tensors[p], t) => Precedes(Tail(tensors[p]), t) /\ Below(h, t)
      /\ \A y : Below(y, tensors[p]) => Below(y, Tail(tensors[p]))
  BY <1>3, OrderTail, Zenon
<1>6. \A s : AllPut(s) => \A i \in 1 .. Len(s) : WasPut(s[i])'
  BY <1>1, Zenon DEF AllPut
<1> HIDE DEF h
<1>7. UnsentOrder'
  <2>1. ASSUME NEW e \in Engine, NEW k \in 0 .. Len(send_queue[e])
        PROVE  /\ (InOrder(Unsent(e, k)) /\ AllPut(Unsent(e, k)))'
               /\ \A l \in 0 .. Len(send_queue[e]) : k < l => Precedes(Unsent(e, k), Unsent(e, l))'
    <3>1. /\ InOrder(Unsent(e, k)) /\ AllPut(Unsent(e, k))
          /\ \A l \in 0 .. Len(send_queue[e]) : k < l => Precedes(Unsent(e, k), Unsent(e, l))
      BY Zenon DEF WayIInv, UnsentOrder
    <3> QED
      BY <3>1, <1>1, <1>6, Zenon DEF InOrder, AllPut, Precedes, Below
  <2> QED
    BY <2>1, Zenon DEF UnsentOrder
<1>8. ChannelOrder'
  <2>1. ASSUME NEW c \in Pair
        PROVE  /\ InOrder(tensors'[c]) /\ AllPut(tensors'[c])
               /\ \A k \in 0 .. Len(send_queue[c[1]]) : Precedes(tensors'[c], Unsent(c[1], k))
    <3>1. CASE c # p
      BY <3>1, <1>4, Zenon DEF WayIInv, ChannelOrder
    <3>2. CASE c = p
      BY <3>2, <1>3, <1>4, <1>5, Zenon
    <3> QED
      BY <3>1, <3>2, Zenon
  <2> QED
    BY <2>1, <1>1, <1>6, Zenon DEF ChannelOrder, InOrder, AllPut, Precedes, Below
<1>9. GoneOrder'
  <2>1. ASSUME NEW y \in Part, Gone(y) \/ y = h
        PROVE  /\ WasPut(y) /\ Below(y, tensors'[PairOf(y)])
               /\ \A k \in 0 .. Len(send_queue[y.src]) : Below(y, Unsent(y.src, k))
    <3>1. CASE y = h
      BY <3>1, <1>2, <1>3, <1>4, <1>5, Zenon
    <3>2. CASE Gone(y)
      <4>1. /\ WasPut(y) /\ Below(y, tensors[PairOf(y)])
            /\ \A k \in 0 .. Len(send_queue[y.src]) : Below(y, Unsent(y.src, k))
        BY <3>2, Zenon DEF WayIInv, GoneOrder
      <4>2. PairOf(y) \in Pair
        BY Zenon DEF Part, Pair, PairOf
      <4> QED
        BY <4>1, <4>2, <1>4, <1>5, Zenon
    <3> QED
      BY <2>1, <3>1, <3>2, Zenon
  <2> QED
    BY <2>1, <1>1, Zenon DEF GoneOrder, Below, h
<1> QED
  BY <1>7, <1>8, <1>9, Zenon

(* NCCL completes a receive: the part leaves the channel.                    *)
LEMMA TransferKeepsWay ==
    ASSUME PairIInv, WayIInv, NEW p \in Pair, Transfer(p)
    PROVE  WayIInv'
<1> DEFINE h == Head(tensors[p])
           g == Head(posted[p])
<1>1. /\ UNCHANGED <<puts, send_queue, parts, processed>> /\ tensors[p] # <<>>
      /\ tensors' = [tensors EXCEPT ![p] = Tail(@)]
      /\ pending_recvs' = [pending_recvs EXCEPT ![p[2]] = @ \cup {<<g, h>>}]
  BY Zenon DEF Transfer, sendVars
<1>2. /\ h \in Part /\ h.dst = p[2] /\ ~Gone(h)
  BY <1>1, OldestIsNew, Zenon
<1> HIDE DEF h, g
<1>3. p[2] \in Engine /\ pending_recvs \in [Engine -> SUBSET (Part \X Part)]
  BY Zenon DEF Pair, PairIInv
<1>4. g = h
  <2>1. Matched'
    BY TransferKeeps, Zenon DEF PairIInv
  <2>2. <<g, h>> \in pending_recvs'[p[2]]
    BY <1>1, <1>3, Zenon
  <2>3. <<g, h>>[1] = <<g, h>>[2]
    BY <2>1, <2>2, <1>3, Zenon DEF Matched
  <2> QED
    BY <2>3, Zenon
<1>5. /\ pending_recvs'[p[2]] = pending_recvs[p[2]] \cup {<<h, h>>}
      /\ \A e \in Engine \ {p[2]} : pending_recvs'[e] = pending_recvs[e]
  BY <1>1, <1>3, <1>4, Zenon
<1>6. ASSUME NEW y \in Part, Gone(y)' PROVE Gone(y) \/ y = h
  <2>1. y.dst \in Engine
    BY DEF Part
  <2>2. <<y, y>> = <<h, h>> => y = h
    BY Zenon
  <2> QED
    BY <2>1, <2>2, <1>1, <1>5, <1>6, Zenon DEF Gone
<1>7. UnsentOrder' /\ ChannelOrder' /\ GoneOrder'
  BY <1>1, <1>6, TakeKeepsOrder, Zenon DEF h
<1>8. PoolOnce'
  <2>1. <<h, h>>[1] = h /\ <<h, h>> \notin processed
    BY <1>2, Zenon DEF Gone
  <2>2. ASSUME NEW e \in Engine, NEW x \in pending_recvs'[e]
        PROVE  x[1].dst = e /\ x \notin processed
    <3>1. CASE x \in pending_recvs[e]
      BY <3>1, Zenon DEF WayIInv, PoolOnce
    <3>2. CASE x = <<h, h>> /\ e = p[2]
      BY <3>2, <2>1, <1>2, Zenon
    <3> QED
      BY <2>2, <3>1, <3>2, <1>5, Zenon
  <2> QED
    BY <2>2, <1>1, Zenon DEF WayIInv, PoolOnce
<1> QED
  BY <1>7, <1>8, Zenon DEF WayIInv

(* A local part goes from the channel to the pool in one step.               *)
LEMMA RecvLocalKeepsWay ==
    ASSUME PairIInv, WayIInv, NEW e \in Engine, RecvLocal(e)
    PROVE  /\ WayIInv'
           /\ \E h \in Part : WasPut(h) /\ ~Gone(h) /\ processed' = processed \cup {<<h, h>>}
<1> DEFINE p == <<e, e>>
           h == Head(tensors[p])
           g == Head(local_recv[e])
<1>1. /\ UNCHANGED <<puts, send_queue, parts, pending_recvs>> /\ tensors[p] # <<>>
      /\ tensors' = [tensors EXCEPT ![p] = Tail(@)]
      /\ processed' = processed \cup {<<g, h>>}
  BY Zenon DEF RecvLocal, sendVars
<1>p. p \in Pair
  BY Zenon DEF Pair
<1>2. h \in Part /\ WasPut(h) /\ ~Gone(h)
  BY <1>1, <1>p, OldestIsNew, Zenon
<1> HIDE DEF p, h, g
<1>3. g = h
  <2>1. PairedWithOwnTensor'
    BY RecvLocalKeeps, Zenon DEF PairIInv
  <2>2. <<g, h>> \in processed'
    BY <1>1, Zenon
  <2>3. <<g, h>>[1] = <<g, h>>[2]
    BY <2>1, <2>2, Zenon DEF PairedWithOwnTensor
  <2> QED
    BY <2>3, Zenon
<1>4. ASSUME NEW y \in Part, Gone(y)' PROVE Gone(y) \/ y = h
  BY <1>1, <1>3, <1>4, Zenon DEF Gone
<1>5. UnsentOrder' /\ ChannelOrder' /\ GoneOrder'
  BY <1>1, <1>4, <1>p, TakeKeepsOrder, Zenon DEF h
<1>6. PoolOnce'
  <2>1. ASSUME NEW f \in Engine, NEW x \in pending_recvs[f] PROVE x # <<h, h>>
    <3>1. x[1].dst = f
      BY Zenon DEF WayIInv, PoolOnce
    <3>2. x = <<h, h>> => x[1] = h
      OBVIOUS
    <3> QED
      BY <3>1, <3>2, <1>2, Zenon DEF Gone
  <2>2. <<h, h>> \in Part \X Part
    BY <1>2, Zenon
  <2> QED
    BY <2>1, <2>2, <1>1, <1>3, Zenon DEF WayIInv, PoolOnce
<1> QED
  BY <1>1, <1>2, <1>3, <1>5, <1>6, Zenon DEF WayIInv

(* A completed receive goes to the pool.                                     *)
LEMMA ProcessKeepsWay ==
    ASSUME PairIInv, WayIInv, NEW e \in Engine, NEW x \in pending_recvs[e], ProcessRecv(e, x)
    PROVE  /\ WayIInv'
           /\ \E h \in Part : WasPut(h) /\ <<h, h>> \notin processed
                              /\ processed' = processed \cup {<<h, h>>}
<1>1. /\ UNCHANGED <<puts, send_queue, parts, tensors>>
      /\ pending_recvs' = [pending_recvs EXCEPT ![e] = @ \ {x}]
      /\ processed' = processed \cup {x}
  BY Zenon DEF ProcessRecv, sendVars
<1>2. /\ pending_recvs \in [Engine -> SUBSET (Part \X Part)] /\ x \in Part \X Part /\ x[1] = x[2]
      /\ x[1].dst = e /\ x \notin processed
  BY Zenon DEF PairIInv, Matched, WayIInv, PoolOnce
<1>3. PICK h \in Part : x = <<h, h>>
  BY <1>2
<1>4. h.dst = e
  BY <1>2, <1>3, Zenon
<1>5. /\ pending_recvs'[e] = pending_recvs[e] \ {x}
      /\ \A f \in Engine \ {e} : pending_recvs'[f] = pending_recvs[f]
  BY <1>1, <1>2, Zenon
<1>6. /\ \A f, k : Unsent(f, k)' = Unsent(f, k)
      /\ \A y : WasPut(y)' <=> WasPut(y)
  BY <1>1, Zenon DEF Unsent, WasPut
<1>7. Gone(h) /\ WasPut(h)
  BY <1>3, <1>4, Zenon DEF Gone, WayIInv, GoneOrder
<1>8. ASSUME NEW y \in Part, Gone(y)' PROVE Gone(y)
  <2>1. y.dst \in Engine
    BY DEF Part
  <2>2. <<y, y>> = x => y = h
    BY <1>3, Zenon
  <2> QED
    BY <2>1, <2>2, <1>1, <1>5, <1>7, <1>8, Zenon DEF Gone
<1>9. \A s : AllPut(s) => \A i \in 1 .. Len(s) : WasPut(s[i])'
  BY <1>6, Zenon DEF AllPut
<1>10. UnsentOrder'
  <2>1. ASSUME NEW f \in Engine, NEW k \in 0 .. Len(send_queue[f])
        PROVE  /\ (InOrder(Unsent(f, k)) /\ AllPut(Unsent(f, k)))'
               /\ \A l \in 0 .. Len(send_queue[f]) : k < l => Precedes(Unsent(f, k), Unsent(f, l))'
    <3>1. /\ InOrder(Unsent(f, k)) /\ AllPut(Unsent(f, k))
          /\ \A l \in 0 .. Len(send_queue[f]) : k < l => Precedes(Unsent(f, k), Unsent(f, l))
      BY Zenon DEF WayIInv, UnsentOrder
    <3> QED
      BY <3>1, <1>6, <1>9, Zenon DEF InOrder, AllPut, Precedes, Below
  <2> QED
    BY <2>1, <1>1, Zenon DEF UnsentOrder
<1>11. ChannelOrder'
  BY <1>1, <1>6, Zenon DEF WayIInv, ChannelOrder, AllPut, InOrder, Precedes, Below
<1>12. GoneOrder'
  BY <1>1, <1>6, <1>8, Zenon DEF WayIInv, GoneOrder, Below
<1>13. PoolOnce'
  <2>1. ASSUME NEW f \in Engine, NEW z \in pending_recvs'[f]
        PROVE  z[1].dst = f /\ z \notin processed /\ z # x
    <3>1. z \in pending_recvs[f] /\ (f = e => z # x)
      BY <1>5, Zenon
    <3>2. z[1].dst = f /\ z \notin processed
      BY <3>1, Zenon DEF WayIInv, PoolOnce
    <3> QED
      BY <3>1, <3>2, <1>2, Zenon
  <2> QED
    BY <2>1, <1>1, <1>2, Zenon DEF WayIInv, PoolOnce
<1> QED
  BY <1>1, <1>2, <1>3, <1>7, <1>10, <1>11, <1>12, <1>13, Zenon DEF WayIInv

(* A batch goes to the end of the queue, its parts numbered above all that   *)
(* were put before.                                                          *)
LEMMA SplitIsAbove ==
    ASSUME PairIInv, NEW e \in Engine, NEW route \in Route, Put(e, route)
    PROVE  /\ Split(e, route) \in Seq(Part) /\ InOrder(Split(e, route))
           /\ \A i \in 1 .. Len(Split(e, route)), x \in Part : x = Split(e, route)[i] => WasPut(x)'
           /\ \A y \in Part : WasPut(y) => WasPut(y)'
           /\ \A y \in Part : WasPut(y) /\ y.src = e => Below(y, Split(e, route))
<1> DEFINE S == Split(e, route)
           q == puts[e]
<1>1. Len(q) + Len(route) <= Quota[e] /\ puts' = [puts EXCEPT ![e] = @ \o route]
  BY Zenon DEF Put
<1>2. puts \in [Engine -> Seq(Engine)] /\ q \in Seq(Engine) /\ route \in Seq(Engine)
  BY RouteFacts, Zenon DEF PairIInv, QueueTypes
<1>3. PICK m \in Nat : m = Len(q)
  BY <1>2, LenProperties, Zenon
<1>4. PICK n \in Nat : n = Len(route)
  BY <1>2, LenProperties, Zenon
<1>5. Quota[e] \in Nat /\ Quota[e] <= MaxParts /\ MaxParts \in Nat
  BY TransportAssumption
<1>6. m + n <= MaxParts
  BY <1>1, <1>3, <1>4, <1>5
<1>7. S \in Seq(Part)
  BY <1>2, <1>3, <1>4, <1>6, SplitFacts, Zenon
<1>8. DOMAIN route = 1 .. n /\ DOMAIN q = 1 .. m
  BY <1>2, <1>3, <1>4, LenProperties, Zenon
<1>9. S = [i \in 1 .. n |-> [src |-> e, dst |-> route[i], n |-> m + i]]
  BY <1>3, <1>8, Zenon DEF Split
<1>10. /\ Len(S) = n
       /\ \A i \in 1 .. n : S[i].src = e /\ S[i].dst = route[i] /\ S[i].n = m + i
  <2> HIDE DEF S
  <2>1. DOMAIN S = 1 .. n
    BY <1>9, Zenon
  <2>2. \A i \in 1 .. n : S[i] = [src |-> e, dst |-> route[i], n |-> m + i]
    BY <1>9, Zenon
  <2> QED
    BY <2>1, <2>2, <1>7, LenProperties
<1> HIDE DEF S
<1>11. /\ puts'[e] = q \o route /\ \A f \in Engine \ {e} : puts'[f] = puts[f]
       /\ q \o route \in Seq(Engine) /\ Len(q \o route) = m + n
       /\ DOMAIN (q \o route) = 1 .. m + n
  <2>1. q \o route \in Seq(Engine) /\ Len(q \o route) = m + n
    BY <1>2, <1>3, <1>4, ConcatProperties
  <2>2. DOMAIN (q \o route) = 1 .. m + n
    BY <2>1, LenProperties, Zenon
  <2> QED
    BY <1>1, <1>2, <2>1, <2>2, Zenon
<1>12. /\ \A i \in 1 .. m : (q \o route)[i] = q[i]
       /\ \A i \in 1 .. n : (q \o route)[m + i] = route[i]
  BY <1>2, <1>3, <1>4
<1> HIDE DEF q
<1>13. /\ \A i \in 1 .. n : m + i \in 1 .. m + n
       /\ \A i \in 1 .. m : i \in 1 .. m + n
       /\ \A i \in 1 .. m, j \in 1 .. n : i < m + j
       /\ \A i, j \in 1 .. n : i < j => m + i < m + j
  OBVIOUS
<1>14. InOrder(S)
  BY <1>10, <1>13, Zenon DEF InOrder
<1>15. ASSUME NEW i \in 1 .. n, NEW x \in Part, x = S[i] PROVE WasPut(x)'
  <2>1. x.src = e /\ x.dst = route[i] /\ x.n = m + i
    BY <1>10, <1>15, Zenon
  <2>2. x.n \in DOMAIN (q \o route) /\ (q \o route)[x.n] = x.dst
    BY <2>1, <1>11, <1>12, <1>13, Zenon
  <2> QED
    BY <2>1, <2>2, <1>11, Zenon DEF WasPut
<1>16. ASSUME NEW y \in Part, WasPut(y) PROVE WasPut(y)'
  <2>1. y.src \in Engine
    BY DEF Part
  <2>2. CASE y.src # e
    BY <2>1, <2>2, <1>11, <1>16, Zenon DEF WasPut
  <2>3. CASE y.src = e
    BY <2>3, <1>8, <1>11, <1>12, <1>13, <1>16, Zenon DEF WasPut, q
  <2> QED
    BY <2>2, <2>3, Zenon
<1>17. ASSUME NEW y \in Part, WasPut(y), y.src = e PROVE Below(y, S)
  <2>1. y.n \in 1 .. m
    BY <1>8, <1>17, Zenon DEF WasPut, q
  <2> QED
    BY <2>1, <1>10, <1>13, Zenon DEF Below
<1> QED
  BY <1>7, <1>10, <1>14, <1>15, <1>16, <1>17, Zenon DEF S

(* put keeps the order.                                                      *)
LEMMA PutKeepsWay ==
    ASSUME PairIInv, WayIInv, NEW e \in Engine, NEW route \in Route, Put(e, route)
    PROVE  WayIInv'
<1>1. /\ UNCHANGED <<parts, tensors, pending_recvs, processed>>
      /\ send_queue' = [send_queue EXCEPT ![e] = Append(@, Split(e, route))]
  BY Zenon DEF Put, recvVars
<1>2. PICK S \in Seq(Part) :
         /\ S = Split(e, route) /\ InOrder(S)
         /\ \A i \in 1 .. Len(S), x \in Part : x = S[i] => WasPut(x)'
         /\ \A y \in Part : WasPut(y) => WasPut(y)'
         /\ \A y \in Part : WasPut(y) /\ y.src = e => Below(y, S)
  BY SplitIsAbove, Zenon
<1>t. /\ send_queue \in [Engine -> Seq(Seq(Part))] /\ parts \in [Engine -> Seq(Part)]
      /\ tensors \in [Pair -> Seq(Part)] /\ send_queue[e] \in Seq(Seq(Part))
  BY Zenon DEF PairIInv, QueueTypes
<1>3. PICK n \in Nat : n = Len(send_queue[e])
  BY <1>t, LenProperties, Zenon
<1>4. /\ send_queue'[e] = Append(send_queue[e], S)
      /\ \A f \in Engine \ {e} : send_queue'[f] = send_queue[f]
  BY <1>1, <1>2, <1>t, Zenon
<1>5. /\ Len(send_queue'[e]) = n + 1 /\ send_queue'[e][n + 1] = S
      /\ \A k \in 1 .. n : send_queue'[e][k] = send_queue[e][k]
  BY <1>2, <1>3, <1>4, <1>t, AppendProperties
<1>6. /\ \A k \in 0 .. n + 1 : k \in 0 .. n \/ k = n + 1
      /\ n + 1 # 0 /\ \A k \in 0 .. n : k = 0 \/ k \in 1 .. n
      /\ \A k, l \in 0 .. n + 1 : k < l => k \in 0 .. n
  OBVIOUS
<1>7. /\ Unsent(e, n + 1)' = S
      /\ \A k \in 0 .. n : Unsent(e, k)' = Unsent(e, k)
      /\ \A f \in Engine \ {e} : \A k : Unsent(f, k)' = Unsent(f, k)
  <2>1. Unsent(e, n + 1)' = S
    BY <1>5, <1>6, Zenon DEF Unsent
  <2>2. ASSUME NEW k \in 0 .. n PROVE Unsent(e, k)' = Unsent(e, k)
    BY <1>1, <1>5, <1>6, Zenon DEF Unsent
  <2>3. ASSUME NEW f \in Engine \ {e}, NEW k PROVE Unsent(f, k)' = Unsent(f, k)
    <3>1. send_queue'[f] = send_queue[f] /\ parts'[f] = parts[f]
      BY <1>1, <1>4, Zenon
    <3> QED
      BY <3>1, Zenon DEF Unsent
  <2> QED
    BY <2>1, <2>2, <2>3, Zenon
\* The parts of every old batch are of its engine and were put.
<1>8. ASSUME NEW f \in Engine, NEW k \in 0 .. Len(send_queue[f])
      PROVE  /\ Unsent(f, k) \in Seq(Part) /\ AllFrom(Unsent(f, k), f) /\ AllPut(Unsent(f, k))
  <2>1. AllPut(Unsent(f, k))
    BY Zenon DEF WayIInv, UnsentOrder
  <2>2. CASE k = 0
    BY <2>1, <2>2, Zenon DEF Unsent, PairIInv, QueueTypes, OwnParts
  <2>3. CASE k # 0
    <3>1. k \in 1 .. Len(send_queue[f])
      BY <2>3
    <3>2. send_queue[f] \in Seq(Seq(Part))
      BY <1>t, Zenon
    <3>3. send_queue[f][k] \in Seq(Part)
      BY <3>1, <3>2, ElementOfSeq, Zenon
    <3> QED
      BY <2>1, <2>3, <3>1, <3>3, Zenon DEF Unsent, PairIInv, OwnParts
  <2> QED
    BY <2>2, <2>3, Zenon
<1>9. ASSUME NEW s \in Seq(Part), AllPut(s) PROVE \A i \in 1 .. Len(s) : \A y : y = s[i] => WasPut(y)'
  BY <1>2, <1>9, ElementOfSeq, Zenon DEF AllPut
<1>10. ASSUME NEW s \in Seq(Part), AllPut(s), AllFrom(s, e) PROVE Precedes(s, S)
  BY <1>2, <1>10, ElementOfSeq, Zenon DEF AllPut, AllFrom, Precedes

<1>11. UnsentOrder'
  <2> SUFFICES ASSUME NEW f \in Engine, NEW k \in 0 .. Len(send_queue'[f])
               PROVE  /\ (InOrder(Unsent(f, k)) /\ AllPut(Unsent(f, k)))'
                      /\ \A l \in 0 .. Len(send_queue'[f]) :
                            k < l => Precedes(Unsent(f, k), Unsent(f, l))'
    BY Zenon DEF UnsentOrder
  <2>1. CASE k \in 0 .. Len(send_queue[f]) /\ (f = e => k \in 0 .. n)
    <3>1. /\ InOrder(Unsent(f, k)) /\ AllPut(Unsent(f, k)) /\ Unsent(f, k)' = Unsent(f, k)
          /\ \A l \in 0 .. Len(send_queue[f]) : k < l => Precedes(Unsent(f, k), Unsent(f, l))
      BY <2>1, <1>7, Zenon DEF WayIInv, UnsentOrder
    <3>2. \A i \in 1 .. Len(Unsent(f, k)) : \A y : y = Unsent(f, k)[i] => WasPut(y)'
      BY <3>1, <2>1, <1>8, <1>9, Zenon
    <3>3. ASSUME NEW l \in 0 .. Len(send_queue'[f]), k < l
          PROVE  Precedes(Unsent(f, k), Unsent(f, l)')
      <4>1. CASE f # e
        BY <4>1, <3>1, <3>3, <1>4, <1>7, Zenon
      <4>2. CASE f = e /\ l \in 0 .. n
        BY <4>2, <3>1, <3>3, <1>3, <1>7, Zenon
      <4>3. CASE f = e /\ l = n + 1
        BY <4>3, <2>1, <1>7, <1>8, <1>10, Zenon
      <4> QED
        BY <4>1, <4>2, <4>3, <1>5, <1>6, Zenon
    <3>4. InOrder(Unsent(f, k))' /\ AllPut(Unsent(f, k))'
      BY <3>1, <3>2, Zenon DEF InOrder, AllPut
    <3>5. ASSUME NEW l \in 0 .. Len(send_queue'[f]), k < l
          PROVE  Precedes(Unsent(f, k), Unsent(f, l))'
      BY <3>1, <3>3, <3>5, Zenon DEF Precedes, Below
    <3> QED
      BY <3>4, <3>5, Zenon
  <2>2. CASE f = e /\ k = n + 1
    <3>1. InOrder(S) /\ Unsent(f, k)' = S
      BY <2>2, <1>2, <1>7, Zenon
    <3>2. \A i \in 1 .. Len(S) : \A y : y = S[i] => WasPut(y)'
      BY <1>2, ElementOfSeq, Zenon
    <3>3. InOrder(Unsent(f, k))' /\ AllPut(Unsent(f, k))'
      BY <3>1, <3>2, Zenon DEF InOrder, AllPut
    <3>4. \A l \in 0 .. n + 1 : ~(n + 1 < l)
      OBVIOUS
    <3> QED
      BY <3>3, <3>4, <2>2, <1>5, Zenon
  <2> QED
    BY <2>1, <2>2, <1>3, <1>4, <1>5, <1>6, Zenon
<1>12. ChannelOrder'
  <2> SUFFICES ASSUME NEW c \in Pair
               PROVE  /\ (InOrder(tensors[c]) /\ AllPut(tensors[c]))'
                      /\ \A k \in 0 .. Len(send_queue'[c[1]]) :
                            Precedes(tensors[c], Unsent(c[1], k))'
    BY Zenon DEF ChannelOrder
  <2>1. /\ c[1] \in Engine /\ tensors[c] \in Seq(Part) /\ AllOf(tensors[c], c)
        /\ InOrder(tensors[c]) /\ AllPut(tensors[c]) /\ tensors'[c] = tensors[c]
        /\ \A k \in 0 .. Len(send_queue[c[1]]) : Precedes(tensors[c], Unsent(c[1], k))
    BY <1>1, <1>t, Zenon DEF WayIInv, ChannelOrder, Pair, PairIInv, OwnChannel
  <2>2. AllFrom(tensors[c], c[1])
    <3>1. ASSUME NEW i \in 1 .. Len(tensors[c]) PROVE tensors[c][i].src = c[1]
      <4>1. <<tensors[c][i].src, tensors[c][i].dst>> = c
        BY <2>1, Zenon DEF AllOf, PairOf
      <4> QED
        BY <4>1
    <3> QED
      BY <3>1, Zenon DEF AllFrom
  <2>3. ASSUME NEW k \in 0 .. Len(send_queue'[c[1]]) PROVE Precedes(tensors[c], Unsent(c[1], k)')
    <3>1. CASE c[1] # e
      <4>1. /\ k \in 0 .. Len(send_queue[c[1]]) /\ Unsent(c[1], k)' = Unsent(c[1], k)
        BY <3>1, <2>1, <2>3, <1>4, <1>7, Zenon
      <4> QED
        BY <4>1, <2>1, Zenon
    <3>2. CASE c[1] = e /\ k \in 0 .. n
      BY <3>2, <2>1, <1>3, <1>7, Zenon
    <3>3. CASE c[1] = e /\ k = n + 1
      BY <3>3, <2>1, <2>2, <1>7, <1>10, Zenon
    <3> QED
      BY <3>1, <3>2, <3>3, <1>5, <1>6, Zenon
  <2>4. \A i \in 1 .. Len(tensors[c]) : \A y : y = tensors[c][i] => WasPut(y)'
    BY <2>1, <1>9, Zenon
  <2>5. InOrder(tensors[c])' /\ AllPut(tensors[c])'
    BY <2>1, <2>4, Zenon DEF InOrder, AllPut
  <2>6. ASSUME NEW k \in 0 .. Len(send_queue'[c[1]]) PROVE Precedes(tensors[c], Unsent(c[1], k))'
    BY <2>1, <2>3, Zenon DEF Precedes, Below
  <2> QED
    BY <2>5, <2>6, Zenon
<1>13. GoneOrder'
  <2> SUFFICES ASSUME NEW y \in Part, Gone(y)'
               PROVE  /\ WasPut(y)' /\ Below(y, tensors[PairOf(y)])'
                      /\ \A k \in 0 .. Len(send_queue'[y.src]) : Below(y, Unsent(y.src, k))'
    BY Zenon DEF GoneOrder
  <2>1. Gone(y) /\ y.src \in Engine
    BY <1>1, Zenon DEF Gone, Part
  <2>2. /\ WasPut(y) /\ Below(y, tensors[PairOf(y)])
        /\ \A k \in 0 .. Len(send_queue[y.src]) : Below(y, Unsent(y.src, k))
    BY <2>1, Zenon DEF WayIInv, GoneOrder
  <2>3. ASSUME NEW k \in 0 .. Len(send_queue'[y.src]) PROVE Below(y, Unsent(y.src, k)')
    <3>1. CASE y.src # e
      BY <3>1, <2>1, <2>2, <2>3, <1>4, <1>7, Zenon
    <3>2. CASE y.src = e /\ k \in 0 .. n
      BY <3>2, <2>2, <1>3, <1>7, Zenon
    <3>3. CASE y.src = e /\ k = n + 1
      BY <3>3, <2>2, <1>2, <1>7, Zenon
    <3> QED
      BY <3>1, <3>2, <3>3, <1>5, <1>6, Zenon
  <2> QED
    BY <2>2, <2>3, <1>1, <1>2, Zenon DEF Below
<1>14. PoolOnce'
  BY <1>1, Zenon DEF WayIInv, PoolOnce
<1> QED
  BY <1>11, <1>12, <1>13, <1>14, Zenon DEF WayIInv

(* At first no part is anywhere.                                             *)
LEMMA WayInit == Init => WayIInv
<1> SUFFICES ASSUME Init PROVE WayIInv
  BY Zenon
<1>1. /\ \A e \in Engine : parts[e] = <<>> /\ send_queue[e] = <<>> /\ pending_recvs[e] = {}
      /\ \A c \in Pair : tensors[c] = <<>> /\ c[1] \in Engine
      /\ processed = {}
  BY Zenon DEF Init, Pair
<1>2. Len(<<>>) = 0 /\ \A k \in 0 .. 0 : k = 0 /\ ~(\E i \in 1 .. 0 : TRUE)
  BY EmptySeq
<1>3. \A e \in Engine : \A k \in 0 .. Len(send_queue[e]) : k = 0 /\ Unsent(e, k) = <<>>
  BY <1>1, <1>2, Zenon DEF Unsent
<1>4. InOrder(<<>>) /\ AllPut(<<>>) /\ \A t : Precedes(<<>>, t)
  BY <1>2 DEF InOrder, AllPut, Precedes
<1>5. UnsentOrder
  BY <1>3, <1>4, Zenon DEF UnsentOrder
<1>6. ChannelOrder
  BY <1>1, <1>4, Zenon DEF ChannelOrder
<1>7. GoneOrder
  <2>1. ASSUME NEW y \in Part PROVE ~Gone(y)
    <3>1. y.dst \in Engine
      BY DEF Part
    <3> QED
      BY <3>1, <1>1, Zenon DEF Gone
  <2> QED
    BY <2>1, Zenon DEF GoneOrder
<1>8. PoolOnce
  BY <1>1, Zenon DEF PoolOnce
<1> QED
  BY <1>5, <1>6, <1>7, <1>8, Zenon DEF WayIInv

(* Every step keeps the order.                                               *)
LEMMA WayNext == PairIInv /\ WayIInv /\ [Next]_vars => WayIInv'
<1> SUFFICES ASSUME PairIInv, WayIInv, [Next]_vars PROVE WayIInv'
  BY Zenon
<1>1. ASSUME NEW e \in Engine, NEW route \in Route, Put(e, route) PROVE WayIInv'
  BY <1>1, PutKeepsWay, Zenon
<1>2. ASSUME NEW e \in Engine, Dispatcher(e) PROVE WayIInv'
  <2>1. CASE CleanPendingSends(e)
    BY <2>1, WayFrame, Zenon DEF CleanPendingSends, recvVars
  <2>2. CASE DrainPendingSends(e)
    BY <2>2, WayFrame, Zenon DEF DrainPendingSends, recvVars
  <2>3. CASE SendMetadata(e)
    BY <2>3, WayFrame, Zenon DEF SendMetadata, recvVars
  <2> QED
    BY <1>2, <2>1, <2>2, <2>3, NextBatchKeepsWay, TensorKeepsWay, Zenon DEF Dispatcher
<1>3. ASSUME NEW e \in Engine, RecvLocal(e) PROVE WayIInv'
  BY <1>3, RecvLocalKeepsWay, Zenon
<1>4. ASSUME NEW c \in Pair, Transfer(c) PROVE WayIInv'
  BY <1>4, TransferKeepsWay, Zenon
<1>5. ASSUME NEW e \in Engine, NEW s \in Engine, RecvMetadata(e, s) PROVE WayIInv'
  BY <1>5, WayFrame, Zenon DEF RecvMetadata, sendVars
<1>6. ASSUME NEW e \in Engine, NEW x \in pending_recvs[e], ProcessRecv(e, x) PROVE WayIInv'
  BY <1>6, ProcessKeepsWay, Zenon
<1>7. CASE UNCHANGED vars
  BY <1>7, WayFrame, Zenon DEF vars, sendVars, recvVars
<1> QED
  BY <1>1, <1>2, <1>3, <1>4, <1>5, <1>6, <1>7, Zenon DEF Next, Pool

-----------------------------------------------------------------------------
(* At first nothing was sent over the link.                                  *)
LEMMA LinkStart == Init => Promise!LinkInit
<1> SUFFICES ASSUME Init PROVE Promise!LinkInit
  BY Zenon
<1>1. ASSUME NEW x \in Part PROVE ~(x.n \in DOMAIN puts[x.src] /\ puts[x.src][x.n] = x.dst)
  <2>1. x.src \in Engine
    BY DEF Part
  <2>2. DOMAIN puts[x.src] = {}
    BY <2>1 DEF Init
  <2> QED
    BY <2>2, Zenon
<1>2. processed = {}
  BY Zenon DEF Init
<1> QED
  BY <1>1, <1>2, Zenon DEF Promise!LinkInit, Sent, Delivered

(* A delivery of the transport is one of the link: of a part that was put,   *)
(* and not before.                                                           *)
LEMMA DeliverStep ==
    ASSUME PairIInv, WayIInv, NEW h \in Part, WasPut(h), <<h, h>> \notin processed,
           processed' = processed \cup {<<h, h>>}, UNCHANGED puts
    PROVE  Promise!LinkNext
<1>1. Delivered' = Delivered \cup {h}
  <2>1. <<h, h>>[1] = h
    OBVIOUS
  <2>2. PICK w : w = <<h, h>>
    BY Zenon
  <2>3. w[1] = h /\ processed' = processed \cup {w}
    BY <2>1, <2>2, Zenon
  <2> QED
    BY <2>3, Zenon DEF Delivered
<1>2. h \in Sent /\ Sent' = Sent
  BY Zenon DEF Sent, WasPut
<1>3. h \notin Delivered
  <2>1. ASSUME NEW x \in processed, x[1] = h PROVE FALSE
    <3>1. x \in Part \X Part /\ x[1] = x[2]
      BY Zenon DEF WayIInv, PoolOnce, PairIInv, PairedWithOwnTensor
    <3>2. x = <<h, h>>
      BY <2>1, <3>1
    <3> QED
      BY <3>2, Zenon
  <2> QED
    BY <2>1, Zenon DEF Delivered
<1>4. Promise!Deliver(h)
  BY <1>1, <1>2, <1>3, Zenon DEF Promise!Deliver, Delivered, Sent
<1> QED
  BY <1>4, Zenon DEF Promise!LinkNext

(* Every step of engines, pools and channels is a step of the link, or none. *)
LEMMA LinkStep == PairIInv /\ WayIInv /\ [Next]_vars => [Promise!LinkNext]_(Promise!linkVars)
<1> SUFFICES ASSUME PairIInv, WayIInv, [Next]_vars
             PROVE  Promise!LinkNext \/ UNCHANGED Promise!linkVars
  BY Zenon
<1>1. ASSUME UNCHANGED <<puts, processed>> PROVE UNCHANGED Promise!linkVars
  BY <1>1, Zenon DEF Promise!linkVars, Sent, Delivered
<1>2. ASSUME NEW e \in Engine, NEW route \in Route, Put(e, route) PROVE Promise!LinkNext
  <2>1. UNCHANGED processed /\ \A y \in Part : WasPut(y) => WasPut(y)'
    BY <1>2, SplitIsAbove, Zenon DEF Put, recvVars
  <2>2. Promise!Submit
    BY <2>1, Zenon DEF Promise!Submit, WasPut, Sent, Delivered
  <2> QED
    BY <2>2, Zenon DEF Promise!LinkNext
<1>3. ASSUME NEW e \in Engine, Dispatcher(e) PROVE UNCHANGED <<puts, processed>>
  BY <1>3, Zenon DEF Dispatcher, CleanPendingSends, NextBatch, DrainPendingSends,
                     SendMetadata, SendTensor, recvVars
<1>4. ASSUME NEW e \in Engine, RecvLocal(e) PROVE Promise!LinkNext
  <2>1. UNCHANGED puts
    BY <1>4, Zenon DEF RecvLocal, sendVars
  <2>2. PICK h \in Part : WasPut(h) /\ ~Gone(h) /\ processed' = processed \cup {<<h, h>>}
    BY <1>4, RecvLocalKeepsWay, Zenon
  <2>3. <<h, h>> \notin processed
    BY <2>2, Zenon DEF Gone
  <2> QED
    BY <2>1, <2>2, <2>3, DeliverStep, Zenon
<1>5. ASSUME NEW c \in Pair, Transfer(c) PROVE UNCHANGED <<puts, processed>>
  BY <1>5, Zenon DEF Transfer, sendVars
<1>6. ASSUME NEW e \in Engine, NEW s \in Engine, RecvMetadata(e, s)
      PROVE  UNCHANGED <<puts, processed>>
  BY <1>6, Zenon DEF RecvMetadata, sendVars
<1>7. ASSUME NEW e \in Engine, NEW x \in pending_recvs[e], ProcessRecv(e, x) PROVE Promise!LinkNext
  <2>1. UNCHANGED puts
    BY <1>7, Zenon DEF ProcessRecv, sendVars
  <2>2. PICK h \in Part : WasPut(h) /\ <<h, h>> \notin processed
                          /\ processed' = processed \cup {<<h, h>>}
    BY <1>7, ProcessKeepsWay, Zenon
  <2> QED
    BY <2>1, <2>2, DeliverStep, Zenon
<1>8. CASE UNCHANGED vars
  BY <1>1, <1>8, Zenon DEF vars, sendVars, recvVars
<1> QED
  BY <1>1, <1>2, <1>3, <1>4, <1>5, <1>6, <1>7, <1>8, Zenon DEF Next, Pool

(* NCCL channels, local channels and metadata together keep the promise of a *)
(* link, its fairness apart: whatever the engines, every part that is        *)
(* processed was put, and is processed once.                                 *)
THEOREM TransportIsLink ==
    Spec => Promise!LinkInit /\ [][Promise!LinkNext]_(Promise!linkVars)
BY LinkStart, LinkStep, PairInit, PairNext, WayInit, WayNext, PTL DEF Spec

=============================================================================
