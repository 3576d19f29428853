----------------------------- MODULE RingProofs ------------------------------
(***************************************************************************)
(* The lock-free receive ring and the queue over UCX around it: what goes   *)
(* in comes out, in order (RingIInv); the messages of a sender stay in      *)
(* order on every way they take (OrderIInv); and the ring has room for all  *)
(* the windows allow (Windowed, and a count of the ring's contents by       *)
(* sender).  For every capacity, window and number of senders.              *)
(*                                                                          *)
(* And the rings of index buffers of the engine's loop: the loop is one     *)
(* result behind (LoopIInv), so that few reads are open and the slots are   *)
(* handed out in the order they are read (SlotIInv).  For every number of   *)
(* requests and of slots.                                                   *)
(***************************************************************************)
EXTENDS UcxQueue, EngineLoop, FiniteSetTheorems, TLAPS

\* Items whose slot has been freed.
Freed == IF deq = "free" THEN Len(received) - 1 ELSE Len(received)

\* Slots in use, the one being freed included.
InUse == Len(accepted) - Freed

\* The k-th slot after the tail.
Place(k) == IF tail + k < Capacity THEN tail + k ELSE tail + k - Capacity

Types ==
    /\ RingTypeOK
    /\ enq # "idle" => item \in Item

\* head is InUse slots after tail: this ties the two indices to the histories.
Distance ==
    /\ InUse \in 0 .. Capacity - 1
    /\ head = Place(InUse)

\* The used slots hold the items not yet taken, in order.
Contents ==
    \A k \in 0 .. InUse - 1 :
        (k = 0 /\ deq = "free") \/ buffer[Place(k)] = accepted[Freed + k + 1]

\* What each side knows after its check, which the other side cannot undo: the
\* consumer only makes room, the producer only adds items.
Checked ==
    /\ enq \in {"store", "publish"} => InUse < Capacity - 1
    /\ enq = "publish" => buffer[head] = item
    /\ deq \in {"take", "free"} => InUse >= 1
    /\ deq = "free" => Len(received) >= 1

Prefix ==
    /\ Len(received) <= Len(accepted)
    /\ \A i \in 1 .. Len(received) : received[i] = accepted[i]

RingIInv == Types /\ Distance /\ Contents /\ Checked /\ Prefix

-----------------------------------------------------------------------------
(* Places are slots, and no two of them coincide within a round: the ring   *)
(* arithmetic behind try_enqueue and try_dequeue.                           *)
LEMMA PlaceFacts ==
    ASSUME tail \in Index
    PROVE  /\ Place(0) = tail
           /\ \A k \in 0 .. Capacity - 1 : Place(k) \in Index
           /\ \A j, k \in 0 .. Capacity - 1 : Place(j) = Place(k) => j = k
           /\ \A k \in 0 .. Capacity - 2 : After(Place(k)) = Place(k + 1)
BY RingAssumption DEF Place, Index, After

(* The two histories and the indices are numbers of the expected kind.       *)
LEMMA Numbers ==
    ASSUME RingIInv
    PROVE  /\ Len(accepted) \in Nat /\ Len(received) \in Nat
           /\ Freed \in Nat /\ InUse \in 0 .. Capacity - 1
           /\ head \in Index /\ tail \in Index
           /\ Freed + InUse = Len(accepted)
<1>1. Len(accepted) \in Nat /\ Len(received) \in Nat
  BY DEF RingIInv, Types, RingTypeOK
<1>2. InUse \in 0 .. Capacity - 1 /\ (deq = "free" => Len(received) >= 1)
  BY Zenon DEF RingIInv, Distance, Checked
<1> QED
  BY <1>1, <1>2 DEF RingIInv, Types, RingTypeOK, Freed, InUse

(* Initially nothing has been enqueued and the ring is empty.                *)
LEMMA InitIInv == RingInit => RingIInv
<1> SUFFICES ASSUME RingInit PROVE RingIInv
  BY Zenon
<1> USE RingAssumption DEF RingInit, Index
<1>1. Len(accepted) = 0 /\ Len(received) = 0 /\ Freed = 0 /\ InUse = 0
  BY DEF Freed, InUse
<1>2. Types
  BY DEF Types, RingTypeOK
<1>3. Distance
  BY <1>1 DEF Distance, Place
<1>4. Contents /\ Checked /\ Prefix
  BY <1>1 DEF Contents, Checked, Prefix
<1> QED
  BY <1>2, <1>3, <1>4, Zenon DEF RingIInv

(* A step of either side that moves no index and touches neither buffer nor  *)
(* histories keeps the invariant if it keeps what is known after a check.    *)
LEMMA ControlStep ==
    ASSUME RingIInv,
           UNCHANGED <<head, tail, buffer, accepted, received>>,
           Types', Checked', Freed' = Freed
    PROVE  RingIInv'
<1>1. InUse' = InUse
  BY Zenon DEF InUse
<1>2. \A k : Place(k)' = Place(k)
  BY Zenon DEF Place
<1>3. Distance'
  BY <1>1, <1>2, Zenon DEF RingIInv, Distance
<1>4. (deq' = "free") <=> (deq = "free")
  <2>1. Len(received) \in Nat
    BY DEF RingIInv, Types, RingTypeOK
  <2> QED
    BY <2>1 DEF Freed
<1>5. Contents'
  BY <1>1, <1>2, <1>4, Zenon DEF RingIInv, Contents
<1>6. Prefix'
  BY Zenon DEF RingIInv, Prefix
<1> QED
  BY <1>3, <1>5, <1>6, Zenon DEF RingIInv

(* Every step of try_enqueue and try_dequeue preserves the invariant.        *)
LEMMA NextIInv == RingIInv /\ [RingNext]_ringVars => RingIInv'
<1> SUFFICES ASSUME RingIInv, [RingNext]_ringVars PROVE RingIInv'
  BY Zenon
<1> USE RingAssumption
<1>n. /\ Len(accepted) \in Nat /\ Len(received) \in Nat
      /\ Freed \in Nat /\ InUse \in 0 .. Capacity - 1
      /\ head \in Index /\ tail \in Index
      /\ Freed + InUse = Len(accepted)
  BY Numbers, Zenon
<1>p. /\ Place(0) = tail
      /\ \A k \in 0 .. Capacity - 1 : Place(k) \in Index
      /\ \A j, k \in 0 .. Capacity - 1 : Place(j) = Place(k) => j = k
      /\ \A k \in 0 .. Capacity - 2 : After(Place(k)) = Place(k + 1)
  BY <1>n, PlaceFacts, Zenon
<1>h. head = Place(InUse)
  BY Zenon DEF RingIInv, Distance
<1>1. ASSUME NEW x \in Item, BeginEnqueue(x) PROVE RingIInv'
  <2>1. Types' /\ Checked' /\ Freed' = Freed
    BY <1>1, Zenon DEF BeginEnqueue, RingIInv, Types, RingTypeOK, Checked, InUse, Freed
  <2> QED
    BY <1>1, <2>1, ControlStep, Zenon DEF BeginEnqueue
<1>2. CASE RejectFull
  <2>1. Types' /\ Checked' /\ Freed' = Freed
    BY <1>2, Zenon DEF RejectFull, RingIInv, Types, RingTypeOK, Checked, InUse, Freed
  <2> QED
    BY <1>2, <2>1, ControlStep, Zenon DEF RejectFull
<1>3. CASE FindRoom
  <2>1. Types' /\ Freed' = Freed /\ InUse' = InUse
    BY <1>3, Zenon DEF FindRoom, RingIInv, Types, RingTypeOK, InUse, Freed
  <2>2. InUse # Capacity - 1
    <3>1. ASSUME InUse = Capacity - 1 PROVE After(head) = tail
      BY <3>1, <1>n, <1>h DEF Place, After, Index
    <3> QED
      BY <3>1, <1>3, Zenon DEF FindRoom, Full
  <2>3. Checked'
    BY <1>3, <1>n, <2>1, <2>2 DEF FindRoom, RingIInv, Checked
  <2> QED
    BY <1>3, <2>1, <2>3, ControlStep, Zenon DEF FindRoom
<1>4. CASE StoreItem
  <2>1. /\ UNCHANGED <<head, tail, accepted, received, deq, item>>
        /\ enq = "store" /\ enq' = "publish"
        /\ buffer' = [buffer EXCEPT ![head] = item]
    BY <1>4, Zenon DEF StoreItem
  <2>2. Freed' = Freed /\ InUse' = InUse /\ \A k : Place(k)' = Place(k)
    BY <2>1, Zenon DEF Freed, InUse, Place
  <2>3. Types'
    BY <2>1, Zenon DEF RingIInv, Types, RingTypeOK
  <2>4. buffer'[head] = item /\ \A i \in Index : i # head => buffer'[i] = buffer[i]
    BY <2>1, <1>n, Zenon DEF RingIInv, Types, RingTypeOK
  <2>5. Contents'
    <3>1. \A k \in 0 .. InUse - 1 : Place(k) \in Index /\ Place(k) # head
      BY <1>n, <1>p, <1>h
    <3> QED
      BY <2>1, <2>2, <2>4, <3>1, Zenon DEF RingIInv, Contents
  <2>6. Distance' /\ Prefix'
    BY <2>1, <2>2, Zenon DEF RingIInv, Distance, Prefix
  <2>7. Checked'
    BY <2>1, <2>2, <2>4, Zenon DEF RingIInv, Checked
  <2> QED
    BY <2>3, <2>5, <2>6, <2>7, Zenon DEF RingIInv
<1>5. CASE Publish
  <2>1. /\ UNCHANGED <<tail, buffer, deq, received>>
        /\ head' = After(head) /\ accepted' = Append(accepted, item)
        /\ enq = "publish" /\ enq' = "idle" /\ item' = None
        /\ item \in Item /\ accepted \in Seq(Item)
        /\ buffer[head] = item /\ InUse < Capacity - 1
    BY <1>5, Zenon DEF Publish, RingIInv, Types, RingTypeOK, Checked
  <2>2. /\ Len(accepted') = Len(accepted) + 1
        /\ accepted'[Len(accepted) + 1] = item
        /\ \A i \in 1 .. Len(accepted) : accepted'[i] = accepted[i]
    BY <2>1
  <2>3. Freed' = Freed /\ InUse' = InUse + 1 /\ \A k : Place(k)' = Place(k)
    BY <2>1, <2>2, <1>n DEF Freed, InUse, Place
  <2>4. Types'
    <3>1. head' \in Index
      BY <2>1, <1>n DEF After, Index
    <3>2. accepted' \in Seq(Item)
      BY <2>1
    <3> QED
      BY <2>1, <3>1, <3>2, Zenon DEF RingIInv, Types, RingTypeOK
  <2>5. Distance'
    <3>1. head' = Place(InUse + 1)
      BY <2>1, <1>n, <1>p, <1>h
    <3> QED
      BY <2>1, <2>3, <3>1, <1>n DEF Distance
  <2>6. Contents'
    <3> SUFFICES ASSUME NEW k \in 0 .. InUse, ~(k = 0 /\ deq = "free")
                 PROVE  buffer[Place(k)] = accepted'[Freed + k + 1]
      BY <2>1, <2>3, <1>n DEF Contents
    <3>1. CASE k = InUse
      BY <3>1, <2>1, <2>2, <1>n, <1>h, Zenon
    <3>2. CASE k \in 0 .. InUse - 1
      <4>1. buffer[Place(k)] = accepted[Freed + k + 1]
        BY <3>2, Zenon DEF RingIInv, Contents
      <4>2. Freed + k + 1 \in 1 .. Len(accepted)
        BY <3>2, <1>n
      <4> QED
        BY <4>1, <4>2, <2>2, Zenon
    <3> QED
      BY <3>1, <3>2, <1>n
  <2>7. Checked'
    BY <2>1, <2>3, <1>n DEF RingIInv, Checked
  <2>8. Prefix'
    BY <2>1, <2>2, <1>n DEF RingIInv, Prefix
  <2> QED
    BY <2>4, <2>5, <2>6, <2>7, <2>8, Zenon DEF RingIInv
<1>6. CASE BeginDequeue
  <2>1. Types' /\ Checked' /\ Freed' = Freed
    BY <1>6, Zenon DEF BeginDequeue, RingIInv, Types, RingTypeOK, Checked, InUse, Freed
  <2> QED
    BY <1>6, <2>1, ControlStep, Zenon DEF BeginDequeue
<1>7. CASE RejectEmpty
  <2>1. Types' /\ Checked' /\ Freed' = Freed
    BY <1>7, Zenon DEF RejectEmpty, RingIInv, Types, RingTypeOK, Checked, InUse, Freed
  <2> QED
    BY <1>7, <2>1, ControlStep, Zenon DEF RejectEmpty
<1>8. CASE FindItem
  <2>1. Types' /\ Freed' = Freed /\ InUse' = InUse
    BY <1>8, Zenon DEF FindItem, RingIInv, Types, RingTypeOK, InUse, Freed
  <2>2. InUse # 0
    BY <1>8, <1>n, <1>p, <1>h, Zenon DEF FindItem
  <2>3. Checked'
    BY <1>8, <1>n, <2>1, <2>2 DEF FindItem, RingIInv, Checked
  <2> QED
    BY <1>8, <2>1, <2>3, ControlStep, Zenon DEF FindItem
<1>9. CASE TakeItem
  <2>1. /\ UNCHANGED <<head, tail, enq, item, accepted>>
        /\ received' = Append(received, buffer[tail])
        /\ buffer' = [buffer EXCEPT ![tail] = None]
        /\ deq = "take" /\ deq' = "free" /\ InUse >= 1
    BY <1>9, Zenon DEF TakeItem, RingIInv, Checked
  <2>2. buffer[tail] = accepted[Len(received) + 1] /\ Freed = Len(received)
    <3>1. Freed = Len(received)
      BY <2>1, Zenon DEF Freed
    <3>2. buffer[Place(0)] = accepted[Freed + 0 + 1]
      BY <2>1, <1>n DEF RingIInv, Contents
    <3> QED
      BY <3>1, <3>2, <1>p, <1>n
  <2>3. Len(received) + 1 \in 1 .. Len(accepted)
    BY <2>1, <2>2, <1>n
  <2>4. buffer[tail] \in Item
    BY <2>2, <2>3 DEF RingIInv, Types, RingTypeOK
  <2>5. /\ Len(received') = Len(received) + 1
        /\ received'[Len(received) + 1] = buffer[tail]
        /\ \A i \in 1 .. Len(received) : received'[i] = received[i]
        /\ received' \in Seq(Item)
    BY <2>1, <2>4 DEF RingIInv, Types, RingTypeOK
  <2>6. Freed' = Freed /\ InUse' = InUse /\ \A k : Place(k)' = Place(k)
    BY <2>1, <2>2, <2>5, <1>n DEF Freed, InUse, Place
  <2>7. /\ buffer' \in [Index -> Item \cup {None}]
        /\ \A i \in Index : i # tail => buffer'[i] = buffer[i]
    BY <2>1, <1>n, Zenon DEF RingIInv, Types, RingTypeOK
  <2>8. Types'
    BY <2>1, <2>5, <2>7, Zenon DEF RingIInv, Types, RingTypeOK
  <2>9. Distance'
    BY <2>1, <2>6, Zenon DEF RingIInv, Distance
  <2>10. Contents'
    <3>1. \A k \in 1 .. InUse - 1 : Place(k) \in Index /\ Place(k) # tail
      BY <1>n, <1>p
    <3> QED
      BY <2>1, <2>6, <2>7, <3>1, <1>n DEF RingIInv, Contents
  <2>11. Checked'
    <3>1. enq = "publish" => head # tail
      BY <2>1, <1>n, <1>p, <1>h
    <3> QED
      BY <2>1, <2>5, <2>6, <2>7, <3>1, <1>n DEF RingIInv, Checked
  <2>12. Prefix'
    BY <2>1, <2>2, <2>3, <2>5, <1>n DEF RingIInv, Prefix
  <2> QED
    BY <2>8, <2>9, <2>10, <2>11, <2>12, Zenon DEF RingIInv
<1>10. CASE FreeSlot
  <2>1. /\ UNCHANGED <<head, buffer, enq, item, accepted, received>>
        /\ tail' = After(tail) /\ deq = "free" /\ deq' = "idle"
        /\ InUse >= 1
    BY <1>10, Zenon DEF FreeSlot, RingIInv, Checked
  <2>2. Freed' = Freed + 1 /\ InUse' = InUse - 1
    BY <2>1, <1>n DEF Freed, InUse
  <2>3. \A k \in 0 .. Capacity - 2 : Place(k)' = Place(k + 1)
    BY <2>1, <1>n DEF Place, After, Index
  <2>4. Types'
    BY <2>1, <1>n DEF RingIInv, Types, RingTypeOK, After, Index
  <2>5. Distance'
    BY <2>1, <2>2, <1>n, <1>h DEF Distance, Place, After, Index
  <2>6. Contents'
    <3> SUFFICES ASSUME NEW k \in 0 .. InUse - 2
                 PROVE  buffer[Place(k + 1)] = accepted[Freed + 1 + k + 1]
      BY <2>1, <2>2, <2>3, <1>n DEF Contents
    <3>1. buffer[Place(k + 1)] = accepted[Freed + (k + 1) + 1]
      BY <2>1, <1>n DEF RingIInv, Contents
    <3> QED
      BY <3>1, <1>n, SMTT(30)
  <2>7. Checked'
    BY <2>1, <2>2, <1>n DEF RingIInv, Checked
  <2>8. Prefix'
    BY <2>1, Zenon DEF RingIInv, Prefix
  <2> QED
    BY <2>4, <2>5, <2>6, <2>7, <2>8, Zenon DEF RingIInv
<1>11. CASE UNCHANGED ringVars
  <2>1. Types' /\ Checked' /\ Freed' = Freed
    BY <1>11, Zenon DEF ringVars, RingIInv, Types, RingTypeOK, Checked, InUse, Freed
  <2> QED
    BY <1>11, <2>1, ControlStep, Zenon DEF ringVars
<1> QED
  BY <1>1, <1>2, <1>3, <1>4, <1>5, <1>6, <1>7, <1>8, <1>9, <1>10, <1>11, Zenon
     DEF RingNext, Enqueuing, Dequeuing

(* The invariant says what the consumer is promised.                         *)
LEMMA RingFifo == RingIInv => FirstInFirstOut
<1> SUFFICES ASSUME RingIInv PROVE FirstInFirstOut
  BY Zenon
<1>1. Len(accepted) - Len(received) <= InUse
  BY Numbers DEF InUse, Freed
<1> QED
  BY <1>1, Numbers, RingAssumption DEF RingIInv, Prefix, FirstInFirstOut

(* The receive ring hands out what was put in, in order, without loss or     *)
(* repetition, for every capacity: SpscRing's lock-free promise.             *)
THEOREM RingIsFifo == RingSpec => []FirstInFirstOut
BY RingFifo, InitIInv, NextIInv, PTL DEF RingSpec

-----------------------------------------------------------------------------
\* The ring in the queue over UCX.

UcxTypes ==
    /\ window \in Nat
    /\ nsent \in [Sender -> Nat]
    /\ waiting \subseteq Sender
    /\ wire \in [Sender -> Seq(Message \X BOOLEAN)]
    /\ late \subseteq Message
    /\ dropped \subseteq Message /\ IsFiniteSet(dropped)
    /\ discarded \subseteq Message /\ IsFiniteSet(discarded)

(* Whatever the progress thread and the pool thread do is a step of the      *)
(* ring's producer, of its consumer, or none of the ring's.                  *)
LEMMA RingSteps == UcxTypes /\ [UcxNext]_ucxVars => [RingNext]_ringVars
<1> SUFFICES ASSUME UcxTypes, [UcxNext]_ucxVars PROVE [RingNext]_ringVars
  BY Zenon
<1>1. ASSUME NEW s \in Sender, NEW large \in BOOLEAN, Send(s, large)
      PROVE  UNCHANGED ringVars
  BY <1>1, Zenon DEF Send
<1>2. ASSUME NEW s \in Sender, ProbeSmall(s) PROVE RingNext
  <2>1. wire[s] # <<>> /\ BeginEnqueue(Head(wire[s])[1])
    BY <1>2, Zenon DEF ProbeSmall
  <2>2. wire[s] \in Seq(Message \X BOOLEAN)
    BY Zenon DEF UcxTypes
  <2>3. Head(wire[s]) \in Message \X BOOLEAN
    BY <2>1, <2>2
  <2>4. Head(wire[s])[1] \in Item
    BY <2>3, UcxAssumption, Zenon
  <2> QED
    BY <2>1, <2>4, Zenon DEF RingNext
<1>3. ASSUME NEW s \in Sender, ProbeLarge(s) PROVE UNCHANGED ringVars
  BY <1>3, Zenon DEF ProbeLarge
<1>4. ASSUME NEW m \in late, onRecvCallback(m) PROVE RingNext
  BY <1>4, UcxAssumption, Zenon DEF onRecvCallback, RingNext, UcxTypes
<1>e. ASSUME NEW s \in Sender, SendFails(s) \/ ProbeFails(s) PROVE UNCHANGED ringVars
  BY <1>e, Zenon DEF SendFails, ProbeFails
<1>f. ASSUME NEW m \in late, CallbackFails(m) PROVE UNCHANGED ringVars
  BY <1>f, Zenon DEF CallbackFails
<1>5. CASE TryAgain
  BY <1>5, Zenon DEF TryAgain
<1>6. CASE Overflow
  BY <1>6, Zenon DEF Overflow, RingNext, Enqueuing
<1>7. CASE Ring(FindRoom \/ StoreItem \/ Publish)
  BY <1>7, Zenon DEF Ring, RingNext, Enqueuing
<1>8. CASE Ring(Dequeuing)
  BY <1>8, Zenon DEF Ring, RingNext
<1>9. CASE UNCHANGED ucxVars
  BY <1>9, Zenon DEF ucxVars
<1> QED
  BY <1>1, <1>2, <1>3, <1>4, <1>e, <1>f, <1>5, <1>6, <1>7, <1>8, <1>9, Zenon DEF UcxNext, Progress, Pool

(* The lists of the senders and of the receiver hold messages.               *)
LEMMA UcxTypesNext == UcxTypes /\ RingIInv /\ [UcxNext]_ucxVars => UcxTypes'
<1> SUFFICES ASSUME UcxTypes, RingIInv, [UcxNext]_ucxVars PROVE UcxTypes'
  BY Zenon
<1>t. /\ window \in Nat /\ nsent \in [Sender -> Nat] /\ waiting \subseteq Sender
      /\ wire \in [Sender -> Seq(Message \X BOOLEAN)]
      /\ late \subseteq Message
      /\ dropped \subseteq Message /\ IsFiniteSet(dropped)
      /\ discarded \subseteq Message /\ IsFiniteSet(discarded)
  BY Zenon DEF UcxTypes
<1>d. ASSUME NEW m \in Message, Discard(m)
      PROVE  discarded' \subseteq Message /\ IsFiniteSet(discarded')
  BY <1>d, <1>t, FS_AddElement, Zenon DEF Discard
<1>n. ASSUME NEW s \in Sender, nsent[s] < MaxMsgs
      PROVE  nsent[s] + 1 \in Nat /\ [from |-> s, n |-> nsent[s] + 1] \in Message
  <2>1. nsent[s] + 1 \in 1 .. MaxMsgs /\ nsent[s] + 1 \in Nat
    BY <1>t, <1>n, UcxAssumption
  <2> QED
    BY <2>1, Zenon DEF Message
<1>1. ASSUME NEW s \in Sender, NEW large \in BOOLEAN, Send(s, large)
      PROVE  UcxTypes'
  <2>1. /\ nsent[s] < MaxMsgs
        /\ nsent' = [nsent EXCEPT ![s] = nsent[s] + 1]
        /\ wire' = [wire EXCEPT ![s] =
              Append(wire[s], <<[from |-> s, n |-> nsent[s] + 1], large>>)]
        /\ waiting' = waiting \cup (IF large THEN {s} ELSE {})
        /\ UNCHANGED <<window, late, dropped, discarded>>
    BY <1>1, Zenon DEF Send, WaitReq
  <2>2. nsent[s] + 1 \in Nat
    BY <1>n, <2>1, Zenon
  <2>3. <<[from |-> s, n |-> nsent[s] + 1], large>> \in Message \X BOOLEAN
    BY <1>n, <2>1, Zenon
  <2>4. Append(wire[s], <<[from |-> s, n |-> nsent[s] + 1], large>>) \in Seq(Message \X BOOLEAN)
    BY <1>t, <2>3
  <2>5. nsent' \in [Sender -> Nat] /\ wire' \in [Sender -> Seq(Message \X BOOLEAN)]
    BY <1>t, <2>1, <2>2, <2>4, Zenon
  <2>6. waiting' \subseteq Sender
    BY <1>t, <2>1, Zenon
  <2> QED
    BY <1>t, <2>1, <2>5, <2>6, Zenon DEF UcxTypes
<1>p. ASSUME NEW s \in Sender, wire[s] # <<>>, wire' = [wire EXCEPT ![s] = Tail(wire[s])]
      PROVE  /\ wire' \in [Sender -> Seq(Message \X BOOLEAN)]
             /\ Head(wire[s])[1] \in Message
  <2>1. Tail(wire[s]) \in Seq(Message \X BOOLEAN) /\ Head(wire[s]) \in Message \X BOOLEAN
    BY <1>t, <1>p
  <2> QED
    BY <1>t, <1>p, <2>1, Zenon
<1>2. ASSUME NEW s \in Sender, ProbeSmall(s) PROVE UcxTypes'
  BY <1>2, <1>p, <1>t, Zenon DEF ProbeSmall, UcxTypes
<1>3. ASSUME NEW s \in Sender, ProbeLarge(s) PROVE UcxTypes'
  BY <1>3, <1>p, <1>t, Zenon DEF ProbeLarge, UcxTypes
<1>4. ASSUME NEW m \in late, onRecvCallback(m) PROVE UcxTypes'
  BY <1>4, <1>t, Zenon DEF onRecvCallback, UcxTypes
<1>e. ASSUME NEW s \in Sender, SendFails(s) PROVE UcxTypes'
  <2>1. /\ nsent' = [nsent EXCEPT ![s] = nsent[s] + 1] /\ nsent[s] + 1 \in Nat
        /\ discarded' \subseteq Message /\ IsFiniteSet(discarded')
        /\ UNCHANGED <<window, waiting, wire, late, dropped>>
    BY <1>e, <1>n, <1>d, Zenon DEF SendFails
  <2> QED
    BY <2>1, <1>t, Zenon DEF UcxTypes
<1>f. ASSUME NEW s \in Sender, ProbeFails(s) PROVE UcxTypes'
  <2>1. /\ wire' \in [Sender -> Seq(Message \X BOOLEAN)]
        /\ discarded' \subseteq Message /\ IsFiniteSet(discarded')
        /\ UNCHANGED <<window, nsent, late, dropped>>
        /\ waiting' = waiting \/ waiting' = waiting \ {s}
    BY <1>f, <1>p, <1>d, Zenon DEF ProbeFails
  <2> QED
    BY <2>1, <1>t, Zenon DEF UcxTypes
<1>g. ASSUME NEW m \in late, CallbackFails(m) PROVE UcxTypes'
  <2>1. /\ discarded' \subseteq Message /\ IsFiniteSet(discarded')
        /\ late' = late \ {m}
        /\ UNCHANGED <<window, nsent, wire, dropped>>
        /\ waiting' = waiting \/ waiting' = waiting \ {m.from}
    BY <1>g, <1>t, <1>d, Zenon DEF CallbackFails
  <2> QED
    BY <2>1, <1>t, Zenon DEF UcxTypes
<1>5. CASE TryAgain
  BY <1>5, <1>t, Zenon DEF TryAgain, netVars, UcxTypes
<1>6. CASE Overflow
  <2>1. item \in Message
    BY <1>6, UcxAssumption, Zenon DEF Overflow, RejectFull, RingIInv, Types
  <2>2. IsFiniteSet(dropped \cup {item})
    BY <1>t, FS_AddElement, Zenon
  <2> QED
    BY <1>6, <1>t, <2>1, <2>2, Zenon DEF Overflow, netVars, UcxTypes
<1>7. ASSUME NEW step, Ring(step) PROVE UcxTypes'
  BY <1>7, <1>t, Zenon DEF Ring, netVars, UcxTypes
<1>9. CASE UNCHANGED ucxVars
  BY <1>9, <1>t, Zenon DEF ucxVars, netVars, UcxTypes
<1> QED
  BY <1>1, <1>2, <1>3, <1>4, <1>e, <1>f, <1>g, <1>5, <1>6, <1>7, <1>9, Zenon DEF UcxNext, Progress, Pool

(* Initially nothing is sent.                                                *)
LEMMA UcxTypesInit == UcxInit => UcxTypes
<1> SUFFICES ASSUME UcxInit PROVE UcxTypes
  BY Zenon
<1>1. window \in Nat
  BY UcxAssumption, Zenon DEF UcxInit
<1>2. nsent \in [Sender -> Nat] /\ wire \in [Sender -> Seq(Message \X BOOLEAN)]
  BY DEF UcxInit
<1>3. dropped = {} /\ discarded = {} /\ waiting = {} /\ late = {}
  BY Zenon DEF UcxInit
<1> QED
  BY <1>1, <1>2, <1>3, FS_EmptySet, Zenon DEF UcxTypes

-----------------------------------------------------------------------------
\* Messages of one sender stay in order on their way: accepted by the ring,
\* being enqueued, received late, on the wire.

Before(k, m) == k.from = m.from => k.n < m.n

FollowsAccepted(m) == \A i \in 1 .. Len(accepted) : Before(accepted[i], m)

FollowsItem(m) == enq # "idle" => Before(item, m)

Follows(m) == FollowsAccepted(m) /\ FollowsItem(m)

IsSent(m) == m.n <= nsent[m.from]

\* What the ring has accepted, and what is being enqueued.
AcceptedOrder ==
    /\ \A i, j \in 1 .. Len(accepted) : i < j => Before(accepted[i], accepted[j])
    /\ \A i \in 1 .. Len(accepted) : IsSent(accepted[i])
    /\ enq # "idle" => FollowsAccepted(item) /\ IsSent(item)

\* A large message whose data is missing is its sender's last: the sender waits.
LateOrder ==
    \A m \in late :
        /\ m.from \in waiting /\ wire[m.from] = <<>>
        /\ Follows(m) /\ IsSent(m)
        /\ \A k \in late : k.from = m.from => k = m

\* The same holds for one that is still on the wire.
WireOrder ==
    \A s \in Sender : \A i \in 1 .. Len(wire[s]) :
        /\ wire[s][i][1].from = s
        /\ Follows(wire[s][i][1]) /\ IsSent(wire[s][i][1])
        /\ wire[s][i][2] => s \in waiting /\ i = Len(wire[s])
        /\ \A j \in 1 .. Len(wire[s]) : j < i => wire[s][j][1].n < wire[s][i][1].n

OrderIInv == AcceptedOrder /\ LateOrder /\ WireOrder

(* Initially there is no message.                                            *)
LEMMA OrderInit == UcxInit => OrderIInv
<1> SUFFICES ASSUME UcxInit PROVE OrderIInv
  BY Zenon
<1>1. /\ accepted = <<>> /\ enq = "idle" /\ late = {}
      /\ \A s \in Sender : wire[s] = <<>>
  BY Zenon DEF UcxInit, RingInit
<1>2. Len(<<>>) = 0 /\ 1 .. 0 = {}
  BY Zenon, SMT
<1> QED
  BY <1>1, <1>2 DEF OrderIInv, AcceptedOrder, LateOrder, WireOrder

(* A message that is sent is new: it follows everything of its sender.  The  *)
(* sender does not wait, so none of its messages is late or large.           *)
LEMMA OrderSend ==
    ASSUME UcxTypes, RingIInv, OrderIInv,
           NEW s \in Sender, NEW large \in BOOLEAN, Send(s, large)
    PROVE  OrderIInv'
<1> DEFINE new == [from |-> s, n |-> nsent[s] + 1]
<1>1. /\ s \notin waiting
      /\ nsent' = [nsent EXCEPT ![s] = nsent[s] + 1]
      /\ wire' = [wire EXCEPT ![s] = Append(wire[s], <<new, large>>)]
      /\ waiting' = waiting \cup (IF large THEN {s} ELSE {})
      /\ UNCHANGED <<accepted, enq, item, late>>
  BY Zenon DEF Send, WaitReq, ringVars
<1>2. nsent \in [Sender -> Nat] /\ wire \in [Sender -> Seq(Message \X BOOLEAN)] /\ late \subseteq Message
  BY Zenon DEF UcxTypes
<1>3. \A m \in Message : m.from \in Sender /\ m.n \in Nat
  BY DEF Message
<1>4. \A m \in Message : IsSent(m) => IsSent(m)'
  BY <1>1, <1>2, <1>3 DEF IsSent
<1>5. \A m : Follows(m)' <=> Follows(m)
  BY <1>1, Zenon DEF Follows, FollowsAccepted, FollowsItem
<1>6. /\ \A i \in 1 .. Len(accepted) : accepted[i] \in Message
      /\ enq # "idle" => item \in Message
  BY UcxAssumption DEF RingIInv, Types, RingTypeOK
<1>7. AcceptedOrder'
  BY <1>1, <1>4, <1>6, Zenon DEF OrderIInv, AcceptedOrder, FollowsAccepted
<1>8. LateOrder'
  <2> SUFFICES ASSUME NEW m \in late
               PROVE  /\ m.from \in waiting' /\ wire'[m.from] = <<>>
                      /\ Follows(m)' /\ IsSent(m)'
                      /\ \A k \in late : k.from = m.from => k = m
    BY <1>1, Zenon DEF LateOrder
  <2>1. /\ m.from \in waiting /\ wire[m.from] = <<>>
        /\ Follows(m) /\ IsSent(m)
        /\ \A k \in late : k.from = m.from => k = m
    BY Zenon DEF OrderIInv, LateOrder
  <2>2. m \in Message /\ m.from \in Sender /\ m.from # s
    BY <1>1, <1>2, <1>3, <2>1, Zenon
  <2> QED
    BY <1>1, <1>2, <1>4, <1>5, <2>1, <2>2, Zenon
<1>9. WireOrder'
  <2> SUFFICES ASSUME NEW t \in Sender, NEW i \in 1 .. Len(wire'[t])
               PROVE  /\ wire'[t][i][1].from = t
                      /\ Follows(wire[t][i][1])' /\ IsSent(wire[t][i][1])'
                      /\ wire'[t][i][2] => t \in waiting' /\ i = Len(wire'[t])
                      /\ \A j \in 1 .. Len(wire'[t]) : j < i => wire'[t][j][1].n < wire'[t][i][1].n
    BY Zenon DEF WireOrder
  <2>o. ASSUME NEW j \in 1 .. Len(wire[t])
        PROVE  /\ wire[t][j][1] \in Message
               /\ wire[t][j][1].from = t
               /\ Follows(wire[t][j][1]) /\ IsSent(wire[t][j][1])
               /\ wire[t][j][2] => t \in waiting /\ j = Len(wire[t])
               /\ \A k \in 1 .. Len(wire[t]) : k < j => wire[t][k][1].n < wire[t][j][1].n
    <3>1. wire[t] \in Seq(Message \X BOOLEAN)
      BY <1>2, Zenon
    <3>2. wire[t][j] \in Message \X BOOLEAN
      BY <3>1
    <3> QED
      BY <3>2, Zenon DEF OrderIInv, WireOrder
  <2>1. CASE t # s
    <3>1. wire'[t] = wire[t] /\ (t \in waiting' <=> t \in waiting)
      BY <1>1, <1>2, <2>1, Zenon
    <3>2. PICK m : m = wire[t][i][1]
      BY Zenon
    <3>3. m \in Message /\ Follows(m)' /\ IsSent(m)'
      BY <2>o, <3>1, <3>2, <1>4, <1>5, Zenon
    <3>4. Follows(wire[t][i][1])' /\ IsSent(wire[t][i][1])'
      BY <3>1, <3>2, <3>3, Zenon
    <3> QED
      BY <2>o, <3>1, <3>4, Zenon
  <2>2. CASE t = s
    <3>1. /\ Len(wire'[t]) = Len(wire[t]) + 1 /\ Len(wire[t]) \in Nat
          /\ wire'[t][Len(wire[t]) + 1] = <<new, large>>
          /\ \A j \in 1 .. Len(wire[t]) : wire'[t][j] = wire[t][j]
      <4>1. wire'[t] = Append(wire[t], <<new, large>>) /\ wire[t] \in Seq(Message \X BOOLEAN)
        BY <1>1, <1>2, <2>2, Zenon
      <4> QED
        BY <4>1
    <3>2. \A j \in 1 .. Len(wire[t]) :
              /\ wire'[t][j][1].n \in Nat /\ wire'[t][j][1].n <= nsent[s]
              /\ ~ wire'[t][j][2]
      BY <2>o, <3>1, <1>1, <1>3, <2>2, Zenon DEF IsSent
    <3>3. CASE i \in 1 .. Len(wire[t])
      <4>1. PICK m : m = wire[t][i][1]
        BY Zenon
      <4>2. m \in Message /\ Follows(m)' /\ IsSent(m)' /\ m = wire'[t][i][1]
        BY <2>o, <3>1, <3>3, <4>1, <1>4, <1>5, Zenon
      <4>3. Follows(wire[t][i][1])' /\ IsSent(wire[t][i][1])'
        BY <4>2, Zenon
      <4>4. \A j \in 1 .. Len(wire'[t]) : j < i => wire'[t][j][1].n < wire'[t][i][1].n
        <5> SUFFICES ASSUME NEW j \in 1 .. Len(wire'[t]), j < i
                     PROVE  wire'[t][j][1].n < wire'[t][i][1].n
          BY Zenon
        <5>1. j \in 1 .. Len(wire[t])
          BY <3>1, <3>3
        <5> QED
          BY <5>1, <3>1, <3>3, <2>o, Zenon
      <4>5. wire'[t][i][1].from = t
        BY <2>o, <3>1, <3>3, Zenon
      <4> QED
        BY <3>2, <3>3, <4>3, <4>4, <4>5, Zenon
    <3>4. CASE i = Len(wire[t]) + 1
      <4>1. /\ wire'[t][i][1] = new /\ wire'[t][i][2] = large
            /\ new.from = s /\ new.n = nsent[s] + 1
        <5>1. wire'[t][i] = <<new, large>>
          BY <3>1, <3>4, Zenon
        <5> QED
          BY <5>1
      <4>2. nsent[s] \in Nat /\ nsent'[s] = nsent[s] + 1
        BY <1>1, <1>2, Zenon
      <4>3. IsSent(wire[t][i][1])'
        BY <4>1, <4>2 DEF IsSent
      <4>4. \A k \in Message : IsSent(k) => Before(k, new)
        BY <1>3, <4>1, <4>2 DEF IsSent, Before
      <4>5. Follows(new)
        BY <4>4, <1>6, Zenon DEF Follows, FollowsAccepted, FollowsItem, OrderIInv, AcceptedOrder
      <4>6. PICK m : m = new
        BY Zenon
      <4>7. Follows(m)' /\ m = wire'[t][i][1]
        BY <4>5, <4>6, <1>5, <4>1, Zenon
      <4>8. Follows(wire[t][i][1])'
        BY <4>7, Zenon
      <4>9. \A j \in 1 .. Len(wire'[t]) : j < i => wire'[t][j][1].n < wire'[t][i][1].n
        <5> SUFFICES ASSUME NEW j \in 1 .. Len(wire'[t]), j < i
                     PROVE  wire'[t][j][1].n < wire'[t][i][1].n
          BY Zenon
        <5>1. j \in 1 .. Len(wire[t])
          BY <3>1, <3>4
        <5>2. wire'[t][j][1].n \in Nat /\ wire'[t][j][1].n <= nsent[s]
          BY <3>2, <5>1, Zenon
        <5>3. wire'[t][i][1].n = nsent[s] + 1
          BY <4>1, Zenon
        <5> HIDE DEF new
        <5> QED
          BY <5>2, <5>3, <4>2
      <4>10. wire'[t][i][2] => t \in waiting' /\ i = Len(wire'[t])
        BY <4>1, <3>1, <3>4, <1>1, <2>2, Zenon
      <4> QED
        BY <4>1, <4>3, <4>8, <4>9, <4>10, <2>2, Zenon
    <3> QED
      BY <3>1, <3>3, <3>4
  <2> QED
    BY <2>1, <2>2, Zenon
<1> QED
  BY <1>7, <1>8, <1>9, Zenon DEF OrderIInv


(* What is left of a sequence without its first element.                     *)
LEMMA TailFacts ==
    ASSUME NEW S, NEW q \in Seq(S), q # <<>>
    PROVE  /\ Len(Tail(q)) = Len(q) - 1
           /\ \A j \in 1 .. Len(Tail(q)) : Tail(q)[j] = q[j + 1]
OBVIOUS

(* A sequence of length zero is empty.                                       *)
LEMMA LengthZero ==
    ASSUME NEW S, NEW q \in Seq(S), Len(q) = 0
    PROVE  q = <<>>
OBVIOUS

(* Taking the first message off a sender's wire keeps the rest in order.     *)
LEMMA WirePopped ==
    ASSUME UcxTypes, OrderIInv,
           NEW s \in Sender, wire[s] # <<>>,
           wire' = [wire EXCEPT ![s] = Tail(wire[s])],
           UNCHANGED nsent,
           waiting' = waiting \/ (wire'[s] = <<>> /\ waiting' = waiting \ {s}),
           \A m \in Message : Follows(m) /\ Before(Head(wire[s])[1], m) => Follows(m)'
    PROVE  WireOrder'
<1>1. wire \in [Sender -> Seq(Message \X BOOLEAN)]
  BY Zenon DEF UcxTypes
<1>2. \A m : IsSent(m)' <=> IsSent(m)
  BY Zenon DEF IsSent
<1>h. Head(wire[s]) = wire[s][1] /\ wire[s] \in Seq(Message \X BOOLEAN) /\ Len(wire[s]) \in Nat \ {0}
  BY <1>1
<1> SUFFICES ASSUME NEW t \in Sender, NEW i \in 1 .. Len(wire'[t])
             PROVE  /\ wire'[t][i][1].from = t
                    /\ Follows(wire[t][i][1])' /\ IsSent(wire[t][i][1])'
                    /\ wire'[t][i][2] => t \in waiting' /\ i = Len(wire'[t])
                    /\ \A j \in 1 .. Len(wire'[t]) : j < i => wire'[t][j][1].n < wire'[t][i][1].n
  BY Zenon DEF WireOrder
<1>o. ASSUME NEW j \in 1 .. Len(wire[t])
      PROVE  /\ wire[t][j][1] \in Message
             /\ wire[t][j][1].from = t
             /\ Follows(wire[t][j][1]) /\ IsSent(wire[t][j][1])
             /\ wire[t][j][2] => t \in waiting /\ j = Len(wire[t])
             /\ \A k \in 1 .. Len(wire[t]) : k < j => wire[t][k][1].n < wire[t][j][1].n
  <2>1. wire[t] \in Seq(Message \X BOOLEAN)
    BY <1>1, Zenon
  <2>2. wire[t][j] \in Message \X BOOLEAN
    BY <2>1
  <2> QED
    BY <2>2, Zenon DEF OrderIInv, WireOrder
<1>3. CASE t # s
  <2>1. wire'[t] = wire[t] /\ (t \in waiting' <=> t \in waiting)
    BY <1>1, <1>3, Zenon
  <2>2. PICK m : m = wire[t][i][1]
    BY Zenon
  <2>3. m \in Message /\ m.from = t /\ Follows(m) /\ IsSent(m)
    BY <1>o, <2>1, <2>2, Zenon
  <2>4. Head(wire[s])[1].from = s
    BY <1>h DEF OrderIInv, WireOrder
  <2>5. Before(Head(wire[s])[1], m)
    BY <2>3, <2>4, <1>3, Zenon DEF Before
  <2>6. Follows(m)' /\ IsSent(m)' /\ m = wire'[t][i][1]
    BY <2>1, <2>2, <2>3, <2>5, <1>2, Zenon
  <2>7. Follows(wire[t][i][1])' /\ IsSent(wire[t][i][1])'
    BY <2>6, Zenon
  <2> QED
    BY <1>o, <2>1, <2>7, Zenon
<1>4. CASE t = s
  <2>0. waiting' = waiting
    <3>1. wire'[s] # <<>>
      BY <1>4
    <3> QED
      BY <3>1, Zenon
  <2>1. /\ Len(wire'[t]) = Len(wire[t]) - 1
        /\ \A j \in 1 .. Len(wire'[t]) : wire'[t][j] = wire[t][j + 1]
    <3>1. wire'[t] = Tail(wire[t]) /\ wire[t] # <<>> /\ wire[t] \in Seq(Message \X BOOLEAN)
      BY <1>1, <1>4, Zenon
    <3> QED
      BY <3>1, TailFacts, Zenon
  <2>2. /\ Len(wire[t]) \in Nat /\ i + 1 \in 1 .. Len(wire[t]) /\ 1 \in 1 .. Len(wire[t]) /\ 1 < i + 1
        /\ \A j \in 1 .. Len(wire'[t]) : j + 1 \in 1 .. Len(wire[t]) /\ (j < i => j + 1 < i + 1)
        /\ i + 1 = Len(wire[t]) => i = Len(wire'[t])
    BY <2>1, <1>h, <1>4
  <2>3. PICK m : m = wire[t][i + 1][1]
    BY Zenon
  <2>4. m \in Message /\ m.from = t /\ Follows(m) /\ IsSent(m) /\ wire[t][1][1].n < m.n
    BY <1>o, <2>2, <2>3, Zenon
  <2>5. Before(Head(wire[s])[1], m)
    BY <2>4, <1>h, <1>4, Zenon DEF Before
  <2>6. Follows(m)' /\ IsSent(m)' /\ m = wire'[t][i][1]
    BY <2>1, <2>3, <2>4, <2>5, <1>2, Zenon
  <2>7. Follows(wire[t][i][1])' /\ IsSent(wire[t][i][1])'
    BY <2>6, Zenon
  <2>8. \A j \in 1 .. Len(wire'[t]) : j < i => wire'[t][j][1].n < wire'[t][i][1].n
    BY <1>o, <2>1, <2>2, Zenon
  <2>9. wire'[t][i][2] => t \in waiting' /\ i = Len(wire'[t])
    BY <1>o, <2>0, <2>1, <2>2, Zenon
  <2> QED
    BY <2>4, <2>6, <2>7, <2>8, <2>9, Zenon
<1> QED
  BY <1>3, <1>4, Zenon

(* A small message that is probed is its sender's first on the wire; nothing *)
(* of that sender is late.                                                   *)
LEMMA OrderProbeSmall ==
    ASSUME UcxTypes, OrderIInv, NEW s \in Sender, ProbeSmall(s)
    PROVE  OrderIInv'
<1>1. /\ wire[s] # <<>> /\ enq = "idle" /\ enq' = "check" /\ item' = Head(wire[s])[1]
      /\ wire' = [wire EXCEPT ![s] = Tail(wire[s])]
      /\ UNCHANGED <<accepted, waiting, nsent, late>>
  BY Zenon DEF ProbeSmall, BeginEnqueue
<1>2. wire \in [Sender -> Seq(Message \X BOOLEAN)] /\ late \subseteq Message
  BY Zenon DEF UcxTypes
<1>3. PICK m : m = Head(wire[s])[1]
  BY Zenon
<1>4. m.from = s /\ Follows(m) /\ IsSent(m)
  <2>1. Head(wire[s]) = wire[s][1] /\ 1 \in 1 .. Len(wire[s])
    BY <1>1, <1>2
  <2>2. /\ wire[s][1][1].from = s /\ Follows(wire[s][1][1]) /\ IsSent(wire[s][1][1])
    BY <2>1, Zenon DEF OrderIInv, WireOrder
  <2> QED
    BY <1>3, <2>1, <2>2, Zenon
<1>5. \A k \in Message : Follows(k) /\ Before(Head(wire[s])[1], k) => Follows(k)'
  BY <1>1, <1>3, Zenon DEF Follows, FollowsAccepted, FollowsItem
<1>6. WireOrder'
  BY <1>1, <1>5, WirePopped, Zenon
<1>7. AcceptedOrder'
  <2>1. FollowsAccepted(m)' /\ IsSent(m)'
    BY <1>1, <1>4, Zenon DEF Follows, FollowsAccepted, IsSent
  <2>2. item' = m
    BY <1>1, <1>3, Zenon
  <2>3. FollowsAccepted(item)' /\ IsSent(item)'
    BY <2>1, <2>2, Zenon
  <2>4. \A k : IsSent(k)' <=> IsSent(k)
    BY <1>1, Zenon DEF IsSent
  <2> QED
    BY <1>1, <2>3, <2>4, Zenon DEF OrderIInv, AcceptedOrder
<1>8. LateOrder'
  <2> SUFFICES ASSUME NEW k \in late
               PROVE  /\ k.from \in waiting /\ wire'[k.from] = <<>>
                      /\ Follows(k)' /\ IsSent(k)'
                      /\ \A l \in late : l.from = k.from => l = k
    BY <1>1, Zenon DEF LateOrder
  <2>1. /\ k.from \in waiting /\ wire[k.from] = <<>>
        /\ Follows(k) /\ IsSent(k)
        /\ \A l \in late : l.from = k.from => l = k
    BY Zenon DEF OrderIInv, LateOrder
  <2>2. k.from # s
    BY <2>1, <1>1, Zenon
  <2>3. k \in Message /\ k.from \in Sender
    BY <1>2, Zenon DEF Message
  <2>4. Before(Head(wire[s])[1], k)
    BY <1>3, <1>4, <2>2, Zenon DEF Before
  <2>5. Follows(k)' /\ IsSent(k)'
    BY <1>1, <1>5, <2>1, <2>3, <2>4, Zenon DEF IsSent
  <2>6. wire'[k.from] = <<>>
    BY <1>1, <1>2, <2>1, <2>2, <2>3, Zenon
  <2> QED
    BY <2>1, <2>5, <2>6, Zenon
<1> QED
  BY <1>6, <1>7, <1>8, Zenon DEF OrderIInv


(* Behind a large message there is nothing on its sender's wire.             *)
LEMMA LargeIsLast ==
    ASSUME UcxTypes, OrderIInv, NEW s \in Sender, wire[s] # <<>>, Head(wire[s])[2],
           wire' = [wire EXCEPT ![s] = Tail(wire[s])]
    PROVE  wire'[s] = <<>>
<1>1. wire[s] \in Seq(Message \X BOOLEAN) /\ wire'[s] = Tail(wire[s])
  BY Zenon DEF UcxTypes
<1>2. Head(wire[s]) = wire[s][1] /\ 1 \in 1 .. Len(wire[s])
  BY <1>1
<1>3. 1 = Len(wire[s])
  BY <1>2, Zenon DEF OrderIInv, WireOrder
<1>4. Tail(wire[s]) \in Seq(Message \X BOOLEAN)
  BY <1>1
<1>5. Len(Tail(wire[s])) = 0
  BY <1>1, <1>3, TailFacts
<1>6. Tail(wire[s]) = <<>>
  BY <1>4, <1>5, LengthZero, Zenon
<1> QED
  BY <1>1, <1>6, Zenon

(* A large message that is probed was the last of its sender, which waits.   *)
LEMMA OrderProbeLarge ==
    ASSUME UcxTypes, OrderIInv, NEW s \in Sender, ProbeLarge(s)
    PROVE  OrderIInv'
<1>1. /\ wire[s] # <<>> /\ Head(wire[s])[2]
      /\ late' = late \cup {Head(wire[s])[1]}
      /\ wire' = [wire EXCEPT ![s] = Tail(wire[s])]
      /\ UNCHANGED <<accepted, enq, item, waiting, nsent>>
  BY Zenon DEF ProbeLarge, ringVars
<1>2. wire \in [Sender -> Seq(Message \X BOOLEAN)] /\ late \subseteq Message
  BY Zenon DEF UcxTypes
<1>3. PICK m : m = Head(wire[s])[1]
  BY Zenon
<1>4. /\ m.from = s /\ Follows(m) /\ IsSent(m)
      /\ s \in waiting
  <2>1. Head(wire[s]) = wire[s][1] /\ 1 \in 1 .. Len(wire[s])
    BY <1>1, <1>2
  <2>2. /\ wire[s][1][1].from = s
        /\ Follows(wire[s][1][1]) /\ IsSent(wire[s][1][1])
        /\ wire[s][1][2] => s \in waiting
    BY <2>1, Zenon DEF OrderIInv, WireOrder
  <2>3. m = wire[s][1][1] /\ wire[s][1][2]
    BY <1>1, <1>3, <2>1, Zenon
  <2> QED
    BY <2>2, <2>3, Zenon
<1>5. \A k : (Follows(k)' <=> Follows(k)) /\ (IsSent(k)' <=> IsSent(k))
  BY <1>1, Zenon DEF Follows, FollowsAccepted, FollowsItem, IsSent
<1>6. WireOrder'
  BY <1>1, <1>5, WirePopped, Zenon
<1>7. AcceptedOrder'
  BY <1>1, <1>5, Zenon DEF OrderIInv, AcceptedOrder, FollowsAccepted
<1>8. wire'[s] = <<>>
  BY <1>1, LargeIsLast, Zenon
<1>9. LateOrder'
  <2>1. \A l \in late : l.from # s
    BY <1>1, Zenon DEF OrderIInv, LateOrder
  <2> SUFFICES ASSUME NEW k \in late \cup {m}
               PROVE  /\ k.from \in waiting /\ wire'[k.from] = <<>>
                      /\ Follows(k)' /\ IsSent(k)'
                      /\ \A l \in late \cup {m} : l.from = k.from => l = k
    BY <1>1, <1>3, Zenon DEF LateOrder
  <2>2. CASE k = m
    BY <2>1, <2>2, <1>4, <1>5, <1>8, Zenon
  <2>3. CASE k \in late
    <3>1. /\ k.from \in waiting /\ wire[k.from] = <<>>
          /\ Follows(k) /\ IsSent(k)
          /\ \A l \in late : l.from = k.from => l = k
      BY <2>3, Zenon DEF OrderIInv, LateOrder
    <3>2. k.from # s /\ k.from \in Sender
      BY <2>1, <2>3, <1>2, Zenon DEF Message
    <3>3. wire'[k.from] = <<>>
      BY <1>1, <1>2, <3>1, <3>2, Zenon
    <3> QED
      BY <3>1, <3>2, <3>3, <1>4, <1>5, Zenon
  <2> QED
    BY <2>2, <2>3, Zenon
<1> QED
  BY <1>6, <1>7, <1>9, Zenon DEF OrderIInv

(* The callback enqueues a late message; its sender has sent nothing since.  *)
LEMMA OrderCallback ==
    ASSUME UcxTypes, OrderIInv, NEW m \in late, onRecvCallback(m)
    PROVE  OrderIInv'
<1>1. /\ enq = "idle" /\ enq' = "check" /\ item' = m
      /\ late' = late \ {m} /\ waiting' = waiting \ {m.from}
      /\ UNCHANGED <<accepted, wire, nsent>>
  BY Zenon DEF onRecvCallback, BeginEnqueue
<1>2. wire \in [Sender -> Seq(Message \X BOOLEAN)] /\ late \subseteq Message
  BY Zenon DEF UcxTypes
<1>3. /\ m.from \in waiting /\ wire[m.from] = <<>>
      /\ Follows(m) /\ IsSent(m)
      /\ \A k \in late : k.from = m.from => k = m
  BY Zenon DEF OrderIInv, LateOrder
<1>4. \A k : IsSent(k)' <=> IsSent(k)
  BY <1>1, Zenon DEF IsSent
<1>5. \A k : Follows(k) /\ k.from # m.from => Follows(k)'
  BY <1>1, Zenon DEF Follows, FollowsAccepted, FollowsItem, Before
<1>6. AcceptedOrder'
  <2>1. FollowsAccepted(m)' /\ IsSent(m)'
    BY <1>1, <1>3, Zenon DEF Follows, FollowsAccepted, IsSent
  <2>2. FollowsAccepted(item)' /\ IsSent(item)'
    BY <1>1, <2>1, Zenon
  <2> QED
    BY <1>1, <1>4, <2>2, Zenon DEF OrderIInv, AcceptedOrder
<1>7. LateOrder'
  BY <1>1, <1>3, <1>4, <1>5, Zenon DEF OrderIInv, LateOrder
<1>8. WireOrder'
  <2> SUFFICES ASSUME NEW t \in Sender, NEW i \in 1 .. Len(wire[t])
               PROVE  /\ wire[t][i][1].from = t
                      /\ Follows(wire[t][i][1])' /\ IsSent(wire[t][i][1])'
                      /\ wire[t][i][2] => t \in waiting' /\ i = Len(wire[t])
                      /\ \A j \in 1 .. Len(wire[t]) : j < i => wire[t][j][1].n < wire[t][i][1].n
    BY <1>1, Zenon DEF WireOrder
  <2>1. /\ wire[t][i][1].from = t
        /\ Follows(wire[t][i][1]) /\ IsSent(wire[t][i][1])
        /\ wire[t][i][2] => t \in waiting /\ i = Len(wire[t])
        /\ \A j \in 1 .. Len(wire[t]) : j < i => wire[t][j][1].n < wire[t][i][1].n
    BY Zenon DEF OrderIInv, WireOrder
  <2>2. t # m.from
    <3> SUFFICES ASSUME t = m.from PROVE FALSE
      BY Zenon
    <3>1. Len(wire[t]) = 0
      BY <1>3
    <3> QED
      BY <3>1
  <2>3. PICK k : k = wire[t][i][1]
    BY Zenon
  <2>4. Follows(k)' /\ IsSent(k)' /\ k = wire'[t][i][1]
    BY <2>1, <2>2, <2>3, <1>1, <1>4, <1>5, Zenon
  <2>5. Follows(wire[t][i][1])' /\ IsSent(wire[t][i][1])'
    BY <2>4, Zenon
  <2> QED
    BY <2>1, <2>2, <2>5, <1>1, Zenon
<1> QED
  BY <1>6, <1>7, <1>8, Zenon DEF OrderIInv

(* A send that fails leaves nothing behind but its number.                   *)
LEMMA OrderSendFails ==
    ASSUME UcxTypes, RingIInv, OrderIInv, NEW s \in Sender, SendFails(s)
    PROVE  OrderIInv'
<1>1. /\ nsent' = [nsent EXCEPT ![s] = nsent[s] + 1]
      /\ UNCHANGED <<accepted, enq, item, waiting, wire, late>>
  BY Zenon DEF SendFails, ringVars
<1>2. nsent \in [Sender -> Nat] /\ wire \in [Sender -> Seq(Message \X BOOLEAN)] /\ late \subseteq Message
  BY Zenon DEF UcxTypes
<1>3. \A m \in Message : m.from \in Sender /\ m.n \in Nat
  BY DEF Message
<1>4. \A m \in Message : IsSent(m) => IsSent(m)'
  BY <1>1, <1>2, <1>3 DEF IsSent
<1>5. \A m : Follows(m)' <=> Follows(m)
  BY <1>1, Zenon DEF Follows, FollowsAccepted, FollowsItem
<1>6. /\ \A i \in 1 .. Len(accepted) : accepted[i] \in Message
      /\ enq # "idle" => item \in Message
  BY UcxAssumption DEF RingIInv, Types, RingTypeOK
<1>7. AcceptedOrder'
  BY <1>1, <1>4, <1>6, Zenon DEF OrderIInv, AcceptedOrder, FollowsAccepted
<1>8. LateOrder'
  BY <1>1, <1>2, <1>4, <1>5, Zenon DEF OrderIInv, LateOrder
<1>9. WireOrder'
  <2> SUFFICES ASSUME NEW t \in Sender, NEW i \in 1 .. Len(wire[t])
               PROVE  Follows(wire[t][i][1])' /\ IsSent(wire[t][i][1])'
    BY <1>1, Zenon DEF OrderIInv, WireOrder
  <2>1. wire[t] \in Seq(Message \X BOOLEAN)
    BY <1>2, Zenon
  <2>2. wire[t][i] \in Message \X BOOLEAN
    BY <2>1
  <2>3. PICK m \in Message : m = wire[t][i][1]
    BY <2>2, Zenon
  <2>4. Follows(m) /\ IsSent(m)
    BY <2>3, Zenon DEF OrderIInv, WireOrder
  <2>5. Follows(m)' /\ IsSent(m)' /\ m = wire'[t][i][1]
    BY <2>3, <2>4, <1>1, <1>4, <1>5, Zenon
  <2> QED
    BY <2>5, Zenon
<1> QED
  BY <1>7, <1>8, <1>9, Zenon DEF OrderIInv

(* Where a probed message cannot be received, its sender has nothing late,   *)
(* and is released only when nothing follows on its wire.                    *)
LEMMA OrderProbeFails ==
    ASSUME UcxTypes, OrderIInv, NEW s \in Sender, ProbeFails(s)
    PROVE  OrderIInv'
<1>1. /\ wire[s] # <<>>
      /\ wire' = [wire EXCEPT ![s] = Tail(wire[s])]
      /\ waiting' = waiting \/ (Head(wire[s])[2] /\ waiting' = waiting \ {s})
      /\ UNCHANGED <<accepted, enq, item, late, nsent>>
  BY Zenon DEF ProbeFails, ringVars
<1>2. wire \in [Sender -> Seq(Message \X BOOLEAN)] /\ late \subseteq Message
  BY Zenon DEF UcxTypes
<1>3. waiting' = waiting \/ (wire'[s] = <<>> /\ waiting' = waiting \ {s})
  BY <1>1, LargeIsLast, Zenon
<1>5. \A k : (Follows(k)' <=> Follows(k)) /\ (IsSent(k)' <=> IsSent(k))
  BY <1>1, Zenon DEF Follows, FollowsAccepted, FollowsItem, IsSent
<1>6. WireOrder'
  BY <1>1, <1>3, <1>5, WirePopped, Zenon
<1>7. AcceptedOrder'
  BY <1>1, <1>5, Zenon DEF OrderIInv, AcceptedOrder, FollowsAccepted
<1>8. LateOrder'
  <2> SUFFICES ASSUME NEW k \in late
               PROVE  /\ k.from \in waiting' /\ wire'[k.from] = <<>>
                      /\ Follows(k)' /\ IsSent(k)'
                      /\ \A l \in late : l.from = k.from => l = k
    BY <1>1, Zenon DEF LateOrder
  <2>1. /\ k.from \in waiting /\ wire[k.from] = <<>>
        /\ Follows(k) /\ IsSent(k)
        /\ \A l \in late : l.from = k.from => l = k
    BY Zenon DEF OrderIInv, LateOrder
  <2>2. k.from # s /\ k.from \in Sender
    BY <2>1, <1>1, <1>2, Zenon DEF Message
  <2>3. k.from \in waiting' /\ wire'[k.from] = <<>>
    BY <1>1, <1>2, <1>3, <2>1, <2>2, Zenon
  <2> QED
    BY <2>1, <2>3, <1>5, Zenon
<1> QED
  BY <1>6, <1>7, <1>8, Zenon DEF OrderIInv

(* Where a late message cannot be received, its sender has nothing else.     *)
LEMMA OrderCallbackFails ==
    ASSUME UcxTypes, OrderIInv, NEW m \in late, CallbackFails(m)
    PROVE  OrderIInv'
<1>1. /\ late' = late \ {m}
      /\ waiting' = waiting \/ waiting' = waiting \ {m.from}
      /\ UNCHANGED <<accepted, enq, item, wire, nsent>>
  BY Zenon DEF CallbackFails, ringVars
<1>2. wire[m.from] = <<>> /\ \A k \in late : k.from = m.from => k = m
  BY Zenon DEF OrderIInv, LateOrder
<1>3. \A k : (Follows(k)' <=> Follows(k)) /\ (IsSent(k)' <=> IsSent(k))
  BY <1>1, Zenon DEF Follows, FollowsAccepted, FollowsItem, IsSent
<1>4. AcceptedOrder'
  BY <1>1, <1>3, Zenon DEF OrderIInv, AcceptedOrder, FollowsAccepted
<1>5. LateOrder'
  BY <1>1, <1>2, <1>3, Zenon DEF OrderIInv, LateOrder
<1>6. WireOrder'
  <2> SUFFICES ASSUME NEW t \in Sender, NEW i \in 1 .. Len(wire[t])
               PROVE  /\ Follows(wire[t][i][1])' /\ IsSent(wire[t][i][1])'
                      /\ wire[t][i][2] => t \in waiting'
    BY <1>1, Zenon DEF OrderIInv, WireOrder
  <2>1. /\ Follows(wire[t][i][1]) /\ IsSent(wire[t][i][1])
        /\ wire[t][i][2] => t \in waiting
    BY Zenon DEF OrderIInv, WireOrder
  <2>2. t # m.from
    <3> SUFFICES ASSUME t = m.from PROVE FALSE
      BY Zenon
    <3>1. Len(wire[t]) = 0
      BY <1>2
    <3> QED
      BY <3>1
  <2>3. PICK k : k = wire[t][i][1]
    BY Zenon
  <2>4. Follows(k)' /\ IsSent(k)' /\ k = wire'[t][i][1]
    BY <2>1, <2>3, <1>1, <1>3, Zenon
  <2>5. Follows(wire[t][i][1])' /\ IsSent(wire[t][i][1])'
    BY <2>4, Zenon
  <2> QED
    BY <2>1, <2>2, <2>5, <1>1, Zenon
<1> QED
  BY <1>4, <1>5, <1>6, Zenon DEF OrderIInv

(* Steps that leave the senders and their messages alone keep the order, if  *)
(* they keep what is accepted and being enqueued in order, and in front.     *)
LEMMA OrderKept ==
    ASSUME OrderIInv, UNCHANGED <<waiting, nsent, wire, late>>,
           AcceptedOrder',
           \A m : Follows(m) => Follows(m)'
    PROVE  OrderIInv'
<1>1. \A k : IsSent(k)' <=> IsSent(k)
  BY Zenon DEF IsSent
<1>2. LateOrder'
  BY <1>1, Zenon DEF OrderIInv, LateOrder
<1>3. WireOrder'
  <2> SUFFICES ASSUME NEW t \in Sender, NEW i \in 1 .. Len(wire[t])
               PROVE  /\ wire[t][i][1].from = t
                      /\ Follows(wire[t][i][1])' /\ IsSent(wire[t][i][1])'
                      /\ wire[t][i][2] => t \in waiting /\ i = Len(wire[t])
                      /\ \A j \in 1 .. Len(wire[t]) : j < i => wire[t][j][1].n < wire[t][i][1].n
    BY Zenon DEF WireOrder
  <2>1. /\ wire[t][i][1].from = t
        /\ Follows(wire[t][i][1]) /\ IsSent(wire[t][i][1])
        /\ wire[t][i][2] => t \in waiting /\ i = Len(wire[t])
        /\ \A j \in 1 .. Len(wire[t]) : j < i => wire[t][j][1].n < wire[t][i][1].n
    BY Zenon DEF OrderIInv, WireOrder
  <2>2. PICK k : k = wire[t][i][1]
    BY Zenon
  <2>3. Follows(k)' /\ IsSent(k)' /\ k = wire'[t][i][1]
    BY <2>1, <2>2, <1>1, Zenon
  <2>4. Follows(wire[t][i][1])' /\ IsSent(wire[t][i][1])'
    BY <2>3, Zenon
  <2> QED
    BY <2>1, <2>4, Zenon
<1> QED
  BY <1>2, <1>3, Zenon DEF OrderIInv

(* Publishing appends the item that was in front of everything not accepted. *)
LEMMA OrderPublish ==
    ASSUME RingIInv, OrderIInv, Publish, UNCHANGED netVars
    PROVE  OrderIInv'
<1>1. /\ enq = "publish" /\ enq' = "idle"
      /\ accepted' = Append(accepted, item)
      /\ UNCHANGED <<waiting, nsent, wire, late>>
  BY Zenon DEF Publish, netVars
<1>2. /\ Len(accepted) \in Nat
      /\ Len(accepted') = Len(accepted) + 1
      /\ accepted'[Len(accepted) + 1] = item
      /\ \A i \in 1 .. Len(accepted) : accepted'[i] = accepted[i]
  BY <1>1 DEF RingIInv, Types, RingTypeOK
<1>3. \A i \in 1 .. Len(accepted') : i \in 1 .. Len(accepted) \/ i = Len(accepted) + 1
  BY <1>2
<1>4. FollowsAccepted(item) /\ IsSent(item)
  BY <1>1, Zenon DEF OrderIInv, AcceptedOrder
<1>5. \A m : Follows(m) => Follows(m)'
  <2> SUFFICES ASSUME NEW m, Follows(m) PROVE FollowsAccepted(m)'
    BY <1>1, Zenon DEF Follows, FollowsItem
  <2>1. Before(item, m) /\ \A i \in 1 .. Len(accepted) : Before(accepted[i], m)
    BY <1>1, Zenon DEF Follows, FollowsAccepted, FollowsItem
  <2> SUFFICES ASSUME NEW i \in 1 .. Len(accepted') PROVE Before(accepted'[i], m)
    BY Zenon DEF FollowsAccepted
  <2> QED
    BY <2>1, <1>2, <1>3, Zenon
<1>6. AcceptedOrder'
  <2>1. ASSUME NEW i \in 1 .. Len(accepted'), NEW j \in 1 .. Len(accepted'), i < j
        PROVE  Before(accepted'[i], accepted'[j])
    <3>1. i \in 1 .. Len(accepted)
      BY <2>1, <1>2
    <3>2. CASE j \in 1 .. Len(accepted)
      BY <2>1, <3>1, <3>2, <1>2, Zenon DEF OrderIInv, AcceptedOrder
    <3>3. CASE j = Len(accepted) + 1
      BY <3>1, <3>3, <1>2, <1>4, Zenon DEF FollowsAccepted
    <3> QED
      BY <3>2, <3>3, <1>3, Zenon
  <2>2. ASSUME NEW i \in 1 .. Len(accepted')
        PROVE  accepted'[i].n <= nsent'[accepted'[i].from]
    BY <1>1, <1>2, <1>3, <1>4, Zenon DEF OrderIInv, AcceptedOrder, IsSent
  <2> QED
    BY <1>1, <2>1, <2>2, Zenon DEF AcceptedOrder, IsSent
<1> QED
  BY <1>1, <1>5, <1>6, OrderKept, Zenon

(* The messages of a sender keep their order in every step of the queue.     *)
LEMMA OrderNext == UcxTypes /\ RingIInv /\ OrderIInv /\ [UcxNext]_ucxVars => OrderIInv'
<1> SUFFICES ASSUME UcxTypes, RingIInv, OrderIInv, [UcxNext]_ucxVars PROVE OrderIInv'
  BY Zenon
<1>1. ASSUME NEW s \in Sender, NEW large \in BOOLEAN, Send(s, large) PROVE OrderIInv'
  BY <1>1, OrderSend, Zenon
<1>2. ASSUME NEW s \in Sender, ProbeSmall(s) PROVE OrderIInv'
  BY <1>2, OrderProbeSmall, Zenon
<1>3. ASSUME NEW s \in Sender, ProbeLarge(s) PROVE OrderIInv'
  BY <1>3, OrderProbeLarge, Zenon
<1>4. ASSUME NEW m \in late, onRecvCallback(m) PROVE OrderIInv'
  BY <1>4, OrderCallback, Zenon
<1>e. ASSUME NEW s \in Sender, SendFails(s) \/ ProbeFails(s) PROVE OrderIInv'
  BY <1>e, OrderSendFails, OrderProbeFails, Zenon
<1>f. ASSUME NEW m \in late, CallbackFails(m) PROVE OrderIInv'
  BY <1>f, OrderCallbackFails, Zenon
<1>c. ASSUME UNCHANGED <<waiting, nsent, wire, late, accepted>>,
             enq' = "idle" \/ (enq # "idle" /\ item' = item)
      PROVE  OrderIInv'
  <2>1. \A m : Follows(m) => Follows(m)'
    BY <1>c, Zenon DEF Follows, FollowsAccepted, FollowsItem
  <2>2. AcceptedOrder'
    BY <1>c, Zenon DEF OrderIInv, AcceptedOrder, FollowsAccepted, IsSent
  <2> QED
    BY <1>c, <2>1, <2>2, OrderKept, Zenon
<1>5. CASE TryAgain
  BY <1>5, <1>c, Zenon DEF TryAgain, ringVars, netVars
<1>6. CASE Overflow
  BY <1>6, <1>c, Zenon DEF Overflow, RejectFull, netVars
<1>7. CASE Ring(FindRoom \/ StoreItem \/ Publish)
  <2>1. CASE FindRoom \/ StoreItem
    <3>1. enq # "idle"
      BY <2>1 DEF FindRoom, StoreItem
    <3> QED
      BY <1>7, <2>1, <3>1, <1>c, Zenon DEF Ring, netVars, FindRoom, StoreItem
  <2>2. CASE Publish
    BY <1>7, <2>2, OrderPublish, Zenon DEF Ring
  <2> QED
    BY <1>7, <2>1, <2>2, Zenon DEF Ring
<1>8. CASE Ring(Dequeuing)
  <2>1. UNCHANGED <<waiting, nsent, wire, late, accepted, enq, item>>
    BY <1>8, Zenon DEF Ring, netVars, Dequeuing, BeginDequeue, RejectEmpty, FindItem, TakeItem, FreeSlot
  <2> QED
    BY <2>1, <1>c, Zenon
<1>9. CASE UNCHANGED ucxVars
  BY <1>9, <1>c, Zenon DEF ucxVars, ringVars, netVars
<1> QED
  BY <1>1, <1>2, <1>3, <1>4, <1>e, <1>f, <1>5, <1>6, <1>7, <1>8, <1>9, Zenon DEF UcxNext, Progress, Pool

-----------------------------------------------------------------------------
\* A message UCX reported an error for is nowhere on its way any more.

OnWire(m) == \E s \in Sender : \E i \in 1 .. Len(wire[s]) : wire[s][i][1] = m

InRing(m) == (\E i \in 1 .. Len(accepted) : accepted[i] = m) \/ (enq # "idle" /\ item = m)

Moving(m) == OnWire(m) \/ m \in late \/ InRing(m)

GoneForGood == \A m \in discarded : IsSent(m) /\ ~ Moving(m)

(* What is taken off a sender's wire was its first message.                  *)
LEMMA PoppedWire ==
    ASSUME UcxTypes, NEW s \in Sender, wire[s] # <<>>,
           wire' = [wire EXCEPT ![s] = Tail(wire[s])]
    PROVE  /\ OnWire(Head(wire[s])[1])
           /\ \A m : OnWire(m)' => OnWire(m)
<1>1. wire \in [Sender -> Seq(Message \X BOOLEAN)] /\ wire[s] \in Seq(Message \X BOOLEAN)
  BY Zenon DEF UcxTypes
<1>2. /\ Len(Tail(wire[s])) = Len(wire[s]) - 1 /\ Len(wire[s]) \in Nat \ {0}
      /\ \A j \in 1 .. Len(Tail(wire[s])) : Tail(wire[s])[j] = wire[s][j + 1]
  BY <1>1, TailFacts
<1>3. Head(wire[s]) = wire[s][1] /\ 1 \in 1 .. Len(wire[s])
  BY <1>1
<1>4. \A j \in 1 .. Len(Tail(wire[s])) : j + 1 \in 1 .. Len(wire[s])
  BY <1>2
<1>5. ASSUME NEW m, NEW t \in Sender, NEW i \in 1 .. Len(wire'[t]), wire'[t][i][1] = m
      PROVE  OnWire(m)
  <2>1. CASE t = s
    <3>1. wire'[t] = Tail(wire[s])
      BY <2>1, <1>1, Zenon
    <3> QED
      BY <1>5, <3>1, <1>2, <1>4, Zenon DEF OnWire
  <2>2. CASE t # s
    BY <1>5, <2>2, <1>1, Zenon DEF OnWire
  <2> QED
    BY <2>1, <2>2, Zenon
<1> QED
  BY <1>3, <1>5, Zenon DEF OnWire

(* A step that gives nothing up and sets no old message in motion again.     *)
LEMMA GoneKept ==
    ASSUME UcxTypes, GoneForGood, UNCHANGED discarded,
           \A m \in Message : IsSent(m) => IsSent(m)',
           \A m \in Message : IsSent(m) /\ Moving(m)' => Moving(m)
    PROVE  GoneForGood'
BY Zenon DEF GoneForGood, UcxTypes

(* A step that gives up k, which was sent and is nowhere afterwards.         *)
LEMMA GoneAdded ==
    ASSUME UcxTypes, GoneForGood,
           NEW k \in Message, discarded' = discarded \cup {k}, IsSent(k)', ~ Moving(k)',
           \A m \in Message : IsSent(m) => IsSent(m)',
           \A m \in Message : IsSent(m) /\ Moving(m)' => Moving(m)
    PROVE  GoneForGood'
<1>1. ASSUME NEW m \in discarded' PROVE IsSent(m)' /\ ~ Moving(m)'
  BY <1>1, Zenon DEF GoneForGood, UcxTypes
<1> QED
  BY <1>1, Zenon DEF GoneForGood

(* What is on its way was sent.                                              *)
LEMMA MovingIsSent ==
    ASSUME OrderIInv, NEW m, Moving(m)
    PROVE  IsSent(m)
BY ZenonT(30) DEF OrderIInv, AcceptedOrder, LateOrder, WireOrder, Moving, OnWire, InRing

(* A message is not behind itself.                                           *)
LEMMA NotBehindItself ==
    ASSUME NEW m \in Message, Follows(m)
    PROVE  ~ InRing(m)
<1>1. ~ Before(m, m)
  BY DEF Before, Message
<1> QED
  BY <1>1, Zenon DEF Follows, FollowsAccepted, FollowsItem, InRing

(* Messages that were given up stay out of the way of all others.            *)
LEMMA GoneNext ==
    UcxTypes /\ RingIInv /\ OrderIInv /\ GoneForGood /\ [UcxNext]_ucxVars => GoneForGood'
<1> SUFFICES ASSUME UcxTypes, RingIInv, OrderIInv, GoneForGood, [UcxNext]_ucxVars
             PROVE  GoneForGood'
  BY Zenon
<1>t. /\ nsent \in [Sender -> Nat] /\ wire \in [Sender -> Seq(Message \X BOOLEAN)]
      /\ late \subseteq Message
  BY Zenon DEF UcxTypes
<1>m. \A m \in Message : m.from \in Sender /\ m.n \in Nat
  BY DEF Message
<1>n. ASSUME UNCHANGED nsent PROVE \A m : IsSent(m) <=> IsSent(m)'
  BY <1>n, Zenon DEF IsSent
<1>s. ASSUME NEW s \in Sender, nsent[s] < MaxMsgs, nsent' = [nsent EXCEPT ![s] = nsent[s] + 1],
             NEW new, new = [from |-> s, n |-> nsent[s] + 1]
      PROVE  /\ \A m \in Message : IsSent(m) => IsSent(m)'
             /\ new \in Message /\ IsSent(new)' /\ ~ IsSent(new)
  <2>1. nsent[s] \in Nat /\ nsent'[s] = nsent[s] + 1
    BY <1>t, <1>s, Zenon
  <2>2. \A m \in Message : IsSent(m) => IsSent(m)'
    BY <1>t, <1>m, <1>s DEF IsSent
  <2>3. nsent[s] + 1 \in 1 .. MaxMsgs
    BY <1>s, <2>1, UcxAssumption
  <2>4. new \in Message /\ new.from = s /\ new.n = nsent[s] + 1
    BY <1>s, <2>3 DEF Message
  <2>5. new.n <= nsent'[new.from] /\ ~ (new.n <= nsent[new.from])
    BY <2>1, <2>4
  <2> QED
    BY <2>2, <2>4, <2>5, <1>s, Zenon DEF IsSent
<1>w. ASSUME NEW s \in Sender, wire[s] # <<>>
      PROVE  /\ Head(wire[s])[1] \in Message /\ Head(wire[s])[1].from = s
             /\ Follows(Head(wire[s])[1]) /\ IsSent(Head(wire[s])[1])
  <2>1. wire[s] \in Seq(Message \X BOOLEAN)
    BY <1>t, Zenon
  <2>2. /\ Head(wire[s]) \in Message \X BOOLEAN
        /\ Head(wire[s]) = wire[s][1] /\ 1 \in 1 .. Len(wire[s])
    BY <2>1, <1>w
  <2>3. wire[s][1][1].from = s /\ Follows(wire[s][1][1]) /\ IsSent(wire[s][1][1])
    BY <2>2, Zenon DEF OrderIInv, WireOrder
  <2> QED
    BY <2>2, <2>3, Zenon
<1>1. ASSUME NEW s \in Sender, NEW large \in BOOLEAN, Send(s, large) PROVE GoneForGood'
  <2>0. PICK new : new = [from |-> s, n |-> nsent[s] + 1]
    BY Zenon
  <2>1. /\ nsent[s] < MaxMsgs
        /\ nsent' = [nsent EXCEPT ![s] = nsent[s] + 1]
        /\ wire' = [wire EXCEPT ![s] = Append(wire[s], <<new, large>>)]
        /\ UNCHANGED <<accepted, enq, item, late, discarded>>
    BY <1>1, <2>0, Zenon DEF Send, ringVars
  <2>2. /\ \A m \in Message : IsSent(m) => IsSent(m)'
        /\ ~ IsSent(new)
    BY <1>s, <2>0, <2>1, Zenon
  <2>3. ASSUME NEW m, NEW t \in Sender, NEW i \in 1 .. Len(wire'[t]), wire'[t][i][1] = m, m # new
        PROVE  OnWire(m)
    <3>1. wire[t] \in Seq(Message \X BOOLEAN)
      BY <1>t, Zenon
    <3>2. CASE t # s
      BY <2>1, <2>3, <3>2, <1>t, Zenon DEF OnWire
    <3>3. CASE t = s
      <4>1. wire'[t] = Append(wire[t], <<new, large>>)
        BY <2>1, <3>3, <1>t, Zenon
      <4>2. \/ i \in 1 .. Len(wire[t]) /\ wire'[t][i] = wire[t][i]
            \/ wire'[t][i] = <<new, large>>
        BY <4>1, <3>1
      <4>3. <<new, large>>[1] = new
        OBVIOUS
      <4>4. i \in 1 .. Len(wire[t]) /\ wire'[t][i] = wire[t][i]
        BY <4>2, <4>3, <2>3, Zenon
      <4> QED
        BY <4>4, <2>3, Zenon DEF OnWire
    <3> QED
      BY <3>2, <3>3, Zenon
  <2>4. \A m \in Message : IsSent(m) /\ Moving(m)' => Moving(m)
    <3> SUFFICES ASSUME NEW m \in Message, IsSent(m), Moving(m)' PROVE Moving(m)
      BY Zenon
    <3>1. m # new
      BY <2>2, Zenon
    <3>2. OnWire(m)' => OnWire(m)
      BY <2>3, <3>1, Zenon DEF OnWire
    <3> QED
      BY <2>1, <3>2, Zenon DEF Moving, InRing
  <2> QED
    BY <2>1, <2>2, <2>4, GoneKept, Zenon
<1>2. ASSUME NEW s \in Sender, SendFails(s) PROVE GoneForGood'
  <2>0. PICK new : new = [from |-> s, n |-> nsent[s] + 1]
    BY Zenon
  <2>1. /\ nsent[s] < MaxMsgs
        /\ nsent' = [nsent EXCEPT ![s] = nsent[s] + 1]
        /\ discarded' = discarded \cup {new}
        /\ UNCHANGED <<accepted, enq, item, wire, late>>
    BY <1>2, <2>0, Zenon DEF SendFails, Discard, ringVars
  <2>2. /\ \A m \in Message : IsSent(m) => IsSent(m)'
        /\ new \in Message /\ IsSent(new)' /\ ~ IsSent(new)
    BY <1>s, <2>0, <2>1, Zenon
  <2>3. \A m : Moving(m)' <=> Moving(m)
    BY <2>1, Zenon DEF Moving, OnWire, InRing
  <2>4. ~ Moving(new)'
    BY <2>2, <2>3, MovingIsSent, Zenon
  <2> QED
    BY <2>1, <2>2, <2>3, <2>4, GoneAdded, Zenon
<1>3. ASSUME NEW s \in Sender, ProbeSmall(s) \/ ProbeLarge(s) PROVE GoneForGood'
  <2>1. /\ wire[s] # <<>> /\ wire' = [wire EXCEPT ![s] = Tail(wire[s])]
        /\ UNCHANGED <<nsent, accepted, discarded>>
        /\ \/ enq' # "idle" /\ item' = Head(wire[s])[1] /\ late' = late
           \/ late' = late \cup {Head(wire[s])[1]} /\ UNCHANGED <<enq, item>>
    BY <1>3 DEF ProbeSmall, ProbeLarge, BeginEnqueue, ringVars
  <2>2. OnWire(Head(wire[s])[1]) /\ \A m : OnWire(m)' => OnWire(m)
    BY <2>1, PoppedWire, Zenon
  <2>3. \A m : Moving(m)' => Moving(m)
    BY <2>1, <2>2, Zenon DEF Moving, InRing
  <2> QED
    BY <2>1, <2>3, <1>n, GoneKept, Zenon
<1>4. ASSUME NEW s \in Sender, ProbeFails(s) PROVE GoneForGood'
  <2>0. PICK k : k = Head(wire[s])[1]
    BY Zenon
  <2>1. /\ wire[s] # <<>> /\ wire' = [wire EXCEPT ![s] = Tail(wire[s])]
        /\ discarded' = discarded \cup {k}
        /\ UNCHANGED <<nsent, accepted, enq, item, late>>
    BY <1>4, <2>0, Zenon DEF ProbeFails, Discard, ringVars
  <2>2. \A m : Moving(m)' => Moving(m)
    BY <2>1, PoppedWire, Zenon DEF Moving, InRing
  <2>3. k \in Message /\ k.from = s /\ Follows(k) /\ IsSent(k)
    BY <2>0, <2>1, <1>w, Zenon
  <2>4. ~ InRing(k)'
    BY <2>1, <2>3, NotBehindItself, Zenon DEF InRing
  <2>5. k \notin late
    BY <2>1, <2>3, Zenon DEF OrderIInv, LateOrder
  <2>6. ~ OnWire(k)'
    <3> SUFFICES ASSUME NEW t \in Sender, NEW i \in 1 .. Len(wire'[t]), wire'[t][i][1] = k
                 PROVE  FALSE
      BY Zenon DEF OnWire
    <3>1. wire[t] \in Seq(Message \X BOOLEAN)
      BY <1>t, Zenon
    <3>2. CASE t # s
      <4>1. wire'[t] = wire[t]
        BY <2>1, <3>2, <1>t, Zenon
      <4> QED
        BY <4>1, <2>3, <3>2, Zenon DEF OrderIInv, WireOrder
    <3>3. CASE t = s
      <4>1. wire'[t] = Tail(wire[t]) /\ wire[t] # <<>>
        BY <2>1, <3>3, <1>t, Zenon
      <4>2. /\ wire'[t][i] = wire[t][i + 1] /\ i + 1 \in 1 .. Len(wire[t])
            /\ 1 \in 1 .. Len(wire[t]) /\ 1 < i + 1 /\ wire[t][1] = Head(wire[t])
        BY <4>1, <3>1, TailFacts
      <4>3. wire[t][1][1].n < wire[t][i + 1][1].n
        BY <4>2, Zenon DEF OrderIInv, WireOrder
      <4>4. wire[t][1][1] = k /\ wire[t][i + 1][1] = k
        BY <4>2, <3>3, <2>0, Zenon
      <4>5. k.n < k.n
        BY <4>3, <4>4, Zenon
      <4> QED
        BY <4>5, <2>3, <1>m
    <3> QED
      BY <3>2, <3>3, Zenon
  <2>7. ~ Moving(k)'
    BY <2>1, <2>4, <2>5, <2>6, Zenon DEF Moving
  <2> QED
    BY <2>1, <2>2, <2>3, <2>7, <1>n, GoneAdded, Zenon
<1>5. ASSUME NEW k \in late, onRecvCallback(k) PROVE GoneForGood'
  <2>1. /\ item' = k /\ late' = late \ {k}
        /\ UNCHANGED <<nsent, accepted, discarded, wire>>
    BY <1>5, Zenon DEF onRecvCallback, BeginEnqueue
  <2>2. \A m : Moving(m)' => Moving(m)
    BY <2>1, Zenon DEF Moving, InRing, OnWire
  <2> QED
    BY <2>1, <2>2, <1>n, GoneKept, Zenon
<1>6. ASSUME NEW k \in late, CallbackFails(k) PROVE GoneForGood'
  <2>1. /\ late' = late \ {k} /\ discarded' = discarded \cup {k}
        /\ UNCHANGED <<nsent, accepted, enq, item, wire>>
    BY <1>6, Zenon DEF CallbackFails, Discard, ringVars
  <2>2. \A m : Moving(m)' => Moving(m)
    BY <2>1, Zenon DEF Moving, InRing, OnWire
  <2>3. k \in Message /\ Follows(k) /\ IsSent(k) /\ wire[k.from] = <<>>
    BY <1>t, Zenon DEF OrderIInv, LateOrder
  <2>4. ~ InRing(k)'
    BY <2>1, <2>3, NotBehindItself, Zenon DEF InRing
  <2>5. ~ OnWire(k)
    <3> SUFFICES ASSUME NEW t \in Sender, NEW i \in 1 .. Len(wire[t]), wire[t][i][1] = k
                 PROVE  FALSE
      BY Zenon DEF OnWire
    <3>1. k.from = t
      BY Zenon DEF OrderIInv, WireOrder
    <3>2. Len(wire[t]) = 0
      BY <3>1, <2>3
    <3> QED
      BY <3>2
  <2>6. ~ Moving(k)'
    BY <2>1, <2>4, <2>5, Zenon DEF Moving, OnWire
  <2> QED
    BY <2>1, <2>2, <2>3, <2>6, <1>n, GoneAdded, Zenon
<1>c. ASSUME UNCHANGED <<nsent, wire, late, discarded>>, \A m : InRing(m)' => InRing(m)
      PROVE  GoneForGood'
  <2>1. \A m : Moving(m)' => Moving(m)
    BY <1>c, Zenon DEF Moving, OnWire
  <2> QED
    BY <1>c, <2>1, <1>n, GoneKept, Zenon
<1>7. CASE TryAgain \/ UNCHANGED ucxVars
  <2>1. UNCHANGED <<nsent, wire, late, discarded, accepted, enq, item>>
    BY <1>7, Zenon DEF TryAgain, ucxVars, ringVars, netVars
  <2> QED
    BY <2>1, <1>c, Zenon DEF InRing
<1>8. CASE Overflow
  <2>1. UNCHANGED <<nsent, wire, late, discarded, accepted>> /\ enq' = "idle"
    BY <1>8, Zenon DEF Overflow, RejectFull, netVars
  <2> QED
    BY <2>1, <1>c, Zenon DEF InRing
<1>9. CASE Ring(FindRoom \/ StoreItem)
  <2>1. UNCHANGED <<nsent, wire, late, discarded, accepted, item>> /\ enq # "idle"
    BY <1>9 DEF Ring, netVars, FindRoom, StoreItem
  <2> QED
    BY <2>1, <1>c, Zenon DEF InRing
<1>10. CASE Ring(Publish)
  <2>1. /\ UNCHANGED <<nsent, wire, late, discarded>> /\ enq # "idle" /\ enq' = "idle"
        /\ accepted' = Append(accepted, item)
    BY <1>10 DEF Ring, netVars, Publish
  <2>2. \A i \in 1 .. Len(accepted') :
            accepted'[i] = item \/ (i \in 1 .. Len(accepted) /\ accepted'[i] = accepted[i])
    <3>1. accepted \in Seq(Item)
      BY Zenon DEF RingIInv, Types, RingTypeOK
    <3> QED
      BY <2>1, <3>1
  <2>3. \A m : InRing(m)' => InRing(m)
    BY <2>1, <2>2, Zenon DEF InRing
  <2> QED
    BY <2>1, <2>3, <1>c, Zenon
<1>11. CASE Ring(Dequeuing)
  <2>1. UNCHANGED <<nsent, wire, late, discarded, accepted, enq, item>>
    BY <1>11, Zenon DEF Ring, netVars, Dequeuing, BeginDequeue, RejectEmpty, FindItem, TakeItem, FreeSlot
  <2> QED
    BY <2>1, <1>c, Zenon DEF InRing
<1>12. ASSUME Ring(FindRoom \/ StoreItem \/ Publish)
       PROVE  Ring(FindRoom \/ StoreItem) \/ Ring(Publish)
  BY <1>12, Zenon DEF Ring
<1> QED
  BY <1>1, <1>2, <1>3, <1>4, <1>5, <1>6, <1>7, <1>8, <1>9, <1>10, <1>11, <1>12,
     Zenon DEF UcxNext, Progress, Pool

UcxIInv == UcxTypes /\ RingIInv /\ OrderIInv /\ GoneForGood

(* The invariant of the queue holds initially and is kept.                   *)
LEMMA UcxInvariant == UcxSpec => []UcxIInv
<1>1. UcxInit => UcxIInv
  BY UcxTypesInit, InitIInv, OrderInit, Zenon DEF UcxInit, UcxIInv, GoneForGood
<1>2. UcxIInv /\ [UcxNext]_ucxVars => UcxIInv'
  BY UcxTypesNext, RingSteps, NextIInv, OrderNext, GoneNext, Zenon DEF UcxIInv
<1> QED
  BY <1>1, <1>2, PTL DEF UcxSpec

(* The receive queue of a pool hands out what its progress thread put in,    *)
(* with the senders, the callbacks and the overflow around the ring.         *)
THEOREM UcxIsFifo == UcxSpec => []FirstInFirstOut
<1>1. UcxIInv => FirstInFirstOut
  BY RingFifo, Zenon DEF UcxIInv
<1> QED
  BY <1>1, UcxInvariant, PTL

(* The pool gets a sender's messages in the order it sent them, however      *)
(* large and small ones, probes and callbacks mix.                           *)
THEOREM SenderOrderAlways == UcxSpec => []SenderOrder
<1>1. UcxIInv => SenderOrder
  <2> SUFFICES ASSUME UcxIInv, NEW i \in DOMAIN received, NEW j \in DOMAIN received,
                      i < j, received[i].from = received[j].from
               PROVE  received[i].n < received[j].n
    BY Zenon DEF SenderOrder
  <2>1. /\ i \in 1 .. Len(received) /\ j \in 1 .. Len(received)
        /\ Len(received) \in Nat /\ Len(accepted) \in Nat
    BY DEF UcxIInv, RingIInv, Types, RingTypeOK
  <2>2. /\ Len(received) <= Len(accepted)
        /\ received[i] = accepted[i] /\ received[j] = accepted[j]
    BY <2>1, Zenon DEF UcxIInv, RingIInv, Prefix
  <2>3. i \in 1 .. Len(accepted) /\ j \in 1 .. Len(accepted)
    BY <2>1, <2>2
  <2> QED
    BY <2>2, <2>3, Zenon DEF UcxIInv, OrderIInv, AcceptedOrder, Before
<1> QED
  BY <1>1, UcxInvariant, PTL

-----------------------------------------------------------------------------
\* The ring has room when the senders' windows fit.

\* No sender has more messages under way than its window, as long as none was
\* given up in an overflow.
Windowed ==
    dropped = {} => \A s \in Sender :
        nsent[s] - Cardinality(Taken(s)) - Cardinality(GivenUp(s)) <= window

(* A set of subsets of a finite set has a minimal element.                   *)
LEMMA SubsetMin ==
    ASSUME NEW S, IsFiniteSet(S), NEW T \in SUBSET SUBSET S, T # {}
    PROVE  \E s \in T : \A t \in T : ~ (t \subseteq s /\ t # s)
<1>1. IsWellFoundedOn(StrictSubsetOrdering(S), SUBSET S)
  BY FS_StrictSubsetOrderingWellFounded, FS_FiniteSubsetsOfFinite, Zenon
<1>2. PICK s \in T : \A t \in T : ~ (<<t, s>> \in StrictSubsetOrdering(S))
  BY <1>1, WFMin, Zenon
<1>3. QED  BY <1>2, Zenon DEF StrictSubsetOrdering

(* The size of a union, and of one of two sets that share nothing.           *)
LEMMA UnionSize ==
    ASSUME NEW S, NEW T, IsFiniteSet(S), IsFiniteSet(T)
    PROVE  /\ IsFiniteSet(S \cup T)
           /\ Cardinality(S \cup T) <= Cardinality(S) + Cardinality(T)
           /\ S \cap T = {} => Cardinality(S \cup T) = Cardinality(S) + Cardinality(T)
<1>1. /\ IsFiniteSet(S \cup T)
      /\ Cardinality(S \cup T) = Cardinality(S) + Cardinality(T) - Cardinality(S \cap T)
  BY FS_Union, Zenon
<1>2. Cardinality(S \cap T) \in Nat /\ Cardinality(S) \in Nat /\ Cardinality(T) \in Nat
  <2>1. IsFiniteSet(S \cap T)
    BY FS_Subset, Zenon
  <2> QED
    BY <2>1, FS_CardinalityType, Zenon
<1>3. S \cap T = {} => Cardinality(S \cap T) = 0
  BY FS_EmptySet, Zenon
<1> QED
  BY <1>1, <1>2, <1>3

\* The members of K that f puts among T.
Among(K, f, T) == {i \in K : f[i] \in T}

(* With at most w members for each element of S there are at most w * |S|.   *)
LEMMA Boxes ==
    ASSUME NEW S, IsFiniteSet(S), NEW K, IsFiniteSet(K), NEW f \in [K -> S], NEW w \in Nat,
           \A s \in S : Cardinality(Among(K, f, {s})) <= w
    PROVE  Cardinality(K) <= w * Cardinality(S)
<1>f. \A T : IsFiniteSet(Among(K, f, T)) /\ Cardinality(Among(K, f, T)) \in Nat
  BY FS_Subset, FS_CardinalityType, Zenon DEF Among
<1> DEFINE Bad == {T \in SUBSET S : ~ (Cardinality(Among(K, f, T)) <= w * Cardinality(T))}
<1>1. Bad = {}
  <2> SUFFICES ASSUME Bad # {} PROVE FALSE
    BY Zenon
  <2>0. Bad \in SUBSET SUBSET S
    BY Zenon
  <2>1. PICK T \in Bad : \A t \in Bad : ~ (t \subseteq T /\ t # T)
    <3> HIDE DEF Bad
    <3> QED
      BY <2>0, SubsetMin
  <2>2. T \in SUBSET S /\ IsFiniteSet(T) /\ ~ (Cardinality(Among(K, f, T)) <= w * Cardinality(T))
    BY FS_Subset, Zenon
  <2>3. T # {}
    <3> SUFFICES ASSUME T = {} PROVE FALSE
      BY Zenon
    <3>1. Among(K, f, T) = {}
      BY Zenon DEF Among
    <3>2. Cardinality({}) = 0
      BY FS_EmptySet, Zenon
    <3>3. Cardinality(Among(K, f, T)) = 0 /\ Cardinality(T) = 0
      BY <3>1, <3>2, Zenon
    <3> HIDE DEF Bad
    <3> QED
      BY <2>2, <3>3
  <2>4. PICK s \in T : TRUE
    BY <2>3, Zenon
  <2>5. T \ {s} \in SUBSET S /\ T \ {s} \subseteq T /\ T \ {s} # T /\ IsFiniteSet(T \ {s})
    BY <2>2, <2>4, FS_Subset, Zenon
  <2>6. Cardinality(Among(K, f, T \ {s})) <= w * Cardinality(T \ {s})
    BY <2>1, <2>5, Zenon
  <2>7. Cardinality(T \ {s}) = Cardinality(T) - 1 /\ Cardinality(T) \in Nat
    BY <2>2, <2>4, FS_RemoveElement, FS_CardinalityType, Zenon
  <2>8. Cardinality(Among(K, f, {s})) <= w
    BY <2>2, <2>4, Zenon
  <2>9. Among(K, f, T) = Among(K, f, T \ {s}) \cup Among(K, f, {s})
    BY <2>4, Zenon DEF Among
  <2>10. Cardinality(Among(K, f, T)) <=
             Cardinality(Among(K, f, T \ {s})) + Cardinality(Among(K, f, {s}))
    BY <2>9, <1>f, UnionSize, Zenon
  <2> HIDE DEF Bad
  <2>11. w * (Cardinality(T) - 1) + w = w * Cardinality(T)
    BY <2>7
  <2>12. w * (Cardinality(T) - 1) \in Int /\ w * Cardinality(T) \in Int
    BY <2>7
  <2> QED
    BY <2>2, <2>6, <2>7, <2>8, <2>10, <2>11, <2>12, <1>f
<1>2. Among(K, f, S) = K
  BY Zenon DEF Among
<1> QED
  BY <1>1, <1>2, Zenon


(* The indices of a sender's messages are finitely many.                     *)
LEMMA CountsFinite ==
    ASSUME UcxTypes, RingIInv, NEW s \in Sender
    PROVE  /\ IsFiniteSet(Taken(s)) /\ Cardinality(Taken(s)) \in Nat
           /\ IsFiniteSet(GivenUp(s)) /\ Cardinality(GivenUp(s)) \in Nat
<1>1. received \in Seq(Item)
  BY Zenon DEF RingIInv, Types, RingTypeOK
<1>2. DOMAIN received = 1 .. Len(received) /\ Len(received) \in Nat
  BY <1>1
<1>3. IsFiniteSet(DOMAIN received)
  BY <1>2, FS_Interval
<1>4. IsFiniteSet(Taken(s))
  BY <1>3, FS_Subset, Zenon DEF Taken
<1>5. IsFiniteSet(GivenUp(s))
  <2>1. IsFiniteSet(dropped \cup discarded)
    BY UnionSize, Zenon DEF UcxTypes
  <2> QED
    BY <2>1, FS_Subset, Zenon DEF GivenUp
<1> QED
  BY <1>4, <1>5, FS_CardinalityType, Zenon

(* Only a send makes a sender's share grow, and it looks at the window.      *)
LEMMA WindowedNext ==
    UcxIInv /\ UcxIInv' /\ Windowed /\ [UcxNext]_ucxVars => Windowed'
<1> SUFFICES ASSUME UcxIInv, UcxIInv', Windowed, [UcxNext]_ucxVars, dropped' = {},
                    NEW s \in Sender
             PROVE  nsent'[s] - Cardinality(Taken(s)') - Cardinality(GivenUp(s)') <= window'
  BY Zenon DEF Windowed
<1> USE DEF UcxIInv
<1>0. dropped = {} /\ ~ Overflow
  <2>1. ~ Overflow
    BY Zenon DEF Overflow
  <2> QED
    BY <2>1, Zenon DEF UcxNext, Progress, Pool, Send, SendFails, ProbeSmall, ProbeLarge, ProbeFails,
                 onRecvCallback, CallbackFails, TryAgain, Ring, ucxVars
<1>1. nsent[s] - Cardinality(Taken(s)) - Cardinality(GivenUp(s)) <= window
  BY <1>0, Zenon DEF Windowed
<1>2. nsent[s] \in Nat /\ window \in Nat
  BY Zenon DEF UcxTypes
<1>3. /\ Cardinality(Taken(s)) \in Nat /\ Cardinality(GivenUp(s)) \in Nat
  BY CountsFinite, Zenon
<1>4. /\ IsFiniteSet(Taken(s)') /\ Cardinality(Taken(s)') \in Nat
      /\ IsFiniteSet(GivenUp(s)') /\ Cardinality(GivenUp(s)') \in Nat
  <2>1. received' \in Seq(Item)
    BY Zenon DEF RingIInv, Types, RingTypeOK
  <2>2. DOMAIN received' = 1 .. Len(received') /\ Len(received') \in Nat
    BY <2>1
  <2>3. IsFiniteSet(DOMAIN received')
    BY <2>2, FS_Interval
  <2>4. IsFiniteSet(Taken(s)')
    BY <2>3, FS_Subset, Zenon DEF Taken
  <2>5. IsFiniteSet(GivenUp(s)')
    BY FS_Subset, Zenon DEF GivenUp, UcxTypes
  <2> QED
    BY <2>4, <2>5, FS_CardinalityType, Zenon
<1>5. ASSUME NEW t \in Sender, NEW large \in BOOLEAN, Send(t, large)
      PROVE  nsent'[s] - Cardinality(Taken(s)') - Cardinality(GivenUp(s)') <= window'
  <2>1. /\ nsent[t] - Cardinality(Taken(t)) - Cardinality(GivenUp(t)) < window
        /\ nsent' = [nsent EXCEPT ![t] = nsent[t] + 1]
        /\ UNCHANGED <<received, dropped, discarded, window>>
    BY <1>5, Zenon DEF Send, ringVars
  <2>2. Taken(s)' = Taken(s) /\ GivenUp(s)' = GivenUp(s)
    BY <2>1, Zenon DEF Taken, GivenUp
  <2>3. CASE s = t
    <3>1. nsent'[s] = nsent[s] + 1
      BY <2>1, <2>3, Zenon DEF UcxTypes
    <3> QED
      BY <2>1, <2>2, <2>3, <3>1, <1>2, <1>3
  <2>4. CASE s # t
    <3>1. nsent'[s] = nsent[s]
      BY <2>1, <2>4, Zenon DEF UcxTypes
    <3> QED
      BY <2>1, <2>2, <3>1, <1>1, Zenon
  <2> QED
    BY <2>3, <2>4, Zenon
<1>6. ASSUME UNCHANGED <<nsent, window>>, Taken(s) \subseteq Taken(s)', GivenUp(s) \subseteq GivenUp(s)'
      PROVE  nsent'[s] - Cardinality(Taken(s)') - Cardinality(GivenUp(s)') <= window'
  <2>1. /\ Cardinality(Taken(s)) <= Cardinality(Taken(s)')
        /\ Cardinality(GivenUp(s)) <= Cardinality(GivenUp(s)')
    BY <1>4, <1>6, FS_Subset, Zenon
  <2> QED
    BY <2>1, <1>1, <1>2, <1>3, <1>4, <1>6
<1>7. ASSUME UNCHANGED <<received, dropped, discarded, nsent, window>>
      PROVE  nsent'[s] - Cardinality(Taken(s)') - Cardinality(GivenUp(s)') <= window'
  BY <1>7, <1>6, Zenon DEF Taken, GivenUp
<1>8. ASSUME NEW t \in Sender, ProbeSmall(t) \/ ProbeLarge(t)
      PROVE  UNCHANGED <<received, dropped, discarded, nsent, window>>
  BY <1>8, Zenon DEF ProbeSmall, BeginEnqueue, ProbeLarge, ringVars
<1>9. ASSUME NEW m \in late, onRecvCallback(m)
      PROVE  UNCHANGED <<received, dropped, discarded, nsent, window>>
  BY <1>9, Zenon DEF onRecvCallback, BeginEnqueue
<1>10. ASSUME TryAgain \/ UNCHANGED ucxVars PROVE UNCHANGED <<received, dropped, discarded, nsent, window>>
  BY <1>10, Zenon DEF TryAgain, ucxVars, ringVars, netVars
<1>11. ASSUME NEW t \in Sender, SendFails(t)
       PROVE  nsent'[s] - Cardinality(Taken(s)') - Cardinality(GivenUp(s)') <= window'
  <2>0. PICK new : new = [from |-> t, n |-> nsent[t] + 1]
    BY Zenon
  <2>1. /\ nsent' = [nsent EXCEPT ![t] = nsent[t] + 1]
        /\ discarded' = discarded \cup {new}
        /\ UNCHANGED <<received, window>>
    BY <1>11, <2>0, Zenon DEF SendFails, Discard, ringVars
  <2>2. Taken(s)' = Taken(s)
    BY <2>1, Zenon DEF Taken
  <2>3. CASE s # t
    <3>1. nsent'[s] = nsent[s]
      BY <2>1, <2>3, Zenon DEF UcxTypes
    <3>2. new.from = t
      BY <2>0
    <3>3. GivenUp(s)' = GivenUp(s)
      BY <2>1, <2>3, <3>2, <1>0, Zenon DEF GivenUp
    <3> QED
      BY <2>1, <2>2, <3>1, <3>3, <1>1, Zenon
  <2>4. CASE s = t
    <3>1. nsent'[s] = nsent[s] + 1
      BY <2>1, <2>4, Zenon DEF UcxTypes
    <3>2. new.from = s /\ new.n = nsent[s] + 1
      BY <2>0, <2>4
    <3>3. ~ IsSent(new)
      BY <3>2, <1>2 DEF IsSent
    <3>4. new \notin GivenUp(s)
      BY <3>3, <1>0, Zenon DEF GivenUp, GoneForGood
    <3>5. GivenUp(s)' = GivenUp(s) \cup {new}
      BY <2>1, <3>2, <1>0, Zenon DEF GivenUp
    <3>6. IsFiniteSet(GivenUp(s))
      BY CountsFinite, Zenon
    <3>7. Cardinality(GivenUp(s)') = Cardinality(GivenUp(s)) + 1
      BY <3>4, <3>5, <3>6, FS_AddElement, Zenon
    <3> QED
      BY <2>1, <2>2, <3>1, <3>7, <1>1, <1>2, <1>3
  <2> QED
    BY <2>3, <2>4, Zenon
<1>14. ASSUME UNCHANGED <<received, nsent, window>>, discarded \subseteq discarded'
       PROVE  nsent'[s] - Cardinality(Taken(s)') - Cardinality(GivenUp(s)') <= window'
  <2>1. Taken(s)' = Taken(s) /\ GivenUp(s) \subseteq GivenUp(s)'
    BY <1>14, <1>0, Zenon DEF Taken, GivenUp
  <2> QED
    BY <2>1, <1>14, <1>6, Zenon
<1>15. ASSUME NEW t \in Sender, ProbeFails(t)
       PROVE  UNCHANGED <<received, nsent, window>> /\ discarded \subseteq discarded'
  BY <1>15, Zenon DEF ProbeFails, Discard, ringVars
<1>16. ASSUME NEW m \in late, CallbackFails(m)
       PROVE  UNCHANGED <<received, nsent, window>> /\ discarded \subseteq discarded'
  BY <1>16, Zenon DEF CallbackFails, Discard, ringVars
<1>12. ASSUME Ring(FindRoom \/ StoreItem \/ Publish)
       PROVE  UNCHANGED <<received, dropped, discarded, nsent, window>>
  BY <1>12, Zenon DEF Ring, netVars, FindRoom, StoreItem, Publish
<1>13. CASE Ring(Dequeuing)
  <2>1. UNCHANGED <<dropped, discarded, nsent, window>>
    BY <1>13, Zenon DEF Ring, netVars
  <2>2. received' = received \/ received' = Append(received, buffer[tail])
    BY <1>13, Zenon DEF Ring, Dequeuing, BeginDequeue, RejectEmpty, FindItem, TakeItem, FreeSlot
  <2>3. received \in Seq(Item) /\ received' \in Seq(Item)
    BY Zenon DEF RingIInv, Types, RingTypeOK
  <2>4. \A i \in DOMAIN received : i \in DOMAIN received' /\ received'[i] = received[i]
    BY <2>2, <2>3
  <2>5. Taken(s) \subseteq Taken(s)' /\ GivenUp(s)' = GivenUp(s)
    BY <2>1, <2>4, Zenon DEF Taken, GivenUp
  <2> QED
    BY <2>1, <2>5, <1>6, Zenon
<1> QED
  BY <1>0, <1>5, <1>7, <1>8, <1>9, <1>10, <1>11, <1>12, <1>13, <1>14, <1>15, <1>16,
     Zenon DEF UcxNext, Progress, Pool


(* Among the numbered messages of one sender, those taken and those under    *)
(* way together are no more than the numbers left to them.                   *)
LEMMA ShareBounded ==
    ASSUME NEW U, IsFiniteSet(U), U \subseteq Int, NEW N, IsFiniteSet(N), N \subseteq Nat,
           NEW g \in [U -> N],
           \A i, j \in U : i < j => g[i] < g[j]
    PROVE  Cardinality(U) <= Cardinality(N)
<1> SUFFICES ASSUME ~ (Cardinality(U) <= Cardinality(N)) PROVE FALSE
  BY Zenon
<1>1. Cardinality(N) < Cardinality(U)
  BY FS_CardinalityType
<1>2. \E x, y \in U : x # y /\ g[x] = g[y]
  BY <1>1, FS_PigeonHole, Zenon
<1>3. PICK x \in U, y \in U : x # y /\ g[x] = g[y]
  BY <1>2, Zenon
<1>4. g[x] \in N
  BY Zenon
<1>5. x \in Int /\ y \in Int /\ g[x] \in Nat
  BY <1>4, Zenon
<1>6. x < y \/ y < x
  BY <1>3, <1>5
<1>7. g[x] < g[y] \/ g[y] < g[x]
  BY <1>6, Zenon
<1> QED
  BY <1>3, <1>5, <1>7

(* A sender's messages are told apart by their numbers.                      *)
LEMMA NumbersOfOne ==
    ASSUME NEW G, IsFiniteSet(G), G \subseteq Message, NEW s, \A m \in G : m.from = s
    PROVE  Cardinality({m.n : m \in G}) = Cardinality(G)
<1> DEFINE N == {m.n : m \in G}
           h == [m \in G |-> m.n]
<1>1. \A m, k \in G : m.n = k.n => m = k
  BY DEF Message
<1>2. h \in [G -> N] /\ \A m \in G : h[m] = m.n
  BY Zenon
<1> HIDE DEF h
<1>3. h \in Injection(G, N)
  BY <1>1, <1>2, ZenonT(30) DEF Injection, IsInjective
<1>4. h \in Surjection(G, N)
  BY <1>2, Zenon DEF Surjection
<1>5. ExistsBijection(G, N)
  BY <1>3, <1>4, Zenon DEF ExistsBijection, Bijection
<1> HIDE DEF N
<1>6. Cardinality(N) = Cardinality(G)
  BY <1>5, FS_Bijection, Zenon
<1> QED
  BY <1>6 DEF N

(* When the windows fit into the ring, it is never found full.               *)
LEMMA RoomForItem ==
    ASSUME UcxIInv, Windowed, dropped = {}, enq # "idle",
           window * Cardinality(Sender) <= Capacity - 2
    PROVE  ~ Full
<1>t. /\ accepted \in Seq(Message) /\ received \in Seq(Message) /\ item \in Message
      /\ window \in Nat /\ nsent \in [Sender -> Nat]
      /\ IsFiniteSet(Sender) /\ Cardinality(Sender) \in Nat
  BY UcxAssumption, FS_CardinalityType, Zenon DEF UcxIInv, UcxTypes, RingIInv, Types, RingTypeOK
<1>n. /\ Len(accepted) \in Nat /\ Len(received) \in Nat /\ Len(received) <= Len(accepted)
      /\ \A i \in 1 .. Len(received) : received[i] = accepted[i]
  BY <1>t DEF UcxIInv, RingIInv, Prefix
<1>m. \A m \in Message : m.from \in Sender /\ m.n \in Nat \ {0}
  BY DEF Message
<1> DEFINE top == Len(accepted) + 1
           acc == Append(accepted, item)
           K == Len(received) + 1 .. top
           f == [i \in K |-> acc[i].from]
<1>1. /\ acc[top] = item
      /\ \A i \in 1 .. Len(accepted) : acc[i] = accepted[i]
  BY <1>t
<1>2. \A i \in 1 .. top : i \in 1 .. Len(accepted) \/ i = top
  BY <1>n
<1>3. \A i \in 1 .. top : acc[i] \in Message /\ IsSent(acc[i])
  <2>1. \A i \in 1 .. Len(accepted) : accepted[i] \in Message
    BY <1>t
  <2> QED
    BY <1>1, <1>2, <1>t, <2>1, Zenon DEF UcxIInv, OrderIInv, AcceptedOrder
<1>4. ASSUME NEW i \in 1 .. top, NEW j \in 1 .. top, i < j
      PROVE  Before(acc[i], acc[j])
  <2>1. i \in 1 .. Len(accepted)
    BY <1>4, <1>n
  <2>2. CASE j \in 1 .. Len(accepted)
    BY <1>4, <2>1, <2>2, <1>1, Zenon DEF UcxIInv, OrderIInv, AcceptedOrder
  <2>3. CASE j = top
    BY <2>1, <2>3, <1>1, Zenon DEF UcxIInv, OrderIInv, AcceptedOrder, FollowsAccepted
  <2> QED
    BY <2>2, <2>3, <1>2, Zenon
<1>5. IsFiniteSet(K) /\ Cardinality(K) = top - Len(received)
  BY <1>n, FS_Interval
<1>6. K \subseteq 1 .. top /\ 1 .. Len(received) \subseteq 1 .. top /\ 1 .. top \subseteq Int
      /\ K \cap (1 .. Len(received)) = {}
  BY <1>n
<1>a. \A i \in 1 .. Len(received) : received[i] = acc[i]
  <2>1. 1 .. Len(received) \subseteq 1 .. Len(accepted)
    BY <1>n
  <2> QED
    BY <2>1, <1>1, <1>n, Zenon
<1>d. DOMAIN received = 1 .. Len(received)
  BY <1>t
<1> HIDE DEF top, acc, K
<1>7. f \in [K -> Sender]
  BY <1>3, <1>6, <1>m, Zenon
<1>8. ASSUME NEW s \in Sender PROVE Cardinality(Among(K, f, {s})) <= window
  <2> DEFINE A == Among(K, f, {s})
             U == Taken(s) \cup A
             g == [i \in U |-> acc[i].n]
             Gone == {m.n : m \in GivenUp(s)}
             N == (1 .. nsent[s]) \ Gone
  <2>1. /\ A \subseteq K /\ \A i \in A : acc[i].from = s
        /\ Taken(s) \subseteq 1 .. Len(received) /\ \A i \in Taken(s) : acc[i].from = s
    BY <1>a, <1>d, Zenon DEF Among, Taken
  <2>2. IsFiniteSet(A) /\ Cardinality(A) \in Nat
    BY <1>5, <2>1, FS_Subset, FS_CardinalityType, Zenon
  <2>3. IsFiniteSet(Taken(s)) /\ Cardinality(Taken(s)) \in Nat
    BY CountsFinite, Zenon DEF UcxIInv
  <2> HIDE DEF A
  <2>4. Taken(s) \cap A = {}
    BY <2>1, <1>6, Zenon
  <2>5. IsFiniteSet(U) /\ Cardinality(U) = Cardinality(Taken(s)) + Cardinality(A)
    BY <2>2, <2>3, <2>4, UnionSize, Zenon
  <2>6. U \subseteq 1 .. top /\ \A i \in U : acc[i].from = s
    BY <2>1, <1>6, Zenon
  <2>7. \A i \in U : acc[i].n \in Nat \ {0} /\ acc[i].n <= nsent[s]
    BY <2>6, <1>3, <1>m, Zenon DEF IsSent
  <2>8. \A i, j \in U : i < j => acc[i].n < acc[j].n
    BY <2>6, <1>4, Zenon DEF Before
  <2> HIDE DEF U
  <2>10. U \subseteq Int /\ nsent[s] \in Nat
    BY <2>6, <1>6, <1>t, Zenon
  <2>n. Cardinality(N) = nsent[s] - Cardinality(GivenUp(s)) /\ IsFiniteSet(N) /\ N \subseteq Nat
    <3>1. /\ IsFiniteSet(GivenUp(s)) /\ GivenUp(s) \subseteq Message
          /\ \A m \in GivenUp(s) : m.from = s
      BY CountsFinite, Zenon DEF UcxIInv, UcxTypes, GivenUp
    <3>2. Cardinality(Gone) = Cardinality(GivenUp(s))
      BY <3>1, NumbersOfOne, Zenon
    <3>3. \A m \in GivenUp(s) : m.n \in Nat \ {0} /\ m.n <= nsent[s]
      BY <3>1, <1>m, Zenon DEF UcxIInv, GoneForGood, IsSent, GivenUp
    <3>4. Gone \subseteq 1 .. nsent[s]
      BY <3>3, <2>10
    <3> HIDE DEF Gone
    <3>5. (1 .. nsent[s]) \cap Gone = Gone
      BY <3>4, Zenon
    <3>6. IsFiniteSet(1 .. nsent[s]) /\ Cardinality(1 .. nsent[s]) = nsent[s]
      <4>1. \A k \in Nat : IsFiniteSet(1 .. k) /\ Cardinality(1 .. k) = k
        BY FS_Interval
      <4> QED
        BY <2>10, <4>1, Zenon
    <3>7. /\ IsFiniteSet(N)
          /\ Cardinality(N) = Cardinality(1 .. nsent[s]) - Cardinality((1 .. nsent[s]) \cap Gone)
      BY <3>6, FS_Difference, Zenon
    <3>8. N \subseteq Nat
      BY <2>10
    <3> QED
      BY <3>2, <3>5, <3>6, <3>7, <3>8, Zenon
  <2>9. g \in [U -> N] /\ \A i, j \in U : i < j => g[i] < g[j]
    <3>1. \A i \in U : acc[i].n \in 1 .. nsent[s]
      BY <2>7, <2>10
    <3>2. ASSUME NEW i \in U PROVE acc[i].n \notin Gone
      <4> SUFFICES ASSUME NEW m \in GivenUp(s), acc[i].n = m.n PROVE FALSE
        BY Zenon
      <4>1. m \in Message /\ m.from = s /\ m \in discarded
        BY Zenon DEF UcxIInv, UcxTypes, GivenUp
      <4>2. acc[i] \in Message /\ acc[i].from = s
        BY <2>6, <1>3, Zenon
      <4>3. acc[i] = m
        BY <4>1, <4>2 DEF Message
      <4>4. InRing(acc[i])
        BY <2>6, <1>1, <1>2, Zenon DEF InRing
      <4> QED
        BY <4>1, <4>3, <4>4, Zenon DEF UcxIInv, GoneForGood, Moving
    <3> QED
      BY <3>1, <3>2, <2>8, Zenon
  <2> HIDE DEF g, N
  <2>11. Cardinality(U) <= Cardinality(N)
    BY <2>5, <2>9, <2>10, <2>n, ShareBounded, Zenon
  <2>12. Cardinality(GivenUp(s)) \in Nat
    BY CountsFinite, Zenon DEF UcxIInv
  <2>13. nsent[s] - Cardinality(Taken(s)) - Cardinality(GivenUp(s)) <= window
    BY Zenon DEF Windowed
  <2>14. Cardinality(A) <= window
    BY <2>2, <2>3, <2>5, <2>10, <2>n, <2>11, <2>12, <2>13, <1>t
  <2> QED
    BY <2>14, Zenon DEF A
<1> HIDE DEF f
<1>9. Cardinality(K) <= window * Cardinality(Sender)
  BY <1>t, <1>5, <1>7, <1>8, Boxes, Zenon
<1> SUFFICES ASSUME Full PROVE FALSE
  BY Zenon
<1>10. /\ Freed \in Nat /\ InUse \in 0 .. Capacity - 1
       /\ head \in Index /\ tail \in Index
       /\ Freed + InUse = Len(accepted)
       /\ head = Place(InUse)
  BY Numbers, Zenon DEF UcxIInv, RingIInv, Distance
<1>11. InUse = Capacity - 1
  BY <1>10, RingAssumption DEF Full, Place, After, Index
<1>12. Freed <= Len(received) /\ Len(received) <= Freed + 1
  BY <1>n DEF Freed
<1>13. window * Cardinality(Sender) \in Int
  BY <1>t
<1> QED
  BY <1>5, <1>9, <1>10, <1>11, <1>12, <1>13, <1>n, RingAssumption DEF top

(* The queue does not overflow, whatever the senders and the two threads do, *)
(* when the senders' windows fit into the ring.                              *)
THEOREM NoOverflowAlways == UcxSpec => []NoOverflow
<1>1. UcxInit => Windowed /\ NoOverflow
  <2> SUFFICES ASSUME UcxInit, NEW s \in Sender
               PROVE  nsent[s] - Cardinality(Taken(s)) - Cardinality(GivenUp(s)) <= window
    BY Zenon DEF UcxInit, Windowed, NoOverflow
  <2>1. window \in Nat /\ nsent[s] = 0 /\ received = <<>> /\ dropped = {} /\ discarded = {}
    BY UcxAssumption, Zenon DEF UcxInit, RingInit
  <2>2. Taken(s) = {}
    BY <2>1 DEF Taken
  <2>3. GivenUp(s) = {}
    BY <2>1, Zenon DEF GivenUp
  <2>4. Cardinality({}) = 0
    BY FS_EmptySet, Zenon
  <2> QED
    BY <2>1, <2>2, <2>3, <2>4
<1>2. UcxIInv /\ UcxIInv' /\ Windowed /\ [UcxNext]_ucxVars => Windowed'
  BY WindowedNext, Zenon
<1>3. UcxIInv /\ Windowed /\ NoOverflow /\ [UcxNext]_ucxVars => NoOverflow'
  <2> SUFFICES ASSUME UcxIInv, Windowed, NoOverflow, [UcxNext]_ucxVars,
                      window' * Cardinality(Sender) <= Capacity - 2
               PROVE  dropped' = {}
    BY Zenon DEF NoOverflow
  <2>1. window' = window
    BY Zenon DEF UcxNext, Progress, Pool, Send, SendFails, ProbeSmall, ProbeLarge, ProbeFails,
                 onRecvCallback, CallbackFails, TryAgain, Overflow, Ring, netVars, ucxVars
  <2>2. dropped = {}
    BY <2>1, Zenon DEF NoOverflow
  <2>3. CASE Overflow
    <3>1. enq # "idle" /\ Full
      BY <2>3 DEF Overflow, RejectFull
    <3> QED
      BY <3>1, <2>1, <2>2, RoomForItem, Zenon
  <2>4. CASE ~ Overflow
    BY <2>2, <2>4, Zenon DEF UcxNext, Progress, Pool, Send, SendFails, ProbeSmall, ProbeLarge,
                 ProbeFails, onRecvCallback, CallbackFails, TryAgain, Ring, ucxVars
  <2> QED
    BY <2>3, <2>4, Zenon
<1> QED
  BY <1>1, <1>2, <1>3, UcxInvariant, PTL DEF UcxSpec

-----------------------------------------------------------------------------
\* The loop of the engine.

\* A launched batch.
Result == [kind : {"attn", "expert"}, batch : SUBSET Req, event : Nat,
           topk : Slot \cup {NoSlot}]

LoopTypes ==
    /\ ring \in Rings
    /\ idx \in Slot \cup {NoSlot}
    /\ real_sampler \in BOOLEAN
    /\ stream \in Seq(Slot \cup {NoSlot})
    /\ pc \in {"top", "sample", "post", "permute", "ended"}
    /\ forward_batch \in BOOLEAN /\ last_batch \in BOOLEAN
    /\ result_queue \in Seq(Result) /\ outbox \in Seq(Result)
    /\ at \in [Req -> {"new", "attn", "expert", "sample", "busy", "away", "done"}]

\* What the loop knows where it waits.
Control ==
    /\ pc = "permute" => last_batch
    /\ pc = "sample" => ~forward_batch

LoopIInv == LoopTypes /\ Control /\ OneResultBehind /\ DispatchedIsComputed

-----------------------------------------------------------------------------
(* The ring's next slot is a slot, and another one than the last.            *)
LEMMA NextSlot ==
    ASSUME NEW i \in Slot \cup {NoSlot}
    PROVE  /\ get_one_handle(i) \in Slot
           /\ get_one_handle(i) = IF i = Slots - 1 THEN 0 ELSE i + 1
           /\ get_one_handle(i) # i
<1>1. get_one_handle(i) = IF i = Slots - 1 THEN 0 ELSE i + 1
  <2>1. CASE i = Slots - 1
    <3>1. Slots % Slots = 0
      BY EngineLoopAssumption
    <3> QED
      BY <2>1, <3>1, EngineLoopAssumption DEF get_one_handle
  <2>2. CASE i # Slots - 1
    <3>1. i + 1 \in 0 .. Slots - 1
      BY <2>2, EngineLoopAssumption DEF Slot, NoSlot
    <3>2. (i + 1) % Slots = i + 1
      BY <3>1, EngineLoopAssumption
    <3> QED
      BY <2>2, <3>2 DEF get_one_handle
  <2> QED
    BY <2>1, <2>2, Zenon
<1> QED
  BY <1>1, EngineLoopAssumption DEF Slot, NoSlot

\* Kernels behind those on the stream: none takes a slot of the ring,
Idle(s, t, i, j) ==
    /\ Len(t) > Len(s)
    /\ \A p \in 1 .. Len(s) : t[p] = s[p]
    /\ \A p \in 1 .. Len(t) : p > Len(s) => t[p] = NoSlot
    /\ j = i

\* or exactly one does.
Takes(s, t, i, j, z) ==
    /\ Len(t) > Len(s)
    /\ \A p \in 1 .. Len(s) : t[p] = s[p]
    /\ z \in 1 .. Len(t) /\ z > Len(s) /\ t[z] = j
    /\ \A p \in 1 .. Len(t) : p > Len(s) /\ p # z => t[p] = NoSlot
    /\ j = get_one_handle(i)

(* What the launch of one kernel, or of two for different rings, does to the *)
(* stream and to the ring.                                                   *)
LEMMA LaunchOne ==
    ASSUME LoopTypes, NEW A, Launch(<<A>>)
    PROVE  /\ stream' \in Seq(Slot \cup {NoSlot}) /\ idx' \in Slot \cup {NoSlot}
           /\ UNCHANGED <<ring, real_sampler>>
           /\ IF ring \in A THEN \E z : Takes(stream, stream', idx, idx', z)
                            ELSE Idle(stream, stream', idx, idx')
<1> DEFINE k == IF ring \in A THEN get_one_handle(idx) ELSE NoSlot
<1>1. stream \in Seq(Slot \cup {NoSlot}) /\ idx \in Slot \cup {NoSlot}
  BY Zenon DEF LoopTypes
<1>2. /\ idx' = IF ring \in A THEN get_one_handle(idx) ELSE idx
      /\ stream' = stream \o <<k>>
      /\ UNCHANGED <<ring, real_sampler>>
  BY DEF Launch
<1>3. get_one_handle(idx) \in Slot
  BY <1>1, NextSlot, Zenon
<1>4. k \in Slot \cup {NoSlot} /\ idx' \in Slot \cup {NoSlot}
  BY <1>1, <1>2, <1>3, Zenon
<1>5. /\ stream' \in Seq(Slot \cup {NoSlot}) /\ Len(stream') = Len(stream) + 1
      /\ \A p \in 1 .. Len(stream) : stream'[p] = stream[p]
      /\ stream'[Len(stream) + 1] = k
      /\ Len(stream) \in Nat
  <2> HIDE DEF k
  <2> QED
    BY <1>1, <1>2, <1>4
<1>6. CASE ring \in A
  <2>1. Takes(stream, stream', idx, idx', Len(stream) + 1)
    <3>1. k = idx' /\ idx' = get_one_handle(idx)
      BY <1>2, <1>6, Zenon
    <3> HIDE DEF k
    <3> QED
      BY <1>5, <3>1 DEF Takes
  <2> QED
    BY <1>2, <1>4, <1>5, <1>6, <2>1, Zenon
<1>7. CASE ring \notin A
  <2>1. Idle(stream, stream', idx, idx')
    <3>1. k = NoSlot /\ idx' = idx
      BY <1>2, <1>7, Zenon
    <3> HIDE DEF k
    <3> QED
      BY <1>5, <3>1 DEF Idle
  <2> QED
    BY <1>2, <1>4, <1>5, <1>7, <2>1, Zenon
<1> QED
  BY <1>6, <1>7, Zenon

(* The same for two kernels of which at most one takes a slot.              *)
LEMMA LaunchTwo ==
    ASSUME LoopTypes, NEW A, NEW B, ~ (ring \in A /\ ring \in B), Launch(<<A, B>>)
    PROVE  /\ stream' \in Seq(Slot \cup {NoSlot}) /\ idx' \in Slot \cup {NoSlot}
           /\ UNCHANGED <<ring, real_sampler>>
           /\ IF ring \in A \cup B THEN \E z : Takes(stream, stream', idx, idx', z)
                                   ELSE Idle(stream, stream', idx, idx')
<1> DEFINE k == IF ring \in A THEN get_one_handle(idx) ELSE NoSlot
           l == IF ring \in B THEN get_one_handle(idx) ELSE NoSlot
<1>1. stream \in Seq(Slot \cup {NoSlot}) /\ idx \in Slot \cup {NoSlot}
  BY Zenon DEF LoopTypes
<1>2. /\ idx' = IF ring \in A \cup B THEN get_one_handle(idx) ELSE idx
      /\ stream' = stream \o <<k, l>>
      /\ UNCHANGED <<ring, real_sampler>>
  BY DEF Launch
<1>3. get_one_handle(idx) \in Slot
  BY <1>1, NextSlot, Zenon
<1>4. k \in Slot \cup {NoSlot} /\ l \in Slot \cup {NoSlot} /\ idx' \in Slot \cup {NoSlot}
  BY <1>1, <1>2, <1>3, Zenon
<1>5. /\ stream' \in Seq(Slot \cup {NoSlot}) /\ Len(stream') = Len(stream) + 2
      /\ \A p \in 1 .. Len(stream) : stream'[p] = stream[p]
      /\ stream'[Len(stream) + 1] = k /\ stream'[Len(stream) + 2] = l
      /\ Len(stream) \in Nat
  <2> HIDE DEF k, l
  <2> QED
    BY <1>1, <1>2, <1>4
<1>6. CASE ring \in A
  <2>1. Takes(stream, stream', idx, idx', Len(stream) + 1)
    <3>1. k = idx' /\ l = NoSlot /\ idx' = get_one_handle(idx)
      BY <1>2, <1>6, Zenon
    <3> HIDE DEF k, l
    <3> QED
      BY <1>5, <3>1 DEF Takes
  <2> QED
    BY <1>2, <1>4, <1>5, <1>6, <2>1, Zenon
<1>7. CASE ring \in B
  <2>1. Takes(stream, stream', idx, idx', Len(stream) + 2)
    <3>1. l = idx' /\ k = NoSlot /\ idx' = get_one_handle(idx)
      BY <1>2, <1>7, Zenon
    <3> HIDE DEF k, l
    <3> QED
      BY <1>5, <3>1 DEF Takes
  <2> QED
    BY <1>2, <1>4, <1>5, <1>7, <2>1, Zenon
<1>8. CASE ring \notin A \cup B
  <2>1. Idle(stream, stream', idx, idx')
    <3>1. k = NoSlot /\ l = NoSlot /\ idx' = idx
      BY <1>2, <1>8, Zenon
    <3> HIDE DEF k, l
    <3> QED
      BY <1>5, <3>1 DEF Idle
  <2> QED
    BY <1>2, <1>4, <1>5, <1>8, <2>1, Zenon
<1> QED
  BY <1>6, <1>7, <1>8, Zenon

-----------------------------------------------------------------------------
(* The front of a queue: head and tail.                                      *)
LEMMA HeadTailFacts ==
    ASSUME NEW S, NEW q \in Seq(S), q # <<>>
    PROVE  /\ Len(q) \in Nat \ {0} /\ 1 \in 1 .. Len(q)
           /\ Head(q) = q[1] /\ q[1] \in S
           /\ Tail(q) \in Seq(S) /\ Len(Tail(q)) = Len(q) - 1
           /\ \A j \in 1 .. Len(Tail(q)) : j + 1 \in 1 .. Len(q) /\ Tail(q)[j] = q[j + 1]
OBVIOUS

(* The end of a queue: append.                                               *)
LEMMA AppendFacts ==
    ASSUME NEW S, NEW q \in Seq(S), NEW x \in S
    PROVE  /\ Len(q) \in Nat
           /\ Append(q, x) \in Seq(S) /\ Len(Append(q, x)) = Len(q) + 1
           /\ Append(q, x)[Len(q) + 1] = x
           /\ \A j \in 1 .. Len(q) : Append(q, x)[j] = q[j]
           /\ \A j \in 1 .. Len(Append(q, x)) : j \in 1 .. Len(q) \/ j = Len(q) + 1
OBVIOUS

(* The positions of a queue.                                                 *)
LEMMA DomainIs ==
    ASSUME NEW S, NEW q \in Seq(S)
    PROVE  DOMAIN q = 1 .. Len(q) /\ Len(q) \in Nat /\ \A j \in 1 .. Len(q) : q[j] \in S
OBVIOUS

(* Initially the loop is at the top and nothing was launched.                *)
LEMMA LoopInit == Init => LoopIInv
<1> SUFFICES ASSUME Init PROVE LoopIInv
  BY Zenon
<1>1. LoopTypes
  <2>1. <<>> \in Seq(Slot \cup {NoSlot}) /\ <<>> \in Seq(Result)
    OBVIOUS
  <2> QED
    BY <2>1, Zenon DEF Init, LoopTypes
<1>2. Control /\ OneResultBehind /\ DispatchedIsComputed
  BY DEF Init, Control, OneResultBehind, DispatchedIsComputed
<1> QED
  BY <1>1, <1>2, Zenon DEF LoopIInv

(* A result is there for the turn after the one that launched it.            *)
LEMMA ResultThere ==
    ASSUME LoopIInv, pc \in {"post", "permute"}, last_batch
    PROVE  /\ result_queue \in Seq(Result) /\ result_queue # <<>>
           /\ Len(result_queue) = 1 + (IF forward_batch THEN 1 ELSE 0)
<1>1. result_queue \in Seq(Result) /\ forward_batch \in BOOLEAN
  BY Zenon DEF LoopIInv, LoopTypes
<1>2. Len(result_queue) = 1 + (IF forward_batch THEN 1 ELSE 0)
  BY DEF LoopIInv, OneResultBehind
<1> QED
  BY <1>1, <1>2

(* A batch is launched: one result more, for the next turn.                  *)
LEMMA RunBatchLoops ==
    ASSUME LoopIInv, NEW kind \in {"attn", "expert"}, NEW batch \in SUBSET Req,
           RunBatch(kind, batch)
    PROVE  /\ LoopIInv'
           /\ \E x \in Result :
                 /\ result_queue' = Append(result_queue, x)
                 /\ x.batch = batch /\ x.event = Len(stream')
                 /\ x.topk = IF kind = "attn" /\ ring = "topk" THEN idx' ELSE NoSlot
           /\ \E g \in Gather :
                 IF ring \in (IF kind = "attn" THEN {"stash", "topk"} ELSE {"experts"}) \cup g
                 THEN \E z : Takes(stream, stream', idx, idx', z)
                 ELSE Idle(stream, stream', idx, idx')
<1>0. PICK g \in Gather :
         Launch(IF kind = "attn" THEN <<{"stash", "topk"} \cup g>> ELSE <<{"experts"} \cup g>>)
  BY Zenon DEF RunBatch
<1> DEFINE x == [kind |-> kind, batch |-> batch, event |-> Len(stream'),
                 topk |-> IF kind = "attn" /\ ring = "topk" THEN idx' ELSE NoSlot]
           A == (IF kind = "attn" THEN {"stash", "topk"} ELSE {"experts"}) \cup g
<1>1. /\ pc = "top" /\ pc' = "post" /\ forward_batch' = TRUE
      /\ result_queue' = Append(result_queue, x)
      /\ at' = [q \in Req |-> IF q \in batch THEN "busy" ELSE at[q]]
      /\ UNCHANGED <<last_batch, outbox, end_flag>>
  BY Zenon DEF RunBatch, Move
<1>2. Launch(<<A>>)
  BY <1>0, Zenon
<1>3. /\ stream' \in Seq(Slot \cup {NoSlot}) /\ idx' \in Slot \cup {NoSlot}
      /\ UNCHANGED <<ring, real_sampler>>
      /\ IF ring \in A THEN \E z : Takes(stream, stream', idx, idx', z)
                       ELSE Idle(stream, stream', idx, idx')
  BY <1>2, LaunchOne, Zenon DEF LoopIInv
<1>4. x \in Result
  <2>1. Len(stream') \in Nat
    BY <1>3
  <2> QED
    BY <1>3, <2>1 DEF Result
<1>t. /\ result_queue \in Seq(Result) /\ outbox \in Seq(Result)
      /\ at \in [Req -> {"new", "attn", "expert", "sample", "busy", "away", "done"}]
      /\ ring \in Rings /\ real_sampler \in BOOLEAN /\ last_batch \in BOOLEAN
  BY Zenon DEF LoopIInv, LoopTypes
<1>9. /\ x.batch = batch /\ x.event = Len(stream')
      /\ x.topk = IF kind = "attn" /\ ring = "topk" THEN idx' ELSE NoSlot
  BY Zenon
<1> HIDE DEF A, x
<1>5. LoopTypes'
  <2>1. result_queue' \in Seq(Result)
    BY <1>1, <1>4, <1>t, AppendFacts, Zenon
  <2>2. at' \in [Req -> {"new", "attn", "expert", "sample", "busy", "away", "done"}]
    BY <1>1, <1>t, Zenon
  <2> QED
    BY <1>1, <1>3, <1>t, <2>1, <2>2, Zenon DEF LoopTypes
<1>6. OneResultBehind'
  <2>1. Len(result_queue') = Len(result_queue) + 1 /\ Len(result_queue) \in Nat
    BY <1>1, <1>4, <1>t, AppendFacts, Zenon
  <2>2. Len(result_queue) = IF last_batch THEN 1 ELSE 0
    BY <1>1, <2>1 DEF LoopIInv, OneResultBehind
  <2> QED
    BY <1>1, <2>1, <2>2 DEF OneResultBehind
<1>7. Control'
  BY <1>1 DEF Control
<1>8. DispatchedIsComputed'
  BY <1>1, Zenon DEF LoopIInv, DispatchedIsComputed
<1> QED
  BY <1>1, <1>3, <1>4, <1>5, <1>6, <1>7, <1>8, <1>9, Zenon DEF LoopIInv, A

(* Sampling launches kernels, and no result.                                 *)
LEMMA SampleBatchLoops ==
    ASSUME LoopIInv, NEW batch \in SUBSET Req, NEW done \in SUBSET Req,
           SampleBatch(batch, done)
    PROVE  /\ LoopIInv' /\ UNCHANGED <<result_queue, outbox>>
           /\ \/ \E z : Takes(stream, stream', idx, idx', z)
              \/ Idle(stream, stream', idx, idx')
           /\ ring = "topk" => idx' = idx
<1>1. /\ pc = "top" /\ forward_batch' = FALSE
      /\ pc' = IF real_sampler THEN "sample" ELSE "post"
      /\ at' = [q \in Req |-> CASE q \in done -> "done"
                                [] q \in batch \ done -> "attn"
                                [] q \notin batch -> at[q]]
      /\ done \subseteq batch
      /\ UNCHANGED <<last_batch, result_queue, outbox, end_flag>>
  BY Zenon DEF SampleBatch
<1>2. PICK g \in Gather :
         Launch(<<{"stash"} \cup g>>) \/ Launch(<<{"stash"} \cup g, {"continue"}>>)
  BY Zenon DEF SampleBatch
<1>g. g \subseteq {"gather"}
  BY Zenon DEF Gather
<1>3. /\ stream' \in Seq(Slot \cup {NoSlot}) /\ idx' \in Slot \cup {NoSlot}
      /\ UNCHANGED <<ring, real_sampler>>
      /\ \/ /\ ring \in {"stash", "gather", "continue"}
            /\ \E z : Takes(stream, stream', idx, idx', z)
         \/ Idle(stream, stream', idx, idx')
  <2>1. CASE Launch(<<{"stash"} \cup g>>)
    BY <1>g, <2>1, LaunchOne, Zenon DEF LoopIInv
  <2>2. CASE Launch(<<{"stash"} \cup g, {"continue"}>>)
    <3>1. ~ (ring \in {"stash"} \cup g /\ ring \in {"continue"})
      BY <1>g
    <3> QED
      BY <1>g, <2>2, <3>1, LaunchTwo, Zenon DEF LoopIInv
  <2> QED
    BY <1>2, <2>1, <2>2, Zenon
<1>t. /\ result_queue \in Seq(Result) /\ outbox \in Seq(Result)
      /\ at \in [Req -> {"new", "attn", "expert", "sample", "busy", "away", "done"}]
      /\ ring \in Rings /\ real_sampler \in BOOLEAN /\ last_batch \in BOOLEAN
  BY Zenon DEF LoopIInv, LoopTypes
<1>4. LoopTypes'
  <2>1. at' \in [Req -> {"new", "attn", "expert", "sample", "busy", "away", "done"}]
    <3> SUFFICES ASSUME NEW q \in Req
                 PROVE  (CASE q \in done -> "done" [] q \in batch \ done -> "attn"
                           [] q \notin batch -> at[q])
                        \in {"new", "attn", "expert", "sample", "busy", "away", "done"}
      BY <1>1, Zenon
    <3>1. CASE q \in done
      BY <3>1, <1>1
    <3>2. CASE q \in batch \ done
      BY <3>2, <1>1
    <3>3. CASE q \notin batch
      BY <3>3, <1>1, <1>t
    <3> QED
      BY <3>1, <3>2, <3>3, Zenon
  <2> QED
    BY <1>1, <1>3, <1>t, <2>1, Zenon DEF LoopTypes
<1>5. OneResultBehind'
  BY <1>1 DEF LoopIInv, OneResultBehind
<1>6. Control' /\ DispatchedIsComputed'
  BY <1>1 DEF Control, LoopIInv, DispatchedIsComputed
<1>7. ring = "topk" => idx' = idx
  <2>1. "topk" \notin {"stash", "gather", "continue"}
    OBVIOUS
  <2> QED
    BY <1>3, <2>1, Zenon DEF Idle
<1> QED
  BY <1>1, <1>3, <1>4, <1>5, <1>6, <1>7, Zenon DEF LoopIInv


(* The oldest result, computed, goes to the dispatcher; the turn ends.       *)
LEMMA DispatchLoops ==
    ASSUME LoopIInv, pc \in {"post", "permute"}, last_batch,
           Head(result_queue).event = 0, DispatchOldest,
           UNCHANGED <<gpuVars, forward_batch, at, end_flag>>
    PROVE  LoopIInv'
<1>1. /\ outbox' = Append(outbox, Head(result_queue))
      /\ result_queue' = Tail(result_queue)
      /\ pc' = "top" /\ last_batch' = forward_batch
      /\ UNCHANGED <<ring, idx, real_sampler, stream>>
  BY Zenon DEF DispatchOldest, NextTurn, gpuVars
<1>t. LoopTypes /\ result_queue \in Seq(Result) /\ outbox \in Seq(Result) /\ forward_batch \in BOOLEAN
  BY Zenon DEF LoopIInv, LoopTypes
<1>2. result_queue # <<>> /\ Len(result_queue) = 1 + (IF forward_batch THEN 1 ELSE 0)
  BY ResultThere, Zenon
<1>3. PICK x \in Result : x = Head(result_queue)
  <2>1. Head(result_queue) = result_queue[1] /\ result_queue[1] \in Result
    BY <1>2, <1>t, HeadTailFacts, Zenon
  <2> QED
    BY <2>1, Zenon
<1>4. Tail(result_queue) \in Seq(Result) /\ Len(Tail(result_queue)) = Len(result_queue) - 1
  BY <1>2, <1>t, HeadTailFacts, Zenon
<1>5. outbox' = Append(outbox, x) /\ x.event = 0
  BY <1>1, <1>3, Zenon
<1>6. LoopTypes'
  <2>1. outbox' \in Seq(Result)
    BY <1>3, <1>5, <1>t, AppendFacts, Zenon
  <2> QED
    BY <1>1, <1>4, <1>t, <2>1, Zenon DEF LoopTypes
<1>7. OneResultBehind'
  BY <1>1, <1>2, <1>4, <1>t DEF OneResultBehind
<1>8. DispatchedIsComputed'
  <2>1. /\ DOMAIN outbox' = 1 .. Len(outbox') /\ DOMAIN outbox = 1 .. Len(outbox)
    BY <1>6, <1>t, DomainIs, Zenon DEF LoopTypes
  <2>2. /\ outbox'[Len(outbox) + 1] = x
        /\ \A j \in 1 .. Len(outbox) : outbox'[j] = outbox[j]
        /\ \A j \in 1 .. Len(outbox') : j \in 1 .. Len(outbox) \/ j = Len(outbox) + 1
    <3>1. x \in Result /\ outbox \in Seq(Result)
      BY <1>3, <1>t, Zenon
    <3>2. Append(outbox, x)[Len(outbox) + 1] = x
      BY <3>1
    <3>3. \A j \in 1 .. Len(outbox) : Append(outbox, x)[j] = outbox[j]
      BY <3>1
    <3>4. \A j \in 1 .. Len(Append(outbox, x)) : j \in 1 .. Len(outbox) \/ j = Len(outbox) + 1
      BY <3>1, AppendFacts, Zenon
    <3> QED
      BY <3>2, <3>3, <3>4, <1>5, Zenon
  <2> QED
    BY <2>1, <2>2, <1>5, Zenon DEF LoopIInv, DispatchedIsComputed
<1>9. Control'
  BY <1>1 DEF Control
<1> QED
  BY <1>6, <1>7, <1>8, <1>9, Zenon DEF LoopIInv

\* An attention result gets a new event, for its permutation.
Permuting(q, r, n) ==
    /\ Len(r) = Len(q) /\ 1 \in 1 .. Len(q)
    /\ r[1].kind = q[1].kind /\ r[1].batch = q[1].batch /\ r[1].event = n /\ r[1].topk = NoSlot
    /\ \A j \in 1 .. Len(q) : j # 1 => r[j] = q[j]

(* The permutation of an attention result is launched.                       *)
LEMMA PermuteLoops ==
    ASSUME LoopIInv, PostProcess, Head(result_queue).kind = "attn"
    PROVE  /\ LoopIInv'
           /\ Permuting(result_queue, result_queue', Len(stream'))
           /\ result_queue[1].event = 0
           /\ \/ \E z : Takes(stream, stream', idx, idx', z)
              \/ Idle(stream, stream', idx, idx')
           /\ ring = "topk" => idx' = idx
           /\ UNCHANGED <<at, outbox, ring>>
<1>1. /\ pc = "post" /\ last_batch /\ Head(result_queue).event = 0
      /\ Launch(<<{"mapping"}>>)
      /\ result_queue' = [result_queue EXCEPT ![1].event = Len(stream'), ![1].topk = NoSlot]
      /\ pc' = "permute"
      /\ UNCHANGED <<last_batch, outbox, forward_batch, at, end_flag>>
  <2>1. "attn" # "expert"
    OBVIOUS
  <2> QED
    BY <2>1, Zenon DEF PostProcess
<1>t. /\ LoopTypes /\ result_queue \in Seq(Result) /\ outbox \in Seq(Result)
      /\ forward_batch \in BOOLEAN
  BY Zenon DEF LoopIInv, LoopTypes
<1>2. result_queue # <<>> /\ Len(result_queue) = 1 + (IF forward_batch THEN 1 ELSE 0)
  BY <1>1, ResultThere, Zenon
<1>3. /\ stream' \in Seq(Slot \cup {NoSlot}) /\ idx' \in Slot \cup {NoSlot}
      /\ UNCHANGED <<ring, real_sampler>>
      /\ IF ring \in {"mapping"} THEN \E z : Takes(stream, stream', idx, idx', z)
                                 ELSE Idle(stream, stream', idx, idx')
  BY <1>1, <1>t, LaunchOne, Zenon
<1>4. /\ Len(result_queue) \in Nat \ {0} /\ 1 \in 1 .. Len(result_queue)
      /\ Head(result_queue) = result_queue[1] /\ result_queue[1] \in Result
  BY <1>2, <1>t, HeadTailFacts, Zenon
<1>5. PICK n \in Nat : n = Len(stream')
  BY <1>3, DomainIs, Zenon
<1>6. PICK x : x = [result_queue[1] EXCEPT !.event = n, !.topk = NoSlot]
  BY Zenon
<1>7. /\ x \in Result
      /\ x.kind = result_queue[1].kind /\ x.batch = result_queue[1].batch
      /\ x.event = n /\ x.topk = NoSlot
  BY <1>4, <1>5, <1>6, ZenonT(30) DEF Result
<1>8. result_queue' = [result_queue EXCEPT ![1] = x]
  BY <1>1, <1>5, <1>6, <1>4, <1>t, ZenonT(30)
<1>9. /\ result_queue' \in Seq(Result) /\ Len(result_queue') = Len(result_queue)
      /\ result_queue'[1] = x
      /\ \A j \in 1 .. Len(result_queue) : j # 1 => result_queue'[j] = result_queue[j]
  BY <1>7, <1>8, <1>4, <1>t
<1>10. Permuting(result_queue, result_queue', Len(stream'))
  BY <1>4, <1>5, <1>7, <1>9, Zenon DEF Permuting
<1>11. LoopTypes'
  BY <1>1, <1>3, <1>9, <1>t, Zenon DEF LoopTypes
<1>12. OneResultBehind' /\ Control'
  BY <1>1, <1>2, <1>9, <1>t DEF OneResultBehind, Control
<1>13. DispatchedIsComputed'
  BY <1>1, Zenon DEF LoopIInv, DispatchedIsComputed
<1>14. ring = "topk" => idx' = idx
  <2>1. "topk" \notin {"mapping"}
    OBVIOUS
  <2> QED
    BY <1>3, <2>1, Zenon DEF Idle
<1> QED
  BY <1>1, <1>3, <1>4, <1>10, <1>11, <1>12, <1>13, <1>14, Zenon DEF LoopIInv

\* Every event is one kernel closer.
Closer(q, r) ==
    /\ Len(r) = Len(q)
    /\ \A j \in 1 .. Len(q) :
          /\ r[j].kind = q[j].kind /\ r[j].batch = q[j].batch /\ r[j].topk = q[j].topk
          /\ r[j].event = IF q[j].event > 0 THEN q[j].event - 1 ELSE 0

(* A result with another event is a result, the same but for the event.      *)
LEMMA WithEvent ==
    ASSUME NEW K, NEW B, NEW T,
           NEW x \in [kind : K, batch : B, event : Nat, topk : T], NEW m \in Nat,
           NEW y, y = [x EXCEPT !.event = m]
    PROVE  /\ y \in [kind : K, batch : B, event : Nat, topk : T]
           /\ y.event = m /\ y.kind = x.kind /\ y.batch = x.batch /\ y.topk = x.topk
OBVIOUS

(* What becomes of a result when the GPU finishes a kernel.                  *)
LEMMA CloserOne ==
    ASSUME NEW u \in Result, NEW v, v = [u EXCEPT !.event = IF @ > 0 THEN @ - 1 ELSE 0]
    PROVE  /\ v \in Result
           /\ v.kind = u.kind /\ v.batch = u.batch /\ v.topk = u.topk
           /\ v.event = IF u.event > 0 THEN u.event - 1 ELSE 0
<1>1. PICK n : n = IF u.event > 0 THEN u.event - 1 ELSE 0
  BY Zenon
<1>2. n \in Nat
  BY <1>1 DEF Result
<1>3. v = [u EXCEPT !.event = n]
  BY <1>1, Zenon
<1>4. /\ v \in Result /\ v.event = n
      /\ v.kind = u.kind /\ v.batch = u.batch /\ v.topk = u.topk
  BY <1>2, <1>3, WithEvent DEF Result
<1> QED
  BY <1>1, <1>4, Zenon

(* What becomes of the results when the GPU finishes a kernel.               *)
LEMMA CloserIs ==
    ASSUME NEW q \in Seq(Result), NEW r,
           r = [i \in DOMAIN q |-> [q[i] EXCEPT !.event = IF @ > 0 THEN @ - 1 ELSE 0]]
    PROVE  r \in Seq(Result) /\ Closer(q, r)
<1>1. DOMAIN q = 1 .. Len(q) /\ Len(q) \in Nat
  OBVIOUS
<1>2. ASSUME NEW i \in 1 .. Len(q)
      PROVE  /\ r[i] \in Result
             /\ r[i].kind = q[i].kind /\ r[i].batch = q[i].batch /\ r[i].topk = q[i].topk
             /\ r[i].event = IF q[i].event > 0 THEN q[i].event - 1 ELSE 0
  <2>1. PICK u \in Result : u = q[i]
    OBVIOUS
  <2>2. PICK v : v = r[i]
    BY Zenon
  <2>3. v = [u EXCEPT !.event = IF @ > 0 THEN @ - 1 ELSE 0]
    BY <1>1, <2>1, <2>2, Zenon
  <2>4. /\ v \in Result
        /\ v.kind = u.kind /\ v.batch = u.batch /\ v.topk = u.topk
        /\ v.event = IF u.event > 0 THEN u.event - 1 ELSE 0
    BY <2>1, <2>3, CloserOne, ZenonT(30)
  <2> QED
    BY <2>1, <2>2, <2>4, Zenon
<1>3. r \in [1 .. Len(q) -> Result]
  BY <1>1, <1>2, Zenon
<1>4. r \in Seq(Result) /\ Len(r) = Len(q)
  BY <1>1, <1>3
<1> QED
  BY <1>2, <1>4, Zenon DEF Closer

(* The GPU finishes a kernel.                                                *)
LEMMA RetireLoops ==
    ASSUME LoopIInv, Retire
    PROVE  /\ LoopIInv'
           /\ Closer(result_queue, result_queue') /\ Closer(outbox, outbox')
           /\ stream # <<>> /\ stream' = Tail(stream)
           /\ UNCHANGED <<at, ring, idx>>
<1>1. /\ stream # <<>> /\ stream' = Tail(stream)
      /\ result_queue' = [i \in DOMAIN result_queue |->
            [result_queue[i] EXCEPT !.event = IF @ > 0 THEN @ - 1 ELSE 0]]
      /\ outbox' = [i \in DOMAIN outbox |->
            [outbox[i] EXCEPT !.event = IF @ > 0 THEN @ - 1 ELSE 0]]
      /\ UNCHANGED <<ring, idx, real_sampler, pc, forward_batch, last_batch, at, end_flag>>
  BY Zenon DEF Retire
<1>t. /\ LoopTypes /\ result_queue \in Seq(Result) /\ outbox \in Seq(Result)
      /\ stream \in Seq(Slot \cup {NoSlot})
  BY Zenon DEF LoopIInv, LoopTypes
<1>2. /\ result_queue' \in Seq(Result) /\ Closer(result_queue, result_queue')
      /\ outbox' \in Seq(Result) /\ Closer(outbox, outbox')
  BY <1>1, <1>t, CloserIs, Zenon
<1>3. stream' \in Seq(Slot \cup {NoSlot})
  BY <1>1, <1>t, HeadTailFacts, Zenon
<1>4. LoopTypes'
  BY <1>1, <1>2, <1>3, <1>t, Zenon DEF LoopTypes
<1>5. OneResultBehind' /\ Control'
  BY <1>1, <1>2, Zenon DEF LoopIInv, OneResultBehind, Control, Closer
<1>6. DispatchedIsComputed'
  <2>1. DOMAIN outbox' = 1 .. Len(outbox') /\ DOMAIN outbox = 1 .. Len(outbox)
    BY <1>2, <1>t, DomainIs, Zenon
  <2> SUFFICES ASSUME NEW j \in DOMAIN outbox' PROVE outbox'[j].event = 0
    BY Zenon DEF DispatchedIsComputed
  <2>2. j \in 1 .. Len(outbox)
    BY <2>1, <1>2, Zenon DEF Closer
  <2>3. outbox[j].event = 0
    BY <2>1, <2>2, Zenon DEF LoopIInv, DispatchedIsComputed
  <2>4. outbox'[j].event = IF outbox[j].event > 0 THEN outbox[j].event - 1 ELSE 0
    BY <2>2, <1>2, Zenon DEF Closer
  <2> QED
    BY <2>3, <2>4
<1> QED
  BY <1>1, <1>2, <1>4, <1>5, <1>6, Zenon DEF LoopIInv


(* A batch leaves the dispatcher.                                            *)
LEMMA SendLoops == ASSUME LoopIInv, SendOldest PROVE LoopIInv'
<1>1. /\ outbox # <<>> /\ outbox' = Tail(outbox)
      /\ at' = [q \in Req |-> IF q \in Head(outbox).batch THEN "away" ELSE at[q]]
      /\ UNCHANGED <<ring, idx, real_sampler, stream, pc, forward_batch, last_batch,
                     result_queue, end_flag>>
  BY Zenon DEF SendOldest, Move, gpuVars, loopVars
<1>t. LoopTypes /\ outbox \in Seq(Result)
  BY Zenon DEF LoopIInv, LoopTypes
<1>2. outbox' \in Seq(Result)
  BY <1>1, <1>t, HeadTailFacts, Zenon
<1>3. at' \in [Req -> {"new", "attn", "expert", "sample", "busy", "away", "done"}]
  BY <1>1, <1>t, Zenon DEF LoopTypes
<1>4. LoopTypes'
  BY <1>1, <1>2, <1>3, <1>t, Zenon DEF LoopTypes
<1>5. DispatchedIsComputed'
  <2>1. DOMAIN outbox' = 1 .. Len(outbox') /\ DOMAIN outbox = 1 .. Len(outbox)
    BY <1>2, <1>t, DomainIs, Zenon
  <2>2. \A j \in 1 .. Len(outbox') : j + 1 \in 1 .. Len(outbox) /\ outbox'[j] = outbox[j + 1]
    BY <1>1, <1>t, HeadTailFacts, Zenon
  <2> QED
    BY <2>1, <2>2, Zenon DEF LoopIInv, DispatchedIsComputed
<1> QED
  BY <1>1, <1>4, <1>5, Zenon DEF LoopIInv, OneResultBehind, Control

(* A request, new or back from the pipeline, waits at a layer.               *)
LEMMA WaitLoops ==
    ASSUME LoopIInv, NEW q \in Req, NEW kind \in {"attn", "expert", "sample"},
           Move({q}, kind), UNCHANGED <<gpuVars, loopVars, outbox>>
    PROVE  LoopIInv'
<1>1. UNCHANGED <<ring, idx, real_sampler, stream, pc, forward_batch, last_batch,
                  result_queue, end_flag, outbox>>
  BY Zenon DEF gpuVars, loopVars
<1>2. at' \in [Req -> {"new", "attn", "expert", "sample", "busy", "away", "done"}]
  BY Zenon DEF Move, LoopIInv, LoopTypes
<1>3. LoopTypes'
  BY <1>1, <1>2, Zenon DEF LoopIInv, LoopTypes
<1> QED
  BY <1>1, <1>3, Zenon DEF LoopIInv, OneResultBehind, DispatchedIsComputed, Control

(* The steps that launch and dispatch nothing.                               *)
LEMMA QuietLoops ==
    ASSUME LoopIInv, Sampled \/ NothingToRun \/ NoResult \/ Terminate \/ LoopEnds
    PROVE  LoopIInv' /\ UNCHANGED <<ring, idx, stream, result_queue, at, outbox>>
<1>1. UNCHANGED <<ring, idx, real_sampler, stream, result_queue, at, outbox>>
  BY Zenon DEF Sampled, NothingToRun, NoResult, Terminate, LoopEnds, gpuVars
<1>2. LoopTypes' /\ Control' /\ OneResultBehind'
  <2> USE <1>1 DEF LoopIInv, LoopTypes, OneResultBehind, Control
  <2>1. CASE Sampled
    BY <2>1 DEF Sampled
  <2>2. CASE NothingToRun
    BY <2>2, Zenon DEF NothingToRun
  <2>3. CASE NoResult
    BY <2>3 DEF NoResult, NextTurn
  <2>4. CASE Terminate
    BY <2>4 DEF Terminate
  <2>5. CASE LoopEnds
    BY <2>5 DEF LoopEnds
  <2> QED
    BY <2>1, <2>2, <2>3, <2>4, <2>5, Zenon
<1>3. DispatchedIsComputed'
  BY <1>1, Zenon DEF LoopIInv, DispatchedIsComputed
<1> QED
  BY <1>1, <1>2, <1>3, Zenon DEF LoopIInv

(* Every step keeps the loop one result behind.                              *)
LEMMA LoopNext == ASSUME LoopIInv, [Next]_vars PROVE LoopIInv'
<1>1. CASE \E kind \in {"attn", "expert"}, batch \in SUBSET Req : RunBatch(kind, batch)
  BY <1>1, RunBatchLoops, Zenon
<1>2. CASE \E batch, done \in SUBSET Req : SampleBatch(batch, done)
  BY <1>2, SampleBatchLoops, Zenon
<1>3. CASE Sampled \/ NothingToRun \/ NoResult \/ Terminate \/ LoopEnds
  BY <1>3, QuietLoops, Zenon
<1>4. CASE PostProcess
  <2>1. CASE Head(result_queue).kind = "attn"
    BY <2>1, <1>4, PermuteLoops, Zenon
  <2>2. CASE ~ Head(result_queue).kind = "attn"
    <3>1. /\ pc \in {"post", "permute"} /\ last_batch /\ Head(result_queue).event = 0
          /\ DispatchOldest /\ UNCHANGED <<gpuVars, forward_batch, at, end_flag>>
      BY <1>4, <2>2, Zenon DEF PostProcess
    <3> QED
      BY <3>1, DispatchLoops, Zenon
  <2> QED
    BY <2>1, <2>2, Zenon
<1>5. CASE Permuted
  <2>1. /\ pc \in {"post", "permute"} /\ last_batch /\ Head(result_queue).event = 0
        /\ DispatchOldest /\ UNCHANGED <<gpuVars, forward_batch, at, end_flag>>
    BY <1>5, Zenon DEF Permuted, LoopIInv, Control
  <2> QED
    BY <2>1, DispatchLoops, Zenon
<1>6. CASE Retire
  BY <1>6, RetireLoops, Zenon
<1>7. CASE SendOldest
  BY <1>7, SendLoops, Zenon
<1>8. CASE \E q \in Req : RecvNewRequest(q)
  <2>1. PICK q \in Req : Move({q}, "attn") /\ UNCHANGED <<gpuVars, loopVars, outbox>>
    BY <1>8, Zenon DEF RecvNewRequest
  <2>2. "attn" \in {"attn", "expert", "sample"}
    OBVIOUS
  <2> QED
    BY <2>1, <2>2, WaitLoops, Zenon
<1>9. CASE \E q \in Req, kind \in {"attn", "expert", "sample"} : Arrive(q, kind)
  <2>1. PICK q \in Req, kind \in {"attn", "expert", "sample"} :
           Move({q}, kind) /\ UNCHANGED <<gpuVars, loopVars, outbox>>
    BY <1>9, Zenon DEF Arrive
  <2> QED
    BY <2>1, WaitLoops, Zenon
<1>10. CASE UNCHANGED vars
  <2>1. UNCHANGED <<ring, idx, real_sampler, stream, pc, forward_batch, last_batch,
                    result_queue, end_flag, outbox, at>>
    BY <1>10, Zenon DEF vars, gpuVars, loopVars
  <2> QED
    BY <2>1, Zenon DEF LoopIInv, LoopTypes, OneResultBehind, DispatchedIsComputed, Control
<1> QED
  BY <1>1, <1>2, <1>3, <1>4, <1>5, <1>6, <1>7, <1>8, <1>9, <1>10, Zenon DEF Next, Turn

(* The overlapping loop is always exactly one result behind: where it looks  *)
(* at result_queue there is the result of the turn before, and that one      *)
(* only.                                                                     *)
THEOREM OneResultBehindAlways == Spec => []OneResultBehind
<1>1. LoopIInv => OneResultBehind
  BY Zenon DEF LoopIInv
<1> QED
  BY LoopInit, LoopNext, <1>1, PTL DEF Spec

(* What is put to the dispatcher has been computed, whatever was launched    *)
(* after it.                                                                 *)
THEOREM DispatchedIsComputedAlways == Spec => []DispatchedIsComputed
<1>1. LoopIInv => DispatchedIsComputed
  BY Zenon DEF LoopIInv
<1> QED
  BY LoopInit, LoopNext, <1>1, PTL DEF Spec


-----------------------------------------------------------------------------
\* A launched request is in one batch, and nowhere else.
Apart(r, o, w) ==
    /\ \A i \in 1 .. Len(r) : \A q \in r[i].batch : w[q] = "busy"
    /\ \A i \in 1 .. Len(o) : \A q \in o[i].batch : w[q] = "busy"
    /\ \A i, j \in 1 .. Len(r) : i # j => r[i].batch \cap r[j].batch = {}
    /\ \A i, j \in 1 .. Len(o) : i # j => o[i].batch \cap o[j].batch = {}
    /\ \A i \in 1 .. Len(r), j \in 1 .. Len(o) : r[i].batch \cap o[j].batch = {}

SameBatches(q, r) == Len(r) = Len(q) /\ \A j \in 1 .. Len(q) : r[j].batch = q[j].batch

(* Events that come closer leave the batches alone.                          *)
LEMMA ApartSame ==
    ASSUME NEW r, NEW o, NEW r2, NEW o2, NEW w,
           Apart(r, o, w), SameBatches(r, r2), SameBatches(o, o2)
    PROVE  Apart(r2, o2, w)
BY Zenon DEF Apart, SameBatches

(* A batch is a set of requests.                                             *)
LEMMA BatchOf ==
    ASSUME NEW q \in Seq(Result), NEW i \in 1 .. Len(q) PROVE q[i].batch \in SUBSET Req
<1>1. q[i] \in Result
  BY DomainIs, Zenon
<1>2. \A x \in Result : x.batch \in SUBSET Req
  BY DEF Result
<1> QED
  BY <1>1, <1>2, Zenon

(* Requests that are in no batch move without disturbing one.                *)
LEMMA ApartMove ==
    ASSUME NEW r \in Seq(Result), NEW o \in Seq(Result), NEW w, NEW w2,
           Apart(r, o, w), \A q \in Req : w[q] = "busy" => w2[q] = "busy"
    PROVE  Apart(r, o, w2)
<1>1. /\ \A i \in 1 .. Len(r) : r[i].batch \in SUBSET Req
      /\ \A i \in 1 .. Len(o) : o[i].batch \in SUBSET Req
  BY BatchOf, Zenon
<1> QED
  BY <1>1, Zenon DEF Apart

(* A batch of waiting requests is launched.                                  *)
LEMMA ApartRun ==
    ASSUME NEW r \in Seq(Result), NEW o, NEW w, NEW w2, NEW x \in Result,
           Apart(r, o, w), \A q \in x.batch : w[q] # "busy" /\ w2[q] = "busy",
           Apart(r, o, w2)
    PROVE  Apart(Append(r, x), o, w2)
<1>1. PICK s : s = Append(r, x)
  BY Zenon
<1>2. /\ \A i \in 1 .. Len(r) : s[i] = r[i]
      /\ s[Len(r) + 1] = x
      /\ \A i \in 1 .. Len(s) : i \in 1 .. Len(r) \/ i = Len(r) + 1
  BY <1>1
<1>3. \A i \in 1 .. Len(s) : \A q \in s[i].batch : w2[q] = "busy"
  BY <1>2, Zenon DEF Apart
<1>4. /\ \A i \in 1 .. Len(r) : r[i].batch \cap x.batch = {} /\ x.batch \cap r[i].batch = {}
      /\ \A i \in 1 .. Len(o) : x.batch \cap o[i].batch = {}
  BY Zenon DEF Apart
<1>5. \A i, j \in 1 .. Len(s) : i # j => s[i].batch \cap s[j].batch = {}
  BY <1>2, <1>4, Zenon DEF Apart
<1>6. \A i \in 1 .. Len(s), j \in 1 .. Len(o) : s[i].batch \cap o[j].batch = {}
  BY <1>2, <1>4, Zenon DEF Apart
<1> QED
  BY <1>1, <1>3, <1>5, <1>6, Zenon DEF Apart

(* The oldest batch goes to the dispatcher.                                  *)
LEMMA ApartDispatch ==
    ASSUME NEW r \in Seq(Result), NEW o \in Seq(Result), NEW w, Apart(r, o, w), r # <<>>
    PROVE  Apart(Tail(r), Append(o, Head(r)), w)
<1>1. PICK s : s = Tail(r)
  BY Zenon
<1>2. PICK p : p = Append(o, Head(r))
  BY Zenon
<1>3. /\ 1 \in 1 .. Len(r) /\ Head(r) = r[1] /\ r[1] \in Result
      /\ \A j \in 1 .. Len(s) : j + 1 \in 1 .. Len(r) /\ s[j] = r[j + 1]
  BY <1>1, HeadTailFacts, Zenon
<1>4. /\ \A i \in 1 .. Len(o) : p[i] = o[i]
      /\ p[Len(o) + 1] = r[1]
      /\ \A i \in 1 .. Len(p) : i \in 1 .. Len(o) \/ i = Len(o) + 1
  BY <1>2, <1>3
<1>5. \A i \in 1 .. Len(s) : \A q \in s[i].batch : w[q] = "busy"
  BY <1>3, Zenon DEF Apart
<1>6. \A i \in 1 .. Len(p) : \A q \in p[i].batch : w[q] = "busy"
  BY <1>3, <1>4, ZenonT(30) DEF Apart
<1>7. \A i, j \in 1 .. Len(s) : i # j => s[i].batch \cap s[j].batch = {}
  <2> SUFFICES ASSUME NEW i \in 1 .. Len(s), NEW j \in 1 .. Len(s), i # j
               PROVE  s[i].batch \cap s[j].batch = {}
    BY Zenon
  <2>1. i + 1 # j + 1
    OBVIOUS
  <2> QED
    BY <1>3, <2>1, ZenonT(30) DEF Apart
<1>8. /\ \A i \in 1 .. Len(o) : r[1].batch \cap o[i].batch = {} /\ o[i].batch \cap r[1].batch = {}
      /\ \A i \in 1 .. Len(s) : s[i].batch \cap r[1].batch = {}
  <2>1. \A i \in 1 .. Len(o) : r[1].batch \cap o[i].batch = {}
    BY <1>3, Zenon DEF Apart
  <2>2. \A i \in 1 .. Len(s) : i + 1 # 1
    OBVIOUS
  <2> QED
    BY <1>3, <2>1, <2>2, Zenon DEF Apart
<1>9. \A i, j \in 1 .. Len(p) : i # j => p[i].batch \cap p[j].batch = {}
  BY <1>4, <1>8, Zenon DEF Apart
<1>10. \A i \in 1 .. Len(s), j \in 1 .. Len(p) : s[i].batch \cap p[j].batch = {}
  BY <1>3, <1>4, <1>8, Zenon DEF Apart
<1> QED
  BY <1>1, <1>2, <1>5, <1>6, <1>7, <1>9, <1>10, Zenon DEF Apart

(* The dispatcher sends its oldest batch.                                    *)
LEMMA ApartSend ==
    ASSUME NEW r \in Seq(Result), NEW o \in Seq(Result), NEW w, NEW w2, Apart(r, o, w), o # <<>>,
           \A q \in Req : q \notin Head(o).batch => w2[q] = w[q]
    PROVE  Apart(r, Tail(o), w2)
<1>1. PICK s : s = Tail(o)
  BY Zenon
<1>3. /\ 1 \in 1 .. Len(o) /\ Head(o) = o[1] /\ o[1] \in Result
      /\ \A j \in 1 .. Len(s) : j + 1 \in 1 .. Len(o) /\ s[j] = o[j + 1]
  BY <1>1, HeadTailFacts, Zenon
<1>4. \A j \in 1 .. Len(s) : j + 1 # 1
  OBVIOUS
<1>2. /\ \A i \in 1 .. Len(r) : r[i].batch \in SUBSET Req
      /\ \A i \in 1 .. Len(o) : o[i].batch \in SUBSET Req
  BY BatchOf, Zenon
<1>5. \A i \in 1 .. Len(r) : \A q \in r[i].batch : w2[q] = "busy"
  BY <1>2, <1>3, Zenon DEF Apart
<1>6. \A i \in 1 .. Len(s) : \A q \in s[i].batch : w2[q] = "busy"
  <2> SUFFICES ASSUME NEW i \in 1 .. Len(s), NEW q \in s[i].batch PROVE w2[q] = "busy"
    BY Zenon
  <2>1. i + 1 \in 1 .. Len(o) /\ q \in o[i + 1].batch /\ i + 1 # 1
    BY <1>3, <1>4, Zenon
  <2>2. q \in Req /\ w[q] = "busy"
    BY <1>2, <2>1, Zenon DEF Apart
  <2>3. q \notin o[1].batch
    BY <1>3, <2>1, Zenon DEF Apart
  <2> QED
    BY <1>3, <2>2, <2>3, Zenon
<1>7. \A i, j \in 1 .. Len(s) : i # j => s[i].batch \cap s[j].batch = {}
  <2> SUFFICES ASSUME NEW i \in 1 .. Len(s), NEW j \in 1 .. Len(s), i # j
               PROVE  s[i].batch \cap s[j].batch = {}
    BY Zenon
  <2>1. i + 1 # j + 1
    OBVIOUS
  <2>2. /\ i + 1 \in 1 .. Len(o) /\ s[i] = o[i + 1]
        /\ j + 1 \in 1 .. Len(o) /\ s[j] = o[j + 1]
    BY <1>3, Zenon
  <2> QED
    BY <2>1, <2>2, Zenon DEF Apart
<1>8. \A i \in 1 .. Len(r), j \in 1 .. Len(s) : r[i].batch \cap s[j].batch = {}
  BY <1>3, Zenon DEF Apart
<1> QED
  BY <1>1, <1>5, <1>6, <1>7, <1>8, Zenon DEF Apart


-----------------------------------------------------------------------------
\* The kernels behind position e of a stream that read a slot of the ring.
Reads(s, e) == {p \in 1 .. Len(s) : p > e /\ s[p] # NoSlot}

(* There are finitely many of them.                                          *)
LEMMA ReadsFinite ==
    ASSUME NEW s \in Seq(Slot \cup {NoSlot}), NEW e \in Nat
    PROVE  /\ IsFiniteSet(Reads(s, e)) /\ Cardinality(Reads(s, e)) \in Nat
           /\ e >= Len(s) => Reads(s, e) = {}
<1>1. Len(s) \in Nat
  BY DomainIs, Zenon
<1>2. IsFiniteSet(1 .. Len(s))
  BY <1>1, FS_Interval
<1>3. Reads(s, e) \subseteq 1 .. Len(s)
  BY Zenon DEF Reads
<1>4. IsFiniteSet(Reads(s, e))
  BY <1>2, <1>3, FS_Subset, Zenon
<1>5. e >= Len(s) => Reads(s, e) = {}
  BY <1>1 DEF Reads
<1> QED
  BY <1>4, <1>5, FS_CardinalityType, Zenon

(* Kernels that take no slot do not count.                                   *)
LEMMA ReadsIdle ==
    ASSUME NEW s \in Seq(Slot \cup {NoSlot}), NEW t \in Seq(Slot \cup {NoSlot}), NEW i, NEW j,
           Idle(s, t, i, j), NEW e \in Nat
    PROVE  Reads(t, e) = Reads(s, e)
<1>1. Len(s) \in Nat /\ Len(t) \in Nat
  BY DomainIs, Zenon
<1> QED
  BY <1>1 DEF Reads, Idle

(* The one that takes a slot counts once, before its position.               *)
LEMMA ReadsTakes ==
    ASSUME NEW s \in Seq(Slot \cup {NoSlot}), NEW t \in Seq(Slot \cup {NoSlot}),
           NEW i \in Slot \cup {NoSlot}, NEW j, NEW z, Takes(s, t, i, j, z), NEW e \in Nat
    PROVE  IF e < z THEN Cardinality(Reads(t, e)) = Cardinality(Reads(s, e)) + 1
                    ELSE Reads(t, e) = {} /\ Reads(s, e) = {}
<1>1. Len(s) \in Nat /\ Len(t) \in Nat /\ z \in Nat
  <2>1. Len(s) \in Nat /\ Len(t) \in Nat
    BY DomainIs, Zenon
  <2> QED
    BY <2>1 DEF Takes
<1>2. j # NoSlot
  <2>1. get_one_handle(i) \in Slot
    BY NextSlot, Zenon
  <2> QED
    BY <2>1, EngineLoopAssumption DEF Takes, Slot, NoSlot
<1>3. CASE e < z
  <2>1. Reads(t, e) = Reads(s, e) \cup {z} /\ z \notin Reads(s, e)
    BY <1>1, <1>2, <1>3 DEF Takes, Reads
  <2>2. IsFiniteSet(Reads(s, e))
    BY ReadsFinite, Zenon
  <2> QED
    BY <1>3, <2>1, <2>2, FS_AddElement, Zenon
<1>4. CASE ~ e < z
  <2>1. Reads(t, e) = {} /\ Reads(s, e) = {}
    BY <1>1, <1>4 DEF Takes, Reads
  <2> QED
    BY <1>4, <2>1, Zenon
<1> QED
  BY <1>3, <1>4, Zenon

\* A launch.
Launches(s, t, i, j) == (\E z : Takes(s, t, i, j, z)) \/ Idle(s, t, i, j)

(* A launch adds at most one.                                                *)
LEMMA ReadsLaunch ==
    ASSUME NEW s \in Seq(Slot \cup {NoSlot}), NEW t \in Seq(Slot \cup {NoSlot}),
           NEW i \in Slot \cup {NoSlot}, NEW j, NEW e \in Nat,
           Launches(s, t, i, j)
    PROVE  Cardinality(Reads(t, e)) <= Cardinality(Reads(s, e)) + 1
<1>1. Cardinality(Reads(s, e)) \in Nat
  BY ReadsFinite, Zenon
<1>2. CASE Idle(s, t, i, j)
  <2>1. Reads(t, e) = Reads(s, e)
    BY <1>2, ReadsIdle, Zenon
  <2> QED
    BY <1>1, <2>1
<1>3. CASE \E z : Takes(s, t, i, j, z)
  <2>1. PICK z : Takes(s, t, i, j, z)
    BY <1>3, Zenon
  <2>2. IF e < z THEN Cardinality(Reads(t, e)) = Cardinality(Reads(s, e)) + 1
                 ELSE Reads(t, e) = {} /\ Reads(s, e) = {}
    BY <2>1, ReadsTakes, Zenon
  <2>3. \/ Cardinality(Reads(t, e)) = Cardinality(Reads(s, e)) + 1
        \/ Cardinality(Reads(t, e)) = Cardinality(Reads(s, e))
    BY <2>2, Zenon
  <2> QED
    BY <1>1, <2>3
<1> QED
  BY <1>2, <1>3, Zenon DEF Launches

(* When the oldest kernel finishes the others move up.                       *)
LEMMA ReadsTail ==
    ASSUME NEW s \in Seq(Slot \cup {NoSlot}), s # <<>>, NEW e \in Nat
    PROVE  Cardinality(Reads(Tail(s), e)) = Cardinality(Reads(s, e + 1))
<1> DEFINE S == Slot \cup {NoSlot}
<1> HIDE DEF S
<1>1. s \in Seq(S)
  BY Zenon DEF S
<1>2. /\ Len(s) \in Nat \ {0} /\ Len(Tail(s)) = Len(s) - 1
      /\ \A j \in 1 .. Len(Tail(s)) : j + 1 \in 1 .. Len(s) /\ Tail(s)[j] = s[j + 1]
      /\ Tail(s) \in Seq(S)
  BY <1>1, HeadTailFacts, Zenon
<1>3. IsFiniteSet(Reads(Tail(s), e))
  BY <1>2, ReadsFinite, Zenon DEF S
<1> DEFINE f == [p \in Reads(Tail(s), e) |-> p + 1]
<1>4. f \in Bijection(Reads(Tail(s), e), Reads(s, e + 1))
  <2>1. ASSUME NEW p \in Reads(Tail(s), e) PROVE p \in Int /\ p + 1 \in Reads(s, e + 1)
    BY <1>2 DEF Reads
  <2>2. ASSUME NEW p \in Reads(s, e + 1) PROVE p - 1 \in Reads(Tail(s), e) /\ p = (p - 1) + 1
    BY <1>2 DEF Reads
  <2>3. f \in [Reads(Tail(s), e) -> Reads(s, e + 1)]
    BY <2>1, Zenon
  <2>4. \A a, b \in Reads(Tail(s), e) : f[a] = f[b] => a = b
    BY <2>1
  <2>5. \A b \in Reads(s, e + 1) : \E a \in Reads(Tail(s), e) : f[a] = b
    BY <2>2
  <2> HIDE DEF f
  <2> QED
    BY <2>3, <2>4, <2>5, Zenon DEF Bijection, Injection, Surjection, IsInjective
<1>5. ExistsBijection(Reads(Tail(s), e), Reads(s, e + 1))
  BY <1>4, Zenon DEF ExistsBijection
<1> QED
  BY <1>3, <1>5, FS_Bijection


\* c slots before slot i, round the ring.
Back(i, c) == IF c <= i THEN i - c ELSE i - c + Slots

\* The kernels on the stream read consecutive slots up to the last one
\* handed out.
Ordered(s, i) ==
    \A p \in 1 .. Len(s) : s[p] # NoSlot =>
        i # NoSlot /\ s[p] = Back(i, Cardinality(Reads(s, p)))

(* Nearer the end of the stream fewer reads follow.                          *)
LEMMA ReadsShrink ==
    ASSUME NEW s \in Seq(Slot \cup {NoSlot}), NEW e \in Nat, NEW p \in 1 .. Len(s),
           e < p, s[p] # NoSlot
    PROVE  Cardinality(Reads(s, p)) < Cardinality(Reads(s, e))
<1>1. p \in Nat /\ Len(s) \in Nat
  <2>1. Len(s) \in Nat
    BY DomainIs, Zenon
  <2> QED
    BY <2>1
<1>2. Reads(s, p) \subseteq Reads(s, e) /\ p \in Reads(s, e) /\ p \notin Reads(s, p)
  BY <1>1 DEF Reads
<1>3. /\ IsFiniteSet(Reads(s, e)) /\ Cardinality(Reads(s, e)) \in Nat
      /\ IsFiniteSet(Reads(s, p)) /\ Cardinality(Reads(s, p)) \in Nat
  BY <1>1, ReadsFinite, Zenon
<1>4. Cardinality(Reads(s, p) \cup {p}) = Cardinality(Reads(s, p)) + 1
  BY <1>2, <1>3, FS_AddElement, Zenon
<1>5. Reads(s, p) \cup {p} \subseteq Reads(s, e)
  BY <1>2, Zenon
<1>6. Cardinality(Reads(s, p) \cup {p}) <= Cardinality(Reads(s, e))
  BY <1>3, <1>5, FS_Subset, Zenon
<1> QED
  BY <1>3, <1>4, <1>6

(* The order survives a launch while no more reads are open than slots.      *)
LEMMA OrderedLaunch ==
    ASSUME NEW s \in Seq(Slot \cup {NoSlot}), NEW t \in Seq(Slot \cup {NoSlot}),
           NEW i \in Slot \cup {NoSlot}, NEW j,
           Launches(s, t, i, j),
           Ordered(s, i), Cardinality(Reads(s, 0)) <= Slots
    PROVE  Ordered(t, j)
<1>0. Len(s) \in Nat /\ Len(t) \in Nat
  BY DomainIs, Zenon
<1> SUFFICES ASSUME NEW p \in 1 .. Len(t), t[p] # NoSlot
             PROVE  j # NoSlot /\ t[p] = Back(j, Cardinality(Reads(t, p)))
  BY Zenon DEF Ordered
<1>1. p \in Nat
  BY <1>0
<1>2. CASE Idle(s, t, i, j)
  <2>1. p \in 1 .. Len(s) /\ t[p] = s[p] /\ j = i
    BY <1>0, <1>2 DEF Idle
  <2>2. Reads(t, p) = Reads(s, p)
    BY <1>1, <1>2, ReadsIdle, Zenon
  <2> QED
    BY <2>1, <2>2, Zenon DEF Ordered
<1>3. ASSUME NEW z, Takes(s, t, i, j, z)
      PROVE  j # NoSlot /\ t[p] = Back(j, Cardinality(Reads(t, p)))
  <2>1. j = get_one_handle(i) /\ t[z] = j /\ z \in 1 .. Len(t) /\ z > Len(s)
    BY <1>3, Zenon DEF Takes
  <2>2. j \in Slot /\ j = IF i = Slots - 1 THEN 0 ELSE i + 1
    BY <2>1, NextSlot, Zenon
  <2>3. j # NoSlot /\ j \in Nat
    BY <2>2, EngineLoopAssumption DEF Slot, NoSlot
  <2>4. CASE p = z
    <3>1. Reads(t, p) = {}
      <4>1. ~ p < z
        BY <2>4, <1>1
      <4> QED
        BY <1>1, <1>3, <4>1, ReadsTakes, Zenon
    <3>2. Cardinality(Reads(t, p)) = 0
      BY <3>1, FS_EmptySet, Zenon
    <3>3. Back(j, 0) = j
      BY <2>3 DEF Back
    <3> QED
      BY <2>1, <2>3, <2>4, <3>2, <3>3, Zenon
  <2>5. CASE p # z
    <3>1. p \in 1 .. Len(s) /\ t[p] = s[p] /\ p < z
      BY <1>0, <1>3, <2>5 DEF Takes
    <3>2. PICK c \in Nat : c = Cardinality(Reads(s, p))
      <4>1. Cardinality(Reads(s, p)) \in Nat
        BY <1>1, ReadsFinite, Zenon
      <4> QED
        BY <4>1, Zenon
    <3>3. Cardinality(Reads(t, p)) = c + 1
      BY <1>1, <1>3, <3>1, <3>2, ReadsTakes, Zenon
    <3>4. i # NoSlot /\ s[p] = Back(i, c)
      BY <3>1, <3>2, Zenon DEF Ordered
    <3>5. c < Slots
      <4>1. Cardinality(Reads(s, p)) < Cardinality(Reads(s, 0))
        BY <3>1, <1>1, ReadsShrink
      <4>2. Cardinality(Reads(s, 0)) \in Nat
        BY ReadsFinite, Zenon
      <4> QED
        BY <3>2, <4>1, <4>2, EngineLoopAssumption, SMTT(30)
    <3>6. Back(j, c + 1) = Back(i, c)
      <4>1. i \in Int /\ i >= 0 /\ i <= Slots - 1 /\ Slots \in Int /\ c \in Int /\ c >= 0
        BY <3>2, <3>4, EngineLoopAssumption DEF Slot
      <4>2. CASE i = Slots - 1
        BY <2>2, <3>5, <4>1, <4>2 DEF Back
      <4>3. CASE i # Slots - 1
        BY <2>2, <3>5, <4>1, <4>3 DEF Back
      <4> QED
        BY <4>2, <4>3, Zenon
    <3> QED
      BY <2>3, <3>1, <3>3, <3>4, <3>6, Zenon
  <2> QED
    BY <2>4, <2>5, Zenon
<1> QED
  BY <1>2, <1>3, Zenon DEF Launches

(* The order survives the end of the oldest kernel.                          *)
LEMMA OrderedTail ==
    ASSUME NEW s \in Seq(Slot \cup {NoSlot}), NEW i, Ordered(s, i), s # <<>>
    PROVE  Ordered(Tail(s), i)
<1> DEFINE S == Slot \cup {NoSlot}
<1>1. s \in Seq(S)
  BY Zenon
<1>2. /\ Len(s) \in Nat \ {0} /\ Len(Tail(s)) = Len(s) - 1
      /\ \A j \in 1 .. Len(Tail(s)) : j + 1 \in 1 .. Len(s) /\ Tail(s)[j] = s[j + 1]
  <2> HIDE DEF S
  <2> QED
    BY <1>1, HeadTailFacts, Zenon
<1> SUFFICES ASSUME NEW p \in 1 .. Len(Tail(s)), Tail(s)[p] # NoSlot
             PROVE  i # NoSlot /\ Tail(s)[p] = Back(i, Cardinality(Reads(Tail(s), p)))
  BY Zenon DEF Ordered
<1>3. p + 1 \in 1 .. Len(s) /\ Tail(s)[p] = s[p + 1]
  BY <1>2, Zenon
<1>4. p \in Nat
  BY <1>2
<1>5. Cardinality(Reads(Tail(s), p)) = Cardinality(Reads(s, p + 1))
  BY <1>4, ReadsTail, Zenon
<1>6. i # NoSlot /\ s[p + 1] = Back(i, Cardinality(Reads(s, p + 1)))
  BY <1>3, Zenon DEF Ordered
<1> QED
  BY <1>3, <1>5, <1>6, Zenon

(* Consecutive slots differ while no more reads are open than slots.         *)
LEMMA OrderedDistinct ==
    ASSUME NEW s \in Seq(Slot \cup {NoSlot}), NEW i \in Slot \cup {NoSlot}, Ordered(s, i),
           Cardinality(Reads(s, 0)) <= Slots,
           NEW p \in 1 .. Len(s), NEW r \in 1 .. Len(s), p < r, s[p] # NoSlot, s[r] # NoSlot
    PROVE  s[p] # s[r]
<1>1. p \in Nat /\ r \in Nat /\ p > 0
  <2>1. Len(s) \in Nat
    BY DomainIs, Zenon
  <2> QED
    BY <2>1
<1>2. PICK c \in Nat : c = Cardinality(Reads(s, p))
  <2>1. Cardinality(Reads(s, p)) \in Nat
    BY <1>1, ReadsFinite, Zenon
  <2> QED
    BY <2>1, Zenon
<1>3. PICK d \in Nat : d = Cardinality(Reads(s, r))
  <2>1. Cardinality(Reads(s, r)) \in Nat
    BY <1>1, ReadsFinite, Zenon
  <2> QED
    BY <2>1, Zenon
<1>4. d < c
  BY <1>1, <1>2, <1>3, ReadsShrink, Zenon
<1>5. c < Slots
  <2>1. Cardinality(Reads(s, p)) < Cardinality(Reads(s, 0))
    BY <1>1, ReadsShrink
  <2>2. Cardinality(Reads(s, 0)) \in Nat
    BY ReadsFinite
  <2> QED
    BY <1>2, <2>1, <2>2, EngineLoopAssumption
<1>6. i # NoSlot /\ s[p] = Back(i, c) /\ s[r] = Back(i, d)
  BY <1>2, <1>3, Zenon DEF Ordered
<1>7. Back(i, c) # Back(i, d)
  BY <1>2, <1>3, <1>4, <1>5, <1>6, EngineLoopAssumption DEF Back, Slot
<1> QED
  BY <1>6, <1>7, Zenon


-----------------------------------------------------------------------------
\* Requests that account for a read behind position e: sampled and not yet
\* launched again, or launched again with an event behind e,
Held(r, w, e) ==
    {q \in Req : \/ w[q] \in {"attn", "done"}
                 \/ \E i \in 1 .. Len(r) : r[i].event > e /\ q \in r[i].batch}

\* and the results that do, by their own event.
Due(r, e) == (IF 1 <= Len(r) /\ r[1].event > e THEN 1 ELSE 0)
           + (IF 2 <= Len(r) /\ r[2].event > e THEN 1 ELSE 0)

\* Every read behind e is accounted for, by a request or by a result.
InFlight(s, r, w) ==
    \A e \in Nat : Cardinality(Reads(s, e)) <= Cardinality(Held(r, w, e)) + Due(r, e)

(* The account is at most the requests and two results.                      *)
LEMMA HeldFinite ==
    ASSUME NEW r, NEW w, NEW e
    PROVE  /\ IsFiniteSet(Held(r, w, e)) /\ Cardinality(Held(r, w, e)) \in Nat
           /\ Cardinality(Held(r, w, e)) <= Cardinality(Req) /\ Cardinality(Req) \in Nat
           /\ Due(r, e) \in 0 .. 2
<1>1. IsFiniteSet(Req)
  BY EngineLoopAssumption, Zenon
<1>2. Held(r, w, e) \subseteq Req
  BY Zenon DEF Held
<1>3. IsFiniteSet(Held(r, w, e)) /\ Cardinality(Held(r, w, e)) <= Cardinality(Req)
  BY <1>1, <1>2, FS_Subset, Zenon
<1>4. Due(r, e) \in 0 .. 2
  BY DEF Due
<1> QED
  BY <1>1, <1>3, <1>4, FS_CardinalityType, Zenon

(* More requests account for more.                                           *)
LEMMA HeldGrows ==
    ASSUME NEW r, NEW w, NEW r2, NEW w2, NEW e, Held(r, w, e) \subseteq Held(r2, w2, e)
    PROVE  Cardinality(Held(r, w, e)) <= Cardinality(Held(r2, w2, e))
BY HeldFinite, FS_Subset, Zenon

\* The account before the end of the stream has grown.
Grows(t, r, w, r2, w2) ==
    \A e \in Nat : e < Len(t) =>
        Cardinality(Held(r2, w2, e)) + Due(r2, e) >= Cardinality(Held(r, w, e)) + Due(r, e) + 1

(* A launch keeps the account if it adds one to it.                          *)
LEMMA InFlightLaunch ==
    ASSUME NEW s \in Seq(Slot \cup {NoSlot}), NEW t \in Seq(Slot \cup {NoSlot}),
           NEW i \in Slot \cup {NoSlot}, NEW j,
           Launches(s, t, i, j),
           NEW r, NEW w, NEW r2, NEW w2, InFlight(s, r, w), Grows(t, r, w, r2, w2)
    PROVE  InFlight(t, r2, w2)
<1> SUFFICES ASSUME NEW e \in Nat
             PROVE  Cardinality(Reads(t, e)) <= Cardinality(Held(r2, w2, e)) + Due(r2, e)
  BY Zenon DEF InFlight
<1>1. PICK a \in Nat : a = Cardinality(Held(r, w, e)) + Due(r, e)
  BY HeldFinite
<1>2. PICK b \in Nat : b = Cardinality(Held(r2, w2, e)) + Due(r2, e)
  BY HeldFinite
<1>3. Cardinality(Reads(s, e)) \in Nat /\ Cardinality(Reads(t, e)) \in Nat
  BY ReadsFinite, Zenon
<1>4. Len(t) \in Nat
  BY DomainIs, Zenon
<1>5. CASE e < Len(t)
  <2>1. b >= a + 1
    <3>1. Cardinality(Held(r, w, e)) + Due(r, e) + 1 = a + 1
      BY <1>1, Zenon
    <3> QED
      BY <1>2, <1>5, <3>1, Zenon DEF Grows
  <2>2. Cardinality(Reads(s, e)) <= a
    BY <1>1, Zenon DEF InFlight
  <2>3. Cardinality(Reads(t, e)) <= Cardinality(Reads(s, e)) + 1
    BY ReadsLaunch, Zenon
  <2>4. Cardinality(Reads(t, e)) <= b
    BY <1>1, <1>2, <1>3, <2>1, <2>2, <2>3
  <2> QED
    BY <1>2, <2>4, Zenon
<1>6. CASE ~ e < Len(t)
  <2>1. Reads(t, e) = {}
    <3>1. e >= Len(t)
      BY <1>4, <1>6
    <3> QED
      BY <3>1, ReadsFinite, Zenon
  <2>2. Cardinality(Reads(t, e)) = 0
    BY <2>1, FS_EmptySet, Zenon
  <2>3. 0 <= b
    BY <1>2
  <2> QED
    BY <1>2, <2>2, <2>3, Zenon
<1> QED
  BY <1>5, <1>6, Zenon

(* Any other step keeps it if the account does not shrink.                   *)
LEMMA InFlightKept ==
    ASSUME NEW s \in Seq(Slot \cup {NoSlot}), NEW r, NEW w, NEW r2, NEW w2, InFlight(s, r, w),
           \A e \in Nat : Held(r, w, e) \subseteq Held(r2, w2, e) /\ Due(r2, e) = Due(r, e)
    PROVE  InFlight(s, r2, w2)
<1> SUFFICES ASSUME NEW e \in Nat
             PROVE  Cardinality(Reads(s, e)) <= Cardinality(Held(r2, w2, e)) + Due(r2, e)
  BY Zenon DEF InFlight
<1>1. Cardinality(Held(r, w, e)) <= Cardinality(Held(r2, w2, e)) /\ Due(r2, e) = Due(r, e)
  BY HeldGrows, Zenon
<1>2. /\ Cardinality(Held(r, w, e)) \in Nat /\ Cardinality(Held(r2, w2, e)) \in Nat
      /\ Due(r, e) \in 0 .. 2
  BY HeldFinite, Zenon
<1>3. Cardinality(Reads(s, e)) \in Nat
  BY ReadsFinite, Zenon
<1>4. Cardinality(Reads(s, e)) <= Cardinality(Held(r, w, e)) + Due(r, e)
  BY Zenon DEF InFlight
<1> QED
  BY <1>1, <1>2, <1>3, <1>4


(* What the events of a result are.                                          *)
LEMMA EventOf ==
    ASSUME NEW q \in Seq(Result), NEW i \in 1 .. Len(q) PROVE q[i].event \in Nat
<1>1. q[i] \in Result
  BY DomainIs, Zenon
<1>2. \A x \in Result : x.event \in Nat
  BY DEF Result
<1> QED
  BY <1>1, <1>2, Zenon

(* A batch of waiting requests is launched: its result adds one.             *)
LEMMA AccountRun ==
    ASSUME NEW r \in Seq(Result), Len(r) < 2, NEW w, NEW w2, NEW x \in Result, NEW e \in Nat,
           e < x.event, \A q \in Req : q \notin x.batch => w2[q] = w[q]
    PROVE  /\ Held(r, w, e) \subseteq Held(Append(r, x), w2, e)
           /\ Due(Append(r, x), e) = Due(r, e) + 1
<1>1. PICK s : s = Append(r, x)
  BY Zenon
<1>2. /\ \A i \in 1 .. Len(r) : s[i] = r[i] /\ i \in 1 .. Len(s)
      /\ s[Len(r) + 1] = x /\ Len(r) + 1 \in 1 .. Len(s)
      /\ Len(s) = Len(r) + 1 /\ Len(r) \in Nat
  BY <1>1
<1>3. x.event \in Nat
  BY DEF Result
<1>4. x.event > e
  BY <1>3
<1>5. Held(r, w, e) \subseteq Held(s, w2, e)
  BY <1>2, <1>4, Zenon DEF Held
<1>6. Due(s, e) = Due(r, e) + 1
  <2>1. CASE Len(r) = 0
    <3>1. s[1] = x /\ Len(s) = 1
      BY <1>2, <2>1
    <3> QED
      BY <1>4, <2>1, <3>1 DEF Due
  <2>2. CASE Len(r) = 1
    <3>1. s[1] = r[1] /\ s[2] = x /\ Len(s) = 2
      BY <1>2, <2>2
    <3> QED
      BY <1>4, <2>2, <3>1 DEF Due
  <2>3. Len(r) = 0 \/ Len(r) = 1
    <3>1. PICK n \in Nat : n = Len(r)
      BY <1>2, Zenon
    <3>2. n < 2
      BY <3>1, Zenon
    <3>3. n = 0 \/ n = 1
      BY <3>1, <3>2
    <3> QED
      BY <3>1, <3>3, Zenon
  <2> QED
    BY <2>1, <2>2, <2>3, Zenon
<1> QED
  BY <1>1, <1>5, <1>6, Zenon

(* The permutation of a computed attention result is launched: it adds one.  *)
LEMMA AccountPermute ==
    ASSUME NEW r \in Seq(Result), NEW r2, NEW w, NEW n \in Nat, NEW e \in Nat, e < n,
           Permuting(r, r2, n), r[1].event = 0
    PROVE  Held(r, w, e) \subseteq Held(r2, w, e) /\ Due(r2, e) = Due(r, e) + 1
<1>1. /\ Len(r2) = Len(r) /\ 1 \in 1 .. Len(r)
      /\ r2[1].batch = r[1].batch /\ r2[1].event = n
      /\ \A j \in 1 .. Len(r) : j # 1 => r2[j] = r[j]
  BY Zenon DEF Permuting
<1>2. n > e /\ ~ r[1].event > e
  OBVIOUS
<1>3. Held(r, w, e) \subseteq Held(r2, w, e)
  BY <1>1, <1>2, Zenon DEF Held
<1>4. Len(r) \in Nat
  BY DomainIs, Zenon
<1>5. 2 <= Len(r) => r2[2] = r[2]
  BY <1>1, <1>4
<1>6. Due(r2, e) = Due(r, e) + 1
  BY <1>1, <1>2, <1>4, <1>5 DEF Due
<1> QED
  BY <1>3, <1>6, Zenon

(* A computed result goes to the dispatcher: it accounted for nothing.       *)
LEMMA AccountDispatch ==
    ASSUME NEW r \in Seq(Result), r # <<>>, Len(r) <= 2, NEW w, NEW e \in Nat, Head(r).event = 0
    PROVE  Held(r, w, e) \subseteq Held(Tail(r), w, e) /\ Due(Tail(r), e) = Due(r, e)
<1>1. PICK s : s = Tail(r)
  BY Zenon
<1>2. /\ Len(r) \in Nat \ {0} /\ Head(r) = r[1] /\ Len(s) = Len(r) - 1
      /\ \A j \in 1 .. Len(s) : s[j] = r[j + 1]
  <2>1. Len(r) \in Nat \ {0} /\ Head(r) = r[1]
    BY HeadTailFacts, Zenon
  <2>2. Len(Tail(r)) = Len(r) - 1
    BY HeadTailFacts, Zenon
  <2>3. \A j \in 1 .. Len(Tail(r)) : Tail(r)[j] = r[j + 1]
    BY HeadTailFacts, ZenonT(30)
  <2> QED
    BY <1>1, <2>1, <2>2, <2>3, Zenon
<1>3. ~ r[1].event > e
  BY <1>2
<1>4. \A i \in 1 .. Len(r) : i # 1 => i - 1 \in 1 .. Len(s) /\ s[i - 1] = r[i]
  BY <1>2
<1>5. Held(r, w, e) \subseteq Held(s, w, e)
  BY <1>3, <1>4, Zenon DEF Held
<1>6. Due(s, e) = Due(r, e)
  <2>1. CASE Len(r) = 1
    BY <1>2, <1>3, <2>1 DEF Due
  <2>2. CASE Len(r) = 2
    <3>1. Len(s) = 1 /\ s[1] = r[2]
      BY <1>2, <2>2
    <3> QED
      BY <1>3, <2>2, <3>1 DEF Due
  <2>3. Len(r) = 1 \/ Len(r) = 2
    BY <1>2
  <2> QED
    BY <2>1, <2>2, <2>3, Zenon
<1> QED
  BY <1>1, <1>5, <1>6, Zenon

(* A kernel finishes: every event, and every position, is one nearer.        *)
LEMMA AccountRetire ==
    ASSUME NEW r \in Seq(Result), NEW r2, NEW w, NEW e \in Nat, Closer(r, r2)
    PROVE  Held(r, w, e + 1) \subseteq Held(r2, w, e) /\ Due(r2, e) = Due(r, e + 1)
<1>1. Len(r) \in Nat /\ Len(r2) = Len(r)
  BY DomainIs, Zenon DEF Closer
<1>2. ASSUME NEW i \in 1 .. Len(r)
      PROVE  r2[i].batch = r[i].batch /\ (r2[i].event > e <=> r[i].event > e + 1)
  <2>1. r[i].event \in Nat
    BY EventOf, Zenon
  <2>2. /\ r2[i].batch = r[i].batch
        /\ r2[i].event = IF r[i].event > 0 THEN r[i].event - 1 ELSE 0
    BY Zenon DEF Closer
  <2> QED
    BY <2>1, <2>2
<1>3. Held(r, w, e + 1) \subseteq Held(r2, w, e)
  BY <1>1, <1>2, Zenon DEF Held
<1>4. /\ 1 <= Len(r) => 1 \in 1 .. Len(r)
      /\ 2 <= Len(r) => 2 \in 1 .. Len(r)
  BY <1>1
<1>5. /\ (1 <= Len(r2) /\ r2[1].event > e) <=> (1 <= Len(r) /\ r[1].event > e + 1)
      /\ (2 <= Len(r2) /\ r2[2].event > e) <=> (2 <= Len(r) /\ r[2].event > e + 1)
  BY <1>1, <1>2, <1>4, Zenon
<1>6. Due(r2, e) = Due(r, e + 1)
  BY <1>5 DEF Due
<1> QED
  BY <1>3, <1>6, Zenon


-----------------------------------------------------------------------------
\* The expert ids still to be read: those of the newest result, if it has
\* any, are in the slot handed out last, those of the older one in another.
TopkOrder(r, i) ==
    /\ Len(r) = 1 => r[1].topk \in {NoSlot, i}
    /\ Len(r) = 2 => /\ r[2].topk \in {NoSlot, i}
                     /\ r[1].topk = NoSlot \/ r[1].topk # r[2].topk

(* A launch takes the next slot, or none.                                    *)
LEMMA TopkRun ==
    ASSUME NEW r \in Seq(Result), Len(r) < 2, NEW i, NEW j, TopkOrder(r, i), NEW x \in Result,
           (x.topk = NoSlot /\ j = i) \/ (x.topk = j /\ j # i)
    PROVE  TopkOrder(Append(r, x), j)
<1>1. PICK s : s = Append(r, x)
  BY Zenon
<1>2. /\ \A k \in 1 .. Len(r) : s[k] = r[k]
      /\ s[Len(r) + 1] = x /\ Len(s) = Len(r) + 1 /\ Len(r) \in Nat
  BY <1>1
<1>3. PICK n \in Nat : n = Len(r)
  BY <1>2, Zenon
<1>4. n = 0 \/ n = 1
  BY <1>3
<1>5. CASE n = 0
  <2>1. Len(s) = 1 /\ s[1] = x
    BY <1>2, <1>3, <1>5
  <2> QED
    BY <1>1, <2>1 DEF TopkOrder
<1>6. CASE n = 1
  <2>1. Len(s) = 2 /\ s[1] = r[1] /\ s[2] = x
    BY <1>2, <1>3, <1>6
  <2>2. r[1].topk \in {NoSlot, i}
    BY <1>3, <1>6, Zenon DEF TopkOrder
  <2> QED
    BY <1>1, <2>1, <2>2 DEF TopkOrder
<1> QED
  BY <1>4, <1>5, <1>6, Zenon

(* The permutation is the last to read the expert ids of its batch.          *)
LEMMA TopkPermute ==
    ASSUME NEW r, NEW r2, NEW n, NEW i, TopkOrder(r, i), Permuting(r, r2, n)
    PROVE  TopkOrder(r2, i)
<1>1. Len(r2) = Len(r) /\ r2[1].topk = NoSlot /\ \A j \in 1 .. Len(r) : j # 1 => r2[j] = r[j]
  BY Zenon DEF Permuting
<1>2. CASE Len(r) = 2
  <2>1. r2[2] = r[2]
    BY <1>1, <1>2
  <2>2. r[2].topk \in {NoSlot, i}
    BY <1>2, Zenon DEF TopkOrder
  <2> QED
    BY <1>1, <1>2, <2>1, <2>2, SMTT(30) DEF TopkOrder
<1>3. CASE Len(r) # 2
  BY <1>1, <1>3, Zenon DEF TopkOrder
<1> QED
  BY <1>2, <1>3, Zenon

(* The newest result is left.                                                *)
LEMMA TopkDispatch ==
    ASSUME NEW r \in Seq(Result), r # <<>>, NEW n \in Nat, n <= 2, Len(r) = n, NEW i, TopkOrder(r, i)
    PROVE  TopkOrder(Tail(r), i)
<1>1. PICK s : s = Tail(r)
  BY Zenon
<1>2. Len(r) \in Nat \ {0}
  BY HeadTailFacts, Zenon
<1>3. Len(s) = Len(r) - 1
  BY <1>1, HeadTailFacts, Zenon
<1>4. \A j \in 1 .. Len(s) : s[j] = r[j + 1]
  BY <1>1, HeadTailFacts, Zenon
<1>5. n = 1 \/ n = 2
  BY <1>2
<1>6. CASE n = 1
  <2>1. Len(s) = 0
    BY <1>3, <1>6
  <2>2. Len(s) # 1 /\ Len(s) # 2
    BY <2>1
  <2> QED
    BY <1>1, <2>2, Zenon DEF TopkOrder
<1>7. CASE n = 2
  <2>1. Len(s) = 1
    BY <1>3, <1>7
  <2>2. s[1] = r[2]
    BY <1>4, <2>1
  <2>3. r[2].topk \in {NoSlot, i}
    BY <1>7, Zenon DEF TopkOrder
  <2> QED
    BY <1>1, <2>1, <2>2, <2>3 DEF TopkOrder
<1> QED
  BY <1>5, <1>6, <1>7, Zenon

(* Events that come closer leave the expert ids alone.                       *)
LEMMA TopkCloser ==
    ASSUME NEW r, NEW r2, NEW i, TopkOrder(r, i), Closer(r, r2)
    PROVE  TopkOrder(r2, i)
<1>1. Len(r2) = Len(r) /\ \A j \in 1 .. Len(r) : r2[j].topk = r[j].topk
  BY Zenon DEF Closer
<1>2. /\ Len(r) = 1 => r2[1].topk = r[1].topk
      /\ Len(r) = 2 => r2[1].topk = r[1].topk /\ r2[2].topk = r[2].topk
  BY <1>1
<1> QED
  BY <1>1, <1>2, Zenon DEF TopkOrder

-----------------------------------------------------------------------------
SlotIInv ==
    /\ LoopIInv
    /\ Apart(result_queue, outbox, at)
    /\ InFlight(stream, result_queue, at)
    /\ Ordered(stream, idx)
    /\ ring = "topk" => TopkOrder(result_queue, idx)

(* No more reads are open than there are requests and results.               *)
LEMMA OpenReads ==
    ASSUME SlotIInv, Cardinality(Req) + 2 <= Slots
    PROVE  /\ Cardinality(Reads(stream, 0)) <= Slots
           /\ stream \in Seq(Slot \cup {NoSlot}) /\ idx \in Slot \cup {NoSlot}
           /\ result_queue \in Seq(Result) /\ outbox \in Seq(Result)
           /\ Len(result_queue) \in Nat /\ Len(result_queue) <= 2
           /\ pc = "top" => Len(result_queue) < 2
<1>1. /\ stream \in Seq(Slot \cup {NoSlot}) /\ idx \in Slot \cup {NoSlot}
      /\ result_queue \in Seq(Result) /\ outbox \in Seq(Result)
  BY Zenon DEF SlotIInv, LoopIInv, LoopTypes
<1>2. Cardinality(Reads(stream, 0)) <= Cardinality(Held(result_queue, at, 0)) + Due(result_queue, 0)
  <2>1. 0 \in Nat
    OBVIOUS
  <2> QED
    BY <2>1, Zenon DEF SlotIInv, InFlight
<1>3. /\ Cardinality(Held(result_queue, at, 0)) \in Nat
      /\ Cardinality(Held(result_queue, at, 0)) <= Cardinality(Req) /\ Cardinality(Req) \in Nat
      /\ Due(result_queue, 0) \in 0 .. 2
  BY HeldFinite, Zenon
<1>4. Cardinality(Reads(stream, 0)) \in Nat
  <2>1. 0 \in Nat
    OBVIOUS
  <2> QED
    BY <1>1, <2>1, ReadsFinite, Zenon
<1>5. Cardinality(Reads(stream, 0)) <= Slots
  BY <1>2, <1>3, <1>4, EngineLoopAssumption
<1>6. OneResultBehind
  BY Zenon DEF SlotIInv, LoopIInv
<1>7. /\ Len(result_queue) \in Nat /\ Len(result_queue) <= 2
      /\ pc = "top" => Len(result_queue) < 2
  BY <1>6 DEF OneResultBehind
<1> QED
  BY <1>1, <1>5, <1>7, Zenon


(* A batch is launched.                                                      *)
LEMMA SlotRun ==
    ASSUME SlotIInv, Cardinality(Req) + 2 <= Slots,
           NEW kind \in {"attn", "expert"}, NEW batch \in SUBSET Req, RunBatch(kind, batch)
    PROVE  SlotIInv'
<1>0. LoopIInv
  BY Zenon DEF SlotIInv
<1>1. LoopIInv'
  BY <1>0, RunBatchLoops, Zenon
<1>g. PICK g \in Gather :
         IF ring \in (IF kind = "attn" THEN {"stash", "topk"} ELSE {"experts"}) \cup g
         THEN \E z : Takes(stream, stream', idx, idx', z)
         ELSE Idle(stream, stream', idx, idx')
  BY <1>0, RunBatchLoops, Zenon
<1>2. PICK x \in Result : /\ result_queue' = Append(result_queue, x)
                          /\ x.batch = batch /\ x.event = Len(stream')
                          /\ x.topk = IF kind = "attn" /\ ring = "topk" THEN idx' ELSE NoSlot
  BY <1>0, RunBatchLoops, Zenon
<1>3. /\ pc = "top" /\ outbox' = outbox /\ ring' = ring
      /\ at' = [q \in Req |-> IF q \in batch THEN "busy" ELSE at[q]]
      /\ \A q \in batch : at[q] = kind
  BY Zenon DEF RunBatch, Move, Waiting, Launch
<1>t. /\ Cardinality(Reads(stream, 0)) <= Slots
      /\ stream \in Seq(Slot \cup {NoSlot}) /\ idx \in Slot \cup {NoSlot}
      /\ result_queue \in Seq(Result) /\ outbox \in Seq(Result) /\ Len(result_queue) < 2
  BY <1>3, OpenReads, Zenon
<1>u. stream' \in Seq(Slot \cup {NoSlot}) /\ idx' \in Slot \cup {NoSlot}
  BY <1>1, Zenon DEF LoopIInv, LoopTypes
<1>4. Launches(stream, stream', idx, idx')
  BY <1>g, Zenon DEF Launches
<1>5. Apart(result_queue', outbox', at')
  <2>1. kind # "busy"
    OBVIOUS
  <2>2. \A q \in Req : at[q] = "busy" => at'[q] = "busy"
    BY <1>3, Zenon
  <2>3. Apart(result_queue, outbox, at')
    BY <1>t, <2>2, ApartMove, Zenon DEF SlotIInv
  <2>4. \A q \in x.batch : at[q] # "busy" /\ at'[q] = "busy"
    BY <1>2, <1>3, <2>1, Zenon
  <2>5. Apart(Append(result_queue, x), outbox, at')
    BY <1>2, <1>t, <2>3, <2>4, ApartRun, Zenon DEF SlotIInv
  <2> QED
    BY <1>2, <1>3, <2>5, Zenon
<1>6. InFlight(stream', result_queue', at')
  <2>1. ASSUME NEW e \in Nat, e < Len(stream')
        PROVE  Cardinality(Held(result_queue', at', e)) + Due(result_queue', e)
                  >= Cardinality(Held(result_queue, at, e)) + Due(result_queue, e) + 1
    <3>1. \A q \in Req : q \notin x.batch => at'[q] = at[q]
      BY <1>2, <1>3, Zenon
    <3>2. /\ Held(result_queue, at, e) \subseteq Held(Append(result_queue, x), at', e)
          /\ Due(Append(result_queue, x), e) = Due(result_queue, e) + 1
      BY <1>2, <1>t, <2>1, <3>1, AccountRun, Zenon
    <3>3. /\ Cardinality(Held(result_queue, at, e)) <= Cardinality(Held(result_queue', at', e))
          /\ Due(result_queue', e) = Due(result_queue, e) + 1
      BY <1>2, <3>2, HeldGrows, Zenon
    <3>4. /\ Cardinality(Held(result_queue, at, e)) \in Nat /\ Due(result_queue, e) \in 0 .. 2
          /\ Cardinality(Held(result_queue', at', e)) \in Nat
      BY HeldFinite, Zenon
    <3> QED
      BY <3>3, <3>4
  <2>2. Grows(stream', result_queue, at, result_queue', at')
    BY <2>1, Zenon DEF Grows
  <2>3. InFlight(stream, result_queue, at)
    BY Zenon DEF SlotIInv
  <2> QED
    BY <1>4, <1>t, <1>u, <2>2, <2>3, InFlightLaunch, Zenon
<1>7. Ordered(stream', idx')
  BY <1>4, <1>t, <1>u, OrderedLaunch, Zenon DEF SlotIInv
<1>8. ring' = "topk" => TopkOrder(result_queue', idx')
  <2> SUFFICES ASSUME ring = "topk" PROVE TopkOrder(result_queue', idx')
    BY <1>3, Zenon
  <2>1. CASE kind = "attn"
    <3>1. x.topk = idx'
      BY <1>2, <2>1, Zenon
    <3>2. \E z : Takes(stream, stream', idx, idx', z)
      BY <1>g, <2>1, Zenon
    <3>3. idx' = get_one_handle(idx)
      BY <3>2, Zenon DEF Takes
    <3>4. idx' # idx
      BY <1>t, <3>3, NextSlot, Zenon
    <3> QED
      BY <1>2, <1>t, <3>1, <3>4, TopkRun, Zenon DEF SlotIInv
  <2>2. CASE kind # "attn"
    <3>1. x.topk = NoSlot
      BY <1>2, <2>2, Zenon
    <3>2. "topk" \notin {"experts"} \cup g
      BY DEF Gather
    <3>3. idx' = idx
      BY <1>g, <2>2, <3>2, Zenon DEF Idle
    <3> QED
      BY <1>2, <1>t, <3>1, <3>3, TopkRun, Zenon DEF SlotIInv
  <2> QED
    BY <2>1, <2>2, Zenon
<1> QED
  BY <1>1, <1>5, <1>6, <1>7, <1>8, Zenon DEF SlotIInv

(* A batch is sampled: one of its requests, at least, is new to the account. *)
LEMMA SlotSample ==
    ASSUME SlotIInv, Cardinality(Req) + 2 <= Slots,
           NEW batch \in SUBSET Req, NEW done \in SUBSET Req, SampleBatch(batch, done)
    PROVE  SlotIInv'
<1>0. LoopIInv
  BY Zenon DEF SlotIInv
<1>1. /\ LoopIInv' /\ UNCHANGED <<result_queue, outbox>>
      /\ Launches(stream, stream', idx, idx')
      /\ ring = "topk" => idx' = idx
  BY <1>0, SampleBatchLoops, Zenon DEF Launches
<1>2. /\ ring' = ring /\ batch # {} /\ done \subseteq batch
      /\ \A q \in batch : at[q] = "sample"
  BY Zenon DEF SampleBatch, Waiting, Launch
<1>3. \A q \in Req : at'[q] = CASE q \in done -> "done"
                                [] q \in batch \ done -> "attn"
                                [] q \notin batch -> at[q]
  BY Zenon DEF SampleBatch
<1>4. /\ \A q \in batch : at'[q] \in {"attn", "done"}
      /\ \A q \in Req : q \notin batch => at'[q] = at[q]
  BY <1>2, <1>3
<1>t. /\ Cardinality(Reads(stream, 0)) <= Slots
      /\ stream \in Seq(Slot \cup {NoSlot}) /\ idx \in Slot \cup {NoSlot}
      /\ result_queue \in Seq(Result) /\ outbox \in Seq(Result)
  BY OpenReads, Zenon
<1>u. stream' \in Seq(Slot \cup {NoSlot})
  BY <1>1, Zenon DEF LoopIInv, LoopTypes
<1>5. Apart(result_queue', outbox', at')
  <2>1. "sample" # "busy"
    OBVIOUS
  <2>2. \A q \in Req : at[q] = "busy" => at'[q] = "busy"
    BY <1>2, <1>4, <2>1, Zenon
  <2>3. Apart(result_queue, outbox, at')
    BY <1>t, <2>2, ApartMove, Zenon DEF SlotIInv
  <2> QED
    BY <1>1, <2>3, Zenon
<1>6. InFlight(stream', result_queue', at')
  <2>1. ASSUME NEW e \in Nat, e < Len(stream')
        PROVE  Cardinality(Held(result_queue', at', e)) + Due(result_queue', e)
                  >= Cardinality(Held(result_queue, at, e)) + Due(result_queue, e) + 1
    <3>1. PICK q \in batch : TRUE
      BY <1>2, Zenon
    <3>2. q \notin Held(result_queue, at, e)
      <4>1. "sample" \notin {"attn", "done"} /\ "sample" # "busy"
        OBVIOUS
      <4> QED
        BY <1>2, <3>1, <4>1, Zenon DEF Held, SlotIInv, Apart
    <3>3. Held(result_queue, at, e) \cup {q} \subseteq Held(result_queue', at', e)
      <4>1. "sample" \notin {"attn", "done"}
        OBVIOUS
      <4> QED
        BY <1>1, <1>2, <1>4, <3>1, <4>1, Zenon DEF Held
    <3>4. /\ Cardinality(Held(result_queue, at, e)) \in Nat /\ Due(result_queue, e) \in 0 .. 2
          /\ Cardinality(Held(result_queue', at', e)) \in Nat
          /\ IsFiniteSet(Held(result_queue, at, e)) /\ IsFiniteSet(Held(result_queue', at', e))
      BY HeldFinite, Zenon
    <3>5. Cardinality(Held(result_queue, at, e) \cup {q}) = Cardinality(Held(result_queue, at, e)) + 1
      BY <3>2, <3>4, FS_AddElement, Zenon
    <3>6. Cardinality(Held(result_queue, at, e) \cup {q}) <= Cardinality(Held(result_queue', at', e))
      BY <3>3, <3>4, FS_Subset, Zenon
    <3>7. Due(result_queue', e) = Due(result_queue, e)
      BY <1>1, Zenon
    <3> QED
      BY <3>4, <3>5, <3>6, <3>7
  <2>2. Grows(stream', result_queue, at, result_queue', at')
    BY <2>1, Zenon DEF Grows
  <2>3. InFlight(stream, result_queue, at)
    BY Zenon DEF SlotIInv
  <2> QED
    BY <1>1, <1>t, <1>u, <2>2, <2>3, InFlightLaunch, Zenon
<1>7. Ordered(stream', idx')
  BY <1>1, <1>t, <1>u, OrderedLaunch, Zenon DEF SlotIInv
<1>8. ring' = "topk" => TopkOrder(result_queue', idx')
  BY <1>1, <1>2, Zenon DEF SlotIInv
<1> QED
  BY <1>1, <1>5, <1>6, <1>7, <1>8, Zenon DEF SlotIInv


(* The permutation of an attention result is launched.                       *)
LEMMA SlotPermute ==
    ASSUME SlotIInv, Cardinality(Req) + 2 <= Slots,
           PostProcess, Head(result_queue).kind = "attn"
    PROVE  SlotIInv'
<1>0. LoopIInv
  BY Zenon DEF SlotIInv
<1>1. /\ LoopIInv' /\ Permuting(result_queue, result_queue', Len(stream'))
      /\ result_queue[1].event = 0
      /\ Launches(stream, stream', idx, idx')
      /\ ring = "topk" => idx' = idx
      /\ UNCHANGED <<at, outbox, ring>>
  BY <1>0, PermuteLoops, Zenon DEF Launches
<1>t. /\ Cardinality(Reads(stream, 0)) <= Slots
      /\ stream \in Seq(Slot \cup {NoSlot}) /\ idx \in Slot \cup {NoSlot}
      /\ result_queue \in Seq(Result)
  BY OpenReads, Zenon
<1>u. stream' \in Seq(Slot \cup {NoSlot}) /\ Len(stream') \in Nat
  <2>1. stream' \in Seq(Slot \cup {NoSlot})
    BY <1>1, Zenon DEF LoopIInv, LoopTypes
  <2> QED
    BY <2>1, DomainIs, Zenon
<1>5. Apart(result_queue', outbox', at')
  <2>1. SameBatches(result_queue, result_queue') /\ SameBatches(outbox, outbox)
    BY <1>1, Zenon DEF Permuting, SameBatches
  <2>2. Apart(result_queue', outbox, at)
    BY <2>1, ApartSame, Zenon DEF SlotIInv
  <2> QED
    BY <1>1, <2>2, Zenon
<1>6. InFlight(stream', result_queue', at')
  <2>1. ASSUME NEW e \in Nat, e < Len(stream')
        PROVE  Cardinality(Held(result_queue', at', e)) + Due(result_queue', e)
                  >= Cardinality(Held(result_queue, at, e)) + Due(result_queue, e) + 1
    <3>2. /\ Held(result_queue, at, e) \subseteq Held(result_queue', at, e)
          /\ Due(result_queue', e) = Due(result_queue, e) + 1
      BY <1>1, <1>t, <1>u, <2>1, AccountPermute, Zenon
    <3>3. Cardinality(Held(result_queue, at, e)) <= Cardinality(Held(result_queue', at', e))
      BY <1>1, <3>2, HeldGrows, Zenon
    <3>4. /\ Cardinality(Held(result_queue, at, e)) \in Nat /\ Due(result_queue, e) \in 0 .. 2
          /\ Cardinality(Held(result_queue', at', e)) \in Nat
      BY HeldFinite, Zenon
    <3> QED
      BY <3>2, <3>3, <3>4
  <2>2. Grows(stream', result_queue, at, result_queue', at')
    BY <2>1, Zenon DEF Grows
  <2>3. InFlight(stream, result_queue, at)
    BY Zenon DEF SlotIInv
  <2> QED
    BY <1>1, <1>t, <1>u, <2>2, <2>3, InFlightLaunch, Zenon
<1>7. Ordered(stream', idx')
  BY <1>1, <1>t, <1>u, OrderedLaunch, Zenon DEF SlotIInv
<1>8. ring' = "topk" => TopkOrder(result_queue', idx')
  BY <1>1, TopkPermute, Zenon DEF SlotIInv
<1> QED
  BY <1>1, <1>5, <1>6, <1>7, <1>8, Zenon DEF SlotIInv

(* A computed result is dispatched.                                          *)
LEMMA SlotDispatch ==
    ASSUME SlotIInv, Cardinality(Req) + 2 <= Slots, pc \in {"post", "permute"}, last_batch,
           Head(result_queue).event = 0, DispatchOldest,
           UNCHANGED <<gpuVars, forward_batch, at, end_flag>>
    PROVE  SlotIInv'
<1>0. LoopIInv
  BY Zenon DEF SlotIInv
<1>1. LoopIInv' /\ result_queue # <<>>
  BY <1>0, DispatchLoops, ResultThere, Zenon
<1>2. /\ outbox' = Append(outbox, Head(result_queue)) /\ result_queue' = Tail(result_queue)
      /\ stream' = stream /\ idx' = idx /\ ring' = ring /\ at' = at
  BY Zenon DEF DispatchOldest, gpuVars
<1>t. /\ stream \in Seq(Slot \cup {NoSlot})
      /\ result_queue \in Seq(Result) /\ outbox \in Seq(Result)
      /\ Len(result_queue) \in Nat /\ Len(result_queue) <= 2
  BY OpenReads, Zenon
<1>3. Apart(result_queue', outbox', at')
  <2>1. Apart(Tail(result_queue), Append(outbox, Head(result_queue)), at)
    BY <1>1, <1>t, ApartDispatch, Zenon DEF SlotIInv
  <2> QED
    BY <1>2, <2>1, Zenon
<1>4. InFlight(stream', result_queue', at')
  <2>1. \A e \in Nat : /\ Held(result_queue, at, e) \subseteq Held(Tail(result_queue), at, e)
                       /\ Due(Tail(result_queue), e) = Due(result_queue, e)
    BY <1>1, <1>t, AccountDispatch, Zenon
  <2>2. InFlight(stream, result_queue, at)
    BY Zenon DEF SlotIInv
  <2>3. InFlight(stream, Tail(result_queue), at)
    BY <1>t, <2>1, <2>2, InFlightKept, Zenon
  <2> QED
    BY <1>2, <2>3, Zenon
<1>5. Ordered(stream', idx')
  BY <1>2, Zenon DEF SlotIInv
<1>6. ring' = "topk" => TopkOrder(result_queue', idx')
  <2>1. PICK n \in Nat : n = Len(result_queue)
    BY <1>t, Zenon
  <2>2. ring = "topk" => TopkOrder(Tail(result_queue), idx)
    BY <1>1, <1>t, <2>1, TopkDispatch, Zenon DEF SlotIInv
  <2> QED
    BY <1>2, <2>2, Zenon
<1> QED
  BY <1>1, <1>3, <1>4, <1>5, <1>6, Zenon DEF SlotIInv

(* The GPU finishes a kernel.                                                *)
LEMMA SlotRetire ==
    ASSUME SlotIInv, Cardinality(Req) + 2 <= Slots, Retire
    PROVE  SlotIInv'
<1>0. LoopIInv
  BY Zenon DEF SlotIInv
<1>1. /\ LoopIInv'
      /\ Closer(result_queue, result_queue') /\ Closer(outbox, outbox')
      /\ stream # <<>> /\ stream' = Tail(stream)
      /\ UNCHANGED <<at, ring, idx>>
  BY <1>0, RetireLoops, Zenon
<1>t. stream \in Seq(Slot \cup {NoSlot}) /\ result_queue \in Seq(Result)
  BY OpenReads, Zenon
<1>2. Apart(result_queue', outbox', at')
  <2>1. SameBatches(result_queue, result_queue') /\ SameBatches(outbox, outbox')
    BY <1>1, Zenon DEF Closer, SameBatches
  <2>2. Apart(result_queue', outbox', at)
    BY <2>1, ApartSame, Zenon DEF SlotIInv
  <2> QED
    BY <1>1, <2>2, Zenon
<1>3. InFlight(stream', result_queue', at')
  <2> SUFFICES ASSUME NEW e \in Nat
               PROVE  Cardinality(Reads(stream', e))
                         <= Cardinality(Held(result_queue', at', e)) + Due(result_queue', e)
    BY Zenon DEF InFlight
  <2>0. e + 1 \in Nat
    OBVIOUS
  <2>1. Cardinality(Reads(stream', e)) = Cardinality(Reads(stream, e + 1))
    BY <1>1, <1>t, ReadsTail, Zenon
  <2>2. /\ Held(result_queue, at, e + 1) \subseteq Held(result_queue', at', e)
        /\ Due(result_queue', e) = Due(result_queue, e + 1)
    BY <1>1, <1>t, AccountRetire, Zenon
  <2>3. Cardinality(Reads(stream, e + 1))
           <= Cardinality(Held(result_queue, at, e + 1)) + Due(result_queue, e + 1)
    BY <2>0, Zenon DEF SlotIInv, InFlight
  <2>4. /\ Cardinality(Held(result_queue, at, e + 1)) \in Nat /\ Due(result_queue, e + 1) \in 0 .. 2
        /\ Cardinality(Held(result_queue', at', e)) \in Nat
        /\ IsFiniteSet(Held(result_queue', at', e))
    BY HeldFinite, Zenon
  <2>5. Cardinality(Held(result_queue, at, e + 1)) <= Cardinality(Held(result_queue', at', e))
    BY <2>2, <2>4, FS_Subset, Zenon
  <2>6. Cardinality(Reads(stream, e + 1)) \in Nat
    BY <1>t, <2>0, ReadsFinite, Zenon
  <2> QED
    BY <2>1, <2>2, <2>3, <2>4, <2>5, <2>6
<1>4. Ordered(stream', idx')
  BY <1>1, <1>t, OrderedTail, Zenon DEF SlotIInv
<1>5. ring' = "topk" => TopkOrder(result_queue', idx')
  BY <1>1, TopkCloser, Zenon DEF SlotIInv
<1> QED
  BY <1>1, <1>2, <1>3, <1>4, <1>5, Zenon DEF SlotIInv


(* Requests move where no batch is launched: to "away", from the dispatcher, *)
(* or to a layer, from outside.                                              *)
LEMMA SlotMove ==
    ASSUME SlotIInv, Cardinality(Req) + 2 <= Slots,
           LoopIInv', Apart(result_queue', outbox', at'),
           UNCHANGED <<ring, idx, stream, result_queue>>,
           \A q \in Req : at[q] \in {"attn", "done"} => at'[q] \in {"attn", "done"}
    PROVE  SlotIInv'
<1>t. stream \in Seq(Slot \cup {NoSlot})
  BY OpenReads, Zenon
<1>1. \A e \in Nat : /\ Held(result_queue, at, e) \subseteq Held(result_queue, at', e)
                     /\ Due(result_queue, e) = Due(result_queue, e)
  BY Zenon DEF Held
<1>2. InFlight(stream, result_queue, at)
  BY Zenon DEF SlotIInv
<1>3. InFlight(stream, result_queue, at')
  BY <1>t, <1>1, <1>2, InFlightKept, Zenon
<1>4. InFlight(stream', result_queue', at')
  BY <1>3, Zenon
<1>5. Ordered(stream', idx') /\ (ring' = "topk" => TopkOrder(result_queue', idx'))
  BY Zenon DEF SlotIInv
<1> QED
  BY <1>4, <1>5, Zenon DEF SlotIInv

(* A batch leaves the dispatcher.                                            *)
LEMMA SlotSend ==
    ASSUME SlotIInv, Cardinality(Req) + 2 <= Slots, SendOldest
    PROVE  SlotIInv'
<1>0. LoopIInv' /\ outbox # <<>> /\ outbox' = Tail(outbox)
  BY SendLoops, Zenon DEF SlotIInv, SendOldest
<1>1. /\ at' = [q \in Req |-> IF q \in Head(outbox).batch THEN "away" ELSE at[q]]
      /\ UNCHANGED <<ring, idx, stream, result_queue>>
  BY Zenon DEF SendOldest, Move, gpuVars, loopVars
<1>t. result_queue \in Seq(Result) /\ outbox \in Seq(Result)
  BY OpenReads, Zenon
<1>2. \A q \in Req : q \notin Head(outbox).batch => at'[q] = at[q]
  BY <1>1, Zenon
<1>3. Apart(result_queue, Tail(outbox), at')
  BY <1>0, <1>t, <1>2, ApartSend, Zenon DEF SlotIInv
<1>4. Apart(result_queue', outbox', at')
  BY <1>0, <1>1, <1>3, Zenon
<1>5. \A q \in Head(outbox).batch : at[q] = "busy"
  <2>1. 1 \in 1 .. Len(outbox) /\ Head(outbox) = outbox[1]
    BY <1>0, <1>t, HeadTailFacts, Zenon
  <2> QED
    BY <2>1, Zenon DEF SlotIInv, Apart
<1>6. "busy" \notin {"attn", "done"}
  OBVIOUS
<1>7. \A q \in Req : at[q] \in {"attn", "done"} => at'[q] \in {"attn", "done"}
  BY <1>2, <1>5, <1>6, Zenon
<1> QED
  BY <1>0, <1>1, <1>4, <1>7, SlotMove, Zenon

(* A request, new or back from the pipeline, waits at a layer.               *)
LEMMA SlotWait ==
    ASSUME SlotIInv, Cardinality(Req) + 2 <= Slots,
           NEW q \in Req, NEW kind \in {"attn", "expert", "sample"}, at[q] \in {"new", "away"},
           Move({q}, kind), UNCHANGED <<gpuVars, loopVars, outbox>>
    PROVE  SlotIInv'
<1>0. LoopIInv'
  BY WaitLoops, Zenon DEF SlotIInv
<1>1. UNCHANGED <<ring, idx, stream, result_queue, outbox>>
  BY Zenon DEF gpuVars, loopVars
<1>2. \A p \in Req : p # q => at'[p] = at[p]
  BY Zenon DEF Move
<1>3. at[q] # "busy" /\ at[q] \notin {"attn", "done"}
  OBVIOUS
<1>t. result_queue \in Seq(Result) /\ outbox \in Seq(Result)
  BY OpenReads, Zenon
<1>4. \A p \in Req : at[p] = "busy" => at'[p] = "busy"
  BY <1>2, <1>3, Zenon
<1>5. Apart(result_queue, outbox, at')
  BY <1>4, <1>t, ApartMove, Zenon DEF SlotIInv
<1>6. Apart(result_queue', outbox', at')
  BY <1>1, <1>5, Zenon
<1>7. \A p \in Req : at[p] \in {"attn", "done"} => at'[p] \in {"attn", "done"}
  BY <1>2, <1>3, Zenon
<1> QED
  BY <1>0, <1>1, <1>6, <1>7, SlotMove, Zenon

(* Initially nothing is launched.                                            *)
LEMMA SlotInit == Init => SlotIInv
<1> SUFFICES ASSUME Init PROVE SlotIInv
  OBVIOUS
<1>1. LoopIInv
  BY LoopInit, Zenon
<1>2. /\ result_queue = <<>> /\ outbox = <<>> /\ stream = <<>>
      /\ Len(result_queue) = 0 /\ Len(outbox) = 0 /\ Len(stream) = 0
  BY DEF Init
<1>3. Apart(result_queue, outbox, at) /\ Ordered(stream, idx) /\ TopkOrder(result_queue, idx)
  BY <1>2 DEF Apart, Ordered, TopkOrder
<1>4. InFlight(stream, result_queue, at)
  <2> SUFFICES ASSUME NEW e \in Nat
               PROVE  Cardinality(Reads(stream, e))
                         <= Cardinality(Held(result_queue, at, e)) + Due(result_queue, e)
    BY Zenon DEF InFlight
  <2>1. Reads(stream, e) = {}
    BY <1>2 DEF Reads
  <2>2. Cardinality(Reads(stream, e)) = 0
    BY <2>1, FS_EmptySet, Zenon
  <2>3. Cardinality(Held(result_queue, at, e)) \in Nat /\ Due(result_queue, e) \in 0 .. 2
    BY HeldFinite, Zenon
  <2> QED
    BY <2>2, <2>3
<1> QED
  BY <1>1, <1>3, <1>4, Zenon DEF SlotIInv

(* Every step keeps the slots in order.                                      *)
LEMMA SlotNext ==
    ASSUME SlotIInv, Cardinality(Req) + 2 <= Slots, [Next]_vars
    PROVE  SlotIInv'
<1>1. CASE \E kind \in {"attn", "expert"}, batch \in SUBSET Req : RunBatch(kind, batch)
  BY <1>1, SlotRun, Zenon
<1>2. CASE \E batch, done \in SUBSET Req : SampleBatch(batch, done)
  BY <1>2, SlotSample, Zenon
<1>3. CASE Sampled \/ NothingToRun \/ NoResult \/ Terminate \/ LoopEnds
  <2>1. LoopIInv' /\ UNCHANGED <<ring, idx, stream, result_queue, at, outbox>>
    BY <1>3, QuietLoops, Zenon DEF SlotIInv
  <2> QED
    BY <2>1, Zenon DEF SlotIInv
<1>4. CASE PostProcess
  <2>1. CASE Head(result_queue).kind = "attn"
    BY <2>1, <1>4, SlotPermute, Zenon
  <2>2. CASE ~ Head(result_queue).kind = "attn"
    <3>1. /\ pc \in {"post", "permute"} /\ last_batch /\ Head(result_queue).event = 0
          /\ DispatchOldest /\ UNCHANGED <<gpuVars, forward_batch, at, end_flag>>
      BY <1>4, <2>2, Zenon DEF PostProcess
    <3> QED
      BY <3>1, SlotDispatch, Zenon
  <2> QED
    BY <2>1, <2>2, Zenon
<1>5. CASE Permuted
  <2>1. /\ pc \in {"post", "permute"} /\ last_batch /\ Head(result_queue).event = 0
        /\ DispatchOldest /\ UNCHANGED <<gpuVars, forward_batch, at, end_flag>>
    BY <1>5, Zenon DEF Permuted, SlotIInv, LoopIInv, Control
  <2> QED
    BY <2>1, SlotDispatch, Zenon
<1>6. CASE Retire
  BY <1>6, SlotRetire, Zenon
<1>7. CASE SendOldest
  BY <1>7, SlotSend, Zenon
<1>8. CASE \E q \in Req : RecvNewRequest(q)
  <2>1. PICK q \in Req : /\ at[q] = "new" /\ Move({q}, "attn")
                         /\ UNCHANGED <<gpuVars, loopVars, outbox>>
    BY <1>8, Zenon DEF RecvNewRequest
  <2>2. "attn" \in {"attn", "expert", "sample"}
    OBVIOUS
  <2>3. at[q] \in {"new", "away"}
    BY <2>1, Zenon
  <2> QED
    BY <2>1, <2>2, <2>3, SlotWait, Zenon
<1>9. CASE \E q \in Req, kind \in {"attn", "expert", "sample"} : Arrive(q, kind)
  <2>1. PICK q \in Req, kind \in {"attn", "expert", "sample"} :
           at[q] = "away" /\ Move({q}, kind) /\ UNCHANGED <<gpuVars, loopVars, outbox>>
    BY <1>9, Zenon DEF Arrive
  <2>2. at[q] \in {"new", "away"}
    BY <2>1, Zenon
  <2> QED
    BY <2>1, <2>2, SlotWait, Zenon
<1>10. CASE UNCHANGED vars
  <2>1. UNCHANGED <<ring, idx, stream, result_queue, at, outbox>>
    BY <1>10, Zenon DEF vars, gpuVars, loopVars
  <2>2. LoopIInv'
    BY LoopNext, Zenon DEF SlotIInv
  <2> QED
    BY <2>1, <2>2, Zenon DEF SlotIInv
<1> QED
  BY <1>1, <1>2, <1>3, <1>4, <1>5, <1>6, <1>7, <1>8, <1>9, <1>10, Zenon DEF Next, Turn

(* Slots in order are slots not yet reused.                                  *)
LEMMA SlotsDiffer ==
    ASSUME SlotIInv, Cardinality(Req) + 2 <= Slots PROVE SlotReadBeforeReuse
<1>t. /\ Cardinality(Reads(stream, 0)) <= Slots
      /\ stream \in Seq(Slot \cup {NoSlot}) /\ idx \in Slot \cup {NoSlot}
      /\ result_queue \in Seq(Result)
      /\ Len(result_queue) \in Nat /\ Len(result_queue) <= 2
  BY OpenReads, Zenon
<1>1. CASE ring = "topk"
  <2>1. Unread = [i \in DOMAIN result_queue |-> result_queue[i].topk]
    BY <1>1, Zenon DEF Unread
  <2>2. DOMAIN result_queue = 1 .. Len(result_queue)
    BY <1>t, DomainIs, Zenon
  <2>3. DOMAIN Unread = 1 .. Len(result_queue)
    BY <2>1, <2>2, Zenon
  <2>4. \A i \in 1 .. Len(result_queue) : Unread[i] = result_queue[i].topk
    BY <2>1, <2>2, Zenon
  <2> SUFFICES ASSUME NEW i \in 1 .. Len(result_queue), NEW j \in 1 .. Len(result_queue), i # j,
                      result_queue[i].topk # NoSlot
               PROVE  result_queue[i].topk # result_queue[j].topk
    BY <2>3, <2>4, Zenon DEF SlotReadBeforeReuse
  <2>5. Len(result_queue) = 2 /\ ((i = 1 /\ j = 2) \/ (i = 2 /\ j = 1))
    <3>1. PICK n \in Nat : n = Len(result_queue)
      BY <1>t, Zenon
    <3>2. n <= 2 /\ i \in 1 .. n /\ j \in 1 .. n
      BY <1>t, <3>1, Zenon
    <3>3. n = 2 /\ ((i = 1 /\ j = 2) \/ (i = 2 /\ j = 1))
      BY <3>1, <3>2
    <3> QED
      BY <3>1, <3>3, Zenon
  <2>6. result_queue[1].topk = NoSlot \/ result_queue[1].topk # result_queue[2].topk
    BY <1>1, <2>5, Zenon DEF SlotIInv, TopkOrder
  <2> QED
    BY <2>5, <2>6, Zenon
<1>2. CASE ring # "topk"
  <2>1. Unread = stream
    BY <1>2, Zenon DEF Unread
  <2>2. DOMAIN stream = 1 .. Len(stream) /\ Len(stream) \in Nat
    BY <1>t, DomainIs, Zenon
  <2> SUFFICES ASSUME NEW i \in 1 .. Len(stream), NEW j \in 1 .. Len(stream), i # j,
                      stream[i] # NoSlot
               PROVE  stream[i] # stream[j]
    BY <2>1, <2>2, Zenon DEF SlotReadBeforeReuse
  <2>3. CASE stream[j] = NoSlot
    BY <2>3, Zenon
  <2>4. CASE stream[j] # NoSlot
    <3>1. i < j \/ j < i
      BY <2>2
    <3>2. Ordered(stream, idx)
      BY Zenon DEF SlotIInv
    <3> QED
      BY <1>t, <2>4, <3>1, <3>2, OrderedDistinct, Zenon
  <2> QED
    BY <2>3, <2>4, Zenon
<1> QED
  BY <1>1, <1>2, Zenon

(* With two slots more than requests, no ring of index buffers writes over a *)
(* slot before the kernel or the CPU has read it, though get_one_handle has  *)
(* no fence: whatever the GPU's speed, each open read belongs to a request   *)
(* sampled and not launched again since, or to one of the two results the    *)
(* loop is behind with.                                                      *)
THEOREM SlotReadBeforeReuseAlways ==
    ASSUME Cardinality(Req) + 2 <= Slots
    PROVE  Spec => []SlotReadBeforeReuse
<1>1. SlotIInv /\ [Next]_vars => SlotIInv'
  BY SlotNext, Zenon
<1>2. SlotIInv => SlotReadBeforeReuse
  BY SlotsDiffer, Zenon
<1> QED
  BY SlotInit, <1>1, <1>2, PTL DEF Spec

=============================================================================
