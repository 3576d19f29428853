------------------------------ MODULE SpscRing -------------------------------
(***************************************************************************)
(* SpscRing of ucxq.hpp: a ring buffer between one producer and one         *)
(* consumer without a lock.  Every load and store of head_, tail_ and       *)
(* buffer_ is a step of its own; the release/acquire pairs of the code make *)
(* them appear in this order.  One slot stays empty, so that head = tail    *)
(* means empty.                                                             *)
(***************************************************************************)
EXTENDS Integers, Sequences

CONSTANTS
    Item,
    None,       \* an empty message
    Capacity    \* of buffer_, at least two (1024)

ASSUME RingAssumption == Capacity \in Nat \ {0, 1} /\ None \notin Item

VARIABLES
    head, tail, buffer,
    enq,        \* producer: "idle", "check", "store", "publish"
    item,       \* what it is enqueueing
    deq,        \* consumer: "idle", "check", "take", "free"
    accepted,   \* history: the items try_enqueue returned true for, in order
    received    \* history: the items try_dequeue returned, in order

ringVars == <<head, tail, buffer, enq, item, deq, accepted, received>>

Index == 0 .. Capacity - 1

RingInit ==
    /\ head = 0 /\ tail = 0
    /\ buffer = [i \in Index |-> None]
    /\ enq = "idle" /\ item = None
    /\ deq = "idle"
    /\ accepted = <<>> /\ received = <<>>

\* (i + 1) & capacity_mask_
After(i) == IF i = Capacity - 1 THEN 0 ELSE i + 1

-----------------------------------------------------------------------------
\* try_enqueue

BeginEnqueue(x) ==
    /\ enq = "idle"
    /\ enq' = "check" /\ item' = x
    /\ UNCHANGED <<head, tail, buffer, deq, accepted, received>>

\* Mutant: the tail is not looked at.
NeverFull == FALSE

\* Mutant: full one item early.
FullEarly == After(After(head)) = tail

Full == After(head) = tail

\* It loads tail_: false when full.
RejectFull ==
    /\ enq = "check" /\ Full
    /\ enq' = "idle" /\ item' = None
    /\ UNCHANGED <<head, tail, buffer, deq, accepted, received>>

FindRoom ==
    /\ enq = "check" /\ ~Full
    /\ enq' = "store"
    /\ UNCHANGED <<head, tail, buffer, item, deq, accepted, received>>

StoreItem ==
    /\ enq = "store"
    /\ buffer' = [buffer EXCEPT ![head] = item]
    /\ enq' = "publish"
    /\ UNCHANGED <<head, tail, item, deq, accepted, received>>

\* The store of head_: from here the consumer may see the item.
Publish ==
    /\ enq = "publish"
    /\ head' = After(head)
    /\ accepted' = Append(accepted, item)
    /\ enq' = "idle" /\ item' = None
    /\ UNCHANGED <<tail, buffer, deq, received>>

-----------------------------------------------------------------------------
\* try_dequeue

BeginDequeue ==
    /\ deq = "idle"
    /\ deq' = "check"
    /\ UNCHANGED <<head, tail, buffer, enq, item, accepted, received>>

RejectEmpty ==
    /\ deq = "check" /\ tail = head
    /\ deq' = "idle"
    /\ UNCHANGED <<head, tail, buffer, enq, item, accepted, received>>

FindItem ==
    /\ deq = "check" /\ tail # head
    /\ deq' = "take"
    /\ UNCHANGED <<head, tail, buffer, enq, item, accepted, received>>

\* The move leaves an empty message behind.
TakeItem ==
    /\ deq = "take"
    /\ received' = Append(received, buffer[tail])
    /\ buffer' = [buffer EXCEPT ![tail] = None]
    /\ deq' = "free"
    /\ UNCHANGED <<head, tail, enq, item, accepted>>

FreeSlot ==
    /\ deq = "free"
    /\ tail' = After(tail)
    /\ deq' = "idle"
    /\ UNCHANGED <<head, buffer, enq, item, accepted, received>>

Enqueuing == RejectFull \/ FindRoom \/ StoreItem \/ Publish
Dequeuing == BeginDequeue \/ RejectEmpty \/ FindItem \/ TakeItem \/ FreeSlot

RingNext == (\E x \in Item : BeginEnqueue(x)) \/ Enqueuing \/ Dequeuing

RingSpec == RingInit /\ [][RingNext]_ringVars

-----------------------------------------------------------------------------
\* The members of the ring have their types.
RingTypeOK ==
    /\ head \in Index /\ tail \in Index
    /\ buffer \in [Index -> Item \cup {None}]
    /\ enq \in {"idle", "check", "store", "publish"}
    /\ item \in Item \cup {None}
    /\ deq \in {"idle", "check", "take", "free"}
    /\ accepted \in Seq(Item) /\ received \in Seq(Item)

(* What the consumer got is what the producer put, in order, nothing lost,  *)
(* repeated or read before it was stored; and at most Capacity - 1 items    *)
(* are under way.                                                           *)
FirstInFirstOut ==
    /\ Len(received) <= Len(accepted)
    /\ \A i \in 1 .. Len(received) : received[i] = accepted[i]
    /\ Len(accepted) - Len(received) <= Capacity - 1

=============================================================================
