------------------------------ MODULE UcxQueue -------------------------------
(***************************************************************************)
(* FanInQueueSender and FanInQueueReceiver: the metadata queue over UCX.    *)
(* Senders send one message at a time and wait for it (waitReq).  The       *)
(* receiver's progress thread probes for messages and puts them into the    *)
(* ring; a small one is there at once, a large one arrives later, in a      *)
(* callback the same thread runs.  The pool thread takes from the ring.     *)
(***************************************************************************)
EXTENDS SpscRing, FiniteSets, Functions

CONSTANTS
    Sender,
    Spins,      \* attempts to enqueue before the message is given up (64)
    Windows,    \* values of window to consider
    MaxMsgs,    \* bound: messages of one sender
    MaxErrors   \* bound: messages UCX reports an error for

\* The items of the ring.
Message == [from : Sender, n : 1 .. MaxMsgs]

ASSUME UcxAssumption ==
    /\ Item = Message /\ IsFiniteSet(Sender)
    /\ MaxMsgs \in Nat /\ MaxErrors \in Nat /\ Windows \subseteq Nat /\ Spins \in Nat \ {0}

VARIABLES
    window,     \* bound: messages of one sender not yet taken by the pool
    nsent,      \* sender -> messages sent
    waiting,    \* senders in waitReq
    wire,       \* sender -> <<message, large>> not yet probed, in order
    late,       \* large messages probed, whose data is not there yet
    spin,       \* attempts made to enqueue item
    dropped,    \* messages given up because the ring is full
    discarded,  \* messages UCX reported an error for, on either side
    running     \* the receiving process lives

netVars == <<window, nsent, waiting, wire, late, discarded>>
ucxVars == <<ringVars, netVars, spin, dropped, running>>

UcxInit ==
    /\ RingInit
    /\ window \in Windows
    /\ nsent = [s \in Sender |-> 0]
    /\ waiting = {}
    /\ wire = [s \in Sender |-> <<>>]
    /\ late = {}
    /\ spin = 0
    /\ dropped = {} /\ discarded = {}
    /\ running = TRUE

Taken(s) == {i \in DOMAIN received : received[i].from = s}
GivenUp(s) == {m \in dropped \cup discarded : m.from = s}

\* Mutant: the request is not waited for.
WaitsNever(s, large) == waiting' = waiting

\* waitReq: a large message completes for its sender only with its callback.
WaitReq(s, large) == waiting' = waiting \cup (IF large THEN {s} ELSE {})

\* FanInQueueSender::send.  The code has no window: that a sender has at
\* most so many messages not yet taken is an assumption on its callers.
Send(s, large) ==
    LET m == [from |-> s, n |-> nsent[s] + 1]
    IN  /\ s \notin waiting
        /\ nsent[s] < MaxMsgs
        /\ nsent[s] - Cardinality(Taken(s)) - Cardinality(GivenUp(s)) < window
        /\ nsent' = [nsent EXCEPT ![s] = @ + 1]
        /\ wire' = [wire EXCEPT ![s] = Append(@, <<m, large>>)]
        /\ WaitReq(s, large)
        /\ UNCHANGED <<ringVars, window, late, spin, dropped, discarded, running>>

\* UCX reports an error for m, and nobody looks at the message again.
Discard(m) ==
    /\ Cardinality(discarded) < MaxErrors
    /\ discarded' = discarded \cup {m}

\* waitReq leaves its loop on any status but UCS_INPROGRESS and looks at it no
\* further: a request that fails is a message lost without a word.
SendFails(s) ==
    /\ s \notin waiting
    /\ nsent[s] < MaxMsgs
    /\ nsent' = [nsent EXCEPT ![s] = @ + 1]
    /\ Discard([from |-> s, n |-> nsent[s] + 1])
    /\ UNCHANGED <<ringVars, window, waiting, wire, late, spin, dropped, running>>

\* progressThread: the next message of a sender is probed and received.
ProbeSmall(s) ==
    /\ running
    /\ wire[s] # <<>> /\ ~Head(wire[s])[2]
    /\ BeginEnqueue(Head(wire[s])[1])
    /\ wire' = [wire EXCEPT ![s] = Tail(@)]
    /\ spin' = 0
    /\ UNCHANGED <<window, nsent, waiting, late, dropped, discarded, running>>

ProbeLarge(s) ==
    /\ running
    /\ enq = "idle"
    /\ wire[s] # <<>> /\ Head(wire[s])[2]
    /\ late' = late \cup {Head(wire[s])[1]}
    /\ wire' = [wire EXCEPT ![s] = Tail(@)]
    /\ UNCHANGED <<ringVars, window, nsent, waiting, spin, dropped, discarded, running>>

\* The receive of a probed message fails, when it is posted or at once: its
\* buffer is freed.  The sender of a large one may or may not be told.
ProbeFails(s) ==
    /\ running
    /\ enq = "idle"
    /\ wire[s] # <<>>
    /\ wire' = [wire EXCEPT ![s] = Tail(@)]
    /\ Discard(Head(wire[s])[1])
    /\ waiting' = waiting \/ (Head(wire[s])[2] /\ waiting' = waiting \ {s})
    /\ UNCHANGED <<ringVars, window, nsent, late, spin, dropped, running>>

\* Mutant: the callback frees its buffer without enqueueing it.
CallbackFrees(m) ==
    /\ running
    /\ enq = "idle"
    /\ m \in late
    /\ late' = late \ {m}
    /\ waiting' = waiting \ {m.from}
    /\ UNCHANGED <<ringVars, window, nsent, wire, spin, dropped, discarded, running>>

\* onRecvCallback, from ucp_worker_progress: the data of a large message is
\* there, which completes the sender's request too.
onRecvCallback(m) ==
    /\ running
    /\ m \in late
    /\ BeginEnqueue(m)
    /\ late' = late \ {m}
    /\ waiting' = waiting \ {m.from}
    /\ spin' = 0
    /\ UNCHANGED <<window, nsent, wire, dropped, discarded, running>>

\* Its other branch: the receive failed, the buffer is freed and the message
\* is not enqueued.
CallbackFails(m) ==
    /\ running
    /\ enq = "idle"
    /\ m \in late
    /\ late' = late \ {m}
    /\ Discard(m)
    /\ waiting' = waiting \/ waiting' = waiting \ {m.from}
    /\ UNCHANGED <<ringVars, window, nsent, wire, spin, dropped, running>>

\* A failed try_enqueue is repeated,
TryAgain ==
    /\ running
    /\ enq = "check" /\ Full
    /\ spin + 1 < Spins
    /\ spin' = spin + 1
    /\ UNCHANGED <<ringVars, netVars, dropped, running>>

\* and given up after Spins attempts: an assertion, which ends the process,
\* or nothing at all where the build has assertions off.
Overflow ==
    /\ running
    /\ RejectFull
    /\ spin + 1 = Spins
    /\ dropped' = dropped \cup {item}
    /\ running' \in BOOLEAN
    /\ UNCHANGED <<netVars, spin>>

Ring(step) == running /\ step /\ UNCHANGED <<netVars, spin, dropped, running>>

Progress ==
    \/ \E s \in Sender : ProbeSmall(s) \/ ProbeLarge(s) \/ ProbeFails(s)
    \/ \E m \in late : onRecvCallback(m) \/ CallbackFails(m)
    \/ TryAgain
    \/ Overflow
    \/ Ring(FindRoom \/ StoreItem \/ Publish)

\* MuPool's recv_metadata: dequeue.
Pool == Ring(Dequeuing)

UcxNext ==
    \/ \E s \in Sender : SendFails(s) \/ \E large \in BOOLEAN : Send(s, large)
    \/ Progress
    \/ Pool

\* Progress thread and pool thread run; every sender's messages are probed
\* and the receive of a large one ends, with its data or with an error.
UcxFairness ==
    /\ WF_ucxVars(Progress) /\ WF_ucxVars(Pool)
    /\ \A s \in Sender :
          /\ SF_ucxVars(ProbeSmall(s) \/ ProbeLarge(s) \/ ProbeFails(s))
          /\ SF_ucxVars(\E m \in late : m.from = s /\ (onRecvCallback(m) \/ CallbackFails(m)))

UcxSpec == UcxInit /\ [][UcxNext]_ucxVars /\ UcxFairness

-----------------------------------------------------------------------------
(* The messages of one sender reach the pool in the order they were sent,   *)
(* large and small ones mixed, although the receiver handles them in two    *)
(* places: MuPool pairs metadata with tensors by this order alone.          *)
SenderOrder ==
    \A i, j \in DOMAIN received :
        i < j /\ received[i].from = received[j].from => received[i].n < received[j].n

(* The assertion "queue overflow" of the callback and the progress thread   *)
(* holds as long as the senders' windows together are at most the ring's    *)
(* capacity less two: one slot stays empty, and the consumer frees a slot   *)
(* only after it has taken the item.                                        *)
NoOverflow ==
    window * Cardinality(Sender) <= Capacity - 2 => dropped = {}

(* Every message sent is taken by the pool, unless that very message was     *)
(* given up in an overflow or UCX reported an error for it, or the overflow *)
(* assertion has ended the receiving process: no loss of one message, and   *)
(* no sender left waiting, keeps the others from the pool.                  *)
SentIsTaken ==
    \A m \in Message :
        m.n <= nsent[m.from] ~> (m \in Range(received) \cup dropped \cup discarded \/ ~running)

=============================================================================
