------------------------------ MODULE Transport ------------------------------
(***************************************************************************)
(* MuDispatcher and MuPool over NCCL and the local channel.  Every engine   *)
(* has a dispatcher thread, which sends the parts of one batch after the    *)
(* other, and a pool thread, which receives from all engines.  A part is    *)
(* announced by a metadata message (ZMQ) and its tensor follows on the      *)
(* channel of the pair; nothing but their order relates the two.            *)
(*                                                                          *)
(* NCCL is taken at its least helpful: a send completes only together with  *)
(* the receive the peer has posted for it.  Which parts a batch is split    *)
(* into is the subject of MoEPipeline; here a batch is its list of peers.   *)
(***************************************************************************)
EXTENDS Integers, Sequences, FiniteSets, Functions

CONSTANTS
    Engine,
    MaxPending,     \* engine -> max_pending_sends_, from its configuration
    MaxSpin,        \* clean_pending_sends gives up above this (10000)
    MaxParts,       \* bound: parts put by one engine
    Quota,          \* bound: engine -> parts it puts
    BatchParts      \* engine -> how many parts its batches may be split into

ASSUME TransportAssumption ==
    /\ MaxPending \in [Engine -> Nat \ {0}] /\ MaxSpin \in Nat
    /\ MaxParts \in Nat /\ Quota \in [Engine -> 0 .. MaxParts]

Part == [src : Engine, dst : Engine, n : 1 .. MaxParts]

VARIABLES
    puts,           \* engine -> the peers of all the parts put so far
    send_queue,     \* engine -> batches put, each the sequence of its parts
    pc,             \* engine -> where the dispatcher is; "dead": process over
    parts,          \* engine -> parts of the current batch still to be sent
    spin_count,     \* engine -> cleans that found the oldest send not ready
    pending_sends,  \* engine -> sends whose tensor is kept alive, oldest first
    metas,          \* pair -> metadata messages under way
    tensors,        \* pair -> tensors on the channel, not yet received
    posted,         \* pair -> receives posted, not yet completed
    local_recv,     \* engine -> the local parts its pool thread is blocked on
    pending_recvs,  \* engine -> completed receives not yet processed
    processed       \* <<part announced, part whose tensor it got>>, in the pool

sendVars == <<puts, send_queue, pc, parts, spin_count, pending_sends>>
recvVars == <<posted, local_recv, pending_recvs, processed>>
vars == <<sendVars, metas, tensors, recvVars>>

Pair == Engine \X Engine
PairOf(x) == <<x.src, x.dst>>
IsLocal(x) == x.src = x.dst
Alive(e) == pc[e] # "dead"

Init ==
    /\ puts = [e \in Engine |-> <<>>]
    /\ send_queue = [e \in Engine |-> <<>>]
    /\ pc = [e \in Engine |-> "clean"]
    /\ parts = [e \in Engine |-> <<>>]
    /\ spin_count = [e \in Engine |-> 0]
    /\ pending_sends = [e \in Engine |-> <<>>]
    /\ metas = [c \in Pair |-> <<>>]
    /\ tensors = [c \in Pair |-> <<>>]
    /\ posted = [c \in Pair |-> <<>>]
    /\ local_recv = [e \in Engine |-> <<>>]
    /\ pending_recvs = [e \in Engine |-> {}]
    /\ processed = {}

-----------------------------------------------------------------------------
\* MuDispatcher

\* The parts a batch is split into, one for each peer of its route.  Their
\* number stands for the tokens of the part; the code has no such number.
Split(e, route) ==
    [i \in DOMAIN route |-> [src |-> e, dst |-> route[i], n |-> Len(puts[e]) + i]]

\* put: the engine thread queues a batch; it never waits.
Put(e, route) ==
    /\ Alive(e)
    /\ Len(route) \in BatchParts[e]
    /\ Len(puts[e]) + Len(route) <= Quota[e]
    /\ puts' = [puts EXCEPT ![e] = @ \o route]
    /\ send_queue' = [send_queue EXCEPT ![e] = Append(@, Split(e, route))]
    /\ UNCHANGED <<pc, parts, spin_count, pending_sends, metas, tensors, recvVars>>

\* cudaEventQuery on the event recorded behind the send.
Ready(x) == IsLocal(x) \/ x \notin Range(tensors[PairOf(x)])

\* The number of sends clean_pending_sends pops: it takes ready ones from the
\* front and stops at the first that is not.
Poppable(e) ==
    {k \in 0 .. Len(pending_sends[e]) :
        /\ \A i \in 1 .. k : Ready(pending_sends[e][i])
        /\ k < Len(pending_sends[e]) => ~Ready(pending_sends[e][k + 1])}

\* clean_pending_sends, at the top of the loop.  The counter restarts when
\* this function pops; a front that is not ready adds one, and one too many
\* is a failed assertion.  It throws, nothing in the thread catches it, and
\* so the whole process of the engine ends.
CleanPendingSends(e) ==
    \E popped \in Poppable(e) :
        LET left == SubSeq(pending_sends[e], popped + 1, Len(pending_sends[e]))
            spin == (IF popped = 0 THEN spin_count[e] ELSE 0) + (IF left = <<>> THEN 0 ELSE 1)
            fails == spin > MaxSpin
        IN  /\ pc[e] = "clean"
            /\ spin_count' = [spin_count EXCEPT ![e] = spin]
            /\ pending_sends' = [pending_sends EXCEPT ![e] = IF fails THEN <<>> ELSE left]
            /\ pc' = [pc EXCEPT ![e] = IF fails THEN "dead" ELSE "wait"]
            /\ UNCHANGED <<puts, send_queue, parts, metas, tensors, recvVars>>

\* Mutant: the metadata goes out before the pending sends are drained.
AnnounceFirst == <<"metadata", "drain", "tensor">>

\* The order of send_batch_nonblocking's statements.
SendOrder == <<"drain", "metadata", "tensor">>

\* The dispatcher goes on from one of them; after the last one the next part
\* follows, or the loop goes round.
StepOn(e) ==
    pc' = [pc EXCEPT ![e] =
              IF @ # SendOrder[Len(SendOrder)]
              THEN SendOrder[(CHOOSE i \in DOMAIN SendOrder : SendOrder[i] = @) + 1]
              ELSE IF Len(parts[e]) > 1 THEN Head(SendOrder) ELSE "clean"]

\* run: the next batch of the queue.
NextBatch(e) ==
    /\ pc[e] = "wait"
    /\ send_queue[e] # <<>>
    /\ parts' = [parts EXCEPT ![e] = Head(send_queue[e])]
    /\ send_queue' = [send_queue EXCEPT ![e] = Tail(@)]
    /\ pc' = [pc EXCEPT ![e] = Head(SendOrder)]
    /\ UNCHANGED <<puts, spin_count, pending_sends, metas, tensors, recvVars>>

\* Mutant: the bound is enforced without asking for the event.
DropOldest(e) ==
    /\ pc[e] = "drain"
    /\ pending_sends' = [pending_sends EXCEPT ![e] =
                            IF Len(@) >= MaxPending[e] THEN Tail(@) ELSE @]
    /\ StepOn(e)
    /\ UNCHANGED <<puts, send_queue, parts, spin_count, metas, tensors, recvVars>>

\* drain_pending_sends_to(max_pending_sends_): spins until there is room.  A
\* send adds one, so there is at most one to pop.
DrainPendingSends(e) ==
    /\ pc[e] = "drain"
    /\ \/ /\ Len(pending_sends[e]) < MaxPending[e]
          /\ UNCHANGED pending_sends
       \/ /\ Len(pending_sends[e]) >= MaxPending[e]
          /\ Ready(Head(pending_sends[e]))
          /\ pending_sends' = [pending_sends EXCEPT ![e] = Tail(@)]
    /\ StepOn(e)
    /\ UNCHANGED <<puts, send_queue, parts, spin_count, metas, tensors, recvVars>>

\* The part is announced to the peer.
SendMetadata(e) ==
    /\ pc[e] = "metadata"
    /\ metas' = [metas EXCEPT ![PairOf(Head(parts[e]))] = Append(@, Head(parts[e]))]
    /\ StepOn(e)
    /\ UNCHANGED <<puts, send_queue, parts, spin_count, pending_sends, tensors, recvVars>>

\* The tensor goes on the channel; the batch is kept in pending_sends until
\* the event behind it is ready.
SendTensor(e) ==
    LET x == Head(parts[e])
    IN  /\ pc[e] = "tensor"
        /\ tensors' = [tensors EXCEPT ![PairOf(x)] = Append(@, x)]
        /\ pending_sends' = [pending_sends EXCEPT ![e] = Append(@, x)]
        /\ parts' = [parts EXCEPT ![e] = Tail(@)]
        /\ StepOn(e)
        /\ UNCHANGED <<puts, send_queue, spin_count, metas, recvVars>>

-----------------------------------------------------------------------------
\* The channels

\* External: NCCL joins the oldest send of a pair with its oldest receive.
\* Neither completes once the process at the other end is over.
Transfer(c) ==
    LET announced == Head(posted[c])
        got == Head(tensors[c])
    IN  /\ Alive(c[1]) /\ Alive(c[2])
        /\ posted[c] # <<>>
        /\ tensors[c] # <<>>
        /\ posted' = [posted EXCEPT ![c] = Tail(@)]
        /\ tensors' = [tensors EXCEPT ![c] = Tail(@)]
        /\ pending_recvs' = [pending_recvs EXCEPT ![c[2]] = @ \cup {<<announced, got>>}]
        /\ UNCHANGED <<sendVars, metas, local_recv, processed>>

-----------------------------------------------------------------------------
\* MuPool::run

\* Mutant: the newest receive is posted in front.
PostInFront(x) == posted' = [posted EXCEPT ![PairOf(x)] = <<x>> \o @]

\* recv_batch on a NCCL channel.
PostRecv(x) == posted' = [posted EXCEPT ![PairOf(x)] = Append(@, x)]

\* recv_metadata: a metadata message of engine s.  A local part blocks the
\* thread in recv_batch until its tensor is there; any other is posted.
RecvMetadata(e, s) ==
    LET x == Head(metas[<<s, e>>])
    IN  /\ Alive(e)
        /\ local_recv[e] = <<>>
        /\ metas[<<s, e>>] # <<>>
        /\ metas' = [metas EXCEPT ![<<s, e>>] = Tail(@)]
        /\ \/ /\ IsLocal(x)
              /\ local_recv' = [local_recv EXCEPT ![e] = <<x>>]
              /\ UNCHANGED posted
           \/ /\ ~IsLocal(x)
              /\ PostRecv(x)
              /\ UNCHANGED local_recv
        /\ UNCHANGED <<sendVars, tensors, pending_recvs, processed>>

\* TensorLocalChannel::recv_batch has its tensor; process_batch.
RecvLocal(e) ==
    /\ Alive(e)
    /\ local_recv[e] # <<>>
    /\ tensors[<<e, e>>] # <<>>
    /\ local_recv' = [local_recv EXCEPT ![e] = <<>>]
    /\ tensors' = [tensors EXCEPT ![<<e, e>>] = Tail(@)]
    /\ processed' = processed \cup {<<Head(local_recv[e]), Head(tensors[<<e, e>>])>>}
    /\ UNCHANGED <<sendVars, metas, posted, pending_recvs>>

\* A completed receive is processed, in whatever order they complete.
ProcessRecv(e, x) ==
    /\ Alive(e)
    /\ local_recv[e] = <<>>
    /\ x \in pending_recvs[e]
    /\ pending_recvs' = [pending_recvs EXCEPT ![e] = @ \ {x}]
    /\ processed' = processed \cup {x}
    /\ UNCHANGED <<sendVars, metas, tensors, posted, local_recv>>

-----------------------------------------------------------------------------
\* The peers of a batch's parts, in the order they are sent.
Route == UNION {[1 .. n -> Engine] : n \in 1 .. MaxParts}

Dispatcher(e) ==
    CleanPendingSends(e) \/ NextBatch(e) \/ DrainPendingSends(e) \/ SendMetadata(e) \/ SendTensor(e)

Pool(e) ==
    \/ RecvLocal(e)
    \/ \E s \in Engine : RecvMetadata(e, s)
    \/ \E x \in pending_recvs[e] : ProcessRecv(e, x)

Next ==
    \/ \E e \in Engine, route \in Route : Put(e, route)
    \/ \E e \in Engine : Dispatcher(e) \/ Pool(e)
    \/ \E c \in Pair : Transfer(c)

\* Both threads of an engine run for ever and do what is there to do, and
\* NCCL completes a matched pair.
Fairness ==
    /\ \A e \in Engine : WF_vars(Dispatcher(e)) /\ WF_vars(Pool(e))
    /\ \A c \in Pair : WF_vars(Transfer(c))

Spec == Init /\ [][Next]_vars /\ Fairness

-----------------------------------------------------------------------------
(* Metadata and tensor travel separately and carry no common number: that a *)
(* batch enters the pool with its own tokens rests on both sides keeping    *)
(* the order of each pair, whatever the others do in between.               *)
PairedWithOwnTensor == \A x \in processed : x[1] = x[2]

(* While it lives, the dispatcher holds the tensor of every NCCL send still *)
(* under way, so that its memory is not reused, and never more than         *)
(* max_pending_sends of them.                                               *)
SourcesKeptAlive ==
    \A e \in Engine :
        /\ Alive(e) => \A d \in Engine \ {e} :
                                Range(tensors[<<e, d>>]) \subseteq Range(pending_sends[e])
        /\ Len(pending_sends[e]) <= MaxPending[e]

(* At most max_pending_sends parts are announced to other engines and not   *)
(* yet looked at by their pools, although nothing limits the metadata queue *)
(* itself: this is what the UCX ring, which can overflow, relies on.        *)
AnnouncedIsBounded ==
    \A e \in Engine :
        Cardinality(UNION {Range(metas[<<e, d>>]) : d \in Engine \ {e}}) <= MaxPending[e]

Sent == {x \in Part : x.n \in DOMAIN puts[x.src] /\ puts[x.src][x.n] = x.dst}
Delivered == {x[1] : x \in processed}

Promise == INSTANCE Link WITH
              Batches <- Part, sent <- Sent, delivered <- Delivered, lost <- {}

(* Every part put is processed by the peer's pool, and once, unless the     *)
(* assertion of clean_pending_sends has ended an engine; even then, none is *)
(* processed twice or made up.  (An engine puts Quota[e] parts, so time and *)
(* again all that was put has arrived.)  Dispatcher and pool of two engines *)
(* never wait for each other for ever: a dispatcher waits (for a peer's     *)
(* pool) only before it has announced the next part, so a pool thread       *)
(* blocked on a local part is never blocked on its peers.                   *)
ImplementsLink ==
    /\ Promise!LinkInit /\ [][Promise!LinkNext]_(Promise!linkVars)
    /\ []<>(Sent \subseteq Delivered \/ \E e \in Engine : ~Alive(e))

=============================================================================
