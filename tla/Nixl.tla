-------------------------------- MODULE Nixl --------------------------------
(***************************************************************************)
(* NixlContext and NixlChannel::send_impl: one engine sends batches to its  *)
(* peers by RDMA writes.  A write goes from a slot of the engine's send     *)
(* ring, shared by all peers, into a slot of the ring the peer keeps for    *)
(* this engine; the data notification 'D' travels with the write, and a     *)
(* credit 'C' gives the receive slot back.  Notifications are neither       *)
(* ordered nor timely, and nothing is retransmitted.  Batches are numbered  *)
(* 1, 2, ... in the order in which the dispatcher thread sends them.        *)
(*                                                                          *)
(* A batch is taken to fit a slot (NIXL_MAX_BATCH_BYTES): send_impl copies  *)
(* it into its send slot without looking, post_write asserts it afterwards. *)
(* The reader of arrivals is taken to mark a slot before it credits it;     *)
(* nothing in the code calls the two.                                       *)
(***************************************************************************)
EXTENDS Integers, Sequences, FiniteSetsExt

CONSTANTS
    Peers,
    SendRing,       \* NIXL_SEND_RING_SIZE (32)
    RecvRing,       \* NIXL_RECV_RING_SIZE (8)
    PostWorkers,    \* post_worker threads (4)
    MaxSends        \* bound: batches sent in a behaviour

ASSUME NixlAssumption ==
    /\ SendRing \in Nat \ {0} /\ RecvRing \in Nat \ {0}
    /\ PostWorkers \in Nat \ {0} /\ MaxSends \in Nat

SendSlots == 0..(SendRing - 1)
RecvSlots == 0..(RecvRing - 1)
Batch == 1..MaxSends

VARIABLES
    sending,                \* where the dispatcher thread is in send_impl
    num_sent,               \* batches numbered so far
    send_slot_busy, next_send_slot,
    send_buf, recv_buf,     \* slot -> the batch whose data it holds, 0 if none
    available_recv_slots, expected_credit_seq, next_seq,    \* per peer
    posts,                  \* batch -> its NixlPendingPost / PendingXfer
    notifs,                 \* notifications sent: any may arrive, again, at any time
    inflight_recv_seq, completed_recv_seq,  \* the peers' SlotState
    arrivals,               \* peer -> accepted batches it has not credited yet
    received                \* batch -> data its metadata was processed with

sendVars == <<sending, num_sent, next_send_slot, next_seq>>
recvVars == <<inflight_recv_seq, completed_recv_seq, arrivals, received>>
creditVars == <<available_recv_slots, expected_credit_seq>>
bufVars == <<send_slot_busy, send_buf, recv_buf>>
vars == <<sendVars, recvVars, creditVars, bufVars, posts, notifs>>

Idle == [at |-> "idle"]
NoPost == [stage |-> "none"]

DataNotif(k) == [type |-> "D", peer |-> posts[k].peer, slot |-> posts[k].recv_slot,
                 seq |-> posts[k].seq, meta |-> k]
Credit(p, s, q) == [type |-> "C", peer |-> p, slot |-> s, seq |-> q]

Init ==
    /\ sending = Idle /\ num_sent = 0
    /\ send_slot_busy = [s \in SendSlots |-> FALSE] /\ next_send_slot = 0
    /\ send_buf = [s \in SendSlots |-> 0]
    /\ recv_buf = [p \in Peers |-> [s \in RecvSlots |-> 0]]
    /\ available_recv_slots = [p \in Peers |-> [i \in 1..RecvRing |-> i - 1]]
    /\ expected_credit_seq = [p \in Peers |-> [s \in RecvSlots |-> -1]]
    /\ next_seq = [p \in Peers |-> 0]
    /\ posts = [k \in Batch |-> NoPost]
    /\ notifs = {}
    /\ inflight_recv_seq = [p \in Peers |-> [s \in RecvSlots |-> -1]]
    /\ completed_recv_seq = [p \in Peers |-> [s \in RecvSlots |-> -1]]
    /\ arrivals = [p \in Peers |-> <<>>]
    /\ received = [k \in Batch |-> <<>>]

-----------------------------------------------------------------------------
(* The dispatcher thread.                                                    *)

\* send_impl is entered with a non-empty batch for p.
EnterSend(p) ==
    /\ sending = Idle
    /\ num_sent < MaxSends
    /\ sending' = [at |-> "recv_slot", peer |-> p]
    /\ UNCHANGED <<num_sent, next_send_slot, next_seq, recvVars, creditVars, bufVars, posts, notifs>>

acquire_recv_slot ==
    /\ sending.at = "recv_slot"
    /\ LET p == sending.peer
       IN  /\ available_recv_slots[p] # <<>>
           /\ sending' = [at |-> "send_slot", peer |-> p,
                          recv_slot |-> Head(available_recv_slots[p])]
           /\ available_recv_slots' = [available_recv_slots EXCEPT ![p] = Tail(@)]
    /\ UNCHANGED <<num_sent, next_send_slot, next_seq, recvVars, expected_credit_seq, bufVars,
                   posts, notifs>>

After(s) == (s + 1) % SendRing

\* Slot s is the first free one at or after next_send_slot.
FirstFree(s) ==
    /\ ~send_slot_busy[s]
    /\ \A t \in SendSlots :
          (t - next_send_slot) % SendRing < (s - next_send_slot) % SendRing => send_slot_busy[t]

\* acquire_send_slot, the staging copy, next_send_seq, note_send_posted and
\* enqueue_post.  A failed assertion of note_send_posted ends the thread.
send_batch ==
    /\ sending.at = "send_slot"
    /\ LET p == sending.peer
           r == sending.recv_slot
           k == num_sent + 1
       IN  /\ expected_credit_seq[p][r] = -1
           /\ \E s \in SendSlots :
                /\ FirstFree(s)
                /\ send_slot_busy' = [send_slot_busy EXCEPT ![s] = TRUE]
                /\ next_send_slot' = After(s)
                /\ send_buf' = [send_buf EXCEPT ![s] = k]
                /\ posts' = [posts EXCEPT ![k] =
                      [stage |-> "queued", peer |-> p, seq |-> next_seq[p],
                       send_slot |-> s, recv_slot |-> r, erased |-> FALSE]]
           /\ next_seq' = [next_seq EXCEPT ![p] = @ + 1]
           /\ expected_credit_seq' = [expected_credit_seq EXCEPT ![p][r] = next_seq[p]]
           /\ num_sent' = k
    /\ sending' = Idle
    /\ UNCHANGED <<recvVars, available_recv_slots, recv_buf, notifs>>

-----------------------------------------------------------------------------
(* Post workers, the fabric, and the completion of transfers.               *)

At(stage) == {k \in Batch : posts[k].stage = stage}
Move(k, stage) == posts' = [posts EXCEPT ![k].stage = stage]

\* A post worker pops the front of post_queue_ and waits for the staging copy.
PickUp(k) ==
    /\ k \in At("queued") /\ \A j \in At("queued") : k <= j
    /\ Cardinality(At("posting")) < PostWorkers
    /\ Move(k, "posting")
    /\ UNCHANGED <<sendVars, recvVars, creditVars, bufVars, notifs>>

\* post_write, whose assertions on the slot and its size hold for a batch that
\* fits, and enqueue_pending_xfer.
post_write(k) ==
    /\ k \in At("posting")
    /\ Move(k, "writing")
    /\ UNCHANGED <<sendVars, recvVars, creditVars, bufVars, notifs>>

\* The write reaches the peer's slot, its notification follows.
WriteLands(k) ==
    /\ k \in At("writing")
    /\ Move(k, "done")
    /\ recv_buf' = [recv_buf EXCEPT ![posts[k].peer][posts[k].recv_slot] =
                        send_buf[posts[k].send_slot]]
    /\ notifs' = notifs \cup {DataNotif(k)}
    /\ UNCHANGED <<sendVars, recvVars, creditVars, send_slot_busy, send_buf>>

\* The fabric reports an error instead.
WriteFails(k) ==
    /\ k \in At("writing")
    /\ Move(k, "failed")
    /\ UNCHANGED <<sendVars, recvVars, creditVars, bufVars, notifs>>

\* Transfers that drain_pending_xfers releases, failed ones included.
Settled == {k \in At("done") \cup At("failed") : ~posts[k].erased}

drain_pending_xfers ==
    /\ Settled # {}
    /\ posts' = [k \in Batch |-> IF k \in Settled THEN [posts[k] EXCEPT !.erased = TRUE]
                                 ELSE posts[k]]
    /\ send_slot_busy' = [s \in SendSlots |->
          send_slot_busy[s] /\ \A k \in Settled : posts[k].send_slot # s]
    /\ UNCHANGED <<sendVars, recvVars, creditVars, send_buf, recv_buf, notifs>>

-----------------------------------------------------------------------------
(* poll_notifs: the handler of one notification.                            *)

\* Mutant: only the slot in flight is compared, not the completed one.
AcceptUnlessInflight(n) == inflight_recv_seq[n.peer][n.slot] # n.seq

\* The test of accept_data_notif.
Accepts(n) ==
    /\ inflight_recv_seq[n.peer][n.slot] # n.seq
    /\ completed_recv_seq[n.peer][n.slot] < n.seq

accept_data_notif(n) ==
    /\ n.type = "D"
    /\ Accepts(n)
    /\ inflight_recv_seq' = [inflight_recv_seq EXCEPT ![n.peer][n.slot] = n.seq]
    /\ arrivals' = [arrivals EXCEPT ![n.peer] =
          Append(@, [slot |-> n.slot, seq |-> n.seq, meta |-> n.meta, stage |-> "pending"])]
    /\ UNCHANGED <<sendVars, completed_recv_seq, received, creditVars, bufVars, posts, notifs>>

\* Mutant: a credit for the slot is accepted whatever its sequence number.
AnyCredit(n) == expected_credit_seq[n.peer][n.slot] # -1

\* The test of on_recv_credit.
Expects(n) == expected_credit_seq[n.peer][n.slot] = n.seq

\* Mutant: the slot is returned, but the credit stays expected.
KeepExpected(p, s) ==
    /\ available_recv_slots' = [available_recv_slots EXCEPT ![p] = Append(@, s)]
    /\ UNCHANGED expected_credit_seq

\* Mutant: the credit is taken, but the slot is not returned.
DropSlot(p, s) ==
    /\ expected_credit_seq' = [expected_credit_seq EXCEPT ![p][s] = -1]
    /\ UNCHANGED available_recv_slots

ReturnSlot(p, s) ==
    /\ expected_credit_seq' = [expected_credit_seq EXCEPT ![p][s] = -1]
    /\ available_recv_slots' = [available_recv_slots EXCEPT ![p] = Append(@, s)]

on_recv_credit(n) ==
    /\ n.type = "C"
    /\ Expects(n)
    /\ ReturnSlot(n.peer, n.slot)
    /\ UNCHANGED <<sendVars, recvVars, bufVars, posts, notifs>>

-----------------------------------------------------------------------------
(* The receiving pool of peer p, the user of NixlContext.                   *)

\* drain_meta_arrivals: the copies out of the receive slots are started.
drain_meta_arrivals(p) ==
    /\ \E i \in DOMAIN arrivals[p] : arrivals[p][i].stage = "pending"
    /\ arrivals' = [arrivals EXCEPT ![p] = [i \in DOMAIN @ |->
          IF @[i].stage = "pending" THEN [@[i] EXCEPT !.stage = "copying"] ELSE @[i]]]
    /\ UNCHANGED <<sendVars, inflight_recv_seq, completed_recv_seq, received, creditVars,
                   bufVars, posts, notifs>>

\* mark_recv_completed(p, slot, seq).
Mark(p, s, q) ==
    /\ completed_recv_seq' = [completed_recv_seq EXCEPT ![p][s] = IF @ < q THEN q ELSE @]
    /\ inflight_recv_seq' = [inflight_recv_seq EXCEPT ![p][s] = IF @ = q THEN -1 ELSE @]

\* External: a copy, in any order, has ended; the batch is processed and the
\* slot marked.
FinishCopy(p, i) ==
    /\ i \in DOMAIN arrivals[p] /\ arrivals[p][i].stage = "copying"
    /\ LET a == arrivals[p][i]
       IN  /\ received' = [received EXCEPT ![a.meta] = Append(@, recv_buf[p][a.slot])]
           /\ Mark(p, a.slot, a.seq)
           /\ arrivals' = [arrivals EXCEPT ![p][i].stage = "copied"]
    /\ UNCHANGED <<sendVars, creditVars, bufVars, posts, notifs>>

RemoveArrival(p, i) ==
    arrivals' = [arrivals EXCEPT ![p] =
        [j \in 1..(Len(@) - 1) |-> IF j < i THEN @[j] ELSE @[j + 1]]]

\* send_credit, once the slot has been copied and marked.
SendCredit(p, i) ==
    /\ i \in DOMAIN arrivals[p] /\ arrivals[p][i].stage = "copied"
    /\ notifs' = notifs \cup {Credit(p, arrivals[p][i].slot, arrivals[p][i].seq)}
    /\ RemoveArrival(p, i)
    /\ UNCHANGED <<sendVars, inflight_recv_seq, completed_recv_seq, received, creditVars,
                   bufVars, posts>>

-----------------------------------------------------------------------------
Poll(n) == accept_data_notif(n) \/ on_recv_credit(n)
Recv(p) == drain_meta_arrivals(p) \/ \E i \in DOMAIN arrivals[p] : FinishCopy(p, i) \/ SendCredit(p, i)

Next ==
    \/ \E p \in Peers : EnterSend(p)
    \/ acquire_recv_slot
    \/ send_batch
    \/ \E k \in Batch : PickUp(k) \/ post_write(k) \/ WriteLands(k) \/ WriteFails(k)
    \/ drain_pending_xfers
    \/ \E n \in notifs : Poll(n)
    \/ \E p \in Peers : Recv(p)

Fairness ==
    /\ WF_vars(acquire_recv_slot) /\ WF_vars(send_batch) /\ WF_vars(drain_pending_xfers)
    /\ \A k \in Batch :
          /\ WF_vars(PickUp(k)) /\ WF_vars(post_write(k))
          /\ WF_vars(WriteLands(k) \/ WriteFails(k))
          /\ WF_vars(\E n \in notifs : n.type = "D" /\ n.meta = k /\ Poll(n))
    /\ WF_vars(\E n \in notifs : on_recv_credit(n))
    /\ \A p \in Peers : WF_vars(Recv(p))

Spec == Init /\ [][Next]_vars /\ Fairness
-----------------------------------------------------------------------------
Holds(p, s) == sending.at = "send_slot" /\ sending.peer = p /\ sending.recv_slot = s
Listed(p, s) == {i \in DOMAIN available_recv_slots[p] : available_recv_slots[p][i] = s}

\* A receive slot of a peer is in one place: listed once as available,
\* held by the dispatcher, or awaiting the credit of one send.
RecvSlotOwned(p, s) ==
    LET taken == Holds(p, s) \/ expected_credit_seq[p][s] # -1
    IN  /\ ~(Holds(p, s) /\ expected_credit_seq[p][s] # -1)
        /\ Cardinality(Listed(p, s)) = IF taken THEN 0 ELSE 1

\* A busy slot of the send ring belongs to one transfer that is not erased yet,
\* a free slot to none.
SendSlotOwned(s) ==
    LET owners == {k \in Batch : posts[k] # NoPost /\ ~posts[k].erased /\ posts[k].send_slot = s}
    IN  Cardinality(owners) = IF send_slot_busy[s] THEN 1 ELSE 0

\* Every slot of both rings has one owner.  So the assertion of note_send_posted
\* ("remote recv slot reused before credit") never fails, however late or often
\* a credit of an earlier use arrives; acquire_send_slot hands out no slot that
\* a write still reads, and drain_pending_xfers loses none.
SlotsOwned ==
    /\ \A p \in Peers, s \in RecvSlots : RecvSlotOwned(p, s)
    /\ \A s \in SendSlots : SendSlotOwned(s)

\* The metadata of a batch is processed at most once and only with the data
\* that was sent under it, although receive slots are overwritten by later
\* writes and notifications are repeated and reordered (accept_data_notif,
\* mark_recv_completed).
ReceivedIntact == \A k \in Batch : received[k] \in {<<>>, <<k>>}

Promise == INSTANCE Link WITH
    Batches <- Batch,
    sent <- {k \in Batch : posts[k] # NoPost},
    delivered <- {k \in Batch : received[k] = <<k>>},
    lost <- At("failed")

\* Sending over NIXL implements the link: what send_impl accepted is
\* processed once unless the fabric reported its transfer as failed.
ImplementsLink == Promise!LinkSpec

\* Receive slots of p whose last transfer failed: no credit will return them.
LostSlots(p) == {posts[k].recv_slot : k \in {j \in At("failed") : posts[j].peer = p}}

\* A send_impl that waits for a slot goes on, unless every receive slot of
\* the peer was lost to a failed transfer (drain_pending_xfers releases the
\* send slot only).
DispatcherGoesOn ==
    \A p \in Peers :
        (sending # Idle /\ sending.peer = p) ~> (sending = Idle \/ LostSlots(p) = RecvSlots)
=============================================================================
