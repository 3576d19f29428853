----------------------------- MODULE NixlProofs -----------------------------
(***************************************************************************)
(* Every batch sent over NIXL is processed at most once and with its own    *)
(* data, and every slot of the send ring and of the receive rings has one   *)
(* owner, for any number of peers, slots and post workers.                  *)
(*                                                                          *)
(* A batch is current while the credit its receive slot expects is its own. *)
(* A batch that is not current was credited, so its sequence number is      *)
(* completed and its notification is refused; two current batches never     *)
(* share a receive slot, so the slot still holds the data of a current batch*)
(* once its write has landed.                                               *)
(*                                                                          *)
(* First the invariant and the steps of the sending engine, then the        *)
(* handlers of notifications, then the steps of the receiving pool and the  *)
(* theorems about batches, then the owners of slots, last the refinement of *)
(* the abstract link.                                                       *)
(***************************************************************************)
EXTENDS Nixl, SequenceTheorems, FiniteSetTheorems, TLAPS

Stages == {"queued", "posting", "writing", "done", "failed"}
PostRecord == [stage : Stages, peer : Peers, seq : Nat, send_slot : SendSlots,
               recv_slot : RecvSlots, erased : BOOLEAN]
Arrival == [slot : RecvSlots, seq : Nat, meta : Batch,
            stage : {"pending", "copying", "copied"}]
Notif == [type : {"D"}, peer : Peers, slot : RecvSlots, seq : Nat, meta : Batch]
            \cup [type : {"C"}, peer : Peers, slot : RecvSlots, seq : Nat]
Sending == {Idle} \cup [at : {"recv_slot"}, peer : Peers]
            \cup [at : {"send_slot"}, peer : Peers, recv_slot : RecvSlots]

Types ==
    /\ sending \in Sending
    /\ num_sent \in Nat
    /\ send_slot_busy \in [SendSlots -> BOOLEAN]
    /\ send_buf \in [SendSlots -> Nat]
    /\ recv_buf \in [Peers -> [RecvSlots -> Nat]]
    /\ available_recv_slots \in [Peers -> Seq(RecvSlots)]
    /\ expected_credit_seq \in [Peers -> [RecvSlots -> Int]]
    /\ next_seq \in [Peers -> Nat]
    /\ posts \in [Batch -> PostRecord \cup {NoPost}]
    /\ notifs \subseteq Notif
    /\ inflight_recv_seq \in [Peers -> [RecvSlots -> Int]]
    /\ completed_recv_seq \in [Peers -> [RecvSlots -> Int]]
    /\ arrivals \in [Peers -> Seq(Arrival)]
    /\ received \in [Batch -> Seq(Nat)]

Posted(k) == posts[k] # NoPost
Current(k) == expected_credit_seq[posts[k].peer][posts[k].recv_slot] = posts[k].seq
CreditOf(k) == Credit(posts[k].peer, posts[k].recv_slot, posts[k].seq)
Completed(k) == posts[k].seq <= completed_recv_seq[posts[k].peer][posts[k].recv_slot]
Arrived(k) == \E p \in Peers : \E i \in DOMAIN arrivals[p] : arrivals[p][i].meta = k

\* Sequence numbers of a peer are handed out once.
Numbered ==
    /\ sending # Idle => num_sent < MaxSends
    /\ \A k \in Batch : Posted(k) => k <= num_sent /\ posts[k].seq < next_seq[posts[k].peer]
    /\ \A j, k \in Batch :
          Posted(j) /\ Posted(k) /\ posts[j].peer = posts[k].peer /\ posts[j].seq = posts[k].seq
             => j = k

\* A transfer that is not erased owns its busy send slot and the data in it.
SendSlotsHeld ==
    \A k \in Batch : Posted(k) =>
        /\ ~posts[k].erased => /\ send_slot_busy[posts[k].send_slot]
                               /\ send_buf[posts[k].send_slot] = k
        /\ posts[k].stage \in {"queued", "posting", "writing"} => ~posts[k].erased

\* A receive slot with an expected credit is neither listed nor held.
FreeAt(p) ==
    /\ \A i \in DOMAIN available_recv_slots[p] :
          /\ expected_credit_seq[p][available_recv_slots[p][i]] = -1
          /\ ~Holds(p, available_recv_slots[p][i])
    /\ \A i, j \in DOMAIN available_recv_slots[p] :
          available_recv_slots[p][i] = available_recv_slots[p][j] => i = j
    /\ \A s \in RecvSlots : Holds(p, s) => expected_credit_seq[p][s] = -1

RecvSlotsFree == \A p \in Peers : FreeAt(p)

\* What a notification says is true of the batch it is about.
NotifTrue(n) ==
    /\ n.type = "D" => /\ Posted(n.meta) /\ posts[n.meta].stage = "done"
                       /\ n = DataNotif(n.meta)
    /\ n.type = "C" => \E k \in Batch :
          /\ Posted(k) /\ posts[k].stage = "done" /\ n = CreditOf(k)
          /\ Completed(k) /\ ~Arrived(k)

NotifsTrue == \A n \in notifs : NotifTrue(n)

\* A batch is current until its credit has been taken.
CurrentOrCredited == \A k \in Batch : Posted(k) => Current(k) \/ CreditOf(k) \in notifs

\* The slot of a current batch that was written holds its data.
WrittenIntact ==
    \A k \in Batch : Posted(k) /\ posts[k].stage = "done" /\ Current(k) =>
        recv_buf[posts[k].peer][posts[k].recv_slot] = k

\* An accepted batch is current and was written; until it is copied it is in
\* flight, neither completed nor processed.
ArrivalOk(p, a) ==
    LET k == a.meta
    IN  /\ Posted(k) /\ posts[k].stage = "done" /\ Current(k)
        /\ posts[k].peer = p /\ posts[k].recv_slot = a.slot /\ posts[k].seq = a.seq
        /\ IF a.stage = "copied" THEN Completed(k)
           ELSE inflight_recv_seq[p][a.slot] = a.seq /\ ~Completed(k) /\ received[k] = <<>>

ArrivalsAt(p) ==
    /\ \A i \in DOMAIN arrivals[p] : ArrivalOk(p, arrivals[p][i])
    /\ \A i, j \in DOMAIN arrivals[p] : arrivals[p][i].slot = arrivals[p][j].slot => i = j

ArrivalsOk == \A p \in Peers : ArrivalsAt(p)

\* What was processed is completed.
ReceivedOnce ==
    \A k \in Batch : received[k] # <<>> => Posted(k) /\ Completed(k) /\ received[k] = <<k>>

NixlIInv ==
    /\ Types /\ Numbered /\ SendSlotsHeld /\ RecvSlotsFree /\ NotifsTrue
    /\ CurrentOrCredited /\ WrittenIntact /\ ArrivalsOk /\ ReceivedOnce

-----------------------------------------------------------------------------
(* Nothing is posted at first.                                               *)
LEMMA NixlInit == Init => NixlIInv
<1> SUFFICES ASSUME Init PROVE NixlIInv
  BY Zenon
<1> USE NixlAssumption
<1>1. \A k \in Batch : ~Posted(k)
  BY Zenon DEF Init, Posted
<1>2. Types
  <2>1. available_recv_slots \in [Peers -> Seq(RecvSlots)]
    <3>1. [i \in 1..RecvRing |-> i - 1] \in Seq(RecvSlots)
      BY DEF RecvSlots
    <3> QED
      BY <3>1, Zenon DEF Init
  <2>2. arrivals \in [Peers -> Seq(Arrival)] /\ received \in [Batch -> Seq(Nat)]
    BY DEF Init
  <2> QED
    BY <2>1, <2>2 DEF Init, Types, Sending
<1>3. RecvSlotsFree
  <2>1. ~(\E p, s : Holds(p, s))
    BY Zenon DEF Init, Idle, Holds
  <2> QED
    BY <2>1 DEF Init, RecvSlotsFree, FreeAt, RecvSlots
<1>4. NotifsTrue /\ ArrivalsOk /\ ReceivedOnce
  BY DEF Init, NotifsTrue, ArrivalsOk, ArrivalsAt, ReceivedOnce
<1>5. sending = Idle
  BY Zenon DEF Init
<1> QED
  BY <1>1, <1>2, <1>3, <1>4, <1>5, Zenon DEF NixlIInv, Numbered, SendSlotsHeld, CurrentOrCredited, WrittenIntact

-----------------------------------------------------------------------------
(* What every step keeps of the transfers.                                   *)
KeepPosts ==
    \A k \in Batch : Posted(k) =>
        /\ Posted(k)'
        /\ posts'[k].peer = posts[k].peer /\ posts'[k].seq = posts[k].seq
        /\ posts'[k].recv_slot = posts[k].recv_slot
        /\ posts[k].stage = "done" => posts'[k].stage = "done"

(* Completion is kept, and no completed batch arrives again.                 *)
KeepCompleted ==
    \A k \in Batch : Posted(k) /\ Completed(k) =>
        Completed(k)' /\ (Arrived(k)' => Arrived(k))

(* A true notification stays true.                                           *)
LEMMA NotifKept ==
    ASSUME NEW n \in Notif, NotifTrue(n), KeepPosts, KeepCompleted
    PROVE  NotifTrue(n)'
<1>1. CASE n.type = "D"
  <2>1. n.meta \in Batch /\ Posted(n.meta) /\ posts[n.meta].stage = "done" /\ n = DataNotif(n.meta)
    BY <1>1, Zenon DEF Notif, NotifTrue
  <2> QED
    BY <1>1, <2>1, Zenon DEF NotifTrue, KeepPosts, DataNotif
<1>2. CASE n.type = "C"
  <2>1. PICK k \in Batch : /\ Posted(k) /\ posts[k].stage = "done" /\ n = CreditOf(k)
                           /\ Completed(k) /\ ~Arrived(k)
    BY <1>2, Zenon DEF NotifTrue
  <2>2. Posted(k)' /\ posts'[k].stage = "done" /\ n = CreditOf(k)'
    BY <2>1, Zenon DEF KeepPosts, CreditOf, Credit
  <2>3. Completed(k)' /\ ~Arrived(k)'
    BY <2>1, Zenon DEF KeepCompleted
  <2> QED
    BY <1>2, <2>2, <2>3, Zenon DEF NotifTrue
<1> QED
  BY <1>1, <1>2, Zenon DEF Notif

(* An accepted batch stays as it is while its slot is not touched.           *)
LEMMA ArrivalKept ==
    ASSUME Types, NEW p \in Peers, NEW a \in Arrival, ArrivalOk(p, a), KeepPosts,
           expected_credit_seq'[p][a.slot] = expected_credit_seq[p][a.slot],
           completed_recv_seq'[p][a.slot] = completed_recv_seq[p][a.slot],
           inflight_recv_seq'[p][a.slot] = inflight_recv_seq[p][a.slot],
           received'[a.meta] = received[a.meta]
    PROVE  ArrivalOk(p, a)'
<1> DEFINE k == a.meta
<1>1. /\ k \in Batch /\ Posted(k) /\ posts[k].stage = "done" /\ Current(k)
      /\ posts[k].peer = p /\ posts[k].recv_slot = a.slot /\ posts[k].seq = a.seq
  BY Zenon DEF ArrivalOk, Arrival
<1>2. /\ Posted(k)' /\ posts'[k].stage = "done"
      /\ posts'[k].peer = p /\ posts'[k].recv_slot = a.slot /\ posts'[k].seq = a.seq
  BY <1>1, Zenon DEF KeepPosts
<1>3. Current(k)' /\ (Completed(k)' <=> Completed(k))
  BY <1>1, <1>2, Zenon DEF Current, Completed
<1> QED
  BY <1>1, <1>2, <1>3, Zenon DEF ArrivalOk

(* The entries of the arrival lists.                                         *)
LEMMA ArrivalFacts ==
    ASSUME NixlIInv, NEW p \in Peers, NEW i \in DOMAIN arrivals[p]
    PROVE  /\ arrivals[p][i] \in Arrival /\ ArrivalOk(p, arrivals[p][i])
           /\ arrivals[p][i].slot \in RecvSlots /\ arrivals[p][i].seq \in Nat
           /\ arrivals[p][i].meta \in Batch
<1>1. arrivals[p] \in Seq(Arrival) /\ ArrivalOk(p, arrivals[p][i])
  BY Zenon DEF NixlIInv, Types, ArrivalsOk, ArrivalsAt
<1>2. arrivals[p][i] \in Arrival
  BY <1>1
<1> QED
  BY <1>1, <1>2, Zenon DEF Arrival

(* ArrivalsAt for the list t of the next state.                              *)
LEMMA ArrivalsAfter ==
    ASSUME NEW q \in Peers, NEW t \in Seq(Arrival), arrivals'[q] = t,
           \A i \in DOMAIN t, b \in Arrival : b = t[i] => ArrivalOk(q, b)',
           \A i, j \in DOMAIN t : t[i].slot = t[j].slot => i = j
    PROVE  ArrivalsAt(q)'
<1>1. \A i \in DOMAIN t : t[i] \in Arrival
  OBVIOUS
<1>2. \A i \in DOMAIN t : ArrivalOk(q, t[i])'
  BY <1>1, Zenon
<1> QED
  BY <1>2, Zenon DEF ArrivalsAt

(* What was processed stays processed once.                                  *)
LEMMA ReceivedKept ==
    ASSUME ReceivedOnce, KeepPosts, KeepCompleted, UNCHANGED received
    PROVE  ReceivedOnce'
BY Zenon DEF ReceivedOnce, KeepPosts, KeepCompleted

(* Two current batches with one receive slot are the same.                   *)
LEMMA CurrentUnique ==
    ASSUME Numbered, NEW j \in Batch, NEW k \in Batch, Posted(j), Posted(k), Current(j), Current(k),
           posts[j].peer = posts[k].peer, posts[j].recv_slot = posts[k].recv_slot
    PROVE  j = k
BY Zenon DEF Numbered, Current

-----------------------------------------------------------------------------
(* Steps of the transfers that touch neither slots nor notifications.        *)

(* send_impl is entered.                                                     *)
LEMMA EnterKeeps == ASSUME NixlIInv, NEW p \in Peers, EnterSend(p) PROVE NixlIInv'
<1> USE DEF EnterSend, recvVars, creditVars, bufVars
<1>1. Types'
  BY Zenon DEF NixlIInv, Types, Sending
<1>2. RecvSlotsFree'
  BY Zenon DEF NixlIInv, RecvSlotsFree, FreeAt, Holds
<1>3. Numbered'
  BY Zenon DEF NixlIInv, Numbered, Posted
<1>4. UNCHANGED <<SendSlotsHeld, NotifsTrue, CurrentOrCredited, WrittenIntact, ArrivalsOk,
                  ReceivedOnce>>
  BY DEF SendSlotsHeld, NotifsTrue, NotifTrue, CurrentOrCredited, WrittenIntact, ArrivalsOk,
         ArrivalsAt, ArrivalOk, ReceivedOnce, Posted, Current, CreditOf, Credit, Completed, Arrived, DataNotif
<1> QED
  BY <1>1, <1>2, <1>4, <1>3, Zenon DEF NixlIInv

(* FreeAt for the list t of the next state.                                  *)
LEMMA FreeAfter ==
    ASSUME NEW q \in Peers, NEW t \in Seq(RecvSlots), available_recv_slots'[q] = t,
           \A i \in DOMAIN t, s \in RecvSlots : s = t[i] =>
               expected_credit_seq'[q][s] = -1 /\ ~Holds(q, s)',
           \A i, j \in 1 .. Len(t) : t[i] = t[j] => i = j,
           \A s \in RecvSlots : Holds(q, s)' => expected_credit_seq'[q][s] = -1
    PROVE  FreeAt(q)'
<1>1. \A i \in DOMAIN t : t[i] \in RecvSlots
  OBVIOUS
<1>2. \A i \in DOMAIN t : expected_credit_seq'[q][t[i]] = -1 /\ ~Holds(q, t[i])'
  BY <1>1, Zenon
<1>3. \A i, j \in DOMAIN t : t[i] = t[j] => i = j
  OBVIOUS
<1> QED
  BY <1>2, <1>3, Zenon DEF FreeAt

(* A receive slot is taken from the front of the list.                       *)
LEMMA AcquireKeeps == ASSUME NixlIInv, acquire_recv_slot PROVE NixlIInv'
<1> USE DEF acquire_recv_slot, recvVars, bufVars
<1> DEFINE p == sending.peer
           l == available_recv_slots[p]
<1>1. p \in Peers /\ l \in Seq(RecvSlots) /\ l # <<>>
  BY DEF NixlIInv, Types, Sending, Idle
<1>2. /\ Head(l) \in RecvSlots /\ Tail(l) \in Seq(RecvSlots) /\ Len(Tail(l)) = Len(l) - 1
      /\ Len(l) \in Nat \ {0} /\ Head(l) = l[1]
      /\ \A i \in 1 .. Len(l) - 1 : Tail(l)[i] = l[i + 1]
  BY <1>1, HeadTailProperties
<1>3. Types'
  BY <1>1, <1>2, SMTT(30) DEF NixlIInv, Types, Sending
<1>4. /\ \A q \in Peers, s \in RecvSlots : ~Holds(q, s)
      /\ \A q \in Peers, s \in RecvSlots : Holds(q, s)' <=> (q = p /\ s = l[1])
  BY <1>1, <1>2, Zenon DEF Holds
<1>5. RecvSlotsFree'
  <2> SUFFICES ASSUME NEW q \in Peers PROVE FreeAt(q)'
    BY Zenon DEF RecvSlotsFree
  <2>1. CASE q # p
    <3>1. available_recv_slots'[q] = available_recv_slots[q] /\ available_recv_slots[q] \in Seq(RecvSlots)
      BY <2>1, <1>1, Zenon DEF NixlIInv, Types
    <3>2. FreeAt(q) /\ expected_credit_seq' = expected_credit_seq
      BY Zenon DEF NixlIInv, RecvSlotsFree
    <3> QED
      BY <2>1, <3>1, <3>2, <1>4 DEF FreeAt
  <2>2. CASE q = p
    <3>1. available_recv_slots'[q] = Tail(l) /\ DOMAIN Tail(l) = 1 .. Len(l) - 1
      BY <2>2, <1>1, <1>2 DEF NixlIInv, Types
    <3>2. /\ \A i \in 1 .. Len(l) : l[i] \in RecvSlots /\ expected_credit_seq[p][l[i]] = -1
          /\ \A i, j \in 1 .. Len(l) : l[i] = l[j] => i = j
      BY <1>1 DEF NixlIInv, RecvSlotsFree, FreeAt
    <3>3. \A i \in 1 .. Len(l) - 1 : Tail(l)[i] # l[1] /\ Tail(l)[i] \in RecvSlots
                                     /\ expected_credit_seq[p][Tail(l)[i]] = -1
      BY <3>2, <1>2
    <3>4. \A i, j \in 1 .. Len(l) - 1 : Tail(l)[i] = Tail(l)[j] => i = j
      BY <3>2, <1>2
    <3>5. expected_credit_seq' = expected_credit_seq /\ expected_credit_seq[p][l[1]] = -1
      BY <3>2, <1>2
    <3>6. \A i \in DOMAIN Tail(l), s \in RecvSlots : s = Tail(l)[i] =>
             expected_credit_seq'[q][s] = -1 /\ ~Holds(q, s)'
      BY <2>2, <3>1, <3>3, <3>5, <1>4, Zenon
    <3>7. \A s \in RecvSlots : Holds(q, s)' => expected_credit_seq'[q][s] = -1
      BY <2>2, <3>5, <1>4, Zenon
    <3> QED
      BY <1>2, <3>1, <3>4, <3>6, <3>7, FreeAfter, ZenonT(30)
  <2> QED
    BY <2>1, <2>2, Zenon
<1>6. Numbered'
  BY DEF NixlIInv, Numbered, Posted, Idle
<1>7. UNCHANGED <<SendSlotsHeld, NotifsTrue, CurrentOrCredited, WrittenIntact, ArrivalsOk,
                  ReceivedOnce>>
  BY DEF SendSlotsHeld, NotifsTrue, NotifTrue, CurrentOrCredited, WrittenIntact, ArrivalsOk,
         ArrivalsAt, ArrivalOk, ReceivedOnce, Posted, Current, CreditOf, Credit, Completed, Arrived, DataNotif
<1> QED
  BY <1>3, <1>5, <1>7, <1>6, Zenon DEF NixlIInv

(* The transfers keep what they are, and no slot, buffer or notification     *)
(* changes.                                                                  *)
LEMMA TransferFrame ==
    ASSUME NixlIInv, Types', SendSlotsHeld', KeepPosts,
           \A k \in Batch : Posted(k)' => Posted(k),
           \A k \in Batch : Posted(k) /\ posts'[k].stage = "done" => posts[k].stage = "done",
           UNCHANGED <<sendVars, recvVars, creditVars, recv_buf, notifs>>
    PROVE  NixlIInv'
<1> USE DEF sendVars, recvVars, creditVars
<1>1. \A k \in Batch : Posted(k) => /\ Current(k)' <=> Current(k)
                                    /\ Completed(k)' <=> Completed(k)
                                    /\ CreditOf(k)' = CreditOf(k)
  BY Zenon DEF KeepPosts, Current, Completed, CreditOf, Credit
<1>2. \A k \in Batch : Arrived(k)' <=> Arrived(k)
  BY Zenon DEF Arrived
<1>3. Numbered'
  BY Zenon DEF NixlIInv, Numbered, KeepPosts
<1>4. RecvSlotsFree'
  BY ZenonT(30) DEF NixlIInv, RecvSlotsFree, FreeAt, Holds
<1>5. KeepCompleted
  BY <1>1, <1>2, Zenon DEF KeepCompleted
<1>6. NotifsTrue'
  BY <1>5, NotifKept, SMTT(30) DEF NixlIInv, Types, NotifsTrue
<1>7. CurrentOrCredited' /\ WrittenIntact'
  <2>1. CurrentOrCredited'
    BY <1>1, Zenon DEF NixlIInv, CurrentOrCredited
  <2>2. ASSUME NEW k \in Batch, Posted(k)', posts'[k].stage = "done", Current(k)'
        PROVE  recv_buf'[posts'[k].peer][posts'[k].recv_slot] = k
    <3>1. Posted(k) /\ posts[k].stage = "done" /\ Current(k)
      BY <2>2, <1>1, Zenon
    <3>2. recv_buf[posts[k].peer][posts[k].recv_slot] = k
      BY <3>1, Zenon DEF NixlIInv, WrittenIntact
    <3> QED
      BY <3>1, <3>2, Zenon DEF KeepPosts
  <2> QED
    BY <2>1, <2>2, Zenon DEF WrittenIntact
<1>8. ArrivalsOk'
  <2> SUFFICES ASSUME NEW p \in Peers PROVE ArrivalsAt(p)'
    BY Zenon DEF ArrivalsOk
  <2>1. ArrivalsAt(p) /\ arrivals[p] \in Seq(Arrival) /\ arrivals' = arrivals
    BY Zenon DEF NixlIInv, Types, ArrivalsOk, recvVars
  <2>2. ASSUME NEW i \in DOMAIN arrivals[p], NEW b \in Arrival, b = arrivals[p][i] PROVE ArrivalOk(p, b)'
    <3>1. ArrivalOk(p, b)
      BY <2>2, ArrivalFacts, Zenon
    <3> QED
      BY <3>1, ArrivalKept, Zenon DEF NixlIInv, recvVars, creditVars
  <2> QED
    BY <2>1, <2>2, ArrivalsAfter, Zenon DEF ArrivalsAt
<1>9. ReceivedOnce'
  BY <1>5, ReceivedKept, Zenon DEF NixlIInv
<1> QED
  BY <1>3, <1>4, <1>6, <1>7, <1>8, <1>9, Zenon DEF NixlIInv

(* A transfer moves on without being written.                                *)
LEMMA MoveKeeps ==
    ASSUME NixlIInv, NEW k \in Batch, posts[k].stage \in {"queued", "posting", "writing"},
           NEW st \in {"posting", "writing", "failed"}, Move(k, st),
           UNCHANGED <<sendVars, recvVars, creditVars, bufVars, notifs>>
    PROVE  NixlIInv'
<1> USE DEF Move, bufVars
<1>1. Posted(k) /\ posts[k] \in PostRecord
  BY DEF NixlIInv, Types, Posted, NoPost
<1>2. posts' = [posts EXCEPT ![k] = [posts[k] EXCEPT !.stage = st]]
  BY Zenon
<1>3. posts'[k] = [posts[k] EXCEPT !.stage = st] /\ \A j \in Batch : j # k => posts'[j] = posts[j]
  BY <1>2, Zenon DEF NixlIInv, Types
<1>4. /\ posts'[k] \in PostRecord /\ posts'[k].stage = st /\ posts'[k].erased = posts[k].erased
      /\ posts'[k].peer = posts[k].peer /\ posts'[k].seq = posts[k].seq
      /\ posts'[k].send_slot = posts[k].send_slot /\ posts'[k].recv_slot = posts[k].recv_slot
  BY <1>1, <1>3 DEF PostRecord, Stages
<1>5. posts'[k] # NoPost
  BY <1>4 DEF PostRecord, Stages, NoPost
<1>6. Types'
  BY <1>2, <1>3, <1>4 DEF NixlIInv, Types, sendVars, recvVars, creditVars
<1>7. SendSlotsHeld'
  BY <1>1, <1>3, <1>4 DEF NixlIInv, SendSlotsHeld, Posted
<1>8. KeepPosts
  BY <1>1, <1>3, <1>4, <1>5, Zenon DEF KeepPosts, Posted
<1>9. \A j \in Batch : Posted(j)' => Posted(j)
  BY <1>1, <1>3, Zenon DEF Posted
<1>10. \A j \in Batch : Posted(j) /\ posts'[j].stage = "done" => posts[j].stage = "done"
  BY <1>3, <1>4, Zenon
<1> QED
  BY <1>6, <1>7, <1>8, <1>9, <1>10, TransferFrame, Zenon

(* Post workers, and a write the fabric reports as failed.                   *)
LEMMA PostKeeps ==
    ASSUME NixlIInv, NEW k \in Batch, PickUp(k) \/ post_write(k) \/ WriteFails(k)
    PROVE  NixlIInv'
<1>1. CASE PickUp(k)
  BY <1>1, MoveKeeps, Zenon DEF PickUp, At
<1>2. CASE post_write(k)
  BY <1>2, MoveKeeps, Zenon DEF post_write, At
<1>3. CASE WriteFails(k)
  BY <1>3, MoveKeeps, Zenon DEF WriteFails, At
<1> QED
  BY <1>1, <1>2, <1>3, Zenon

(* Completion releases the send slots of settled transfers and no other.     *)
LEMMA DrainXfersKeeps == ASSUME NixlIInv, drain_pending_xfers PROVE NixlIInv'
<1> USE DEF drain_pending_xfers
<1>1. \A k \in Settled : /\ k \in Batch /\ Posted(k) /\ posts[k] \in PostRecord
                         /\ posts[k].stage \in {"done", "failed"} /\ ~posts[k].erased
  BY DEF Settled, At, NixlIInv, Types, Posted, NoPost
<1>2. \A k \in Settled :
        /\ posts'[k] \in PostRecord /\ posts'[k].stage = posts[k].stage /\ posts'[k].erased
        /\ posts'[k].peer = posts[k].peer /\ posts'[k].seq = posts[k].seq
        /\ posts'[k].send_slot = posts[k].send_slot /\ posts'[k].recv_slot = posts[k].recv_slot
  BY <1>1, ZenonT(30) DEF PostRecord
<1>3. \A k \in Batch : k \notin Settled => posts'[k] = posts[k]
  BY Zenon
<1>4. \A k \in Settled : posts'[k] # NoPost
  BY <1>2, SMTT(30) DEF PostRecord, NoPost
<1>5. Types'
  <2>1. posts' \in [Batch -> PostRecord \cup {NoPost}]
    BY <1>2, <1>3, ZenonT(30) DEF NixlIInv, Types
  <2>2. send_slot_busy' \in [SendSlots -> BOOLEAN]
    BY Zenon DEF NixlIInv, Types
  <2> QED
    BY <2>1, <2>2, Zenon DEF NixlIInv, Types, sendVars, recvVars, creditVars
<1>6. SendSlotsHeld'
  <2> SUFFICES ASSUME NEW k \in Batch, Posted(k)'
               PROVE  /\ ~posts'[k].erased => /\ send_slot_busy'[posts'[k].send_slot]
                                              /\ send_buf'[posts'[k].send_slot] = k
                      /\ posts'[k].stage \in {"queued", "posting", "writing"} => ~posts'[k].erased
    BY Zenon DEF SendSlotsHeld
  <2>1. CASE k \in Settled
    BY <2>1, <1>1, <1>2, ZenonT(30)
  <2>2. CASE k \notin Settled
    <3>1. posts'[k] = posts[k] /\ Posted(k) /\ posts[k] \in PostRecord
      BY <2>2, <1>3, Zenon DEF Posted, NixlIInv, Types
    <3>2. ASSUME ~posts[k].erased, NEW j \in Settled PROVE posts[j].send_slot # posts[k].send_slot
      BY <3>1, <3>2, <2>2, <1>1, Zenon DEF NixlIInv, SendSlotsHeld
    <3>3. posts[k].send_slot \in SendSlots
      BY <3>1, Zenon DEF PostRecord
    <3> QED
      BY <3>1, <3>2, <3>3, ZenonT(30) DEF NixlIInv, SendSlotsHeld
  <2> QED
    BY <2>1, <2>2, Zenon
<1>7. KeepPosts
  BY <1>1, <1>2, <1>3, <1>4, Zenon DEF KeepPosts, Posted
<1>8. \A k \in Batch : Posted(k)' => Posted(k)
  BY <1>1, <1>3, Zenon DEF Posted
<1>9. \A k \in Batch : Posted(k) /\ posts'[k].stage = "done" => posts[k].stage = "done"
  BY <1>2, <1>3, Zenon
<1> QED
  BY <1>5, <1>6, <1>7, <1>8, <1>9, TransferFrame, ZenonT(30)

-----------------------------------------------------------------------------
(* What a credit shows of its batch.                                         *)
LEMMA Credited ==
    ASSUME NixlIInv, NEW k \in Batch, Posted(k), CreditOf(k) \in notifs
    PROVE  posts[k].stage = "done" /\ Completed(k) /\ ~Arrived(k)
<1>1. CreditOf(k).type = "C" /\ NotifTrue(CreditOf(k))
  BY Zenon DEF NixlIInv, NotifsTrue, CreditOf, Credit
<1>2. PICK j \in Batch : /\ Posted(j) /\ posts[j].stage = "done" /\ CreditOf(k) = CreditOf(j)
                         /\ Completed(j) /\ ~Arrived(j)
  BY <1>1, Zenon DEF NotifTrue
<1>3. posts[j].peer = posts[k].peer /\ posts[j].seq = posts[k].seq
  BY <1>2, Zenon DEF CreditOf, Credit
<1>4. j = k
  BY <1>2, <1>3, Zenon DEF NixlIInv, Numbered
<1> QED
  BY <1>2, <1>4, Zenon

(* A batch is current at least until it was written and completed.           *)
LEMMA StillCurrent ==
    ASSUME NixlIInv, NEW k \in Batch, Posted(k), posts[k].stage # "done" \/ ~Completed(k)
    PROVE  Current(k)
BY Credited, Zenon DEF NixlIInv, CurrentOrCredited

-----------------------------------------------------------------------------
(* A batch is staged and queued: the free slots it takes belong to nobody,   *)
(* and it is current from now on.                                            *)
LEMMA SendKeeps == ASSUME NixlIInv, send_batch PROVE NixlIInv'
<1> DEFINE p == sending.peer
           r == sending.recv_slot
           k == num_sent + 1
<1>1. /\ p \in Peers /\ r \in RecvSlots /\ k \in Batch /\ sending # Idle /\ num_sent \in Nat
      /\ Holds(p, r)
  <2>1. /\ sending \in Sending /\ sending # Idle /\ sending.at = "send_slot"
        /\ num_sent \in Nat
    BY DEF send_batch, NixlIInv, Types, Idle
  <2>2. p \in Peers /\ r \in RecvSlots
    BY <2>1 DEF Sending, Idle
  <2>3. k \in Batch
    BY <2>1, NixlAssumption DEF NixlIInv, Numbered, Batch
  <2>4. QED  BY <2>1, <2>2, <2>3, Zenon DEF Holds
<1>2. PICK s \in SendSlots :
        /\ ~send_slot_busy[s]
        /\ send_slot_busy' = [send_slot_busy EXCEPT ![s] = TRUE]
        /\ send_buf' = [send_buf EXCEPT ![s] = k]
        /\ posts' = [posts EXCEPT ![k] =
              [stage |-> "queued", peer |-> p, seq |-> next_seq[p],
               send_slot |-> s, recv_slot |-> r, erased |-> FALSE]]
  BY ZenonT(30) DEF send_batch, FirstFree
<1>3. /\ next_seq' = [next_seq EXCEPT ![p] = @ + 1]
      /\ expected_credit_seq' = [expected_credit_seq EXCEPT ![p][r] = next_seq[p]]
      /\ num_sent' = k /\ sending' = Idle /\ expected_credit_seq[p][r] = -1
      /\ UNCHANGED <<recvVars, available_recv_slots, recv_buf, notifs>>
  BY Zenon DEF send_batch
<1>4. /\ posts'[k].stage = "queued" /\ posts'[k].peer = p /\ posts'[k].seq = next_seq[p]
      /\ posts'[k].send_slot = s /\ posts'[k].recv_slot = r /\ ~posts'[k].erased
      /\ posts'[k] \in PostRecord /\ posts'[k] # NoPost
      /\ \A j \in Batch : j # k => posts'[j] = posts[j]
  BY <1>1, <1>2, Zenon DEF NixlIInv, Types, PostRecord, Stages, NoPost
<1>5. ~Posted(k) /\ \A j \in Batch : Posted(j) => j # k
  BY <1>1 DEF NixlIInv, Numbered
<1>6. \A j \in Batch : Posted(j) => /\ posts[j] \in PostRecord /\ posts[j].seq \in Nat
                                    /\ posts[j].peer \in Peers /\ posts[j].recv_slot \in RecvSlots
                                    /\ posts[j].send_slot \in SendSlots
                                    /\ posts[j].seq < next_seq[posts[j].peer]
  BY Zenon DEF NixlIInv, Types, Numbered, Posted, PostRecord
<1>7. /\ next_seq[p] \in Nat /\ next_seq'[p] = next_seq[p] + 1
      /\ \A q \in Peers : q # p => next_seq'[q] = next_seq[q]
      /\ expected_credit_seq'[p][r] = next_seq[p]
      /\ \A q \in Peers, t \in RecvSlots :
            (q # p \/ t # r) => expected_credit_seq'[q][t] = expected_credit_seq[q][t]
  BY <1>1, <1>3, Zenon DEF NixlIInv, Types
<1>8. Types'
  <2>1. posts' \in [Batch -> PostRecord \cup {NoPost}]
    BY <1>2, <1>4, ZenonT(30) DEF NixlIInv, Types
  <2>2. expected_credit_seq' \in [Peers -> [RecvSlots -> Int]]
    BY <1>1, <1>3, <1>7, SMTT(30) DEF NixlIInv, Types
  <2>3. next_seq' \in [Peers -> Nat] /\ num_sent' \in Nat
    <3>1. next_seq[p] + 1 \in Nat /\ num_sent + 1 \in Nat
      BY <1>1, <1>7
    <3>2. next_seq \in [Peers -> Nat] /\ next_seq' = [next_seq EXCEPT ![p] = next_seq[p] + 1]
      BY <1>3, Zenon DEF NixlIInv, Types
    <3>3. next_seq' \in [Peers -> Nat]
      BY <3>1, <3>2, ZenonT(30)
    <3> QED
      BY <3>1, <3>3, <1>3, Zenon
  <2>4. send_slot_busy' \in [SendSlots -> BOOLEAN] /\ send_buf' \in [SendSlots -> Nat]
    BY <1>1, <1>2 DEF NixlIInv, Types
  <2>5. sending' \in Sending
    BY <1>3, Zenon DEF Sending
  <2> QED
    BY <1>3, <2>1, <2>2, <2>3, <2>4, <2>5, ZenonT(30) DEF NixlIInv, Types, recvVars
<1>9. Numbered'
  <2>1. ASSUME NEW j \in Batch, Posted(j)' PROVE j <= num_sent' /\ posts'[j].seq < next_seq'[posts'[j].peer]
    <3>1. CASE j = k
      BY <3>1, <1>1, <1>3, <1>4, <1>7
    <3>2. CASE j # k
      <4>1. posts'[j] = posts[j] /\ Posted(j)
        BY <2>1, <3>2, <1>4, Zenon DEF Posted
      <4>2. j <= num_sent
        BY <4>1, SMTT(30) DEF NixlIInv, Numbered
      <4>3. next_seq[posts[j].peer] \in Nat
        BY <4>1, <1>6, Zenon DEF NixlIInv, Types
      <4>4. next_seq[posts[j].peer] <= next_seq'[posts[j].peer]
        BY <4>1, <4>3, <1>6, <1>7, SMTT(30)
      <4> QED
        <5>1. j <= num_sent'
          BY <4>2, <1>1, <1>3, SMTT(30) DEF Batch
        <5>2. posts[j].seq < next_seq'[posts[j].peer]
          BY <4>1, <4>3, <4>4, <1>6, <1>8 DEF Types
        <5> QED
          BY <4>1, <5>1, <5>2, Zenon
    <3> QED
      BY <3>1, <3>2, Zenon
  <2>2. ASSUME NEW j \in Batch, Posted(j), posts[j].peer = p PROVE posts[j].seq # next_seq[p]
    BY <2>2, <1>6, <1>7
  <2>3. ASSUME NEW i \in Batch, NEW j \in Batch, Posted(i)', Posted(j)',
               posts'[i].peer = posts'[j].peer, posts'[i].seq = posts'[j].seq
        PROVE  i = j
    BY <2>2, <2>3, <1>4, SMTT(30) DEF NixlIInv, Numbered, Posted
  <2> QED
    BY <2>1, <2>3, <1>3, Zenon DEF Numbered
<1>10. SendSlotsHeld'
  BY <1>1, <1>2, <1>4, <1>6, SMTT(30) DEF NixlIInv, Types, SendSlotsHeld, Posted
<1>11. RecvSlotsFree'
  <2> SUFFICES ASSUME NEW q \in Peers PROVE FreeAt(q)'
    BY Zenon DEF RecvSlotsFree
  <2>1. \A t : ~Holds(q, t)'
    BY <1>3, Zenon DEF Holds, Idle
  <2>2. FreeAt(q) /\ available_recv_slots' = available_recv_slots
        /\ available_recv_slots[q] \in Seq(RecvSlots)
    BY <1>3, ZenonT(30) DEF NixlIInv, RecvSlotsFree, Types
  <2>3. \A i \in DOMAIN available_recv_slots[q], t \in RecvSlots : t = available_recv_slots[q][i] =>
           expected_credit_seq'[q][t] = -1
    BY <2>2, <1>1, <1>7, SMTT(30) DEF FreeAt
  <2> QED
    BY <2>1, <2>2, <2>3, FreeAfter DEF FreeAt
<1>12. KeepPosts
  BY <1>4, <1>5, Zenon DEF KeepPosts, Posted
<1>13. KeepCompleted
  BY <1>3, <1>12, Zenon DEF KeepCompleted, KeepPosts, Completed, Arrived, recvVars
<1>14. NotifsTrue'
  BY <1>3, <1>12, <1>13, NotifKept, ZenonT(30) DEF NixlIInv, Types, NotifsTrue
<1>15. \A j \in Batch : Posted(j) /\ Current(j) => posts[j].peer # p \/ posts[j].recv_slot # r
  BY <1>3, <1>6, SMTT(30) DEF Current
<1>16. CurrentOrCredited'
  <2>1. ASSUME NEW j \in Batch, Posted(j) PROVE Current(j)' \/ CreditOf(j)' \in notifs'
    BY <2>1, <1>3, <1>4, <1>5, <1>6, <1>7, <1>15 DEF NixlIInv, CurrentOrCredited, Current, CreditOf
  <2>3. ASSUME NEW j \in Batch, Posted(j)' PROVE Posted(j) \/ (j = k /\ posts'[j] = posts'[k])
    BY <2>3, <1>4, Zenon DEF Posted
  <2>4. posts'[k].seq = expected_credit_seq'[posts'[k].peer][posts'[k].recv_slot]
    BY <1>4, <1>7, Zenon
  <2> QED
    BY <2>1, <2>3, <2>4, SMTT(30) DEF CurrentOrCredited, Current
<1>17. WrittenIntact'
  <2> SUFFICES ASSUME NEW j \in Batch, Posted(j)', posts'[j].stage = "done", Current(j)'
               PROVE  recv_buf'[posts'[j].peer][posts'[j].recv_slot] = j
    BY Zenon DEF WrittenIntact
  <2>1. j # k /\ posts'[j] = posts[j] /\ Posted(j)
    BY <1>4, SMTT(30) DEF Posted
  <2>2. posts[j].peer # p \/ posts[j].recv_slot # r
    BY <2>1, <1>6, <1>7 DEF Current
  <2>3. Current(j)
    BY <2>1, <2>2, <1>6, <1>7, ZenonT(30) DEF Current
  <2> QED
    BY <2>1, <2>3, <1>3, Zenon DEF NixlIInv, WrittenIntact
<1>18. ArrivalsOk'
  <2>1. ASSUME NEW q \in Peers, NEW i \in DOMAIN arrivals[q] PROVE ArrivalOk(q, arrivals[q][i])'
    <3> DEFINE a == arrivals[q][i]
    <3>1. a \in Arrival /\ ArrivalOk(q, a) /\ a.slot \in RecvSlots /\ a.meta \in Batch
      BY <2>1, ArrivalFacts, SMTT(30)
    <3>2. q # p \/ a.slot # r
      BY <3>1, <1>15, SMTT(30) DEF ArrivalOk
    <3>3. expected_credit_seq'[q][a.slot] = expected_credit_seq[q][a.slot]
      BY <3>1, <3>2, <1>7, Zenon
    <3>4. arrivals' = arrivals
      BY <1>3, Zenon DEF recvVars
    <3> QED
      BY <3>1, <3>3, <3>4, <1>3, <1>12, ArrivalKept, ZenonT(30) DEF NixlIInv, recvVars
  <2> QED
    BY <2>1, <1>3, SMTT(30) DEF NixlIInv, ArrivalsOk, ArrivalsAt, recvVars
<1>19. ReceivedOnce'
  BY <1>3, <1>12, <1>13, ReceivedKept, Zenon DEF NixlIInv, recvVars
<1> QED
  BY <1>8, <1>9, <1>10, <1>11, <1>14, <1>16, <1>17, <1>18, <1>19, SMTT(30) DEF NixlIInv

(* The write of a batch lands in its own slot: no other current batch has    *)
(* that slot.                                                                *)
LEMMA WriteKeeps == ASSUME NixlIInv, NEW k \in Batch, WriteLands(k) PROVE NixlIInv'
<1> DEFINE p == posts[k].peer
           r == posts[k].recv_slot
<1>1. Posted(k) /\ posts[k] \in PostRecord /\ posts[k].stage = "writing"
  BY DEF WriteLands, At, NixlIInv, Types, Posted, NoPost
<1>2. p \in Peers /\ r \in RecvSlots /\ posts[k].send_slot \in SendSlots /\ posts[k].seq \in Nat
  BY <1>1, Zenon DEF PostRecord
<1>3. send_buf[posts[k].send_slot] = k
  BY <1>1, Zenon DEF NixlIInv, SendSlotsHeld
<1>4. /\ posts' = [posts EXCEPT ![k] = [posts[k] EXCEPT !.stage = "done"]]
      /\ recv_buf' = [recv_buf EXCEPT ![p][r] = k]
      /\ notifs' = notifs \cup {DataNotif(k)}
      /\ UNCHANGED <<sendVars, recvVars, creditVars, send_slot_busy, send_buf>>
  BY <1>3, Zenon DEF WriteLands, Move
<1>5. posts'[k] = [posts[k] EXCEPT !.stage = "done"] /\ \A j \in Batch : j # k => posts'[j] = posts[j]
  BY <1>4, Zenon DEF NixlIInv, Types
<1>6. /\ posts'[k] \in PostRecord /\ posts'[k].stage = "done" /\ posts'[k].erased = posts[k].erased
      /\ posts'[k].peer = p /\ posts'[k].seq = posts[k].seq
      /\ posts'[k].send_slot = posts[k].send_slot /\ posts'[k].recv_slot = r
  BY <1>1, <1>5, Zenon DEF PostRecord, Stages
<1>7. posts'[k] # NoPost
  BY <1>6 DEF PostRecord, NoPost
<1>8. recv_buf'[p][r] = k /\ \A q \in Peers, t \in RecvSlots :
         (q # p \/ t # r) => recv_buf'[q][t] = recv_buf[q][t]
  BY <1>2, <1>4, Zenon DEF NixlIInv, Types
<1>9. Types'
  <2>1. posts' \in [Batch -> PostRecord \cup {NoPost}]
    BY <1>4, <1>5, <1>6, Zenon DEF NixlIInv, Types
  <2>2. recv_buf' \in [Peers -> [RecvSlots -> Nat]]
    BY <1>2, <1>4, SMTT(30) DEF NixlIInv, Types, Batch
  <2>3. notifs' \subseteq Notif
    <3>1. DataNotif(k) \in [type : {"D"}, peer : Peers, slot : RecvSlots, seq : Nat, meta : Batch]
      BY <1>2, Zenon DEF DataNotif
    <3> QED
      BY <3>1, <1>4, Zenon DEF NixlIInv, Types, Notif
  <2> QED
    BY <1>4, <2>1, <2>2, <2>3, SMTT(30) DEF NixlIInv, Types, sendVars, recvVars, creditVars
<1>10. KeepPosts
  BY <1>1, <1>5, <1>6, <1>7, ZenonT(30) DEF KeepPosts, Posted
<1>11. \A j \in Batch : Posted(j)' => Posted(j)
  BY <1>1, <1>5, Zenon DEF Posted
<1>12. \A j \in Batch : Posted(j) => /\ Current(j)' <=> Current(j)
                                     /\ Completed(j)' <=> Completed(j)
                                     /\ CreditOf(j)' = CreditOf(j)
  BY <1>4, <1>10, Zenon DEF KeepPosts, Current, Completed, CreditOf, Credit, recvVars, creditVars
<1>13. KeepCompleted
  BY <1>4, <1>12, Zenon DEF KeepCompleted, Arrived, recvVars
<1>14. Numbered'
  BY <1>4, <1>10, <1>11, Zenon DEF NixlIInv, Numbered, KeepPosts, sendVars
<1>15. SendSlotsHeld'
  BY <1>1, <1>4, <1>5, <1>6 DEF NixlIInv, SendSlotsHeld, Posted
<1>16. RecvSlotsFree'
  BY <1>4, ZenonT(30) DEF NixlIInv, RecvSlotsFree, FreeAt, Holds, sendVars, creditVars
<1>17. NotifsTrue'
  <2>1. ASSUME NEW n \in notifs PROVE NotifTrue(n)'
    BY <1>10, <1>13, NotifKept, Zenon DEF NixlIInv, Types, NotifsTrue
  <2>2. ASSUME NEW n, n = DataNotif(k) PROVE NotifTrue(n)'
    <3>1. n.type = "D" /\ n.meta = k /\ n = DataNotif(k)'
      BY <2>2, <1>6, Zenon DEF DataNotif
    <3> QED
      BY <3>1, <1>6, <1>7, Zenon DEF NotifTrue, Posted
  <2> QED
    BY <2>1, <2>2, <1>4, Zenon DEF NotifsTrue
<1>18. CurrentOrCredited'
  BY <1>4, <1>11, <1>12, Zenon DEF NixlIInv, CurrentOrCredited
<1>19. WrittenIntact'
  <2> SUFFICES ASSUME NEW j \in Batch, Posted(j)', posts'[j].stage = "done", Current(j)'
               PROVE  recv_buf'[posts'[j].peer][posts'[j].recv_slot] = j
    BY Zenon DEF WrittenIntact
  <2>1. CASE j = k
    BY <2>1, <1>6, <1>8, Zenon
  <2>2. CASE j # k
    <3>1. Posted(j) /\ posts'[j] = posts[j] /\ Current(j)
      BY <2>2, <1>5, <1>11, <1>12, Zenon
    <3>2. Current(k)
      BY <1>1, StillCurrent, ZenonT(30)
    <3>3. posts[j].peer # p \/ posts[j].recv_slot # r
      BY <2>2, <3>1, <3>2, <1>1, CurrentUnique, SMTT(30) DEF NixlIInv
    <3>4. posts[j].peer \in Peers /\ posts[j].recv_slot \in RecvSlots
      BY <3>1, Zenon DEF NixlIInv, Types, Posted, PostRecord
    <3> QED
      BY <3>1, <3>3, <3>4, <1>8, Zenon DEF NixlIInv, WrittenIntact
  <2> QED
    BY <2>1, <2>2, Zenon
<1>20. ArrivalsOk'
  <2>1. ASSUME NEW q \in Peers, NEW i \in DOMAIN arrivals[q] PROVE ArrivalOk(q, arrivals[q][i])'
    <3>1. arrivals[q][i] \in Arrival /\ ArrivalOk(q, arrivals[q][i])
      BY <2>1, ArrivalFacts, Zenon
    <3> QED
      BY <3>1, <1>4, <1>10, ArrivalKept, Zenon DEF NixlIInv, recvVars, creditVars
  <2> QED
    BY <2>1, <1>4, Zenon DEF NixlIInv, ArrivalsOk, ArrivalsAt, recvVars
<1>21. ReceivedOnce'
  BY <1>4, <1>10, <1>13, ReceivedKept, Zenon DEF NixlIInv, recvVars
<1> QED
  BY <1>9, <1>14, <1>15, <1>16, <1>17, <1>18, <1>19, <1>20, <1>21, ZenonT(30) DEF NixlIInv

-----------------------------------------------------------------------------

(* A notification is accepted: its batch is current, not completed, and not  *)
(* among the arrivals.                                                       *)
LEMMA AcceptKeeps == ASSUME NixlIInv, NEW n \in notifs, accept_data_notif(n) PROVE NixlIInv'
<1> DEFINE k == n.meta
           p == n.peer
           a == [slot |-> n.slot, seq |-> n.seq, meta |-> n.meta, stage |-> "pending"]
<1>1. /\ n \in Notif /\ n.type = "D" /\ k \in Batch /\ Posted(k) /\ posts[k].stage = "done"
      /\ n = DataNotif(k)
  BY Zenon DEF accept_data_notif, NixlIInv, Types, NotifsTrue, NotifTrue, Notif
<1>2. /\ p \in Peers /\ n.slot \in RecvSlots /\ n.seq \in Nat
      /\ posts[k].peer = p /\ posts[k].recv_slot = n.slot /\ posts[k].seq = n.seq
  BY <1>1 DEF DataNotif, Notif
<1>3. /\ inflight_recv_seq[p][n.slot] # n.seq
      /\ completed_recv_seq[p][n.slot] < n.seq
      /\ inflight_recv_seq' = [inflight_recv_seq EXCEPT ![p][n.slot] = n.seq]
      /\ arrivals' = [arrivals EXCEPT ![p] = Append(@, a)]
      /\ UNCHANGED <<sendVars, completed_recv_seq, received, creditVars, bufVars, posts, notifs>>
  BY ZenonT(30) DEF accept_data_notif, Accepts
<1>4. ~Completed(k)
  BY <1>2, <1>3, SMTT(30) DEF Completed, NixlIInv, Types
<1>5. Current(k)
  BY <1>1, <1>4, StillCurrent, Zenon
<1>6. received[k] = <<>>
  BY <1>1, <1>4, Zenon DEF NixlIInv, ReceivedOnce
<1>7. \A i \in DOMAIN arrivals[p] : arrivals[p][i].slot # n.slot
  <2> SUFFICES ASSUME NEW i \in DOMAIN arrivals[p], arrivals[p][i].slot = n.slot PROVE FALSE
    BY Zenon
  <2>1. ArrivalOk(p, arrivals[p][i]) /\ arrivals[p][i].meta \in Batch
    BY <1>2, ArrivalFacts, Zenon
  <2>2. arrivals[p][i].meta = k
    BY <2>1, <1>1, <1>2, <1>5, CurrentUnique, Zenon DEF NixlIInv, ArrivalOk
  <2> QED
    BY <2>1, <2>2, <1>2, <1>3, <1>4, Zenon DEF ArrivalOk
<1>8. a \in Arrival /\ a.slot = n.slot /\ a.seq = n.seq /\ a.meta = k /\ a.stage = "pending"
  BY <1>1, <1>2, Zenon DEF Arrival
<1>9. /\ arrivals[p] \in Seq(Arrival) /\ arrivals'[p] = Append(arrivals[p], a)
      /\ \A q \in Peers : q # p => arrivals'[q] = arrivals[q]
  BY <1>2, <1>3, ZenonT(30) DEF NixlIInv, Types
<1>10. /\ Len(arrivals[p]) \in Nat /\ DOMAIN arrivals[p] = 1 .. Len(arrivals[p])
       /\ DOMAIN arrivals'[p] = 1 .. Len(arrivals[p]) + 1
       /\ arrivals'[p] \in Seq(Arrival)
       /\ arrivals'[p][Len(arrivals[p]) + 1] = a
       /\ \A i \in 1 .. Len(arrivals[p]) : arrivals'[p][i] = arrivals[p][i]
  BY <1>8, <1>9, AppendProperties
<1>11. /\ inflight_recv_seq'[p][n.slot] = n.seq
       /\ \A q \in Peers, t \in RecvSlots :
             (q # p \/ t # n.slot) => inflight_recv_seq'[q][t] = inflight_recv_seq[q][t]
  BY <1>2, <1>3, Zenon DEF NixlIInv, Types
<1>12. Types'
  <2>1. arrivals' \in [Peers -> Seq(Arrival)]
    BY <1>3, <1>9, <1>10, ZenonT(30) DEF NixlIInv, Types
  <2>2. inflight_recv_seq' \in [Peers -> [RecvSlots -> Int]]
    BY <1>2, <1>3 DEF NixlIInv, Types
  <2> QED
    BY <1>3, <2>1, <2>2, ZenonT(30) DEF NixlIInv, Types, sendVars, creditVars, bufVars
<1>13. KeepPosts
  BY <1>3, Zenon DEF KeepPosts, Posted
<1>14. KeepCompleted
  <2>1. ASSUME NEW j \in Batch, Arrived(j)', j # k PROVE Arrived(j)
    <3>1. PICK q \in Peers : \E i \in DOMAIN arrivals'[q] : arrivals'[q][i].meta = j
      BY <2>1, Zenon DEF Arrived
    <3>2. PICK i \in DOMAIN arrivals'[q] : arrivals'[q][i].meta = j
      BY <3>1, ZenonT(30)
    <3>3. i \in DOMAIN arrivals[q] /\ arrivals[q][i].meta = j
      BY <2>1, <3>2, <1>8, <1>9, <1>10, SMTT(30)
    <3> QED
      BY <3>3, Zenon DEF Arrived
  <2> QED
    BY <2>1, <1>3, <1>4, Zenon DEF KeepCompleted, Completed
<1>15. Numbered' /\ SendSlotsHeld' /\ CurrentOrCredited' /\ WrittenIntact'
  BY <1>3, Zenon DEF NixlIInv, Numbered, SendSlotsHeld, CurrentOrCredited, WrittenIntact, Posted, Current,
              CreditOf, Credit, sendVars, creditVars, bufVars
<1>16. RecvSlotsFree'
  BY <1>3, ZenonT(30) DEF NixlIInv, RecvSlotsFree, FreeAt, Holds, sendVars, creditVars
<1>17. NotifsTrue'
  BY <1>3, <1>13, <1>14, NotifKept, Zenon DEF NixlIInv, Types, NotifsTrue
<1>18. ArrivalsOk'
  <2> SUFFICES ASSUME NEW q \in Peers PROVE ArrivalsAt(q)'
    BY Zenon DEF ArrivalsOk
  <2>1. ArrivalsAt(q) /\ arrivals[q] \in Seq(Arrival)
    BY Zenon DEF NixlIInv, Types, ArrivalsOk
  <2>2. ASSUME NEW i \in DOMAIN arrivals[q], NEW b \in Arrival, b = arrivals[q][i] PROVE ArrivalOk(q, b)'
    <3>1. ArrivalOk(q, b) /\ b.slot \in RecvSlots /\ b.meta \in Batch
      BY <2>2, ArrivalFacts, Zenon
    <3>2. inflight_recv_seq'[q][b.slot] = inflight_recv_seq[q][b.slot]
      BY <3>1, <2>2, <1>7, <1>11
    <3> QED
      BY <3>1, <3>2, <1>3, <1>13, ArrivalKept, Zenon DEF NixlIInv, creditVars
  <2>3. CASE q # p
    BY <2>1, <2>2, <2>3, <1>9, ArrivalsAfter, Zenon DEF ArrivalsAt
  <2>4. CASE q = p
    <3>1. ASSUME NEW b \in Arrival, b = a PROVE ArrivalOk(q, b)'
      <4>1. b.slot = n.slot /\ b.seq = n.seq /\ b.meta = k /\ b.stage # "copied"
        BY <3>1, <1>8, Zenon
      <4>2. posts' = posts /\ received' = received /\ Posted(k)' /\ posts'[k].stage = "done"
        BY <1>1, <1>3, Zenon DEF Posted
      <4>3. inflight_recv_seq'[q][b.slot] = b.seq
        BY <4>1, <2>4, <1>11, Zenon
      <4>4. posts'[b.meta].peer = q /\ posts'[b.meta].recv_slot = b.slot /\ posts'[b.meta].seq = b.seq
        BY <4>1, <4>2, <2>4, <1>2, Zenon
      <4>5. expected_credit_seq'[posts'[k].peer][posts'[k].recv_slot] = posts'[k].seq
        BY <4>2, <1>3, <1>5, Zenon DEF Current, creditVars
      <4>6. ~(posts'[k].seq <= completed_recv_seq'[posts'[k].peer][posts'[k].recv_slot])
        BY <4>2, <1>3, <1>4, ZenonT(30) DEF Completed
      <4> QED
        BY <4>1, <4>2, <4>3, <4>4, <4>5, <4>6, <1>6, ZenonT(30) DEF ArrivalOk, Current, Completed
    <3> DEFINE t == arrivals'[p]
    <3>2. \A i \in DOMAIN t, b \in Arrival : b = t[i] => ArrivalOk(q, b)'
      BY <2>2, <2>4, <3>1, <1>10, SMTT(30)
    <3>3. \A i, j \in DOMAIN t : t[i].slot = t[j].slot => i = j
      <4> DEFINE m == Len(arrivals[p])
      <4>1. t[m + 1].slot = n.slot /\ \A i \in 1 .. m : t[i].slot # n.slot
        BY <1>7, <1>8, <1>10, Zenon
      <4>2. \A i, j \in 1 .. m : t[i].slot = t[j].slot => i = j
        BY <2>1, <2>4, <1>10, ZenonT(30) DEF ArrivalsAt
      <4>3. m \in Nat /\ DOMAIN t = 1 .. m + 1
        BY <1>10, Zenon
      <4> HIDE DEF t, m
      <4> QED
        BY <4>1, <4>2, <4>3
    <3> QED
      BY <2>4, <3>2, <3>3, <1>10, ArrivalsAfter, ZenonT(30)
  <2> QED
    BY <2>3, <2>4, Zenon
<1>19. ReceivedOnce'
  BY <1>3, <1>13, <1>14, ReceivedKept, Zenon DEF NixlIInv
<1> QED
  BY <1>12, <1>15, <1>16, <1>17, <1>18, <1>19, Zenon DEF NixlIInv

(* A credit is taken: its batch is no longer current, the slot is free.      *)
LEMMA CreditKeeps == ASSUME NixlIInv, NEW n \in notifs, on_recv_credit(n) PROVE NixlIInv'
<1> DEFINE p == n.peer
           r == n.slot
           l == available_recv_slots[p]
<1>1. /\ n \in Notif /\ n.type = "C" /\ p \in Peers /\ r \in RecvSlots /\ n.seq \in Nat
      /\ NotifTrue(n)
  BY Zenon DEF on_recv_credit, NixlIInv, Types, NotifsTrue, Notif
<1>2. PICK k \in Batch : /\ Posted(k) /\ posts[k].stage = "done" /\ n = CreditOf(k)
                         /\ Completed(k) /\ ~Arrived(k)
  BY <1>1, Zenon DEF NotifTrue
<1>3. posts[k].peer = p /\ posts[k].recv_slot = r /\ posts[k].seq = n.seq
  BY <1>2, Zenon DEF CreditOf, Credit
<1>4. /\ expected_credit_seq[p][r] = n.seq
      /\ expected_credit_seq' = [expected_credit_seq EXCEPT ![p][r] = -1]
      /\ available_recv_slots' = [available_recv_slots EXCEPT ![p] = Append(@, r)]
      /\ UNCHANGED <<sendVars, recvVars, bufVars, posts, notifs>>
  BY Zenon DEF on_recv_credit, Expects, ReturnSlot
<1>5. Current(k)
  BY <1>3, <1>4, Zenon DEF Current
<1>6. /\ expected_credit_seq'[p][r] = -1
      /\ \A q \in Peers, t \in RecvSlots :
            (q # p \/ t # r) => expected_credit_seq'[q][t] = expected_credit_seq[q][t]
  BY <1>1, <1>4, SMTT(30) DEF NixlIInv, Types
<1>7. /\ l \in Seq(RecvSlots) /\ available_recv_slots'[p] = Append(l, r)
      /\ \A q \in Peers : q # p => available_recv_slots'[q] = available_recv_slots[q]
  BY <1>1, <1>4, Zenon DEF NixlIInv, Types
<1>8. /\ Len(l) \in Nat /\ DOMAIN l = 1 .. Len(l) /\ DOMAIN Append(l, r) = 1 .. Len(l) + 1
      /\ Append(l, r) \in Seq(RecvSlots) /\ Append(l, r)[Len(l) + 1] = r
      /\ Len(Append(l, r)) = Len(l) + 1
      /\ \A i \in 1 .. Len(l) : Append(l, r)[i] = l[i] /\ l[i] \in RecvSlots
  BY <1>1, <1>7, AppendProperties
<1>9. Types'
  <2>1. available_recv_slots' \in [Peers -> Seq(RecvSlots)]
    BY <1>4, <1>7, <1>8, ZenonT(30) DEF NixlIInv, Types
  <2>2. expected_credit_seq' \in [Peers -> [RecvSlots -> Int]]
    BY <1>1, <1>4 DEF NixlIInv, Types
  <2> QED
    BY <1>4, <2>1, <2>2, ZenonT(30) DEF NixlIInv, Types, sendVars, recvVars, bufVars
<1>10. KeepPosts
  BY <1>4, Zenon DEF KeepPosts, Posted
<1>11. KeepCompleted
  BY <1>4, Zenon DEF KeepCompleted, Completed, Arrived, recvVars
<1>12. Numbered' /\ SendSlotsHeld'
  BY <1>4, Zenon DEF NixlIInv, Numbered, SendSlotsHeld, Posted, sendVars, bufVars
<1>13. RecvSlotsFree'
  <2> SUFFICES ASSUME NEW q \in Peers PROVE FreeAt(q)'
    BY Zenon DEF RecvSlotsFree
  <2>1. FreeAt(q) /\ available_recv_slots[q] \in Seq(RecvSlots)
    BY Zenon DEF NixlIInv, RecvSlotsFree, Types
  <2>2. \A t : Holds(q, t)' <=> Holds(q, t)
    BY <1>4, Zenon DEF Holds, sendVars
  <2>3. \A t \in RecvSlots : Holds(q, t)' => expected_credit_seq'[q][t] = -1
    BY <2>1, <2>2, <1>6, ZenonT(30) DEF FreeAt
  <2>4. CASE q # p
    <3>1. \A i \in DOMAIN available_recv_slots[q], t \in RecvSlots : t = available_recv_slots[q][i] =>
             expected_credit_seq'[q][t] = -1 /\ ~Holds(q, t)'
      BY <2>1, <2>2, <2>4, <1>6 DEF FreeAt
    <3>2. \A i, j \in 1 .. Len(available_recv_slots[q]) :
             available_recv_slots[q][i] = available_recv_slots[q][j] => i = j
      BY <2>1 DEF FreeAt
    <3> QED
      BY <2>1, <2>3, <2>4, <3>1, <3>2, <1>7, FreeAfter, SMTT(30)
  <2>5. CASE q = p
    <3>1. \A i \in 1 .. Len(l) : expected_credit_seq[p][l[i]] = -1 /\ ~Holds(p, l[i])
      BY <2>1, <2>5, <1>8, ZenonT(30) DEF FreeAt
    <3>2. \A i \in 1 .. Len(l) : l[i] # r
      BY <3>1, <1>1, <1>4, SMTT(30)
    <3>3. ~Holds(p, r)
      BY <2>1, <2>5, <1>1, <1>4 DEF FreeAt
    <3>4. \A i, j \in 1 .. Len(l) : l[i] = l[j] => i = j
      BY <2>1, <2>5, <1>8, ZenonT(30) DEF FreeAt
    <3> DEFINE t == Append(l, r)
    <3>5. \A i \in DOMAIN t, u \in RecvSlots : u = t[i] =>
             expected_credit_seq'[q][u] = -1 /\ ~Holds(q, u)'
      <4> SUFFICES ASSUME NEW i \in DOMAIN t, NEW u \in RecvSlots, u = t[i]
                   PROVE  expected_credit_seq'[q][u] = -1 /\ ~Holds(q, u)'
        BY Zenon
      <4>1. CASE i = Len(l) + 1
        BY <4>1, <1>6, <1>8, <2>2, <2>5, <3>3, ZenonT(30)
      <4>2. CASE i \in 1 .. Len(l)
        BY <4>2, <1>6, <1>8, <2>2, <2>5, <3>1, <3>2, SMTT(30)
      <4> QED
        BY <4>1, <4>2, <1>8
    <3>6. \A i, j \in 1 .. Len(t) : t[i] = t[j] => i = j
      BY <3>2, <3>4, <1>8, SMTT(30)
    <3> QED
      BY <2>3, <2>5, <3>5, <3>6, <1>7, <1>8, FreeAfter, ZenonT(30)
  <2> QED
    BY <2>4, <2>5, Zenon
<1>14. NotifsTrue'
  BY <1>4, <1>10, <1>11, NotifKept, Zenon DEF NixlIInv, Types, NotifsTrue
<1>15. \A j \in Batch : Posted(j) => /\ posts[j].seq \in Nat /\ posts[j].peer \in Peers
                                     /\ posts[j].recv_slot \in RecvSlots
  BY Zenon DEF NixlIInv, Types, Posted, PostRecord
<1>16. CurrentOrCredited'
  <2> SUFFICES ASSUME NEW j \in Batch, Posted(j) PROVE Current(j)' \/ CreditOf(j)' \in notifs'
    BY <1>4, Zenon DEF CurrentOrCredited, Posted
  <2>1. CASE j = k
    BY <2>1, <1>2, <1>4, ZenonT(30) DEF CreditOf, Credit
  <2>2. CASE j # k /\ Current(j)
    <3>1. posts[j].peer # p \/ posts[j].recv_slot # r
      BY <2>2, <1>2, <1>3, <1>5, CurrentUnique, Zenon DEF NixlIInv
    <3> QED
      BY <2>2, <3>1, <1>4, <1>6, <1>15 DEF Current
  <2>3. CASE CreditOf(j) \in notifs
    BY <2>3, <1>4, Zenon DEF CreditOf, Credit
  <2> QED
    BY <2>1, <2>2, <2>3, Zenon DEF NixlIInv, CurrentOrCredited
<1>17. WrittenIntact'
  <2> SUFFICES ASSUME NEW j \in Batch, Posted(j), posts[j].stage = "done", Current(j)'
               PROVE  recv_buf[posts[j].peer][posts[j].recv_slot] = j
    BY <1>4, ZenonT(30) DEF WrittenIntact, Posted, bufVars
  <2>1. Current(j)
    BY <1>4, <1>6, <1>15 DEF Current
  <2> QED
    BY <2>1, Zenon DEF NixlIInv, WrittenIntact
<1>18. ArrivalsOk'
  <2> SUFFICES ASSUME NEW q \in Peers, NEW i \in DOMAIN arrivals[q] PROVE ArrivalOk(q, arrivals[q][i])'
    BY <1>4, Zenon DEF NixlIInv, ArrivalsOk, ArrivalsAt, recvVars
  <2> DEFINE a == arrivals[q][i]
  <2>1. a \in Arrival /\ ArrivalOk(q, a) /\ a.slot \in RecvSlots /\ a.meta \in Batch
    BY ArrivalFacts, Zenon
  <2>2. a.meta # k
    BY <1>2, Zenon DEF Arrived
  <2>3. q # p \/ a.slot # r
    BY <2>1, <2>2, <1>2, <1>3, <1>5, CurrentUnique, ZenonT(30) DEF NixlIInv, ArrivalOk
  <2>4. expected_credit_seq'[q][a.slot] = expected_credit_seq[q][a.slot]
    BY <2>1, <2>3, <1>6, Zenon
  <2>5. arrivals' = arrivals
    BY <1>4, Zenon DEF recvVars
  <2> QED
    BY <2>1, <2>4, <2>5, <1>4, <1>10, ArrivalKept, ZenonT(30) DEF NixlIInv, recvVars
<1>19. ReceivedOnce'
  BY <1>4, <1>10, <1>11, ReceivedKept, Zenon DEF NixlIInv, recvVars
<1> QED
  BY <1>9, <1>12, <1>13, <1>14, <1>16, <1>17, <1>18, <1>19, ZenonT(30) DEF NixlIInv

-----------------------------------------------------------------------------

(* A function on 1..n is a sequence.                                         *)
LEMMA SeqOf ==
    ASSUME NEW S, NEW n \in Nat, NEW t \in [1..n -> S]
    PROVE  t \in Seq(S) /\ Len(t) = n /\ DOMAIN t = 1..n
  OBVIOUS

(* Steps of the receiving pool leave the sender's side alone.                *)
LEMMA RecvFrame ==
    ASSUME NixlIInv, Types', NotifsTrue', ArrivalsOk', ReceivedOnce', notifs \subseteq notifs',
           UNCHANGED <<sendVars, creditVars, bufVars, posts>>
    PROVE  NixlIInv'
<1>1. Numbered' /\ SendSlotsHeld' /\ WrittenIntact'
  BY Zenon DEF NixlIInv, Numbered, SendSlotsHeld, WrittenIntact, Posted, Current, sendVars, creditVars,
         bufVars
<1>2. CurrentOrCredited'
  BY Zenon DEF NixlIInv, CurrentOrCredited, Posted, Current, CreditOf, Credit, creditVars
<1>3. RecvSlotsFree'
  BY ZenonT(30) DEF NixlIInv, RecvSlotsFree, FreeAt, Holds, sendVars, creditVars
<1> QED
  BY <1>1, <1>2, <1>3, Zenon DEF NixlIInv

(* The copies out of the slots of p are started.                             *)
LEMMA DrainMetaKeeps == ASSUME NixlIInv, NEW p \in Peers, drain_meta_arrivals(p) PROVE NixlIInv'
<1> DEFINE l == arrivals[p]
           t == [i \in DOMAIN l |-> IF l[i].stage = "pending" THEN [l[i] EXCEPT !.stage = "copying"]
                                                              ELSE l[i]]
<1>1. /\ arrivals' = [arrivals EXCEPT ![p] = t]
      /\ UNCHANGED <<sendVars, inflight_recv_seq, completed_recv_seq, received, creditVars,
                     bufVars, posts, notifs>>
  BY Zenon DEF drain_meta_arrivals
<1>2. l \in Seq(Arrival) /\ arrivals'[p] = t /\ \A q \in Peers : q # p => arrivals'[q] = arrivals[q]
  BY <1>1, Zenon DEF NixlIInv, Types
<1>3. ASSUME NEW i \in DOMAIN l
      PROVE  /\ t[i] \in Arrival /\ t[i].slot = l[i].slot /\ t[i].seq = l[i].seq /\ t[i].meta = l[i].meta
             /\ t[i].stage = "copied" <=> l[i].stage = "copied"
  <2>1. l[i] \in Arrival
    BY <1>2, <1>3
  <2> QED
    BY <2>1, Zenon DEF Arrival
<1>4. t \in Seq(Arrival) /\ DOMAIN t = DOMAIN l
  <2>1. Len(l) \in Nat /\ DOMAIN l = 1..Len(l)
    BY <1>2
  <2>2. t \in [1..Len(l) -> Arrival]
    BY <2>1, <1>3, ZenonT(30)
  <2> QED
    BY <2>1, <2>2, SeqOf, Zenon
<1> HIDE DEF t
<1>5. Types'
  <2>1. arrivals' \in [Peers -> Seq(Arrival)]
    BY <1>1, <1>4, Zenon DEF NixlIInv, Types
  <2> QED
    BY <1>1, <2>1, Zenon DEF NixlIInv, Types, sendVars, creditVars, bufVars
<1>6. KeepPosts
  BY <1>1, Zenon DEF KeepPosts, Posted
<1>7. KeepCompleted
  <2>1. \A k \in Batch : Arrived(k)' => Arrived(k)
    BY <1>2, <1>3, <1>4 DEF Arrived
  <2> QED
    BY <2>1, <1>1, ZenonT(30) DEF KeepCompleted, Completed
<1>8. NotifsTrue'
  BY <1>1, <1>6, <1>7, NotifKept, Zenon DEF NixlIInv, Types, NotifsTrue
<1>9. ArrivalsOk'
  <2> SUFFICES ASSUME NEW q \in Peers PROVE ArrivalsAt(q)'
    BY Zenon DEF ArrivalsOk
  <2>1. ArrivalsAt(q) /\ arrivals[q] \in Seq(Arrival)
    BY Zenon DEF NixlIInv, Types, ArrivalsOk
  <2>2. ASSUME NEW i \in DOMAIN arrivals[q], NEW b \in Arrival, b = arrivals[q][i] PROVE ArrivalOk(q, b)'
    <3>1. ArrivalOk(q, b)
      BY <2>2, ArrivalFacts, Zenon
    <3> QED
      BY <3>1, <1>1, <1>6, ArrivalKept, Zenon DEF NixlIInv, creditVars
  <2>3. CASE q # p
    BY <2>1, <2>2, <2>3, <1>2, ArrivalsAfter, Zenon DEF ArrivalsAt
  <2>4. CASE q = p
    <3>1. ASSUME NEW i \in DOMAIN t, NEW b \in Arrival, b = t[i] PROVE ArrivalOk(q, b)'
      <4>1. l[i] \in Arrival /\ i \in DOMAIN l
        BY <1>2, <1>4
      <4>2. PICK c \in Arrival : c = l[i]
        BY <4>1, Zenon
      <4>3. ArrivalOk(q, c)'
        BY <2>2, <2>4, <4>1, <4>2, Zenon
      <4>4. b.slot = c.slot /\ b.seq = c.seq /\ b.meta = c.meta /\ (b.stage = "copied" <=> c.stage = "copied")
        BY <3>1, <4>1, <4>2, <1>3, Zenon
      <4> QED
        BY <4>3, <4>4, Zenon DEF ArrivalOk
    <3>2. \A i, j \in DOMAIN t : t[i].slot = t[j].slot => i = j
      BY <2>1, <2>4, <1>3, <1>4, Zenon DEF ArrivalsAt
    <3> QED
      BY <2>4, <3>1, <3>2, <1>2, <1>4, ArrivalsAfter, Zenon
  <2> QED
    BY <2>3, <2>4, Zenon
<1>10. ReceivedOnce'
  BY <1>1, <1>6, <1>7, ReceivedKept, Zenon DEF NixlIInv
<1> QED
  BY <1>1, <1>5, <1>8, <1>9, <1>10, RecvFrame, Zenon

(* A copy ends: the slot still holds the batch's own data, which is          *)
(* processed for the first time, and the slot is marked.                     *)
LEMMA FinishKeeps == ASSUME NixlIInv, NEW p \in Peers, NEW i, FinishCopy(p, i) PROVE NixlIInv'
<1> DEFINE l == arrivals[p]
           a == l[i]
           t == [l EXCEPT ![i] = [a EXCEPT !.stage = "copied"]]
<1>1. /\ i \in DOMAIN l /\ a.stage = "copying"
      /\ received' = [received EXCEPT ![a.meta] = Append(@, recv_buf[p][a.slot])]
      /\ completed_recv_seq' = [completed_recv_seq EXCEPT ![p][a.slot] = IF @ < a.seq THEN a.seq ELSE @]
      /\ inflight_recv_seq' = [inflight_recv_seq EXCEPT ![p][a.slot] = IF @ = a.seq THEN -1 ELSE @]
      /\ arrivals' = [arrivals EXCEPT ![p] = t]
      /\ UNCHANGED <<sendVars, creditVars, bufVars, posts, notifs>>
  BY Zenon DEF FinishCopy, Mark
<1>2. /\ a \in Arrival /\ ArrivalOk(p, a) /\ a.slot \in RecvSlots /\ a.seq \in Nat
      /\ a.meta \in Batch
  BY <1>1, ArrivalFacts, Zenon
<1> PICK k \in Batch : k = a.meta
  BY <1>2, SMTT(30)
<1>3. /\ Posted(k) /\ posts[k].stage = "done" /\ Current(k) /\ posts[k].peer = p
      /\ posts[k].recv_slot = a.slot /\ posts[k].seq = a.seq /\ ~Completed(k) /\ received[k] = <<>>
  BY <1>1, <1>2, ZenonT(30) DEF ArrivalOk
<1>4. recv_buf[p][a.slot] = k
  BY <1>2, <1>3, SMTT(30) DEF NixlIInv, WrittenIntact
<1>5. received'[k] = <<k>> /\ \A j \in Batch : j # k => received'[j] = received[j]
  BY <1>1, <1>2, <1>3, <1>4, SMTT(30) DEF NixlIInv, Types
<1>6. /\ completed_recv_seq[p][a.slot] \in Int /\ completed_recv_seq[p][a.slot] < a.seq
      /\ completed_recv_seq'[p][a.slot] = a.seq
      /\ \A q \in Peers, u \in RecvSlots : (q # p \/ u # a.slot) =>
            /\ completed_recv_seq'[q][u] = completed_recv_seq[q][u]
            /\ inflight_recv_seq'[q][u] = inflight_recv_seq[q][u]
  <2>1. completed_recv_seq[p][a.slot] \in Int
    BY <1>2, ZenonT(30) DEF NixlIInv, Types
  <2>2. completed_recv_seq[p][a.slot] < a.seq
    BY <2>1, <1>2, <1>3 DEF Completed
  <2> QED
    BY <2>1, <2>2, <1>1, <1>2, ZenonT(30) DEF NixlIInv, Types
<1>7. l \in Seq(Arrival) /\ arrivals'[p] = t /\ \A q \in Peers : q # p => arrivals'[q] = arrivals[q]
  BY <1>1, Zenon DEF NixlIInv, Types
<1>8. /\ [a EXCEPT !.stage = "copied"] \in Arrival
      /\ t[i] = [a EXCEPT !.stage = "copied"]
      /\ \A j \in DOMAIN l : j # i => t[j] = l[j]
      /\ DOMAIN t = DOMAIN l
  BY <1>1, <1>2, <1>7, ZenonT(30) DEF Arrival
<1>9. t \in Seq(Arrival)
  <2>1. Len(l) \in Nat /\ DOMAIN l = 1..Len(l) /\ l \in [1..Len(l) -> Arrival]
    BY <1>7
  <2>2. t \in [1..Len(l) -> Arrival]
    BY <2>1, <1>8, ZenonT(30)
  <2> QED
    BY <2>2, <2>1, SeqOf, Zenon
<1>10. t[i].slot = a.slot /\ t[i].seq = a.seq /\ t[i].meta = k /\ t[i].stage = "copied"
  BY <1>2, <1>8, ZenonT(30) DEF Arrival
<1>11. Types'
  <2>1. arrivals' \in [Peers -> Seq(Arrival)]
    BY <1>1, <1>9, Zenon DEF NixlIInv, Types
  <2>2. /\ completed_recv_seq' \in [Peers -> [RecvSlots -> Int]]
        /\ inflight_recv_seq' \in [Peers -> [RecvSlots -> Int]]
    <3>1. /\ completed_recv_seq \in [Peers -> [RecvSlots -> Int]]
          /\ inflight_recv_seq \in [Peers -> [RecvSlots -> Int]]
      BY Zenon DEF NixlIInv, Types
    <3>2. inflight_recv_seq[p][a.slot] \in Int /\ a.seq \in Int /\ completed_recv_seq[p][a.slot] \in Int
      BY <1>2, <3>1
    <3>3. completed_recv_seq' \in [Peers -> [RecvSlots -> Int]]
      BY <1>1, <3>1, <3>2, ZenonT(30)
    <3> DEFINE v == IF inflight_recv_seq[p][a.slot] = a.seq THEN -1 ELSE inflight_recv_seq[p][a.slot]
    <3>4. v \in Int /\ inflight_recv_seq' = [inflight_recv_seq EXCEPT ![p][a.slot] = v]
      BY <1>1, <3>2
    <3> HIDE DEF v
    <3>5. inflight_recv_seq' \in [Peers -> [RecvSlots -> Int]]
      BY <3>1, <3>4, ZenonT(30)
    <3> QED
      BY <3>3, <3>5, Zenon
  <2>3. received' \in [Batch -> Seq(Nat)]
    <3>1. <<k>> \in Seq(Nat)
      BY <1>2 DEF Batch
    <3> QED
      BY <3>1, <1>1, <1>5, ZenonT(30) DEF NixlIInv, Types
  <2> QED
    BY <1>1, <2>1, <2>2, <2>3, ZenonT(30) DEF NixlIInv, Types, sendVars, creditVars, bufVars
<1>12. KeepPosts
  BY <1>1, Zenon DEF KeepPosts, Posted
<1>13. \A j \in Batch : Posted(j) /\ Completed(j) => Completed(j)'
  <2> SUFFICES ASSUME NEW j \in Batch, Posted(j), Completed(j) PROVE Completed(j)'
    BY Zenon
  <2>1. /\ posts' = posts /\ posts[j].peer \in Peers /\ posts[j].recv_slot \in RecvSlots
        /\ posts[j].seq \in Nat
    BY <1>1, ZenonT(30) DEF NixlIInv, Types, Posted, PostRecord
  <2>2. CASE posts[j].peer = p /\ posts[j].recv_slot = a.slot
    BY <2>1, <2>2, <1>2, <1>6 DEF Completed
  <2>3. CASE posts[j].peer # p \/ posts[j].recv_slot # a.slot
    BY <2>1, <2>3, <1>6, Zenon DEF Completed
  <2> QED
    BY <2>2, <2>3, Zenon
<1> HIDE DEF t
<1>14. KeepCompleted
  <2>1. \A j \in Batch : Arrived(j)' => Arrived(j)
    <3>1. \A j \in DOMAIN l : t[j].meta = l[j].meta
      BY <1>8, <1>10, ZenonT(30)
    <3> QED
      BY <3>1, <1>7, <1>8, SMTT(30) DEF Arrived
  <2> QED
    BY <2>1, <1>13, Zenon DEF KeepCompleted
<1>15. NotifsTrue'
  BY <1>1, <1>12, <1>14, NotifKept, Zenon DEF NixlIInv, Types, NotifsTrue
<1>16. ArrivalsOk'
  <2> SUFFICES ASSUME NEW q \in Peers PROVE ArrivalsAt(q)'
    BY Zenon DEF ArrivalsOk
  <2>1. ArrivalsAt(q) /\ arrivals[q] \in Seq(Arrival)
    BY Zenon DEF NixlIInv, Types, ArrivalsOk
  <2>2. ASSUME NEW j \in DOMAIN arrivals[q], q # p \/ j # i, NEW b \in Arrival, b = arrivals[q][j]
        PROVE  ArrivalOk(q, b)'
    <3>1. ArrivalOk(q, b) /\ b.slot \in RecvSlots /\ b.meta \in Batch
      BY <2>2, ArrivalFacts, ZenonT(30)
    <3>2. q # p \/ b.slot # a.slot
      BY <2>1, <2>2, <1>1, SMTT(30) DEF ArrivalsAt
    <3>3. b.meta # k
      BY <3>1, <3>2, <1>3, SMTT(30) DEF ArrivalOk
    <3>4. /\ expected_credit_seq'[q][b.slot] = expected_credit_seq[q][b.slot]
          /\ completed_recv_seq'[q][b.slot] = completed_recv_seq[q][b.slot]
          /\ inflight_recv_seq'[q][b.slot] = inflight_recv_seq[q][b.slot]
          /\ received'[b.meta] = received[b.meta]
      BY <3>1, <3>2, <3>3, <1>1, <1>5, <1>6, ZenonT(30) DEF creditVars
    <3> QED
      BY <3>1, <3>4, <1>12, ArrivalKept, Zenon DEF NixlIInv
  <2>3. CASE q # p
    BY <2>1, <2>2, <2>3, <1>7, ArrivalsAfter, ZenonT(30) DEF ArrivalsAt
  <2>4. CASE q = p
    <3>1. ASSUME NEW b \in Arrival, b = t[i] PROVE ArrivalOk(q, b)'
      <4>1. b.slot = a.slot /\ b.seq = a.seq /\ b.meta = k /\ b.stage = "copied"
        BY <3>1, <1>10, SMTT(30)
      <4>2. posts' = posts /\ Posted(b.meta)' /\ posts'[b.meta].stage = "done"
        BY <4>1, <1>1, <1>3, SMTT(30) DEF Posted
      <4>3. posts'[b.meta].peer = q /\ posts'[b.meta].recv_slot = b.slot /\ posts'[b.meta].seq = b.seq
        BY <4>1, <4>2, <2>4, <1>3, SMTT(30)
      <4>4. expected_credit_seq'[q][b.slot] = b.seq
        BY <4>1, <2>4, <1>1, <1>3, ZenonT(30) DEF Current, creditVars
      <4>5. b.seq <= completed_recv_seq'[q][b.slot]
        BY <4>1, <2>4, <1>2, <1>6
      <4> QED
        BY <4>1, <4>2, <4>3, <4>4, <4>5, ZenonT(30) DEF ArrivalOk, Current, Completed
    <3>2. \A j \in DOMAIN t, b \in Arrival : b = t[j] => ArrivalOk(q, b)'
      BY <2>2, <2>4, <3>1, <1>8, Zenon
    <3>3. \A j, m \in DOMAIN t : t[j].slot = t[m].slot => j = m
      <4>1. \A j \in DOMAIN l : t[j].slot = l[j].slot
        BY <1>8, <1>10, ZenonT(30)
      <4> QED
        BY <4>1, <2>1, <2>4, <1>8, ZenonT(30) DEF ArrivalsAt
    <3> QED
      BY <2>4, <3>2, <3>3, <1>7, <1>9, ArrivalsAfter, ZenonT(30)
  <2> QED
    BY <2>3, <2>4, Zenon
<1>17. ReceivedOnce'
  <2> SUFFICES ASSUME NEW j \in Batch, received'[j] # <<>>
               PROVE  Posted(j)' /\ Completed(j)' /\ received'[j] = <<j>>
    BY Zenon DEF ReceivedOnce
  <2>1. CASE j # k
    <3>1. Posted(j) /\ Completed(j) /\ received[j] = <<j>>
      BY <2>1, <1>5, Zenon DEF NixlIInv, ReceivedOnce
    <3> QED
      BY <2>1, <3>1, <1>5, <1>12, <1>13, Zenon DEF KeepPosts
  <2>2. CASE j = k
    <3>1. posts' = posts /\ Posted(j)'
      BY <2>2, <1>1, <1>3, Zenon DEF Posted
    <3>2. Completed(j)'
      <4>1. posts'[j].peer = p /\ posts'[j].recv_slot = a.slot /\ posts'[j].seq = a.seq
        BY <2>2, <3>1, <1>3, ZenonT(30)
      <4>2. a.seq <= completed_recv_seq'[p][a.slot]
        BY <1>2, <1>6
      <4> QED
        BY <4>1, <4>2, Zenon DEF Completed
    <3> QED
      BY <2>2, <3>1, <3>2, <1>5, Zenon
  <2> QED
    BY <2>1, <2>2, Zenon
<1> QED
  BY <1>1, <1>11, <1>15, <1>16, <1>17, RecvFrame, Zenon

(* A credit is sent for a copied slot, whose entry is taken off the list.    *)
LEMMA SendCreditKeeps == ASSUME NixlIInv, NEW p \in Peers, NEW i, SendCredit(p, i) PROVE NixlIInv'
<1> DEFINE l == arrivals[p]
           a == l[i]
           n == Credit(p, a.slot, a.seq)
           t == [j \in 1..(Len(l) - 1) |-> IF j < i THEN l[j] ELSE l[j + 1]]
           at(j) == IF j < i THEN j ELSE j + 1
<1>1. /\ i \in DOMAIN l /\ a.stage = "copied"
      /\ notifs' = notifs \cup {n}
      /\ arrivals' = [arrivals EXCEPT ![p] = t]
      /\ UNCHANGED <<sendVars, inflight_recv_seq, completed_recv_seq, received, creditVars,
                     bufVars, posts>>
  BY Zenon DEF SendCredit, RemoveArrival
<1>2. /\ a \in Arrival /\ ArrivalOk(p, a) /\ a.slot \in RecvSlots /\ a.seq \in Nat
      /\ a.meta \in Batch
  BY <1>1, ArrivalFacts, Zenon
<1> PICK k \in Batch : k = a.meta
  BY <1>2, Zenon
<1>3. /\ Posted(k) /\ posts[k].stage = "done" /\ Current(k) /\ posts[k].peer = p
      /\ posts[k].recv_slot = a.slot /\ posts[k].seq = a.seq /\ Completed(k)
  BY <1>1, <1>2, Zenon DEF ArrivalOk
<1>4. l \in Seq(Arrival) /\ arrivals'[p] = t /\ \A q \in Peers : q # p => arrivals'[q] = arrivals[q]
  BY <1>1, ZenonT(30) DEF NixlIInv, Types
<1>5. Len(l) \in Nat /\ DOMAIN l = 1..Len(l) /\ i \in 1..Len(l) /\ Len(l) - 1 \in Nat
  BY <1>1, <1>4
<1>6. DOMAIN t = 1..(Len(l) - 1)
  BY ZenonT(30)
<1>7. ASSUME NEW j \in DOMAIN t
      PROVE  at(j) \in DOMAIN l /\ at(j) # i /\ t[j] = l[at(j)] /\ t[j] \in Arrival
  <2>1. at(j) \in DOMAIN l /\ at(j) # i /\ t[j] = l[at(j)]
    BY <1>5, <1>6
  <2> QED
    BY <2>1, <1>4, SMTT(30)
<1>8. \A j, m \in DOMAIN t : at(j) = at(m) => j = m
  BY <1>5, <1>6
<1>9. t \in Seq(Arrival)
  <2>1. t \in [1..(Len(l) - 1) -> Arrival]
    BY <1>6, <1>7, ZenonT(30)
  <2> QED
    BY <2>1, <1>5, SeqOf, ZenonT(30)
<1> HIDE DEF t, at
<1>10. n \in Notif /\ n.type = "C" /\ n = CreditOf(k)
  BY <1>2, <1>3, Zenon DEF Credit, CreditOf, Notif
<1>11. Types'
  <2>1. arrivals' \in [Peers -> Seq(Arrival)]
    BY <1>1, <1>9, Zenon DEF NixlIInv, Types
  <2>2. notifs' \subseteq Notif
    BY <1>1, <1>10, ZenonT(30) DEF NixlIInv, Types
  <2> QED
    BY <1>1, <2>1, <2>2, Zenon DEF NixlIInv, Types, sendVars, creditVars, bufVars
<1>12. KeepPosts
  BY <1>1, SMTT(30) DEF KeepPosts, Posted
<1>13. KeepCompleted
  <2>1. \A j \in Batch : Arrived(j)' => Arrived(j)
    BY <1>4, <1>7 DEF Arrived
  <2> QED
    BY <2>1, <1>1, ZenonT(30) DEF KeepCompleted, Completed
<1>14. ~Arrived(k)'
  <2> SUFFICES ASSUME NEW q \in Peers, NEW j \in DOMAIN arrivals'[q], arrivals'[q][j].meta = k
               PROVE  FALSE
    BY SMTT(30) DEF Arrived
  <2>1. CASE q # p
    <3>1. ArrivalOk(q, arrivals[q][j])
      BY <2>1, <1>4, ArrivalFacts, Zenon
    <3> QED
      BY <2>1, <3>1, <1>3, <1>4, ZenonT(30) DEF ArrivalOk
  <2>2. CASE q = p
    <3>1. at(j) \in DOMAIN l /\ at(j) # i /\ l[at(j)].meta = k
      BY <2>2, <1>4, <1>7, ZenonT(30)
    <3>2. ArrivalOk(p, l[at(j)])
      BY <3>1, ArrivalFacts, SMTT(30)
    <3>3. l[at(j)].slot = a.slot
      BY <3>1, <3>2, <1>3, Zenon DEF ArrivalOk
    <3>4. ArrivalsAt(p)
      BY Zenon DEF NixlIInv, ArrivalsOk
    <3> QED
      BY <3>1, <3>3, <3>4, <1>1, Zenon DEF ArrivalsAt
  <2> QED
    BY <2>1, <2>2, ZenonT(30)
<1>15. NotifsTrue'
  <2> SUFFICES ASSUME NEW c, c \in notifs' PROVE NotifTrue(c)'
    BY Zenon DEF NotifsTrue
  <2>1. CASE c \in notifs
    BY <2>1, <1>12, <1>13, NotifKept, ZenonT(30) DEF NixlIInv, Types, NotifsTrue
  <2>2. CASE c = n
    <3>1. Posted(k)' /\ posts'[k].stage = "done" /\ Completed(k)' /\ CreditOf(k)' = CreditOf(k)
      BY <1>1, <1>3, ZenonT(30) DEF Posted, Completed, CreditOf, Credit
    <3> QED
      BY <2>2, <3>1, <1>10, <1>14, SMTT(30) DEF NotifTrue
  <2> QED
    BY <2>1, <2>2, <1>1, Zenon
<1>16. ArrivalsOk'
  <2> SUFFICES ASSUME NEW q \in Peers PROVE ArrivalsAt(q)'
    BY Zenon DEF ArrivalsOk
  <2>1. ArrivalsAt(q) /\ arrivals[q] \in Seq(Arrival)
    BY Zenon DEF NixlIInv, Types, ArrivalsOk
  <2>2. ASSUME NEW j \in DOMAIN arrivals[q], NEW b \in Arrival, b = arrivals[q][j] PROVE ArrivalOk(q, b)'
    <3>1. ArrivalOk(q, b)
      BY <2>2, ArrivalFacts, ZenonT(30)
    <3> QED
      BY <3>1, <1>1, <1>12, ArrivalKept, Zenon DEF NixlIInv, creditVars
  <2>3. CASE q # p
    BY <2>1, <2>2, <2>3, <1>4, ArrivalsAfter, SMTT(30) DEF ArrivalsAt
  <2>4. CASE q = p
    <3>1. \A j \in DOMAIN t, b \in Arrival : b = t[j] => ArrivalOk(q, b)'
      BY <2>2, <2>4, <1>7, ZenonT(30)
    <3>2. \A j, m \in DOMAIN t : t[j].slot = t[m].slot => j = m
      BY <2>1, <2>4, <1>7, <1>8 DEF ArrivalsAt
    <3> QED
      BY <2>4, <3>1, <3>2, <1>4, <1>9, ArrivalsAfter, Zenon
  <2> QED
    BY <2>3, <2>4, Zenon
<1>17. ReceivedOnce'
  BY <1>1, <1>12, <1>13, ReceivedKept, Zenon DEF NixlIInv
<1> QED
  BY <1>1, <1>11, <1>15, <1>16, <1>17, RecvFrame, ZenonT(30)

-----------------------------------------------------------------------------
(* Every step keeps the invariant.                                           *)
LEMMA NixlNext == NixlIInv /\ [Next]_vars => NixlIInv'
<1> SUFFICES ASSUME NixlIInv, [Next]_vars PROVE NixlIInv'
  BY Zenon
<1>1. ASSUME NEW p \in Peers, EnterSend(p) PROVE NixlIInv'
  BY <1>1, EnterKeeps, Zenon
<1>2. CASE acquire_recv_slot
  BY <1>2, AcquireKeeps, Zenon
<1>3. CASE send_batch
  BY <1>3, SendKeeps, Zenon
<1>4. ASSUME NEW k \in Batch, PickUp(k) \/ post_write(k) \/ WriteLands(k) \/ WriteFails(k)
      PROVE  NixlIInv'
  BY <1>4, PostKeeps, WriteKeeps, Zenon
<1>5. CASE drain_pending_xfers
  BY <1>5, DrainXfersKeeps, Zenon
<1>6. ASSUME NEW n \in notifs, Poll(n) PROVE NixlIInv'
  BY <1>6, AcceptKeeps, CreditKeeps, Zenon DEF Poll
<1>7. ASSUME NEW p \in Peers, Recv(p) PROVE NixlIInv'
  BY <1>7, DrainMetaKeeps, FinishKeeps, SendCreditKeeps, Zenon DEF Recv
<1>8. CASE UNCHANGED vars
  <2> USE <1>8 DEF vars, sendVars, recvVars, creditVars, bufVars
  <2>1. UNCHANGED <<Types, Numbered, SendSlotsHeld>>
    BY Zenon DEF Types, Numbered, SendSlotsHeld, Posted
  <2>2. UNCHANGED <<RecvSlotsFree, CurrentOrCredited, WrittenIntact>>
    BY ZenonT(30) DEF RecvSlotsFree, FreeAt, Holds, CurrentOrCredited, WrittenIntact, Posted, Current, CreditOf,
           Credit
  <2>3. UNCHANGED NotifsTrue
    BY SMTT(30) DEF NotifsTrue, NotifTrue, Posted, DataNotif, CreditOf, Credit, Completed, Arrived
  <2>4. UNCHANGED ArrivalsOk
    BY DEF ArrivalsOk, ArrivalsAt, ArrivalOk, Posted, Current, Completed
  <2>5. UNCHANGED ReceivedOnce
    BY Zenon DEF ReceivedOnce, Posted, Completed
  <2> QED
    BY <2>1, <2>2, <2>3, <2>4, <2>5, ZenonT(30) DEF NixlIInv
<1> QED
  BY <1>1, <1>2, <1>3, <1>4, <1>5, <1>6, <1>7, <1>8, ZenonT(30) DEF Next

(* A batch is processed at most once and with the data sent under its        *)
(* metadata, although its receive slot is written again after the credit and *)
(* notifications are repeated, delayed and reordered (accept_data_notif,     *)
(* mark_recv_completed, on_recv_credit).                                     *)
THEOREM ReceivedIntactAlways == Spec => []ReceivedIntact
<1>1. NixlIInv => ReceivedIntact
  BY Zenon DEF NixlIInv, ReceivedOnce, ReceivedIntact
<1> QED
  BY <1>1, NixlInit, NixlNext, PTL DEF Spec

-----------------------------------------------------------------------------

(* No slot is lost: a free receive slot is listed, a busy send slot is the   *)
(* slot of a transfer that is not erased.                                    *)
SlotsListed ==
    \A p \in Peers, s \in RecvSlots : expected_credit_seq[p][s] = -1 /\ ~Holds(p, s) =>
        \E i \in DOMAIN available_recv_slots[p] : available_recv_slots[p][i] = s

BusyOwned ==
    \A s \in SendSlots : send_slot_busy[s] =>
        \E k \in Batch : Posted(k) /\ ~posts[k].erased /\ posts[k].send_slot = s

(* At first every receive slot is listed and no send slot is busy.           *)
LEMMA SlotsInit == Init => SlotsListed /\ BusyOwned
<1> SUFFICES ASSUME Init PROVE SlotsListed /\ BusyOwned
  BY Zenon
<1> USE NixlAssumption
<1>1. SlotsListed
  <2> SUFFICES ASSUME NEW p \in Peers, NEW s \in RecvSlots
               PROVE  \E i \in DOMAIN available_recv_slots[p] : available_recv_slots[p][i] = s
    BY Zenon DEF SlotsListed
  <2>1. s + 1 \in 1..RecvRing /\ (s + 1) - 1 = s
    BY DEF RecvSlots
  <2> QED
    BY <2>1, Zenon DEF Init
<1>2. BusyOwned
  BY ZenonT(30) DEF Init, BusyOwned
<1> QED
  BY <1>1, <1>2, Zenon

(* What is not at the front of a list stays listed when the front is taken.  *)
LEMMA TailKeepsOthers ==
    ASSUME NEW S, NEW l \in Seq(S), l # <<>>, NEW i \in DOMAIN l, l[i] # Head(l)
    PROVE  \E j \in DOMAIN Tail(l) : Tail(l)[j] = l[i]
<1>1. Len(l) \in Nat /\ i \in 1 .. Len(l)
  BY LenProperties, Zenon
<1>2. i # 1
  OBVIOUS
<1>3. PICK j : j = i - 1
  BY Zenon
<1>4. j \in 1 .. Len(l) - 1 /\ j + 1 = i
  BY <1>1, <1>2, <1>3
<1>5. DOMAIN Tail(l) = 1 .. Len(l) - 1 /\ \A x \in 1 .. Len(l) - 1 : Tail(l)[x] = l[x + 1]
  BY <1>1
<1> QED
  BY <1>4, <1>5, Zenon

(* The slot taken from the front is held, the others stay listed.            *)
LEMMA AcquireListed == ASSUME NixlIInv, SlotsListed, acquire_recv_slot PROVE SlotsListed'
<1> DEFINE p == sending.peer
           l == available_recv_slots[p]
<1>1. /\ p \in Peers /\ l \in Seq(RecvSlots) /\ l # <<>> /\ sending.at = "recv_slot"
      /\ sending' = [at |-> "send_slot", peer |-> p, recv_slot |-> Head(l)]
      /\ available_recv_slots' = [available_recv_slots EXCEPT ![p] = Tail(l)]
      /\ UNCHANGED expected_credit_seq
  <2>1. /\ sending.at = "recv_slot" /\ l # <<>>
        /\ sending' = [at |-> "send_slot", peer |-> p, recv_slot |-> Head(l)]
        /\ available_recv_slots' = [available_recv_slots EXCEPT ![p] = Tail(l)]
        /\ UNCHANGED expected_credit_seq
    BY Zenon DEF acquire_recv_slot
  <2>2. sending \in Sending /\ available_recv_slots \in [Peers -> Seq(RecvSlots)]
    BY Zenon DEF NixlIInv, Types
  <2>3. p \in Peers
    <3>1. Idle.at # "recv_slot"
      BY Zenon DEF Idle
    <3>2. sending # Idle
      BY <2>1, <3>1, ZenonT(30)
    <3> QED
      BY <2>2, <3>2, Zenon DEF Sending
  <2>4. l \in Seq(RecvSlots)
    BY <2>2, <2>3, Zenon
  <2> QED
    BY <2>1, <2>3, <2>4, Zenon
<1>2. ASSUME NEW q \in Peers, NEW s \in RecvSlots, expected_credit_seq[q][s] = -1,
             q # p \/ s # Head(l)
      PROVE  \E i \in DOMAIN available_recv_slots'[q] : available_recv_slots'[q][i] = s
  <2>1. PICK i \in DOMAIN available_recv_slots[q] : available_recv_slots[q][i] = s
    BY <1>1, <1>2, Zenon DEF SlotsListed, Holds
  <2>2. CASE q # p
    BY <1>1, <2>1, <2>2, Zenon DEF NixlIInv, Types
  <2>3. CASE q = p
    <3>1. available_recv_slots'[q] = Tail(l)
      BY <1>1, <2>3, ZenonT(30) DEF NixlIInv, Types
    <3>2. i \in DOMAIN l /\ l[i] = s /\ s # Head(l)
      BY <1>2, <2>1, <2>3, Zenon
    <3>3. \E j \in DOMAIN Tail(l) : Tail(l)[j] = l[i]
      BY <1>1, <3>2, TailKeepsOthers, Zenon
    <3> QED
      BY <3>1, <3>2, <3>3, Zenon
  <2> QED
    BY <2>2, <2>3, Zenon
<1>3. ASSUME NEW q \in Peers, NEW s \in RecvSlots, q = p, s = Head(l)
      PROVE  Holds(q, s)'
  <2>1. sending'.at = "send_slot" /\ sending'.peer = p /\ sending'.recv_slot = Head(l)
    BY <1>1, ZenonT(30)
  <2> QED
    BY <1>3, <2>1, Zenon DEF Holds
<1>4. \A q \in Peers, s \in RecvSlots : expected_credit_seq[q][s] = -1 /\ ~Holds(q, s)' =>
        \E i \in DOMAIN available_recv_slots'[q] : available_recv_slots'[q][i] = s
  BY <1>2, <1>3, Zenon
<1> QED
  BY <1>1, <1>4, ZenonT(30) DEF SlotsListed

(* The slot held is the one whose credit is awaited from now on, and the     *)
(* send slot taken is owned by the new transfer.                             *)
LEMMA SendListed ==
    ASSUME NixlIInv, SlotsListed, BusyOwned, send_batch PROVE SlotsListed' /\ BusyOwned'
<1> DEFINE p == sending.peer
           r == sending.recv_slot
<1> PICK k : k = num_sent + 1
  BY Zenon
<1>1. /\ p \in Peers /\ r \in RecvSlots /\ k \in Batch /\ num_sent \in Nat /\ next_seq[p] \in Nat
      /\ sending.at = "send_slot"
  <2>1. sending.at = "send_slot" /\ sending # Idle /\ sending \in Sending
    BY DEF NixlIInv, Types, Idle, send_batch
  <2>2. p \in Peers /\ r \in RecvSlots
    BY <2>1, Zenon DEF Sending, Idle
  <2>3. num_sent \in Nat /\ num_sent < MaxSends /\ next_seq[p] \in Nat
    BY <2>1, <2>2, Zenon DEF NixlIInv, Types, Numbered
  <2>4. k \in Batch
    BY <2>3, NixlAssumption DEF Batch
  <2> QED
    BY <2>1, <2>2, <2>3, <2>4, ZenonT(30)
<1>2. PICK z \in SendSlots :
        /\ send_slot_busy' = [send_slot_busy EXCEPT ![z] = TRUE]
        /\ posts' = [posts EXCEPT ![k] =
              [stage |-> "queued", peer |-> p, seq |-> next_seq[p],
               send_slot |-> z, recv_slot |-> r, erased |-> FALSE]]
  BY ZenonT(30) DEF send_batch
<1>3. /\ expected_credit_seq' = [expected_credit_seq EXCEPT ![p][r] = next_seq[p]]
      /\ sending' = Idle /\ UNCHANGED available_recv_slots
  BY Zenon DEF send_batch
<1>4. SlotsListed'
  <2> SUFFICES ASSUME NEW q \in Peers, NEW s \in RecvSlots, expected_credit_seq'[q][s] = -1
               PROVE  \E i \in DOMAIN available_recv_slots[q] : available_recv_slots[q][i] = s
    BY <1>3, ZenonT(30) DEF SlotsListed
  <2>1. q # p \/ s # r
    <3>1. expected_credit_seq \in [Peers -> [RecvSlots -> Int]]
      BY Zenon DEF NixlIInv, Types
    <3>2. expected_credit_seq'[p][r] = next_seq[p]
      BY <1>1, <1>3, <3>1, ZenonT(30)
    <3>3. next_seq[p] # -1
      BY <1>1
    <3> QED
      BY <3>2, <3>3, Zenon
  <2>2. expected_credit_seq[q][s] = -1 /\ ~Holds(q, s)
    BY <1>1, <1>3, <2>1, Zenon DEF NixlIInv, Types, Holds
  <2> QED
    BY <2>2, Zenon DEF SlotsListed
<1>5. BusyOwned'
  <2> SUFFICES ASSUME NEW s \in SendSlots, send_slot_busy'[s]
               PROVE  \E j \in Batch : Posted(j)' /\ ~posts'[j].erased /\ posts'[j].send_slot = s
    BY Zenon DEF BusyOwned
  <2>1. CASE s = z
    <3>1. posts'[k].stage = "queued" /\ ~posts'[k].erased /\ posts'[k].send_slot = s
      BY <1>1, <1>2, <2>1, ZenonT(30) DEF NixlIInv, Types
    <3>2. Posted(k)'
      BY <3>1 DEF Posted, NoPost
    <3> QED
      BY <1>1, <3>1, <3>2, Zenon
  <2>2. CASE s # z
    <3>1. PICK j \in Batch : Posted(j) /\ ~posts[j].erased /\ posts[j].send_slot = s
      BY <1>2, <2>2, ZenonT(30) DEF NixlIInv, Types, BusyOwned
    <3>2. j # k
      BY <3>1, <1>1 DEF NixlIInv, Numbered, Batch
    <3> QED
      BY <3>1, <3>2, <1>2, Zenon DEF NixlIInv, Types, Posted
  <2> QED
    BY <2>1, <2>2, Zenon
<1> QED
  BY <1>4, <1>5, Zenon

(* The slot a credit gives back is listed again.                             *)
LEMMA CreditListed ==
    ASSUME NixlIInv, SlotsListed, NEW n \in notifs, on_recv_credit(n) PROVE SlotsListed'
<1> DEFINE p == n.peer
           l == available_recv_slots[p]
<1>1. n.type = "C" /\ p \in Peers /\ n.slot \in RecvSlots
  BY Zenon DEF on_recv_credit, NixlIInv, Types, Notif
<1>2. /\ expected_credit_seq' = [expected_credit_seq EXCEPT ![p][n.slot] = -1]
      /\ available_recv_slots' = [available_recv_slots EXCEPT ![p] = Append(l, n.slot)]
      /\ UNCHANGED sending
  BY Zenon DEF on_recv_credit, ReturnSlot, sendVars
<1>3. /\ l \in Seq(RecvSlots) /\ Len(l) \in Nat /\ DOMAIN l = 1..Len(l)
      /\ DOMAIN Append(l, n.slot) = 1..(Len(l) + 1) /\ Append(l, n.slot)[Len(l) + 1] = n.slot
      /\ \A i \in 1..Len(l) : Append(l, n.slot)[i] = l[i]
  <2>1. l \in Seq(RecvSlots)
    BY <1>1, Zenon DEF NixlIInv, Types
  <2> QED
    BY <2>1, <1>1, AppendProperties
<1> SUFFICES ASSUME NEW q \in Peers, NEW s \in RecvSlots, expected_credit_seq'[q][s] = -1, ~Holds(q, s)'
             PROVE  \E i \in DOMAIN available_recv_slots'[q] : available_recv_slots'[q][i] = s
  BY ZenonT(30) DEF SlotsListed
<1>4. CASE q = p /\ s = n.slot
  <2>1. available_recv_slots'[q] = Append(l, n.slot)
    BY <1>1, <1>2, <1>4, ZenonT(30) DEF NixlIInv, Types
  <2>2. Len(l) + 1 \in 1..(Len(l) + 1)
    BY <1>3
  <2> QED
    BY <2>1, <2>2, <1>3, <1>4, ZenonT(30)
<1>5. CASE q # p \/ s # n.slot
  <2>1. expected_credit_seq[q][s] = -1 /\ ~Holds(q, s)
    BY <1>1, <1>2, <1>5, Zenon DEF NixlIInv, Types, Holds
  <2>2. PICK i \in DOMAIN available_recv_slots[q] : available_recv_slots[q][i] = s
    BY <2>1, Zenon DEF SlotsListed
  <2>3. CASE q # p
    BY <1>2, <2>2, <2>3, Zenon DEF NixlIInv, Types
  <2>4. CASE q = p
    <3>1. available_recv_slots'[q] = Append(l, n.slot)
      BY <1>1, <1>2, <2>4, ZenonT(30) DEF NixlIInv, Types
    <3>2. i \in 1..Len(l) /\ l[i] = s
      BY <1>3, <2>2, <2>4, ZenonT(30)
    <3>3. i \in 1..(Len(l) + 1)
      BY <1>3, <3>2
    <3> QED
      BY <3>1, <3>2, <3>3, <1>3, Zenon
  <2> QED
    BY <2>3, <2>4, Zenon
<1> QED
  BY <1>4, <1>5, Zenon

(* What the other steps leave alone.                                         *)
LEMMA SlotsFrame ==
    /\ SlotsListed /\ UNCHANGED <<creditVars, sending>> => SlotsListed'
    /\ BusyOwned /\ UNCHANGED <<bufVars, posts>> => BusyOwned'
BY DEF SlotsListed, BusyOwned, Holds, Posted, creditVars, bufVars

(* A transfer that moves to another stage keeps its slot.                    *)
LEMMA MoveOwned ==
    ASSUME NixlIInv, BusyOwned, NEW k \in Batch, NEW st \in Stages, Move(k, st),
           UNCHANGED send_slot_busy
    PROVE  BusyOwned'
<1> SUFFICES ASSUME NEW s \in SendSlots, send_slot_busy[s]
             PROVE  \E j \in Batch : Posted(j)' /\ ~posts'[j].erased /\ posts'[j].send_slot = s
  BY Zenon DEF BusyOwned
<1>1. PICK j \in Batch : Posted(j) /\ ~posts[j].erased /\ posts[j].send_slot = s
  BY Zenon DEF BusyOwned
<1>2. posts[j] \in PostRecord
  BY <1>1, Zenon DEF NixlIInv, Types, Posted
<1>3. posts'[j].erased = posts[j].erased /\ posts'[j].send_slot = posts[j].send_slot
      /\ posts'[j].stage \in Stages
  BY <1>2, Zenon DEF NixlIInv, Types, Move, PostRecord
<1>4. Posted(j)'
  BY <1>3 DEF Posted, NoPost, Stages
<1> QED
  BY <1>1, <1>3, <1>4, Zenon

(* A slot that stays busy is not the slot of an erased transfer.             *)
LEMMA DrainOwned == ASSUME NixlIInv, BusyOwned, drain_pending_xfers PROVE BusyOwned'
<1> SUFFICES ASSUME NEW s \in SendSlots, send_slot_busy'[s]
             PROVE  \E j \in Batch : Posted(j)' /\ ~posts'[j].erased /\ posts'[j].send_slot = s
  BY Zenon DEF BusyOwned
<1>1. send_slot_busy[s] /\ \A k \in Settled : posts[k].send_slot # s
  BY ZenonT(30) DEF drain_pending_xfers
<1>2. PICK j \in Batch : Posted(j) /\ ~posts[j].erased /\ posts[j].send_slot = s
  BY <1>1, Zenon DEF BusyOwned
<1>3. posts'[j] = posts[j]
  BY <1>1, <1>2, Zenon DEF drain_pending_xfers
<1> QED
  BY <1>2, <1>3, Zenon DEF Posted

(* Every step keeps the slots.                                               *)
LEMMA SlotsNext ==
    NixlIInv /\ SlotsListed /\ BusyOwned /\ [Next]_vars => SlotsListed' /\ BusyOwned'
<1> SUFFICES ASSUME NixlIInv, SlotsListed, BusyOwned, [Next]_vars PROVE SlotsListed' /\ BusyOwned'
  BY Zenon
<1>1. ASSUME NEW p \in Peers, EnterSend(p) PROVE SlotsListed' /\ BusyOwned'
  <2>1. SlotsListed'
    BY <1>1, Zenon DEF EnterSend, SlotsListed, Holds, Idle, creditVars
  <2> QED
    BY <1>1, <2>1, SlotsFrame, Zenon DEF EnterSend
<1>2. CASE acquire_recv_slot
  BY <1>2, AcquireListed, SlotsFrame, Zenon DEF acquire_recv_slot
<1>3. CASE send_batch
  BY <1>3, SendListed, Zenon
<1>4. ASSUME NEW k \in Batch, PickUp(k) \/ post_write(k) \/ WriteLands(k) \/ WriteFails(k)
      PROVE  SlotsListed' /\ BusyOwned'
  <2>1. SlotsListed'
    BY <1>4, SlotsFrame, Zenon DEF PickUp, post_write, WriteLands, WriteFails, sendVars
  <2>2. PICK st \in Stages : Move(k, st)
    BY <1>4, Zenon DEF PickUp, post_write, WriteLands, WriteFails, Stages
  <2>3. UNCHANGED send_slot_busy
    BY <1>4, Zenon DEF PickUp, post_write, WriteLands, WriteFails, bufVars
  <2> QED
    BY <2>1, <2>2, <2>3, MoveOwned, ZenonT(30)
<1>5. CASE drain_pending_xfers
  BY <1>5, DrainOwned, SlotsFrame, Zenon DEF drain_pending_xfers, sendVars
<1>6. ASSUME NEW n \in notifs, Poll(n) PROVE SlotsListed' /\ BusyOwned'
  <2>1. CASE accept_data_notif(n)
    BY <2>1, SlotsFrame, Zenon DEF accept_data_notif, sendVars
  <2>2. CASE on_recv_credit(n)
    BY <2>2, CreditListed, SlotsFrame, SMTT(30) DEF on_recv_credit
  <2> QED
    BY <1>6, <2>1, <2>2, Zenon DEF Poll
<1>7. ASSUME NEW p \in Peers, Recv(p) PROVE SlotsListed' /\ BusyOwned'
  BY <1>7, SlotsFrame, ZenonT(30) DEF Recv, drain_meta_arrivals, FinishCopy, SendCredit, sendVars
<1>8. CASE UNCHANGED vars
  BY <1>8, SlotsFrame, Zenon DEF vars, sendVars
<1> QED
  BY <1>1, <1>2, <1>3, <1>4, <1>5, <1>6, <1>7, <1>8, ZenonT(30) DEF Next

(* Every slot of both rings has exactly one owner, so that the assertion of  *)
(* note_send_posted never fails and neither acquire_send_slot nor            *)
(* acquire_recv_slot hands out a slot that is in use.                        *)
THEOREM SlotsOwnedAlways == Spec => []SlotsOwned
<1>1. ASSUME NixlIInv, SlotsListed, BusyOwned PROVE SlotsOwned
  <2>1. ASSUME NEW p \in Peers, NEW s \in RecvSlots PROVE RecvSlotOwned(p, s)
    <3>1. FreeAt(p)
      BY <1>1, Zenon DEF NixlIInv, RecvSlotsFree
    <3>2. CASE Holds(p, s) \/ expected_credit_seq[p][s] # -1
      <4>1. Listed(p, s) = {}
        BY <3>1, <3>2, ZenonT(30) DEF Listed, FreeAt
      <4> QED
        BY <3>1, <3>2, <4>1, FS_EmptySet, Zenon DEF RecvSlotOwned, FreeAt
    <3>3. CASE ~Holds(p, s) /\ expected_credit_seq[p][s] = -1
      <4>1. PICK i \in DOMAIN available_recv_slots[p] : available_recv_slots[p][i] = s
        BY <1>1, <3>3, Zenon DEF SlotsListed
      <4>2. Listed(p, s) = {i}
        BY <3>1, <4>1, Zenon DEF Listed, FreeAt
      <4> QED
        BY <3>3, <4>2, FS_Singleton, Zenon DEF RecvSlotOwned
    <3> QED
      BY <3>2, <3>3, Zenon
  <2>2. ASSUME NEW s \in SendSlots PROVE SendSlotOwned(s)
    <3> DEFINE owners == {k \in Batch : posts[k] # NoPost /\ ~posts[k].erased /\ posts[k].send_slot = s}
    <3>1. \A k \in owners : send_slot_busy[s] /\ send_buf[s] = k
      BY <1>1, Zenon DEF NixlIInv, SendSlotsHeld, Posted
    <3>2. CASE ~send_slot_busy[s]
      <4>1. owners = {}
        BY <3>1, <3>2, Zenon
      <4> QED
        BY <3>2, <4>1, FS_EmptySet, ZenonT(30) DEF SendSlotOwned
    <3>3. CASE send_slot_busy[s]
      <4>1. owners = {send_buf[s]}
        BY <1>1, <3>1, <3>3 DEF BusyOwned, Posted
      <4> QED
        BY <3>3, <4>1, FS_Singleton, ZenonT(30) DEF SendSlotOwned
    <3> QED
      BY <3>2, <3>3, Zenon
  <2> QED
    BY <2>1, <2>2, Zenon DEF SlotsOwned
<1> QED
  BY <1>1, NixlInit, NixlNext, SlotsInit, SlotsNext, PTL DEF Spec

-----------------------------------------------------------------------------
\* What was processed was written; a failed transfer is never processed.
DeliveredIsDone == \A k \in Batch : received[k] # <<>> => posts[k].stage = "done"

(* A batch that was not posted has no stage.                                 *)
LEMMA StageFacts ==
    ASSUME Types, NEW k \in Batch
    PROVE  Posted(k) <=> posts[k].stage # "none"
<1>1. posts[k] \in PostRecord \cup {NoPost}
  BY Zenon DEF Types
<1>2. posts[k] \in PostRecord => posts[k].stage # "none"
  BY DEF PostRecord, Stages
<1>3. NoPost.stage = "none"
  BY DEF NoPost
<1> QED
  BY <1>1, <1>2, <1>3, Zenon DEF Posted

(* A transfer moves from one stage to the next, alone.                       *)
LEMMA MoveStage ==
    ASSUME Types, NEW k \in Batch, Posted(k), NEW st, Move(k, st)
    PROVE  posts'[k].stage = st /\ \A j \in Batch : j # k => posts'[j] = posts[j]
<1>1. posts[k] \in PostRecord /\ posts \in [Batch -> PostRecord \cup {NoPost}]
  BY Zenon DEF Types, Posted
<1>2. posts' = [posts EXCEPT ![k] = [posts[k] EXCEPT !.stage = st]]
  BY Zenon DEF Move
<1>3. [posts[k] EXCEPT !.stage = st].stage = st
  BY <1>1 DEF PostRecord
<1> QED
  BY <1>1, <1>2, <1>3, Zenon

\* How a step changes the stages: of batch k from one to another, or not at all.
Advances(k, from, to) ==
    /\ posts[k].stage = from /\ posts'[k].stage = to
    /\ \A j \in Batch : j # k => posts'[j].stage = posts[j].stage
SameStages == \A j \in Batch : posts'[j].stage = posts[j].stage

(* Posting, writing and failing.                                             *)
LEMMA TransferStages ==
    ASSUME NixlIInv, NEW k \in Batch
    PROVE  /\ PickUp(k) => Advances(k, "queued", "posting")
           /\ post_write(k) => Advances(k, "posting", "writing")
           /\ WriteLands(k) => Advances(k, "writing", "done")
           /\ WriteFails(k) => Advances(k, "writing", "failed")
<1>1. Types
  BY Zenon DEF NixlIInv
<1>2. ASSUME NEW st, NEW to, posts[k].stage = st, st # "none", Move(k, to)
      PROVE  Advances(k, st, to)
  BY <1>1, <1>2, StageFacts, MoveStage, Zenon DEF Advances
<1>3. PickUp(k) => posts[k].stage = "queued" /\ Move(k, "posting")
  BY Zenon DEF PickUp, At
<1>4. post_write(k) => posts[k].stage = "posting" /\ Move(k, "writing")
  BY Zenon DEF post_write, At
<1>5. WriteLands(k) => posts[k].stage = "writing" /\ Move(k, "done")
  BY Zenon DEF WriteLands, At
<1>6. WriteFails(k) => posts[k].stage = "writing" /\ Move(k, "failed")
  BY Zenon DEF WriteFails, At
<1> QED
  BY <1>2, <1>3, <1>4, <1>5, <1>6, Zenon

(* Erasing a transfer leaves its stage.                                      *)
LEMMA DrainStages == ASSUME NixlIInv, drain_pending_xfers PROVE SameStages
<1>1. posts' = [k \in Batch |-> IF k \in Settled THEN [posts[k] EXCEPT !.erased = TRUE]
                                ELSE posts[k]]
  BY Zenon DEF drain_pending_xfers
<1>2. ASSUME NEW k \in Batch, k \in Settled PROVE posts[k] \in PostRecord
  BY <1>2 DEF Settled, At, NixlIInv, Types, Posted, NoPost
<1>3. ASSUME NEW k \in Batch, k \in Settled
      PROVE  [posts[k] EXCEPT !.erased = TRUE].stage = posts[k].stage
  BY <1>2, <1>3 DEF PostRecord
<1> QED
  BY <1>1, <1>3, Zenon DEF SameStages

(* send_impl posts a batch that was not posted before.                       *)
LEMMA SendStages == ASSUME NixlIInv, send_batch PROVE \E k \in Batch : Advances(k, "none", "queued")
<1> PICK k : k = num_sent + 1
  BY Zenon
<1>1. k \in Batch
  <2>1. /\ sending.at = "send_slot" /\ num_sent \in Nat /\ MaxSends \in Nat
        /\ sending # Idle => num_sent < MaxSends
    BY NixlAssumption, Zenon DEF send_batch, NixlIInv, Types, Numbered
  <2>2. sending # Idle
    BY <2>1 DEF Idle
  <2> QED
    BY <2>1, <2>2 DEF Batch
<1>2. PICK s \in SendSlots :
         posts' = [posts EXCEPT ![k] =
                      [stage |-> "queued", peer |-> sending.peer, seq |-> next_seq[sending.peer],
                       send_slot |-> s, recv_slot |-> sending.recv_slot, erased |-> FALSE]]
  BY Zenon DEF send_batch
<1>3. ~Posted(k)
  <2>1. Posted(k) => k <= num_sent /\ num_sent \in Nat
    BY <1>1, Zenon DEF NixlIInv, Numbered, Types
  <2> QED
    BY <2>1
<1>4. posts[k].stage = "none"
  BY <1>1, <1>3, StageFacts, Zenon DEF NixlIInv
<1>5. posts'[k].stage = "queued" /\ \A j \in Batch : j # k => posts'[j] = posts[j]
  BY <1>1, <1>2 DEF NixlIInv, Types
<1> QED
  BY <1>1, <1>4, <1>5, Zenon DEF Advances

\* The batch is processed, with its own data.
Delivers(k) ==
    /\ posts[k].stage = "done" /\ received[k] = <<>> /\ received'[k] = <<k>>
    /\ \A j \in Batch : j # k => received'[j] = received[j]

(* A copy that ends delivers its batch, which was written and not delivered  *)
(* before.                                                                   *)
LEMMA FinishDelivers ==
    ASSUME NixlIInv, NEW p \in Peers, NEW i, FinishCopy(p, i)
    PROVE  \E k \in Batch : Delivers(k)
<1> DEFINE a == arrivals[p][i]
           k == a.meta
<1>1. /\ i \in DOMAIN arrivals[p] /\ a.stage = "copying"
      /\ received' = [received EXCEPT ![k] = Append(@, recv_buf[p][a.slot])]
  BY Zenon DEF FinishCopy
<1>2. k \in Batch /\ ArrivalOk(p, a)
  BY <1>1, ArrivalFacts, Zenon
<1>3. /\ posts[k].stage = "done" /\ received[k] = <<>> /\ Posted(k) /\ Current(k)
      /\ posts[k].peer = p /\ posts[k].recv_slot = a.slot
  <2>1. a.stage # "copied"
    BY <1>1
  <2> QED
    BY <1>2, <2>1, Zenon DEF ArrivalOk
<1>4. recv_buf[p][a.slot] = k
  BY <1>2, <1>3, Zenon DEF NixlIInv, WrittenIntact
<1>5. received \in [Batch -> Seq(Nat)]
  BY Zenon DEF NixlIInv, Types
<1> HIDE DEF a, k
<1>6. Append(<<>>, k) = <<k>>
  OBVIOUS
<1>7. received'[k] = <<k>> /\ \A j \in Batch : j # k => received'[j] = received[j]
  BY <1>1, <1>2, <1>3, <1>4, <1>5, <1>6, Zenon
<1> QED
  BY <1>2, <1>3, <1>7, Zenon DEF Delivers

\* The stages a transfer goes through.
Onward == {<<"none", "queued">>, <<"queued", "posting">>, <<"posting", "writing">>,
           <<"writing", "done">>, <<"writing", "failed">>}

\* All that a step can do to stages and deliveries.
Moves ==
    \/ SameStages /\ UNCHANGED received
    \/ /\ \E k \in Batch : \E m \in Onward : Advances(k, m[1], m[2])
       /\ UNCHANGED received
    \/ UNCHANGED posts /\ \E k \in Batch : Delivers(k)

(* Every step moves one transfer on, delivers one batch, or does neither.    *)
LEMMA StepMoves == ASSUME NixlIInv, [Next]_vars PROVE Moves
<1>1. ASSUME UNCHANGED posts, UNCHANGED received PROVE Moves
  BY <1>1, Zenon DEF Moves, SameStages
<1>2. ASSUME NEW k \in Batch, NEW m \in Onward, Advances(k, m[1], m[2]), UNCHANGED received
      PROVE  Moves
  BY <1>2, Zenon DEF Moves
<1>3. ASSUME NEW p \in Peers, EnterSend(p) PROVE UNCHANGED <<posts, received>>
  BY <1>3, Zenon DEF EnterSend, recvVars
<1>4. acquire_recv_slot => UNCHANGED <<posts, received>>
  BY Zenon DEF acquire_recv_slot, recvVars
<1>5. ASSUME send_batch PROVE Moves
  <2>1. PICK k \in Batch : Advances(k, "none", "queued")
    BY <1>5, SendStages, Zenon
  <2>2. UNCHANGED received
    BY <1>5, Zenon DEF send_batch, recvVars
  <2>3. <<"none", "queued">> \in Onward /\ <<"none", "queued">>[1] = "none"
        /\ <<"none", "queued">>[2] = "queued"
    BY DEF Onward
  <2> QED
    BY <2>1, <2>2, <2>3, <1>2, Zenon
<1>6. ASSUME NEW k \in Batch, PickUp(k) \/ post_write(k) \/ WriteLands(k) \/ WriteFails(k)
      PROVE  Moves
  <2>1. UNCHANGED received
    BY <1>6, Zenon DEF PickUp, post_write, WriteLands, WriteFails, recvVars
  <2>2. \E m \in Onward : Advances(k, m[1], m[2])
    <3>1. \/ Advances(k, "queued", "posting") \/ Advances(k, "posting", "writing")
          \/ Advances(k, "writing", "done") \/ Advances(k, "writing", "failed")
      BY <1>6, TransferStages, Zenon
    <3>2. \A a, b : <<a, b>>[1] = a /\ <<a, b>>[2] = b
      BY Zenon
    <3> QED
      BY <3>1, <3>2, Zenon DEF Onward
  <2> QED
    BY <2>1, <2>2, <1>2, Zenon
<1>7. ASSUME drain_pending_xfers PROVE Moves
  BY <1>7, DrainStages, Zenon DEF Moves, drain_pending_xfers, recvVars
<1>8. ASSUME NEW n \in notifs, Poll(n) PROVE UNCHANGED <<posts, received>>
  BY <1>8, Zenon DEF Poll, accept_data_notif, on_recv_credit, recvVars
<1>9. ASSUME NEW p \in Peers, Recv(p) PROVE Moves
  <2>1. CASE drain_meta_arrivals(p)
    BY <2>1, <1>1, Zenon DEF drain_meta_arrivals
  <2>2. ASSUME NEW i, FinishCopy(p, i) PROVE Moves
    BY <2>2, FinishDelivers, Zenon DEF Moves, FinishCopy
  <2>3. ASSUME NEW i, SendCredit(p, i) PROVE Moves
    BY <2>3, <1>1, Zenon DEF SendCredit
  <2> QED
    BY <1>9, <2>1, <2>2, <2>3, Zenon DEF Recv
<1>10. UNCHANGED vars => UNCHANGED <<posts, received>>
  BY Zenon DEF vars, recvVars
<1> QED
  BY <1>1, <1>3, <1>4, <1>5, <1>6, <1>7, <1>8, <1>9, <1>10, Zenon DEF Next

(* A delivered batch stays done.                                             *)
LEMMA DoneNext == NixlIInv /\ DeliveredIsDone /\ [Next]_vars => DeliveredIsDone'
<1> SUFFICES ASSUME NixlIInv, DeliveredIsDone, Moves, NEW j \in Batch, received'[j] # <<>>
             PROVE  posts'[j].stage = "done"
  BY StepMoves, Zenon DEF DeliveredIsDone
<1>1. CASE SameStages /\ UNCHANGED received
  BY <1>1, Zenon DEF SameStages, DeliveredIsDone
<1>2. ASSUME NEW k \in Batch, NEW m \in Onward, Advances(k, m[1], m[2]), UNCHANGED received
      PROVE  posts'[j].stage = "done"
  <2>1. m[1] # "done"
    BY DEF Onward
  <2>2. posts[j].stage = "done"
    BY <1>2, Zenon DEF DeliveredIsDone
  <2> QED
    BY <2>1, <2>2, <1>2, Zenon DEF Advances
<1>3. ASSUME NEW k \in Batch, Delivers(k), UNCHANGED posts PROVE posts'[j].stage = "done"
  BY <1>3, Zenon DEF Delivers, DeliveredIsDone
<1> QED
  BY <1>1, <1>2, <1>3, Zenon DEF Moves

(* Every step of the dispatcher, the post workers, the fabric and the pool   *)
(* is a step of the link, or none.                                           *)
LEMMA NixlLinkStep ==
    NixlIInv /\ NixlIInv' /\ DeliveredIsDone /\ [Next]_vars => [Promise!LinkNext]_(Promise!linkVars)
<1> SUFFICES ASSUME NixlIInv, NixlIInv', DeliveredIsDone, Moves
             PROVE  Promise!LinkNext \/ UNCHANGED Promise!linkVars
  BY StepMoves, Zenon
<1> DEFINE sent == {k \in Batch : posts[k] # NoPost}
           delivered == {k \in Batch : received[k] = <<k>>}
           lost == At("failed")
<1>1. /\ \A k \in Batch : k \in sent <=> posts[k].stage # "none"
      /\ \A k \in Batch : k \in sent' <=> posts'[k].stage # "none"
  <2>1. Types /\ Types'
    BY Zenon DEF NixlIInv
  <2>2. ASSUME NEW k \in Batch PROVE posts'[k] # NoPost <=> posts'[k].stage # "none"
    <3>1. posts'[k] \in PostRecord \cup {NoPost}
      BY <2>1, Zenon DEF Types
    <3>2. posts'[k] \in PostRecord => posts'[k].stage # "none"
      BY DEF PostRecord, Stages
    <3>3. NoPost.stage = "none"
      BY DEF NoPost
    <3> QED
      BY <3>1, <3>2, <3>3, Zenon
  <2> QED
    BY <2>1, <2>2, StageFacts, Zenon DEF Posted
<1>2. /\ lost = {k \in Batch : posts[k].stage = "failed"}
      /\ lost' = {k \in Batch : posts'[k].stage = "failed"}
  BY Zenon DEF At
<1>3. sent \subseteq Batch /\ sent' \subseteq Batch
  BY Zenon
<1>4. UNCHANGED <<sent, delivered, lost>> => UNCHANGED Promise!linkVars
  BY Zenon DEF Promise!linkVars
<1>5. /\ Promise!Submit <=> sent' \in SUBSET Batch /\ sent \subseteq sent' /\ UNCHANGED <<delivered, lost>>
      /\ \A b : Promise!Deliver(b) <=> /\ b \in sent \ (delivered \cup lost)
                                       /\ delivered' = delivered \cup {b} /\ UNCHANGED <<sent, lost>>
      /\ \A b : Promise!Lose(b) <=> /\ b \in sent \ (delivered \cup lost)
                                    /\ lost' = lost \cup {b} /\ UNCHANGED <<sent, delivered>>
  BY Zenon DEF Promise!Submit, Promise!Deliver, Promise!Lose
<1>d. UNCHANGED received => delivered' = delivered
  BY Zenon
<1>f. \A b \in Batch : b \in delivered => posts[b].stage = "done"
  <2>1. \A b \in Batch : <<b>> # <<>>
    OBVIOUS
  <2> QED
    BY <2>1, Zenon DEF DeliveredIsDone
<1> HIDE DEF sent, lost
<1>6. CASE SameStages /\ UNCHANGED received
  <2>1. sent' = sent /\ lost' = lost
    BY <1>1, <1>2, <1>3, <1>6, Zenon DEF SameStages
  <2> QED
    BY <2>1, <1>4, <1>6, <1>d, Zenon
<1>7. ASSUME NEW k \in Batch, NEW m \in Onward, Advances(k, m[1], m[2]), UNCHANGED received
      PROVE  Promise!LinkNext \/ UNCHANGED Promise!linkVars
  <2>1. delivered' = delivered
    BY <1>7, <1>d, Zenon
  <2>2. CASE m[2] = "failed"
    <3>1. m[1] = "writing"
      BY <2>2 DEF Onward
    <3>2. sent' = sent
      BY <1>1, <1>3, <1>7, <2>2, <3>1, Zenon DEF Advances
    <3>3. lost' = lost \cup {k} /\ k \in sent /\ k \notin lost /\ k \notin delivered
      BY <1>1, <1>2, <1>7, <1>f, <2>2, <3>1, Zenon DEF Advances
    <3> QED
      BY <3>2, <3>3, <2>1, <1>5, Zenon DEF Promise!LinkNext
  <2>3. CASE m[2] # "failed"
    <3>1. m[1] # "failed" /\ m[2] # "none"
      BY DEF Onward
    <3>2. lost' = lost
      BY <1>2, <1>7, <2>3, <3>1, Zenon DEF Advances
    <3>3. sent \subseteq sent'
      BY <1>1, <1>3, <1>7, <3>1, Zenon DEF Advances
    <3> QED
      BY <3>2, <3>3, <2>1, <1>3, <1>5, Zenon DEF Promise!LinkNext
  <2> QED
    BY <2>2, <2>3, Zenon
<1>8. ASSUME NEW k \in Batch, Delivers(k), UNCHANGED posts PROVE Promise!LinkNext
  <2>1. sent' = sent /\ lost' = lost
    BY <1>1, <1>2, <1>3, <1>8, Zenon
  <2>2. k \in sent /\ k \notin lost
    BY <1>1, <1>2, <1>8, Zenon DEF Delivers
  <2>3. <<k>> # <<>>
    OBVIOUS
  <2>4. k \notin delivered /\ delivered' = delivered \cup {k}
    BY <2>3, <1>8, Zenon DEF Delivers
  <2> QED
    BY <2>1, <2>2, <2>4, <1>5, Zenon DEF Promise!LinkNext
<1> QED
  BY <1>6, <1>7, <1>8, Zenon DEF Moves

(* At first nothing was sent.                                                *)
LEMMA NixlLinkStart == Init => Promise!LinkInit /\ DeliveredIsDone
<1> SUFFICES ASSUME Init PROVE Promise!LinkInit /\ DeliveredIsDone
  BY Zenon
<1>1. \A k \in Batch : posts[k] = NoPost /\ received[k] = <<>> /\ received[k] # <<k>>
  BY DEF Init
<1>2. NoPost.stage # "failed"
  BY DEF NoPost
<1> QED
  BY <1>1, <1>2, Zenon DEF Promise!LinkInit, DeliveredIsDone, At

(* RDMA writes with their notifications and credits keep the promise of a    *)
(* link, its fairness apart: for any rings, peers and workers, a batch is    *)
(* processed once, only if send_impl accepted it, and never after the fabric *)
(* reported its transfer as failed.                                          *)
THEOREM NixlIsLink ==
    Spec => Promise!LinkInit /\ [][Promise!LinkNext]_(Promise!linkVars)
<1>1. Init => NixlIInv /\ DeliveredIsDone /\ Promise!LinkInit
  BY NixlInit, NixlLinkStart, Zenon
<1>2. NixlIInv /\ DeliveredIsDone /\ [Next]_vars
         => NixlIInv' /\ DeliveredIsDone' /\ [Promise!LinkNext]_(Promise!linkVars)
  BY NixlNext, DoneNext, NixlLinkStep, Zenon
<1> QED
  BY <1>1, <1>2, PTL DEF Spec

=============================================================================
