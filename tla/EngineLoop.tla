----------------------------- MODULE EngineLoop ------------------------------
(***************************************************************************)
(* Engine.single_module_loop_overlap: one thread launches the kernels of a  *)
(* batch and only then waits for those of the batch before it, so that CPU  *)
(* and GPU overlap.  Index arrays reach the GPU through rings of buffers    *)
(* (GdrRingBuffer): the CPU writes a slot at once, the kernel that reads it *)
(* runs when the stream gets there.  Nothing but the size of the ring keeps *)
(* the CPU from writing over a slot whose kernel has not run yet.  Kernels  *)
(* of one step that read different rings are one kernel here.               *)
(*                                                                          *)
(* The rings do not influence each other or the loop; a behaviour follows   *)
(* one of them.  The pipeline around the engine is abstracted: a batch that *)
(* was dispatched comes back at any kind of layer (MoEPipeline says which). *)
(***************************************************************************)
EXTENDS Integers, Sequences, FiniteSets

CONSTANTS
    Req,
    Slots               \* DMOE_GDR_RING_SLOTS

ASSUME EngineLoopAssumption == Slots \in Nat \ {0, 1} /\ IsFiniteSet(Req)

VARIABLES
    ring,           \* the ring followed: one of Rings
    idx,            \* its last slot handed out
    real_sampler,   \* RealSampler rather than DummySampler
    stream,         \* kernels queued on the GPU: the ring slot each reads
    pc,             \* where the loop is
    forward_batch,  \* this turn launched a batch that has a result
    last_batch,     \* the turn before did
    result_queue,   \* launched batches, not yet dispatched
    at,             \* request -> the layer kind it waits at, or where it is
    outbox,         \* batches put to the dispatcher
    end_flag

loopVars == <<pc, forward_batch, last_batch, result_queue, end_flag>>
gpuVars == <<ring, idx, real_sampler, stream>>
vars == <<gpuVars, loopVars, at, outbox>>

Rings == {"gather", "stash", "topk", "mapping", "experts", "continue"}
NoSlot == -1
Slot == 0 .. Slots - 1

Init ==
    /\ ring \in Rings
    /\ idx = NoSlot
    /\ real_sampler \in BOOLEAN
    /\ stream = <<>>
    /\ pc = "top"
    /\ forward_batch = FALSE
    /\ last_batch = FALSE
    /\ result_queue = <<>>
    /\ at = [q \in Req |-> "new"]
    /\ outbox = <<>>
    /\ end_flag = FALSE

-----------------------------------------------------------------------------
\* The rings and the stream

\* Mutant: the wrap comes one slot early.
WrapEarly(i) == (i + 1) % (Slots - 1)

\* GdrRingBuffer.get_one_handle, GdrRing::next: no fence.
get_one_handle(i) == (i + 1) % Slots

\* Kernels launched one after the other; each takes a slot of the rings it
\* names.  No two of one step name the same ring.
Launch(rings) ==
    /\ idx' = IF \E k \in DOMAIN rings : ring \in rings[k] THEN get_one_handle(idx) ELSE idx
    /\ stream' = stream \o [k \in DOMAIN rings |->
                               IF ring \in rings[k] THEN get_one_handle(idx) ELSE NoSlot]
    /\ UNCHANGED <<ring, real_sampler>>

\* External: the GPU finishes its oldest kernel; every event recorded behind
\* it is one kernel closer.
Retire ==
    LET closer(b) == [b EXCEPT !.event = IF @ > 0 THEN @ - 1 ELSE 0]
    IN  /\ stream # <<>>
        /\ stream' = Tail(stream)
        /\ result_queue' = [i \in DOMAIN result_queue |-> closer(result_queue[i])]
        /\ outbox' = [i \in DOMAIN outbox |-> closer(outbox[i])]
        /\ UNCHANGED <<ring, idx, real_sampler, pc, forward_batch, last_batch, at, end_flag>>

-----------------------------------------------------------------------------
\* A turn of the loop

Waiting(kind) == {q \in Req : at[q] = kind}
Move(batch, where) == at' = [q \in Req |-> IF q \in batch THEN where ELSE at[q]]

\* recv_new_request, then _admit_request: to layer 0.
RecvNewRequest(q) ==
    /\ pc = "top" /\ ~end_flag
    /\ at[q] = "new"
    /\ Move({q}, "attn")
    /\ UNCHANGED <<gpuVars, loopVars, outbox>>

\* Taking a batch from its layer merges queued batches, or sums copies, by a
\* gather on the same stream (GdrRing): not where there is one batch only.
Gather == {{}, {"gather"}}

\* A batch at an attention layer or for the experts: its kernels, its event,
\* its result.  The event stands behind everything launched so far.
RunBatch(kind, batch) ==
    /\ pc = "top" /\ ~end_flag
    /\ batch # {} /\ batch \subseteq Waiting(kind)
    /\ \E g \in Gather :
          Launch(IF kind = "attn" THEN <<{"stash", "topk"} \cup g>> ELSE <<{"experts"} \cup g>>)
    /\ result_queue' = Append(result_queue,
          [kind |-> kind, batch |-> batch, event |-> Len(stream'),
           topk |-> IF kind = "attn" /\ ring = "topk" THEN idx' ELSE NoSlot])
    /\ Move(batch, "busy")
    /\ forward_batch' = TRUE
    /\ pc' = "post"
    /\ UNCHANGED <<last_batch, outbox, end_flag>>

\* sample_results: the batch at the final pseudo-layer.  It has no result and
\* no event; the requests not done go back to layer 0.  RealSampler waits for
\* the stream (tolist), DummySampler gathers the rows that go on.
SampleBatch(batch, done) ==
    /\ pc = "top" /\ ~end_flag
    /\ batch # {} /\ batch \subseteq Waiting("sample")
    /\ done \subseteq batch
    /\ \E g \in Gather :
          Launch(IF real_sampler \/ done = batch THEN <<{"stash"} \cup g>>
                                                ELSE <<{"stash"} \cup g, {"continue"}>>)
    /\ at' = [q \in Req |-> CASE q \in done -> "done"
                              [] q \in batch \ done -> "attn"
                              [] q \notin batch -> at[q]]
    /\ forward_batch' = FALSE
    /\ pc' = IF real_sampler THEN "sample" ELSE "post"
    /\ UNCHANGED <<last_batch, result_queue, outbox, end_flag>>

\* RealSampler.step has its tokens.
Sampled ==
    /\ pc = "sample"
    /\ stream = <<>>
    /\ pc' = "post"
    /\ UNCHANGED <<gpuVars, forward_batch, last_batch, result_queue, at, outbox, end_flag>>

\* Mutant: an empty schedule starts the next turn, as in single_module_loop.
SkipTurn ==
    /\ pc = "top" /\ ~end_flag
    /\ \A kind \in {"attn", "expert", "sample"} : Waiting(kind) = {}
    /\ UNCHANGED vars

\* The scheduler has nothing; the turn goes on to the result before.
NothingToRun ==
    /\ pc = "top" /\ ~end_flag
    /\ \A kind \in {"attn", "expert", "sample"} : Waiting(kind) = {}
    /\ forward_batch' = FALSE
    /\ pc' = "post"
    /\ UNCHANGED <<gpuVars, last_batch, result_queue, at, outbox, end_flag>>

\* Mutant: last_batch is only ever set.
KeepLastBatch ==
    /\ pc' = "top"
    /\ last_batch' = (last_batch \/ forward_batch)

\* The rest of a turn: last_batch = forward_batch, and round again.
NextTurn ==
    /\ pc' = "top"
    /\ last_batch' = forward_batch

\* dispatcher.put of the oldest result.
DispatchOldest ==
    /\ outbox' = Append(outbox, Head(result_queue))
    /\ result_queue' = Tail(result_queue)
    /\ NextTurn

\* Mutant: what was computed is dispatched without its event.
PostWithoutWait ==
    /\ pc = "post" /\ last_batch
    /\ \/ /\ Head(result_queue).kind = "expert"
          /\ DispatchOldest
          /\ UNCHANGED gpuVars
       \/ /\ Head(result_queue).kind = "attn"
          /\ Launch(<<{"mapping"}>>)
          /\ result_queue' = [result_queue EXCEPT ![1].event = Len(stream'), ![1].topk = NoSlot]
          /\ pc' = "permute"
          /\ UNCHANGED <<last_batch, outbox>>
    /\ UNCHANGED <<forward_batch, at, end_flag>>

\* The result of the turn before: wait for its event, then post_proc_func.
\* Expert output is dispatched.  Attention output is first permuted by
\* expert, from the topk buffer the event made readable, with an event of its
\* own; the permutation stands behind the batch launched in this turn.
PostProcess ==
    /\ pc = "post" /\ last_batch
    /\ Head(result_queue).event = 0
    /\ \/ /\ Head(result_queue).kind = "expert"
          /\ DispatchOldest
          /\ UNCHANGED gpuVars
       \/ /\ Head(result_queue).kind = "attn"
          /\ Launch(<<{"mapping"}>>)
          /\ result_queue' = [result_queue EXCEPT ![1].event = Len(stream'), ![1].topk = NoSlot]
          /\ pc' = "permute"
          /\ UNCHANGED <<last_batch, outbox>>
    /\ UNCHANGED <<forward_batch, at, end_flag>>

\* post_process: the permuted batch is there; dispatch it.
Permuted ==
    /\ pc = "permute"
    /\ Head(result_queue).event = 0
    /\ DispatchOldest
    /\ UNCHANGED <<gpuVars, forward_batch, at, end_flag>>

\* The turn before left no result.
NoResult ==
    /\ pc = "post" /\ ~last_batch
    /\ NextTurn
    /\ UNCHANGED <<gpuVars, forward_batch, result_queue, at, outbox, end_flag>>

\* terminate, from another thread; the loop looks at the flag once a turn.
Terminate ==
    /\ ~end_flag
    /\ end_flag' = TRUE
    /\ UNCHANGED <<gpuVars, pc, forward_batch, last_batch, result_queue, at, outbox>>

LoopEnds ==
    /\ pc = "top" /\ end_flag
    /\ pc' = "ended"
    /\ UNCHANGED <<gpuVars, forward_batch, last_batch, result_queue, at, outbox, end_flag>>

-----------------------------------------------------------------------------
\* MuDispatcher::run, as far as the loop can tell: the oldest batch leaves.
\* Transport has the thread step by step.
SendOldest ==
    /\ outbox # <<>>
    /\ outbox' = Tail(outbox)
    /\ Move(Head(outbox).batch, "away")
    /\ UNCHANGED <<gpuVars, loopVars>>

\* External: a token comes back from the pipeline.
Arrive(q, kind) ==
    /\ at[q] = "away"
    /\ Move({q}, kind)
    /\ UNCHANGED <<gpuVars, loopVars, outbox>>

Turn ==
    \/ \E kind \in {"attn", "expert"}, batch \in SUBSET Req : RunBatch(kind, batch)
    \/ \E batch, done \in SUBSET Req : SampleBatch(batch, done)
    \/ NothingToRun
    \/ Sampled
    \/ PostProcess
    \/ Permuted
    \/ NoResult
    \/ LoopEnds

Next ==
    \/ Turn
    \/ Retire
    \/ Terminate
    \/ SendOldest
    \/ \E q \in Req : RecvNewRequest(q)
    \/ \E q \in Req, kind \in {"attn", "expert", "sample"} : Arrive(q, kind)

\* The loop thread runs, and the GPU works off its stream.
Spec == Init /\ [][Next]_vars /\ WF_vars(Turn) /\ WF_vars(Retire)

-----------------------------------------------------------------------------
\* The slots still to be read: by the CPU, for the topk ids of a result, or
\* by a kernel.
Unread ==
    IF ring = "topk" THEN [i \in DOMAIN result_queue |-> result_queue[i].topk] ELSE stream

(* A ring slot is written again only when what it was written for has been  *)
(* read: no two kernels on the stream read the same slot, and the expert    *)
(* ids of a batch outlive the launch of the next one.  The code has no      *)
(* fence; this holds because a turn waits for the batch before it and a     *)
(* request is in one sampler batch at a time, if there are enough slots.    *)
SlotReadBeforeReuse ==
    \A i, j \in DOMAIN Unread : i # j /\ Unread[i] # NoSlot => Unread[i] # Unread[j]

(* A batch reaches the dispatcher, which sends it on another stream, only   *)
(* when the kernels that produce it have finished.                          *)
DispatchedIsComputed == \A i \in DOMAIN outbox : outbox[i].event = 0

(* last_batch says exactly whether a result is left for this turn, so that  *)
(* popleft never finds an empty queue and no result waits two turns; a loop *)
(* that ends abandons at most the one batch it launched last.               *)
OneResultBehind ==
    Len(result_queue) = (IF last_batch THEN 1 ELSE 0)
                      + (IF pc \in {"post", "permute", "sample"} /\ forward_batch THEN 1 ELSE 0)

Launched(q) == \E i \in DOMAIN result_queue : q \in result_queue[i].batch

(* Every batch launched is dispatched, without further work arriving to     *)
(* push it out, unless the engine is terminated.                            *)
LaunchedIsDispatched == \A q \in Req : Launched(q) ~> (~Launched(q) \/ end_flag)

=============================================================================
