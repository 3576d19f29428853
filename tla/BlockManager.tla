---------------------------- MODULE BlockManager ----------------------------
(***************************************************************************)
(* The paged KV cache of one attention worker: the C++ BlockManager         *)
(* (csrc/engine/block_manager.cpp), which owns the queue of free blocks and *)
(* the block list of every sequence, together with the Python               *)
(* CPUBlockManager / ReqManager around it, which own the sequence lengths.  *)
(*                                                                          *)
(* Every call comes from the engine loop thread, so a call is one step.     *)
(* update_block_table is modelled for a batch of one entry; the batches of  *)
(* the serving loop are in Serving.  An ASSERT of the C++ code throws       *)
(* through pybind into the engine loop, which has no handler: failed        *)
(* records it, and nothing is served afterwards.                            *)
(***************************************************************************)
EXTENDS KVBlocks, Integers, Sequences

CONSTANTS
    Req,            \* request ids
    NumBlocks,      \* num_blocks_ of the pool (reserved_blocks_ is always 0)
    PrefillLens,    \* prompt lengths a request may arrive with
    MaxSeqLen       \* bound on the length of a sequence (max_seq_len)

ASSUME NumBlocksAssumption == NumBlocks \in Nat
ASSUME LensAssumption == PrefillLens \subseteq Nat /\ MaxSeqLen \in Nat

VARIABLES
    free_blocks,        \* std::queue<int> free_blocks_
    table_keys,         \* the keys of block_tables_
    block_tables,       \* request -> its block list (<<>> when it has none)
    len_keys,           \* the keys of ReqManager.decode_seq_lens
    decode_seq_lens,    \* request -> tokens it holds in the cache
    failed              \* an ASSERT threw into the engine loop

vars == <<free_blocks, table_keys, block_tables, len_keys, decode_seq_lens,
          failed>>

Block == 0 .. NumBlocks - 1

-----------------------------------------------------------------------------
\* The queue of free blocks, and the slot of a token.

\* Mutant: the last of several blocks stays in the queue.
RemainingShort(queue, n) ==
    SubSeq(queue, IF n > 1 THEN n ELSE n + 1, Len(queue))

\* The first n blocks of the queue, and the queue without them.
Taken(queue, n) == SubSeq(queue, 1, n)
Remaining(queue, n) == SubSeq(queue, n + 1, Len(queue))

\* The physical KV slot of the token at position pos (slot_mapping).
Slot(table, pos) ==
    table[(pos \div BlockSize) + 1] * BlockSize + (pos % BlockSize)

-----------------------------------------------------------------------------
Init ==
    /\ free_blocks = [i \in 1 .. NumBlocks |-> i - 1]
    /\ table_keys = {}
    /\ block_tables = [q \in Req |-> <<>>]
    /\ len_keys = {}
    /\ decode_seq_lens = [q \in Req |-> 0]
    /\ failed = FALSE

Fail == failed' = TRUE

\* allocate(req_id, seq_len) by the KV loader's install, ahead of the first
\* scheduled batch.  A failed ASSERT is caught there and rejects the request.
Install(q, n) ==
    /\ ~failed
    /\ q \notin table_keys
    /\ n % BlockSize = 0
    /\ Len(free_blocks) >= BlocksFor(n)
    /\ free_blocks' = Remaining(free_blocks, BlocksFor(n))
    /\ block_tables' = [block_tables EXCEPT
                          ![q] = @ \o Taken(free_blocks, BlocksFor(n))]
    /\ table_keys' = table_keys \cup {q}
    /\ UNCHANGED <<len_keys, decode_seq_lens, failed>>

\* update_block_table for an entry with init_prefill_len = len: record the
\* length, allocate unless the KV loader has done so, append one token.
FirstStep(q, len) ==
    LET blocks == IF q \in table_keys THEN 0 ELSE BlocksFor(len)
        add    == IF NeedsBlock(len) THEN 1 ELSE 0
    IN  /\ ~failed
        /\ q \notin len_keys
        /\ q \in table_keys => len = BlockSize * Len(block_tables[q])
        /\ len_keys' = len_keys \cup {q}
        /\ \/ /\ Len(free_blocks) < blocks
              /\ Fail
              /\ decode_seq_lens' = [decode_seq_lens EXCEPT ![q] = len]
              /\ UNCHANGED <<free_blocks, table_keys, block_tables>>
           \/ /\ Len(free_blocks) >= blocks
              /\ NeedsBlock(len) /\ ~AppendAssert(Len(free_blocks) - blocks)
              /\ Fail
              /\ free_blocks' = Remaining(free_blocks, blocks)
              /\ block_tables' = [block_tables EXCEPT
                                    ![q] = @ \o Taken(free_blocks, blocks)]
              /\ table_keys' = table_keys \cup {q}
              /\ decode_seq_lens' = [decode_seq_lens EXCEPT ![q] = len]
           \/ /\ Len(free_blocks) >= blocks
              /\ NeedsBlock(len) => AppendAssert(Len(free_blocks) - blocks)
              /\ free_blocks' = Remaining(free_blocks, blocks + add)
              /\ block_tables' = [block_tables EXCEPT
                                    ![q] = @ \o Taken(free_blocks, blocks + add)]
              /\ table_keys' = table_keys \cup {q}
              /\ decode_seq_lens' = [decode_seq_lens EXCEPT ![q] = len + 1]
              /\ UNCHANGED failed

\* Mutant: the new block is put in front of the block list.
DecodeStepFront(q) ==
    LET len == decode_seq_lens[q]
        add == IF NeedsBlock(len) THEN 1 ELSE 0
    IN  /\ ~failed /\ q \in len_keys /\ len < MaxSeqLen
        /\ NeedsBlock(len) => AppendAssert(Len(free_blocks))
        /\ free_blocks' = Remaining(free_blocks, add)
        /\ block_tables' = [block_tables EXCEPT ![q] = Taken(free_blocks, add) \o @]
        /\ decode_seq_lens' = [decode_seq_lens EXCEPT ![q] = len + 1]
        /\ UNCHANGED <<failed, table_keys, len_keys>>

\* update_block_table for a decoding entry: append one token.
DecodeStep(q) ==
    LET len == decode_seq_lens[q]
        add == IF NeedsBlock(len) THEN 1 ELSE 0
    IN  /\ ~failed
        /\ q \in len_keys
        /\ len < MaxSeqLen
        /\ \/ /\ NeedsBlock(len) /\ ~AppendAssert(Len(free_blocks))
              /\ Fail
              /\ UNCHANGED <<free_blocks, block_tables, decode_seq_lens>>
           \/ /\ NeedsBlock(len) => AppendAssert(Len(free_blocks))
              /\ free_blocks' = Remaining(free_blocks, add)
              /\ block_tables' = [block_tables EXCEPT
                                    ![q] = @ \o Taken(free_blocks, add)]
              /\ decode_seq_lens' = [decode_seq_lens EXCEPT ![q] = len + 1]
              /\ UNCHANGED failed
        /\ UNCHANGED <<table_keys, len_keys>>

\* Mutant: the block list is not erased after its blocks were freed.
ReleaseSeqKeep(q) ==
    /\ ~failed
    /\ q \in len_keys
    /\ free_blocks' = free_blocks \o block_tables[q]
    /\ len_keys' = len_keys \ {q}
    /\ decode_seq_lens' = [decode_seq_lens EXCEPT ![q] = 0]
    /\ UNCHANGED <<block_tables, table_keys, failed>>

\* release_seqs([req_id]): the block list goes back to the queue, the length
\* is forgotten.
ReleaseSeq(q) ==
    /\ ~failed
    /\ q \in len_keys
    /\ free_blocks' = free_blocks \o block_tables[q]
    /\ block_tables' = [block_tables EXCEPT ![q] = <<>>]
    /\ table_keys' = table_keys \ {q}
    /\ len_keys' = len_keys \ {q}
    /\ decode_seq_lens' = [decode_seq_lens EXCEPT ![q] = 0]
    /\ UNCHANGED failed

Next ==
    \/ \E q \in Req, n \in PrefillLens : Install(q, n)
    \/ \E q \in Req, len \in PrefillLens : FirstStep(q, len)
    \/ \E q \in Req : DecodeStep(q)
    \/ \E q \in Req : ReleaseSeq(q)

Spec == Init /\ [][Next]_vars

-----------------------------------------------------------------------------
(* The variables keep their types; block lists hold blocks of the pool.     *)
TypeOK ==
    /\ free_blocks \in Seq(Block)
    /\ table_keys \subseteq Req
    /\ block_tables \in [Req -> Seq(Block)]
    /\ len_keys \subseteq Req
    /\ decode_seq_lens \in [Req -> Nat]
    /\ failed \in BOOLEAN

IsInjectiveSeq(s) == \A i, j \in 1 .. Len(s) : s[i] = s[j] => i = j

\* No block occurs twice in the queue or in a block list, or in two of them.
Exclusive(queue, tables) ==
    /\ IsInjectiveSeq(queue)
    /\ \A q \in Req :
        /\ IsInjectiveSeq(tables[q])
        /\ \A i \in 1 .. Len(queue), j \in 1 .. Len(tables[q]) :
              queue[i] # tables[q][j]
    /\ \A q, p \in Req :
        q # p => \A i \in 1 .. Len(tables[q]), j \in 1 .. Len(tables[p]) :
                    tables[q][i] # tables[p][j]

\* No block is lost: it is in the queue or in a block list.
Complete(queue, tables) ==
    \A b \in Block :
        \/ \E i \in 1 .. Len(queue) : queue[i] = b
        \/ \E q \in Req : \E i \in 1 .. Len(tables[q]) : tables[q][i] = b

(* Through every allocation, growth and release each block of the pool is   *)
(* in exactly one place: once in the free queue, or once in the block list  *)
(* of one sequence (allocate, append_tokens, release).                      *)
BlocksPartitioned ==
    Exclusive(free_blocks, block_tables) /\ Complete(free_blocks, block_tables)

(* A sequence holds exactly the blocks its length needs, whether they were  *)
(* allocated at its first batch, preloaded by the KV loader or appended one *)
(* token at a time: the slot of its newest token is backed by its own list, *)
(* and no block is held in excess of the admission formula.                 *)
KVCoverage ==
    ~failed => \A q \in len_keys :
        /\ q \in table_keys
        /\ decode_seq_lens[q] > 0
        /\ Len(block_tables[q]) = BlocksFor(decode_seq_lens[q])

(* No two tokens resident in the cache, of one request or of two, are       *)
(* mapped to the same physical KV slot by prepare_block_table.              *)
NoSlotShared ==
    ~failed => \A q, p \in len_keys :
        \A i \in 0 .. decode_seq_lens[q] - 1, j \in 0 .. decode_seq_lens[p] - 1 :
            Slot(block_tables[q], i) = Slot(block_tables[p], j) => q = p /\ i = j

(* A token never moves: while a sequence stays in the cache, a step only    *)
(* adds blocks at the end of its block list, so the slots already written   *)
(* keep their positions.                                                    *)
KVStable ==
    [][\A q \in len_keys \cap len_keys' :
          /\ Len(block_tables[q]) <= Len(block_tables'[q])
          /\ \A i \in 1 .. Len(block_tables[q]) :
                block_tables'[q][i] = block_tables[q][i]]_vars

=============================================================================
