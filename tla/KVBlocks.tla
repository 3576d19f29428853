------------------------------ MODULE KVBlocks ------------------------------
(***************************************************************************)
(* Block arithmetic of the paged KV cache: how many blocks a sequence       *)
(* occupies in a worker (BlockManager::allocate and append_tokens) and how  *)
(* many the global scheduler reserves for it (DPScheduler.required_blocks). *)
(***************************************************************************)
EXTENDS Integers

CONSTANT BlockSize      \* tokens per block (cache_config.block_size)

ASSUME BlockSizeAssumption == BlockSize \in Nat \ {0}

\* blocks_needed of allocate: no block for an empty context.
BlocksFor(len) == IF len > 0 THEN ((len - 1) \div BlockSize) + 1 ELSE 0

\* Mutant: the boundary test is one token late.
NeedsBlockLate(context_len) == context_len % BlockSize = 1 % BlockSize

\* append_tokens(_, context_len, 1): a block is added exactly when the last
\* one is full (or there is none yet).
NeedsBlock(context_len) == context_len % BlockSize = 0

\* The assertion of append_tokens before it takes blocks_to_add = 1 block.
AppendAssert(num_free) == num_free > 1

\* required_blocks: prompt and output are rounded up separately.
RequiredBlocks(prefill_len, output_len) ==
    ((prefill_len + BlockSize - 1) \div BlockSize)
        + ((output_len + BlockSize - 1) \div BlockSize)

=============================================================================
