--------------------------- MODULE MCBlockManager ---------------------------
(* Three requests on a pool of five two-token blocks: prompts that end       *)
(* inside and at the end of a block, sequences of up to three blocks.        *)
EXTENDS BlockManager

CONSTANTS r1, r2, r3

const_Req == {r1, r2, r3}
const_PrefillLens == {0, 1, 2, 3}
=============================================================================
