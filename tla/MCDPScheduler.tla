--------------------------- MODULE MCDPScheduler ----------------------------
(* Four requests on two ranks of different size: the second needs the whole *)
(* larger rank, so that it blocks the head of the queue; the first and the  *)
(* third take part of either; the fourth is larger than both.               *)
EXTENDS DPScheduler, TLC

CONSTANTS r1, r2, r3, r4

const_Req == {r1, r2, r3, r4}
const_Capacity == (0 :> 3) @@ (1 :> 4)
const_Weight == (0 :> 3) @@ (1 :> 2)
const_Prefill == (r1 :> 3) @@ (r2 :> 4) @@ (r3 :> 0) @@ (r4 :> 6)
const_Output == (r1 :> 2) @@ (r2 :> 3) @@ (r3 :> 4) @@ (r4 :> 4)

=============================================================================
