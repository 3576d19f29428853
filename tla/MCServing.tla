----------------------------- MODULE MCServing ------------------------------
(* P and O are the declared prompt and output lengths of the requests, T    *)
(* the tokens sent with them, Blocks0 and Blocks1 the pools of rank 0 and   *)
(* of the other ranks.  In the run of the whole life of a request the first *)
(* one declares a prompt that is no multiple of a page, the second has a    *)
(* tail behind its page and starts at a block boundary, and the third fits  *)
(* no rank.                                                                 *)
EXTENDS Serving

CONSTANTS r1, r2, r3, Blocks0, Blocks1, P1, P2, P3, O1, O2, O3, T1, T2, T3

ByReq(a, b, c) == [q \in Req |-> CASE q = r1 -> a [] q = r2 -> b [] q = r3 -> c]

const_Capacity == [r \in Rank |-> IF r = 0 THEN Blocks0 ELSE Blocks1]
const_Weight == [r \in Rank |-> 1]
const_Prefill == ByReq(P1, P2, P3)
const_Tokens == ByReq(T1, T2, T3)
const_Output == ByReq(O1, O2, O3)

=============================================================================
