----------------------------- MODULE MCKVLoader -----------------------------
(* Instances of KVLoader: a prompt with a tail, one with no full page, one   *)
(* with two pages, one whose init_prefill_len is not page-aligned, and one  *)
(* too long for a staging buffer.                                           *)
EXTENDS KVLoader, TLC

CONSTANTS q1, q2, q3, q4, q5, P1, P2, P3, P4, P5, L1, L2, L3, L4, L5

PromptOf == q1 :> P1 @@ q2 :> P2 @@ q3 :> P3 @@ q4 :> P4 @@ q5 :> P5
PrefillLenOf == q1 :> L1 @@ q2 :> L2 @@ q3 :> L3 @@ q4 :> L4 @@ q5 :> L5

=============================================================================
