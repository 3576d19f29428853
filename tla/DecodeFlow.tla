----------------------------- MODULE DecodeFlow -----------------------------
(***************************************************************************)
(* What the layer pipeline promises, without ranks, queues or messages:     *)
(* each request visits the attention and the expert layer of every block in *)
(* order, then the sampler, once per output token, at its own pace; no      *)
(* barrier ties requests together, and no request waits for ever.           *)
(***************************************************************************)
EXTENDS Integers

CONSTANTS
    Req,
    NumLayers,      \* transformer blocks
    Output          \* request -> output length

VARIABLE flow       \* request -> [at, layer, out]

Init == flow = [q \in Req |-> [at |-> "fresh", layer |-> 0, out |-> 0]]

\* The next stage of request q.
Advance(q) ==
    LET f == flow[q]
        more == f.out + 1 < Output[q]
    IN  CASE f.at = "fresh" -> [f EXCEPT !.at = "attn"]
          [] f.at = "attn" /\ f.layer < NumLayers -> [f EXCEPT !.at = "moe"]
          [] f.at = "moe" -> [f EXCEPT !.at = "attn", !.layer = @ + 1]
          [] f.at = "attn" /\ f.layer = NumLayers ->
                [at |-> IF more THEN "attn" ELSE "done", layer |-> 0, out |-> f.out + 1]

\* A batch S of requests moves on, each from where it is.
Step(S) ==
    /\ \A q \in S : flow[q].at # "done"
    /\ flow' = [q \in Req |-> IF q \in S THEN Advance(q) ELSE flow[q]]

Next == \E S \in SUBSET Req : Step(S)

Fairness ==
    \A q \in Req : WF_flow(flow[q].at # "fresh" /\ \E S \in SUBSET Req : q \in S /\ Step(S))

Spec == Init /\ [][Next]_flow /\ Fairness

=============================================================================
