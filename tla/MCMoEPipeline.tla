--------------------------- MODULE MCMoEPipeline ----------------------------
(* Instances of MoEPipeline: two ranks, three experts placed 0, 1, 0, so    *)
(* that a batch sorted by expert visits a rank twice.                       *)
EXTENDS MoEPipeline, TLC

CONSTANTS q1, q2, H1, H2, O1, O2

HomeOf == q1 :> H1 @@ q2 :> H2
OutputOf == q1 :> O1 @@ q2 :> O2
\* Two experts per token with first-layer-first scheduling, and one expert per
\* token, so no join, with the defragging scheduler.
ConfigsOf == {[top_k |-> 2, scheduler |-> "flfs"], [top_k |-> 1, scheduler |-> "defrag"]}
ExpertRankOf == [e \in Expert |-> e % DpSize]

=============================================================================
