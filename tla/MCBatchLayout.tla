--------------------------- MODULE MCBatchLayout ---------------------------
(***************************************************************************)
(* Two ranks, three requests: two at home on rank 0, one on rank 1.  Experts *)
(* 0 and 2 are on rank 0 and expert 1 on rank 1, so that a sorted batch      *)
(* visits rank 0 twice.                                                      *)
(***************************************************************************)
EXTENDS BatchLayout

MCHome == [q \in Req |-> IF q = 3 THEN 1 ELSE 0]
MCChannel == [e \in Expert |-> e % 2]
Top1 == {<<e>> : e \in Expert}
Top2 == {<<0, 1>>, <<1, 2>>, <<2, 0>>}
Top1And2 == {Top1, Top2}
OnlyTop2 == {Top2}

=============================================================================
