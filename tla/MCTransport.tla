---------------------------- MODULE MCTransport -----------------------------
(* Two engines: a waits for every send before the next one and puts two     *)
(* batches of one part, b keeps two sends under way and puts one batch of   *)
(* three parts.                                                             *)
EXTENDS Transport

CONSTANTS a, b

const_MaxPending == [e \in Engine |-> IF e = a THEN 1 ELSE 2]
const_Quota == [e \in Engine |-> IF e = a THEN 2 ELSE 3]
const_BatchParts == [e \in Engine |-> IF e = a THEN {1} ELSE {3}]

=============================================================================
