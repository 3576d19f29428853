-------------------------------- MODULE Link --------------------------------
(***************************************************************************)
(* What a transport between two engines promises to the layers above it:   *)
(* every batch handed to it is given to the receiving pool exactly once,   *)
(* with its own data, in no particular order, unless the fabric reported   *)
(* the transfer as failed.  The messages of MoEPipeline travel over such a *)
(* link.                                                                   *)
(***************************************************************************)
CONSTANT Batches

VARIABLES sent, delivered, lost

linkVars == <<sent, delivered, lost>>

LinkInit == sent = {} /\ delivered = {} /\ lost = {}

Submit ==
    /\ sent' \in SUBSET Batches
    /\ sent \subseteq sent'
    /\ UNCHANGED <<delivered, lost>>

Deliver(b) ==
    /\ b \in sent \ (delivered \cup lost)
    /\ delivered' = delivered \cup {b}
    /\ UNCHANGED <<sent, lost>>

Lose(b) ==
    /\ b \in sent \ (delivered \cup lost)
    /\ lost' = lost \cup {b}
    /\ UNCHANGED <<sent, delivered>>

LinkNext ==
    \/ Submit
    \/ \E b \in Batches : Deliver(b) \/ Lose(b)

LinkSpec ==
    /\ LinkInit /\ [][LinkNext]_linkVars
    /\ \A b \in Batches : WF_linkVars(Deliver(b) \/ Lose(b))
=============================================================================
