------------------------------ MODULE LossyLine ------------------------------
(***************************************************************************)
(* What the reader behind the adapter may rely on: LossyFifo, except that  *)
(* the frame an offer costs need not be the oldest waiting.  The policy    *)
(* sees one queue of several, so it evicts the oldest of those left in     *)
(* that queue, ahead of which others are already on their way.             *)
(***************************************************************************)
EXTENDS LossyFifo

LoseWaiting ==
    \E n \in pending : pending' = (pending \ {n}) \cup {sent + 1}

Offer ==
    /\ sent' = sent + 1
    /\ Keep \/ LoseNew \/ LoseWaiting
    /\ UNCHANGED got

LineNext == Offer \/ Deliver
=============================================================================
