------------------------------ MODULE MCAdapter ------------------------------
(***************************************************************************)
(* Each policy, with channels that the pushes fill at both ends.           *)
(***************************************************************************)
EXTENDS Adapter

MCAdapterOptions ==
    {[capacity |-> 1, policy |-> "Block", rateLimit |-> 0],
     [capacity |-> 2, policy |-> "DropOldest", rateLimit |-> 0],
     [capacity |-> 1, policy |-> "DropNewest", rateLimit |-> 1]}
=============================================================================
