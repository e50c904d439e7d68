--------------------------- MODULE MCFrameReceiver ---------------------------
(***************************************************************************)
(* Small channels for TLC: each policy, at capacities the pushes overrun,  *)
(* and a rate-limited one whose clock crosses several windows.             *)
(***************************************************************************)
EXTENDS FrameReceiver

Channel(c, p, r) == [capacity |-> c, policy |-> p, rateLimit |-> r]

MCOptions ==
    {Channel(2, "DropOldest", 0), Channel(1, "DropNewest", 0),
     Channel(1, "Block", 0), Channel(2, "DropNewest", 1)}

MCUnlimited == {Channel(2, "DropNewest", 0)}
=============================================================================
