------------------------------ MODULE LossyFifo ------------------------------
(***************************************************************************)
(* What a subscriber channel promises its reader, whatever the back-       *)
(* pressure policy and however many tasks read from it: frames are         *)
(* numbered as they are offered, each is handed out at most once and in    *)
(* the order offered, and offering one frame costs at most one frame: the  *)
(* new one, or the oldest one still waiting.                               *)
(***************************************************************************)
EXTENDS Naturals, Sequences

VARIABLES
    sent,       \* number of frames offered so far
    pending,    \* the frames (by number) waiting to be handed out
    got         \* the frames handed out, in order

fifoVars == <<sent, pending, got>>

Init ==
    /\ sent = 0
    /\ pending = {}
    /\ got = <<>>

Oldest(n, S) == n \in S /\ \A m \in S : n <= m

Keep ==
    /\ pending' = pending \cup {sent + 1}

LoseNew ==
    /\ pending' = pending

LoseOldest ==
    \E n \in pending :
        /\ Oldest(n, pending)
        /\ pending' = (pending \ {n}) \cup {sent + 1}

Send ==
    /\ sent' = sent + 1
    /\ Keep \/ LoseNew \/ LoseOldest
    /\ UNCHANGED got

Deliver ==
    \E n \in pending :
        /\ Oldest(n, pending)
        /\ got' = Append(got, n)
        /\ pending' = pending \ {n}
        /\ UNCHANGED sent

Next == Send \/ Deliver

Spec == Init /\ [][Next]_fifoVars
=============================================================================
