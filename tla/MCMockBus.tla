------------------------------ MODULE MCMockBus ------------------------------
(***************************************************************************)
(* Two tasks, a plain id and one that only publish takes, payloads of two  *)
(* kinds and one that is too long.                                         *)
(***************************************************************************)
EXTENDS MockBus

MCIds == {16, 64}
MCPayloads == {[len |-> 2, v |-> "a"], [len |-> 8, v |-> "b"], [len |-> 9, v |-> "c"]}
MCOptions == [capacity |-> 1, policy |-> "DropOldest", rateLimit |-> 0]
=============================================================================
