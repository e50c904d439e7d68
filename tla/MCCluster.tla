------------------------------ MODULE MCCluster ------------------------------
(***************************************************************************)
(* Two slave tasks with an id each, a master with a table of both.         *)
(***************************************************************************)
EXTENDS Cluster, TLC

CONSTANTS c1, c2

MCCallsOf ==
    (c1 :> {SetCall(1, 2), ClearCall(1)})
    @@ (c2 :> {SetCall(60, 2), SetCall(60, 0), SetCall(64, 2)})

MCShared == [c \in Callers |-> {SetCall(1, 2), ClearCall(1)}]

MCTables == {<<>>, <<1, 60>>, <<64>>}
MCTable == {<<1>>}
=============================================================================
