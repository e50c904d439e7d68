------------------------------- MODULE Cluster -------------------------------
(***************************************************************************)
(* A master node and the tasks of a slave node on one bus, which somebody  *)
(* else may close or give another schedule.                                *)
(***************************************************************************)
EXTENDS SlaveNode, MasterNode

vars == <<busVars, slaveVars, masterVars>>

Init == BusInit /\ SlaveInit /\ MasterInit

CloseBus == Close /\ UNCHANGED <<slaveVars, masterVars>>

\* set_schedule called on the bus itself, with an empty schedule.
DisableSchedule ==
    /\ ~closed
    /\ schedule' = {}
    /\ UNCHANGED <<responses, closed, slaveVars, masterVars>>

Next ==
    \/ SlaveNext /\ UNCHANGED masterVars
    \/ MasterNext /\ UNCHANGED slaveVars
    \/ CloseBus
    \/ DisableSchedule

Spec == Init /\ [][Next]_vars

(***************************************************************************)
(* The executor runs ready tasks, the bus hands its lock on (CallsReturn   *)
(* of VirtualBus) and sleeps end.  Nobody has to call anything.            *)
(***************************************************************************)
FairSpec ==
    /\ Spec
    /\ WF_vars(Run /\ UNCHANGED slaveVars)
    /\ \A c \in Callers : WF_vars(SetResponse(c) /\ UNCHANGED masterVars)

TypeOK ==
    /\ closed \in BOOLEAN
    /\ \A id \in DOMAIN responses : id \in Nat /\ responses[id] \in Response
    /\ schedule \in SUBSET (0 .. LIN_MAX_ID)
    /\ SlaveTypeOK
    /\ MasterTypeOK
=============================================================================
