-------------------------------- MODULE LinBus --------------------------------
(***************************************************************************)
(* What the nodes rely on of a bus (the Bus and MasterBus traits of        *)
(* src/bus.rs): which response answers which header, whether the bus is    *)
(* closed, and the schedule installed on it.  Each variable changes under  *)
(* the lock of the bus, one call at a time; VirtualBus implements this     *)
(* module, SlaveNode and MasterNode are built on it.                       *)
(***************************************************************************)
EXTENDS LinFrame, Functions

VARIABLES
    responses,      \* the registered responses, a function on their ids
    closed,         \* the bus is closed
    schedule        \* the ids of the schedule installed on the bus

busVars == <<responses, closed, schedule>>

BusInit ==
    /\ responses = <<>>
    /\ closed = FALSE
    /\ schedule = {}

\* publish(id, Some) and publish(id, None), under the lock.
PutResponse(id, r) ==
    responses' = [i \in DOMAIN responses \cup {id} |->
                    IF i = id THEN r ELSE responses[i]]

DropResponse(id) == responses' = Restrict(responses, DOMAIN responses \ {id})

\* The frame a header for id puts on the bus, and whether send_header
\* answers Ok: there is a response and validate_frame accepts the frame.
Answer(id) == [n |-> 0, id |-> id, len |-> responses[id].len, ct |-> responses[id].ct]
Answers(id) == id \in DOMAIN responses /\ validate_frame(Answer(id))

\* What publish lets in: every response but an empty one can be sent.
Storable(id, r) ==
    /\ id <= LIN_MAX_ID
    /\ r.len <= LIN_MAX_DATA_LEN
    /\ id \in Diagnostic => r.ct = "Classic"

-----------------------------------------------------------------------------
Publish ==
    /\ \E id \in DOMAIN responses' :
        Storable(id, responses'[id]) /\ PutResponse(id, responses'[id])
    /\ UNCHANGED <<closed, schedule>>

Withdraw ==
    /\ \E id \in DOMAIN responses : DropResponse(id)
    /\ UNCHANGED <<closed, schedule>>

SetSchedule ==
    /\ \A id \in schedule' : id <= LIN_MAX_ID
    /\ UNCHANGED <<responses, closed>>

\* Closing is for good.
Close ==
    /\ closed' = TRUE
    /\ UNCHANGED <<responses, schedule>>

BusNext == Publish \/ Withdraw \/ SetSchedule \/ Close

BusSpec == BusInit /\ [][BusNext]_busVars
=============================================================================
