------------------------------ MODULE SlaveNode ------------------------------
(***************************************************************************)
(* SlaveNode, src/slave/mod.rs: tasks that call set_response on one node.  *)
(* A call is a publish on the bus, which checks `closed`, waits for the    *)
(* bus lock and stores, and then, under the node's own lock, a change of   *)
(* the registered set.  `?` leaves the call when publish fails.            *)
(***************************************************************************)
EXTENDS LinBus, FiniteSets

CONSTANTS
    Callers,        \* tasks that call set_response,
    CallsOf         \* and the calls each of them makes

\* The arguments of set_response; without `some` it is None (and len idle).
SetCall(id, len) == [id |-> id, some |-> TRUE, len |-> len]
ClearCall(id) == [id |-> id, some |-> FALSE, len |-> 0]
SetResponseCall == [id : Nat, some : BOOLEAN, len : Nat]

ASSUME SlaveAssumption == CallsOf \in [Callers -> SUBSET SetResponseCall]

VARIABLES
    registered,     \* SlaveNode.registered
    at,             \* where each caller is in set_response
    arg             \* and with which arguments

slaveVars == <<registered, at, arg>>

NoArg == ClearCall(0)

SlaveInit ==
    /\ registered = {}
    /\ at = [c \in Callers |-> "idle"]
    /\ arg = [c \in Callers |-> NoArg]

Return(c) ==
    /\ at' = [at EXCEPT ![c] = "idle"]
    /\ arg' = [arg EXCEPT ![c] = NoArg]

Step(c, from, to) ==
    /\ at[c] = from
    /\ at' = [at EXCEPT ![c] = to]
    /\ UNCHANGED arg

-----------------------------------------------------------------------------
set_response(c) ==
    /\ at[c] = "idle"
    /\ at' = [at EXCEPT ![c] = "check"]
    /\ \E a \in CallsOf[c] : arg' = [arg EXCEPT ![c] = a]
    /\ UNCHANGED <<registered, busVars>>

\* An id out of range, a closed bus, a payload too long.
Refused(a) ==
    \/ a.id > LIN_MAX_ID
    \/ closed
    \/ a.some /\ a.len > LIN_MAX_DATA_LEN

\* Faulty variant: the result of publish is ignored.
RefuseIgnored(c) ==
    /\ Refused(arg[c])
    /\ Step(c, "check", "record")
    /\ UNCHANGED <<registered, busVars>>

Refuse(c) ==
    /\ at[c] = "check"
    /\ Refused(arg[c])
    /\ Return(c)
    /\ UNCHANGED <<registered, busVars>>

AwaitLock(c) ==
    /\ ~Refused(arg[c])
    /\ Step(c, "check", "lock")
    /\ UNCHANGED <<registered, busVars>>

\* The caller drops the future at its only await.
CancelSet(c) ==
    /\ at[c] = "lock"
    /\ Return(c)
    /\ UNCHANGED <<registered, busVars>>

\* The bus takes the response in, or removes it.
PublishResponse(c) ==
    /\ Step(c, "lock", "record")
    /\ IF arg[c].some
       THEN PutResponse(arg[c].id,
                        [len |-> arg[c].len, ct |-> ChecksumFor(arg[c].id, "Enhanced")])
       ELSE DropResponse(arg[c].id)
    /\ UNCHANGED <<registered, closed, schedule>>

RecordResponse(c) ==
    /\ at[c] = "record"
    /\ registered' = IF arg[c].some THEN registered \cup {arg[c].id}
                     ELSE registered \ {arg[c].id}
    /\ Return(c)
    /\ UNCHANGED busVars

SetResponse(c) ==
    \/ Refuse(c) \/ AwaitLock(c) \/ PublishResponse(c) \/ RecordResponse(c)

SlaveNext == \E c \in Callers : set_response(c) \/ CancelSet(c) \/ SetResponse(c)

-----------------------------------------------------------------------------
SlaveTypeOK ==
    /\ registered \in SUBSET Nat
    /\ at \in [Callers -> {"idle", "check", "lock", "record"}]
    /\ arg \in [Callers -> SetResponseCall]

\* The tasks that may ever set the response for id.
Writers(id) == {c \in Callers : \E a \in CallsOf[c] : a.id = id}

\* An id only one task sets is registered with the node exactly while the bus
\* answers for it, but for the moment between that task's publish and its
\* update of the set (slave/mod.rs:61-68): also when publish fails, when the
\* bus is closed, and when a call is abandoned.
RegisteredTracksBus ==
    \A c \in Callers : \A a \in CallsOf[c] :
        Writers(a.id) = {c} =>
            (a.id \in registered <=> a.id \in DOMAIN responses)
            \/ (at[c] = "record" /\ arg[c].id = a.id)

\* "Returns the sorted list of frame IDs with currently registered responses"
\* (slave/mod.rs:71): with no call under way, they are the bus's.
RegisteredIdsCurrent ==
    (\A c \in Callers : at[c] = "idle") => registered = DOMAIN responses
=============================================================================
