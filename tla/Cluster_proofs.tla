--------------------------- MODULE Cluster_proofs ---------------------------
(***************************************************************************)
(* Theorems about the nodes on a bus, for every set of tasks, whatever     *)
(* calls they make and whatever tables the master is given.                *)
(***************************************************************************)
EXTENDS Cluster, SequenceTheorems, TLAPS

(***************************************************************************)
(* Types.  A run is in range because a table is never empty and the slot   *)
(* is reset whenever a call of the master ends.                            *)
(***************************************************************************)
ResponsesOK == \A id \in DOMAIN responses : id \in Nat /\ responses[id] \in Response

MasterInv ==
    /\ MasterTypeOK
    /\ ~Running => slot = 1
    /\ mpc = "setLock" => ~BadTable(wanted)

\* publish stores a response, or removes one.
LEMMA PublishType ==
    ASSUME TypeOK, NEW c \in Callers, PublishResponse(c)
    PROVE  /\ ResponsesOK'
           /\ DOMAIN responses' = IF arg[c].some THEN DOMAIN responses \cup {arg[c].id}
                                  ELSE DOMAIN responses \ {arg[c].id}
  <1>1. arg[c] \in SetResponseCall /\ ResponsesOK
    BY DEF TypeOK, SlaveTypeOK, ResponsesOK
  <1>2. arg[c].id \in Nat /\ arg[c].len \in Nat
    BY <1>1 DEF SetResponseCall
  <1>3. CASE arg[c].some
    <2>. DEFINE r == [len |-> arg[c].len, ct |-> ChecksumFor(arg[c].id, "Enhanced")]
    <2>1. r \in Response
      BY <1>2 DEF Response, ChecksumFor, ChecksumType
    <2>2. responses' = [i \in DOMAIN responses \cup {arg[c].id} |->
                          IF i = arg[c].id THEN r ELSE responses[i]]
      BY <1>3 DEF PublishResponse, PutResponse
    <2>. HIDE DEF r
    <2>. QED
      BY <1>1, <1>2, <1>3, <2>1, <2>2 DEF ResponsesOK
  <1>4. CASE ~arg[c].some
    <2>1. responses' = [i \in DOMAIN responses \ {arg[c].id} |-> responses[i]]
      BY <1>4 DEF PublishResponse, DropResponse, Restrict
    <2>. QED
      BY <1>1, <1>4, <2>1 DEF ResponsesOK
  <1>. QED
    BY <1>3, <1>4

\* A set_response call keeps the slave and the bus well typed.
LEMMA SlaveType ==
    ASSUME TypeOK, SlaveNext
    PROVE  /\ SlaveTypeOK'
           /\ ResponsesOK'
           /\ UNCHANGED <<closed, schedule>>
  <1>. SUFFICES ASSUME NEW c \in Callers, set_response(c) \/ CancelSet(c) \/ SetResponse(c)
                PROVE  /\ SlaveTypeOK'
                       /\ ResponsesOK'
                       /\ UNCHANGED <<closed, schedule>>
    BY DEF SlaveNext
  <1>0. SlaveTypeOK /\ ResponsesOK
    BY DEF TypeOK, ResponsesOK
  <1>1. NoArg \in SetResponseCall
    BY DEF NoArg, ClearCall, SetResponseCall
  <1>2. CASE set_response(c)
    <2>1. \A a \in CallsOf[c] : a \in SetResponseCall
      BY SlaveAssumption
    <2>. QED
      BY <1>0, <1>2, <2>1 DEF set_response, SlaveTypeOK, ResponsesOK, busVars
  <1>3. CASE CancelSet(c) \/ Refuse(c)
    BY <1>0, <1>1, <1>3 DEF CancelSet, Refuse, Return, SlaveTypeOK, ResponsesOK, busVars
  <1>4. CASE AwaitLock(c)
    BY <1>0, <1>4 DEF AwaitLock, Step, SlaveTypeOK, ResponsesOK, busVars
  <1>5. CASE PublishResponse(c)
    BY <1>0, <1>5, PublishType DEF PublishResponse, Step, SlaveTypeOK
  <1>6. CASE RecordResponse(c)
    <2>1. arg[c].id \in Nat
      BY <1>0 DEF SlaveTypeOK, SetResponseCall
    <2>2. registered' \in SUBSET Nat
      BY <1>0, <1>6, <2>1 DEF RecordResponse, SlaveTypeOK
    <2>. QED
      BY <1>0, <1>1, <1>6, <2>2 DEF RecordResponse, Return, SlaveTypeOK, ResponsesOK, busVars
  <1>. QED
    BY <1>2, <1>3, <1>4, <1>5, <1>6 DEF SetResponse

\* A table that passed the checks holds ids of the bus.
LEMMA GoodTable ==
    ASSUME NEW w \in Seq(Nat), ~BadTable(w)
    PROVE  /\ w \in Seq(0 .. LIN_MAX_ID)
           /\ w # <<>>
           /\ Range(w) \subseteq 0 .. LIN_MAX_ID
  <1>1. w # <<>>
    BY DEF BadTable
  <1>2. \A k \in 1 .. Len(w) : w[k] \in 0 .. LIN_MAX_ID
    <2>0. \A x \in Nat : ~(x > LIN_MAX_ID) => x \in 0 .. LIN_MAX_ID
      BY DEF LIN_MAX_ID
    <2>1. \A k \in 1 .. Len(w) : w[k] \in Nat
      BY LenProperties
    <2>2. \A k \in 1 .. Len(w) : ~(w[k] > LIN_MAX_ID)
      BY LenProperties DEF BadTable
    <2>. QED
      BY <2>0, <2>1, <2>2
  <1>3. w \in Seq(0 .. LIN_MAX_ID)
    <2>1. w \in [1 .. Len(w) -> 0 .. LIN_MAX_ID] /\ Len(w) \in Nat
      BY <1>2, LenProperties
    <2>2. w \in UNION {[1 .. n -> 0 .. LIN_MAX_ID] : n \in Nat}
      BY <2>1, Zenon
    <2>3. Seq(0 .. LIN_MAX_ID) = UNION {[1 .. n -> 0 .. LIN_MAX_ID] : n \in Nat}
      BY SeqDef, Zenon
    <2>. QED
      BY <2>2, <2>3, Zenon
  <1>4. Range(w) \subseteq 0 .. LIN_MAX_ID
    BY <1>2 DEF Range
  <1>. QED
    BY <1>1, <1>3, <1>4

\* A step of the master keeps it at a slot of a table that is good.
LEMMA MasterType ==
    ASSUME MasterInv, schedule \in SUBSET (0 .. LIN_MAX_ID), MasterNext
    PROVE  /\ MasterInv'
           /\ schedule' \in SUBSET (0 .. LIN_MAX_ID)
           /\ UNCHANGED <<responses, closed>>
  <1>. USE DEF MasterInv, MasterTypeOK, Running, MasterStep, busVars
  <1>1. CASE set_schedule
    <2>1. wanted' \in Seq(Nat)
      BY <1>1, MasterAssumption DEF set_schedule
    <2>. QED
      BY <1>1, <2>1 DEF set_schedule
  <1>2. CASE RefuseTable \/ CancelMaster \/ TimeOut("top") \/ TimeOut("sleep")
    <2>1. Leave /\ UNCHANGED <<table, busVars>>
      BY <1>2 DEF RefuseTable, CancelMaster, TimeOut
    <2>2. wanted' \in Seq(Nat)
      BY <2>1 DEF Leave
    <2>. QED
      BY <2>1, <2>2 DEF Leave
  <1>3. CASE AwaitSetLock
    BY <1>3 DEF AwaitSetLock
  <1>4. CASE InstallTable
    <2>1. wanted \in Seq(0 .. LIN_MAX_ID) /\ Range(wanted) \subseteq 0 .. LIN_MAX_ID
      BY <1>4, GoodTable DEF InstallTable
    <2>2. wanted' \in Seq(Nat)
      BY <1>4 DEF InstallTable, Leave
    <2>. QED
      BY <1>4, <2>1, <2>2 DEF InstallTable, Leave
  <1>5. CASE run
    BY <1>5 DEF run
  <1>6. CASE StartSlot \/ AwaitHeaderLock \/ Callback
    BY <1>6 DEF StartSlot, AwaitHeaderLock, Callback
  <1>7. CASE RefuseHeader \/ Exchange
    <2>1. answer' \in {"frame", "error"}
      BY <1>7 DEF RefuseHeader, Exchange
    <2>2. late' \in Nat
      BY <1>7 DEF RefuseHeader, Exchange, CountLate
    <2>. QED
      BY <1>7, <2>1, <2>2 DEF RefuseHeader, Exchange
  <1>8. CASE Wake
    <2>1. slot \in 1 .. Len(table) /\ Len(table) \in Nat
      BY <1>8 DEF Wake
    <2>2. NextSlot \in 1 .. Len(table)
      BY <2>1 DEF NextSlot
    <2>. QED
      BY <1>8, <2>2 DEF Wake
  <1>9. CASE Expire
    BY <1>9 DEF Expire
  <1>. QED
    BY <1>1, <1>2, <1>3, <1>4, <1>5, <1>6, <1>7, <1>8, <1>9 DEF MasterNext, Run

TypeInv == TypeOK /\ MasterInv

\* Every reachable state is well typed, and a run is always at a slot of its
\* table.
THEOREM AlwaysTyped == Spec => []TypeInv
  <1>1. Init => TypeInv
    <2> SUFFICES ASSUME Init PROVE TypeInv
      OBVIOUS
    <2>1. closed \in BOOLEAN
      BY DEF Init, BusInit
    <2>2. DOMAIN responses = {} /\ schedule \in SUBSET (0 .. LIN_MAX_ID)
      BY DEF Init, BusInit
    <2>3. SlaveTypeOK
      BY DEF Init, SlaveInit, SlaveTypeOK, NoArg, ClearCall, SetResponseCall
    <2>4. table \in Seq(0 .. LIN_MAX_ID) /\ wanted \in Seq(Nat)
      BY DEF Init, MasterInit
    <2>5. MasterInv
      BY <2>4 DEF Init, MasterInit, MasterInv, MasterTypeOK, Running
    <2>. QED
      BY <2>1, <2>2, <2>3, <2>5 DEF TypeInv, TypeOK, MasterInv
  <1>2. TypeInv /\ [Next]_vars => TypeInv'
    <2> SUFFICES ASSUME TypeInv, [Next]_vars PROVE TypeInv'
      OBVIOUS
    <2>0. TypeOK /\ MasterInv
      BY DEF TypeInv
    <2>1. CASE SlaveNext /\ UNCHANGED masterVars
      <3>1. SlaveTypeOK' /\ ResponsesOK' /\ UNCHANGED <<closed, schedule>>
        BY <2>0, <2>1, SlaveType
      <3>2. MasterInv'
        BY <2>0, <2>1 DEF MasterInv, MasterTypeOK, Running, BadTable, masterVars
      <3>. QED
        BY <2>0, <3>1, <3>2 DEF TypeInv, TypeOK, ResponsesOK, MasterInv
    <2>2. CASE MasterNext /\ UNCHANGED slaveVars
      <3>1. /\ MasterInv'
            /\ schedule' \in SUBSET (0 .. LIN_MAX_ID)
            /\ UNCHANGED <<responses, closed>>
        <4>1. schedule \in SUBSET (0 .. LIN_MAX_ID)
          BY <2>0 DEF TypeOK
        <4>. QED
          BY <2>0, <2>2, <4>1, MasterType
      <3>2. SlaveTypeOK'
        BY <2>0, <2>2 DEF TypeOK, SlaveTypeOK, slaveVars
      <3>. QED
        BY <2>0, <3>1, <3>2 DEF TypeInv, TypeOK, MasterInv
    <2>3. CASE CloseBus \/ DisableSchedule \/ UNCHANGED vars
      <3>1. /\ UNCHANGED <<slaveVars, masterVars, responses>>
            /\ closed' \in {TRUE, closed}
            /\ schedule' \in {{}, schedule}
        BY <2>3 DEF CloseBus, Close, DisableSchedule, vars, busVars
      <3>2. SlaveTypeOK'
        BY <2>0, <3>1 DEF TypeOK, SlaveTypeOK, slaveVars
      <3>3. MasterInv'
        BY <2>0, <3>1 DEF MasterInv, MasterTypeOK, Running, BadTable, masterVars
      <3>4. closed' \in BOOLEAN
        BY <2>0, <3>1 DEF TypeOK
      <3>. QED
        BY <2>0, <3>1, <3>2, <3>3, <3>4 DEF TypeInv, TypeOK, MasterInv
    <2>. QED
      BY <2>1, <2>2, <2>3 DEF Next
  <1>. QED
    BY <1>1, <1>2, PTL DEF Spec

\* The type invariant alone.
THEOREM TypeCorrect == Spec => []TypeOK
  <1>1. TypeInv => TypeOK
    BY DEF TypeInv
  <1>. QED
    BY <1>1, AlwaysTyped, PTL

(***************************************************************************)
(* The registered set.  A task between publish and its update of the set   *)
(* knows what the bus holds, as no other task touches its id.              *)
(***************************************************************************)
OwnCall == \A c \in Callers : at[c] # "idle" => arg[c] \in CallsOf[c]

Published ==
    \A c \in Callers :
        (at[c] = "record" /\ Writers(arg[c].id) = {c}) =>
            (arg[c].some <=> arg[c].id \in DOMAIN responses)

SlaveInv == OwnCall /\ Published /\ RegisteredTracksBus

\* An id that only c sets is never in the hands of another task.
LEMMA OneWriter ==
    ASSUME OwnCall, NEW c \in Callers, NEW d \in Callers, NEW id,
           at[d] # "idle", arg[d].id = id, Writers(id) = {c}
    PROVE  d = c
  <1>1. arg[d] \in CallsOf[d]
    BY DEF OwnCall
  <1>2. d \in Writers(id)
    BY <1>1 DEF Writers
  <1>. QED
    BY <1>2

\* set_response begins, waits, or leaves without a change: neither the set
\* nor the bus moves, and no task arrives at its update.
LEMMA TrackedWaiting ==
    ASSUME TypeOK, SlaveInv, NEW c \in Callers,
           set_response(c) \/ CancelSet(c) \/ Refuse(c) \/ AwaitLock(c)
    PROVE  SlaveInv'
  <1>1. UNCHANGED <<registered, responses>>
    BY DEF set_response, CancelSet, Refuse, AwaitLock, busVars
  <1>2. /\ \A d \in Callers \ {c} : at'[d] = at[d] /\ arg'[d] = arg[d]
        /\ at'[c] \in {"idle", "check", "lock"}
        /\ at'[c] # "idle" => arg'[c] \in CallsOf[c]
        /\ at[c] # "record"
    <2>1. at \in [Callers -> {"idle", "check", "lock", "record"}]
          /\ arg \in [Callers -> SetResponseCall]
      BY DEF TypeOK, SlaveTypeOK
    <2>2. CASE set_response(c)
      BY <2>1, <2>2 DEF set_response
    <2>3. CASE CancelSet(c) \/ Refuse(c)
      BY <2>1, <2>3 DEF CancelSet, Refuse, Return
    <2>4. CASE AwaitLock(c)
      BY <2>1, <2>4 DEF AwaitLock, Step, SlaveInv, OwnCall
    <2>. QED
      BY <2>2, <2>3, <2>4
  <1>3. OwnCall'
    BY <1>2 DEF SlaveInv, OwnCall
  <1>4. Published'
    BY <1>1, <1>2 DEF SlaveInv, Published
  <1>5. RegisteredTracksBus'
    BY <1>1, <1>2 DEF SlaveInv, RegisteredTracksBus
  <1>. QED
    BY <1>3, <1>4, <1>5 DEF SlaveInv

\* A publish keeps set and bus in step: its own task is the one to record it.
LEMMA TrackedPublish ==
    ASSUME TypeOK, SlaveInv, NEW c \in Callers, PublishResponse(c)
    PROVE  SlaveInv'
  <1>1. /\ at[c] = "lock" /\ at' = [at EXCEPT ![c] = "record"]
        /\ UNCHANGED <<arg, registered>>
        /\ at \in [Callers -> {"idle", "check", "lock", "record"}]
    BY DEF PublishResponse, Step, TypeOK, SlaveTypeOK
  <1>2. DOMAIN responses' = IF arg[c].some THEN DOMAIN responses \cup {arg[c].id}
                            ELSE DOMAIN responses \ {arg[c].id}
    BY PublishType
  <1>3. OwnCall'
    BY <1>1 DEF SlaveInv, OwnCall
  <1>4. Published'
    <2> SUFFICES ASSUME NEW d \in Callers, at'[d] = "record", Writers(arg[d].id) = {d}
                 PROVE  arg[d].some <=> arg[d].id \in DOMAIN responses'
      BY <1>1 DEF Published, Writers
    <2>1. CASE d = c
      BY <1>2, <2>1
    <2>2. CASE d # c
      <3>1. at[d] = "record"
        BY <1>1, <2>2
      <3>2. arg[c].id # arg[d].id
        BY <1>1, <2>2, OneWriter DEF SlaveInv
      <3>3. arg[d].some <=> arg[d].id \in DOMAIN responses
        BY <3>1 DEF SlaveInv, Published
      <3>. QED
        BY <1>2, <3>2, <3>3
    <2>. QED
      BY <2>1, <2>2
  <1>5. RegisteredTracksBus'
    <2> SUFFICES ASSUME NEW d \in Callers, NEW a \in CallsOf[d], Writers(a.id) = {d}
                 PROVE  \/ a.id \in registered <=> a.id \in DOMAIN responses'
                        \/ at'[d] = "record" /\ arg[d].id = a.id
      BY <1>1 DEF RegisteredTracksBus, Writers
    <2>0. \/ a.id \in registered <=> a.id \in DOMAIN responses
          \/ at[d] = "record" /\ arg[d].id = a.id
      BY DEF SlaveInv, RegisteredTracksBus
    <2>1. CASE arg[c].id = a.id
      <3>1. d = c
        BY <1>1, <2>1, OneWriter DEF SlaveInv
      <3>. QED
        BY <1>1, <2>1, <3>1
    <2>2. CASE arg[c].id # a.id
      <3>1. a.id \in DOMAIN responses' <=> a.id \in DOMAIN responses
        BY <1>2, <2>2
      <3>2. at[d] = "record" => at'[d] = "record"
        BY <1>1
      <3>. QED
        BY <2>0, <3>1, <3>2
    <2>. QED
      BY <2>1, <2>2
  <1>. QED
    BY <1>3, <1>4, <1>5 DEF SlaveInv

\* Recording a publish brings the set up to what the bus holds.
LEMMA TrackedRecord ==
    ASSUME TypeOK, SlaveInv, NEW c \in Callers, RecordResponse(c)
    PROVE  SlaveInv'
  <1>1. /\ at[c] = "record" /\ at'[c] = "idle"
        /\ \A d \in Callers \ {c} : at'[d] = at[d] /\ arg'[d] = arg[d]
        /\ UNCHANGED responses
    BY DEF RecordResponse, Return, TypeOK, SlaveTypeOK, busVars
  <1>2. registered' = IF arg[c].some THEN registered \cup {arg[c].id}
                      ELSE registered \ {arg[c].id}
    BY DEF RecordResponse
  <1>3. OwnCall' /\ Published'
    BY <1>1 DEF SlaveInv, OwnCall, Published
  <1>4. RegisteredTracksBus'
    <2> SUFFICES ASSUME NEW d \in Callers, NEW a \in CallsOf[d], Writers(a.id) = {d}
                 PROVE  \/ a.id \in registered' <=> a.id \in DOMAIN responses
                        \/ at'[d] = "record" /\ arg'[d].id = a.id
      BY <1>1 DEF RegisteredTracksBus
    <2>0. \/ a.id \in registered <=> a.id \in DOMAIN responses
          \/ at[d] = "record" /\ arg[d].id = a.id
      BY DEF SlaveInv, RegisteredTracksBus
    <2>1. CASE arg[c].id = a.id
      <3>1. d = c
        BY <1>1, <2>1, OneWriter DEF SlaveInv
      <3>2. arg[c].some <=> a.id \in DOMAIN responses
        BY <1>1, <2>1, <3>1 DEF SlaveInv, Published
      <3>. QED
        BY <1>2, <2>1, <3>2
    <2>2. CASE arg[c].id # a.id
      <3>1. a.id \in registered' <=> a.id \in registered
        BY <1>2, <2>2
      <3>2. CASE d = c
        BY <2>0, <2>2, <3>1, <3>2
      <3>3. CASE d # c
        BY <1>1, <2>0, <3>1, <3>3
      <3>. QED
        BY <3>2, <3>3
    <2>. QED
      BY <2>1, <2>2
  <1>. QED
    BY <1>3, <1>4 DEF SlaveInv

\* The set of registered ids and the bus agree, up to the publish that the
\* only task setting an id has made and not yet recorded.
THEOREM AlwaysTracked == Spec => []SlaveInv
  <1>1. Init => SlaveInv
    BY DEF Init, SlaveInit, BusInit, SlaveInv, OwnCall, Published, RegisteredTracksBus
  <1>2. TypeOK /\ SlaveInv /\ [Next]_vars => SlaveInv'
    <2> SUFFICES ASSUME TypeOK, SlaveInv, [Next]_vars PROVE SlaveInv'
      OBVIOUS
    <2>1. CASE SlaveNext
      BY <2>1, TrackedWaiting, TrackedPublish, TrackedRecord DEF SlaveNext, SetResponse
    <2>2. CASE MasterNext /\ UNCHANGED slaveVars
      <3>1. UNCHANGED responses
        BY <2>2 DEF MasterNext, Run, set_schedule, RefuseTable, AwaitSetLock, InstallTable, run,
                    TimeOut, StartSlot, RefuseHeader, AwaitHeaderLock, Exchange, Callback, Wake,
                    CancelMaster, Expire, busVars
      <3>. QED
        BY <2>2, <3>1 DEF SlaveInv, OwnCall, Published, RegisteredTracksBus, slaveVars
    <2>3. CASE CloseBus \/ DisableSchedule \/ UNCHANGED vars
      <3>1. UNCHANGED <<slaveVars, responses>>
        BY <2>3 DEF CloseBus, Close, DisableSchedule, vars, busVars
      <3>. QED
        BY <3>1 DEF SlaveInv, OwnCall, Published, RegisteredTracksBus, slaveVars
    <2>. QED
      BY <2>1, <2>2, <2>3 DEF Next
  <1>. QED
    BY <1>1, <1>2, TypeCorrect, PTL DEF Spec

\* An id set by one task only is registered exactly while the bus answers for
\* it, whatever fails or is abandoned.
THEOREM RegisteredCorrect == Spec => []RegisteredTracksBus
  <1>1. SlaveInv => RegisteredTracksBus
    BY DEF SlaveInv
  <1>. QED
    BY <1>1, AlwaysTracked, PTL

(***************************************************************************)
(* The deadline.  A run that is before its exchange has had no late one.   *)
(***************************************************************************)
LateInv ==
    /\ late \in {0, 1}
    /\ ctx # "passed" => late = 0
    /\ mpc \notin {"callback", "sleep"} => late = 0

\* A run answers at most one header after its deadline.
THEOREM Deadline == Spec => []OneLateHeader
  <1>1. Init => LateInv
    BY DEF Init, MasterInit, LateInv
  <1>2. LateInv /\ [Next]_vars => LateInv'
    <2> SUFFICES ASSUME LateInv, [Next]_vars PROVE LateInv'
      OBVIOUS
    <2>. USE DEF LateInv, MasterStep
    <2>1. CASE UNCHANGED masterVars
      BY <2>1 DEF masterVars
    <2>2. CASE RefuseTable \/ InstallTable \/ CancelMaster \/ TimeOut("top") \/ TimeOut("sleep")
      BY <2>2 DEF RefuseTable, InstallTable, CancelMaster, TimeOut, Leave
    <2>3. CASE set_schedule \/ AwaitSetLock \/ run
      BY <2>3 DEF set_schedule, AwaitSetLock, run
    <2>4. CASE StartSlot \/ AwaitHeaderLock \/ Callback \/ Wake
      BY <2>4 DEF StartSlot, AwaitHeaderLock, Callback, Wake, Done
    <2>5. CASE RefuseHeader \/ Exchange
      BY <2>5 DEF RefuseHeader, Exchange, CountLate
    <2>6. CASE Expire
      BY <2>6 DEF Expire
    <2>. QED
      BY <2>1, <2>2, <2>3, <2>4, <2>5, <2>6
         DEF Next, MasterNext, Run, CloseBus, DisableSchedule, vars
  <1>3. LateInv => OneLateHeader
    BY DEF LateInv, OneLateHeader
  <1>. QED
    BY <1>1, <1>2, <1>3, PTL DEF Spec
=============================================================================
