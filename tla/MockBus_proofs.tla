---------------------------- MODULE MockBus_proofs ----------------------------
(***************************************************************************)
(* Theorems about the mock bus, for any number of tasks, channels and      *)
(* calls, any ids and payloads, and every policy.                          *)
(***************************************************************************)
EXTENDS MockBus, TLAPS

Data == Payloads \cup {NoData}
Ops == {"idle", "publish", "send_header", "subscribe", "close", "reset", "inject"}
Labels == {"", "check", "record", "store", "lookup", "inject", "sweep", "headers"}
CallType == [op : Ops, at : Labels, id : Nat, data : Data]
FrameType == [id : Nat, data : Data, found : SUBSET Data]

\* The parts of the state the theorems look at are well typed.
MTypeOK ==
    /\ responses \in [DOMAIN responses -> Payloads]
    /\ published \in Seq([id : Nat, data : Data])
    /\ call \in [Tasks -> CallType]
    /\ stale \in [Tasks -> SUBSET Data]
    /\ queue \in [Subs -> Seq(FrameType)]
    /\ \A t \in Tasks : call[t].op = "publish" => call[t].id \in Ids

\* The marker of no payload is none.
LEMMA NoDataApart == NoData \notin Payloads
  BY MockAssumption DEF NoData

(***************************************************************************)
(* The calls.                                                              *)
(***************************************************************************)
\* What a call starts with.
LEMMA BeginCall ==
    ASSUME NEW t \in Tasks, BeginAny(t)
    PROVE  \E c \in CallType :
              /\ Begin(t, c)
              /\ c.at = "check" \/ c.at = "inject"
              /\ c.op = "publish" => c.id \in Ids /\ c.at = "check"
              /\ c.op = "send_header" => c.at = "check"
              /\ c.at = "inject" => c.data \in Payloads /\ c.op = "inject"
  <1>1. CASE \E id \in Ids, d \in Payloads \cup {NoData} : Begin(t, Call("publish", id, d))
    <2>1. PICK id \in Ids, d \in Data : Begin(t, Call("publish", id, d))
      BY <1>1 DEF Data
    <2>2. Call("publish", id, d) \in CallType
      BY MockAssumption DEF Call, CallType, Ops, Labels
    <2>. QED
      BY <2>1, <2>2 DEF Call
  <1>2. CASE \E id \in Ids : Begin(t, Call("send_header", id, NoData))
    <2>1. PICK id \in Ids : Begin(t, Call("send_header", id, NoData))
      BY <1>2
    <2>2. Call("send_header", id, NoData) \in CallType
      BY MockAssumption DEF Call, CallType, Ops, Labels, Data
    <2>. QED
      BY <2>1, <2>2 DEF Call
  <1>3. CASE \E op \in {"subscribe", "close", "reset"} : Begin(t, Call(op, 0, NoData))
    <2>1. PICK op \in {"subscribe", "close", "reset"} : Begin(t, Call(op, 0, NoData))
      BY <1>3
    <2>2. Call(op, 0, NoData) \in CallType
      BY DEF Call, CallType, Ops, Labels, Data
    <2>. QED
      BY <2>1, <2>2 DEF Call
  <1>4. CASE \E id \in Ids, d \in Payloads : Begin(t, [Call("inject", id, d) EXCEPT !.at = "inject"])
    <2>1. PICK id \in Ids, d \in Payloads : Begin(t, [Call("inject", id, d) EXCEPT !.at = "inject"])
      BY <1>4
    <2>2. [Call("inject", id, d) EXCEPT !.at = "inject"] = [op |-> "inject", at |-> "inject", id |-> id, data |-> d]
      BY DEF Call
    <2>3. [op |-> "inject", at |-> "inject", id |-> id, data |-> d] \in CallType
      BY MockAssumption DEF CallType, Ops, Labels, Data
    <2>. QED
      BY <2>1, <2>2, <2>3
  <1>. QED
    BY <1>1, <1>2, <1>3, <1>4 DEF BeginAny

\* The steps that touch neither the record, nor the responses, nor a queue.
Quiet(t) ==
    \/ BeginAny(t) \/ Check(t) \/ RecordHeader(t) \/ LookUp(t)
    \/ Attach(t) \/ CloseFlag(t) \/ CloseSweep(t) \/ ResetHeaders(t)

\* Going on and returning keep the calls well typed, and change one of them.
LEMMA CallSteps ==
    ASSUME MTypeOK, NEW t \in Tasks, NEW at \in Labels, Goto(t, at) \/ Return(t)
    PROVE  /\ call' \in [Tasks -> CallType]
           /\ \A u \in Tasks \ {t} : call'[u] = call[u]
           /\ \A u \in Tasks : call'[u].op = "publish" => call[u].op = "publish"
           /\ \A u \in Tasks : call'[u].op # "idle" =>
                call'[u].op = call[u].op /\ call'[u].id = call[u].id /\ call'[u].data = call[u].data
           /\ call'[t].at = at \/ call'[t] = Idle
  <1>1. Idle \in CallType
    BY DEF Idle, CallType, Ops, Labels, Data
  <1>2. call[t] \in CallType /\ call \in [Tasks -> CallType]
    BY DEF MTypeOK
  <1>3. CASE Goto(t, at)
    <2>1. [call[t] EXCEPT !.at = at] \in CallType
      BY <1>2 DEF CallType
    <2>2. call' = [call EXCEPT ![t] = [call[t] EXCEPT !.at = at]]
      BY <1>2, <1>3 DEF Goto
    <2>. QED
      BY <1>2, <2>1, <2>2 DEF CallType
  <1>4. CASE Return(t)
    BY <1>1, <1>2, <1>4 DEF Return, Idle
  <1>. QED
    BY <1>3, <1>4

\* send_header finds a response and keeps a copy.
LEMMA LookUpSteps ==
    ASSUME MTypeOK, NEW t \in Tasks, LookUp(t)
    PROVE  \/ Return(t)
           \/ /\ responses[call[t].id] \in Payloads
              /\ call[t].id \in DOMAIN responses
              /\ call' \in [Tasks -> CallType]
              /\ \A u \in Tasks \ {t} : call'[u] = call[u]
              /\ call'[t].op = "send_header" /\ call'[t].at = "inject"
              /\ call'[t].data = responses[call[t].id]
  <1>1. call[t] \in CallType /\ call \in [Tasks -> CallType]
    BY DEF MTypeOK
  <1>2. CASE call[t].id \in DOMAIN responses
    <2>1. responses[call[t].id] \in Payloads
      BY <1>2 DEF MTypeOK
    <2> DEFINE r == [call[t] EXCEPT !.at = "inject", !.data = responses[call[t].id]]
    <2>2. call' = [call EXCEPT ![t] = r]
      BY <1>1, <1>2 DEF LookUp
    <2>3. call[t].op = "send_header"
      BY DEF LookUp, At
    <2>4. r \in CallType
      BY <1>1, <2>1 DEF CallType, Ops, Labels, Data
    <2>5. r.op = call[t].op /\ r.at = "inject" /\ r.data = responses[call[t].id]
      BY <1>1 DEF CallType
    <2> HIDE DEF r
    <2>. QED
      BY <1>1, <1>2, <2>1, <2>2, <2>3, <2>4, <2>5
  <1>3. CASE call[t].id \notin DOMAIN responses
    BY <1>3 DEF LookUp
  <1>. QED
    BY <1>2, <1>3

Storing(u) == call[u].op = "publish" /\ call[u].at = "store"

\* A quiet step keeps the calls well typed, and no call gets to the store of
\* publish, or leaves it, by one.
LEMMA QuietCalls ==
    ASSUME MTypeOK, NEW t \in Tasks, Quiet(t)
    PROVE  /\ call' \in [Tasks -> CallType]
           /\ \A u \in Tasks \ {t} : call'[u] = call[u]
           /\ ~Storing(t) /\ ~Storing(t)'
           /\ UNCHANGED <<responses, published, queue>>
           /\ unsure \subseteq unsure'
           /\ call'[t].op = "publish" => call'[t].id \in Ids
  <1>1. CASE BeginAny(t)
    <2>1. PICK c \in CallType :
              /\ Begin(t, c)
              /\ c.at = "check" \/ c.at = "inject"
              /\ c.op = "publish" => c.id \in Ids /\ c.at = "check"
      BY <1>1, BeginCall
    <2>2. call \in [Tasks -> CallType] /\ call[t] = Idle /\ call' = [call EXCEPT ![t] = c]
      BY <2>1 DEF MTypeOK, Begin
    <2>3. unsure \subseteq unsure' /\ UNCHANGED <<responses, published, queue>>
      BY <2>1 DEF Begin, dataVars, subVars
    <2>4. call' \in [Tasks -> CallType] /\ call'[t] = c /\ \A u \in Tasks \ {t} : call'[u] = call[u]
      BY <2>2
    <2>8. Idle.op = "idle"
      BY DEF Idle
    <2>5. ~Storing(t)
      BY <2>2, <2>8 DEF Storing
    <2>6. c.at # "store"
      BY <2>1
    <2>7. ~Storing(t)'
      BY <2>4, <2>6 DEF Storing
    <2>. QED
      BY <2>1, <2>3, <2>4, <2>5, <2>7
  <1>2. CASE LookUp(t)
    <2>1. UNCHANGED <<responses, published, queue, unsure>> /\ ~Storing(t)
      BY <1>2 DEF LookUp, dataVars, subVars, At, Storing
    <2>2. CASE Return(t)
      BY <2>1, <2>2, CallSteps DEF Storing, Return, Labels, Idle, MTypeOK
    <2>. QED
      BY <1>2, <2>1, <2>2, LookUpSteps DEF Storing
  <1>3. CASE Check(t) \/ RecordHeader(t) \/ Attach(t) \/ CloseFlag(t) \/ CloseSweep(t) \/ ResetHeaders(t)
    <2>1. UNCHANGED <<responses, published, queue, unsure>> /\ ~Storing(t)
      BY <1>3 DEF Check, RecordHeader, Attach, CloseFlag, CloseSweep, ResetHeaders,
           dataVars, subVars, At, Storing
    <2>2. \E at \in {"record", "lookup", "sweep"} : Goto(t, at) \/ Return(t)
      BY <1>3 DEF Check, RecordHeader, Attach, CloseFlag, CloseSweep, ResetHeaders
    <2>3. PICK at \in {"record", "lookup", "sweep"} : Goto(t, at) \/ Return(t)
      BY <2>2
    <2>4. /\ call' \in [Tasks -> CallType]
          /\ \A u \in Tasks \ {t} : call'[u] = call[u]
          /\ call'[t].op # "idle" => call'[t].op = call[t].op /\ call'[t].id = call[t].id
          /\ call'[t].at = at \/ call'[t] = Idle
      BY <2>3, CallSteps DEF Labels
    <2>5. Idle.op = "idle"
      BY DEF Idle
    <2>6. call'[t].op = "publish" => call'[t].id \in Ids
      BY <2>4, <2>5 DEF MTypeOK
    <2>7. call'[t].op = "publish" => call'[t].at # "store"
      BY <2>4, <2>5
    <2>8. ~Storing(t)'
      BY <2>7 DEF Storing
    <2>. QED
      BY <2>1, <2>4, <2>6, <2>8
  <1>. QED
    BY <1>1, <1>2, <1>3 DEF Quiet

\* What a header may find is data.
LEMMA FoundType ==
    ASSUME MTypeOK, NEW id
    PROVE  Found(id) \in SUBSET Data
  BY DEF MTypeOK, Found, Data

\* The responses after a store, by id.
LEMMA StoredFinds ==
    ASSUME MTypeOK, NEW id \in Ids, NEW data \in Data, responses' = Stored(id, data)
    PROVE  /\ responses' \in [DOMAIN responses' -> Payloads]
           /\ Found(id)' = {data}
           /\ \A other : other # id => Found(other)' = Found(other)
  <1>1. CASE data = NoData
    <2>1. responses' = [i \in DOMAIN responses \ {id} |-> responses[i]]
      BY <1>1 DEF Stored, Restrict
    <2>. QED
      BY <1>1, <2>1 DEF Found, MTypeOK
  <1>2. CASE data # NoData
    <2>1. responses' = [i \in DOMAIN responses \cup {id} |-> IF i = id THEN data ELSE responses[i]]
      BY <1>2 DEF Stored
    <2>. QED
      BY <1>2, <2>1 DEF Found, MTypeOK, Data
  <1>. QED
    BY <1>1, <1>2

\* A push puts the frame or nothing new in a queue.
LEMMA PushedFrames ==
    ASSUME MTypeOK, NEW s \in Subs, NEW f \in FrameType
    PROVE  /\ Pushed(s, f) \in Seq(FrameType)
           /\ \A i \in 1 .. Len(Pushed(s, f)) :
                Pushed(s, f)[i] = f \/ \E j \in 1 .. Len(queue[s]) : Pushed(s, f)[i] = queue[s][j]
  <1> DEFINE q == queue[s]
  <1>1. q \in Seq(FrameType)
    BY DEF MTypeOK
  <1> HIDE DEF q
  <1>2. ASSUME NEW r \in Seq(FrameType), \A i \in 1 .. Len(r) : \E j \in 1 .. Len(q) : r[i] = q[j]
        PROVE  /\ Append(r, f) \in Seq(FrameType)
               /\ \A i \in 1 .. Len(Append(r, f)) :
                    Append(r, f)[i] = f \/ \E j \in 1 .. Len(q) : Append(r, f)[i] = q[j]
    <2>1. Append(r, f) \in Seq(FrameType) /\ Len(Append(r, f)) = Len(r) + 1
      OBVIOUS
    <2>2. ASSUME NEW i \in 1 .. Len(r) + 1
          PROVE  Append(r, f)[i] = f \/ \E j \in 1 .. Len(q) : Append(r, f)[i] = q[j]
      <3>1. CASE i = Len(r) + 1
        BY <3>1
      <3>2. CASE i \in 1 .. Len(r)
        BY <3>2, <1>2
      <3>. QED
        BY <3>1, <3>2
    <2>. QED
      BY <2>1, <2>2
  <1>3. CASE Pushed(s, f) = q
    BY <1>1, <1>3 DEF q
  <1>4. CASE Pushed(s, f) = Append(q, f)
    BY <1>1, <1>2, <1>4 DEF q
  <1>5. CASE Pushed(s, f) = Append(Tail(q), f) /\ Full(q, Options.capacity)
    <2>1. q # <<>>
      BY <1>5, MockAssumption DEF Full, SubscriberOptions
    <2>2. Tail(q) \in Seq(FrameType) /\ \A i \in 1 .. Len(Tail(q)) : i + 1 \in 1 .. Len(q) /\ Tail(q)[i] = q[i + 1]
      BY <1>1, <2>1
    <2>. QED
      BY <1>2, <1>5, <2>2 DEF q
  <1>. QED
    BY <1>3, <1>4, <1>5 DEF Pushed, Enqueue, q

\* What a step does to the calls' histories.
LEMMA StaleSteps ==
    ASSUME MTypeOK, NEW t \in Tasks, Quiet(t)
    PROVE  stale' \in [Tasks -> SUBSET Data]
  <1>1. CASE BeginAny(t)
    <2>1. PICK c \in CallType : Begin(t, c)
      BY <1>1, BeginCall
    <2>2. Found(c.id) \in SUBSET Data /\ c.data \in Data
      BY FoundType DEF CallType
    <2>. QED
      BY <2>1, <2>2 DEF Begin, MTypeOK
  <1>2. CASE UNCHANGED stale
    BY <1>2 DEF MTypeOK
  <1>. QED
    BY <1>1, <1>2 DEF Quiet, Check, RecordHeader, LookUp, Attach, CloseFlag, CloseSweep, ResetHeaders

\* The frame a call injects.
LEMMA InjectedType ==
    ASSUME MTypeOK, NEW t \in Tasks
    PROVE  Injected(t) \in FrameType
  BY DEF MTypeOK, Injected, FrameType, CallType

\* The state is well typed in every reachable state.
THEOREM TypeCorrect == Spec => []MTypeOK
  <1>1. Init => MTypeOK
    <2> SUFFICES ASSUME Init PROVE MTypeOK
      OBVIOUS
    <2>1. Idle \in CallType /\ Idle.op = "idle"
      BY DEF Idle, CallType, Ops, Labels, Data
    <2>. QED
      BY <2>1 DEF Init, MTypeOK
  <1>2. MTypeOK /\ [Next]_vars => MTypeOK'
    <2> SUFFICES ASSUME MTypeOK, [Next]_vars PROVE MTypeOK'
      OBVIOUS
    <2>1. ASSUME NEW t \in Tasks, Quiet(t) PROVE MTypeOK'
      BY <2>1, QuietCalls, StaleSteps DEF MTypeOK
    <2>2. ASSUME NEW t \in Tasks, Record(t) PROVE MTypeOK'
      <3>1. Goto(t, "store") /\ UNCHANGED <<responses, stale, queue>>
        BY <2>2 DEF Record, subVars
      <3>2. published' \in Seq([id : Nat, data : Data])
        BY <2>2 DEF Record, MTypeOK, CallType
      <3>. QED
        BY <3>1, <3>2, CallSteps DEF MTypeOK, Labels
    <2>3. ASSUME NEW t \in Tasks, Store(t) PROVE MTypeOK'
      <3>1. Return(t) /\ UNCHANGED <<published, queue>> /\ call[t].id \in Ids /\ call[t].data \in Data
        BY <2>3 DEF Store, subVars, At, MTypeOK, CallType
      <3>2. responses' \in [DOMAIN responses' -> Payloads]
        BY <2>3, <3>1, StoredFinds DEF Store
      <3>3. stale' \in [Tasks -> SUBSET Data]
        BY <2>3, <3>1 DEF Store, MTypeOK
      <3>. QED
        BY <3>1, <3>2, <3>3, CallSteps DEF MTypeOK, Labels
    <2>4. ASSUME NEW t \in Tasks, Inject(t) PROVE MTypeOK'
      <3>1. Return(t) /\ UNCHANGED <<responses, published, stale>>
        BY <2>4 DEF Inject, dataVars
      <3>2. queue' \in [Subs -> Seq(FrameType)]
        BY <2>4, InjectedType, PushedFrames DEF Inject, MTypeOK
      <3>. QED
        BY <3>1, <3>2, CallSteps DEF MTypeOK, Labels
    <2>5. ASSUME NEW t \in Tasks, ResetPublished(t) PROVE MTypeOK'
      <3>1. Goto(t, "headers") /\ UNCHANGED <<responses, stale, queue>> /\ published' = <<>>
        BY <2>5 DEF ResetPublished, subVars
      <3>2. published' \in Seq([id : Nat, data : Data])
        BY <3>1
      <3>3. call' \in [Tasks -> CallType] /\ \A u \in Tasks : call'[u].op = "publish" => call'[u].id \in Ids
        BY <3>1, CallSteps DEF Labels, MTypeOK
      <3>. QED
        BY <3>1, <3>2, <3>3 DEF MTypeOK
    <2>6. ASSUME NEW s \in Subs, Pop(s) PROVE MTypeOK'
      <3>1. Tail(queue[s]) \in Seq(FrameType)
        BY <2>6 DEF Pop, MTypeOK
      <3>. QED
        BY <2>6, <3>1 DEF Pop, MTypeOK, dataVars
    <2>7. CASE UNCHANGED vars
      BY <2>7 DEF vars, dataVars, subVars, MTypeOK
    <2>8. ASSUME NEW t \in Tasks, Cancel(t) PROVE MTypeOK'
      <3>1. Return(t) /\ UNCHANGED <<responses, published, queue, stale>>
        BY <2>8 DEF Cancel, dataVars, subVars
      <3>. QED
        BY <3>1, CallSteps DEF MTypeOK, Labels
    <2>. QED
      BY <2>1, <2>2, <2>3, <2>4, <2>5, <2>6, <2>7, <2>8 DEF Next, Quiet
  <1>. QED
    BY <1>1, <1>2, PTL DEF Spec

-----------------------------------------------------------------------------
(***************************************************************************)
(* The record agrees with the answers.                                     *)
(***************************************************************************)
\* An id that is not marked has one publish call at most.
OnePublisher ==
    \A t, u \in Tasks :
        /\ call[t].op = "publish" /\ call[u].op = "publish"
        /\ call[t].id = call[u].id /\ call[t].id \notin unsure
        => t = u

\* Between its two locks, publish owes the store of what it recorded last; a
\* call that is dropped there, or recorded with another about, marks its id.
Owed ==
    \A t \in Tasks : Storing(t) /\ call[t].id \notin unsure =>
        \A i \in 1 .. Len(published), id \in Ids :
            id = call[t].id /\ LastRecord(id, i) => published[i].data = call[t].data

\* When nobody is between the locks, the last record is what is found.
Settled ==
    \A id \in Ids \ unsure : (\A t \in Tasks : Storing(t) => call[t].id # id) =>
        \A i \in 1 .. Len(published) : LastRecord(id, i) => Found(id) = {published[i].data}

\* Publish calls begin one by one, and one that joins another marks the id.
LEMMA OneSteps ==
    ASSUME MTypeOK, OnePublisher, [Next]_vars
    PROVE  OnePublisher'
  <1>1. ASSUME NEW t \in Tasks, NEW c \in CallType, Begin(t, c)
        PROVE  OnePublisher'
    <2>1. /\ call' = [call EXCEPT ![t] = c] /\ call \in [Tasks -> CallType]
          /\ unsure \subseteq unsure'
          /\ c.op = "publish" => \A u \in Tasks \ {t} : call[u].op = "publish" /\ call[u].id = c.id => c.id \in unsure'
      BY <1>1 DEF Begin, Joined, MTypeOK
    <2>2. /\ call'[t] = c /\ \A u \in Tasks \ {t} : call'[u] = call[u]
      BY <2>1
    <2>. QED
      BY <2>1, <2>2 DEF OnePublisher
  <1>2. ASSUME unsure \subseteq unsure',
               \A u \in Tasks : call'[u].op = "publish" => call[u].op = "publish" /\ call'[u].id = call[u].id
        PROVE  OnePublisher'
    BY <1>2 DEF OnePublisher
  <1>3. ASSUME NEW t \in Tasks, NEW at \in Labels, Goto(t, at) \/ Return(t), unsure \subseteq unsure'
        PROVE  OnePublisher'
    BY <1>2, <1>3, CallSteps
  <1>4. ASSUME NEW t \in Tasks, LookUp(t) PROVE OnePublisher'
    <2>1. unsure' = unsure
      BY <1>4 DEF LookUp
    <2>2. CASE Return(t)
      BY <1>3, <2>1, <2>2 DEF Labels
    <2>3. CASE call'[t].op = "send_header" /\ \A u \in Tasks \ {t} : call'[u] = call[u]
      BY <1>2, <2>1, <2>3
    <2>. QED
      BY <1>4, <2>2, <2>3, LookUpSteps
  <1>5. ASSUME NEW t \in Tasks,
               \/ Check(t) \/ Store(t) \/ RecordHeader(t) \/ Inject(t) \/ Attach(t)
               \/ CloseFlag(t) \/ CloseSweep(t) \/ ResetPublished(t) \/ ResetHeaders(t) \/ Cancel(t)
        PROVE  OnePublisher'
    <2>1. unsure \subseteq unsure' /\ \E at \in {"record", "store", "lookup", "sweep", "headers"} : Goto(t, at) \/ Return(t)
      BY <1>5 DEF Check, Store, RecordHeader, Inject, Attach, CloseFlag, CloseSweep,
           ResetPublished, ResetHeaders, Cancel
    <2>. QED
      BY <1>3, <2>1 DEF Labels
  <1>6. CASE UNCHANGED <<call, unsure>>
    BY <1>6, <1>2
  <1>8. ASSUME NEW t \in Tasks, Record(t) PROVE OnePublisher'
    <2>1. /\ Goto(t, "store") /\ call[t].op = "publish"
          /\ unsure' = IF Joined(t, call[t].id) THEN unsure ELSE unsure \ {call[t].id}
      BY <1>8 DEF Record, At
    <2>2. CASE Joined(t, call[t].id)
      BY <1>3, <2>1, <2>2 DEF Labels
    <2>3. CASE ~Joined(t, call[t].id)
      <3>1. call'[t].op = "publish" => call'[t].id = call[t].id
        BY <2>1, CallSteps DEF Labels
      <3>2. \A u \in Tasks \ {t} : call'[u] = call[u]
        BY <2>1, CallSteps DEF Labels
      <3>3. \A u \in Tasks \ {t} : ~(call[u].op = "publish" /\ call[u].id = call[t].id)
        BY <2>3 DEF Joined
      <3>4. unsure' = unsure \ {call[t].id}
        BY <2>1, <2>3
      <3>. QED
        BY <2>1, <3>1, <3>2, <3>3, <3>4 DEF OnePublisher
    <2>. QED
      BY <2>2, <2>3
  <1>7. \/ UNCHANGED <<call, unsure>> \/ \E t \in Tasks : BeginAny(t) \/ LookUp(t)
            \/ Check(t) \/ Record(t) \/ Store(t) \/ RecordHeader(t) \/ Inject(t) \/ Attach(t)
            \/ CloseFlag(t) \/ CloseSweep(t) \/ ResetPublished(t) \/ ResetHeaders(t) \/ Cancel(t)
    BY DEF Next, Pop, vars
  <1>. QED
    BY <1>1, <1>4, <1>5, <1>6, <1>7, <1>8, BeginCall

\* Where neither records, responses nor publish calls between their locks
\* change, everything stays as it is.
LEMMA SettledStays ==
    ASSUME Owed, Settled, UNCHANGED <<responses, published>>, unsure \subseteq unsure',
           \A u \in Tasks : Storing(u)' <=> Storing(u),
           \A u \in Tasks : Storing(u) => call'[u] = call[u]
    PROVE  Owed' /\ Settled'
  <1>1. \A id, i : LastRecord(id, i)' <=> LastRecord(id, i)
    BY DEF LastRecord
  <1>2. \A id : Found(id)' = Found(id)
    BY DEF Found
  <1>3. Owed'
    BY <1>1 DEF Owed
  <1>4. Settled'
    BY <1>1, <1>2 DEF Settled
  <1>. QED
    BY <1>3, <1>4

\* A record becomes the last of its id, and of no other.
LEMMA RecordLast ==
    ASSUME MTypeOK, NEW t \in Tasks, Record(t)
    PROVE  /\ Len(published') = Len(published) + 1
           /\ published'[Len(published')] = [id |-> call[t].id, data |-> call[t].data]
           /\ \A i \in 1 .. Len(published) : published'[i] = published[i]
           /\ \A id : id = call[t].id => \A i \in 1 .. Len(published') :
                LastRecord(id, i)' => i = Len(published')
           /\ \A id : id # call[t].id => \A i \in 1 .. Len(published') :
                LastRecord(id, i)' => i \in 1 .. Len(published) /\ LastRecord(id, i)
  <1>1. /\ Len(published') = Len(published) + 1 /\ Len(published) \in Nat
        /\ published'[Len(published')] = [id |-> call[t].id, data |-> call[t].data]
        /\ \A i \in 1 .. Len(published) : published'[i] = published[i]
    BY DEF Record, MTypeOK
  <1>2. ASSUME NEW id, id = call[t].id, NEW i \in 1 .. Len(published'), LastRecord(id, i)'
        PROVE  i = Len(published')
    <2>1. Len(published') \in Nat /\ published'[Len(published')].id = id
      BY <1>1, <1>2
    <2>2. \A j \in i + 1 .. Len(published') : published'[j].id # id
      BY <1>2 DEF LastRecord
    <2>3. Len(published') \notin i + 1 .. Len(published')
      BY <2>1, <2>2
    <2>. QED
      BY <2>1, <2>3
  <1>3. ASSUME NEW id, id # call[t].id, NEW i \in 1 .. Len(published'), LastRecord(id, i)'
        PROVE  i \in 1 .. Len(published) /\ LastRecord(id, i)
    <2>1. i # Len(published')
      BY <1>1, <1>3 DEF LastRecord
    <2>. QED
      BY <1>1, <1>3, <2>1 DEF LastRecord
  <1>. QED
    BY <1>1, <1>2, <1>3

\* Each step keeps what is owed and what is settled.
LEMMA AgreeSteps ==
    ASSUME MTypeOK, OnePublisher, Owed, Settled, [Next]_vars
    PROVE  Owed' /\ Settled'
  <1>0. Idle.op = "idle"
    BY DEF Idle
  <1>1. ASSUME NEW t \in Tasks, Quiet(t) PROVE Owed' /\ Settled'
    <2>1. /\ \A u \in Tasks \ {t} : call'[u] = call[u]
          /\ ~Storing(t) /\ ~Storing(t)'
          /\ UNCHANGED <<responses, published>> /\ unsure \subseteq unsure'
      BY <1>1, QuietCalls
    <2>2. \A u \in Tasks : (Storing(u)' <=> Storing(u)) /\ (Storing(u) => call'[u] = call[u])
      BY <2>1 DEF Storing
    <2>. QED
      BY <2>1, <2>2, SettledStays
  <1>2. ASSUME NEW t \in Tasks, Record(t) PROVE Owed' /\ Settled'
    <2>1. /\ Goto(t, "store") /\ UNCHANGED responses
          /\ call[t].op = "publish" /\ call[t].at = "record"
          /\ unsure' = IF Joined(t, call[t].id) THEN unsure ELSE unsure \ {call[t].id}
      BY <1>2 DEF Record, At
    <2>9. \A id : id \notin unsure' => id \notin unsure \/ (id = call[t].id /\ ~Joined(t, id))
      BY <2>1
    <2>2. \A u \in Tasks \ {t} : call'[u] = call[u]
      BY <2>1, CallSteps DEF Labels
    <2>3. call'[t] = [call[t] EXCEPT !.at = "store"] /\ call[t] \in CallType
      BY <2>1 DEF Goto, MTypeOK
    <2>4. call'[t].op = "publish" /\ call'[t].at = "store" /\ call'[t].id = call[t].id /\ call'[t].data = call[t].data
      BY <2>1, <2>3 DEF CallType
    <2>5. Storing(t)' /\ ~Storing(t)
      BY <2>1, <2>4 DEF Storing
    <2>6. \A u \in Tasks \ {t} : Storing(u)' <=> Storing(u)
      BY <2>2 DEF Storing
    <2>7. ASSUME NEW u \in Tasks, Storing(u)', call'[u].id \notin unsure',
                 NEW i \in 1 .. Len(published'), NEW id \in Ids, id = call'[u].id, LastRecord(id, i)'
          PROVE  published'[i].data = call'[u].data
      <3>1. CASE u = t
        <4>1. i = Len(published') /\ published'[i] = [id |-> call[t].id, data |-> call[t].data]
          BY <1>2, <2>4, <2>7, <3>1, RecordLast
        <4>. QED
          BY <2>4, <3>1, <4>1
      <3>2. CASE u # t
        <4>1. Storing(u) /\ call'[u] = call[u] /\ call[u].op = "publish" /\ call[u].id \notin unsure
          <5>1. Storing(u) /\ call'[u] = call[u] /\ call[u].op = "publish"
            BY <2>2, <2>6, <2>7, <3>2 DEF Storing
          <5>2. call[u].id = call[t].id => Joined(t, call[u].id)
            BY <3>2, <5>1 DEF Joined
          <5>. QED
            BY <2>7, <2>9, <5>1, <5>2
        <4>2. id # call[t].id /\ id = call[u].id
          BY <2>1, <2>7, <3>2, <4>1 DEF OnePublisher
        <4>3. i \in 1 .. Len(published) /\ LastRecord(id, i) /\ published'[i] = published[i]
          BY <1>2, <2>7, <4>2, RecordLast
        <4>. QED
          BY <4>1, <4>2, <4>3 DEF Owed
      <3>. QED
        BY <3>1, <3>2
    <2>8. ASSUME NEW id \in Ids \ unsure', \A u \in Tasks : Storing(u)' => call'[u].id # id,
                 NEW i \in 1 .. Len(published'), LastRecord(id, i)'
          PROVE  Found(id)' = {published'[i].data}
      <3>1. id # call[t].id /\ id \in Ids \ unsure
        BY <2>4, <2>5, <2>8, <2>9
      <3>2. \A u \in Tasks : Storing(u) => call[u].id # id
        BY <2>2, <2>5, <2>6, <2>8
      <3>3. i \in 1 .. Len(published) /\ LastRecord(id, i) /\ published'[i] = published[i]
        BY <1>2, <2>8, <3>1, RecordLast
      <3>4. Found(id)' = Found(id)
        BY <2>1 DEF Found
      <3>. QED
        BY <3>1, <3>2, <3>3, <3>4 DEF Settled
    <2>. QED
      BY <2>7, <2>8 DEF Owed, Settled
  <1>3. ASSUME NEW t \in Tasks, Store(t) PROVE Owed' /\ Settled'
    <2>1. /\ Return(t) /\ UNCHANGED <<published, unsure>> /\ Storing(t)
          /\ responses' = Stored(call[t].id, call[t].data)
      BY <1>3 DEF Store, At, Storing
    <2>2. call[t].id \in Ids /\ call[t].data \in Data
      BY <2>1 DEF Storing, MTypeOK, CallType
    <2>9. PICK x \in Ids, d \in Data : x = call[t].id /\ d = call[t].data
      BY <2>2
    <2>3. Found(x)' = {d} /\ \A other : other # x => Found(other)' = Found(other)
      BY <2>1, <2>9, StoredFinds
    <2>4. (\A u \in Tasks \ {t} : call'[u] = call[u]) /\ call'[t] = Idle
      BY <2>1 DEF Return, MTypeOK
    <2>5. ~Storing(t)' /\ \A u \in Tasks \ {t} : Storing(u)' <=> Storing(u)
      BY <1>0, <2>4 DEF Storing
    <2>6. \A id, i : LastRecord(id, i)' <=> LastRecord(id, i)
      BY <2>1 DEF LastRecord
    <2>7. Owed'
      BY <2>1, <2>4, <2>5, <2>6 DEF Owed
    <2>8. ASSUME NEW id \in Ids \ unsure', \A u \in Tasks : Storing(u)' => call'[u].id # id,
                 NEW i \in 1 .. Len(published'), LastRecord(id, i)'
          PROVE  Found(id)' = {published'[i].data}
      <3>1. LastRecord(id, i) /\ id \in Ids \ unsure /\ i \in 1 .. Len(published) /\ published' = published
        BY <2>1, <2>6, <2>8
      <3>2. CASE id = call[t].id
        <4>1. published[i].data = call[t].data
          BY <2>1, <3>1, <3>2 DEF Owed
        <4>. QED
          BY <2>3, <2>9, <3>1, <3>2, <4>1
      <3>3. CASE id # call[t].id
        <4>1. \A u \in Tasks : Storing(u) => call[u].id # id
          BY <2>4, <2>5, <2>8, <3>3
        <4>. QED
          BY <2>3, <2>9, <3>1, <3>3, <4>1 DEF Settled
      <3>. QED
        BY <3>2, <3>3
    <2>. QED
      BY <2>7, <2>8 DEF Settled
  <1>4. ASSUME NEW t \in Tasks, Inject(t) PROVE Owed' /\ Settled'
    <2>1. Return(t) /\ UNCHANGED <<responses, published, unsure>> /\ call[t].at = "inject"
      BY <1>4 DEF Inject, dataVars
    <2>2. (\A u \in Tasks \ {t} : call'[u] = call[u]) /\ call'[t] = Idle
      BY <2>1 DEF Return, MTypeOK
    <2>3. \A u \in Tasks : (Storing(u)' <=> Storing(u)) /\ (Storing(u) => call'[u] = call[u])
      BY <1>0, <2>1, <2>2 DEF Storing
    <2>. QED
      BY <2>1, <2>3, SettledStays
  <1>5. ASSUME NEW t \in Tasks, ResetPublished(t) PROVE Owed' /\ Settled'
    <2>1. published' = <<>>
      BY <1>5 DEF ResetPublished
    <2>2. 1 .. Len(published') = {}
      BY <2>1
    <2>. QED
      BY <2>2 DEF Owed, Settled
  <1>6. CASE UNCHANGED <<responses, published, call, unsure>>
    BY <1>6, SettledStays DEF Storing
  <1>8. ASSUME NEW t \in Tasks, Cancel(t) PROVE Owed' /\ Settled'
    <2>1. /\ Return(t) /\ UNCHANGED <<responses, published>> /\ unsure \subseteq unsure'
          /\ Storing(t) => call[t].id \in unsure'
      BY <1>8 DEF Cancel, dataVars, At, Storing
    <2>2. (\A u \in Tasks \ {t} : call'[u] = call[u]) /\ call'[t] = Idle
      BY <2>1 DEF Return, MTypeOK
    <2>3. ~Storing(t)' /\ \A u \in Tasks \ {t} : Storing(u)' <=> Storing(u)
      BY <1>0, <2>2 DEF Storing
    <2>4. \A id, i : LastRecord(id, i)' <=> LastRecord(id, i)
      BY <2>1 DEF LastRecord
    <2>5. Owed'
      BY <2>1, <2>2, <2>3, <2>4 DEF Owed
    <2>6. ASSUME NEW id \in Ids \ unsure', \A u \in Tasks : Storing(u)' => call'[u].id # id
          PROVE  id \in Ids \ unsure /\ \A u \in Tasks : Storing(u) => call[u].id # id
      BY <2>1, <2>2, <2>3, <2>6
    <2>7. \A id : Found(id)' = Found(id)
      BY <2>1 DEF Found
    <2>. QED
      BY <2>1, <2>4, <2>5, <2>6, <2>7 DEF Settled
  <1>7. \/ UNCHANGED <<responses, published, call, unsure>>
        \/ \E t \in Tasks : Quiet(t) \/ Record(t) \/ Store(t) \/ Inject(t) \/ ResetPublished(t) \/ Cancel(t)
    BY DEF Next, Pop, vars, dataVars, Quiet
  <1>. QED
    BY <1>1, <1>2, <1>3, <1>4, <1>5, <1>6, <1>7, <1>8

\* What a test reads is what the bus answers with: the last record of an id is
\* the response the bus holds, but after publish calls that overlapped or one
\* dropped between its locks, and then only until one records alone.
THEOREM RecordIsAnswer == Spec => []RecordAgrees
  <1> DEFINE IInv == OnePublisher /\ Owed /\ Settled
  <1>1. Init => IInv
    <2> SUFFICES ASSUME Init PROVE IInv
      OBVIOUS
    <2>1. Idle.op = "idle"
      BY DEF Idle
    <2>2. 1 .. Len(published) = {} /\ \A t \in Tasks : call[t] = Idle
      BY DEF Init
    <2>3. OnePublisher
      BY <2>1, <2>2 DEF OnePublisher
    <2>. QED
      BY <2>2, <2>3 DEF Owed, Settled
  <1>2. MTypeOK /\ IInv /\ [Next]_vars => IInv'
    BY OneSteps, AgreeSteps
  <1>3. IInv => RecordAgrees
    BY DEF Settled, RecordAgrees, Publishing, Storing
  <1>. QED
    BY <1>1, <1>2, <1>3, TypeCorrect, PTL DEF Spec

-----------------------------------------------------------------------------
(***************************************************************************)
(* The answers.                                                            *)
(***************************************************************************)
Looking(c) == c.op = "send_header" /\ c.at \in {"check", "record", "lookup"}

\* A header on its way knows what it would find.
Knows == \A t \in Tasks : Looking(call[t]) => Found(call[t].id) \subseteq stale[t]

\* A frame about to be injected is one of those that were found.
Holds == \A t \in Tasks : call[t].at = "inject" => call[t].data \in stale[t] \ {NoData}

\* A frame in a queue was found when it was injected.
InQueues == \A s \in Subs : \A i \in 1 .. Len(queue[s]) :
    queue[s][i].data \in queue[s][i].found \ {NoData}

\* A call that moves, or ends, where nothing is stored.
LEMMA MovesOn ==
    ASSUME MTypeOK, Knows, Holds, NEW t \in Tasks, UNCHANGED <<responses, stale>>,
           \/ Return(t)
           \/ \E at \in Labels \ {"inject"} :
                Goto(t, at) /\ (call[t].op = "send_header" => Looking(call[t]))
    PROVE  Knows' /\ Holds'
  <1>1. Idle.op = "idle" /\ Idle.at = ""
    BY DEF Idle
  <1>2. call \in [Tasks -> CallType] /\ call[t] \in CallType
    BY DEF MTypeOK
  <1>3. \A id : Found(id)' = Found(id)
    BY DEF Found
  <1>4. CASE Return(t)
    <2>1. call'[t] = Idle /\ \A u \in Tasks \ {t} : call'[u] = call[u]
      BY <1>2, <1>4 DEF Return
    <2>2. ASSUME NEW u \in Tasks, Looking(call'[u]) PROVE Found(call'[u].id) \subseteq stale'[u]
      BY <1>1, <2>1, <2>2 DEF Looking, Knows
    <2>3. Holds'
      BY <1>1, <2>1 DEF Holds
    <2>. QED
      BY <1>3, <2>2, <2>3 DEF Knows, Found, Looking
  <1>5. ASSUME NEW at \in Labels \ {"inject"}, Goto(t, at), call[t].op = "send_header" => Looking(call[t])
        PROVE  Knows' /\ Holds'
    <2>1. /\ call'[t] = [call[t] EXCEPT !.at = at]
          /\ \A u \in Tasks \ {t} : call'[u] = call[u]
      BY <1>2, <1>5 DEF Goto
    <2>2. call'[t].op = call[t].op /\ call'[t].id = call[t].id /\ call'[t].at = at
      BY <1>2, <2>1 DEF CallType
    <2>3. ASSUME NEW u \in Tasks, Looking(call'[u]) PROVE Looking(call[u]) /\ call'[u].id = call[u].id
      BY <1>5, <2>1, <2>2, <2>3 DEF Looking
    <2>4. ASSUME NEW u \in Tasks, Looking(call'[u]) PROVE Found(call'[u].id) \subseteq stale'[u]
      BY <2>3, <2>4 DEF Knows
    <2>5. Holds'
      BY <1>5, <2>1, <2>2 DEF Holds
    <2>. QED
      BY <1>3, <2>4, <2>5 DEF Knows, Found, Looking
  <1>. QED
    BY <1>4, <1>5

\* Each step keeps what the calls know and hold.
LEMMA KnownSteps ==
    ASSUME MTypeOK, Knows, Holds, [Next]_vars
    PROVE  Knows' /\ Holds'
  <1>1. ASSUME NEW t \in Tasks, BeginAny(t) PROVE Knows' /\ Holds'
    <2>1. PICK c \in CallType :
              /\ Begin(t, c)
              /\ c.op = "send_header" => c.at = "check"
              /\ c.at = "inject" => c.data \in Payloads /\ c.op = "inject"
      BY <1>1, BeginCall
    <2>2. /\ call'[t] = c /\ \A u \in Tasks \ {t} : call'[u] = call[u] /\ stale'[u] = stale[u]
          /\ stale'[t] = IF c.op = "send_header" THEN Found(c.id) ELSE {c.data}
          /\ responses' = responses
      BY <2>1 DEF Begin, MTypeOK, dataVars
    <2>3. ASSUME NEW u \in Tasks, Looking(call'[u]) PROVE Found(call'[u].id) \subseteq stale'[u]
      BY <2>2, <2>3 DEF Knows, Looking
    <2>4. Holds'
      BY <2>1, <2>2, NoDataApart DEF Holds
    <2>. QED
      BY <2>2, <2>3, <2>4 DEF Knows, Found, Looking
  <1>2. ASSUME NEW t \in Tasks, LookUp(t) PROVE Knows' /\ Holds'
    <2>1. UNCHANGED <<responses, stale>> /\ Looking(call[t])
      BY <1>2 DEF LookUp, dataVars, At, Looking
    <2>2. CASE Return(t)
      BY <2>1, <2>2, MovesOn
    <2>3. CASE /\ responses[call[t].id] \in Payloads
               /\ call[t].id \in DOMAIN responses
               /\ \A u \in Tasks \ {t} : call'[u] = call[u]
               /\ call'[t].op = "send_header" /\ call'[t].at = "inject"
               /\ call'[t].data = responses[call[t].id]
      <3>1. call'[t].data \in stale[t]
        BY <2>1, <2>3 DEF Knows, Found
      <3>2. Holds'
        BY <2>1, <2>3, <3>1, NoDataApart DEF Holds
      <3>3. ASSUME NEW u \in Tasks, Looking(call'[u]) PROVE Found(call'[u].id) \subseteq stale'[u]
        BY <2>1, <2>3, <3>3 DEF Knows, Looking
      <3>. QED
        BY <2>1, <3>2, <3>3 DEF Knows, Found, Looking
    <2>. QED
      BY <1>2, <2>2, <2>3, LookUpSteps
  <1>3. ASSUME NEW t \in Tasks, Store(t) PROVE Knows' /\ Holds'
    <2>1. /\ Return(t) /\ call[t].op = "publish" /\ responses' = Stored(call[t].id, call[t].data)
          /\ stale' = [u \in Tasks |->
                          IF call[u].op = "send_header" /\ call[u].id = call[t].id
                          THEN stale[u] \cup {call[t].data} ELSE stale[u]]
      BY <1>3 DEF Store, At
    <2>2. call[t].id \in Ids /\ call[t].data \in Data
      BY <2>1 DEF MTypeOK, CallType
    <2>3. PICK x \in Ids, d \in Data : x = call[t].id /\ d = call[t].data
      BY <2>2
    <2>4. Found(x)' = {d} /\ \A other : other # x => Found(other)' = Found(other)
      BY <2>1, <2>3, StoredFinds
    <2>5. /\ call'[t] = Idle /\ Idle.op = "idle" /\ Idle.at = ""
          /\ \A u \in Tasks \ {t} : call'[u] = call[u]
      BY <2>1 DEF Return, MTypeOK, Idle
    <2>6. \A u \in Tasks : stale[u] \subseteq stale'[u]
      BY <2>1
    <2>7. Holds'
      BY <2>5, <2>6 DEF Holds
    <2>8. ASSUME NEW u \in Tasks, Looking(call'[u]), NEW id, id = call'[u].id
          PROVE  Found(id)' \subseteq stale'[u]
      <3>1. u # t /\ Looking(call[u]) /\ id = call[u].id /\ call[u].op = "send_header"
        BY <2>5, <2>8 DEF Looking
      <3>2. CASE id = x
        BY <2>1, <2>3, <2>4, <3>1, <3>2
      <3>3. CASE id # x
        BY <2>4, <2>6, <3>1, <3>3 DEF Knows
      <3>. QED
        BY <3>2, <3>3
    <2>. QED
      BY <2>7, <2>8 DEF Knows, Looking
  <1>4. ASSUME NEW t \in Tasks, Record(t) \/ Inject(t) \/ Attach(t) \/ CloseFlag(t) \/ CloseSweep(t)
                    \/ ResetPublished(t) \/ ResetHeaders(t) \/ Cancel(t)
        PROVE  Knows' /\ Holds'
    <2>1. UNCHANGED <<responses, stale>>
      BY <1>4 DEF Record, Inject, Attach, CloseFlag, CloseSweep, ResetPublished, ResetHeaders, Cancel, dataVars
    <2>2. Return(t) \/ \E at \in {"store", "sweep", "headers"} : Goto(t, at) /\ call[t].op # "send_header"
      BY <1>4 DEF Record, Inject, Attach, CloseFlag, CloseSweep, ResetPublished, ResetHeaders, Cancel, At
    <2>. QED
      BY <2>1, <2>2, MovesOn DEF Labels
  <1>5. ASSUME NEW t \in Tasks, Check(t) \/ RecordHeader(t) PROVE Knows' /\ Holds'
    <2>1. UNCHANGED <<responses, stale>>
      BY <1>5 DEF Check, RecordHeader, dataVars
    <2>2. /\ Return(t) \/ \E at \in {"record", "lookup"} : Goto(t, at)
          /\ call[t].op = "send_header" => Looking(call[t])
      BY <1>5 DEF Check, RecordHeader, At, Looking
    <2>. QED
      BY <2>1, <2>2, MovesOn DEF Labels
  <1>6. CASE UNCHANGED <<responses, stale, call>>
    BY <1>6 DEF Knows, Holds, Found, Looking
  <1>7. \/ UNCHANGED <<responses, stale, call>>
        \/ \E t \in Tasks : \/ BeginAny(t) \/ LookUp(t) \/ Store(t) \/ Check(t) \/ RecordHeader(t)
                            \/ Record(t) \/ Inject(t) \/ Attach(t) \/ CloseFlag(t) \/ CloseSweep(t)
                            \/ ResetPublished(t) \/ ResetHeaders(t) \/ Cancel(t)
    BY DEF Next, Pop, vars, dataVars
  <1>. QED
    BY <1>1, <1>2, <1>3, <1>4, <1>5, <1>6, <1>7

\* Each step puts no other frames into the queues.
LEMMA FrameSteps ==
    ASSUME MTypeOK, Holds, InQueues, [Next]_vars
    PROVE  InQueues'
  <1>1. ASSUME NEW t \in Tasks, Inject(t) PROVE InQueues'
    <2>1. Injected(t).data \in Injected(t).found \ {NoData}
      BY <1>1 DEF Inject, Injected, Holds
    <2>2. ASSUME NEW s \in Subs, NEW i \in 1 .. Len(queue'[s])
          PROVE  queue'[s][i].data \in queue'[s][i].found \ {NoData}
      <3>1. queue'[s] = Pushed(s, Injected(t)) \/ queue'[s] = queue[s]
        BY <1>1 DEF Inject
      <3>2. PICK f \in FrameType : f = Injected(t)
        BY InjectedType
      <3>3. CASE queue'[s] = Pushed(s, f)
        <4>1. queue'[s][i] = f \/ \E j \in 1 .. Len(queue[s]) : queue'[s][i] = queue[s][j]
          BY <2>2, <3>3, PushedFrames
        <4>. QED
          BY <2>1, <3>2, <4>1 DEF InQueues
      <3>4. CASE queue'[s] = queue[s]
        BY <2>2, <3>4 DEF InQueues
      <3>. QED
        BY <3>1, <3>2, <3>3, <3>4
    <2>. QED
      BY <2>2 DEF InQueues
  <1>2. ASSUME NEW s \in Subs, Pop(s) PROVE InQueues'
    <2>1. queue[s] \in Seq(FrameType) /\ queue[s] # <<>> /\ queue' = [queue EXCEPT ![s] = Tail(queue[s])]
      BY <1>2 DEF Pop, MTypeOK
    <2>2. \A i \in 1 .. Len(Tail(queue[s])) : i + 1 \in 1 .. Len(queue[s]) /\ Tail(queue[s])[i] = queue[s][i + 1]
      BY <2>1
    <2>3. queue'[s] = Tail(queue[s]) /\ \A r \in Subs \ {s} : queue'[r] = queue[r]
      BY <2>1 DEF MTypeOK
    <2>4. ASSUME NEW r \in Subs, NEW i \in 1 .. Len(queue'[r])
          PROVE  queue'[r][i].data \in queue'[r][i].found \ {NoData}
      <3>1. CASE r = s
        <4>1. queue'[r] = Tail(queue[s]) /\ i \in 1 .. Len(Tail(queue[s]))
          BY <2>3, <2>4, <3>1
        <4>2. i + 1 \in 1 .. Len(queue[s]) /\ queue'[r][i] = queue[s][i + 1]
          BY <2>2, <4>1
        <4>. QED
          BY <4>2 DEF InQueues
      <3>2. CASE r # s
        BY <2>3, <2>4, <3>2 DEF InQueues
      <3>. QED
        BY <3>1, <3>2
    <2>. QED
      BY <2>4 DEF InQueues
  <1>3. CASE UNCHANGED queue
    BY <1>3 DEF InQueues
  <1>4. UNCHANGED queue \/ (\E t \in Tasks : Inject(t)) \/ (\E s \in Subs : Pop(s))
    <2>1. ASSUME NEW t \in Tasks,
                 \/ BeginAny(t) \/ Check(t) \/ Record(t) \/ Store(t) \/ RecordHeader(t) \/ LookUp(t)
                 \/ Attach(t) \/ CloseFlag(t) \/ CloseSweep(t) \/ ResetPublished(t) \/ ResetHeaders(t)
                 \/ Cancel(t)
          PROVE  UNCHANGED queue
      <3>1. CASE BeginAny(t)
        BY <3>1, BeginCall DEF Begin, subVars
      <3>. QED
        BY <2>1, <3>1 DEF Check, Record, Store, RecordHeader, LookUp, Attach, CloseFlag, CloseSweep,
             ResetPublished, ResetHeaders, Cancel, subVars
    <2>2. CASE UNCHANGED vars
      BY <2>2 DEF vars, subVars
    <2>. QED
      BY <2>1, <2>2 DEF Next
  <1>. QED
    BY <1>1, <1>2, <1>3, <1>4

\* Each frame a subscriber gets carries a payload the bus held at some moment of
\* the call that injected it, whatever is stored or removed meanwhile.
THEOREM AnswerWasHeld == Spec => []AnswersCurrent
  <1> DEFINE IInv == Knows /\ Holds /\ InQueues
  <1>1. Init => IInv
    <2> SUFFICES ASSUME Init PROVE IInv
      OBVIOUS
    <2>1. Idle.op = "idle" /\ Idle.at = ""
      BY DEF Idle
    <2>2. (\A s \in Subs : 1 .. Len(queue[s]) = {}) /\ \A t \in Tasks : call[t] = Idle
      BY DEF Init
    <2>. QED
      BY <2>1, <2>2 DEF Knows, Holds, InQueues, Looking
  <1>2. MTypeOK /\ IInv /\ [Next]_vars => IInv'
    BY KnownSteps, FrameSteps
  <1>3. MTypeOK /\ IInv => AnswersCurrent
    <2> SUFFICES ASSUME MTypeOK, InQueues, NEW s \in Subs, NEW f \in ToSet(queue[s])
                 PROVE  f.data \in f.found \ {NoData}
      BY DEF AnswersCurrent
    <2>1. queue[s] \in Seq(FrameType)
      BY DEF MTypeOK
    <2>2. PICK i \in DOMAIN queue[s] : f = queue[s][i]
      BY DEF ToSet
    <2>3. i \in 1 .. Len(queue[s])
      BY <2>1, <2>2
    <2>. QED
      BY <2>2, <2>3 DEF InQueues
  <1>. QED
    BY <1>1, <1>2, <1>3, TypeCorrect, PTL DEF Spec
=============================================================================
