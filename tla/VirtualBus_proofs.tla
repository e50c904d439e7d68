-------------------------- MODULE VirtualBus_proofs --------------------------
(***************************************************************************)
(* Theorems about the bus, for any callers, calls, channels, options and   *)
(* budgets.                                                                *)
(***************************************************************************)
EXTENDS VirtualBus, FiniteSetTheorems, WellFoundedInduction, TLAPS

(***************************************************************************)
(* Types.  The parts of the state an action can disturb together.          *)
(***************************************************************************)
BusOK ==
    /\ closed \in BOOLEAN
    /\ holder \in Tasks \cup {Nobody}
    /\ subs \in SUBSET Subs

ResponsesOK ==
    /\ DOMAIN responses \subseteq 0 .. LIN_MAX_ID
    /\ responses \in [DOMAIN responses -> Response]

ScheduleOK == schedule \in SUBSET (0 .. LIN_MAX_ID)

QueuesOK ==
    /\ queue \in [Subs -> Seq(Frame)]
    /\ seen \in [Subs -> Seq(Nat)]
    /\ evicted \in [Subs -> Nat]

ChannelsOK ==
    /\ subClosed \in [Subs -> BOOLEAN]
    /\ attachedAt \in [Subs -> Nat]
    /\ lastBefore \in [Subs -> Nat]

MetricsOK ==
    /\ writes \in Nat /\ delivers \in Nat /\ drops \in Nat
    /\ bytesWritten \in Nat /\ bytesDelivered \in Nat /\ errors \in Nat

SendOK ==
    /\ frame \in [Tasks -> Frame]
    /\ rest \in [Tasks -> SUBSET Subs]
    /\ accepted \in [Tasks -> Nat]
    /\ refused \in [Tasks -> Nat]

CallersOK ==
    /\ pc \in [Tasks -> {"idle", "check", "lock", "broadcast", "count"}]
    /\ call \in [Tasks -> Calls \cup {NoCall}]
    /\ todo \in [Calls -> Nat]
    /\ held \in SUBSET Subs
    /\ swept \in BOOLEAN

\* What a task brings to the lock has passed the checks.
Checked ==
    \A t \in Tasks :
        /\ pc[t] \in {"check", "lock"} => call[t] \in Calls
        /\ pc[t] = "lock" => ~BadArgument(call[t])

AllOK ==
    /\ BusOK /\ ResponsesOK /\ ScheduleOK /\ QueuesOK /\ ChannelsOK
    /\ MetricsOK /\ SendOK /\ CallersOK /\ Checked

\* The calls a task can be in, by operation.
LEMMA CallFields ==
    ASSUME NEW c \in Calls
    PROVE  /\ c.op = "publish" => c.id \in Nat /\ c.len \in Nat /\ c.ct \in ChecksumType
           /\ c.op \in {"withdraw", "send_header"} => c.id \in Nat
           /\ c.op = "subscribe" => c.sub \in Subs
           /\ c.op = "set_schedule" => c.ids \in SUBSET Nat
  <1>1. c \in AnyCall
    BY BusAssumption
  <1>. QED
    BY <1>1 DEF AnyCall

\* A push leaves a queue of frames, at most one longer.
LEMMA PushType ==
    ASSUME NEW q \in Seq(Frame), NEW f \in Frame, NEW o \in SubscriberOptions
    PROVE  /\ Enqueue(q, f, o.capacity, o.policy) \in Seq(Frame)
           /\ Len(Enqueue(q, f, o.capacity, o.policy)) \in Nat
           /\ Len(Enqueue(q, f, o.capacity, o.policy)) <= Len(q) + 1
  <1>0. o.capacity \in Nat \ {0}
    BY DEF SubscriberOptions
  <1>1. CASE o.policy = "DropOldest" /\ Full(q, o.capacity)
    <2>1. q # <<>>
      BY <1>0, <1>1 DEF Full
    <2>2. Tail(q) \in Seq(Frame) /\ Len(Tail(q)) = Len(q) - 1
      BY <2>1
    <2>. QED
      BY <1>1, <2>2 DEF Enqueue
  <1>2. CASE ~(o.policy = "DropOldest" /\ Full(q, o.capacity))
    BY <1>2 DEF Enqueue
  <1>. QED
    BY <1>1, <1>2

\* The start of a call, and its ways out before the lock.
LEMMA EntryType ==
    ASSUME AllOK, NEW t \in Tasks,
           Begin(t) \/ Reject(t) \/ Admitted(t) \/ CompareExchange(t) \/ Cancel(t)
    PROVE  AllOK'
  <1>1. /\ UNCHANGED <<innerVars, chanVars, sendVars, held, swept>>
        /\ UNCHANGED holder
        /\ closed' \in BOOLEAN
    BY DEF AllOK, BusOK, Begin, Reject, Admitted, CompareExchange, Cancel, callerVars
  <1>2. BusOK' /\ ResponsesOK' /\ ScheduleOK'
    BY <1>1 DEF AllOK, BusOK, ResponsesOK, ScheduleOK, innerVars
  <1>3. QueuesOK' /\ ChannelsOK' /\ SendOK'
    BY <1>1 DEF AllOK, QueuesOK, ChannelsOK, SendOK, chanVars, sendVars
  <1>4. MetricsOK'
    <2>1. /\ errors' \in {errors, errors + 1}
          /\ UNCHANGED <<writes, delivers, drops, bytesWritten, bytesDelivered>>
      BY DEF Begin, Reject, Admitted, CompareExchange, Cancel, metricVars
    <2>. QED
      BY <2>1 DEF AllOK, MetricsOK
  <1>5. CallersOK' /\ Checked'
    <2>0. CallersOK /\ Checked
      BY DEF AllOK
    <2>1. CASE Begin(t)
      <3>1. PICK c \in Calls : /\ todo[c] > 0
                               /\ call' = [call EXCEPT ![t] = c]
                               /\ todo' = [todo EXCEPT ![c] = @ - 1]
        BY <2>1 DEF Begin
      <3>2. todo' \in [Calls -> Nat]
        BY <2>0, <3>1 DEF CallersOK
      <3>3. pc' = [pc EXCEPT ![t] = "check"]
        BY <2>1 DEF Begin
      <3>4. CallersOK'
        BY <1>1, <2>0, <3>1, <3>2, <3>3 DEF CallersOK
      <3>5. Checked'
        BY <2>0, <3>1, <3>3 DEF CallersOK, Checked, BadArgument
      <3>. QED
        BY <3>4, <3>5
    <2>2. CASE Return(t) /\ UNCHANGED todo
      BY <1>1, <2>0, <2>2 DEF CallersOK, Checked, Return, BadArgument
    <2>3. CASE /\ Goto(t, "lock") /\ UNCHANGED todo
               /\ pc[t] = "check" /\ ~BadArgument(call[t])
      BY <1>1, <2>0, <2>3 DEF CallersOK, Checked, Goto, BadArgument
    <2>. QED
      <3>1. CASE CompareExchange(t)
        <4>1. call[t].op = "close" => ~BadArgument(call[t])
          BY DEF BadArgument
        <4>. QED
          BY <2>2, <2>3, <3>1, <4>1 DEF CompareExchange, callerVars
      <3>. QED
        BY <2>1, <2>2, <2>3, <3>1 DEF Reject, Admitted, Cancel, callerVars
  <1>. QED
    BY <1>2, <1>3, <1>4, <1>5 DEF AllOK

\* A call returns from its critical section.
LEMMA ReturnType ==
    ASSUME AllOK, NEW t \in Tasks, Return(t), UNCHANGED <<todo, held, swept>>
    PROVE  CallersOK' /\ Checked'
  BY DEF AllOK, CallersOK, Checked, Return, BadArgument

\* The calls that change one field of the bus under its lock.
LEMMA FieldType ==
    ASSUME AllOK, NEW t \in Tasks, Store(t) \/ Remove(t) \/ Attach(t) \/ Install(t)
    PROVE  AllOK'
  <1>. DEFINE c == call[t]
  <1>0. /\ AllOK /\ c \in Calls /\ ~BadArgument(c)
        /\ pc[t] = "lock"
    BY DEF AllOK, Checked, Store, Remove, Attach, Install, Locked
  <1>1. /\ UNCHANGED <<closed, holder, queue, subClosed, seen, evicted, lastBefore>>
        /\ UNCHANGED <<metricVars, sendVars, todo, swept>>
        /\ Return(t)
    BY DEF Store, Remove, Attach, Install, chanVars, callerVars
  <1>2. subs' \in SUBSET Subs /\ attachedAt' \in [Subs -> Nat] /\ held' \in SUBSET Subs
    <2>1. CASE Attach(t)
      <3>1. c.sub \in Subs
        BY <1>0, <2>1, CallFields DEF Attach, Locked
      <3>. QED
        BY <2>1, <3>1 DEF Attach, AllOK, BusOK, ChannelsOK, MetricsOK, CallersOK
    <2>2. CASE ~Attach(t)
      BY <2>2 DEF Store, Remove, Install, chanVars, callerVars, AllOK, BusOK, ChannelsOK, CallersOK
    <2>. QED
      BY <2>1, <2>2
  <1>3. ResponsesOK'
    <2>1. CASE Store(t)
      <3>. DEFINE r == [len |-> c.len, ct |-> ChecksumFor(c.id, c.ct)]
      <3>1. c.id \in 0 .. LIN_MAX_ID /\ c.len \in Nat /\ c.ct \in ChecksumType
        <4>1. c.id \in Nat /\ c.len \in Nat /\ c.ct \in ChecksumType
          BY <1>0, <2>1, CallFields DEF Store, Locked
        <4>2. ~(c.id > LIN_MAX_ID)
          BY <1>0, <2>1 DEF Store, Locked, BadArgument
        <4>. QED
          BY <4>1, <4>2 DEF LIN_MAX_ID
      <3>2. r \in Response
        BY <3>1 DEF Response, ChecksumFor, ChecksumType
      <3>3. responses' = [id \in DOMAIN responses \cup {c.id} |->
                            IF id = c.id THEN r ELSE responses[id]]
        BY <2>1 DEF Store
      <3>. HIDE DEF r, c
      <3>. QED
        BY <3>1, <3>2, <3>3 DEF AllOK, ResponsesOK
    <2>2. CASE Remove(t)
      BY <2>2 DEF Remove, AllOK, ResponsesOK
    <2>3. CASE Attach(t) \/ Install(t)
      BY <2>3 DEF Attach, Install, AllOK, ResponsesOK
    <2>. QED
      BY <2>1, <2>2, <2>3
  <1>4. ScheduleOK'
    <2>1. CASE Install(t)
      <3>1. c.ids \in SUBSET Nat
        BY <1>0, <2>1, CallFields DEF Install, Locked
      <3>2. \A id \in c.ids : ~(id > LIN_MAX_ID)
        BY <1>0, <2>1 DEF Install, Locked, BadArgument
      <3>3. \A id \in Nat : ~(id > LIN_MAX_ID) => id \in 0 .. LIN_MAX_ID
        BY DEF LIN_MAX_ID
      <3>. QED
        BY <2>1, <3>1, <3>2, <3>3 DEF Install, ScheduleOK
    <2>2. CASE ~Install(t)
      BY <2>2 DEF Store, Remove, Attach, AllOK, ScheduleOK
    <2>. QED
      BY <2>1, <2>2
  <1>5. BusOK' /\ QueuesOK' /\ ChannelsOK'
    BY <1>1, <1>2 DEF AllOK, BusOK, QueuesOK, ChannelsOK
  <1>6. MetricsOK' /\ SendOK'
    BY <1>1 DEF AllOK, MetricsOK, SendOK, metricVars, sendVars
  <1>7. CallersOK' /\ Checked'
    BY <1>1, <1>2 DEF AllOK, CallersOK, Checked, Return, BadArgument
  <1>. QED
    BY <1>3, <1>4, <1>5, <1>6, <1>7 DEF AllOK

\* Closing channels, by the bus or by a receiver.
LEMMA CloseType ==
    ASSUME AllOK, NEW S \in SUBSET Subs, CloseChannels(S)
    PROVE  QueuesOK' /\ ChannelsOK'
  BY DEF AllOK, QueuesOK, ChannelsOK, MetricsOK, CloseChannels

\* The close call that sweeps the list keeps the types.
LEMMA SweepType ==
    ASSUME AllOK, NEW t \in Tasks, Sweep(t)
    PROVE  AllOK'
  <1>1. subs \in SUBSET Subs
    BY DEF AllOK, BusOK
  <1>2. QueuesOK' /\ ChannelsOK'
    BY <1>1, CloseType DEF Sweep
  <1>3. BusOK' /\ ResponsesOK' /\ ScheduleOK'
    BY DEF Sweep, AllOK, BusOK, ResponsesOK, ScheduleOK
  <1>4. MetricsOK' /\ SendOK'
    BY DEF Sweep, AllOK, MetricsOK, SendOK, metricVars, sendVars
  <1>5. CallersOK' /\ Checked'
    BY DEF Sweep, AllOK, CallersOK, Checked, Return, BadArgument
  <1>. QED
    BY <1>2, <1>3, <1>4, <1>5 DEF AllOK

\* send_header without an answer.
LEMMA EarlyType ==
    ASSUME AllOK, NEW t \in Tasks, NoResponse(t) \/ Unsendable(t)
    PROVE  AllOK'
  <1>1. /\ subs' \in SUBSET Subs
        /\ Return(t)
        /\ errors' \in {errors, errors + 1}
        /\ UNCHANGED <<closed, holder, responses, schedule, chanVars, sendVars, callerVars>>
        /\ UNCHANGED <<writes, delivers, drops, bytesWritten, bytesDelivered>>
    BY DEF AllOK, BusOK, NoResponse, Unsendable, ReturnEarly, gc, metricVars
  <1>2. BusOK' /\ ResponsesOK' /\ ScheduleOK'
    BY <1>1 DEF AllOK, BusOK, ResponsesOK, ScheduleOK
  <1>3. QueuesOK' /\ ChannelsOK' /\ SendOK'
    BY <1>1 DEF AllOK, QueuesOK, ChannelsOK, SendOK, chanVars, sendVars
  <1>4. MetricsOK'
    BY <1>1 DEF AllOK, MetricsOK
  <1>5. CallersOK' /\ Checked'
    BY <1>1, ReturnType DEF callerVars
  <1>. QED
    BY <1>2, <1>3, <1>4, <1>5 DEF AllOK

\* The exchange synthesises a frame from a stored response.
LEMMA ExchangeType ==
    ASSUME AllOK, NEW t \in Tasks, Exchange(t)
    PROVE  AllOK'
  <1>. DEFINE f == Synthesised(call[t].id)
  <1>1. f \in Frame /\ f.len \in Nat
    <2>1. call[t] \in Calls /\ call[t].op = "send_header"
      BY DEF AllOK, Checked, Exchange, Locked
    <2>2. call[t].id \in Nat
      BY <2>1, CallFields
    <2>3. responses[call[t].id] \in Response
      BY DEF AllOK, ResponsesOK, Exchange
    <2>4. writes \in Nat
      BY DEF AllOK, MetricsOK
    <2>. QED
      BY <2>2, <2>3, <2>4 DEF Synthesised, Frame, Response
  <1>2. /\ frame' = [frame EXCEPT ![t] = f]
        /\ rest' = [rest EXCEPT ![t] = {s \in gc : Matches(SubFilters[s], f)}]
        /\ bytesWritten' = bytesWritten + f.len
        /\ subs' = gc
        /\ writes' = writes + 1
        /\ holder' = t
        /\ pc' = [pc EXCEPT ![t] = "broadcast"]
        /\ UNCHANGED <<closed, responses, schedule, chanVars, delivers, drops, bytesDelivered>>
        /\ UNCHANGED <<errors, accepted, refused, callerVars, call>>
    BY DEF Exchange, KeepGuard, Goto
  <1>. HIDE DEF f
  <1>3. gc \in SUBSET Subs
    BY DEF gc, AllOK, BusOK
  <1>4. BusOK' /\ ResponsesOK' /\ ScheduleOK'
    BY <1>2, <1>3 DEF AllOK, BusOK, ResponsesOK, ScheduleOK
  <1>5. QueuesOK' /\ ChannelsOK'
    BY <1>2 DEF AllOK, QueuesOK, ChannelsOK, chanVars
  <1>6. SendOK'
    BY <1>1, <1>2, <1>3 DEF AllOK, SendOK
  <1>7. MetricsOK'
    BY <1>1, <1>2 DEF AllOK, MetricsOK
  <1>8. CallersOK' /\ Checked'
    BY <1>2 DEF AllOK, CallersOK, Checked, callerVars, BadArgument
  <1>. QED
    BY <1>4, <1>5, <1>6, <1>7, <1>8 DEF AllOK

\* A push of a broadcast keeps the types, accepted or refused.
LEMMA PushNextType ==
    ASSUME AllOK, NEW t \in Tasks, PushNext(t)
    PROVE  AllOK'
  <1>1. PICK s \in rest[t] : /\ PushAccepted(t, s) \/ PushRefused(t, s)
                             /\ rest' = [rest EXCEPT ![t] = @ \ {s}]
    BY DEF PushNext
  <1>2. s \in Subs
    BY DEF AllOK, SendOK
  <1>3. /\ UNCHANGED <<closed, holder, innerVars, subClosed, seen, attachedAt, lastBefore>>
        /\ UNCHANGED <<metricVars, frame, pc, call, callerVars>>
    BY DEF PushNext
  <1>4. QueuesOK' /\ SendOK'
    <2>1. CASE PushAccepted(t, s)
      <3>. DEFINE q == Enqueue(queue[s], frame[t], SubOptions[s].capacity, SubOptions[s].policy)
      <3>1. /\ queue[s] \in Seq(Frame)
            /\ q \in Seq(Frame) /\ Len(q) \in Nat /\ Len(q) <= Len(queue[s]) + 1
        <4>1. queue[s] \in Seq(Frame) /\ frame[t] \in Frame /\ SubOptions[s] \in SubscriberOptions
          BY <1>2, BusAssumption DEF AllOK, QueuesOK, SendOK
        <4>. QED
          BY <4>1, PushType
      <3>2. queue' = [queue EXCEPT ![s] = q]
        BY <2>1 DEF PushAccepted
      <3>3. evicted' = [evicted EXCEPT ![s] = @ + Len(queue[s]) + 1 - Len(queue'[s])]
            /\ accepted' = [accepted EXCEPT ![t] = @ + 1] /\ UNCHANGED refused
        BY <2>1 DEF PushAccepted
      <3>. HIDE DEF q
      <3>4. queue' \in [Subs -> Seq(Frame)] /\ queue'[s] = q
        BY <1>2, <3>1, <3>2 DEF AllOK, QueuesOK
      <3>5. evicted[s] + Len(queue[s]) + 1 - Len(q) \in Nat
        <4>1. evicted[s] \in Nat /\ Len(queue[s]) \in Nat
          BY <1>2, <3>1 DEF AllOK, QueuesOK
        <4>. QED
          BY <3>1, <4>1
      <3>6. QueuesOK'
        BY <1>2, <1>3, <3>3, <3>4, <3>5 DEF AllOK, QueuesOK
      <3>7. SendOK'
        BY <1>1, <1>3, <3>3 DEF AllOK, SendOK
      <3>. QED
        BY <3>6, <3>7
    <2>2. CASE PushRefused(t, s)
      BY <1>1, <1>3, <2>2 DEF AllOK, QueuesOK, SendOK, PushRefused
    <2>. QED
      BY <1>1, <2>1, <2>2
  <1>5. BusOK' /\ ResponsesOK' /\ ScheduleOK' /\ ChannelsOK'
    BY <1>3 DEF AllOK, BusOK, ResponsesOK, ScheduleOK, ChannelsOK, innerVars
  <1>6. MetricsOK'
    BY <1>3 DEF AllOK, MetricsOK, metricVars
  <1>7. CallersOK' /\ Checked'
    BY <1>3 DEF AllOK, CallersOK, Checked, callerVars, BadArgument
  <1>. QED
    BY <1>4, <1>5, <1>6, <1>7 DEF AllOK

\* Dropping the guard changes nothing but the lock.
LEMMA UnlockType ==
    ASSUME AllOK, NEW t \in Tasks, Unlock(t)
    PROVE  AllOK'
  <1>1. BusOK' /\ ResponsesOK' /\ ScheduleOK'
    BY DEF Unlock, AllOK, BusOK, ResponsesOK, ScheduleOK, innerVars
  <1>2. QueuesOK' /\ ChannelsOK'
    BY DEF Unlock, AllOK, QueuesOK, ChannelsOK, chanVars
  <1>3. MetricsOK' /\ SendOK'
    BY DEF Unlock, AllOK, MetricsOK, SendOK, metricVars, sendVars
  <1>4. CallersOK' /\ Checked'
    BY DEF Unlock, AllOK, CallersOK, Checked, Goto, BadArgument, callerVars
  <1>. QED
    BY <1>1, <1>2, <1>3, <1>4 DEF AllOK

\* Counting an exchange adds numbers to numbers.
LEMMA CountType ==
    ASSUME AllOK, NEW t \in Tasks, Count(t)
    PROVE  AllOK'
  <1>1. /\ UNCHANGED <<closed, holder, innerVars, chanVars, writes, bytesWritten, errors>>
        /\ UNCHANGED <<rest, callerVars>>
        /\ Return(t)
        /\ frame' = [frame EXCEPT ![t] = NoFrame]
        /\ accepted' = [accepted EXCEPT ![t] = 0]
        /\ refused' = [refused EXCEPT ![t] = 0]
    BY DEF Count, EndExchange
  <1>2. BusOK' /\ ResponsesOK' /\ ScheduleOK'
    BY <1>1 DEF AllOK, BusOK, ResponsesOK, ScheduleOK, innerVars
  <1>3. QueuesOK' /\ ChannelsOK'
    BY <1>1 DEF AllOK, QueuesOK, ChannelsOK, chanVars
  <1>4. SendOK'
    <2>1. NoFrame \in Frame
      BY DEF NoFrame, Frame, ChecksumType
    <2>. QED
      BY <1>1, <2>1 DEF AllOK, SendOK
  <1>5. MetricsOK'
    <2>1. accepted[t] \in Nat /\ refused[t] \in Nat /\ frame[t].len \in Nat
      BY DEF AllOK, SendOK, Frame
    <2>2. \A a, b \in Nat : a * b \in Nat
      OBVIOUS
    <2>3. frame[t].len * accepted[t] \in Nat
      BY <2>1, <2>2
    <2>. QED
      BY <1>1, <2>1, <2>3 DEF AllOK, MetricsOK, Count
  <1>6. CallersOK' /\ Checked'
    BY <1>1, ReturnType DEF callerVars
  <1>. QED
    BY <1>2, <1>3, <1>4, <1>5, <1>6 DEF AllOK

\* Receivers pop frames and close their own channel.
LEMMA ReceiverType ==
    ASSUME AllOK, NEW s \in Subs, Recv(s) \/ CloseReceiver(s)
    PROVE  AllOK'
  <1>1. /\ UNCHANGED <<closed, holder, innerVars, metricVars, sendVars>>
        /\ UNCHANGED <<pc, call, callerVars>>
    BY DEF Recv, CloseReceiver
  <1>2. QueuesOK' /\ ChannelsOK'
    <2>1. CASE Recv(s)
      <3>1. queue[s] \in Seq(Frame) /\ queue[s] # <<>> /\ seen[s] \in Seq(Nat)
        BY <2>1 DEF AllOK, QueuesOK, Recv
      <3>2. Head(queue[s]) \in Frame /\ Tail(queue[s]) \in Seq(Frame)
        BY <3>1
      <3>3. Head(queue[s]).n \in Nat
        BY <3>2 DEF Frame
      <3>4. Append(seen[s], Head(queue[s]).n) \in Seq(Nat)
        BY <3>1, <3>3
      <3>. QED
        BY <2>1, <3>2, <3>4 DEF AllOK, QueuesOK, ChannelsOK, Recv
    <2>2. CASE CloseReceiver(s)
      BY <2>2, CloseType DEF CloseReceiver
    <2>. QED
      BY <2>1, <2>2
  <1>3. BusOK' /\ ResponsesOK' /\ ScheduleOK'
    BY <1>1 DEF AllOK, BusOK, ResponsesOK, ScheduleOK, innerVars
  <1>4. MetricsOK' /\ SendOK'
    BY <1>1 DEF AllOK, MetricsOK, SendOK, metricVars, sendVars
  <1>5. CallersOK' /\ Checked'
    BY <1>1 DEF AllOK, CallersOK, Checked, callerVars, BadArgument
  <1>. QED
    BY <1>2, <1>3, <1>4, <1>5 DEF AllOK

\* A step in which nothing changes.
LEMMA IdleType ==
    ASSUME AllOK, UNCHANGED vars
    PROVE  AllOK'
  <1>1. BusOK' /\ ResponsesOK' /\ ScheduleOK'
    BY DEF vars, AllOK, BusOK, ResponsesOK, ScheduleOK, innerVars
  <1>2. QueuesOK' /\ ChannelsOK'
    BY DEF vars, AllOK, QueuesOK, ChannelsOK, chanVars
  <1>3. MetricsOK' /\ SendOK'
    BY DEF vars, AllOK, MetricsOK, SendOK, metricVars, sendVars
  <1>4. CallersOK' /\ Checked'
    BY DEF vars, AllOK, CallersOK, Checked, callerVars, BadArgument
  <1>. QED
    BY <1>1, <1>2, <1>3, <1>4 DEF AllOK

\* The bus is well typed, and nothing unchecked ever reaches the lock.
THEOREM AlwaysTyped == Spec => []AllOK
  <1>1. Init => AllOK
    <2> SUFFICES ASSUME Init PROVE AllOK
      OBVIOUS
    <2>1. BusOK /\ ScheduleOK /\ ChannelsOK /\ MetricsOK
      BY DEF Init, BusOK, ScheduleOK, ChannelsOK, MetricsOK
    <2>2. ResponsesOK
      <3>1. responses = <<>> /\ DOMAIN responses = {}
        BY DEF Init
      <3>. QED
        BY <3>1 DEF ResponsesOK
    <2>3. QueuesOK
      <3>1. <<>> \in Seq(Frame) /\ <<>> \in Seq(Nat)
        OBVIOUS
      <3>. QED
        BY <3>1 DEF Init, QueuesOK
    <2>4. SendOK
      BY DEF Init, SendOK, NoFrame, Frame, ChecksumType
    <2>5. CallersOK /\ Checked
      BY BusAssumption DEF Init, CallersOK, Checked
    <2>. QED
      BY <2>1, <2>2, <2>3, <2>4, <2>5 DEF AllOK
  <1>2. AllOK /\ [Next]_vars => AllOK'
    BY EntryType, FieldType, SweepType, EarlyType, ExchangeType, PushNextType, UnlockType,
       CountType, ReceiverType, IdleType
       DEF Next, Critical, Outside
  <1>. QED
    BY <1>1, <1>2, PTL DEF Spec

\* Every reachable state is well typed, for all calls and budgets.
THEOREM TypeCorrect == Spec => []TypeOK
  <1>1. AllOK => TypeOK
    BY DEF AllOK, BusOK, ResponsesOK, ScheduleOK, QueuesOK, ChannelsOK, MetricsOK, SendOK,
           CallersOK, TypeOK
  <1>. QED
    BY <1>1, AlwaysTyped, PTL

-----------------------------------------------------------------------------
(***************************************************************************)
(* What is registered can be sent: it was checked before the lock, and the *)
(* diagnostic ids got the classic checksum under it.                       *)
(***************************************************************************)
\* The bus never holds a non-empty response that validate_frame rejects.
THEOREM Sendable == Spec => []RegisteredIsSendable
  <1>1. Init => RegisteredIsSendable
    <2>1. Init => DOMAIN responses = {}
      BY DEF Init
    <2>. QED
      BY <2>1 DEF RegisteredIsSendable
  <1>2. AllOK /\ RegisteredIsSendable /\ [Next]_vars => RegisteredIsSendable'
    <2> SUFFICES ASSUME AllOK, RegisteredIsSendable, [Next]_vars
                 PROVE  RegisteredIsSendable'
      OBVIOUS
    <2>1. ASSUME NEW t \in Tasks, Store(t) PROVE RegisteredIsSendable'
      <3>. DEFINE c == call[t]
      <3>1. /\ c \in Calls /\ ~BadArgument(c) /\ c.op = "publish"
        BY <2>1 DEF AllOK, Checked, Store, Locked
      <3>2. c.id \in Nat /\ c.len \in Nat
        BY <3>1, CallFields
      <3>3. c.id <= LIN_MAX_ID /\ c.len <= LIN_MAX_DATA_LEN
        BY <3>1, <3>2 DEF BadArgument, LIN_MAX_ID, LIN_MAX_DATA_LEN
      <3>4. responses' = [id \in DOMAIN responses \cup {c.id} |->
                            IF id = c.id THEN [len |-> c.len, ct |-> ChecksumFor(c.id, c.ct)]
                            ELSE responses[id]]
        BY <2>1 DEF Store
      <3>5. c.id \in Diagnostic => ChecksumFor(c.id, c.ct) = "Classic"
        BY DEF ChecksumFor
      <3>. HIDE DEF c
      <3>. QED
        BY <3>3, <3>4, <3>5 DEF RegisteredIsSendable
    <2>2. ASSUME NEW t \in Tasks, Remove(t) PROVE RegisteredIsSendable'
      BY <2>2 DEF Remove, RegisteredIsSendable
    <2>3. CASE UNCHANGED responses
      BY <2>3 DEF RegisteredIsSendable
    <2>. QED
      BY <2>1, <2>2, <2>3
         DEF Next, Critical, Outside, Begin, Reject, Admitted, CompareExchange, Cancel, Attach,
             Install, Sweep, NoResponse, Unsendable, Exchange, PushNext, Unlock, Count, Recv,
             CloseReceiver, innerVars, vars
  <1>. QED
    BY <1>1, <1>2, AlwaysTyped, PTL DEF Spec

-----------------------------------------------------------------------------
(***************************************************************************)
(* The list of subscribers.                                                *)
(***************************************************************************)
\* The steps that leave the list and the channels' flags alone.
LEMMA ListSteps ==
    ASSUME [Next]_vars
    PROVE  \/ UNCHANGED <<subs, subClosed, held>>
           \/ UNCHANGED subClosed /\ held' = held /\ subs' = gc
           \/ \E t \in Tasks : Attach(t) \/ Sweep(t)
           \/ \E s \in Subs : CloseReceiver(s)
  BY ZenonT(60) DEF Next, Critical, Outside, Begin, Reject, Admitted, CompareExchange, Cancel, Store, Remove,
         Install, NoResponse, Unsendable, Exchange, PushNext, Unlock, Count, Recv,
         innerVars, chanVars, callerVars, vars

\* No open channel is ever missing from the list.
THEOREM Listed == Spec => []OpenIsListed
  <1>1. Init => OpenIsListed
    BY DEF Init, OpenIsListed
  <1>2. AllOK /\ OpenIsListed /\ [Next]_vars => OpenIsListed'
    <2> SUFFICES ASSUME AllOK, OpenIsListed, [Next]_vars PROVE OpenIsListed'
      OBVIOUS
    <2>. USE DEF OpenIsListed
    <2>0. held \subseteq Subs /\ subs \subseteq Subs /\ subClosed \in [Subs -> BOOLEAN]
      BY DEF AllOK, CallersOK, BusOK, ChannelsOK
    <2>1. CASE UNCHANGED <<subs, subClosed, held>>
      BY <2>1
    <2>2. CASE UNCHANGED subClosed /\ held' = held /\ subs' = gc
      BY <2>2 DEF gc
    <2>3. ASSUME NEW t \in Tasks, Attach(t) PROVE OpenIsListed'
      BY <2>3 DEF Attach
    <2>4. ASSUME NEW t \in Tasks, Sweep(t) PROVE OpenIsListed'
      BY <2>0, <2>4 DEF Sweep, CloseChannels
    <2>5. ASSUME NEW s \in Subs, CloseReceiver(s) PROVE OpenIsListed'
      BY <2>0, <2>5 DEF CloseReceiver, CloseChannels, innerVars, callerVars
    <2>. QED
      BY <2>1, <2>2, <2>3, <2>4, <2>5, ListSteps
  <1>. QED
    BY <1>1, <1>2, AlwaysTyped, PTL DEF Spec

-----------------------------------------------------------------------------
(***************************************************************************)
(* The lock.  Its holder is the task in the middle of a broadcast, of      *)
(* which there is one at most, and that is the exchange last counted.      *)
(***************************************************************************)
LockInv ==
    /\ \A t \in Tasks : pc[t] = "broadcast" <=> holder = t
    /\ \A t \in Tasks : rest[t] # {} => pc[t] = "broadcast"
    /\ \A t \in Tasks : pc[t] = "broadcast" => frame[t].n = writes /\ writes # 0

\* The steps that move neither the lock nor a broadcast.
LEMMA LockSteps ==
    ASSUME AllOK, [Next]_vars
    PROVE  \/ \E t \in Tasks : Exchange(t) \/ PushNext(t) \/ Unlock(t)
           \/ /\ UNCHANGED <<holder, writes, rest>>
              /\ \A t \in Tasks :
                    /\ pc'[t] = "broadcast" <=> pc[t] = "broadcast"
                    /\ pc[t] = "broadcast" => frame'[t] = frame[t]
  <1>. USE DEF AllOK, CallersOK, SendOK
  <1>1. ASSUME NEW t \in Tasks, Begin(t) \/ Reject(t) \/ Admitted(t) \/ CompareExchange(t) \/ Cancel(t)
        PROVE  /\ UNCHANGED <<holder, writes, rest, frame>>
               /\ \A u \in Tasks : pc'[u] = "broadcast" <=> pc[u] = "broadcast"
    BY <1>1 DEF Begin, Reject, Admitted, CompareExchange, Cancel, Return, Goto,
                metricVars, sendVars
  <1>2. ASSUME NEW t \in Tasks,
               Store(t) \/ Remove(t) \/ Attach(t) \/ Install(t) \/ Sweep(t)
               \/ NoResponse(t) \/ Unsendable(t)
        PROVE  /\ UNCHANGED <<holder, writes, rest, frame>>
               /\ \A u \in Tasks : pc'[u] = "broadcast" <=> pc[u] = "broadcast"
    BY <1>2 DEF Store, Remove, Attach, Install, Sweep, NoResponse, Unsendable, Locked,
                Return, ReturnEarly, metricVars, sendVars
  <1>3. ASSUME NEW t \in Tasks, Count(t)
        PROVE  /\ UNCHANGED <<holder, writes, rest>>
               /\ \A u \in Tasks :
                    /\ pc'[u] = "broadcast" <=> pc[u] = "broadcast"
                    /\ pc[u] = "broadcast" => frame'[u] = frame[u]
    BY <1>3 DEF Count, EndExchange, Return
  <1>4. ASSUME NEW s \in Subs, Recv(s) \/ CloseReceiver(s)
        PROVE  UNCHANGED <<holder, writes, rest, frame, pc>>
    BY <1>4 DEF Recv, CloseReceiver, metricVars, sendVars
  <1>5. CASE UNCHANGED vars
    BY <1>5 DEF vars, metricVars, sendVars
  <1>. QED
    BY <1>1, <1>2, <1>3, <1>4, <1>5 DEF Next, Critical, Outside

\* At most one task is in a broadcast, and the exchanges are numbered in the
\* order in which they hold the lock.
THEOREM MutualExclusion == Spec => []LockInv
  <1>1. Init => LockInv
    BY BusAssumption DEF Init, LockInv
  <1>2. AllOK /\ LockInv /\ [Next]_vars => LockInv'
    <2> SUFFICES ASSUME AllOK, LockInv, [Next]_vars PROVE LockInv'
      OBVIOUS
    <2>. USE DEF LockInv
    <2>0. Nobody \notin Tasks
      BY BusAssumption
    <2>1. ASSUME NEW t \in Tasks, Exchange(t) PROVE LockInv'
      <3>1. /\ holder = Nobody /\ holder' = t
            /\ pc' = [pc EXCEPT ![t] = "broadcast"]
            /\ frame' = [frame EXCEPT ![t] = Synthesised(call[t].id)]
            /\ writes' = writes + 1
            /\ \A u \in Tasks \ {t} : rest'[u] = rest[u]
        BY <2>1 DEF Exchange, Locked, KeepGuard, Goto, AllOK, SendOK
      <3>2. \A u \in Tasks : pc[u] # "broadcast" /\ rest[u] = {}
        BY <2>0, <3>1
      <3>3. Synthesised(call[t].id).n = writes + 1
        BY DEF Synthesised
      <3>4. \A u \in Tasks : pc'[u] = "broadcast" <=> u = t
        BY <3>1, <3>2 DEF AllOK, CallersOK
      <3>5. frame'[t].n = writes' /\ writes' # 0
        BY <3>1, <3>3 DEF AllOK, SendOK, MetricsOK
      <3>. QED
        BY <3>1, <3>2, <3>4, <3>5
    <2>2. ASSUME NEW t \in Tasks, PushNext(t) PROVE LockInv'
      <3>1. /\ UNCHANGED <<holder, pc, frame, writes>>
            /\ pc[t] = "broadcast"
            /\ \A u \in Tasks \ {t} : rest'[u] = rest[u]
        BY <2>2 DEF PushNext, metricVars, AllOK, SendOK
      <3>. QED
        BY <3>1
    <2>3. ASSUME NEW t \in Tasks, Unlock(t) PROVE LockInv'
      <3>1. /\ pc[t] = "broadcast" /\ rest[t] = {}
            /\ holder' = Nobody
            /\ \A u \in Tasks \ {t} : pc'[u] = pc[u]
            /\ pc'[t] = "count"
            /\ UNCHANGED <<frame, rest, writes>>
        BY <2>3 DEF Unlock, Goto, AllOK, CallersOK, sendVars, metricVars
      <3>. QED
        BY <2>0, <3>1
    <2>4. CASE /\ UNCHANGED <<holder, writes, rest>>
               /\ \A t \in Tasks :
                    /\ pc'[t] = "broadcast" <=> pc[t] = "broadcast"
                    /\ pc[t] = "broadcast" => frame'[t] = frame[t]
      BY <2>4
    <2>. QED
      BY <2>1, <2>2, <2>3, <2>4, LockSteps
  <1>. QED
    BY <1>1, <1>2, AlwaysTyped, PTL DEF Spec

-----------------------------------------------------------------------------
(***************************************************************************)
(* The order of exchanges.  A queue holds them in rising order, none later *)
(* than the last one its channel was offered.                              *)
(***************************************************************************)
Rising(q) == \A i, j \in 1 .. Len(q) : i < j => q[i].n < q[j].n

UpTo(q, hi) == \A i \in 1 .. Len(q) : q[i].n <= hi

Numbers(q) == {f.n : f \in Range(q)}

\* The exchanges in a queue, by position.
LEMMA NumbersDef ==
    ASSUME NEW q \in Seq(Frame)
    PROVE  Numbers(q) = {q[i].n : i \in 1 .. Len(q)}
  <1>1. DOMAIN q = 1 .. Len(q)
    OBVIOUS
  <1>. QED
    BY <1>1, Zenon DEF Numbers, Range

\* Appending the next exchange keeps the order.
LEMMA AppendNext ==
    ASSUME NEW q \in Seq(Frame), NEW f \in Frame, NEW hi \in Nat,
           Rising(q), UpTo(q, hi), f.n = hi + 1
    PROVE  /\ Append(q, f) \in Seq(Frame)
           /\ Rising(Append(q, f))
           /\ UpTo(Append(q, f), hi + 1)
           /\ Numbers(Append(q, f)) = Numbers(q) \cup {hi + 1}
  <1>. DEFINE r == Append(q, f)
  <1>1. /\ r \in Seq(Frame)
        /\ Len(q) \in Nat
        /\ Len(r) = Len(q) + 1
        /\ \A i \in 1 .. Len(q) : r[i] = q[i] /\ q[i] \in Frame
        /\ r[Len(q) + 1] = f
    OBVIOUS
  <1>. HIDE DEF r
  <1>2. \A i \in 1 .. Len(q) : r[i].n = q[i].n /\ q[i].n \in Nat /\ q[i].n <= hi
    BY <1>1 DEF Frame, UpTo
  <1>3. \A i \in 1 .. Len(r) : i \in 1 .. Len(q) \/ i = Len(q) + 1
    BY <1>1
  <1>4. UpTo(r, hi + 1)
    BY <1>1, <1>2, <1>3 DEF UpTo
  <1>5. Rising(r)
    <2> SUFFICES ASSUME NEW i \in 1 .. Len(r), NEW j \in 1 .. Len(r), i < j
                 PROVE  r[i].n < r[j].n
      BY DEF Rising
    <2>1. i \in 1 .. Len(q)
      BY <1>1
    <2>2. CASE j \in 1 .. Len(q)
      <3>1. q[i].n < q[j].n
        BY <2>1, <2>2 DEF Rising
      <3>. QED
        BY <1>2, <2>1, <2>2, <3>1
    <2>3. CASE j = Len(q) + 1
      <3>1. r[j].n = hi + 1
        BY <1>1, <2>3
      <3>. QED
        BY <1>2, <2>1, <3>1
    <2>. QED
      BY <1>3, <2>2, <2>3
  <1>6. Numbers(r) = Numbers(q) \cup {hi + 1}
    <2>1. Numbers(r) = {r[i].n : i \in 1 .. Len(r)} /\ Numbers(q) = {q[i].n : i \in 1 .. Len(q)}
      BY <1>1, NumbersDef
    <2>2. ASSUME NEW i \in 1 .. Len(r) PROVE r[i].n \in {q[j].n : j \in 1 .. Len(q)} \cup {hi + 1}
      BY <1>1, <1>2, <1>3
    <2>3. ASSUME NEW i \in 1 .. Len(q) PROVE q[i].n \in {r[j].n : j \in 1 .. Len(r)}
      <3>1. i \in 1 .. Len(r) /\ r[i].n = q[i].n
        BY <1>1, <1>2
      <3>. QED
        BY <3>1
    <2>4. hi + 1 \in {r[j].n : j \in 1 .. Len(r)}
      <3>1. Len(q) + 1 \in 1 .. Len(r) /\ r[Len(q) + 1].n = hi + 1
        BY <1>1
      <3>. QED
        BY <3>1
    <2>. QED
      BY <2>1, <2>2, <2>3, <2>4
  <1>. QED
    BY <1>1, <1>4, <1>5, <1>6 DEF r

\* Taking the oldest keeps the order.
LEMMA TakeOldest ==
    ASSUME NEW q \in Seq(Frame), NEW hi \in Nat, Rising(q), UpTo(q, hi), q # <<>>
    PROVE  /\ Tail(q) \in Seq(Frame)
           /\ Rising(Tail(q))
           /\ UpTo(Tail(q), hi)
           /\ Head(q).n \in Numbers(q)
           /\ \A n \in Numbers(q) : Head(q).n <= n
           /\ Numbers(Tail(q)) = Numbers(q) \ {Head(q).n}
  <1>. DEFINE r == Tail(q)
  <1>1. /\ r \in Seq(Frame)
        /\ Len(q) \in Nat \ {0}
        /\ Len(r) = Len(q) - 1
        /\ Head(q) = q[1]
        /\ \A i \in 1 .. Len(q) : q[i] \in Frame
        /\ \A i \in 1 .. Len(r) : r[i] = q[i + 1]
    OBVIOUS
  <1>. HIDE DEF r
  <1>2. \A i \in 1 .. Len(r) : i + 1 \in 1 .. Len(q) /\ r[i].n = q[i + 1].n
    BY <1>1
  <1>3. \A i \in 1 .. Len(q) : q[i].n \in Nat
    BY <1>1 DEF Frame
  <1>4. UpTo(r, hi)
    BY <1>2 DEF UpTo
  <1>5. Rising(r)
    <2> SUFFICES ASSUME NEW i \in 1 .. Len(r), NEW j \in 1 .. Len(r), i < j
                 PROVE  r[i].n < r[j].n
      BY DEF Rising
    <2>1. i + 1 \in 1 .. Len(q) /\ j + 1 \in 1 .. Len(q) /\ i + 1 < j + 1
      BY <1>2
    <2>2. q[i + 1].n < q[j + 1].n
      BY <2>1 DEF Rising
    <2>. QED
      BY <1>2, <2>2
  <1>6. /\ Numbers(r) = {r[i].n : i \in 1 .. Len(r)}
        /\ Numbers(q) = {q[i].n : i \in 1 .. Len(q)}
    BY <1>1, NumbersDef
  <1>7. 1 \in 1 .. Len(q)
    BY <1>1
  <1>8. \A i \in 1 .. Len(q) : i = 1 \/ (q[1].n < q[i].n /\ i - 1 \in 1 .. Len(r) /\ r[i - 1].n = q[i].n)
    <2> SUFFICES ASSUME NEW i \in 1 .. Len(q), i # 1
                 PROVE  q[1].n < q[i].n /\ i - 1 \in 1 .. Len(r) /\ r[i - 1].n = q[i].n
      OBVIOUS
    <2>1. 1 < i /\ i - 1 \in 1 .. Len(r) /\ (i - 1) + 1 = i
      BY <1>1
    <2>2. r[i - 1].n = q[i].n
      BY <1>1, <2>1
    <2>3. q[1].n < q[i].n
      BY <1>7, <2>1 DEF Rising
    <2>. QED
      BY <2>1, <2>2, <2>3
  <1>9. Head(q).n \in Numbers(q)
    BY <1>1, <1>6, <1>7
  <1>10. \A n \in Numbers(q) : Head(q).n <= n
    <2>1. \A i \in 1 .. Len(q) : q[1].n <= q[i].n
      BY <1>3, <1>7, <1>8
    <2>. QED
      BY <1>1, <1>6, <2>1
  <1>11. Numbers(r) = Numbers(q) \ {Head(q).n}
    <2>1. \A i \in 1 .. Len(r) : r[i].n \in Numbers(q) /\ r[i].n # q[1].n
      <3> SUFFICES ASSUME NEW i \in 1 .. Len(r)
                   PROVE  r[i].n \in Numbers(q) /\ r[i].n # q[1].n
        OBVIOUS
      <3>1. i + 1 \in 1 .. Len(q) /\ i + 1 # 1 /\ r[i].n = q[i + 1].n
        BY <1>2
      <3>2. q[1].n < q[i + 1].n /\ q[1].n \in Nat /\ q[i + 1].n \in Nat
        BY <1>3, <1>7, <1>8, <3>1
      <3>. QED
        BY <1>6, <3>1, <3>2
    <2>2. \A i \in 1 .. Len(q) : q[i].n = q[1].n \/ q[i].n \in Numbers(r)
      BY <1>6, <1>8
    <2>3. Numbers(r) \subseteq Numbers(q) \ {q[1].n}
      BY <1>6, <2>1
    <2>4. Numbers(q) \ {q[1].n} \subseteq Numbers(r)
      BY <1>6, <2>2
    <2>. QED
      BY <1>1, <2>3, <2>4
  <1>. QED
    BY <1>1, <1>4, <1>5, <1>9, <1>10, <1>11 DEF r

OrderInv ==
    \A s \in Subs : Rising(queue[s]) /\ UpTo(queue[s], Offered(s))

\* An exchange offers a new frame to the channels it will not reach; to the
\* others it is offered by its push.
LEMMA ExchangeOffers ==
    ASSUME AllOK, LockInv, NEW t \in Tasks, Exchange(t), NEW s \in Subs
    PROVE  /\ UNCHANGED <<queue, seen>>
           /\ Offered(s) = writes
           /\ Offered(s)' = IF s \in rest'[t] THEN Offered(s) ELSE Offered(s) + 1
  <1>1. /\ holder = Nobody /\ writes' = writes + 1 /\ writes \in Nat
        /\ \A u \in Tasks \ {t} : rest'[u] = rest[u]
    BY DEF Exchange, Locked, AllOK, SendOK, MetricsOK
  <1>2. UNCHANGED <<queue, seen>>
    BY DEF Exchange, chanVars
  <1>3. \A u \in Tasks : rest[u] = {}
    BY <1>1, BusAssumption DEF LockInv
  <1>4. Owed(s)' <=> s \in rest'[t]
    BY <1>1, <1>3 DEF Owed
  <1>5. ~Owed(s)
    BY <1>3 DEF Owed
  <1>. QED
    BY <1>1, <1>2, <1>4, <1>5 DEF Offered

\* A push offers the exchange under way to one channel.
LEMMA PushOffers ==
    ASSUME AllOK, LockInv, NEW t \in Tasks, PushNext(t)
    PROVE  \E s \in Subs :
             /\ s \in rest[t]
             /\ PushAccepted(t, s) \/ PushRefused(t, s)
             /\ frame[t].n = Offered(s) + 1
             /\ Offered(s) \in Nat
             /\ Offered(s)' = Offered(s) + 1
             /\ \A r \in Subs \ {s} : Offered(r)' = Offered(r) /\ queue'[r] = queue[r]
             /\ UNCHANGED seen
  <1>1. PICK s \in rest[t] : /\ PushAccepted(t, s) \/ PushRefused(t, s)
                             /\ rest' = [rest EXCEPT ![t] = @ \ {s}]
    BY DEF PushNext
  <1>2. /\ pc[t] = "broadcast" /\ s \in Subs
        /\ UNCHANGED <<writes, seen>>
        /\ writes \in Nat
    BY DEF PushNext, metricVars, AllOK, SendOK, MetricsOK
  <1>3. holder = t /\ frame[t].n = writes /\ frame[t] \in Frame
    BY <1>2 DEF LockInv, AllOK, SendOK
  <1>4. \A u \in Tasks \ {t} : rest[u] = {} /\ rest'[u] = {}
    BY <1>1, <1>3 DEF LockInv, AllOK, SendOK
  <1>5. rest'[t] = rest[t] \ {s}
    BY <1>1 DEF AllOK, SendOK
  <1>6. Owed(s) /\ ~Owed(s)'
    BY <1>1, <1>4, <1>5 DEF Owed
  <1>7. \A r \in Subs \ {s} : Owed(r)' <=> Owed(r)
    BY <1>4, <1>5 DEF Owed
  <1>8. \A r \in Subs \ {s} : queue'[r] = queue[r]
    BY <1>1 DEF PushAccepted, PushRefused, AllOK, QueuesOK
  <1>9. writes # 0
    BY <1>2 DEF LockInv
  <1>. QED
    BY <1>1, <1>2, <1>3, <1>6, <1>7, <1>8, <1>9 DEF Offered

\* All other steps but a receiver's leave the channels and what they were
\* offered alone.
LEMMA OtherOffers ==
    ASSUME AllOK, LockInv, [Next]_vars,
           ~\E t \in Tasks : Exchange(t) \/ PushNext(t)
    PROVE  /\ \A s \in Subs : Offered(s)' = Offered(s)
           /\ UNCHANGED <<queue, seen>> \/ \E s \in Subs : Recv(s)
  <1>1. UNCHANGED <<writes, rest>>
    <2>1. CASE \E t \in Tasks : Unlock(t)
      BY <2>1 DEF Unlock, metricVars, sendVars
    <2>. QED
      BY <2>1, LockSteps
  <1>2. \A s \in Subs : Offered(s)' = Offered(s)
    BY <1>1 DEF Offered, Owed
  <1>3. UNCHANGED <<queue, seen>> \/ \E s \in Subs : Recv(s)
    BY DEF Next, Critical, Outside, Begin, Reject, Admitted, CompareExchange, Cancel, Store,
           Remove, Attach, Install, Sweep, NoResponse, Unsendable, Unlock, Count, CloseReceiver,
           CloseChannels, chanVars, vars
  <1>. QED
    BY <1>2, <1>3

\* What a push makes of one queue, in terms of exchanges.
LEMMA PushOrder ==
    ASSUME AllOK, OrderInv, NEW t \in Tasks, NEW s \in Subs, PushAccepted(t, s),
           Offered(s) \in Nat, frame[t].n = Offered(s) + 1
    PROVE  /\ Rising(queue'[s]) /\ UpTo(queue'[s], Offered(s) + 1)
           /\ \/ Numbers(queue'[s]) = Numbers(queue[s]) \cup {Offered(s) + 1}
              \/ \E n \in Numbers(queue[s]) :
                    /\ \A m \in Numbers(queue[s]) : n <= m
                    /\ Numbers(queue'[s]) = (Numbers(queue[s]) \ {n}) \cup {Offered(s) + 1}
  <1>. DEFINE q == queue[s]
              f == frame[t]
              hi == Offered(s)
              o == SubOptions[s]
  <1>1. q \in Seq(Frame) /\ f \in Frame /\ o.capacity \in Nat \ {0}
    <2>1. o \in SubscriberOptions
      BY BusAssumption
    <2>. QED
      BY <2>1 DEF AllOK, QueuesOK, SendOK, SubscriberOptions
  <1>2. Rising(q) /\ UpTo(q, hi) /\ hi \in Nat /\ f.n = hi + 1
    BY DEF OrderInv
  <1>3. queue'[s] = Enqueue(q, f, o.capacity, o.policy)
    BY DEF PushAccepted, AllOK, QueuesOK
  <1>. HIDE DEF q, f, hi, o
  <1>4. CASE o.policy = "DropOldest" /\ Full(q, o.capacity)
    <2>1. q # <<>>
      BY <1>1, <1>4 DEF Full
    <2>2. queue'[s] = Append(Tail(q), f)
      BY <1>3, <1>4 DEF Enqueue
    <2>3. /\ Tail(q) \in Seq(Frame) /\ Rising(Tail(q)) /\ UpTo(Tail(q), hi)
          /\ Head(q).n \in Numbers(q) /\ \A n \in Numbers(q) : Head(q).n <= n
          /\ Numbers(Tail(q)) = Numbers(q) \ {Head(q).n}
      BY <1>1, <1>2, <2>1, TakeOldest
    <2>4. /\ Rising(queue'[s]) /\ UpTo(queue'[s], hi + 1)
          /\ Numbers(queue'[s]) = Numbers(Tail(q)) \cup {hi + 1}
      <3>. DEFINE r == Tail(q)
      <3>1. r \in Seq(Frame) /\ Rising(r) /\ UpTo(r, hi) /\ queue'[s] = Append(r, f)
        BY <2>2, <2>3
      <3>. HIDE DEF r
      <3>2. /\ Rising(Append(r, f)) /\ UpTo(Append(r, f), hi + 1)
            /\ Numbers(Append(r, f)) = Numbers(r) \cup {hi + 1}
        BY <1>1, <1>2, <3>1, AppendNext
      <3>. QED
        BY <3>1, <3>2 DEF r
    <2>. QED
      BY <2>3, <2>4 DEF q, hi
  <1>5. CASE ~(o.policy = "DropOldest" /\ Full(q, o.capacity))
    <2>1. queue'[s] = Append(q, f)
      BY <1>3, <1>5 DEF Enqueue
    <2>2. /\ Rising(queue'[s]) /\ UpTo(queue'[s], hi + 1)
          /\ Numbers(queue'[s]) = Numbers(q) \cup {hi + 1}
      BY <1>1, <1>2, <2>1, AppendNext
    <2>. QED
      BY <2>2 DEF q, hi
  <1>. QED
    BY <1>4, <1>5

\* A recv takes the oldest exchange of its queue.
LEMMA RecvOrder ==
    ASSUME AllOK, OrderInv, NEW s \in Subs, Recv(s), Offered(s) \in Nat
    PROVE  /\ Rising(queue'[s]) /\ UpTo(queue'[s], Offered(s))
           /\ \A r \in Subs \ {s} : queue'[r] = queue[r] /\ seen'[r] = seen[r]
           /\ \E n \in Numbers(queue[s]) :
                /\ \A m \in Numbers(queue[s]) : n <= m
                /\ seen'[s] = Append(seen[s], n)
                /\ Numbers(queue'[s]) = Numbers(queue[s]) \ {n}
  <1>1. /\ queue[s] \in Seq(Frame) /\ queue[s] # <<>>
        /\ queue'[s] = Tail(queue[s])
        /\ seen'[s] = Append(seen[s], Head(queue[s]).n)
        /\ \A r \in Subs \ {s} : queue'[r] = queue[r] /\ seen'[r] = seen[r]
    BY DEF Recv, AllOK, QueuesOK
  <1>2. Rising(queue[s]) /\ UpTo(queue[s], Offered(s))
    BY DEF OrderInv
  <1>3. /\ Rising(Tail(queue[s])) /\ UpTo(Tail(queue[s]), Offered(s))
        /\ Head(queue[s]).n \in Numbers(queue[s])
        /\ \A n \in Numbers(queue[s]) : Head(queue[s]).n <= n
        /\ Numbers(Tail(queue[s])) = Numbers(queue[s]) \ {Head(queue[s]).n}
    BY <1>1, <1>2, TakeOldest
  <1>. QED
    BY <1>1, <1>3

\* No exchange is owed before the first has begun.
LEMMA OfferedType ==
    ASSUME AllOK, LockInv, NEW s \in Subs
    PROVE  Offered(s) \in Nat
  <1>1. writes \in Nat
    BY DEF AllOK, MetricsOK
  <1>2. Owed(s) => writes # 0
    BY DEF LockInv, Owed
  <1>. QED
    BY <1>1, <1>2 DEF Offered

\* A bound on a queue may be raised.
LEMMA UpToMore ==
    ASSUME NEW q \in Seq(Frame), NEW hi \in Nat, UpTo(q, hi)
    PROVE  UpTo(q, hi + 1)
  <1>1. \A i \in 1 .. Len(q) : q[i] \in Frame
    OBVIOUS
  <1>2. \A i \in 1 .. Len(q) : q[i].n \in Nat
    BY <1>1 DEF Frame
  <1>. QED
    BY <1>2 DEF UpTo

\* Every queue holds exchanges in rising order.
THEOREM AlwaysOrdered == Spec => []OrderInv
  <1>1. Init => OrderInv
    <2> SUFFICES ASSUME Init, NEW s \in Subs PROVE Rising(queue[s]) /\ UpTo(queue[s], Offered(s))
      BY DEF OrderInv
    <2>1. queue[s] = <<>> /\ Len(queue[s]) = 0
      BY DEF Init
    <2>. QED
      BY <2>1 DEF Rising, UpTo
  <1>2. AllOK /\ LockInv /\ OrderInv /\ [Next]_vars => OrderInv'
    <2> SUFFICES ASSUME AllOK, LockInv, OrderInv, [Next]_vars, NEW s \in Subs
                 PROVE  Rising(queue'[s]) /\ UpTo(queue'[s], Offered(s)')
      BY DEF OrderInv
    <2>0. /\ queue[s] \in Seq(Frame) /\ Offered(s) \in Nat
          /\ Rising(queue[s]) /\ UpTo(queue[s], Offered(s))
      BY OfferedType DEF AllOK, QueuesOK, OrderInv
    <2>00. UpTo(queue[s], Offered(s) + 1)
      BY <2>0, UpToMore
    <2>1. ASSUME NEW t \in Tasks, Exchange(t)
          PROVE  Rising(queue'[s]) /\ UpTo(queue'[s], Offered(s)')
      <3>1. /\ queue' = queue
            /\ Offered(s)' = Offered(s) \/ Offered(s)' = Offered(s) + 1
        BY <2>1, ExchangeOffers
      <3>. QED
        BY <2>0, <2>00, <3>1
    <2>2. ASSUME NEW t \in Tasks, PushNext(t)
          PROVE  Rising(queue'[s]) /\ UpTo(queue'[s], Offered(s)')
      <3>1. PICK r \in Subs :
               /\ PushAccepted(t, r) \/ PushRefused(t, r)
               /\ frame[t].n = Offered(r) + 1
               /\ Offered(r) \in Nat
               /\ Offered(r)' = Offered(r) + 1
               /\ \A u \in Subs \ {r} : Offered(u)' = Offered(u) /\ queue'[u] = queue[u]
        BY <2>2, PushOffers
      <3>2. CASE s # r
        BY <2>0, <3>1, <3>2
      <3>3. CASE s = r /\ PushAccepted(t, r)
        BY <2>0, <3>1, <3>3, PushOrder
      <3>4. CASE s = r /\ PushRefused(t, r)
        <4>1. queue' = queue
          BY <3>4 DEF PushRefused
        <4>. QED
          BY <2>0, <2>00, <3>1, <3>4, <4>1
      <3>. QED
        BY <3>1, <3>2, <3>3, <3>4
    <2>3. CASE ~\E t \in Tasks : Exchange(t) \/ PushNext(t)
      <3>1. Offered(s)' = Offered(s) /\ (UNCHANGED queue \/ \E r \in Subs : Recv(r))
        BY <2>3, OtherOffers
      <3>2. CASE UNCHANGED queue
        BY <2>0, <3>1, <3>2
      <3>3. ASSUME NEW r \in Subs, Recv(r)
            PROVE  Rising(queue'[s]) /\ UpTo(queue'[s], Offered(s)')
        <4>1. Offered(r) \in Nat
          BY OfferedType
        <4>. QED
          BY <2>0, <3>1, <3>3, <4>1, RecvOrder
      <3>. QED
        BY <3>1, <3>2, <3>3
    <2>. QED
      BY <2>1, <2>2, <2>3
  <1>. QED
    BY <1>1, <1>2, AlwaysTyped, MutualExclusion, PTL DEF Spec

\* The steps that LossyFifo sees of one channel.
LEMMA ChannelStep ==
    ASSUME AllOK, LockInv, OrderInv, [Next]_vars, NEW s \in Subs
    PROVE  [Channel(s)!Next]_(Channel(s)!fifoVars)
  <1>1. ASSUME NEW t \in Tasks, Exchange(t)
        PROVE  [Channel(s)!Next]_(Channel(s)!fifoVars)
    <2>1. /\ UNCHANGED <<queue, seen>>
          /\ Offered(s)' = Offered(s) \/ Offered(s)' = Offered(s) + 1
      BY <1>1, ExchangeOffers
    <2>2. Pending(s)' = Pending(s)
      BY <2>1 DEF Pending
    <2>. QED
      BY <2>1, <2>2 DEF Channel!Next, Channel!Send, Channel!LoseNew, Channel!fifoVars
  <1>2. ASSUME NEW t \in Tasks, PushNext(t)
        PROVE  [Channel(s)!Next]_(Channel(s)!fifoVars)
    <2>1. PICK r \in Subs :
             /\ PushAccepted(t, r) \/ PushRefused(t, r)
             /\ frame[t].n = Offered(r) + 1
             /\ Offered(r) \in Nat
             /\ Offered(r)' = Offered(r) + 1
             /\ \A u \in Subs \ {r} : Offered(u)' = Offered(u) /\ queue'[u] = queue[u]
             /\ UNCHANGED seen
      BY <1>2, PushOffers
    <2>2. CASE s # r
      BY <2>1, <2>2 DEF Channel!fifoVars, Pending
    <2>3. CASE s = r /\ PushRefused(t, s)
      <3>1. Pending(s)' = Pending(s)
        BY <2>3 DEF PushRefused, Pending
      <3>. QED
        BY <2>1, <2>3, <3>1 DEF Channel!Next, Channel!Send, Channel!LoseNew
    <2>4. CASE s = r /\ PushAccepted(t, s)
      <3>1. \/ Pending(s)' = Pending(s) \cup {Offered(s) + 1}
            \/ \E n \in Pending(s) :
                  /\ \A m \in Pending(s) : n <= m
                  /\ Pending(s)' = (Pending(s) \ {n}) \cup {Offered(s) + 1}
        BY <2>1, <2>4, PushOrder DEF Pending, Numbers
      <3>2. Offered(s)' = Offered(s) + 1 /\ UNCHANGED seen
        BY <2>1, <2>4
      <3>. QED
        BY <3>1, <3>2 DEF Channel!Next, Channel!Send, Channel!Keep, Channel!LoseOldest,
                          Channel!Oldest
    <2>. QED
      BY <2>1, <2>2, <2>3, <2>4
  <1>3. CASE ~\E t \in Tasks : Exchange(t) \/ PushNext(t)
    <2>1. Offered(s)' = Offered(s) /\ (UNCHANGED <<queue, seen>> \/ \E r \in Subs : Recv(r))
      BY <1>3, OtherOffers
    <2>2. CASE UNCHANGED <<queue, seen>>
      BY <2>1, <2>2 DEF Channel!fifoVars, Pending
    <2>3. ASSUME NEW r \in Subs, Recv(r)
          PROVE  [Channel(s)!Next]_(Channel(s)!fifoVars)
      <3>0. Offered(r) \in Nat
        BY OfferedType
      <3>1. CASE s # r
        <4>1. queue'[s] = queue[s] /\ seen'[s] = seen[s]
          BY <2>3, <3>0, <3>1, RecvOrder
        <4>. QED
          BY <2>1, <4>1 DEF Channel!fifoVars, Pending
      <3>2. CASE s = r
        <4>1. \E n \in Pending(s) :
                /\ \A m \in Pending(s) : n <= m
                /\ seen'[s] = Append(seen[s], n)
                /\ Pending(s)' = Pending(s) \ {n}
          BY <2>3, <3>0, <3>2, RecvOrder DEF Pending, Numbers
        <4>. QED
          BY <2>1, <4>1 DEF Channel!Next, Channel!Deliver, Channel!Oldest
      <3>. QED
        BY <3>1, <3>2
    <2>. QED
      BY <2>1, <2>2, <2>3
  <1>. QED
    BY <1>1, <1>2, <1>3

\* The exchanges reach every receiver in the order in which they held the
\* lock, each at most once.
THEOREM Order == Spec => BroadcastOrder
  <1>1. Init => \A s \in Subs : Channel(s)!Init
    BY DEF Init, Channel!Init, Offered, Owed, Pending, Range
  <1>2. AllOK /\ LockInv /\ OrderInv /\ [Next]_vars
          => \A s \in Subs : [Channel(s)!Next]_(Channel(s)!fifoVars)
    BY ChannelStep
  <1>. QED
    BY <1>1, <1>2, AlwaysTyped, MutualExclusion, AlwaysOrdered, PTL DEF Spec, BroadcastOrder

-----------------------------------------------------------------------------
(***************************************************************************)
(* Closed channels.  What such a channel holds was broadcast by exchanges  *)
(* that began before the close, and so was what it is still owed.          *)
(***************************************************************************)
CloseInv ==
    \A s \in Subs : subClosed[s] =>
        /\ \A n \in Numbers(queue[s]) : n <= lastBefore[s]
        /\ Owed(s) => writes <= lastBefore[s]

\* The exchanges of a queue are no later than the last one counted.
LEMMA QueuedEarlier ==
    ASSUME AllOK, LockInv, OrderInv, NEW s \in Subs
    PROVE  \A n \in Numbers(queue[s]) : n \in Nat /\ n <= writes
  <1>1. /\ queue[s] \in Seq(Frame) /\ writes \in Nat
        /\ UpTo(queue[s], Offered(s))
    BY DEF AllOK, QueuesOK, MetricsOK, OrderInv
  <1>2. Offered(s) \in Nat /\ Offered(s) <= writes
    BY <1>1, OfferedType DEF Offered
  <1>3. Numbers(queue[s]) = {queue[s][i].n : i \in 1 .. Len(queue[s])}
    BY <1>1, NumbersDef
  <1>4. \A i \in 1 .. Len(queue[s]) : queue[s][i].n \in Nat /\ queue[s][i].n <= Offered(s)
    <2>1. \A i \in 1 .. Len(queue[s]) : queue[s][i] \in Frame
      BY <1>1
    <2>. QED
      BY <1>1, <2>1 DEF Frame, UpTo
  <1>. QED
    BY <1>1, <1>2, <1>3, <1>4

\* Closing channels leaves in them what was broadcast before.
LEMMA CloseKeeps ==
    ASSUME AllOK, LockInv, OrderInv, CloseInv, NEW S \in SUBSET Subs, CloseChannels(S),
           UNCHANGED <<writes, rest>>
    PROVE  CloseInv'
  <1> SUFFICES ASSUME NEW s \in Subs, subClosed'[s]
               PROVE  /\ \A n \in Numbers(queue'[s]) : n <= lastBefore'[s]
                      /\ Owed(s)' => writes' <= lastBefore'[s]
    BY DEF CloseInv
  <1>1. queue' = queue /\ (Owed(s)' <=> Owed(s)) /\ writes \in Nat
    BY DEF CloseChannels, Owed, AllOK, MetricsOK
  <1>2. CASE subClosed[s]
    <2>1. lastBefore'[s] = lastBefore[s]
      BY <1>2 DEF CloseChannels
    <2>. QED
      BY <1>1, <1>2, <2>1 DEF CloseInv
  <1>3. CASE ~subClosed[s]
    <2>1. s \in S
      BY <1>3 DEF CloseChannels
    <2>2. lastBefore'[s] = writes
      BY <1>3, <2>1 DEF CloseChannels
    <2>. QED
      BY <1>1, <2>2, QueuedEarlier
  <1>. QED
    BY <1>2, <1>3

\* The steps that leave the flags and marks of all channels alone.
LEMMA FlagSteps ==
    ASSUME [Next]_vars
    PROVE  \/ UNCHANGED <<subClosed, lastBefore>>
           \/ \E t \in Tasks : Sweep(t)
           \/ \E s \in Subs : CloseReceiver(s)
  BY ZenonT(60) DEF Next, Critical, Outside, Begin, Reject, Admitted, CompareExchange, Cancel, Store, Remove,
         Attach, Install, NoResponse, Unsendable, Exchange, PushNext, Unlock, Count, Recv,
         chanVars, vars

\* A closed channel gets nothing of an exchange that began after its close.
THEOREM ClosedStaysQuiet == Spec => []NothingAfterClose
  <1>1. Init => CloseInv
    BY DEF Init, CloseInv
  <1>2. AllOK /\ LockInv /\ OrderInv /\ CloseInv /\ [Next]_vars => CloseInv'
    <2> SUFFICES ASSUME AllOK, LockInv, OrderInv, CloseInv, [Next]_vars
                 PROVE  CloseInv'
      OBVIOUS
    <2>1. ASSUME NEW t \in Tasks, Sweep(t) PROVE CloseInv'
      <3>1. subs \in SUBSET Subs /\ CloseChannels(subs) /\ UNCHANGED <<writes, rest>>
        BY <2>1 DEF Sweep, AllOK, BusOK, metricVars, sendVars
      <3>. QED
        BY <3>1, CloseKeeps
    <2>2. ASSUME NEW r \in Subs, CloseReceiver(r) PROVE CloseInv'
      <3>1. CloseChannels({r}) /\ UNCHANGED <<writes, rest>>
        BY <2>2 DEF CloseReceiver, metricVars, sendVars
      <3>. QED
        BY <3>1, CloseKeeps
    <2>3. CASE UNCHANGED <<subClosed, lastBefore>>
      <3> SUFFICES ASSUME NEW s \in Subs, subClosed[s]
                   PROVE  /\ \A n \in Numbers(queue'[s]) : n <= lastBefore[s]
                          /\ Owed(s)' => writes' <= lastBefore[s]
        BY <2>3 DEF CloseInv
      <3>0. /\ \A n \in Numbers(queue[s]) : n <= lastBefore[s]
            /\ Owed(s) => writes <= lastBefore[s]
        BY DEF CloseInv
      <3>1. ASSUME NEW t \in Tasks, Exchange(t)
            PROVE  queue' = queue /\ ~Owed(s)'
        <4>1. holder = Nobody /\ \A u \in Tasks : rest[u] = {}
          BY <3>1, BusAssumption DEF Exchange, Locked, LockInv
        <4>2. s \notin gc
          BY DEF gc
        <4>3. \A u \in Tasks : s \notin rest'[u]
          BY <3>1, <4>1, <4>2 DEF Exchange, AllOK, SendOK
        <4>. QED
          BY <3>1, <4>3 DEF Exchange, chanVars, Owed
      <3>2. ASSUME NEW t \in Tasks, PushNext(t)
            PROVE  /\ \A n \in Numbers(queue'[s]) : n <= lastBefore[s]
                   /\ Owed(s)' => writes' <= lastBefore[s]
        <4>1. PICK r \in Subs :
                 /\ r \in rest[t]
                 /\ PushAccepted(t, r) \/ PushRefused(t, r)
                 /\ frame[t].n = Offered(r) + 1
                 /\ Offered(r) \in Nat
                 /\ \A u \in Subs \ {r} : queue'[u] = queue[u]
          BY <3>2, PushOffers
        <4>2. writes' = writes /\ frame[t].n = writes
          BY <3>2 DEF PushNext, metricVars, LockInv
        <4>3. Owed(s)' => Owed(s)
          <5>1. \A u \in Tasks : rest'[u] \subseteq rest[u]
            BY <3>2 DEF PushNext, AllOK, SendOK
          <5>. QED
            BY <5>1 DEF Owed
        <4>4. CASE s # r
          BY <3>0, <4>1, <4>2, <4>3, <4>4
        <4>5. CASE s = r /\ PushRefused(t, r)
          BY <3>0, <4>2, <4>3, <4>5 DEF PushRefused
        <4>6. CASE s = r /\ PushAccepted(t, r)
          <5>1. \A n \in Numbers(queue'[s]) : n \in Numbers(queue[s]) \/ n = writes
            BY <4>1, <4>2, <4>6, PushOrder
          <5>2. Owed(s)
            BY <4>1, <4>6 DEF Owed
          <5>. QED
            BY <3>0, <4>2, <4>3, <5>1, <5>2
        <4>. QED
          BY <4>1, <4>4, <4>5, <4>6
      <3>3. CASE ~\E t \in Tasks : Exchange(t) \/ PushNext(t)
        <4>1. /\ UNCHANGED <<writes, rest>>
              /\ UNCHANGED <<queue, seen>> \/ \E r \in Subs : Recv(r)
          <5>1. CASE \E t \in Tasks : Unlock(t)
            BY <5>1, <3>3, OtherOffers DEF Unlock, metricVars, sendVars
          <5>. QED
            BY <5>1, <3>3, LockSteps, OtherOffers
        <4>2. Owed(s)' <=> Owed(s)
          BY <4>1 DEF Owed
        <4>3. CASE queue' = queue
          BY <3>0, <4>1, <4>2, <4>3
        <4>4. ASSUME NEW r \in Subs, Recv(r)
              PROVE  \A n \in Numbers(queue'[s]) : n \in Numbers(queue[s])
          <5>1. Offered(r) \in Nat
            BY OfferedType
          <5>. QED
            BY <4>4, <5>1, RecvOrder
        <4>. QED
          BY <3>0, <4>1, <4>2, <4>3, <4>4
      <3>. QED
        BY <3>0, <3>1, <3>2, <3>3
    <2>. QED
      BY <2>1, <2>2, <2>3, FlagSteps
  <1>3. CloseInv => NothingAfterClose
    BY DEF CloseInv, NothingAfterClose, Numbers
  <1>. QED
    BY <1>1, <1>2, <1>3, AlwaysTyped, MutualExclusion, AlwaysOrdered, PTL DEF Spec

-----------------------------------------------------------------------------
(***************************************************************************)
(* What the nodes rely on.                                                 *)
(***************************************************************************)
\* A publish that got the lock stores a response that can be sent.
LEMMA StoreIsPublish ==
    ASSUME AllOK, NEW t \in Tasks, Store(t)
    PROVE  Contract!Publish
  <1>. DEFINE c == call[t]
              r == [len |-> c.len, ct |-> ChecksumFor(c.id, c.ct)]
  <1>1. c \in Calls /\ ~BadArgument(c) /\ c.op = "publish"
    BY DEF AllOK, Checked, Store, Locked
  <1>2. c.id \in Nat /\ c.len \in Nat
    BY <1>1, CallFields
  <1>3. Contract!Storable(c.id, r)
    BY <1>1, <1>2 DEF Contract!Storable, BadArgument, ChecksumFor, LIN_MAX_ID,
                      LIN_MAX_DATA_LEN, Contract!LIN_MAX_ID, Contract!LIN_MAX_DATA_LEN,
                      Diagnostic, Contract!Diagnostic
  <1>4. responses' = [id \in DOMAIN responses \cup {c.id} |->
                        IF id = c.id THEN r ELSE responses[id]]
    BY DEF Store
  <1>5. UNCHANGED <<closed, schedule>>
    BY DEF Store
  <1>. HIDE DEF c, r
  <1>6. c.id \in DOMAIN responses' /\ responses'[c.id] = r
    BY <1>4
  <1>. QED
    BY <1>3, <1>4, <1>5, <1>6 DEF Contract!Publish, Contract!PutResponse

\* A withdrawal removes one response, or finds none.
LEMMA RemoveIsWithdraw ==
    ASSUME AllOK, NEW t \in Tasks, Remove(t)
    PROVE  Contract!Withdraw \/ UNCHANGED Contract!busVars
  <1>1. /\ responses' = [id \in DOMAIN responses \ {call[t].id} |-> responses[id]]
        /\ UNCHANGED <<closed, schedule>>
    BY DEF Remove
  <1>2. CASE call[t].id \in DOMAIN responses
    BY <1>1, <1>2 DEF Contract!Withdraw, Contract!DropResponse, Restrict, Contract!Restrict
  <1>3. CASE call[t].id \notin DOMAIN responses
    <2>1. responses = [id \in DOMAIN responses |-> responses[id]]
      BY DEF AllOK, ResponsesOK
    <2>2. DOMAIN responses \ {call[t].id} = DOMAIN responses
      BY <1>3
    <2>3. responses' = responses
      BY <1>1, <2>1, <2>2
    <2>. QED
      BY <1>1, <2>3 DEF Contract!busVars
  <1>. QED
    BY <1>2, <1>3

\* Seen through its responses, its schedule and its flag, the bus is a LinBus.
THEOREM Refinement == Spec => ImplementsBus
  <1>1. Init => Contract!BusInit
    BY DEF Init, Contract!BusInit
  <1>2. AllOK /\ AllOK' /\ [Next]_vars => [Contract!BusNext]_(Contract!busVars)
    <2> SUFFICES ASSUME AllOK, AllOK', [Next]_vars
                 PROVE  [Contract!BusNext]_(Contract!busVars)
      OBVIOUS
    <2>. USE DEF Contract!BusNext, Contract!busVars
    <2>1. ASSUME NEW t \in Tasks, Store(t) PROVE Contract!Publish
      BY <2>1, StoreIsPublish
    <2>2. ASSUME NEW t \in Tasks, Remove(t)
          PROVE  Contract!Withdraw \/ UNCHANGED Contract!busVars
      BY <2>2, RemoveIsWithdraw
    <2>3. ASSUME NEW t \in Tasks, Install(t) PROVE Contract!SetSchedule
      <3>1. schedule' \in SUBSET (0 .. LIN_MAX_ID)
        BY DEF AllOK, ScheduleOK
      <3>2. \A id \in schedule' : id <= Contract!LIN_MAX_ID
        BY <3>1 DEF LIN_MAX_ID, Contract!LIN_MAX_ID
      <3>. QED
        BY <2>3, <3>2 DEF Install, Contract!SetSchedule
    <2>4. ASSUME NEW t \in Tasks, CompareExchange(t) PROVE Contract!Close
      BY <2>4 DEF CompareExchange, Contract!Close, innerVars
    <2>5. CASE UNCHANGED <<responses, closed, schedule>>
      BY <2>5
    <2>. QED
      BY <2>1, <2>2, <2>3, <2>4, <2>5, ZenonT(60)
         DEF Next, Critical, Outside, Begin, Reject, Admitted, Cancel, Attach, Sweep, NoResponse,
             Unsendable, Exchange, PushNext, Unlock, Count, Recv, CloseReceiver, innerVars, vars
  <1>. QED
    BY <1>1, <1>2, AlwaysTyped, PTL DEF Spec, ImplementsBus, Contract!BusSpec

-----------------------------------------------------------------------------
(***************************************************************************)
(* Nothing passes a subscriber by.  Each channel is listed once: until its *)
(* subscribe call has returned it is nowhere, and that call is made once.  *)
(***************************************************************************)
\* The subscribe call that creates s is made once, by one task.
OnceOK ==
    \A s \in Subs : Subscribe(s) \in Calls =>
        /\ todo[Subscribe(s)] <= 1
        /\ todo[Subscribe(s)] > 0 => s \notin held /\ \A t \in Tasks : call[t] # Subscribe(s)
        /\ \A t \in Tasks : call[t] = Subscribe(s) =>
              s \notin held /\ \A u \in Tasks : call[u] = Subscribe(s) => u = t

\* A channel nobody was given yet is listed nowhere and holds nothing.
FreshOK ==
    \A s \in Subs : s \notin held =>
        /\ s \notin subs /\ ~Owed(s)
        /\ queue[s] = <<>> /\ seen[s] = <<>> /\ evicted[s] = 0

Taken(s) == Len(seen[s]) + Len(queue[s]) + evicted[s]

\* The channels NoExchangeMissed is about.
Lossless(s) ==
    /\ SubFilters[s] = {}
    /\ SubOptions[s].policy # "DropNewest"
    /\ SubOptions[s].rateLimit = 0

TakenOK ==
    \A s \in held : ~subClosed[s] /\ Lossless(s) =>
        Taken(s) + attachedAt[s] = Offered(s)

MissInv == OnceOK /\ FreshOK /\ TakenOK

\* The call a task makes, when it creates a channel.
LEMMA SubscribeCall ==
    ASSUME NEW c \in Calls, c.op = "subscribe"
    PROVE  c.sub \in Subs /\ c = Subscribe(c.sub)
  <1>1. c \in AnyCall
    BY BusAssumption
  <1>2. c \in [op : {"subscribe"}, sub : Subs]
    BY <1>1 DEF AnyCall
  <1>. QED
    BY <1>2 DEF Subscribe

\* The steps by which callers come and go.
LEMMA CallerSteps ==
    ASSUME AllOK, [Next]_vars
    PROVE  \/ \E t \in Tasks : Begin(t) \/ Attach(t)
           \/ /\ UNCHANGED <<todo, held>>
              /\ \A t \in Tasks : call'[t] = call[t] \/ call'[t] = NoCall
  <1>. USE DEF AllOK, CallersOK, Return, Goto, callerVars
  <1>1. ASSUME NEW t \in Tasks, Reject(t) \/ Admitted(t) \/ CompareExchange(t) \/ Cancel(t)
        PROVE  /\ UNCHANGED <<todo, held>>
               /\ \A u \in Tasks : call'[u] = call[u] \/ call'[u] = NoCall
    BY <1>1 DEF Reject, Admitted, CompareExchange, Cancel
  <1>2. ASSUME NEW t \in Tasks, Store(t) \/ Remove(t) \/ Install(t) \/ Sweep(t)
                                \/ NoResponse(t) \/ Unsendable(t) \/ Exchange(t)
        PROVE  /\ UNCHANGED <<todo, held>>
               /\ \A u \in Tasks : call'[u] = call[u] \/ call'[u] = NoCall
    BY <1>2 DEF Store, Remove, Install, Sweep, NoResponse, Unsendable, Exchange, ReturnEarly
  <1>3. ASSUME NEW t \in Tasks, PushNext(t) \/ Unlock(t) \/ Count(t)
        PROVE  /\ UNCHANGED <<todo, held>>
               /\ \A u \in Tasks : call'[u] = call[u] \/ call'[u] = NoCall
    BY <1>3 DEF PushNext, Unlock, Count, EndExchange
  <1>4. ASSUME NEW s \in Subs, Recv(s) \/ CloseReceiver(s)
        PROVE  UNCHANGED <<todo, held, call>>
    BY <1>4 DEF Recv, CloseReceiver
  <1>5. CASE UNCHANGED vars
    BY <1>5 DEF vars
  <1>. QED
    BY <1>1, <1>2, <1>3, <1>4, <1>5 DEF Next, Critical, Outside

\* No two calls create one channel.
LEMMA OnceStep ==
    ASSUME AllOK, OnceOK, [Next]_vars
    PROVE  OnceOK'
  <1> SUFFICES ASSUME NEW s \in Subs, Subscribe(s) \in Calls
               PROVE  /\ todo'[Subscribe(s)] <= 1
                      /\ todo'[Subscribe(s)] > 0 =>
                            s \notin held' /\ \A t \in Tasks : call'[t] # Subscribe(s)
                      /\ \A t \in Tasks : call'[t] = Subscribe(s) =>
                            /\ s \notin held'
                            /\ \A u \in Tasks : call'[u] = Subscribe(s) => u = t
    BY DEF OnceOK
  <1>. DEFINE c == Subscribe(s)
  <1>0. /\ todo[c] \in Nat /\ todo[c] <= 1
        /\ todo[c] > 0 => s \notin held /\ \A t \in Tasks : call[t] # c
        /\ \A t \in Tasks : call[t] = c =>
              s \notin held /\ \A u \in Tasks : call[u] = c => u = t
    BY DEF OnceOK, AllOK, CallersOK
  <1>00. c # NoCall
    BY DEF Subscribe, NoCall
  <1>1. ASSUME NEW t \in Tasks, Begin(t)
        PROVE  /\ todo'[c] <= 1
               /\ todo'[c] > 0 => s \notin held' /\ \A u \in Tasks : call'[u] # c
               /\ \A u \in Tasks : call'[u] = c =>
                     s \notin held' /\ \A v \in Tasks : call'[v] = c => v = u
    <2>1. PICK d \in Calls : /\ todo[d] > 0
                             /\ call' = [call EXCEPT ![t] = d]
                             /\ todo' = [todo EXCEPT ![d] = @ - 1]
      BY <1>1 DEF Begin
    <2>2. held' = held
      BY <1>1 DEF Begin
    <2>3. CASE d = c
      <3>1. todo'[c] = 0
        BY <1>0, <2>1, <2>3 DEF AllOK, CallersOK
      <3>2. \A u \in Tasks : call'[u] = c => u = t
        BY <1>0, <2>1, <2>3 DEF AllOK, CallersOK
      <3>. QED
        BY <1>0, <2>1, <2>2, <2>3, <3>1, <3>2
    <2>4. CASE d # c
      <3>1. todo'[c] = todo[c]
        BY <2>1, <2>4 DEF AllOK, CallersOK
      <3>2. \A u \in Tasks : call'[u] = c => call[u] = c
        BY <2>1, <2>4 DEF AllOK, CallersOK
      <3>. HIDE DEF c
      <3>. QED
        BY <1>0, <2>2, <3>1, <3>2
    <2>. QED
      BY <2>3, <2>4
  <1>2. ASSUME NEW t \in Tasks, Attach(t)
        PROVE  /\ todo'[c] <= 1
               /\ todo'[c] > 0 => s \notin held' /\ \A u \in Tasks : call'[u] # c
               /\ \A u \in Tasks : call'[u] = c =>
                     s \notin held' /\ \A v \in Tasks : call'[v] = c => v = u
    <2>1. /\ held' = held \cup {call[t].sub}
          /\ todo' = todo
          /\ call' = [call EXCEPT ![t] = NoCall]
          /\ call[t] \in Calls /\ call[t].op = "subscribe"
      BY <1>2 DEF Attach, Return, Locked, AllOK, Checked
    <2>2. call[t] = Subscribe(call[t].sub)
      BY <2>1, SubscribeCall
    <2>3. \A u \in Tasks : call'[u] = c => u # t /\ call[u] = c
      BY <1>00, <2>1 DEF AllOK, CallersOK
    <2>4. CASE call[t] = c
      <3>. HIDE DEF c
      <3>. QED
        BY <1>0, <2>1, <2>3, <2>4
    <2>5. CASE call[t] # c
      <3>1. call[t].sub # s
        BY <2>2, <2>5
      <3>. HIDE DEF c
      <3>. QED
        BY <1>0, <2>1, <2>3, <3>1
    <2>. QED
      BY <2>4, <2>5
  <1>3. CASE /\ UNCHANGED <<todo, held>>
             /\ \A t \in Tasks : call'[t] = call[t] \/ call'[t] = NoCall
    <2>. HIDE DEF c
    <2>. QED
      BY <1>0, <1>00, <1>3 DEF c
  <1>. QED
    BY <1>1, <1>2, <1>3, CallerSteps

\* The steps that list a channel, hand one out or change what one holds.
LEMMA TakenSteps ==
    ASSUME [Next]_vars
    PROVE  \/ \E t \in Tasks : Attach(t) \/ Exchange(t) \/ PushNext(t)
           \/ \E s \in Subs : Recv(s)
           \/ /\ UNCHANGED <<queue, seen, evicted, attachedAt, held>>
              /\ subs' \subseteq subs
              /\ \A s \in Subs : subClosed[s] => subClosed'[s]
  BY ZenonT(60) DEF Next, Critical, Outside, Begin, Reject, Admitted, CompareExchange, Cancel, Store, Remove,
         Install, Sweep, NoResponse, Unsendable, Unlock, Count, CloseReceiver, CloseChannels, gc,
         innerVars, chanVars, callerVars, vars

\* A broadcast pushes to listed channels only, none of them fresh.
LEMMA FreshStep ==
    ASSUME AllOK, LockInv, FreshOK, [Next]_vars
    PROVE  FreshOK'
  <1> SUFFICES ASSUME NEW s \in Subs, s \notin held'
               PROVE  /\ s \notin subs' /\ ~Owed(s)'
                      /\ queue'[s] = <<>> /\ seen'[s] = <<>> /\ evicted'[s] = 0
    BY DEF FreshOK
  <1>1. ASSUME s \notin held
        PROVE  /\ s \notin subs /\ ~Owed(s)
               /\ queue[s] = <<>> /\ seen[s] = <<>> /\ evicted[s] = 0
    BY <1>1 DEF FreshOK
  <1>2. ASSUME NEW t \in Tasks, Attach(t)
        PROVE  /\ s \notin subs' /\ ~Owed(s)'
               /\ queue'[s] = <<>> /\ seen'[s] = <<>> /\ evicted'[s] = 0
    BY <1>1, <1>2 DEF Attach, Owed, sendVars
  <1>3. ASSUME NEW t \in Tasks, Exchange(t)
        PROVE  /\ s \notin subs' /\ ~Owed(s)'
               /\ queue'[s] = <<>> /\ seen'[s] = <<>> /\ evicted'[s] = 0
    <2>1. held' = held /\ s \notin gc
      BY <1>1, <1>3 DEF Exchange, callerVars, gc
    <2>2. \A u \in Tasks : rest'[u] \subseteq rest[u] \cup gc
      BY <1>3 DEF Exchange, AllOK, SendOK
    <2>. QED
      BY <1>1, <1>3, <2>1, <2>2 DEF Exchange, Owed, chanVars
  <1>4. ASSUME NEW t \in Tasks, PushNext(t)
        PROVE  /\ s \notin subs' /\ ~Owed(s)'
               /\ queue'[s] = <<>> /\ seen'[s] = <<>> /\ evicted'[s] = 0
    <2>1. PICK r \in rest[t] : /\ PushAccepted(t, r) \/ PushRefused(t, r)
                               /\ rest' = [rest EXCEPT ![t] = @ \ {r}]
      BY <1>4 DEF PushNext
    <2>2. UNCHANGED <<held, subs, seen>>
      BY <1>4 DEF PushNext, callerVars, innerVars
    <2>3. r # s
      BY <1>1, <2>1, <2>2 DEF Owed
    <2>4. queue'[s] = queue[s] /\ evicted'[s] = evicted[s]
      BY <2>1, <2>3 DEF PushAccepted, PushRefused, AllOK, QueuesOK
    <2>5. Owed(s)' => Owed(s)
      BY <2>1 DEF Owed, AllOK, SendOK
    <2>. QED
      BY <1>1, <2>2, <2>4, <2>5
  <1>5. ASSUME NEW r \in Subs, Recv(r)
        PROVE  /\ s \notin subs' /\ ~Owed(s)'
               /\ queue'[s] = <<>> /\ seen'[s] = <<>> /\ evicted'[s] = 0
    <2>1. held' = held /\ r # s
      BY <1>5 DEF Recv, callerVars
    <2>2. /\ UNCHANGED <<subs, evicted, rest>>
          /\ queue'[s] = queue[s] /\ seen'[s] = seen[s]
      BY <1>5, <2>1 DEF Recv, innerVars, sendVars, AllOK, QueuesOK
    <2>. QED
      BY <1>1, <2>1, <2>2 DEF Owed
  <1>6. CASE /\ UNCHANGED <<queue, seen, evicted, attachedAt, held>>
             /\ subs' \subseteq subs
             /\ ~\E t \in Tasks : Exchange(t) \/ PushNext(t)
    <2>1. UNCHANGED rest
      <3>1. CASE \E t \in Tasks : Unlock(t)
        BY <3>1 DEF Unlock, sendVars
      <3>. QED
        BY <1>6, <3>1, LockSteps
    <2>. QED
      BY <1>1, <1>6, <2>1 DEF Owed
  <1>. QED
    BY <1>2, <1>3, <1>4, <1>5, <1>6, TakenSteps

\* What a channel has taken is counted.
LEMMA TakenType == AllOK => \A s \in Subs : Taken(s) \in Nat
  <1> SUFFICES ASSUME AllOK, NEW s \in Subs PROVE Taken(s) \in Nat
    OBVIOUS
  <1>1. queue[s] \in Seq(Frame) /\ evicted[s] \in Nat /\ seen[s] \in Seq(Nat)
    BY DEF AllOK, QueuesOK
  <1>2. Len(queue[s]) \in Nat /\ Len(seen[s]) \in Nat
    BY <1>1
  <1>3. \A a, b, c \in Nat : a + b + c \in Nat
    OBVIOUS
  <1>. QED
    BY <1>1, <1>2, <1>3, Zenon DEF Taken

\* An accepted push adds one to what its channel has taken, and nothing to
\* what the others have.
LEMMA AcceptedTaken ==
    ASSUME AllOK, NEW t \in Tasks, NEW s \in Subs, PushAccepted(t, s), UNCHANGED seen
    PROVE  /\ Taken(s)' = Taken(s) + 1
           /\ \A r \in Subs \ {s} : Taken(r)' = Taken(r)
  <1>1. /\ queue[s] \in Seq(Frame) /\ evicted[s] \in Nat /\ seen[s] \in Seq(Nat)
        /\ frame[t] \in Frame /\ SubOptions[s] \in SubscriberOptions
    BY BusAssumption DEF AllOK, QueuesOK, SendOK
  <1>2. /\ queue'[s] = Enqueue(queue[s], frame[t], SubOptions[s].capacity, SubOptions[s].policy)
        /\ evicted'[s] = evicted[s] + Len(queue[s]) + 1 - Len(queue'[s])
    BY DEF PushAccepted, AllOK, QueuesOK
  <1>3. Len(queue'[s]) \in Nat
    BY <1>1, <1>2, PushType
  <1>4. Len(queue[s]) \in Nat /\ Len(seen[s]) \in Nat
    BY <1>1
  <1>5. PICK a \in Nat, b \in Nat, c \in Nat, d \in Nat :
            a = Len(seen[s]) /\ b = Len(queue[s]) /\ c = evicted[s] /\ d = Len(queue'[s])
    BY <1>1, <1>3, <1>4
  <1>6. seen'[s] = seen[s] /\ evicted'[s] = c + b + 1 - d
    BY <1>2, <1>5
  <1>7. Taken(s)' = a + d + (c + b + 1 - d)
    BY <1>5, <1>6 DEF Taken
  <1>8. Taken(s)' = (a + b + c) + 1
    BY <1>7
  <1>9. Taken(s) = a + b + c
    BY <1>5 DEF Taken
  <1>10. \A r \in Subs \ {s} : queue'[r] = queue[r] /\ evicted'[r] = evicted[r]
    BY DEF PushAccepted, AllOK, QueuesOK
  <1>. QED
    BY <1>8, <1>9, <1>10 DEF Taken

\* A frame that is received moves from the queue to its reader.
LEMMA RecvTaken ==
    ASSUME AllOK, NEW s \in Subs, Recv(s)
    PROVE  \A r \in Subs : Taken(r)' = Taken(r)
  <1>1. /\ UNCHANGED evicted
        /\ queue[s] # <<>>
        /\ seen' = [seen EXCEPT ![s] = Append(@, Head(queue[s]).n)]
        /\ queue' = [queue EXCEPT ![s] = Tail(@)]
    BY DEF Recv
  <1>2. queue \in [Subs -> Seq(Frame)] /\ seen \in [Subs -> Seq(Nat)] /\ evicted[s] \in Nat
    BY DEF AllOK, QueuesOK
  <1>3. seen'[s] = Append(seen[s], Head(queue[s]).n) /\ queue'[s] = Tail(queue[s])
    BY <1>1, <1>2
  <1>4. Head(queue[s]).n \in Nat
    <2>1. Head(queue[s]) \in Frame
      BY <1>1, <1>2
    <2>. QED
      BY <2>1 DEF Frame
  <1>5. seen[s] \in Seq(Nat) /\ queue[s] \in Seq(Frame) /\ queue[s] # <<>>
    BY <1>1, <1>2
  <1>6. Len(seen'[s]) = Len(seen[s]) + 1 /\ Len(seen[s]) \in Nat
    BY <1>3, <1>4, <1>5
  <1>7. Len(queue'[s]) = Len(queue[s]) - 1 /\ Len(queue[s]) \in Nat
    BY <1>3, <1>5
  <1>8. Taken(s)' = Taken(s)
    <2>1. \A a, b, c \in Nat : (a + 1) + (b - 1) + c = a + b + c
      OBVIOUS
    <2>2. Taken(s)' = (Len(seen[s]) + 1) + (Len(queue[s]) - 1) + evicted[s]
      BY <1>1, <1>6, <1>7 DEF Taken
    <2>. QED
      BY <1>2, <1>6, <1>7, <2>1, <2>2, Zenon DEF Taken
  <1>9. \A r \in Subs \ {s} : Taken(r)' = Taken(r)
    BY <1>1, <1>2 DEF Taken
  <1>. QED
    BY <1>8, <1>9

\* A push into a lossless channel adds one to what it has taken.
LEMMA LosslessPush ==
    ASSUME AllOK, NEW t \in Tasks, NEW s \in Subs, Lossless(s),
           PushAccepted(t, s) \/ PushRefused(t, s), UNCHANGED seen
    PROVE  Taken(s)' = Taken(s) + 1
  <1>1. PushAccepted(t, s)
    BY DEF Lossless, PushRefused, HasRoom
  <1>. QED
    BY <1>1, AcceptedTaken

\* Every step keeps what a lossless channel took equal to what it was offered.
LEMMA TakenStep ==
    ASSUME AllOK, AllOK', LockInv, MissInv, OpenIsListed, [Next]_vars
    PROVE  TakenOK'
  <1> SUFFICES ASSUME NEW s \in held', ~subClosed'[s], Lossless(s)
               PROVE  Taken(s)' + attachedAt'[s] = Offered(s)'
    BY DEF TakenOK, Lossless
  <1>0. /\ s \in Subs
        /\ queue[s] \in Seq(Frame) /\ evicted[s] \in Nat /\ seen[s] \in Seq(Nat)
        /\ attachedAt[s] \in Nat /\ writes \in Nat /\ Offered(s) \in Nat
        /\ Taken(s) \in Nat
    <2>1. s \in Subs
      BY DEF AllOK, CallersOK
    <2>2. /\ queue[s] \in Seq(Frame) /\ evicted[s] \in Nat /\ seen[s] \in Seq(Nat)
          /\ attachedAt[s] \in Nat /\ writes \in Nat
      BY <2>1 DEF AllOK, QueuesOK, ChannelsOK, MetricsOK
    <2>3. Taken(s) \in Nat
      BY <2>1, TakenType
    <2>. QED
      BY <2>1, <2>2, <2>3, OfferedType
  <1>1. ASSUME s \in held, ~subClosed[s]
        PROVE  Taken(s) + attachedAt[s] = Offered(s)
    BY <1>1 DEF MissInv, TakenOK
  <1>2. ASSUME NEW t \in Tasks, Attach(t)
        PROVE  Taken(s)' + attachedAt'[s] = Offered(s)'
    <2>. DEFINE r == call[t].sub
    <2>1. /\ UNCHANGED <<queue, seen, evicted, subClosed, rest, writes>>
          /\ held' = held \cup {r}
          /\ attachedAt' = [attachedAt EXCEPT ![r] = writes]
          /\ holder = Nobody
      BY <1>2 DEF Attach, Locked, metricVars, sendVars
    <2>2. Taken(s)' = Taken(s) /\ Offered(s)' = Offered(s)
      BY <2>1 DEF Taken, Offered, Owed
    <2>3. call[t] \in Calls /\ call[t] = Subscribe(r) /\ r \in Subs
      BY <1>2, SubscribeCall DEF Attach, Locked, AllOK, Checked
    <2>4. r \notin held
      BY <2>3 DEF MissInv, OnceOK
    <2>5. CASE s = r
      <3>0. queue[s] = <<>> /\ seen[s] = <<>> /\ evicted[s] = 0 /\ ~Owed(s)
        BY <2>4, <2>5, <1>0 DEF MissInv, FreshOK
      <3>00. Len(queue[s]) = 0 /\ Len(seen[s]) = 0
        BY <3>0
      <3>1. Taken(s) = 0 /\ ~Owed(s)
        BY <3>0, <3>00 DEF Taken
      <3>2. attachedAt'[s] = writes
        BY <2>1, <2>5, <1>0 DEF AllOK, ChannelsOK
      <3>. QED
        BY <1>0, <2>2, <3>1, <3>2 DEF Offered
    <2>6. CASE s # r
      <3>1. attachedAt'[s] = attachedAt[s] /\ s \in held /\ ~subClosed[s]
        BY <2>1, <2>6, <1>0 DEF AllOK, ChannelsOK
      <3>. QED
        BY <1>1, <2>2, <3>1
    <2>. QED
      BY <2>5, <2>6
  <1>3. ASSUME NEW t \in Tasks, Exchange(t)
        PROVE  Taken(s)' + attachedAt'[s] = Offered(s)'
    <2>1. /\ UNCHANGED <<queue, seen, evicted, subClosed, attachedAt, held>>
          /\ rest'[t] = {u \in gc : Matches(SubFilters[u], Synthesised(call[t].id))}
      BY <1>3 DEF Exchange, chanVars, callerVars, AllOK, SendOK
    <2>2. s \in rest'[t]
      BY <2>1, <1>0 DEF OpenIsListed, gc, Matches, Lossless
    <2>3. Offered(s)' = Offered(s)
      BY <1>0, <1>3, <2>2, ExchangeOffers
    <2>4. Taken(s)' = Taken(s)
      BY <2>1 DEF Taken
    <2>. QED
      BY <1>1, <2>1, <2>3, <2>4
  <1>4. ASSUME NEW t \in Tasks, PushNext(t)
        PROVE  Taken(s)' + attachedAt'[s] = Offered(s)'
    <2>1. PICK r \in rest[t] : /\ PushAccepted(t, r) \/ PushRefused(t, r)
                               /\ rest' = [rest EXCEPT ![t] = @ \ {r}]
      BY <1>4 DEF PushNext
    <2>2. UNCHANGED <<held, subClosed, seen, attachedAt, writes>>
      BY <1>4 DEF PushNext, callerVars, metricVars
    <2>3. r \in Subs
      BY <2>1 DEF AllOK, SendOK
    <2>4. holder = t /\ \A u \in Tasks \ {t} : rest[u] = {} /\ rest'[u] = {}
      BY <1>4, <2>1 DEF PushNext, LockInv, AllOK, SendOK
    <2>5. rest'[t] = rest[t] \ {r}
      BY <2>1 DEF AllOK, SendOK
    <2>6. CASE s = r
      <3>1. Taken(s)' = Taken(s) + 1
        BY <1>0, <2>1, <2>2, <2>6, LosslessPush
      <3>2. Owed(s) /\ ~Owed(s)'
        BY <2>1, <2>4, <2>5, <2>6 DEF Owed
      <3>3. Offered(s)' = Offered(s) + 1
        BY <1>0, <2>2, <3>2 DEF Offered
      <3>. QED
        BY <1>0, <1>1, <2>2, <3>1, <3>3
    <2>7. CASE s # r
      <3>1. queue'[s] = queue[s] /\ evicted'[s] = evicted[s]
        BY <1>0, <2>1, <2>7 DEF PushAccepted, PushRefused, AllOK, QueuesOK
      <3>2. Owed(s)' <=> Owed(s)
        BY <2>4, <2>5, <2>7 DEF Owed
      <3>3. Taken(s)' = Taken(s) /\ Offered(s)' = Offered(s)
        BY <2>2, <3>1, <3>2 DEF Taken, Offered
      <3>. QED
        BY <1>1, <2>2, <3>3
    <2>. QED
      BY <2>6, <2>7
  <1>5. CASE ~\E t \in Tasks : Exchange(t) \/ PushNext(t) \/ Attach(t)
    <2>1. Offered(s)' = Offered(s)
      BY <1>0, <1>5, OtherOffers
    <2>2. ASSUME NEW r \in Subs, Recv(r)
          PROVE  Taken(s)' = Taken(s) /\ UNCHANGED <<held, subClosed, attachedAt>>
      <3>1. UNCHANGED <<held, subClosed, attachedAt>>
        BY <2>2 DEF Recv, callerVars
      <3>. QED
        BY <1>0, <2>2, <3>1, RecvTaken
    <2>3. CASE /\ UNCHANGED <<queue, seen, evicted, attachedAt, held>>
               /\ \A u \in Subs : subClosed[u] => subClosed'[u]
      BY <1>0, <1>1, <2>1, <2>3 DEF Taken
    <2>. QED
      BY <1>1, <1>5, <2>1, <2>2, <2>3, TakenSteps
  <1>. QED
    BY <1>2, <1>3, <1>4, <1>5

\* What an open, unfiltered, unlimited channel that drops nothing new was
\* offered since it was listed, its reader has, or its queue, or newer frames
\* pushed it out: however tasks overlap, no exchange passes it by.
THEOREM Complete == Spec => []NoExchangeMissed
  <1>1. Init => MissInv
    <2> SUFFICES ASSUME Init PROVE MissInv
      OBVIOUS
    <2>1. OnceOK
      <3>1. ASSUME NEW s \in Subs, Subscribe(s) \in Calls PROVE todo[Subscribe(s)] <= 1
        BY <3>1, BusAssumption DEF Init, Subscribe
      <3>. QED
        BY <3>1 DEF Init, OnceOK, Subscribe, NoCall
    <2>2. FreshOK
      BY DEF Init, FreshOK, Owed
    <2>3. TakenOK
      BY DEF Init, TakenOK
    <2>. QED
      BY <2>1, <2>2, <2>3 DEF MissInv
  <1>2. AllOK /\ AllOK' /\ LockInv /\ OpenIsListed /\ MissInv /\ [Next]_vars => MissInv'
    BY OnceStep, FreshStep, TakenStep DEF MissInv
  <1>3. AllOK /\ LockInv /\ MissInv => NoExchangeMissed
    <2> SUFFICES ASSUME AllOK, LockInv, MissInv, NEW s \in held, ~subClosed[s], Lossless(s)
                 PROVE  Len(seen[s]) + Len(queue[s]) + evicted[s] = Offered(s) - attachedAt[s]
      BY DEF NoExchangeMissed, Lossless
    <2>1. s \in Subs
      BY DEF AllOK, CallersOK
    <2>2. Taken(s) \in Nat /\ attachedAt[s] \in Nat /\ Offered(s) \in Nat
      BY <2>1, OfferedType DEF AllOK, QueuesOK, ChannelsOK, Taken
    <2>3. Taken(s) + attachedAt[s] = Offered(s)
      BY DEF MissInv, TakenOK
    <2>4. Taken(s) = Offered(s) - attachedAt[s]
      BY <2>2, <2>3
    <2>. QED
      BY <2>4 DEF Taken
  <1>. QED
    BY <1>1, <1>2, <1>3, AlwaysTyped, MutualExclusion, Listed, PTL DEF Spec

-----------------------------------------------------------------------------
(***************************************************************************)
(* Sums.  SumFunction takes a function's values one by one, in an order    *)
(* CHOOSE decides: two functions on one domain are summed in the same      *)
(* order, and induction on the subsets summed compares them.               *)
(***************************************************************************)
\* Induction, with the set of the numbers that have the property.
LEMMA Upwards ==
    ASSUME NEW S, 0 \in S, \A n \in Nat : n \in S => n + 1 \in S
    PROVE  Nat \subseteq S
  <1> DEFINE T == {n \in Nat : n \notin S}
  <1> SUFFICES ASSUME T # {} PROVE FALSE
    OBVIOUS
  <1>1. PICK n \in T : \A m \in T : ~(<<m, n>> \in OpToRel(<, Nat))
    <2>1. T \in SUBSET Nat
      OBVIOUS
    <2> HIDE DEF T
    <2>. QED
      BY <2>1, NatLessThanWellFounded, WFMin
  <1>2. n # 0 /\ n - 1 \in Nat /\ n - 1 < n
    OBVIOUS
  <1>3. n - 1 \notin T
    BY <1>1, <1>2 DEF OpToRel
  <1>. QED
    BY <1>2, <1>3

\* The element SumFunction takes from a set, and the sums it makes on the way.
Pick(s) == CHOOSE x \in s : TRUE
SumStep(f, it, s) == IF s = {} THEN 0 ELSE f[Pick(s)] + it[s \ {Pick(s)}]
PartialSums(f, D, it) ==
    /\ it \in [SUBSET D -> Nat]
    /\ \A s \in SUBSET D : it[s] = SumStep(f, it, s)

\* A set without the element picked has one element less.
LEMMA PickRemoves ==
    ASSUME NEW D, IsFiniteSet(D), NEW s \in SUBSET D
    PROVE  /\ Cardinality(s) \in Nat /\ Cardinality(s) <= Cardinality(D) /\ Cardinality(D) \in Nat
           /\ Cardinality(s) = 0 <=> s = {}
           /\ s # {} => /\ Pick(s) \in s /\ s \ {Pick(s)} \in SUBSET D
                        /\ Cardinality(s \ {Pick(s)}) = Cardinality(s) - 1
  <1>1. IsFiniteSet(s) /\ Cardinality(s) <= Cardinality(D)
    BY FS_Subset
  <1>2. Cardinality(s) \in Nat /\ Cardinality(D) \in Nat /\ (Cardinality(s) = 0 <=> s = {})
    BY <1>1, FS_CardinalityType, FS_EmptySet
  <1>3. s # {} => Pick(s) \in s
    BY DEF Pick
  <1>. QED
    BY <1>1, <1>2, <1>3, FS_RemoveElement

\* The partial sums exist, by induction on the size of the subsets.
LEMMA PartialSumsExist ==
    ASSUME NEW D, IsFiniteSet(D), NEW f \in [D -> Nat]
    PROVE  \E it : PartialSums(f, D, it)
  <1> DEFINE Upto(n, it) == /\ it \in [SUBSET D -> Nat]
                            /\ \A s \in SUBSET D : Cardinality(s) <= n => it[s] = SumStep(f, it, s)
             S == {n \in Nat : \E it : Upto(n, it)}
  <1>1. 0 \in S
    <2>1. Upto(0, [s \in SUBSET D |-> 0])
      BY PickRemoves DEF SumStep
    <2>. QED
      BY <2>1
  <1>2. ASSUME NEW n \in Nat, NEW it, Upto(n, it)
        PROVE  \E more : Upto(n + 1, more)
    <2> DEFINE more == [s \in SUBSET D |-> IF Cardinality(s) <= n THEN it[s] ELSE SumStep(f, it, s)]
    <2>1. \A s \in SUBSET D : SumStep(f, it, s) \in Nat
      BY <1>2, PickRemoves DEF SumStep
    <2>2. more \in [SUBSET D -> Nat]
      BY <1>2, <2>1
    <2>3. ASSUME NEW s \in SUBSET D, Cardinality(s) <= n + 1
          PROVE  more[s] = SumStep(f, more, s)
      <3>1. more[s] = SumStep(f, it, s)
        BY <1>2, <2>3
      <3>2. s # {} => more[s \ {Pick(s)}] = it[s \ {Pick(s)}]
        BY <2>3, PickRemoves
      <3> HIDE DEF more
      <3>. QED
        BY <3>1, <3>2 DEF SumStep
    <2>. QED
      BY <2>2, <2>3
  <1>3. Nat \subseteq S
    <2> HIDE DEF Upto
    <2>1. \A n \in Nat : n \in S => n + 1 \in S
      BY <1>2
    <2> HIDE DEF S
    <2>. QED
      BY <1>1, <2>1, Upwards
  <1>4. PICK it : Upto(Cardinality(D), it)
    BY <1>3, FS_CardinalityType
  <1>5. \A s \in SUBSET D : Cardinality(s) <= Cardinality(D)
    BY PickRemoves
  <1>6. PartialSums(f, D, it)
    BY <1>4, <1>5 DEF PartialSums
  <1>. QED
    BY <1>6

\* SumFunction is the last of the partial sums.
LEMMA SumIsPartial ==
    ASSUME NEW D, IsFiniteSet(D), NEW f \in [D -> Nat]
    PROVE  \E it : PartialSums(f, D, it) /\ SumFunction(f) = it[D]
  <1> DEFINE Def(it) == [s \in SUBSET D |-> IF s = {} THEN 0 ELSE f[Pick(s)] + it[s \ {Pick(s)}]]
             iter == CHOOSE it : it = Def(it)
  <1>1. DOMAIN f = D
    OBVIOUS
  <1>2. SumFunction(f) = iter[D]
    BY <1>1 DEF SumFunction, SumFunctionOnSet, FoldFunctionOnSet, MapThenFoldSet, Pick
  <1>3. PICK it : PartialSums(f, D, it)
    BY PartialSumsExist
  <1>4. it = Def(it)
    BY <1>3 DEF PartialSums, SumStep
  <1>5. iter = Def(iter)
    BY <1>4
  <1> DEFINE S == {n \in Nat : \A s \in SUBSET D : Cardinality(s) = n => iter[s] = it[s]}
  <1> HIDE DEF iter
  <1>6. 0 \in S
    <2>1. ASSUME NEW s \in SUBSET D, Cardinality(s) = 0 PROVE iter[s] = it[s]
      <3>1. s = {}
        BY <2>1, PickRemoves
      <3>. QED
        BY <1>4, <1>5, <3>1
    <2>. QED
      BY <2>1
  <1>7. ASSUME NEW n \in Nat, n \in S PROVE n + 1 \in S
    <2>1. ASSUME NEW s \in SUBSET D, Cardinality(s) = n + 1 PROVE iter[s] = it[s]
      <3>1. s # {} /\ s \ {Pick(s)} \in SUBSET D /\ Cardinality(s \ {Pick(s)}) = n
        BY <2>1, PickRemoves
      <3>2. iter[s] = f[Pick(s)] + iter[s \ {Pick(s)}]
        BY <1>5, <3>1
      <3>3. it[s] = f[Pick(s)] + it[s \ {Pick(s)}]
        BY <1>4, <3>1
      <3>4. iter[s \ {Pick(s)}] = it[s \ {Pick(s)}]
        BY <1>7, <3>1
      <3>. QED
        BY <3>2, <3>3, <3>4
    <2>. QED
      BY <2>1
  <1>8. Cardinality(D) \in S
    <2> HIDE DEF S
    <2>1. \A n \in Nat : n \in S => n + 1 \in S
      BY <1>7
    <2>2. Nat \subseteq S
      BY <1>6, <2>1, Upwards
    <2>. QED
      BY <2>2, FS_CardinalityType
  <1>9. iter[D] = it[D]
    BY <1>8
  <1>. QED
    BY <1>2, <1>3, <1>9

\* A sum of naturals is one.
LEMMA SumType ==
    ASSUME NEW D, IsFiniteSet(D), NEW f \in [D -> Nat]
    PROVE  SumFunction(f) \in Nat
  <1>1. PICK it : PartialSums(f, D, it) /\ SumFunction(f) = it[D]
    BY SumIsPartial
  <1>2. D \in SUBSET D
    OBVIOUS
  <1>. QED
    BY <1>1, <1>2 DEF PartialSums

\* A sum of zeros is 0.
LEMMA SumZero ==
    ASSUME NEW D, IsFiniteSet(D)
    PROVE  SumFunction([x \in D |-> 0]) = 0
  <1> DEFINE f == [x \in D |-> 0]
  <1>1. f \in [D -> Nat] /\ \A x \in D : f[x] = 0
    OBVIOUS
  <1> HIDE DEF f
  <1>2. PICK it : PartialSums(f, D, it) /\ SumFunction(f) = it[D]
    BY <1>1, SumIsPartial
  <1> DEFINE S == {n \in Nat : \A s \in SUBSET D : Cardinality(s) = n => it[s] = 0}
  <1>3. 0 \in S
    <2>1. ASSUME NEW s \in SUBSET D, Cardinality(s) = 0 PROVE it[s] = 0
      <3>1. s = {}
        BY <2>1, PickRemoves
      <3>. QED
        BY <1>2, <3>1 DEF PartialSums, SumStep
    <2>. QED
      BY <2>1
  <1>4. ASSUME NEW n \in Nat, n \in S PROVE n + 1 \in S
    <2>1. ASSUME NEW s \in SUBSET D, Cardinality(s) = n + 1 PROVE it[s] = 0
      <3>1. s # {} /\ Pick(s) \in s /\ s \ {Pick(s)} \in SUBSET D /\ Cardinality(s \ {Pick(s)}) = n
        BY <2>1, PickRemoves
      <3>2. it[s] = f[Pick(s)] + it[s \ {Pick(s)}]
        BY <1>2, <3>1 DEF PartialSums, SumStep
      <3>3. f[Pick(s)] = 0 /\ it[s \ {Pick(s)}] = 0
        BY <1>1, <1>4, <3>1
      <3>. QED
        BY <3>2, <3>3
    <2>. QED
      BY <2>1
  <1>5. Cardinality(D) \in S
    <2> HIDE DEF S
    <2>1. \A n \in Nat : n \in S => n + 1 \in S
      BY <1>4
    <2>2. Nat \subseteq S
      BY <1>3, <2>1, Upwards
    <2>. QED
      BY <2>2, FS_CardinalityType
  <1>. QED
    BY <1>2, <1>5 DEF f

\* When one value changes, so does the sum, by as much.
LEMMA SumChange ==
    ASSUME NEW D, IsFiniteSet(D), NEW f \in [D -> Nat], NEW g \in [D -> Nat],
           NEW x \in D, \A y \in D \ {x} : g[y] = f[y]
    PROVE  SumFunction(g) + f[x] = SumFunction(f) + g[x]
  <1>1. PICK a : PartialSums(f, D, a) /\ SumFunction(f) = a[D]
    BY SumIsPartial
  <1>2. PICK b : PartialSums(g, D, b) /\ SumFunction(g) = b[D]
    BY SumIsPartial
  <1> DEFINE Related(s) == IF x \in s THEN b[s] + f[x] = a[s] + g[x] ELSE b[s] = a[s]
             S == {n \in Nat : \A s \in SUBSET D : Cardinality(s) = n => Related(s)}
  <1>3. 0 \in S
    <2>1. ASSUME NEW s \in SUBSET D, Cardinality(s) = 0 PROVE Related(s)
      <3>1. s = {}
        BY <2>1, PickRemoves
      <3>2. b[s] = 0 /\ a[s] = 0 /\ x \notin s
        BY <1>1, <1>2, <3>1 DEF PartialSums, SumStep
      <3>. QED
        BY <3>2
    <2>. QED
      BY <2>1
  <1>4. ASSUME NEW n \in Nat, n \in S PROVE n + 1 \in S
    <2>1. ASSUME NEW s \in SUBSET D, Cardinality(s) = n + 1 PROVE Related(s)
      <3> DEFINE p == Pick(s)
                 r == s \ {p}
      <3>1. s # {} /\ p \in s /\ r \in SUBSET D /\ Cardinality(r) = n
        BY <2>1, PickRemoves
      <3>2. a[s] = f[p] + a[r] /\ b[s] = g[p] + b[r]
        BY <1>1, <1>2, <3>1 DEF PartialSums, SumStep
      <3>3. a[r] \in Nat /\ b[r] \in Nat /\ f[p] \in Nat /\ g[p] \in Nat /\ f[x] \in Nat /\ g[x] \in Nat
        BY <1>1, <1>2, <3>1 DEF PartialSums
      <3>4. Related(r)
        BY <1>4, <3>1
      <3>5. p # x => g[p] = f[p]
        BY <3>1
      <3>6. x \in r <=> x \in s /\ x # p
        OBVIOUS
      <3> HIDE DEF p, r
      <3>7. CASE p = x
        BY <3>1, <3>2, <3>3, <3>4, <3>6, <3>7
      <3>8. CASE p # x
        BY <3>2, <3>3, <3>4, <3>5, <3>6, <3>8
      <3>. QED
        BY <3>7, <3>8
    <2> HIDE DEF Related
    <2>. QED
      BY <2>1
  <1>5. Related(D)
    <2> HIDE DEF S
    <2>1. \A n \in Nat : n \in S => n + 1 \in S
      BY <1>4
    <2>2. Nat \subseteq S
      BY <1>3, <2>1, Upwards
    <2>3. Cardinality(D) \in S
      BY <2>2, FS_CardinalityType
    <2> HIDE DEF Related
    <2>. QED
      BY <2>3 DEF S
  <1>. QED
    BY <1>1, <1>2, <1>5

-----------------------------------------------------------------------------
(***************************************************************************)
(* The account of deliveries.                                              *)
(***************************************************************************)
\* What each channel took in.
AllTaken == [s \in Subs |-> Taken(s)]

\* The property, with that.
LEMMA AccountedIs ==
    DeliveriesAccounted <=> delivers + SumFunction(accepted) = SumFunction(AllTaken)
  BY DEF DeliveriesAccounted, AllTaken, Taken

\* The steps the account is about; the others leave it alone.
LEMMA AccountSteps ==
    ASSUME [Next]_vars
    PROVE  \/ \E t \in Tasks : PushNext(t) \/ Count(t)
           \/ \E s \in Subs : Recv(s)
           \/ UNCHANGED <<queue, seen, evicted, delivers, accepted>>
  BY ZenonT(60) DEF Next, Critical, Outside, Begin, Reject, Admitted, CompareExchange, Cancel, Store, Remove,
         Attach, Install, Sweep, NoResponse, Unsendable, Exchange, Unlock, CloseReceiver, CloseChannels,
         innerVars, chanVars, callerVars, sendVars, metricVars, vars

\* Every step keeps the account.
LEMMA AccountStep ==
    ASSUME AllOK, AllOK', DeliveriesAccounted, [Next]_vars
    PROVE  DeliveriesAccounted'
  <1>1. delivers + SumFunction(accepted) = SumFunction(AllTaken)
    BY AccountedIs
  <1> SUFFICES delivers' + SumFunction(accepted') = SumFunction(AllTaken')
    BY DEF DeliveriesAccounted, AllTaken, Taken
  <1>2. /\ AllTaken \in [Subs -> Nat] /\ AllTaken' \in [Subs -> Nat]
        /\ accepted \in [Tasks -> Nat] /\ accepted' \in [Tasks -> Nat]
        /\ delivers \in Nat
    <2>1. \A s \in Subs : Taken(s) \in Nat
      BY TakenType
    <2>2. \A s \in Subs : Taken(s)' \in Nat
      <3>1. (AllOK => \A s \in Subs : Taken(s) \in Nat)'
        BY TakenType, PTL
      <3>. QED
        BY <3>1
    <2>. QED
      BY <2>1, <2>2 DEF AllTaken, AllOK, SendOK, MetricsOK
  <1>3. SumFunction(AllTaken) \in Nat /\ SumFunction(accepted) \in Nat
        /\ SumFunction(AllTaken') \in Nat /\ SumFunction(accepted') \in Nat
    BY <1>2, SumType, FiniteAssumption
  <1>4. ASSUME NEW t \in Tasks, PushNext(t)
        PROVE  delivers' + SumFunction(accepted') = SumFunction(AllTaken')
    <2>1. PICK s \in rest[t] : PushAccepted(t, s) \/ PushRefused(t, s)
      BY <1>4 DEF PushNext
    <2>2. s \in Subs /\ UNCHANGED <<seen, delivers>>
      BY <1>4 DEF PushNext, metricVars, AllOK, SendOK
    <2>3. CASE PushAccepted(t, s)
      <3>1. /\ AllTaken'[s] = AllTaken[s] + 1
            /\ \A r \in Subs \ {s} : AllTaken'[r] = AllTaken[r]
        BY <2>2, <2>3, AcceptedTaken DEF AllTaken
      <3>2. accepted'[t] = accepted[t] + 1 /\ \A u \in Tasks \ {t} : accepted'[u] = accepted[u]
        BY <1>2, <2>3 DEF PushAccepted
      <3>3. SumFunction(AllTaken') + AllTaken[s] = SumFunction(AllTaken) + AllTaken'[s]
        BY <1>2, <2>2, <3>1, SumChange, FiniteAssumption
      <3>4. SumFunction(accepted') + accepted[t] = SumFunction(accepted) + accepted'[t]
        BY <1>2, <3>2, SumChange, FiniteAssumption
      <3>5. AllTaken[s] \in Nat /\ accepted[t] \in Nat
        BY <1>2, <2>2
      <3>6. SumFunction(AllTaken') = SumFunction(AllTaken) + 1
        BY <1>3, <3>1, <3>3, <3>5
      <3>7. SumFunction(accepted') = SumFunction(accepted) + 1
        BY <1>3, <3>2, <3>4, <3>5
      <3>. QED
        BY <1>1, <1>2, <1>3, <2>2, <3>6, <3>7
    <2>4. CASE PushRefused(t, s)
      <3>1. UNCHANGED <<queue, evicted, accepted>>
        BY <2>4 DEF PushRefused
      <3>2. AllTaken' = AllTaken
        BY <2>2, <3>1 DEF AllTaken, Taken
      <3>. QED
        BY <1>1, <2>2, <3>1, <3>2
    <2>. QED
      BY <2>1, <2>3, <2>4
  <1>5. ASSUME NEW t \in Tasks, Count(t)
        PROVE  delivers' + SumFunction(accepted') = SumFunction(AllTaken')
    <2>1. /\ delivers' = delivers + accepted[t]
          /\ accepted' = [accepted EXCEPT ![t] = 0]
          /\ UNCHANGED <<queue, seen, evicted>>
      BY <1>5 DEF Count, EndExchange, chanVars
    <2>2. AllTaken' = AllTaken
      BY <2>1 DEF AllTaken, Taken
    <2>3. accepted'[t] = 0 /\ accepted[t] \in Nat /\ \A u \in Tasks \ {t} : accepted'[u] = accepted[u]
      BY <1>2, <2>1
    <2>4. SumFunction(accepted') + accepted[t] = SumFunction(accepted) + accepted'[t]
      BY <1>2, <2>3, SumChange, FiniteAssumption
    <2>. QED
      BY <1>1, <1>2, <1>3, <2>1, <2>2, <2>3, <2>4
  <1>6. ASSUME NEW s \in Subs, Recv(s)
        PROVE  delivers' + SumFunction(accepted') = SumFunction(AllTaken')
    <2>1. AllTaken' = AllTaken
      BY <1>6, RecvTaken DEF AllTaken
    <2>2. UNCHANGED <<delivers, accepted>>
      BY <1>6 DEF Recv, metricVars, sendVars
    <2>. QED
      BY <1>1, <2>1, <2>2
  <1>7. CASE UNCHANGED <<queue, seen, evicted, delivers, accepted>>
    BY <1>1, <1>7 DEF AllTaken, Taken
  <1>. QED
    BY <1>4, <1>5, <1>6, <1>7, AccountSteps

\* For any number of callers and channels, deliver_count and what exchanges
\* under way still have to add are together the frames the channels took in:
\* no overlap of broadcasts, counting and receivers loses one or counts one
\* twice (mod.rs:320-341).
THEOREM Accounted == Spec => []DeliveriesAccounted
  <1>1. Init => DeliveriesAccounted
    <2> SUFFICES ASSUME Init PROVE DeliveriesAccounted
      OBVIOUS
    <2>1. delivers = 0 /\ accepted = [t \in Tasks |-> 0]
      BY DEF Init
    <2>2. AllTaken = [s \in Subs |-> 0]
      <3>1. \A s \in Subs : seen[s] = <<>> /\ queue[s] = <<>> /\ evicted[s] = 0
        BY DEF Init
      <3>2. Len(<<>>) = 0 /\ 0 + 0 + 0 = 0
        OBVIOUS
      <3>3. \A s \in Subs : Taken(s) = 0
        BY <3>1, <3>2, Zenon DEF Taken
      <3>. QED
        BY <3>3 DEF AllTaken
    <2>3. SumFunction(accepted) = 0 /\ SumFunction(AllTaken) = 0
      BY <2>1, <2>2, SumZero, FiniteAssumption
    <2>. QED
      BY <2>1, <2>3, AccountedIs
  <1>. QED
    BY <1>1, AccountStep, AlwaysTyped, PTL DEF Spec

-----------------------------------------------------------------------------
(***************************************************************************)
(* Calls come to an end.                                                   *)
(***************************************************************************)
\* A call is finite.
LEMMA LeftType ==
    ASSUME AllOK, NEW t \in Tasks
    PROVE  /\ Cardinality(Subs) \in Nat
           /\ \A S \in SUBSET Subs : Cardinality(S) \in Nat /\ Cardinality(S) <= Cardinality(Subs)
           /\ Left(t) \in Nat
  <1>1. Cardinality(Subs) \in Nat
    BY FiniteAssumption, FS_CardinalityType
  <1>2. ASSUME NEW S \in SUBSET Subs
        PROVE  Cardinality(S) \in Nat /\ Cardinality(S) <= Cardinality(Subs)
    BY FiniteAssumption, FS_Subset, FS_CardinalityType
  <1>3. rest[t] \in SUBSET Subs /\ pc[t] \in {"idle", "check", "lock", "broadcast", "count"}
    BY DEF AllOK, SendOK, CallersOK
  <1>4. Left(t) \in Nat
    BY <1>1, <1>2, <1>3 DEF Left
  <1>. QED
    BY <1>1, <1>2, <1>4

\* Task u is where it was.
Rests(u) == UNCHANGED <<pc[u], call[u], rest[u]>>

\* A step of a task is nobody else's.
LEMMA OthersRest ==
    ASSUME AllOK, NEW t \in Tasks, NEW u \in Tasks \ {t},
           Begin(t) \/ Critical(t) \/ Outside(t) \/ Cancel(t)
    PROVE  Rests(u)
  <1>. USE DEF AllOK, CallersOK, SendOK, Rests
  <1>1. CASE Begin(t) \/ Reject(t) \/ Admitted(t) \/ CompareExchange(t) \/ Cancel(t)
    BY <1>1 DEF Begin, Reject, Admitted, CompareExchange, Cancel, Return, Goto, sendVars
  <1>2. CASE Store(t) \/ Remove(t) \/ Attach(t) \/ Install(t) \/ Sweep(t)
    BY <1>2 DEF Store, Remove, Attach, Install, Sweep, Return, sendVars
  <1>3. CASE NoResponse(t) \/ Unsendable(t)
    BY <1>3 DEF NoResponse, Unsendable, ReturnEarly, Return, sendVars
  <1>4. CASE Exchange(t)
    BY <1>4 DEF Exchange, Goto
  <1>5. CASE PushNext(t)
    BY <1>5 DEF PushNext
  <1>6. CASE Unlock(t) \/ Count(t)
    BY <1>6 DEF Unlock, Count, EndExchange, Return, Goto, sendVars
  <1>. QED
    BY <1>1, <1>2, <1>3, <1>4, <1>5, <1>6 DEF Critical, Outside

\* Every step of a call leaves it less to do.
LEMMA StepAdvances ==
    ASSUME AllOK, AllOK', NEW t \in Tasks, Critical(t) \/ Outside(t) \/ Cancel(t)
    PROVE  Left(t)' < Left(t)
  <1>0. /\ pc[t] \in {"idle", "check", "lock", "broadcast", "count"}
        /\ pc \in [Tasks -> {"idle", "check", "lock", "broadcast", "count"}]
        /\ rest \in [Tasks -> SUBSET Subs]
    BY DEF AllOK, CallersOK, SendOK
  <1>1. PICK n \in Nat : n = Cardinality(Subs)
    BY LeftType
  <1>2. \A S \in SUBSET Subs : Cardinality(S) \in Nat /\ Cardinality(S) <= n
    BY <1>1, LeftType
  <1>3. ASSUME pc[t] \in {"check", "lock", "count"}, pc'[t] = "idle"
        PROVE  Left(t)' < Left(t)
    BY <1>1, <1>3 DEF Left
  <1>4. CASE Reject(t) \/ Cancel(t) \/ Count(t)
    BY <1>0, <1>3, <1>4 DEF Reject, Cancel, Count, EndExchange, Return
  <1>5. CASE Admitted(t) \/ CompareExchange(t)
    <2>1. pc[t] = "check" /\ pc'[t] \in {"idle", "lock"}
      BY <1>0, <1>5 DEF Admitted, CompareExchange, Return, Goto
    <2>. QED
      BY <1>1, <2>1 DEF Left
  <1>6. CASE Store(t) \/ Remove(t) \/ Attach(t) \/ Install(t) \/ Sweep(t) \/ NoResponse(t) \/ Unsendable(t)
    BY <1>0, <1>3, <1>6 DEF Store, Remove, Attach, Install, Sweep, NoResponse, Unsendable,
         ReturnEarly, Locked, Return
  <1>7. CASE Exchange(t)
    <2>1. pc[t] = "lock" /\ pc'[t] = "broadcast"
      BY <1>0, <1>7 DEF Exchange, Locked, Goto
    <2>2. rest'[t] \in SUBSET Subs
      BY DEF AllOK, SendOK
    <2>3. Cardinality(rest'[t]) \in Nat /\ Cardinality(rest'[t]) <= n
      BY <1>2, <2>2
    <2>4. Left(t) = 3 + n /\ Left(t)' = 2 + Cardinality(rest'[t])
      BY <1>1, <2>1 DEF Left
    <2>. QED
      BY <2>3, <2>4
  <1>8. CASE PushNext(t)
    <2>1. PICK s \in rest[t] : rest' = [rest EXCEPT ![t] = @ \ {s}]
      BY <1>8 DEF PushNext
    <2>2. pc[t] = "broadcast" /\ pc'[t] = "broadcast" /\ rest'[t] = rest[t] \ {s}
      BY <1>0, <1>8, <2>1 DEF PushNext
    <2>3. IsFiniteSet(rest[t])
      BY <1>0, FiniteAssumption, FS_Subset
    <2>4. Cardinality(rest[t] \ {s}) = Cardinality(rest[t]) - 1
      BY <2>3, FS_RemoveElement
    <2>5. Cardinality(rest[t]) \in Nat
      BY <1>0, <1>2
    <2>6. Left(t) = 2 + Cardinality(rest[t]) /\ Left(t)' = 2 + Cardinality(rest'[t])
      BY <2>2 DEF Left
    <2>. QED
      BY <2>2, <2>4, <2>5, <2>6
  <1>9. CASE Unlock(t)
    <2>1. pc[t] = "broadcast" /\ pc'[t] = "count"
      BY <1>0, <1>9 DEF Unlock, Goto
    <2>2. Cardinality(rest[t]) \in Nat
      BY <1>0, <1>2
    <2>3. Left(t) = 2 + Cardinality(rest[t]) /\ Left(t)' = 1
      BY <2>1 DEF Left
    <2>. QED
      BY <2>2, <2>3
  <1>. QED
    BY <1>4, <1>5, <1>6, <1>7, <1>8, <1>9 DEF Critical, Outside

\* For any calls, tasks and channels, no step sets a call under way back, every
\* step of it is one fewer to its end, and one that waits waits for a task that
\* is pushing (mod.rs:296-341): only the scheduler can keep a call from returning.
THEOREM Advancing == Spec => CallsAdvance
  <1>1. AllOK /\ AllOK' /\ [Next]_vars
            => [\A t \in Tasks : pc[t] # "idle" =>
                    Left(t)' < Left(t) \/ UNCHANGED <<pc[t], call[t], rest[t]>>]_vars
    <2> SUFFICES ASSUME AllOK, AllOK', Next, NEW u \in Tasks, pc[u] # "idle"
                 PROVE  Left(u)' < Left(u) \/ Rests(u)
      BY DEF Rests
    <2>1. ASSUME NEW t \in Tasks, Begin(t) \/ Critical(t) \/ Outside(t) \/ Cancel(t)
          PROVE  Left(u)' < Left(u) \/ Rests(u)
      <3>1. CASE u # t
        BY <2>1, <3>1, OthersRest
      <3>2. CASE u = t
        <4>1. ~Begin(t)
          BY <3>2 DEF Begin
        <4>. QED
          BY <2>1, <3>2, <4>1, StepAdvances
      <3>. QED
        BY <3>1, <3>2
    <2>2. ASSUME NEW s \in Subs, Recv(s) \/ CloseReceiver(s)
          PROVE  Rests(u)
      BY <2>2 DEF Recv, CloseReceiver, sendVars, Rests
    <2>. QED
      BY <2>1, <2>2 DEF Next
  <1>2. AllOK /\ LockInv =>
            \A t \in Tasks : pc[t] = "lock" /\ holder # Nobody => holder # t /\ pc[holder] = "broadcast"
    <2> SUFFICES ASSUME AllOK, LockInv, NEW t \in Tasks, pc[t] = "lock", holder # Nobody
                 PROVE  holder # t /\ pc[holder] = "broadcast"
      OBVIOUS
    <2>1. holder \in Tasks
      BY DEF AllOK, BusOK
    <2>. QED
      BY <2>1 DEF LockInv
  <1>. QED
    BY <1>1, <1>2, AlwaysTyped, MutualExclusion, PTL DEF Spec, CallsAdvance
=============================================================================
