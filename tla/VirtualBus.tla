----------------------------- MODULE VirtualBus -----------------------------
(***************************************************************************)
(* The in-process bus, src/virtual_bus/mod.rs: tasks that call publish,    *)
(* subscribe, send_header, set_schedule and close on one VirtualBus at the *)
(* same time, and the receivers that drain and close their channels.       *)
(*                                                                         *)
(* A call runs in the steps other tasks can fall between: the checks it    *)
(* makes before `self.inner.lock().await` (they read the atomic `closed`), *)
(* the await, at which its future may be dropped, and what it does under   *)
(* the lock.  Of the calls, only send_header can be observed halfway       *)
(* through its critical section: receivers do not take the bus lock, so    *)
(* they pop between two pushes of one broadcast.                           *)
(*                                                                         *)
(* The lock is tokio's Mutex.  Which waiter gets it is left open; that it  *)
(* is handed out in FIFO order, so that nobody starves, is the strong      *)
(* fairness of FairSpec.  Channels follow SubInner::push and pop; the      *)
(* waiting half of recv is the module FrameReceiver.  A rate-limited       *)
(* channel may refuse any push.                                            *)
(***************************************************************************)
EXTENDS SubInner, LinFrame, FiniteSets, Functions

CONSTANTS
    Tasks,          \* callers of the bus
    Subs,           \* the channels subscribe calls create, each its own
    SubOptions,     \* the options each subscribe call passes
    SubFilters,     \* and its filters
    Calls,          \* the calls tasks make,
    Budgets,        \* bound: how often each is made, one choice per behaviour
    Nobody          \* holder of a free lock

Publish(id, len, ct) == [op |-> "publish", id |-> id, len |-> len, ct |-> ct]
Withdraw(id) == [op |-> "withdraw", id |-> id]      \* publish(id, None)
SendHeader(id) == [op |-> "send_header", id |-> id]
Subscribe(s) == [op |-> "subscribe", sub |-> s]
SetSchedule(ids) == [op |-> "set_schedule", ids |-> ids]
Close == [op |-> "close"]

AnyCall ==
    [op : {"publish"}, id : Nat, len : Nat, ct : ChecksumType]
    \cup [op : {"withdraw"}, id : Nat]
    \cup [op : {"send_header"}, id : Nat]
    \cup [op : {"subscribe"}, sub : Subs]
    \cup [op : {"set_schedule"}, ids : SUBSET Nat]
    \cup [op : {"close"}]

NoCall == [op |-> "none"]

ASSUME BusAssumption ==
    /\ Nobody \notin Tasks
    /\ SubOptions \in [Subs -> SubscriberOptions]
    /\ SubFilters \in [Subs -> SUBSET Filter]
    /\ Calls \subseteq AnyCall
    /\ Budgets \subseteq [Calls -> Nat]
    /\ \A b \in Budgets : \A c \in Calls : c.op = "subscribe" => b[c] <= 1

\* Callers and channels can be counted, which DeliveriesAccounted needs.
ASSUME FiniteAssumption == IsFiniteSet(Tasks) /\ IsFiniteSet(Subs)

VARIABLES
    closed,         \* VirtualBus.closed
    holder,         \* who holds the mutex around BusInner
    responses,      \* BusInner.responses, a function on the registered ids
    subs,           \* BusInner.subs (a set: its order decides nothing here)
    schedule,       \* BusInner.schedule (its ids)
    queue,          \* the queue of each channel
    subClosed,      \* SubInner.closed of each channel
    writes, delivers, drops, bytesWritten, bytesDelivered, errors,  \* metrics
    pc,             \* where each task is in its call
    call,           \* the call it makes
    frame,          \* send_header: the frame being broadcast,
    rest,           \*   the channels it still has to be pushed to,
    accepted,       \*   the pushes accepted
    refused,        \*   and refused so far
    todo,           \* how often each call is still to be made
    held,           \* the receivers handed to callers
    seen,           \* history: the exchanges each receiver got
    evicted,        \* history: frames each channel dropped for newer ones
    attachedAt,     \* history: exchanges begun when each channel was listed
    lastBefore,     \* history: exchanges begun when each channel was closed
    swept           \* history: a close call has closed the listed channels

innerVars == <<responses, subs, schedule>>
chanVars == <<queue, subClosed, seen, evicted, attachedAt, lastBefore>>
metricVars == <<writes, delivers, drops, bytesWritten, bytesDelivered, errors>>
sendVars == <<frame, rest, accepted, refused>>
callerVars == <<todo, held, swept>>
vars == <<closed, holder, innerVars, chanVars, metricVars, sendVars, pc, call,
          callerVars>>

NoFrame == [n |-> 0, id |-> 0, len |-> 0, ct |-> "Classic"]

Init ==
    /\ closed = FALSE
    /\ holder = Nobody
    /\ responses = <<>>
    /\ subs = {}
    /\ schedule = {}
    /\ queue = [s \in Subs |-> <<>>]
    /\ subClosed = [s \in Subs |-> FALSE]
    /\ writes = 0 /\ delivers = 0 /\ drops = 0
    /\ bytesWritten = 0 /\ bytesDelivered = 0 /\ errors = 0
    /\ pc = [t \in Tasks |-> "idle"]
    /\ call = [t \in Tasks |-> NoCall]
    /\ frame = [t \in Tasks |-> NoFrame]
    /\ rest = [t \in Tasks |-> {}]
    /\ accepted = [t \in Tasks |-> 0]
    /\ refused = [t \in Tasks |-> 0]
    /\ todo \in Budgets
    /\ held = {}
    /\ seen = [s \in Subs |-> <<>>]
    /\ evicted = [s \in Subs |-> 0]
    /\ attachedAt = [s \in Subs |-> 0]
    /\ lastBefore = [s \in Subs |-> 0]
    /\ swept = FALSE

Goto(t, label) == pc' = [pc EXCEPT ![t] = label] /\ UNCHANGED call

\* The call returns.
Return(t) ==
    /\ pc' = [pc EXCEPT ![t] = "idle"]
    /\ call' = [call EXCEPT ![t] = NoCall]

-----------------------------------------------------------------------------
(***************************************************************************)
(* The start of a call, up to the await of the lock.                       *)
(***************************************************************************)
Begin(t) ==
    /\ pc[t] = "idle"
    /\ \E c \in Calls :
        /\ todo[c] > 0
        /\ call' = [call EXCEPT ![t] = c]
        /\ todo' = [todo EXCEPT ![c] = @ - 1]
    /\ pc' = [pc EXCEPT ![t] = "check"]
    /\ UNCHANGED <<closed, holder, innerVars, chanVars, metricVars, sendVars, held, swept>>

\* Faulty variant: publish takes a payload of any length.
BadArgumentAnyLength(c) ==
    \/ c.op \in {"publish", "withdraw", "send_header"} /\ c.id > LIN_MAX_ID
    \/ c.op = "set_schedule" /\ \E id \in c.ids : id > LIN_MAX_ID

\* The argument checks of publish, send_header and set_schedule.
BadArgument(c) ==
    \/ c.op \in {"publish", "withdraw", "send_header"} /\ c.id > LIN_MAX_ID
    \/ c.op = "publish" /\ c.len > LIN_MAX_DATA_LEN
    \/ c.op = "set_schedule" /\ \E id \in c.ids : id > LIN_MAX_ID

\* Closed, InvalidFrame or PayloadTooLarge; publish and send_header count it.
Reject(t) ==
    /\ pc[t] = "check"
    /\ call[t].op # "close"
    /\ closed \/ BadArgument(call[t])
    /\ errors' = IF call[t].op \in {"publish", "withdraw", "send_header"}
                 THEN errors + 1 ELSE errors
    /\ Return(t)
    /\ UNCHANGED <<closed, holder, innerVars, chanVars, writes, delivers, drops,
                   bytesWritten, bytesDelivered, sendVars, callerVars>>

Admitted(t) ==
    /\ pc[t] = "check"
    /\ call[t].op # "close"
    /\ ~closed /\ ~BadArgument(call[t])
    /\ Goto(t, "lock")
    /\ UNCHANGED <<closed, holder, innerVars, chanVars, metricVars, sendVars, callerVars>>

\* close: the compare_exchange decides who closes; the loser returns Ok.
CompareExchange(t) ==
    /\ pc[t] = "check"
    /\ call[t].op = "close"
    /\ IF closed THEN Return(t) ELSE Goto(t, "lock")
    /\ closed' = TRUE
    /\ UNCHANGED <<holder, innerVars, chanVars, metricVars, sendVars, callerVars>>

\* The caller drops the future while it waits for the lock.
Cancel(t) ==
    /\ pc[t] = "lock"
    /\ Return(t)
    /\ UNCHANGED <<closed, holder, innerVars, chanVars, metricVars, sendVars, callerVars>>

-----------------------------------------------------------------------------
(***************************************************************************)
(* Under the lock.  Every operation but send_header is over in one step.   *)
(***************************************************************************)
Locked(t, op) ==
    /\ pc[t] = "lock"
    /\ call[t].op = op
    /\ holder = Nobody

Store(t) ==
    /\ Locked(t, "publish")
    /\ LET c == call[t]
           r == [len |-> c.len, ct |-> ChecksumFor(c.id, c.ct)]
       IN  responses' = [id \in DOMAIN responses \cup {c.id} |->
                            IF id = c.id THEN r ELSE responses[id]]
    /\ Return(t)
    /\ UNCHANGED <<closed, holder, subs, schedule, chanVars, metricVars, sendVars, callerVars>>

Remove(t) ==
    /\ Locked(t, "withdraw")
    /\ responses' = [id \in DOMAIN responses \ {call[t].id} |-> responses[id]]
    /\ Return(t)
    /\ UNCHANGED <<closed, holder, subs, schedule, chanVars, metricVars, sendVars, callerVars>>

\* The new channel joins the list and the caller gets its receiver.
Attach(t) ==
    /\ Locked(t, "subscribe")
    /\ subs' = subs \cup {call[t].sub}
    /\ held' = held \cup {call[t].sub}
    /\ attachedAt' = [attachedAt EXCEPT ![call[t].sub] = writes]
    /\ Return(t)
    /\ UNCHANGED <<closed, holder, responses, schedule, queue, subClosed, seen, evicted,
                   lastBefore, metricVars, sendVars,
                   todo, swept>>

Install(t) ==
    /\ Locked(t, "set_schedule")
    /\ schedule' = call[t].ids
    /\ Return(t)
    /\ UNCHANGED <<closed, holder, responses, subs, chanVars, metricVars, sendVars, callerVars>>

\* SubInner::close of the channels in S (its store and its notify_waiters are
\* told apart in FrameReceiver).
CloseChannels(S) ==
    /\ subClosed' = [s \in Subs |-> s \in S \/ subClosed[s]]
    /\ lastBefore' = [s \in Subs |->
                        IF s \in S /\ ~subClosed[s] THEN writes ELSE lastBefore[s]]
    /\ UNCHANGED <<queue, seen, evicted, attachedAt>>

\* Faulty variant: the list is cleared and the channels stay open.
SweepForgets(t) ==
    /\ Locked(t, "close")
    /\ subs' = {}
    /\ swept' = TRUE
    /\ Return(t)
    /\ UNCHANGED <<closed, holder, responses, schedule, chanVars, metricVars, sendVars,
                   todo, held>>

\* The close call that won: close every listed channel, clear the list.
Sweep(t) ==
    /\ Locked(t, "close")
    /\ CloseChannels(subs)
    /\ subs' = {}
    /\ swept' = TRUE
    /\ Return(t)
    /\ UNCHANGED <<closed, holder, responses, schedule, metricVars, sendVars,
                   todo, held>>

-----------------------------------------------------------------------------
(***************************************************************************)
(* send_header under the lock: gc, the lookup, validate_frame, and the     *)
(* broadcast, one push at a time.                                          *)
(***************************************************************************)
\* Faulty variant: nothing is collected.
gc_none == subs

\* BusInner::gc keeps the channels that are not closed.
gc == {s \in subs : ~subClosed[s]}

\* Faulty variant: an early return leaves the lock taken.
ReturnEarlyLocked(t) == Return(t) /\ holder' = t

\* An early return drops the guard.
ReturnEarly(t) == Return(t) /\ UNCHANGED holder

NoResponse(t) ==
    /\ Locked(t, "send_header")
    /\ call[t].id \notin DOMAIN responses
    /\ subs' = gc
    /\ errors' = errors + 1
    /\ ReturnEarly(t)
    /\ UNCHANGED <<closed, responses, schedule, chanVars, writes, delivers, drops,
                   bytesWritten, bytesDelivered, sendVars, callerVars>>

\* The frame an exchange for id synthesises from the registered response.
Synthesised(id) ==
    [n |-> writes + 1, id |-> id, len |-> responses[id].len, ct |-> responses[id].ct]

\* validate_frame's `?`: InvalidFrame, and no counter moves.
Unsendable(t) ==
    /\ Locked(t, "send_header")
    /\ call[t].id \in DOMAIN responses
    /\ ~validate_frame(Synthesised(call[t].id))
    /\ subs' = gc
    /\ ReturnEarly(t)
    /\ UNCHANGED <<closed, responses, schedule, chanVars, metricVars, sendVars, callerVars>>

\* Faulty variant: the guard is dropped before the broadcast.
DropGuard(t) == UNCHANGED holder

\* The guard lives until the broadcast is over.
KeepGuard(t) == holder' = t

\* The write is counted and the broadcast begins.
Exchange(t) ==
    /\ Locked(t, "send_header")
    /\ call[t].id \in DOMAIN responses
    /\ LET f == Synthesised(call[t].id)
       IN  /\ validate_frame(f)
           /\ frame' = [frame EXCEPT ![t] = f]
           /\ rest' = [rest EXCEPT ![t] = {s \in gc : Matches(SubFilters[s], f)}]
           /\ bytesWritten' = bytesWritten + f.len
    /\ subs' = gc
    /\ writes' = writes + 1
    /\ KeepGuard(t)
    /\ Goto(t, "broadcast")
    /\ UNCHANGED <<closed, responses, schedule, chanVars, delivers, drops, bytesDelivered,
                   errors, accepted, refused, callerVars>>

\* SubInner::push accepts the frame ...
PushAccepted(t, s) ==
    /\ HasRoom(queue[s], SubOptions[s].capacity, SubOptions[s].policy)
    /\ queue' = [queue EXCEPT ![s] =
                    Enqueue(@, frame[t], SubOptions[s].capacity, SubOptions[s].policy)]
    /\ evicted' = [evicted EXCEPT ![s] = @ + Len(queue[s]) + 1 - Len(queue'[s])]
    /\ accepted' = [accepted EXCEPT ![t] = @ + 1]
    /\ UNCHANGED refused

\* ... or refuses it: the queue is full, or the channel is over its rate.
PushRefused(t, s) ==
    /\ \/ ~HasRoom(queue[s], SubOptions[s].capacity, SubOptions[s].policy)
       \/ SubOptions[s].rateLimit > 0
    /\ refused' = [refused EXCEPT ![t] = @ + 1]
    /\ UNCHANGED <<queue, evicted, accepted>>

PushNext(t) ==
    /\ pc[t] = "broadcast"
    /\ \E s \in rest[t] :
        /\ PushAccepted(t, s) \/ PushRefused(t, s)
        /\ rest' = [rest EXCEPT ![t] = @ \ {s}]
    /\ UNCHANGED <<closed, holder, innerVars, subClosed, seen, attachedAt, lastBefore, metricVars,
                   frame, pc, call, callerVars>>

\* drop(guard)
Unlock(t) ==
    /\ pc[t] = "broadcast"
    /\ rest[t] = {}
    /\ holder' = Nobody
    /\ Goto(t, "count")
    /\ UNCHANGED <<closed, innerVars, chanVars, metricVars, sendVars, callerVars>>

EndExchange(t) ==
    /\ Return(t)
    /\ frame' = [frame EXCEPT ![t] = NoFrame]
    /\ accepted' = [accepted EXCEPT ![t] = 0]
    /\ refused' = [refused EXCEPT ![t] = 0]

\* Faulty variant: the refused pushes are counted as deliveries.
CountAll(t) ==
    /\ pc[t] = "count"
    /\ delivers' = delivers + accepted[t] + refused[t]
    /\ drops' = drops + refused[t]
    /\ bytesDelivered' = bytesDelivered + frame[t].len * accepted[t]
    /\ EndExchange(t)
    /\ UNCHANGED <<closed, holder, innerVars, chanVars, writes, bytesWritten, errors,
                   rest, callerVars>>

\* The metrics, after the lock is released.
Count(t) ==
    /\ pc[t] = "count"
    /\ delivers' = delivers + accepted[t]
    /\ drops' = drops + refused[t]
    /\ bytesDelivered' = bytesDelivered + frame[t].len * accepted[t]
    /\ EndExchange(t)
    /\ UNCHANGED <<closed, holder, innerVars, chanVars, writes, bytesWritten, errors,
                   rest, callerVars>>

-----------------------------------------------------------------------------
(***************************************************************************)
(* The receivers: a recv that finds a frame, and FrameReceiver::close.     *)
(***************************************************************************)
Recv(s) ==
    /\ s \in held
    /\ queue[s] # <<>>
    /\ seen' = [seen EXCEPT ![s] = Append(@, Head(queue[s]).n)]
    /\ queue' = [queue EXCEPT ![s] = Tail(@)]
    /\ UNCHANGED <<closed, holder, innerVars, subClosed, evicted, attachedAt, lastBefore, metricVars,
                   sendVars, pc, call, callerVars>>

CloseReceiver(s) ==
    /\ s \in held
    /\ ~subClosed[s]
    /\ CloseChannels({s})
    /\ UNCHANGED <<closed, holder, innerVars, metricVars, sendVars, pc, call, callerVars>>

-----------------------------------------------------------------------------
Critical(t) ==
    \/ Store(t) \/ Remove(t) \/ Attach(t) \/ Install(t) \/ Sweep(t)
    \/ NoResponse(t) \/ Unsendable(t) \/ Exchange(t)

Outside(t) ==
    \/ Reject(t) \/ Admitted(t) \/ CompareExchange(t)
    \/ PushNext(t) \/ Unlock(t) \/ Count(t)

Next ==
    \/ \E t \in Tasks : Begin(t) \/ Critical(t) \/ Outside(t) \/ Cancel(t)
    \/ \E s \in Subs : Recv(s) \/ CloseReceiver(s)

Spec == Init /\ [][Next]_vars

\* The executor runs ready tasks, and tokio's Mutex is fair.
FairSpec ==
    /\ Spec
    /\ \A t \in Tasks : WF_vars(Outside(t)) /\ SF_vars(Critical(t))

-----------------------------------------------------------------------------
TypeOK ==
    /\ closed \in BOOLEAN
    /\ holder \in Tasks \cup {Nobody}
    /\ DOMAIN responses \subseteq 0 .. LIN_MAX_ID
    /\ responses \in [DOMAIN responses -> Response]
    /\ subs \in SUBSET Subs
    /\ schedule \in SUBSET (0 .. LIN_MAX_ID)
    /\ queue \in [Subs -> Seq(Frame)]
    /\ subClosed \in [Subs -> BOOLEAN]
    /\ {writes, delivers, drops, bytesWritten, bytesDelivered, errors} \subseteq Nat
    /\ pc \in [Tasks -> {"idle", "check", "lock", "broadcast", "count"}]
    /\ call \in [Tasks -> Calls \cup {NoCall}]
    /\ frame \in [Tasks -> Frame]
    /\ rest \in [Tasks -> SUBSET Subs]
    /\ accepted \in [Tasks -> Nat]
    /\ refused \in [Tasks -> Nat]
    /\ todo \in [Calls -> Nat]
    /\ held \in SUBSET Subs
    /\ seen \in [Subs -> Seq(Nat)]
    /\ evicted \in [Subs -> Nat]
    /\ attachedAt \in [Subs -> Nat]
    /\ lastBefore \in [Subs -> Nat]
    /\ swept \in BOOLEAN

\* An exchange that is still to reach s has been counted, not yet offered.
Owed(s) == \E t \in Tasks : s \in rest[t]

Offered(s) == IF Owed(s) THEN writes - 1 ELSE writes

Pending(s) == {f.n : f \in Range(queue[s])}

Channel(s) == INSTANCE LossyFifo
              WITH sent <- Offered(s), pending <- Pending(s), got <- seen[s]

\* The exchanges are numbered in the order they take the lock, and every
\* receiver sees them in that order, each at most once: concurrent broadcasts
\* do not interleave (send_header holds the lock, mod.rs:303-335).
BroadcastOrder ==
    /\ \A s \in Subs : Channel(s)!Init
    /\ [][\A s \in Subs : [Channel(s)!Next]_(Channel(s)!fifoVars)]_vars

\* A non-empty response that publish accepted can be sent: no later header
\* for it fails validate_frame (mod.rs:161-184 against frame.rs:230-260).
RegisteredIsSendable ==
    \A id \in DOMAIN responses :
        responses[id].len # 0 =>
            /\ id <= LIN_MAX_ID
            /\ responses[id].len <= LIN_MAX_DATA_LEN
            /\ id \in Diagnostic => responses[id].ct = "Classic"

\* The bus does what the nodes rely on (LinBus): one response changes at a
\* time, only responses that can be sent get in, schedules hold valid ids,
\* closing is for good.
Contract == INSTANCE LinBus

ImplementsBus == Contract!BusSpec

\* No subscriber is forgotten: a channel handed to a caller is in the list the
\* next broadcast goes through, unless it is closed (gc and close,
\* mod.rs:97-101 and 265-269).
OpenIsListed == \A s \in held : s \in subs \/ subClosed[s]

\* What an open channel was offered since it was listed is in its reader's
\* hands, in its queue, or was evicted: with no filter, no rate limit and a
\* policy that does not refuse, not one exchange passes it by.
NoExchangeMissed ==
    \A s \in held :
        (/\ ~subClosed[s]
         /\ SubFilters[s] = {}
         /\ SubOptions[s].policy # "DropNewest"
         /\ SubOptions[s].rateLimit = 0)
        => Len(seen[s]) + Len(queue[s]) + evicted[s] = Offered(s) - attachedAt[s]

\* A closed channel gets no frame of an exchange that began after its close:
\* send_header collects it first (mod.rs:304).
NothingAfterClose ==
    \A s \in Subs :
        subClosed[s] => \A f \in Range(queue[s]) : f.n <= lastBefore[s]

\* deliver_count, with what exchanges under way still have to add, is exactly
\* the frames channels took in, however the exchanges overlap.
DeliveriesAccounted ==
    delivers + SumFunction(accepted) =
        SumFunction([s \in Subs |-> Len(seen[s]) + Len(queue[s]) + evicted[s]])

\* What is left of t's call, the pushes of its broadcast included.
Left(t) ==
    CASE pc[t] = "idle" -> 0
      [] pc[t] = "count" -> 1
      [] pc[t] = "broadcast" -> 2 + Cardinality(rest[t])
      [] pc[t] = "lock" -> 3 + Cardinality(Subs)
      [] pc[t] = "check" -> 4 + Cardinality(Subs)

\* What CallsReturn rests on, without fairness: no step of any task sets a
\* call under way back, or changes it without bringing it nearer its end, and a
\* call that finds the lock taken waits for another task's broadcast, never for
\* one that has returned with the lock (the guard of send_header, mod.rs:303-335).
CallsAdvance ==
    /\ [][\A t \in Tasks : pc[t] # "idle" =>
            Left(t)' < Left(t) \/ UNCHANGED <<pc[t], call[t], rest[t]>>]_vars
    /\ [](\A t \in Tasks : pc[t] = "lock" /\ holder # Nobody =>
            holder # t /\ pc[holder] = "broadcast")

\* Every call returns: the lock is handed on along every path out of a
\* critical section, the early returns included.
CallsReturn == \A t \in Tasks : pc[t] # "idle" ~> pc[t] = "idle"

\* "Close the bus and all subscriber channels" (bus.rs:190).
CloseReachesAll == swept => \A s \in held : subClosed[s]
=============================================================================
