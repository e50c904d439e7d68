---------------------------- MODULE FrameReceiver ----------------------------
(***************************************************************************)
(* One subscriber channel of src/bus.rs: the shared SubInner (queue,       *)
(* Notify, closed flag, rate limiter), the bus that pushes into it, the    *)
(* tasks that run `FrameReceiver::recv` on it and the callers of `close`.  *)
(*                                                                         *)
(* `recv` runs in the steps between which other threads really interleave: *)
(* a pop under the queue mutex, the load of `closed`, the last pop, and    *)
(* `notified().await`, which either consumes a stored permit or joins the  *)
(* waiters.  `close` is two steps, the store and `notify_waiters`.  `push` *)
(* is one step: its callers serialise it (they hold the bus lock), so the  *)
(* rate limiter has no second writer, and the queue mutex is held from the *)
(* length test to `notify_one`.                                            *)
(*                                                                         *)
(* tokio's Notify is modelled from how recv, push and close use it: a      *)
(* permit, and waiters of which `notify_one` wakes one (any: tokio's FIFO  *)
(* choice among them is left open).                                        *)
(***************************************************************************)
EXTENDS SubInner, FiniteSets, Functions

CONSTANTS
    Consumers,      \* tasks that share the receiver (`recv` takes &self)
    Closers,        \* calls of SubInner::close: by the bus, by the receiver
    Options,        \* the SubscriberOptions a channel may be created with
    Second,         \* clock ticks in one second
    MaxPushes,      \* bound: frames offered
    MaxTime         \* bound: the clock

ASSUME ConstantsAssumption ==
    /\ Consumers # {}
    /\ Options \subseteq SubscriberOptions
    /\ Second \in Nat \ {0}
    /\ MaxPushes \in Nat
    /\ MaxTime \in Nat

VARIABLES
    opts,           \* capacity, policy and rate_limit of the SubInner
    queue,          \* SubInner.queue; a frame is the number of its push
    closed,         \* SubInner.closed
    permit,         \* SubInner.notify: a notify_one nobody was waiting for
    rate,           \* SubInner.rate_state
    now,            \* the monotonic clock, Instant::now
    pc,             \* where each consumer is in recv
    closing,        \* where each closer is in close
    pushes,         \* history: number of push calls
    got,            \* history: the frames recv returned, in order
    closedAt,       \* history: pushes made when closed was first stored
    admitted        \* history: times at which the rate limiter let a push by

clockVars == <<now, rate, admitted>>
notifyVars == <<permit, pc>>
closeVars == <<closed, closing, closedAt>>
vars == <<opts, queue, pushes, got, notifyVars, closeVars, clockVars>>

-----------------------------------------------------------------------------
Init ==
    /\ opts \in Options
    /\ queue = <<>>
    /\ closed = FALSE
    /\ permit = FALSE
    /\ rate = [start |-> 0, count |-> 0]
    /\ now = 0
    /\ pc = [c \in Consumers |-> "idle"]
    /\ closing = [k \in Closers |-> "open"]
    /\ pushes = 0
    /\ got = <<>>
    /\ closedAt = 0
    /\ admitted = <<>>

-----------------------------------------------------------------------------
(***************************************************************************)
(* tokio::sync::Notify.                                                    *)
(***************************************************************************)
Waiting == {c \in Consumers : pc[c] = "wait"}

\* notify_one: wake one waiter, or store the (single) permit.
WakeOne ==
    /\ Waiting # {}
    /\ \E c \in Waiting : pc' = [pc EXCEPT ![c] = "woken"]
    /\ UNCHANGED permit

\* Faulty variant: nobody waiting, notification lost (push using
\* notify_waiters).
StorePermitLost ==
    /\ Waiting = {}
    /\ UNCHANGED <<permit, pc>>

StorePermit ==
    /\ Waiting = {}
    /\ permit' = TRUE
    /\ UNCHANGED pc

NotifyOne == WakeOne \/ StorePermit

-----------------------------------------------------------------------------
(***************************************************************************)
(* SubInner::push.  The three ways it ends: refused by the rate limiter,   *)
(* refused by a full queue (its admission already counted), or queued.     *)
(***************************************************************************)
CurrentWindow == IF opts.rateLimit > 0 THEN Window(rate, now, Second) ELSE rate

PushOverRate ==
    /\ OverRate(CurrentWindow, opts.rateLimit)
    /\ rate' = CurrentWindow
    /\ UNCHANGED <<queue, notifyVars, admitted>>

PassRateLimit ==
    /\ ~OverRate(CurrentWindow, opts.rateLimit)
    /\ rate' = Admit(CurrentWindow, opts.rateLimit)
    /\ admitted' = IF opts.rateLimit > 0 THEN Append(admitted, now) ELSE admitted

PushRefused ==
    /\ PassRateLimit
    /\ ~HasRoom(queue, opts.capacity, opts.policy)
    /\ UNCHANGED <<queue, notifyVars>>

PushQueued ==
    /\ PassRateLimit
    /\ HasRoom(queue, opts.capacity, opts.policy)
    /\ queue' = Enqueue(queue, pushes + 1, opts.capacity, opts.policy)
    /\ NotifyOne

Push ==
    /\ pushes < MaxPushes
    /\ pushes' = pushes + 1
    /\ PushOverRate \/ PushRefused \/ PushQueued
    /\ UNCHANGED <<opts, now, got, closeVars>>

-----------------------------------------------------------------------------
(***************************************************************************)
(* FrameReceiver::recv by consumer c.                                      *)
(***************************************************************************)
Goto(c, label) == pc' = [pc EXCEPT ![c] = label]

\* The caller calls recv (again), also after a None.
StartRecv(c) ==
    /\ pc[c] \in {"idle", "ended"}
    /\ Goto(c, "pop")
    /\ UNCHANGED <<opts, queue, permit, pushes, got, closeVars, clockVars>>

\* `pop` found a frame: recv returns it.
TakeFrame(c) ==
    /\ queue # <<>>
    /\ got' = Append(got, Head(queue))
    /\ queue' = Tail(queue)
    /\ Goto(c, "idle")

\* The first statement of the loop.
Pop(c) ==
    /\ pc[c] = "pop"
    /\ \/ TakeFrame(c)
       \/ queue = <<>> /\ Goto(c, "check") /\ UNCHANGED <<queue, got>>
    /\ UNCHANGED <<opts, permit, pushes, closeVars, clockVars>>

\* Faulty variants: a closed channel ends recv without the last pop; recv
\* does not look at `closed`.
CheckClosedNoDrain(c) ==
    /\ pc[c] = "check"
    /\ Goto(c, IF closed THEN "ended" ELSE "park")
    /\ UNCHANGED <<opts, queue, permit, pushes, got, closeVars, clockVars>>

CheckClosedSkipped(c) ==
    /\ pc[c] = "check"
    /\ Goto(c, "park")
    /\ UNCHANGED <<opts, queue, permit, pushes, got, closeVars, clockVars>>

\* The load of `closed`.
CheckClosed(c) ==
    /\ pc[c] = "check"
    /\ Goto(c, IF closed THEN "drain" ELSE "park")
    /\ UNCHANGED <<opts, queue, permit, pushes, got, closeVars, clockVars>>

\* `return self.inner.pop()`: a frame pushed in between, or None.
Drain(c) ==
    /\ pc[c] = "drain"
    /\ \/ TakeFrame(c)
       \/ queue = <<>> /\ Goto(c, "ended") /\ UNCHANGED <<queue, got>>
    /\ UNCHANGED <<opts, permit, pushes, closeVars, clockVars>>

\* `notified().await`: a stored permit sends the loop round at once.
Park(c) ==
    /\ pc[c] = "park"
    /\ Goto(c, IF permit THEN "pop" ELSE "wait")
    /\ permit' = FALSE
    /\ UNCHANGED <<opts, queue, pushes, got, closeVars, clockVars>>

\* Faulty variant: a notified consumer awaits again before it looks.
ResumeParked(c) ==
    /\ pc[c] \in {"woken", "wokenAll"}
    /\ Goto(c, "park")
    /\ UNCHANGED <<opts, queue, permit, pushes, got, closeVars, clockVars>>

\* The executor resumes a notified consumer.
Resume(c) ==
    /\ pc[c] \in {"woken", "wokenAll"}
    /\ Goto(c, "pop")
    /\ UNCHANGED <<opts, queue, permit, pushes, got, closeVars, clockVars>>

\* The caller drops the recv future at its await (select!, timeout).  A
\* notification by notify_one that it had received is passed on.
Cancel(c) ==
    /\ \/ /\ pc[c] \in {"wait", "wokenAll"}
          /\ Goto(c, "idle")
          /\ UNCHANGED permit
       \/ /\ pc[c] = "woken"
          /\ Waiting = {}
          /\ Goto(c, "idle")
          /\ permit' = TRUE
       \/ /\ pc[c] = "woken"
          /\ \E d \in Waiting : pc' = [pc EXCEPT ![c] = "idle", ![d] = "woken"]
          /\ UNCHANGED permit
    /\ UNCHANGED <<opts, queue, pushes, got, closeVars, clockVars>>

Recv(c) ==
    Pop(c) \/ CheckClosed(c) \/ Drain(c) \/ Park(c) \/ Resume(c)

-----------------------------------------------------------------------------
(***************************************************************************)
(* SubInner::close by closer k.                                            *)
(***************************************************************************)
CloseStore(k) ==
    /\ closing[k] = "open"
    /\ closing' = [closing EXCEPT ![k] = "stored"]
    /\ closed' = TRUE
    /\ closedAt' = IF closed THEN closedAt ELSE pushes
    /\ UNCHANGED <<opts, queue, pushes, got, notifyVars, clockVars>>

\* notify_waiters: wakes who waits now and stores nothing for who comes late.
CloseNotify(k) ==
    /\ closing[k] = "stored"
    /\ closing' = [closing EXCEPT ![k] = "done"]
    /\ pc' = [c \in Consumers |-> IF pc[c] = "wait" THEN "wokenAll" ELSE pc[c]]
    /\ UNCHANGED <<opts, queue, permit, closed, closedAt, pushes, got, clockVars>>

Close(k) == CloseStore(k) \/ CloseNotify(k)

\* Only a rate-limited channel reads the clock.
Tick ==
    /\ opts.rateLimit > 0
    /\ now < MaxTime
    /\ now' = now + 1
    /\ UNCHANGED <<opts, queue, pushes, got, notifyVars, closeVars, rate, admitted>>

Next ==
    \/ Push
    \/ \E c \in Consumers : StartRecv(c) \/ Recv(c) \/ Cancel(c)
    \/ \E k \in Closers : Close(k)
    \/ Tick

Spec == Init /\ [][Next]_vars

(***************************************************************************)
(* The executor runs every task that is ready, a close call runs to its    *)
(* end, and a reader calls recv in a loop (the usage the type documents).  *)
(* Nothing makes the bus push, a caller close, or the clock tick.          *)
(***************************************************************************)
Scheduling ==
    /\ \A c \in Consumers : WF_vars(Recv(c))
    /\ \A k \in Closers : WF_vars(CloseNotify(k))

ReadLoop == \A c \in Consumers : WF_vars(StartRecv(c))

FairSpec == Spec /\ Scheduling
LoopSpec == Spec /\ Scheduling /\ ReadLoop

-----------------------------------------------------------------------------
Labels == {"idle", "pop", "check", "drain", "park", "wait", "woken",
           "wokenAll", "ended"}

TypeOK ==
    /\ opts \in Options
    /\ queue \in Seq(Nat)
    /\ closed \in BOOLEAN
    /\ permit \in BOOLEAN
    /\ rate \in RateState
    /\ now \in Nat
    /\ pc \in [Consumers -> Labels]
    /\ closing \in [Closers -> {"open", "stored", "done"}]
    /\ pushes \in Nat
    /\ got \in Seq(Nat)
    /\ closedAt \in Nat
    /\ admitted \in Seq(Nat)

\* Under the two dropping policies (push, bus.rs:79-94) the queue never holds
\* more frames than the capacity the subscriber asked for.
QueueBounded == opts.policy # "Block" => Len(queue) <= opts.capacity

\* A frame in the queue never meets a receiver all of whose readers sleep:
\* however pushes, cancelled recv calls and closes interleave with recv's
\* pop, check and await (bus.rs:141-151), some reader is awake to take it.
NeverAllAsleep == queue # <<>> => \E c \in Consumers : pc[c] # "wait"

\* recv returns None (bus.rs:146-148) only when every frame queued before the
\* close has been taken: what is left in the queue was pushed after it.
DrainBeforeNone ==
    (\E c \in Consumers : pc[c] = "ended") =>
        \A i \in 1 .. Len(queue) : queue[i] > closedAt

\* The rate limiter (bus.rs:64-75) lets at most twice the limit through in
\* any one second: the second meets at most two of its windows.
RateBurst ==
    \A t \in 0 .. now :
        Cardinality({i \in 1 .. Len(admitted) : admitted[i] \in t .. t + Second - 1})
            <= 2 * opts.rateLimit

QueuedFrames == Range(queue)

\* The channel keeps the promise of LossyFifo: in order, at most once, and no
\* push costs more than one frame (push and pop, bus.rs:63-105).
Fifo == INSTANCE LossyFifo WITH sent <- pushes, pending <- QueuedFrames

ImplementsLossyFifo == Fifo!Spec

\* A queued frame is eventually taken (or evicted) although readers may keep
\* abandoning recv at its await: each new call looks at the queue first.
FramesLeave ==
    \A n \in 1 .. MaxPushes : n \in QueuedFrames ~> n \notin QueuedFrames

\* A recv that begins after the close has been stored returns: it does not
\* reach the await.
RecvReturnsOnceClosed ==
    \A c \in Consumers :
        pc[c] = "pop" /\ closed ~> pc[c] \in {"idle", "ended"}

\* "Returns `None` when the bus is closed and the queue is drained"
\* (bus.rs:140): no recv waits for ever on a closed channel.
CloseEndsRecv ==
    \A c \in Consumers : closed /\ pc[c] = "wait" ~> pc[c] # "wait"
=============================================================================
