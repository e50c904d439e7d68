------------------------- MODULE FrameReceiver_proofs -------------------------
(***************************************************************************)
(* Theorems about one subscriber channel, for every number of readers and  *)
(* closers, every set of options and every bound.                          *)
(***************************************************************************)
EXTENDS FrameReceiver, FiniteSetTheorems, TLAPS

(***************************************************************************)
(* What `push` does to the queue.                                          *)
(***************************************************************************)
\* A queue of frames stays one, and a policy that drops keeps it in bounds.
LEMMA EnqueueType ==
    ASSUME NEW q \in Seq(Nat), NEW f \in Nat,
           NEW capacity \in Nat \ {0}, NEW policy \in BackPressure
    PROVE  /\ Enqueue(q, f, capacity, policy) \in Seq(Nat)
           /\ (Len(q) <= capacity /\ policy # "Block" /\ HasRoom(q, capacity, policy))
                => Len(Enqueue(q, f, capacity, policy)) <= capacity
  <1>1. CASE policy = "DropOldest" /\ Full(q, capacity)
    <2>1. q # <<>>
      BY <1>1 DEF Full
    <2>2. Tail(q) \in Seq(Nat) /\ Len(Tail(q)) = Len(q) - 1
      BY <2>1
    <2>. QED
      BY <1>1, <2>2 DEF Enqueue
  <1>2. CASE ~(policy = "DropOldest" /\ Full(q, capacity))
    BY <1>2 DEF Enqueue, HasRoom, Full, BackPressure
  <1>. QED
    BY <1>1, <1>2

(***************************************************************************)
(* Types.                                                                  *)
(***************************************************************************)
\* The options in force are one of the option sets.
LEMMA OptionsType == 
    ASSUME TypeOK
    PROVE  /\ opts.capacity \in Nat \ {0}
           /\ opts.policy \in BackPressure
           /\ opts.rateLimit \in Nat
  BY ConstantsAssumption DEF TypeOK, SubscriberOptions

\* notify_one moves one reader or stores the permit.
LEMMA NotifyType ==
    ASSUME TypeOK, NotifyOne
    PROVE  permit' \in BOOLEAN /\ pc' \in [Consumers -> Labels]
  BY DEF TypeOK, NotifyOne, WakeOne, StorePermit, Waiting, Labels

\* The window a push sees is a rate state.
LEMMA WindowType ==
    ASSUME TypeOK
    PROVE  CurrentWindow \in RateState
  BY OptionsType DEF TypeOK, CurrentWindow, Window, RateState

\* Counting an admission leaves a rate state.
LEMMA PassType ==
    ASSUME TypeOK, PassRateLimit
    PROVE  rate' \in RateState /\ admitted' \in Seq(Nat)
  <1>1. rate' = Admit(CurrentWindow, opts.rateLimit) /\ CurrentWindow \in RateState
    BY WindowType DEF PassRateLimit
  <1>2. rate' \in RateState
    BY <1>1 DEF Admit, RateState
  <1>3. admitted' \in Seq(Nat)
    BY DEF TypeOK, PassRateLimit
  <1>. QED
    BY <1>2, <1>3

\* push keeps the channel well typed, on each of its paths.
LEMMA PushType ==
    ASSUME TypeOK, Push
    PROVE  TypeOK'
  <1>0. pushes' \in Nat
    BY DEF TypeOK, Push
  <1>1. CASE PushOverRate
    BY <1>0, <1>1, WindowType DEF TypeOK, Push, PushOverRate, notifyVars, closeVars
  <1>2. CASE PushRefused
    BY <1>0, <1>2, PassType DEF TypeOK, Push, PushRefused, notifyVars, closeVars
  <1>3. CASE PushQueued
    <2>1. opts.capacity \in Nat \ {0} /\ opts.policy \in BackPressure
      BY OptionsType
    <2>2. queue \in Seq(Nat) /\ pushes + 1 \in Nat
      BY DEF TypeOK
    <2>3. queue' \in Seq(Nat)
      BY <1>3, <2>1, <2>2, EnqueueType DEF PushQueued
    <2>. QED
      BY <1>0, <1>3, <2>3, PassType, NotifyType DEF TypeOK, Push, PushQueued, closeVars
  <1>. QED
    BY <1>1, <1>2, <1>3 DEF Push

\* A pop takes a frame off a queue of frames.
LEMMA TakeType ==
    ASSUME TypeOK, NEW c \in Consumers, TakeFrame(c)
    PROVE  queue' \in Seq(Nat) /\ got' \in Seq(Nat) /\ pc' \in [Consumers -> Labels]
  <1>1. Head(queue) \in Nat /\ Tail(queue) \in Seq(Nat)
    BY DEF TypeOK, TakeFrame
  <1>. QED
    BY <1>1 DEF TypeOK, TakeFrame, Goto, Labels

\* The steps of recv, an abandoned one included, keep the types.
LEMMA RecvType ==
    ASSUME TypeOK, NEW c \in Consumers, Recv(c) \/ StartRecv(c) \/ Cancel(c)
    PROVE  TypeOK'
  <1>. USE DEF TypeOK, Goto, closeVars, clockVars, Labels
  <1>1. CASE Pop(c)
    <2>1. CASE TakeFrame(c)
      BY <1>1, <2>1, TakeType DEF Pop
    <2>2. CASE ~TakeFrame(c)
      BY <1>1, <2>2 DEF Pop
    <2>. QED  BY <2>1, <2>2
  <1>2. CASE Drain(c)
    <2>1. CASE TakeFrame(c)
      BY <1>2, <2>1, TakeType DEF Drain
    <2>2. CASE ~TakeFrame(c)
      BY <1>2, <2>2 DEF Drain
    <2>. QED  BY <2>1, <2>2
  <1>3. CASE CheckClosed(c)
    BY <1>3 DEF CheckClosed
  <1>4. CASE Park(c)
    BY <1>4 DEF Park
  <1>5. CASE Resume(c)
    BY <1>5 DEF Resume
  <1>6. CASE StartRecv(c)
    BY <1>6 DEF StartRecv
  <1>7. CASE Cancel(c)
    BY <1>7 DEF Cancel, Waiting
  <1>. QED
    BY <1>1, <1>2, <1>3, <1>4, <1>5, <1>6, <1>7 DEF Recv

\* The steps of close keep the types.
LEMMA CloseType ==
    ASSUME TypeOK, NEW k \in Closers, Close(k)
    PROVE  TypeOK'
  <1>1. CASE CloseStore(k)
    BY <1>1 DEF TypeOK, CloseStore, notifyVars, clockVars
  <1>2. CASE CloseNotify(k)
    BY <1>2 DEF TypeOK, CloseNotify, Labels, clockVars
  <1>. QED
    BY <1>1, <1>2 DEF Close

\* Every reachable state of a channel is well typed.
THEOREM TypeCorrect == Spec => []TypeOK
  <1>1. Init => TypeOK
    <2> SUFFICES ASSUME Init PROVE TypeOK
      OBVIOUS
    <2>1. rate \in RateState
      BY DEF Init, RateState
    <2>2. pc \in [Consumers -> Labels] /\ closing \in [Closers -> {"open", "stored", "done"}]
      BY DEF Init, Labels
    <2>3. closed \in BOOLEAN /\ permit \in BOOLEAN
      BY DEF Init
    <2>4. queue \in Seq(Nat) /\ got \in Seq(Nat) /\ admitted \in Seq(Nat)
      BY DEF Init
    <2>. QED
      BY <2>1, <2>2, <2>3, <2>4 DEF Init, TypeOK
  <1>2. TypeOK /\ [Next]_vars => TypeOK'
    <2> SUFFICES ASSUME TypeOK, [Next]_vars PROVE TypeOK'
      OBVIOUS
    <2>1. CASE Tick
      BY <2>1 DEF TypeOK, Tick, notifyVars, closeVars
    <2>2. CASE UNCHANGED vars
      BY <2>2 DEF TypeOK, vars, notifyVars, closeVars, clockVars
    <2>. QED
      BY <2>1, <2>2, PushType, RecvType, CloseType DEF Next
  <1>. QED
    BY <1>1, <1>2, PTL DEF Spec

-----------------------------------------------------------------------------
(***************************************************************************)
(* The queue stays in bounds.                                              *)
(***************************************************************************)
\* A pop shortens the queue.
LEMMA TakeShortens ==
    ASSUME TypeOK, NEW c \in Consumers, TakeFrame(c)
    PROVE  Len(queue') = Len(queue) - 1 /\ queue' \in Seq(Nat)
  BY DEF TypeOK, TakeFrame

\* Every step other than a push and a pop leaves the queue alone.
LEMMA QueueSteps ==
    ASSUME TypeOK, [Next]_vars, queue' # queue
    PROVE  Push \/ \E c \in Consumers : TakeFrame(c)
  BY DEF Next, Recv, Close, Pop, Drain, CheckClosed, Park, Resume, StartRecv,
         Cancel, CloseStore, CloseNotify, Tick, vars

\* No step changes the options of a channel.
LEMMA OptionsFixed ==
    ASSUME [Next]_vars
    PROVE  UNCHANGED opts
  BY DEF Next, Push, Recv, Close, Pop, Drain, CheckClosed, Park, Resume,
         StartRecv, Cancel, CloseStore, CloseNotify, Tick, vars

\* Under DropNewest and DropOldest the queue holds at most `capacity` frames,
\* for every capacity.
THEOREM Bounded == Spec => []QueueBounded
  <1>1. Init => QueueBounded
    BY ConstantsAssumption DEF Init, QueueBounded, SubscriberOptions
  <1>2. TypeOK /\ QueueBounded /\ [Next]_vars => QueueBounded'
    <2> SUFFICES ASSUME TypeOK, QueueBounded, [Next]_vars, opts.policy # "Block"
                 PROVE  Len(queue') <= opts.capacity
      BY OptionsFixed DEF QueueBounded
    <2>1. opts.capacity \in Nat \ {0} /\ opts.policy \in BackPressure
      BY OptionsType
    <2>2. queue \in Seq(Nat) /\ pushes + 1 \in Nat /\ Len(queue) <= opts.capacity
      BY DEF TypeOK, QueueBounded
    <2>3. CASE UNCHANGED queue
      BY <2>2, <2>3
    <2>4. CASE Push /\ ~UNCHANGED queue
      <3>1. HasRoom(queue, opts.capacity, opts.policy)
            /\ queue' = Enqueue(queue, pushes + 1, opts.capacity, opts.policy)
        BY <2>4 DEF Push, PushQueued, PushRefused, PushOverRate
      <3>. QED
        BY <2>1, <2>2, <3>1, EnqueueType
    <2>5. CASE \E c \in Consumers : TakeFrame(c)
      BY <2>1, <2>2, <2>5, TakeShortens
    <2>. QED
      BY <2>3, <2>4, <2>5, QueueSteps
  <1>. QED
    BY <1>1, <1>2, TypeCorrect, PTL DEF Spec

-----------------------------------------------------------------------------
(***************************************************************************)
(* No lost wakeup while frames are queued.  The invariant says why: a      *)
(* queued frame is covered by a stored permit or by a reader that will     *)
(* look at the queue before it can sleep; a permit is stored only while    *)
(* nobody sleeps.                                                          *)
(***************************************************************************)
WillLook == {"idle", "ended", "pop", "woken", "wokenAll"}

Covered ==
    /\ permit => Waiting = {}
    /\ queue # <<>> => permit \/ \E c \in Consumers : pc[c] \in WillLook

\* A frame that is queued leaves a permit or wakes a reader.
LEMMA CoveredPush ==
    ASSUME TypeOK, Covered, Push
    PROVE  Covered'
  <1>1. CASE UNCHANGED <<queue, permit, pc>>
    BY <1>1 DEF Covered, Waiting
  <1>2. CASE WakeOne
    BY <1>2 DEF TypeOK, Covered, Waiting, WakeOne, WillLook
  <1>3. CASE StorePermit
    BY <1>3 DEF Covered, Waiting, StorePermit
  <1>. QED
    BY <1>1, <1>2, <1>3
       DEF Push, PushQueued, PushRefused, PushOverRate, NotifyOne, notifyVars

\* A reader goes to sleep only past an empty queue, and one that is dropped
\* after it was woken passes the notice on.
LEMMA CoveredRecv ==
    ASSUME TypeOK, Covered, NEW c \in Consumers, Recv(c) \/ StartRecv(c) \/ Cancel(c)
    PROVE  Covered'
  <1>. USE DEF TypeOK, Covered, Waiting, WillLook, Goto
  <1>1. CASE TakeFrame(c) /\ UNCHANGED permit
    BY <1>1 DEF TakeFrame
  <1>2. CASE (Pop(c) \/ Drain(c)) /\ ~TakeFrame(c)
    BY <1>2 DEF Pop, Drain
  <1>3. CASE CheckClosed(c)
    BY <1>3 DEF CheckClosed
  <1>4. CASE Park(c)
    BY <1>4 DEF Park
  <1>5. CASE Resume(c) \/ StartRecv(c)
    BY <1>5 DEF Resume, StartRecv
  <1>6. CASE Cancel(c)
    BY <1>6 DEF Cancel
  <1>. QED
    BY <1>1, <1>2, <1>3, <1>4, <1>5, <1>6 DEF Recv, Pop, Drain

\* close wakes the sleepers and touches neither queue nor permit.
LEMMA CoveredClose ==
    ASSUME TypeOK, Covered, NEW k \in Closers, Close(k)
    PROVE  Covered'
  BY DEF TypeOK, Covered, Waiting, WillLook, Close, CloseStore, CloseNotify, notifyVars

\* A permit is stored only while nobody waits, and a queued frame is covered
\* by a permit or by a reader that will look at the queue before it sleeps.
THEOREM AlwaysCovered == Spec => []Covered
  <1>1. Init => Covered
    BY DEF Init, Covered
  <1>2. TypeOK /\ Covered /\ [Next]_vars => Covered'
    <2> SUFFICES ASSUME TypeOK, Covered, [Next]_vars PROVE Covered'
      OBVIOUS
    <2>1. CASE Tick \/ UNCHANGED vars
      BY <2>1 DEF Covered, Waiting, Tick, vars, notifyVars
    <2>. QED
      BY <2>1, CoveredPush, CoveredRecv, CoveredClose DEF Next
  <1>. QED
    BY <1>1, <1>2, TypeCorrect, PTL DEF Spec

\* However many readers share a receiver and however often they abandon recv,
\* they are never all asleep while a frame is queued.
THEOREM ReaderAwake == Spec => []NeverAllAsleep
  <1>1. Covered => NeverAllAsleep
    BY ConstantsAssumption DEF Covered, NeverAllAsleep, Waiting, WillLook
  <1>. QED
    BY <1>1, AlwaysCovered, PTL

\* With the single reader every caller in the crate has, recv never sleeps on
\* a queued frame.
COROLLARY SingleReader ==
    ASSUME NEW c, Consumers = {c}
    PROVE  Spec => [](pc[c] = "wait" => queue = <<>>)
  <1>1. NeverAllAsleep => (pc[c] = "wait" => queue = <<>>)
    BY DEF NeverAllAsleep
  <1>. QED
    BY <1>1, ReaderAwake, PTL

-----------------------------------------------------------------------------
(***************************************************************************)
(* The queue is sorted: frames leave in the order of their pushes.         *)
(***************************************************************************)
Increasing(q) ==
    \A i, j \in 1 .. Len(q) : i < j => q[i] < q[j]

AllWithin(q, lo, hi) ==
    \A i \in 1 .. Len(q) : lo < q[i] /\ q[i] <= hi

\* Appending the next number keeps a sequence increasing.
LEMMA AppendKeeps ==
    ASSUME NEW q \in Seq(Nat), Increasing(q), NEW lo \in Nat, NEW hi \in Nat,
           AllWithin(q, lo, hi), lo <= hi
    PROVE  /\ Increasing(Append(q, hi + 1))
           /\ AllWithin(Append(q, hi + 1), lo, hi + 1)
           /\ Range(Append(q, hi + 1)) = Range(q) \cup {hi + 1}
  <1>. DEFINE r == Append(q, hi + 1)
  <1>1. /\ Len(r) = Len(q) + 1
        /\ Len(q) \in Nat
        /\ \A i \in 1 .. Len(q) : r[i] = q[i] /\ q[i] \in Nat
        /\ r[Len(q) + 1] = hi + 1
    OBVIOUS
  <1>. HIDE DEF r
  <1>2. Increasing(r)
    <2> SUFFICES ASSUME NEW i \in 1 .. Len(r), NEW j \in 1 .. Len(r), i < j
                 PROVE  r[i] < r[j]
      BY DEF Increasing
    <2>1. i \in 1 .. Len(q) /\ r[i] = q[i] /\ q[i] \in Nat /\ q[i] <= hi
      BY <1>1 DEF AllWithin
    <2>2. CASE j \in 1 .. Len(q)
      <3>1. q[i] < q[j]
        BY <2>1, <2>2 DEF Increasing
      <3>. QED
        BY <1>1, <2>1, <2>2, <3>1
    <2>3. CASE j = Len(q) + 1
      <3>1. r[j] = hi + 1
        BY <1>1, <2>3
      <3>. QED
        BY <2>1, <3>1
    <2>4. j \in 1 .. Len(q) \/ j = Len(q) + 1
      <3>1. Len(r) = Len(q) + 1 /\ Len(q) \in Nat
        BY <1>1
      <3>. QED
        BY <3>1
    <2>. QED
      BY <2>2, <2>3, <2>4
  <1>3. AllWithin(r, lo, hi + 1)
    BY <1>1 DEF AllWithin
  <1>4. Range(r) = Range(q) \cup {hi + 1}
    <2>1. ASSUME NEW n \in Range(r) PROVE n \in Range(q) \cup {hi + 1}
      <3>1. PICK i \in 1 .. Len(r) : n = r[i]
        BY <2>1 DEF Range
      <3>2. (i \in 1 .. Len(q) /\ n = q[i]) \/ n = hi + 1
        BY <1>1, <3>1
      <3>. QED
        BY <3>2 DEF Range
    <2>2. ASSUME NEW n \in Range(q) PROVE n \in Range(r)
      <3>1. PICK i \in 1 .. Len(q) : n = q[i]
        BY <2>2 DEF Range
      <3>2. i \in 1 .. Len(r) /\ n = r[i]
        BY <1>1, <3>1
      <3>. QED
        BY <3>2 DEF Range
    <2>3. hi + 1 \in Range(r)
      <3>1. Len(q) + 1 \in 1 .. Len(r)
        BY <1>1
      <3>. QED
        BY <1>1, <3>1 DEF Range
    <2>. QED
      BY <2>1, <2>2, <2>3
  <1>. QED
    BY <1>2, <1>3, <1>4 DEF r

\* Taking the first of an increasing sequence takes its least.
LEMMA TailKeeps ==
    ASSUME NEW q \in Seq(Nat), Increasing(q), NEW lo \in Nat, NEW hi \in Nat,
           AllWithin(q, lo, hi), q # <<>>
    PROVE  /\ Tail(q) \in Seq(Nat)
           /\ Increasing(Tail(q))
           /\ AllWithin(Tail(q), lo, hi)
           /\ Head(q) \in Range(q)
           /\ \A n \in Range(q) : Head(q) <= n
           /\ Range(Tail(q)) = Range(q) \ {Head(q)}
  <1>. DEFINE r == Tail(q)
  <1>1. /\ r \in Seq(Nat)
        /\ Len(q) \in Nat \ {0}
        /\ Len(r) = Len(q) - 1
        /\ Head(q) = q[1]
        /\ \A i \in 1 .. Len(q) : q[i] \in Nat
        /\ \A i \in 1 .. Len(r) : r[i] = q[i + 1]
    OBVIOUS
  <1>. HIDE DEF r
  <1>2. Increasing(r)
    <2> SUFFICES ASSUME NEW i \in 1 .. Len(r), NEW j \in 1 .. Len(r), i < j
                 PROVE  r[i] < r[j]
      BY DEF Increasing
    <2>1. i + 1 \in 1 .. Len(q) /\ j + 1 \in 1 .. Len(q) /\ i + 1 < j + 1
      BY <1>1
    <2>2. q[i + 1] < q[j + 1]
      BY <2>1 DEF Increasing
    <2>. QED
      BY <1>1, <2>2
  <1>3. AllWithin(r, lo, hi)
    <2> SUFFICES ASSUME NEW i \in 1 .. Len(r)
                 PROVE  lo < r[i] /\ r[i] <= hi
      BY DEF AllWithin
    <2>1. i + 1 \in 1 .. Len(q)
      BY <1>1
    <2>. QED
      BY <1>1, <2>1 DEF AllWithin
  <1>4. Head(q) \in Range(q)
    <2>1. 1 \in 1 .. Len(q) /\ Head(q) = q[1]
      BY <1>1
    <2>. QED
      BY <2>1 DEF Range
  <1>5. ASSUME NEW n \in Range(q) PROVE Head(q) <= n
    <2>1. PICK i \in 1 .. Len(q) : n = q[i]
      BY <1>5 DEF Range
    <2>2. i = 1 \/ 1 < i
      BY <1>1, <2>1
    <2>. QED
      BY <1>1, <2>1, <2>2 DEF Increasing
  <1>6. ASSUME NEW n \in Range(r) PROVE n \in Range(q) \ {Head(q)}
    <2>1. PICK i \in 1 .. Len(r) : n = r[i]
      BY <1>6 DEF Range
    <2>2. i + 1 \in 1 .. Len(q) /\ n = q[i + 1] /\ 1 < i + 1 /\ 1 \in 1 .. Len(q)
      BY <1>1, <2>1
    <2>3. q[1] < q[i + 1]
      BY <2>2 DEF Increasing
    <2>. QED
      <3>1. n \in Range(q)
        BY <2>2 DEF Range
      <3>2. n # Head(q)
        BY <1>1, <2>2, <2>3
      <3>. QED
        BY <3>1, <3>2
  <1>7. ASSUME NEW n \in Range(q) \ {Head(q)} PROVE n \in Range(r)
    <2>1. PICK i \in 1 .. Len(q) : n = q[i]
      BY <1>7 DEF Range
    <2>2. i # 1
      BY <1>1, <1>7, <2>1
    <2>3. i - 1 \in 1 .. Len(r) /\ (i - 1) + 1 = i
      BY <1>1, <2>1, <2>2
    <2>4. r[i - 1] = n
      BY <1>1, <2>1, <2>3
    <2>5. DOMAIN r = 1 .. Len(r)
      BY <1>1
    <2>. QED
      BY <2>3, <2>4, <2>5 DEF Range
  <1>8. r = Tail(q)
    BY DEF r
  <1>9. Range(r) = Range(q) \ {Head(q)}
    BY <1>6, <1>7
  <1>. QED
    BY <1>1, <1>2, <1>3, <1>4, <1>5, <1>8, <1>9

-----------------------------------------------------------------------------
(***************************************************************************)
(* The order of the queue, and what a close leaves in it.                  *)
(***************************************************************************)
Ordered ==
    /\ Increasing(queue)
    /\ AllWithin(queue, 0, pushes)

\* Someone was told None: the close is stored, and the queue holds nothing
\* that was pushed before it.
Ended == \E c \in Consumers : pc[c] = "ended"

Drained ==
    /\ closedAt <= pushes
    /\ \A c \in Consumers : pc[c] = "drain" => closed
    /\ Ended => closed /\ AllWithin(queue, closedAt, pushes)

\* The two ways a push can change the queue, as uses of the lemmas above.
LEMMA PushQueue ==
    ASSUME TypeOK, Ordered, Push, ~UNCHANGED queue
    PROVE  \/ queue' = Append(queue, pushes')
           \/ queue # <<>> /\ queue' = Append(Tail(queue), pushes')
  <1>1. /\ queue' = Enqueue(queue, pushes + 1, opts.capacity, opts.policy)
        /\ pushes' = pushes + 1
    BY DEF Push, PushQueued, PushRefused, PushOverRate
  <1>2. opts.capacity \in Nat \ {0}
    BY OptionsType
  <1>3. Full(queue, opts.capacity) => queue # <<>>
    BY <1>2 DEF Full
  <1>. QED
    BY <1>1, <1>3 DEF Enqueue

\* push keeps the queue increasing, accepted, refused or at the cost of the
\* oldest frame.
LEMMA PushKeeps ==
    ASSUME TypeOK, Ordered, Push, NEW lo \in Nat, lo <= pushes, AllWithin(queue, lo, pushes)
    PROVE  Increasing(queue') /\ AllWithin(queue', lo, pushes')
  <1>1. queue \in Seq(Nat) /\ pushes \in Nat /\ pushes' = pushes + 1 /\ Increasing(queue)
    BY DEF TypeOK, Push, Ordered
  <1>2. CASE UNCHANGED queue
    BY <1>1, <1>2 DEF AllWithin, TypeOK
  <1>3. CASE queue' = Append(queue, pushes')
    BY <1>1, <1>3, AppendKeeps
  <1>4. CASE queue # <<>> /\ queue' = Append(Tail(queue), pushes')
    <2>1. Tail(queue) \in Seq(Nat) /\ Increasing(Tail(queue)) /\ AllWithin(Tail(queue), lo, pushes)
      BY <1>1, <1>4, TailKeeps
    <2>. QED
      BY <1>1, <1>4, <2>1, AppendKeeps
  <1>. QED
    BY <1>2, <1>3, <1>4, PushQueue

\* A pop keeps the queue increasing.
LEMMA TakeKeeps ==
    ASSUME TypeOK, Ordered, NEW c \in Consumers, TakeFrame(c),
           NEW lo \in Nat, AllWithin(queue, lo, pushes)
    PROVE  Increasing(queue') /\ AllWithin(queue', lo, pushes)
  BY TailKeeps DEF TypeOK, Ordered, TakeFrame

\* Nothing but push counts pushes.
LEMMA PushesSteps ==
    ASSUME [Next]_vars, ~Push
    PROVE  UNCHANGED pushes
  BY DEF Next, Recv, Close, Pop, Drain, CheckClosed, Park, Resume, StartRecv,
         Cancel, CloseStore, CloseNotify, Tick, vars

\* The queue is strictly increasing and holds nothing that was not pushed.
THEOREM AlwaysOrdered == Spec => []Ordered
  <1>1. Init => Ordered
    BY DEF Init, Ordered, Increasing, AllWithin
  <1>2. TypeOK /\ Ordered /\ [Next]_vars => Ordered'
    <2> SUFFICES ASSUME TypeOK, Ordered, [Next]_vars PROVE Ordered'
      OBVIOUS
    <2>1. CASE Push
      BY <2>1, PushKeeps DEF Ordered, TypeOK
    <2>2. CASE ~Push /\ \E c \in Consumers : TakeFrame(c)
      <3>1. UNCHANGED pushes
        BY <2>2, PushesSteps
      <3>. QED
        BY <2>2, <3>1, TakeKeeps DEF Ordered
    <2>3. CASE ~Push /\ UNCHANGED queue
      BY <2>3, PushesSteps DEF Ordered
    <2>. QED
      BY <2>1, <2>2, <2>3, QueueSteps
  <1>. QED
    BY <1>1, <1>2, TypeCorrect, PTL DEF Spec

\* Once a reader was told None, what is queued was pushed after the close.
LEMMA DrainedSteps ==
    ASSUME TypeOK, Ordered, Drained, [Next]_vars
    PROVE  Drained'
  <1>. USE DEF TypeOK
  <1>1. CASE Push
    <2>1. /\ UNCHANGED <<closed, closedAt>>
          /\ pushes' = pushes + 1
      BY <1>1 DEF Push, closeVars
    <2>2. \A c \in Consumers : pc'[c] \in {"drain", "ended"} => pc[c] = pc'[c]
      BY <1>1 DEF Push, PushQueued, PushRefused, PushOverRate, NotifyOne, WakeOne,
                  StorePermit, Waiting, notifyVars
    <2>3. Ended' => Ended
      BY <2>2 DEF Ended
    <2>4. Ended => AllWithin(queue', closedAt, pushes')
      BY <1>1, PushKeeps DEF Drained
    <2>. QED
      BY <2>1, <2>2, <2>3, <2>4 DEF Drained
  <1>2. ASSUME NEW c \in Consumers, TakeFrame(c), UNCHANGED <<pushes, closed, closedAt>>
        PROVE  Drained'
    <2>1. Ended' => Ended
      BY <1>2 DEF Ended, TakeFrame, Goto
    <2>2. \A d \in Consumers : pc'[d] = "drain" => pc[d] = "drain"
      BY <1>2 DEF TakeFrame, Goto
    <2>3. Ended => AllWithin(queue', closedAt, pushes)
      BY <1>2, TakeKeeps DEF Drained
    <2>. QED
      BY <1>2, <2>1, <2>2, <2>3 DEF Drained
  <1>3. ASSUME NEW c \in Consumers, Pop(c) \/ Drain(c), ~TakeFrame(c)
        PROVE  Drained'
    <2>1. queue = <<>> /\ UNCHANGED <<queue, pushes, closed, closedAt>>
      BY <1>3 DEF Pop, Drain, closeVars
    <2>2. Ended' => closed
      BY <1>3 DEF Ended, Drained, Pop, Drain, Goto
    <2>3. \A d \in Consumers : pc'[d] = "drain" => pc[d] = "drain"
      BY <1>3 DEF Pop, Drain, Goto
    <2>4. AllWithin(queue', closedAt, pushes)
      BY <2>1 DEF AllWithin
    <2>. QED
      BY <2>1, <2>2, <2>3, <2>4 DEF Drained
  <1>4. ASSUME NEW c \in Consumers,
               CheckClosed(c) \/ Park(c) \/ Resume(c) \/ StartRecv(c) \/ Cancel(c)
        PROVE  Drained'
    <2>1. UNCHANGED <<queue, pushes, closed, closedAt>>
      BY <1>4 DEF CheckClosed, Park, Resume, StartRecv, Cancel, closeVars
    <2>2. Ended' => Ended
      BY <1>4 DEF Ended, CheckClosed, Park, Resume, StartRecv, Cancel, Goto, Waiting
    <2>3. \A d \in Consumers : pc'[d] = "drain" => pc[d] = "drain" \/ closed
      BY <1>4 DEF CheckClosed, Park, Resume, StartRecv, Cancel, Goto, Waiting
    <2>. QED
      BY <2>1, <2>2, <2>3 DEF Drained
  <1>5. ASSUME NEW k \in Closers, CloseStore(k)
        PROVE  Drained'
    BY <1>5 DEF Drained, Ended, CloseStore, notifyVars
  <1>6. ASSUME NEW k \in Closers, CloseNotify(k)
        PROVE  Drained'
    <2>1. UNCHANGED <<queue, pushes, closed, closedAt>>
      BY <1>6 DEF CloseNotify
    <2>2. \A c \in Consumers : pc'[c] \in {"drain", "ended"} => pc[c] = pc'[c]
      BY <1>6 DEF CloseNotify
    <2>. QED
      BY <2>1, <2>2 DEF Drained, Ended
  <1>7. CASE Tick \/ UNCHANGED vars
    BY <1>7 DEF Drained, Ended, Tick, vars, notifyVars, closeVars
  <1>. QED
    <2>1. ASSUME NEW c \in Consumers, Recv(c) PROVE Drained'
      <3>1. CASE TakeFrame(c) /\ (Pop(c) \/ Drain(c))
        BY <1>2, <3>1 DEF Pop, Drain, closeVars
      <3>. QED
        BY <1>3, <1>4, <2>1, <3>1 DEF Recv
    <2>. QED
      BY <1>1, <1>4, <1>5, <1>6, <1>7, <2>1 DEF Next, Close

\* recv answers None only when everything queued before the close was taken.
THEOREM NoneAfterDrain == Spec => []DrainBeforeNone
  <1>1. Init => Drained
    BY DEF Init, Drained, Ended
  <1>2. TypeOK /\ Ordered /\ Drained /\ [Next]_vars => Drained'
    BY DrainedSteps
  <1>3. Drained => DrainBeforeNone
    BY DEF Drained, Ended, DrainBeforeNone, AllWithin
  <1>. QED
    BY <1>1, <1>2, <1>3, TypeCorrect, AlwaysOrdered, PTL DEF Spec

-----------------------------------------------------------------------------
(***************************************************************************)
(* Refinement: every step of the channel is a step of LossyFifo or leaves  *)
(* its variables alone.                                                    *)
(***************************************************************************)
\* A push is a send of the FIFO, with or without the loss of a frame.
LEMMA PushSends ==
    ASSUME TypeOK, Ordered, Push
    PROVE  Fifo!Send
  <1>1. /\ pushes' = pushes + 1 /\ got' = got
        /\ queue \in Seq(Nat) /\ Increasing(queue)
        /\ pushes \in Nat /\ AllWithin(queue, 0, pushes)
    BY DEF Push, TypeOK, Ordered
  <1>2. CASE UNCHANGED queue
    BY <1>1, <1>2 DEF Fifo!Send, Fifo!LoseNew, QueuedFrames
  <1>3. CASE queue' = Append(queue, pushes')
    <2>1. Range(queue') = Range(queue) \cup {pushes + 1}
      BY <1>1, <1>3, AppendKeeps
    <2>. QED
      BY <1>1, <2>1 DEF Fifo!Send, Fifo!Keep, QueuedFrames
  <1>4. CASE queue # <<>> /\ queue' = Append(Tail(queue), pushes')
    <2>1. /\ Tail(queue) \in Seq(Nat) /\ Increasing(Tail(queue))
          /\ AllWithin(Tail(queue), 0, pushes)
          /\ Head(queue) \in Range(queue)
          /\ \A n \in Range(queue) : Head(queue) <= n
          /\ Range(Tail(queue)) = Range(queue) \ {Head(queue)}
      BY <1>1, <1>4, TailKeeps
    <2>2. Range(queue') = (Range(queue) \ {Head(queue)}) \cup {pushes + 1}
      <3>. DEFINE rest == Tail(queue)
      <3>1. rest \in Seq(Nat) /\ Increasing(rest) /\ AllWithin(rest, 0, pushes)
        BY <2>1
      <3>2. Range(rest) = Range(queue) \ {Head(queue)} /\ queue' = Append(rest, pushes + 1)
        BY <1>1, <1>4, <2>1
      <3>. HIDE DEF rest
      <3>3. Range(Append(rest, pushes + 1)) = Range(rest) \cup {pushes + 1}
        BY <1>1, <3>1, AppendKeeps
      <3>. QED
        BY <3>2, <3>3
    <2>3. Fifo!LoseOldest
      BY <2>1, <2>2 DEF Fifo!LoseOldest, Fifo!Oldest, QueuedFrames
    <2>. QED
      BY <1>1, <2>3 DEF Fifo!Send
  <1>. QED
    BY <1>2, <1>3, <1>4, PushQueue

\* A pop delivers the oldest frame of the FIFO.
LEMMA TakeDelivers ==
    ASSUME TypeOK, Ordered, NEW c \in Consumers, TakeFrame(c), UNCHANGED pushes
    PROVE  Fifo!Deliver
  <1>1. /\ Head(queue) \in Range(queue)
        /\ \A n \in Range(queue) : Head(queue) <= n
        /\ Range(Tail(queue)) = Range(queue) \ {Head(queue)}
    BY TailKeeps DEF TypeOK, Ordered, TakeFrame
  <1>. QED
    BY <1>1 DEF TakeFrame, Fifo!Deliver, Fifo!Oldest, QueuedFrames

\* The channel implements the lossy fifo: whatever the policy, the number of
\* readers and the moment of a close, frames come out once and in order.
THEOREM Refinement == Spec => ImplementsLossyFifo
  <1>1. Init => Fifo!Init
    BY DEF Init, Fifo!Init, QueuedFrames, Range
  <1>2. TypeOK /\ Ordered /\ [Next]_vars => [Fifo!Next]_(Fifo!fifoVars)
    <2> SUFFICES ASSUME TypeOK, Ordered, [Next]_vars
                 PROVE  Fifo!Next \/ UNCHANGED Fifo!fifoVars
      OBVIOUS
    <2>1. CASE Push
      BY <2>1, PushSends DEF Fifo!Next
    <2>2. CASE ~Push /\ \E c \in Consumers : TakeFrame(c)
      BY <2>2, PushesSteps, TakeDelivers DEF Fifo!Next
    <2>3. CASE ~Push /\ ~(\E c \in Consumers : TakeFrame(c))
      <3>1. UNCHANGED <<queue, got>>
        BY <2>3 DEF Next, Recv, Close, Pop, Drain, CheckClosed, Park, Resume,
                    StartRecv, Cancel, CloseStore, CloseNotify, Tick, vars
      <3>. QED
        BY <2>3, <3>1, PushesSteps DEF Fifo!fifoVars, QueuedFrames
    <2>. QED
      BY <2>1, <2>2, <2>3
  <1>. QED
    BY <1>1, <1>2, TypeCorrect, AlwaysOrdered, PTL
       DEF Spec, ImplementsLossyFifo, Fifo!Spec

-----------------------------------------------------------------------------
(***************************************************************************)
(* The rate limiter.                                                       *)
(***************************************************************************)
\* What the window and the times of admission have to do with each other: the
\* last count admissions fell into the window, those before did not fall
\* after its start, those a whole limit earlier not into the window before it.
Windowed ==
    /\ opts.rateLimit = 0 => admitted = <<>>
    /\ rate.count <= Len(admitted) /\ rate.count <= opts.rateLimit
    /\ rate.start <= now
    /\ \A i \in DOMAIN admitted : admitted[i] <= now
    /\ \A i, j \in DOMAIN admitted : i <= j => admitted[i] <= admitted[j]
    /\ \A i \in DOMAIN admitted : i <= Len(admitted) - rate.count => admitted[i] <= rate.start
    /\ \A i \in DOMAIN admitted :
        i <= Len(admitted) - rate.count - opts.rateLimit => admitted[i] + Second <= rate.start
    /\ \A i, j \in DOMAIN admitted : j = i + 2 * opts.rateLimit => admitted[i] + Second <= admitted[j]

\* A window that is opened anew is one with no admissions, and no others than
\* those before it.
LEMMA WindowOpens ==
    ASSUME TypeOK, Windowed
    PROVE  LET n == Len(admitted)
               w == CurrentWindow
               L == opts.rateLimit
           IN  /\ w \in RateState
               /\ w.count <= n /\ w.count <= L /\ w.start <= now
               /\ \A i \in 1 .. n : i <= n - w.count => admitted[i] <= w.start
               /\ \A i \in 1 .. n : i <= n - w.count - L => admitted[i] + Second <= w.start
  <1> DEFINE n == Len(admitted)
             L == opts.rateLimit
  <1>1. /\ n \in Nat /\ DOMAIN admitted = 1 .. n /\ L \in Nat /\ now \in Nat /\ rate.start \in Nat /\ rate.count \in Nat
        /\ Second \in Nat \ {0} /\ \A i \in 1 .. n : admitted[i] \in Nat
    BY OptionsType, ConstantsAssumption DEF TypeOK, RateState
  <1>2. CurrentWindow \in RateState
    BY WindowType
  <1>3. CASE CurrentWindow = rate
    BY <1>1, <1>2, <1>3 DEF Windowed
  <1>4. CASE CurrentWindow = [start |-> now, count |-> 0] /\ now >= rate.start + Second
    <2>1. \A i \in 1 .. n : i <= n - L => admitted[i] + Second <= now
      <3> SUFFICES ASSUME NEW i \in 1 .. n, i <= n - L PROVE admitted[i] + Second <= now
        OBVIOUS
      <3>1. i <= n - rate.count
        BY <1>1 DEF Windowed
      <3>2. admitted[i] <= rate.start
        BY <3>1 DEF Windowed
      <3>. QED
        BY <1>1, <1>4, <3>2
    <2>2. \A i \in 1 .. n : admitted[i] <= now
      BY <1>1 DEF Windowed
    <2>3. CurrentWindow.start = now /\ CurrentWindow.count = 0
      BY <1>4
    <2>4. n - 0 = n /\ n - 0 - L = n - L
      BY <1>1
    <2>. QED
      BY <1>1, <1>2, <2>1, <2>2, <2>3, <2>4
  <1>. QED
    BY <1>3, <1>4 DEF CurrentWindow, Window

\* The limiter keeps its windows apart, whatever push does next.
LEMMA PassWindowed ==
    ASSUME TypeOK, Windowed, PassRateLimit, UNCHANGED <<opts, now>>
    PROVE  Windowed'
  <1> DEFINE n == Len(admitted)
             L == opts.rateLimit
             w == CurrentWindow
  <1>1. /\ n \in Nat /\ DOMAIN admitted = 1 .. n /\ L \in Nat /\ now \in Nat /\ w.start \in Nat /\ w.count \in Nat
        /\ Second \in Nat \ {0} /\ \A i \in 1 .. n : admitted[i] \in Nat
        /\ admitted \in Seq(Nat)
    BY OptionsType, WindowType, ConstantsAssumption DEF TypeOK, RateState
  <1>2. CASE L = 0
    <2>1. UNCHANGED <<rate, admitted>>
      BY <1>2 DEF PassRateLimit, CurrentWindow, Admit
    <2>. QED
      BY <2>1 DEF Windowed
  <1>3. CASE L # 0
    <2>0. L > 0 /\ w \in RateState
      BY <1>1, <1>3, WindowType
    <2>20. /\ admitted' = Append(admitted, now) /\ ~OverRate(w, L)
           /\ rate' = Admit(w, L)
      BY <2>0 DEF PassRateLimit
    <2>21. w.count < L
      BY <1>1, <2>0, <2>20 DEF OverRate
    <2>22. rate' = [start |-> w.start, count |-> w.count + 1]
      BY <2>0, <2>20 DEF Admit, RateState
    <2>1. /\ admitted' = Append(admitted, now) /\ w.count < L
          /\ rate' = [start |-> w.start, count |-> w.count + 1]
      BY <2>20, <2>21, <2>22
    <2>2. /\ Len(admitted') = n + 1 /\ admitted'[n + 1] = now
          /\ \A i \in 1 .. n : admitted'[i] = admitted[i]
          /\ rate'.start = w.start /\ rate'.count = w.count + 1
      BY <1>1, <2>1
    <2>3. /\ w.count <= n /\ w.start <= now
          /\ \A i \in 1 .. n : i <= n - w.count => admitted[i] <= w.start
          /\ \A i \in 1 .. n : i <= n - w.count - L => admitted[i] + Second <= w.start
      BY WindowOpens
    <2>4. /\ \A i \in 1 .. n : admitted[i] <= now
          /\ \A i, j \in 1 .. n : i <= j => admitted[i] <= admitted[j]
          /\ \A i, j \in 1 .. n : j = i + 2 * L => admitted[i] + Second <= admitted[j]
      BY <1>1 DEF Windowed
    <2> HIDE DEF n, L, w
    <2>5. rate'.count <= n + 1 /\ rate'.count <= L /\ rate'.start <= now
      BY <1>1, <2>1, <2>2, <2>3
    <2>6. \A i \in 1 .. n + 1 : i \in 1 .. n \/ i = n + 1
      BY <1>1
    <2>7. \A i \in 1 .. n + 1 : admitted'[i] <= now
      BY <1>1, <2>2, <2>4, <2>6
    <2>8. ASSUME NEW i \in 1 .. n + 1, NEW j \in 1 .. n + 1, i <= j
          PROVE  admitted'[i] <= admitted'[j]
      <3>1. CASE j = n + 1
        BY <2>2, <2>7, <3>1
      <3>2. CASE j \in 1 .. n
        BY <1>1, <2>2, <2>4, <2>8, <3>2
      <3>. QED
        BY <2>6, <3>1, <3>2
    <2>9. ASSUME NEW i \in 1 .. n + 1, i <= n + 1 - rate'.count
          PROVE  admitted'[i] <= w.start
      <3>1. i \in 1 .. n /\ i <= n - w.count
        BY <1>1, <2>2, <2>9
      <3>. QED
        BY <2>2, <2>3, <3>1
    <2>10. ASSUME NEW i \in 1 .. n + 1, i <= n + 1 - rate'.count - L
           PROVE  admitted'[i] + Second <= w.start
      <3>1. i \in 1 .. n /\ i <= n - w.count - L
        BY <1>1, <2>2, <2>10
      <3>. QED
        BY <2>2, <2>3, <3>1
    <2>11. ASSUME NEW i \in 1 .. n + 1, NEW j \in 1 .. n + 1, j = i + 2 * L
           PROVE  admitted'[i] + Second <= admitted'[j]
      <3>1. CASE j = n + 1
        <4>3. n \in Nat /\ L \in Nat \ {0} /\ w.count \in Nat /\ w.count < L
          BY <1>1, <1>3, <2>1 DEF L
        <4>1. i \in 1 .. n /\ i <= n - w.count - L
          BY <2>11, <3>1, <4>3
        <4>2. admitted[i] + Second <= w.start /\ admitted'[i] = admitted[i]
          BY <2>2, <2>3, <4>1
        <4>. QED
          BY <1>1, <2>2, <2>3, <3>1, <4>1, <4>2
      <3>2. CASE j \in 1 .. n
        BY <1>1, <2>2, <2>4, <2>11, <3>2
      <3>. QED
        BY <2>6, <3>1, <3>2
    <2>12. opts'.rateLimit = L /\ now' = now /\ L # 0
      BY <1>3 DEF L
    <2>13. /\ Len(admitted') = n + 1 /\ DOMAIN admitted' = 1 .. n + 1
           /\ opts'.rateLimit = L /\ rate'.start = w.start
           /\ opts'.rateLimit = 0 => admitted' = <<>>
           /\ rate'.count <= n + 1 /\ rate'.count <= L /\ rate'.start <= now'
           /\ \A i \in 1 .. n + 1 : admitted'[i] <= now'
      BY <1>1, <2>1, <2>2, <2>5, <2>7, <2>12
    <2>14. \A i, j \in DOMAIN admitted' : i <= j => admitted'[i] <= admitted'[j]
      BY <2>8, <2>13
    <2>23. /\ \A i \in 1 .. n + 1 : i <= n + 1 - rate'.count => admitted'[i] <= rate'.start
           /\ \A i \in 1 .. n + 1 : i <= n + 1 - rate'.count - L => admitted'[i] + Second <= rate'.start
      BY <2>9, <2>10, <2>13
    <2>24. /\ Len(admitted') = n + 1 /\ DOMAIN admitted' = 1 .. n + 1 /\ opts'.rateLimit = L
           /\ n \in Nat /\ L \in Nat /\ rate'.count \in Nat
      BY <1>1, <2>2, <2>13
    <2>15. \A i \in DOMAIN admitted' : i <= Len(admitted') - rate'.count => admitted'[i] <= rate'.start
      <3> SUFFICES ASSUME NEW i \in DOMAIN admitted', i <= Len(admitted') - rate'.count
                   PROVE  admitted'[i] <= rate'.start
        OBVIOUS
      <3>1. i \in 1 .. n + 1 /\ i <= n + 1 - rate'.count
        BY <2>24
      <3>. QED
        BY <2>23, <3>1
    <2>16. \A i \in DOMAIN admitted' :
                i <= Len(admitted') - rate'.count - opts'.rateLimit => admitted'[i] + Second <= rate'.start
      <3> SUFFICES ASSUME NEW i \in DOMAIN admitted', i <= Len(admitted') - rate'.count - opts'.rateLimit
                   PROVE  admitted'[i] + Second <= rate'.start
        OBVIOUS
      <3>1. i \in 1 .. n + 1 /\ i <= n + 1 - rate'.count - L
        BY <2>24
      <3>. QED
        BY <2>23, <3>1
    <2>17. \A i, j \in DOMAIN admitted' :
                j = i + 2 * opts'.rateLimit => admitted'[i] + Second <= admitted'[j]
      BY <2>11, <2>13
    <2>18. rate'.count <= Len(admitted') /\ rate'.count <= opts'.rateLimit /\ rate'.start <= now'
      BY <2>13
    <2>19. \A i \in DOMAIN admitted' : admitted'[i] <= now'
      BY <2>13
    <2>. QED
      BY <2>13, <2>14, <2>15, <2>16, <2>17, <2>18, <2>19, Zenon DEF Windowed
  <1>. QED
    BY <1>2, <1>3

\* Each step keeps the windows apart.
LEMMA WindowedSteps ==
    ASSUME TypeOK, Windowed, [Next]_vars
    PROVE  Windowed'
  <1>1. CASE Push
    <2>1. UNCHANGED <<opts, now>>
      BY <1>1 DEF Push
    <2>2. CASE PushOverRate
      <3>1. rate' = CurrentWindow /\ admitted' = admitted /\ opts.rateLimit # 0
        BY <2>2, OptionsType DEF PushOverRate, OverRate
      <3>. QED
        <4>1. DOMAIN admitted = 1 .. Len(admitted)
          BY DEF TypeOK
        <4>2. /\ rate'.count <= Len(admitted) /\ rate'.count <= opts.rateLimit /\ rate'.start <= now
              /\ \A i \in DOMAIN admitted : i <= Len(admitted) - rate'.count => admitted[i] <= rate'.start
              /\ \A i \in DOMAIN admitted : i <= Len(admitted) - rate'.count - opts.rateLimit
                    => admitted[i] + Second <= rate'.start
          BY <3>1, <4>1, WindowOpens
        <4>. QED
          BY <2>1, <3>1, <4>2 DEF Windowed
    <2>3. CASE PassRateLimit
      BY <2>1, <2>3, PassWindowed
    <2>. QED
      BY <1>1, <2>2, <2>3 DEF Push, PushRefused, PushQueued
  <1>2. CASE Tick
    <2>1. UNCHANGED <<opts, rate, admitted>> /\ now' = now + 1 /\ now \in Nat
      BY <1>2 DEF Tick, TypeOK
    <2>2. rate.start \in Nat /\ \A i \in DOMAIN admitted : admitted[i] \in Nat
      BY DEF TypeOK, RateState
    <2>3. rate.start <= now' /\ \A i \in DOMAIN admitted : admitted[i] <= now'
      BY <2>1, <2>2 DEF Windowed
    <2>. QED
      BY <2>1, <2>3 DEF Windowed
  <1>3. CASE UNCHANGED <<opts, rate, now, admitted>>
    BY <1>3 DEF Windowed
  <1>4. Push \/ Tick \/ UNCHANGED <<opts, rate, now, admitted>>
    BY DEF Next, vars, clockVars, Recv, StartRecv, Pop, CheckClosed, Drain, Park, Resume, Cancel,
           Close, CloseStore, CloseNotify
  <1>. QED
    BY <1>1, <1>2, <1>3, <1>4

\* The admissions within a second are at most twice the limit: from the first
\* of them on, the one that comes twice the limit later is a second away.
LEMMA FewInASecond ==
    ASSUME TypeOK, Windowed, NEW t \in Nat
    PROVE  Cardinality({i \in 1 .. Len(admitted) : admitted[i] \in t .. t + Second - 1})
                <= 2 * opts.rateLimit
  <1> DEFINE S == {i \in 1 .. Len(admitted) : admitted[i] \in t .. t + Second - 1}
             L == opts.rateLimit
  <1>1. /\ L \in Nat /\ Len(admitted) \in Nat /\ DOMAIN admitted = 1 .. Len(admitted)
        /\ Second \in Nat \ {0} /\ \A i \in 1 .. Len(admitted) : admitted[i] \in Nat
    BY OptionsType, ConstantsAssumption DEF TypeOK
  <1>4. ASSUME NEW i \in S
        PROVE  i \in 1 .. Len(admitted) /\ admitted[i] >= t /\ admitted[i] <= t + Second - 1
    BY <1>1
  <1> SUFFICES Cardinality(S) <= 2 * L
    OBVIOUS
  <1> HIDE DEF S
  <1>2. CASE S = {}
    <2>1. Cardinality(S) = 0
      BY <1>2, FS_EmptySet
    <2>. QED
      BY <1>1, <2>1
  <1>3. CASE S # {}
    <2> DEFINE Less == {p \in Nat \X Nat : p[1] < p[2]}
    <2>1. S \subseteq Nat
      BY <1>4
    <2>2. IsWellFoundedOn(Less, Nat)
      BY NatLessThanWellFounded DEF OpToRel
    <2>3. \A a, b \in Nat : a < b => <<a, b>> \in Less
      OBVIOUS
    <2> HIDE DEF Less
    <2>4. PICK m \in S : \A i \in S : <<i, m>> \notin Less
      BY <1>3, <2>1, <2>2, WFMin
    <2>5. \A i \in S : m <= i
      <3> SUFFICES ASSUME NEW i \in S PROVE ~(i < m)
        BY <2>1
      <3>1. i \in Nat /\ m \in Nat
        BY <2>1
      <3>. QED
        BY <2>3, <2>4, <3>1
    <2>6. L # 0
      BY <1>1, <1>4 DEF Windowed
    <2> DEFINE hi == m + 2 * L - 1
    <2>7. ASSUME NEW i \in S PROVE i \in m .. hi
      <3>1. CASE i >= m + 2 * L
        <4> DEFINE j == m + 2 * L
        <4>1. j \in DOMAIN admitted /\ m \in DOMAIN admitted /\ i \in DOMAIN admitted /\ j <= i
          BY <1>1, <1>4, <3>1
        <4>2. admitted[m] + Second <= admitted[j] /\ admitted[j] <= admitted[i]
          BY <4>1 DEF Windowed
        <4> HIDE DEF j
        <4>. QED
          BY <1>1, <1>4, <4>1, <4>2
      <3>. QED
        BY <1>1, <1>4, <2>5, <3>1
    <2>8. m \in Int /\ hi \in Int /\ m <= hi /\ hi - m + 1 = 2 * L
      BY <1>1, <1>4, <2>6
    <2> HIDE DEF hi
    <2>9. IsFiniteSet(m .. hi) /\ Cardinality(m .. hi) = 2 * L
      BY <2>8, FS_Interval
    <2>10. S \in SUBSET (m .. hi)
      BY <2>7
    <2>11. Cardinality(S) <= Cardinality(m .. hi)
      BY <2>9, <2>10, FS_Subset, Zenon
    <2>. QED
      BY <2>9, <2>11
  <1>. QED
    BY <1>2, <1>3

\* No second, wherever it begins, sees more than twice the limit admitted: for
\* every limit, every length of the second and any number of pushes.
THEOREM BurstLimited == Spec => []RateBurst
  <1>1. Init => Windowed
    <2> SUFFICES ASSUME Init PROVE Windowed
      OBVIOUS
    <2>1. Len(admitted) = 0 /\ 1 .. Len(admitted) = {} /\ opts.rateLimit \in Nat
      BY ConstantsAssumption DEF Init, SubscriberOptions
    <2>2. rate.count = 0 /\ rate.start = 0 /\ now = 0 /\ admitted = <<>>
      BY DEF Init
    <2>. QED
      BY <2>1, <2>2 DEF Windowed
  <1>2. TypeOK /\ Windowed /\ [Next]_vars => Windowed'
    BY WindowedSteps
  <1>3. TypeOK /\ Windowed => RateBurst
    <2> SUFFICES ASSUME TypeOK, Windowed, NEW t \in 0 .. now
                 PROVE  Cardinality({i \in 1 .. Len(admitted) : admitted[i] \in t .. t + Second - 1})
                            <= 2 * opts.rateLimit
      BY DEF RateBurst
    <2>1. t \in Nat
      BY DEF TypeOK
    <2>. QED
      BY <2>1, FewInASecond
  <1>. QED
    BY <1>1, <1>2, <1>3, TypeCorrect, PTL DEF Spec
=============================================================================
