------------------------------ MODULE SubInner ------------------------------
(***************************************************************************)
(* The data half of one subscriber channel, `SubInner` of src/bus.rs: what  *)
(* `push` does to the bounded queue under each back-pressure policy, and   *)
(* what the rate limiter does to its one-second window.  Everything here   *)
(* is a pure operator on values, so that the modules that own subscriber   *)
(* channels (FrameReceiver, VirtualBus, ...) share one reading of `push`.  *)
(***************************************************************************)
EXTENDS Naturals, Sequences

\* BackPressurePolicy of relay.rs.
BackPressure == {"DropNewest", "DropOldest", "Block"}

\* The options as SubInner keeps them: the capacity is chan_depth(64), which
\* is never 0; a rate limit of 0 means unlimited.
SubscriberOptions ==
    [capacity : Nat \ {0}, policy : BackPressure, rateLimit : Nat]

\* Faulty variant: the length test off by one.
FullLate(q, capacity) == Len(q) > capacity

Full(q, capacity) == Len(q) >= capacity

\* Faulty variant: Block refuses like DropNewest.
HasRoomUnlessFull(q, capacity, policy) == policy # "DropOldest" => ~Full(q, capacity)

\* `push` refuses a frame for want of space only under DropNewest: DropOldest
\* makes room, and Block appends whatever the length of the queue is.
HasRoom(q, capacity, policy) == policy = "DropNewest" => ~Full(q, capacity)

\* Faulty variant: DropOldest makes room at the wrong end (pop_back).
EnqueueOverNewest(q, f, capacity, policy) ==
    IF policy = "DropOldest" /\ Full(q, capacity)
    THEN Append(SubSeq(q, 1, Len(q) - 1), f)
    ELSE Append(q, f)

\* The queue after a frame was let in.
Enqueue(q, f, capacity, policy) ==
    IF policy = "DropOldest" /\ Full(q, capacity)
    THEN Append(Tail(q), f)
    ELSE Append(q, f)

-----------------------------------------------------------------------------
(***************************************************************************)
(* The rate limiter: a window opens at `start` and counts admissions; the  *)
(* first push at least `second` ticks later opens the next one.            *)
(***************************************************************************)
RateState == [start : Nat, count : Nat]

Window(rs, now, second) ==
    IF now >= rs.start + second THEN [start |-> now, count |-> 0] ELSE rs

\* Faulty variant: the comparison with the limit off by one.
OverRateLate(rs, limit) == limit > 0 /\ rs.count > limit

OverRate(rs, limit) == limit > 0 /\ rs.count >= limit

Admit(rs, limit) == IF limit > 0 THEN [rs EXCEPT !.count = @ + 1] ELSE rs
=============================================================================
