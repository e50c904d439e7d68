---------------------------- MODULE MCVirtualBus ----------------------------
(***************************************************************************)
(* A bus with two callers and two channels for TLC.                        *)
(***************************************************************************)
EXTENDS VirtualBus, TLC

CONSTANTS s1, s2

Options(c, p, r) == [capacity |-> c, policy |-> p, rateLimit |-> r]

MCSubOptions ==
    (s1 :> Options(1, "DropOldest", 0)) @@ (s2 :> Options(1, "DropNewest", 1))

MCSubFilters == (s1 :> {}) @@ (s2 :> {[id |-> 60, all |-> FALSE]})

Pub == Publish(60, 2, "Enhanced")
Empty == Publish(1, 0, "Enhanced")
TooLong == Publish(1, 9, "Enhanced")

MCCalls ==
    {Pub, Empty, TooLong, Withdraw(60), SendHeader(60), SendHeader(1),
     SetSchedule({1, 60}), SetSchedule({64}), Subscribe(s1), Subscribe(s2), Close}

Once(S) == [c \in MCCalls |-> IF c \in S THEN 1 ELSE 0]

\* Two exchanges into two channels while the bus is closed; every other call
\* and its ways to fail; a table that changes under the exchanges.
MCBudgets ==
    {[Once({Pub, Subscribe(s1), Subscribe(s2), Close}) EXCEPT ![SendHeader(60)] = 2],
     Once({Empty, TooLong, SendHeader(1), SetSchedule({1, 60}), SetSchedule({64}),
           Subscribe(s1)}),
     [Once({Pub, Withdraw(60), SendHeader(60), Subscribe(s1)}) EXCEPT ![Close] = 2]}

\* A close call beside two subscribe calls, exchanges under way.
MCSubscribeClose == {Once({Pub, SendHeader(60), Subscribe(s1), Subscribe(s2), Close})}
=============================================================================
