---------------------------- MODULE Adapter_proofs ----------------------------
(***************************************************************************)
(* Theorems about the adapter's forwarding task, for every set of options  *)
(* and every bound.                                                        *)
(***************************************************************************)
EXTENDS Adapter, FrameReceiver_proofs

(***************************************************************************)
(* The task is one reader of a channel like any other.                     *)
(***************************************************************************)
\* Every step of the adapter is a step of the channel, or leaves it alone.
LEMMA ChannelSteps == 
    ASSUME [ANext]_avars
    PROVE  [Next]_vars
  <1>1. CASE Receive
    BY <1>1, AdapterAssumption DEF Receive, Next
  <1>2. CASE Send \/ SendFails \/ Read \/ ReadNone \/ Drop
    BY <1>2 DEF Send, SendFails, Read, ReadNone, Drop
  <1>3. CASE Bus
    BY <1>3 DEF Bus, Next
  <1>4. CASE UNCHANGED avars
    BY <1>4 DEF avars
  <1>. QED
    BY <1>1, <1>2, <1>3, <1>4 DEF ANext, Forward

\* The channel under the adapter is a FrameReceiver, so that what is proved of
\* every channel holds of this one.
THEOREM IsAChannel == ASpec => Spec
  <1>1. AInit => Init
    BY DEF AInit
  <1>2. [ANext]_avars => [Next]_vars
    BY ChannelSteps
  <1>. QED
    BY <1>1, <1>2, PTL DEF ASpec, Spec

-----------------------------------------------------------------------------
(***************************************************************************)
(* Nothing is lost inside.                                                 *)
(***************************************************************************)
Msg == [seq : Nat, n : Nat]

ATypeOK ==
    /\ task \in {"recv", "send", "ended"}
    /\ hand \in Seq(Msg)
    /\ chan \in Seq(Msg)
    /\ read \in Seq(Msg)
    /\ seq = Len(got)
    /\ leftAt \in Nat
    /\ task # "send" => hand = <<>>

\* A recv returns the head of the queue or nothing.
LEMMA RecvGot ==
    ASSUME TypeOK, NEW c \in Consumers, StartRecv(c) \/ Recv(c), got' # got
    PROVE  queue # <<>> /\ Head(queue) \in Nat /\ got' = Append(got, Head(queue))
  <1>1. TakeFrame(c)
    BY DEF StartRecv, Recv, Pop, CheckClosed, Drain, Park, Resume
  <1>. QED
    BY <1>1 DEF TakeFrame, TypeOK

\* The message made of the frame recv returned.
LEMMA MessageMade ==
    ASSUME TypeOK, ATypeOK, Receive, got' # got
    PROVE  /\ Head(queue) \in Nat
           /\ got' = Append(got, Head(queue))
           /\ hand' = <<[seq |-> Len(got), n |-> Head(queue)]>>
           /\ hand' \in Seq(Msg)
  <1>1. queue # <<>> /\ Head(queue) \in Nat /\ got' = Append(got, Head(queue))
    BY RecvGot, AdapterAssumption DEF Receive
  <1>2. got'[Len(got')] = Head(queue)
    BY <1>1 DEF TypeOK
  <1>3. hand' = <<[seq |-> Len(got), n |-> Head(queue)]>>
    BY <1>2 DEF Receive, ToMessage, ATypeOK
  <1>4. Len(got) \in Nat
    BY DEF TypeOK
  <1>. QED
    BY <1>1, <1>3, <1>4 DEF Msg

\* The bus pushes, closes and lets time pass without touching what was taken.
LEMMA BusTakesNothing ==
    ASSUME Bus
    PROVE  UNCHANGED <<adapterVars, got>>
  BY DEF Bus, Push, Close, CloseStore, CloseNotify, Tick

\* The counter is the number of frames taken, and the task holds a message
\* only while it sends.
THEOREM ATypeCorrect == ASpec => []ATypeOK
  <1>1. AInit => ATypeOK
    BY DEF AInit, Init, ATypeOK
  <1>2. TypeOK /\ ATypeOK /\ [ANext]_avars => ATypeOK'
    <2> SUFFICES ASSUME TypeOK, ATypeOK, [ANext]_avars PROVE ATypeOK'
      OBVIOUS
    <2>1. CASE Receive /\ got' # got
      <3>1. Len(got') = Len(got) + 1
        BY <2>1, MessageMade DEF TypeOK
      <3>. QED
        BY <2>1, <3>1, MessageMade DEF ATypeOK, Receive, readerVars
    <2>2. CASE Receive /\ got' = got
      BY <2>2 DEF ATypeOK, Receive, readerVars
    <2>3. CASE Send
      <3>1. chan' \in Seq(Msg)
        BY <2>3 DEF Send, SendWaits, ATypeOK
      <3>. QED
        BY <2>3, <3>1 DEF Send, SendWaits, ATypeOK, vars, readerVars
    <2>4. CASE SendFails
      BY <2>4 DEF SendFails, AfterFailure, ATypeOK, vars, readerVars
    <2>5. CASE Read
      <3>1. chan' \in Seq(Msg) /\ read' \in Seq(Msg)
        BY <2>5 DEF Read, ATypeOK
      <3>. QED
        BY <2>5, <3>1 DEF Read, ATypeOK, vars, taskVars
    <2>6. CASE ReadNone
      BY <2>6 DEF ReadNone, ATypeOK, vars, taskVars
    <2>7. CASE Drop
      BY <2>7 DEF Drop, ATypeOK, TypeOK, vars, taskVars
    <2>8. CASE Bus
      BY <2>8, BusTakesNothing DEF ATypeOK, adapterVars, taskVars, readerVars
    <2>9. CASE UNCHANGED avars
      BY <2>9 DEF ATypeOK, avars, vars, adapterVars, taskVars, readerVars
    <2>. QED
      BY <2>1, <2>2, <2>3, <2>4, <2>5, <2>6, <2>7, <2>8, <2>9 DEF ANext, Forward
  <1>. QED
    BY <1>1, <1>2, IsAChannel, TypeCorrect, PTL DEF ASpec

\* A message moves from the head of one sequence to the end of another.
LEMMA MoveHead ==
    ASSUME NEW S, NEW s \in Seq(S), NEW t \in Seq(S), t # <<>>
    PROVE  Append(s, Head(t)) \o Tail(t) = s \o t
  <1>1. Head(t) = t[1] /\ Len(t) \in Nat /\ Len(t) > 0
    OBVIOUS
  <1>2. Append(s, Head(t)) \o Tail(t) \in Seq(S) /\ s \o t \in Seq(S)
    BY <1>1
  <1>3. Len(Append(s, Head(t)) \o Tail(t)) = Len(s \o t)
    BY <1>1
  <1>4. ASSUME NEW i \in 1 .. Len(s \o t)
        PROVE  (Append(s, Head(t)) \o Tail(t))[i] = (s \o t)[i]
    BY <1>1, <1>4
  <1>. QED
    BY <1>2, <1>3, <1>4

\* One frame more is taken.
LEMMA TakenGrows ==
    ASSUME TypeOK, NEW n \in Nat, got' = Append(got, n)
    PROVE  Taken' = Append(Taken, [seq |-> Len(got), n |-> n])
  BY DEF TypeOK, Taken

\* What the adapter took from the bus and what its reader got, has waiting or
\* is about to get are the same messages in the same order, for every depth,
\* policy and interleaving.
THEOREM NothingLost == ASpec => []NothingLostInside
  <1>1. AInit => NothingLostInside
    BY DEF AInit, Init, NothingLostInside, Taken
  <1>2. TypeOK /\ ATypeOK /\ NothingLostInside /\ [ANext]_avars => NothingLostInside'
    <2> SUFFICES ASSUME TypeOK, ATypeOK, NothingLostInside, [ANext]_avars, reader' # "dropped"
                 PROVE  (read \o chan \o hand = Taken)'
      BY DEF NothingLostInside
    <2>1. CASE Receive /\ got' # got
      <3>1. hand = <<>> /\ reader # "dropped" /\ UNCHANGED <<read, chan>>
        BY <2>1 DEF Receive, ATypeOK, readerVars
      <3>2. read \o chan \o <<>> = read \o chan
        BY DEF ATypeOK
      <3>3. read \o chan = Taken
        BY <3>1, <3>2 DEF NothingLostInside
      <3>4. (read \o chan) \o <<[seq |-> Len(got), n |-> Head(queue)]>>
                = Append(read \o chan, [seq |-> Len(got), n |-> Head(queue)])
        BY DEF ATypeOK
      <3>. QED
        BY <2>1, <3>1, <3>3, <3>4, MessageMade, TakenGrows
    <2>2. CASE Receive /\ got' = got
      BY <2>2 DEF Receive, NothingLostInside, Taken, readerVars
    <2>3. CASE Send
      <3>1. (read \o (chan \o hand)) \o <<>> = (read \o chan) \o hand
        BY DEF ATypeOK
      <3>. QED
        BY <2>3, <3>1 DEF Send, SendWaits, NothingLostInside, Taken, vars, readerVars
    <2>4. CASE SendFails
      BY <2>4 DEF SendFails, readerVars
    <2>5. CASE Read
      <3>1. Append(read, Head(chan)) \o Tail(chan) = read \o chan
        BY <2>5, MoveHead DEF Read, ATypeOK
      <3>. QED
        BY <2>5, <3>1 DEF Read, NothingLostInside, Taken, vars, taskVars
    <2>6. CASE ReadNone
      BY <2>6 DEF ReadNone, NothingLostInside, Taken, vars, taskVars
    <2>7. CASE Drop
      BY <2>7 DEF Drop
    <2>8. CASE Bus
      BY <2>8, BusTakesNothing DEF NothingLostInside, Taken, adapterVars, taskVars, readerVars
    <2>9. CASE UNCHANGED avars
      BY <2>9 DEF NothingLostInside, Taken, avars, vars, adapterVars, taskVars, readerVars
    <2>. QED
      BY <2>1, <2>2, <2>3, <2>4, <2>5, <2>6, <2>7, <2>8, <2>9 DEF ANext, Forward
  <1>. QED
    BY <1>1, <1>2, IsAChannel, TypeCorrect, ATypeCorrect, PTL DEF ASpec

-----------------------------------------------------------------------------
(***************************************************************************)
(* A reader that leaves.                                                   *)
(***************************************************************************)
\* Once the reader has left, the task takes at most the frame it was waiting
\* for, and its send ends it.
Leaving ==
    reader = "dropped" =>
        \/ task = "recv" /\ Len(got) = leftAt
        \/ task \in {"send", "ended"} /\ Len(got) <= leftAt + 1

\* Each step keeps it so.
LEMMA LeavingSteps ==
    ASSUME TypeOK, ATypeOK, Leaving, [ANext]_avars
    PROVE  Leaving'
  <1>0. Len(got) \in Nat /\ leftAt \in Nat
    BY DEF TypeOK, ATypeOK
  <1>1. CASE Receive /\ got' # got
    <2>1. Len(got') = Len(got) + 1
      BY <1>1, MessageMade DEF TypeOK
    <2>. QED
      BY <1>0, <1>1, <2>1 DEF Leaving, Receive, readerVars
  <1>2. CASE Receive /\ got' = got
    BY <1>0, <1>2 DEF Leaving, Receive, readerVars
  <1>3. CASE Send \/ Read \/ ReadNone
    BY <1>3 DEF Leaving, Send, Read, ReadNone, readerVars
  <1>4. CASE SendFails
    BY <1>4 DEF Leaving, SendFails, AfterFailure, vars, readerVars
  <1>5. CASE Drop
    BY <1>0, <1>5 DEF Leaving, Drop, ATypeOK, vars, taskVars
  <1>6. CASE Bus
    BY <1>6, BusTakesNothing DEF Leaving, adapterVars, taskVars, readerVars
  <1>7. CASE UNCHANGED avars
    BY <1>7 DEF Leaving, avars, vars, adapterVars, taskVars, readerVars
  <1>. QED
    BY <1>1, <1>2, <1>3, <1>4, <1>5, <1>6, <1>7 DEF ANext, Forward

\* A reader that leaves costs the bus at most one frame, whatever the depth
\* and whatever the task was doing.
THEOREM LeavesSoon == ASpec => []OneFrameAfterLeaving
  <1>1. AInit => Leaving
    BY DEF AInit, Leaving
  <1>2. ATypeOK /\ TypeOK /\ Leaving => OneFrameAfterLeaving
    BY DEF ATypeOK, TypeOK, Leaving, OneFrameAfterLeaving
  <1>3. TypeOK /\ ATypeOK /\ Leaving /\ [ANext]_avars => Leaving'
    BY LeavingSteps
  <1>. QED
    BY <1>1, <1>2, <1>3, IsAChannel, TypeCorrect, ATypeCorrect, PTL DEF ASpec

-----------------------------------------------------------------------------
(***************************************************************************)
(* Block.                                                                  *)
(***************************************************************************)
\* An unlimited Block channel takes every frame it is offered.
LEMMA BlockAppends ==
    ASSUME TypeOK, Push, opts.policy = "Block", opts.rateLimit = 0
    PROVE  queue' = Append(queue, pushes + 1) /\ pushes' = pushes + 1 /\ got' = got
  BY DEF Push, PushOverRate, PushRefused, PushQueued, OverRate, HasRoom, Enqueue

\* Each step keeps account of every push.
LEMMA BlockSteps ==
    ASSUME TypeOK, BlockLosesNothing, [Next]_vars
    PROVE  BlockLosesNothing'
  <1> SUFFICES ASSUME opts.policy = "Block", opts.rateLimit = 0
               PROVE  (got \o queue = [i \in 1 .. pushes |-> i])'
    BY OptionsFixed DEF BlockLosesNothing
  <1>0. got \o queue = [i \in 1 .. pushes |-> i]
    BY DEF BlockLosesNothing
  <1>1. CASE Push
    <2>1. got \o Append(queue, pushes + 1) = Append(got \o queue, pushes + 1)
      BY DEF TypeOK
    <2>2. Append([i \in 1 .. pushes |-> i], pushes + 1) = [i \in 1 .. pushes + 1 |-> i]
      BY DEF TypeOK
    <2>. QED
      BY <1>0, <1>1, <2>1, <2>2, BlockAppends
  <1>2. ASSUME NEW c \in Consumers, TakeFrame(c), UNCHANGED pushes
        PROVE  (got \o queue = [i \in 1 .. pushes |-> i])'
    <2>1. Append(got, Head(queue)) \o Tail(queue) = got \o queue
      BY <1>2, MoveHead DEF TakeFrame, TypeOK
    <2>. QED
      BY <1>0, <1>2, <2>1 DEF TakeFrame
  <1>3. CASE UNCHANGED <<queue, got, pushes>>
    BY <1>0, <1>3
  <1>4. \/ Push
        \/ \E c \in Consumers : TakeFrame(c) /\ UNCHANGED pushes
        \/ UNCHANGED <<queue, got, pushes>>
    BY ZenonT(60) DEF Next, Recv, Close, Pop, Drain, CheckClosed, Park, Resume, StartRecv,
         Cancel, CloseStore, CloseNotify, Tick, vars
  <1>. QED
    BY <1>1, <1>2, <1>3, <1>4

\* Under Block and without a rate limit every frame pushed is read or queued,
\* in order, however slow the reader.
THEOREM BlockComplete == ASpec => []BlockLosesNothing
  <1>1. AInit => BlockLosesNothing
    BY DEF AInit, Init, BlockLosesNothing
  <1>2. TypeOK /\ BlockLosesNothing /\ [Next]_vars => BlockLosesNothing'
    BY BlockSteps
  <1>3. [ANext]_avars => [Next]_vars
    BY ChannelSteps
  <1>. QED
    BY <1>1, <1>2, <1>3, IsAChannel, TypeCorrect, PTL DEF ASpec

-----------------------------------------------------------------------------
(***************************************************************************)
(* From the bus to the reader.                                             *)
(***************************************************************************)
\* What was taken is in order, and ahead of all that is queued.
InLine ==
    /\ Increasing(got)
    /\ AllWithin(got, 0, pushes)
    /\ \A i \in 1 .. Len(got) : \A n \in QueuedFrames : got[i] < n

\* A frame taken from the queue is the next in line.
LEMMA InLineTake ==
    ASSUME TypeOK, Ordered, InLine, NEW c \in Consumers, TakeFrame(c), UNCHANGED pushes
    PROVE  InLine'
  <1>1. /\ queue \in Seq(Nat) /\ queue # <<>> /\ got \in Seq(Nat) /\ pushes \in Nat
        /\ got' = Append(got, Head(queue)) /\ queue' = Tail(queue)
    BY DEF TypeOK, TakeFrame
  <1>2. /\ Head(queue) \in Range(queue)
        /\ \A n \in Range(queue) : Head(queue) <= n
        /\ Range(Tail(queue)) = Range(queue) \ {Head(queue)}
    BY <1>1, TailKeeps DEF Ordered
  <1>3. PICK h \in Nat : h = Head(queue) /\ 0 < h /\ h <= pushes
    <2>1. Head(queue) = queue[1] /\ 1 \in 1 .. Len(queue) /\ queue[1] \in Nat
      BY <1>1
    <2>. QED
      BY <2>1 DEF Ordered, AllWithin
  <1>4. PICK k \in Nat : k = Len(got)
    BY <1>1
  <1>5. /\ got' \in Seq(Nat) /\ Len(got') = k + 1 /\ got'[k + 1] = h
        /\ \A i \in 1 .. k : got'[i] = got[i] /\ got[i] \in Nat /\ got[i] < h
    <2>1. \A i \in 1 .. k : got[i] < h
      BY <1>2, <1>3, <1>4 DEF InLine, QueuedFrames
    <2>. QED
      BY <1>1, <1>3, <1>4, <2>1
  <1>6. Increasing(got')
    <2> SUFFICES ASSUME NEW i \in 1 .. k + 1, NEW j \in 1 .. k + 1, i < j
                 PROVE  got'[i] < got'[j]
      BY <1>5 DEF Increasing
    <2>1. CASE j = k + 1
      BY <1>5, <2>1
    <2>2. CASE j \in 1 .. k
      <3>1. i \in 1 .. k /\ got[i] < got[j]
        BY <1>4, <2>2 DEF InLine, Increasing
      <3>. QED
        BY <1>5, <2>2, <3>1
    <2>. QED
      BY <2>1, <2>2
  <1>7. AllWithin(got', 0, pushes')
    <2> SUFFICES ASSUME NEW i \in 1 .. k + 1
                 PROVE  0 < got'[i] /\ got'[i] <= pushes
      BY <1>5 DEF AllWithin
    <2>1. CASE i = k + 1
      BY <1>3, <1>5, <2>1
    <2>2. CASE i \in 1 .. k
      <3>1. 0 < got[i] /\ got[i] <= pushes
        BY <1>4, <2>2 DEF InLine, AllWithin
      <3>. QED
        BY <1>5, <2>2, <3>1
    <2>. QED
      BY <2>1, <2>2
  <1>8. ASSUME NEW i \in 1 .. k + 1, NEW n \in Range(queue')
        PROVE  got'[i] < n
    <2>1. n \in Range(queue) /\ n # h /\ h <= n /\ n \in Nat
      <3>1. Range(queue) \subseteq Nat
        BY <1>1 DEF Range
      <3>. QED
        BY <1>1, <1>2, <1>3, <1>8, <3>1
    <2>2. CASE i = k + 1
      BY <1>5, <2>1, <2>2
    <2>3. CASE i \in 1 .. k
      BY <1>4, <1>5, <2>1, <2>3 DEF InLine, QueuedFrames
    <2>. QED
      BY <2>2, <2>3
  <1>. QED
    BY <1>5, <1>6, <1>7, <1>8 DEF InLine, QueuedFrames

\* A push comes last.
LEMMA InLinePush ==
    ASSUME TypeOK, Ordered, InLine, Push
    PROVE  InLine'
  <1>1. /\ pushes \in Nat /\ pushes' = pushes + 1 /\ got' = got /\ got \in Seq(Nat)
        /\ QueuedFrames' \subseteq QueuedFrames \cup {pushes + 1}
    BY PushSends DEF Fifo!Send, Fifo!Keep, Fifo!LoseNew, Fifo!LoseOldest, TypeOK
  <1>2. ASSUME NEW i \in 1 .. Len(got) PROVE 0 < got[i] /\ got[i] <= pushes /\ got[i] \in Nat
    BY <1>1 DEF InLine, AllWithin
  <1>3. ASSUME NEW i \in 1 .. Len(got), NEW n \in QueuedFrames' PROVE got[i] < n
    <2>1. CASE n \in QueuedFrames
      BY <2>1 DEF InLine
    <2>2. CASE n = pushes + 1
      BY <1>1, <1>2, <2>2
    <2>. QED
      BY <1>1, <2>1, <2>2
  <1>4. AllWithin(got', 0, pushes')
    BY <1>1, <1>2 DEF AllWithin
  <1>. QED
    BY <1>1, <1>3, <1>4 DEF InLine

\* Frames leave the channel in the order they were pushed.
THEOREM AlwaysInLine == Spec => []InLine
  <1>1. Init => InLine
    BY DEF Init, InLine, Increasing, AllWithin
  <1>2. TypeOK /\ Ordered /\ InLine /\ [Next]_vars => InLine'
    <2> SUFFICES ASSUME TypeOK, Ordered, InLine, [Next]_vars PROVE InLine'
      OBVIOUS
    <2>1. CASE Push
      BY <2>1, InLinePush
    <2>2. CASE ~Push /\ \E c \in Consumers : TakeFrame(c)
      BY <2>2, PushesSteps, InLineTake
    <2>3. CASE ~Push /\ ~(\E c \in Consumers : TakeFrame(c))
      <3>1. UNCHANGED <<queue, got>>
        BY <2>3 DEF Next, Recv, Close, Pop, Drain, CheckClosed, Park, Resume,
                    StartRecv, Cancel, CloseStore, CloseNotify, Tick, vars
      <3>. QED
        BY <2>3, <3>1, PushesSteps DEF InLine, QueuedFrames
    <2>. QED
      BY <2>1, <2>2, <2>3
  <1>. QED
    BY <1>1, <1>2, TypeCorrect, AlwaysOrdered, PTL DEF Spec

\* Two sequences put end to end.
LEMMA Joined ==
    ASSUME NEW S, NEW s \in Seq(S), NEW t \in Seq(S)
    PROVE  /\ s \o t \in Seq(S)
           /\ Len(s \o t) = Len(s) + Len(t)
           /\ \A i \in 1 .. Len(s) : (s \o t)[i] = s[i]
           /\ \A j \in 1 .. Len(t) : (s \o t)[Len(s) + j] = t[j]
  OBVIOUS

\* The messages s carry the frames g.
Carries(s, g) ==
    /\ Len(s) = Len(g)
    /\ \A i \in 1 .. Len(g) : s[i].n = g[i]

\* The messages r carry the first of the frames g, the messages c the rest.
CarryParts(r, c, g) ==
    /\ Len(r) + Len(c) = Len(g)
    /\ \A i \in 1 .. Len(r) : r[i].n = g[i]
    /\ \A m \in Range(c) : \E i \in Len(r) + 1 .. Len(g) : m.n = g[i]
    /\ \A i \in Len(r) + 1 .. Len(g) : \E m \in Range(c) : m.n = g[i]

\* What two sequences carry together, they carry one after the other.
LEMMA Parts ==
    ASSUME NEW S, NEW r \in Seq(S), NEW c \in Seq(S), NEW g \in Seq(Nat), Carries(r \o c, g)
    PROVE  CarryParts(r, c, g)
  <1>0. Len(r \o c) = Len(g) /\ \A i \in 1 .. Len(g) : (r \o c)[i].n = g[i]
    BY DEF Carries
  <1>1. /\ Len(r \o c) = Len(r) + Len(c)
        /\ \A i \in 1 .. Len(r) : (r \o c)[i] = r[i]
        /\ \A j \in 1 .. Len(c) : (r \o c)[Len(r) + j] = c[j]
    BY Joined
  <1>2. Len(r) \in Nat /\ Len(c) \in Nat /\ Len(g) \in Nat /\ Len(r) + Len(c) = Len(g)
    BY <1>0, <1>1
  <1>3. ASSUME NEW i \in 1 .. Len(r) PROVE r[i].n = g[i]
    <2>1. i \in 1 .. Len(g)
      BY <1>2
    <2>. QED
      BY <1>0, <1>1, <2>1
  <1>4. ASSUME NEW j \in 1 .. Len(c) PROVE c[j].n = g[Len(r) + j]
    <2>1. Len(r) + j \in 1 .. Len(g)
      BY <1>2
    <2>. QED
      BY <1>0, <1>1, <2>1
  <1>5. Range(c) = {c[j] : j \in 1 .. Len(c)}
    <2>1. DOMAIN c = 1 .. Len(c)
      OBVIOUS
    <2>. QED
      BY <2>1 DEF Range
  <1>6. ASSUME NEW m \in Range(c) PROVE \E i \in Len(r) + 1 .. Len(g) : m.n = g[i]
    <2>1. PICK j \in 1 .. Len(c) : m = c[j]
      BY <1>5
    <2>2. Len(r) + j \in Len(r) + 1 .. Len(g)
      BY <1>2
    <2>. QED
      BY <1>4, <2>1, <2>2
  <1>7. ASSUME NEW i \in Len(r) + 1 .. Len(g) PROVE \E m \in Range(c) : m.n = g[i]
    <2>1. i - Len(r) \in 1 .. Len(c) /\ Len(r) + (i - Len(r)) = i
      BY <1>2
    <2>2. c[i - Len(r)] \in Range(c) /\ c[i - Len(r)].n = g[i]
      BY <1>4, <1>5, <2>1
    <2>. QED
      BY <2>2
  <1>. QED
    BY <1>2, <1>3, <1>6, <1>7 DEF CarryParts

\* The frames in the mpsc channel and in the task's hand.
Inside == {m.n : m \in Range(chan \o hand)}

\* What was read is the first part of what was taken, what is inside the rest.
LEMMA ReadThenInside ==
    ASSUME TypeOK, ATypeOK, NothingLostInside, reader # "dropped"
    PROVE  /\ Len(read) + Len(chan \o hand) = Len(got)
           /\ \A i \in 1 .. Len(read) : read[i].n = got[i]
           /\ Inside = {got[i] : i \in Len(read) + 1 .. Len(got)}
  <1> DEFINE c == chan \o hand
  <1>0. read \in Seq(Msg) /\ chan \in Seq(Msg) /\ hand \in Seq(Msg) /\ got \in Seq(Nat)
    BY DEF ATypeOK, TypeOK
  <1>1. c \in Seq(Msg) /\ read \o c = (read \o chan) \o hand
    BY <1>0
  <1>2. Len(Taken) = Len(got) /\ \A i \in 1 .. Len(got) : Taken[i].n = got[i]
    BY <1>0 DEF Taken
  <1>3. Carries(read \o c, got)
    BY <1>1, <1>2 DEF NothingLostInside, Carries
  <1>4. Inside = {m.n : m \in Range(c)}
    BY DEF Inside
  <1> HIDE DEF c
  <1>5. CarryParts(read, c, got)
    BY <1>0, <1>1, <1>3, Parts
  <1>6. Inside = {got[i] : i \in Len(read) + 1 .. Len(got)}
    <2>1. ASSUME NEW x \in Inside PROVE x \in {got[i] : i \in Len(read) + 1 .. Len(got)}
      BY <1>4, <1>5 DEF CarryParts
    <2>2. ASSUME NEW i \in Len(read) + 1 .. Len(got) PROVE got[i] \in Inside
      BY <1>4, <1>5 DEF CarryParts
    <2>. QED
      BY <2>1, <2>2
  <1>. QED
    BY <1>5, <1>6 DEF c, CarryParts

\* The same after a step.
LEMMA ReadThenInsideNext ==
    ASSUME TypeOK', ATypeOK', NothingLostInside', reader' # "dropped"
    PROVE  /\ \A i \in 1 .. Len(read') : read'[i].n = got'[i]
           /\ Inside' = {got'[i] : i \in Len(read') + 1 .. Len(got')}
  <1> DEFINE c == chan' \o hand'
  <1>0. read' \in Seq(Msg) /\ chan' \in Seq(Msg) /\ hand' \in Seq(Msg) /\ got' \in Seq(Nat)
    BY DEF ATypeOK, TypeOK
  <1>1. c \in Seq(Msg) /\ read' \o c = (read' \o chan') \o hand'
    BY <1>0
  <1>2. Len(Taken') = Len(got') /\ \A i \in 1 .. Len(got') : Taken'[i].n = got'[i]
    BY <1>0 DEF Taken
  <1>3. Carries(read' \o c, got')
    BY <1>1, <1>2 DEF NothingLostInside, Carries
  <1>4. Inside' = {m.n : m \in Range(c)}
    BY DEF Inside
  <1> HIDE DEF c
  <1>5. CarryParts(read', c, got')
    BY <1>0, <1>1, <1>3, Parts
  <1>6. Inside' = {got'[i] : i \in Len(read') + 1 .. Len(got')}
    <2>1. ASSUME NEW x \in Inside' PROVE x \in {got'[i] : i \in Len(read') + 1 .. Len(got')}
      BY <1>4, <1>5 DEF CarryParts
    <2>2. ASSUME NEW i \in Len(read') + 1 .. Len(got') PROVE got'[i] \in Inside'
      BY <1>4, <1>5 DEF CarryParts
    <2>. QED
      BY <2>1, <2>2
  <1>. QED
    BY <1>5, <1>6 DEF CarryParts

\* What is inside is no longer queued.
LEMMA InsideApart ==
    ASSUME TypeOK, ATypeOK, NothingLostInside, InLine, reader # "dropped"
    PROVE  Inside \cap QueuedFrames = {}
  <1> SUFFICES ASSUME NEW n \in Inside, n \in QueuedFrames PROVE FALSE
    OBVIOUS
  <1>1. got \in Seq(Nat) /\ Len(read) \in Nat /\ Len(got) \in Nat
    BY DEF ATypeOK, TypeOK
  <1>2. PICK i \in Len(read) + 1 .. Len(got) : n = got[i]
    BY ReadThenInside
  <1>3. i \in 1 .. Len(got)
    BY <1>1
  <1>4. got[i] \in Nat /\ got[i] < n
    BY <1>1, <1>3 DEF InLine
  <1>. QED
    BY <1>2, <1>4

\* A push offers the line a frame, which costs it one at most.
LEMMA PushOffers ==
    ASSUME TypeOK, ATypeOK, NothingLostInside, Ordered, InLine, reader # "dropped",
           Push, UNCHANGED adapterVars
    PROVE  Line!Offer
  <1>1. pushes' = pushes + 1 /\ (Fifo!Keep \/ Fifo!LoseNew \/ Fifo!LoseOldest)
    BY PushSends DEF Fifo!Send
  <1>2. Inside' = Inside /\ ReadFrames' = ReadFrames
    BY DEF Inside, ReadFrames, adapterVars, taskVars, readerVars
  <1>3. UnderWay = Inside \cup QueuedFrames /\ UnderWay' = Inside \cup QueuedFrames'
    BY <1>2 DEF UnderWay, Inside
  <1>4. Line!Keep \/ Line!LoseNew \/ Line!LoseWaiting
    <2>1. CASE Fifo!Keep
      BY <1>3, <2>1 DEF Fifo!Keep, Line!Keep
    <2>2. CASE Fifo!LoseNew
      BY <1>3, <2>2 DEF Fifo!LoseNew, Line!LoseNew
    <2>3. CASE Fifo!LoseOldest
      <3>1. PICK n \in QueuedFrames : QueuedFrames' = (QueuedFrames \ {n}) \cup {pushes + 1}
        BY <2>3 DEF Fifo!LoseOldest
      <3>2. n \notin Inside
        BY <3>1, InsideApart
      <3>3. UnderWay' = (UnderWay \ {n}) \cup {pushes + 1} /\ n \in UnderWay
        BY <1>3, <3>1, <3>2
      <3>. QED
        BY <3>3 DEF Line!LoseWaiting
    <2>. QED
      BY <1>1, <2>1, <2>2, <2>3
  <1>. QED
    BY <1>1, <1>2, <1>4 DEF Line!Offer

\* One element more.
LEMMA RangeGrows ==
    ASSUME NEW S, NEW s \in Seq(S), NEW e \in S
    PROVE  Range(Append(s, e)) = Range(s) \cup {e}
  <1>1. PICK k \in Nat : k = Len(s)
    OBVIOUS
  <1>2. DOMAIN s = 1 .. k /\ DOMAIN Append(s, e) = 1 .. k + 1
    BY <1>1
  <1>3. Append(s, e)[k + 1] = e /\ \A i \in 1 .. k : Append(s, e)[i] = s[i]
    BY <1>1
  <1>4. 1 .. k + 1 = (1 .. k) \cup {k + 1}
    BY <1>1
  <1>. QED
    BY <1>2, <1>3, <1>4 DEF Range

\* A frame that changes hands on its way is under way as before.
LEMMA TakenStays ==
    ASSUME TypeOK, ATypeOK, Ordered, Receive, got' # got
    PROVE  UNCHANGED <<pushes, UnderWay, ReadFrames>>
  <1>1. TakeFrame(Forwarder)
    BY DEF Receive, StartRecv, Recv, Pop, CheckClosed, Drain, Park, Resume
  <1>2. pushes' = pushes /\ read' = read /\ chan' = chan /\ hand = <<>>
    BY DEF Receive, StartRecv, Recv, Pop, CheckClosed, Drain, Park, Resume, readerVars, ATypeOK
  <1>3. PICK m \in Msg : hand' = <<m>> /\ m.n = Head(queue)
    BY MessageMade, <1>2 DEF Msg, TypeOK
  <1>4. QueuedFrames' = QueuedFrames \ {Head(queue)} /\ Head(queue) \in QueuedFrames
    BY <1>1, TailKeeps DEF TypeOK, Ordered, TakeFrame, QueuedFrames
  <1>5. Range(chan' \o hand') = Range(chan \o hand) \cup {m}
    <2>1. chan \in Seq(Msg) /\ chan \o hand = chan
      BY <1>2 DEF ATypeOK
    <2>2. chan' \o hand' = Append(chan, m)
      BY <1>2, <1>3, <2>1
    <2>. QED
      BY <2>1, <2>2, RangeGrows
  <1>6. Inside' = Inside \cup {Head(queue)}
    BY <1>3, <1>5 DEF Inside
  <1>7. UnderWay' = UnderWay
    BY <1>4, <1>6 DEF UnderWay, Inside
  <1>. QED
    BY <1>2, <1>7 DEF ReadFrames

\* The reader gets the oldest of the frames under way.
LEMMA ReadDelivers ==
    ASSUME TypeOK, ATypeOK, NothingLostInside, NothingLostInside', ATypeOK', TypeOK',
           InLine, Read
    PROVE  Line!Deliver
  <1>1. /\ chan \in Seq(Msg) /\ read \in Seq(Msg) /\ hand \in Seq(Msg) /\ chan # <<>>
        /\ reader # "dropped" /\ reader' # "dropped" /\ UNCHANGED <<queue, pushes, got>>
        /\ read' = Append(read, Head(chan))
    BY DEF ATypeOK, Read, vars, taskVars
  <1>2. PICK r \in Nat : r = Len(read)
    BY <1>1
  <1>3. PICK k \in Nat : k = Len(got)
    BY DEF TypeOK
  <1>4. Len(read') = r + 1 /\ r + 1 <= k
    <2>1. Len(chan) > 0 /\ Len(hand) \in Nat /\ Len(chan) \in Nat
      BY <1>1
    <2>2. Len(chan \o hand) = Len(chan) + Len(hand)
      BY <1>1, Joined
    <2>3. r + Len(chan \o hand) = k
      BY <1>1, <1>2, <1>3, ReadThenInside
    <2>4. Len(read') = r + 1
      BY <1>1, <1>2
    <2>. QED
      BY <2>1, <2>2, <2>3, <2>4
  <1>5. \A i \in 1 .. k : got[i] \in Nat
    BY <1>3 DEF TypeOK
  <1>6. PICK h \in Nat : h = got[r + 1]
    BY <1>4, <1>5
  <1>7. Inside = {got[i] : i \in r + 1 .. k}
    BY <1>1, <1>2, <1>3, ReadThenInside
  <1>8. Inside' = {got[i] : i \in r + 2 .. k}
    <2>1. Inside' = {got'[i] : i \in Len(read') + 1 .. Len(got')}
      BY <1>1, ReadThenInsideNext
    <2>2. Len(read') + 1 = r + 2 /\ Len(got') = k /\ got' = got
      BY <1>1, <1>3, <1>4
    <2>. QED
      BY <2>1, <2>2
  <1>9. \A i \in r + 2 .. k : h < got[i]
    BY <1>3, <1>4, <1>6 DEF InLine, Increasing
  <1>10. \A n \in QueuedFrames : h < n /\ n \in Nat
    <2>1. r + 1 \in 1 .. Len(got)
      BY <1>3, <1>4
    <2>2. \A n \in QueuedFrames : n \in Nat
      BY DEF QueuedFrames, Range, TypeOK
    <2>. QED
      BY <1>6, <2>1, <2>2 DEF InLine
  <1>11. Inside = Inside' \cup {h} /\ h \notin Inside'
    <2>1. \A i \in r + 1 .. k : i = r + 1 \/ i \in r + 2 .. k
      OBVIOUS
    <2>2. r + 1 \in r + 1 .. k /\ \A i \in r + 2 .. k : i \in r + 1 .. k
      BY <1>4
    <2>3. \A i \in r + 2 .. k : got[i] # h
      <3> SUFFICES ASSUME NEW i \in r + 2 .. k PROVE got[i] # h
        OBVIOUS
      <3>1. got[i] \in Nat /\ h < got[i]
        BY <1>5, <1>9
      <3>. QED
        BY <3>1
    <2>. QED
      BY <1>6, <1>7, <1>8, <2>1, <2>2, <2>3
  <1>12. UnderWay = Inside \cup QueuedFrames /\ UnderWay' = Inside' \cup QueuedFrames
    BY <1>1 DEF UnderWay, Inside, QueuedFrames
  <1>13. h \in UnderWay /\ UnderWay' = UnderWay \ {h}
    <2>1. h \notin QueuedFrames
      BY <1>10
    <2>. QED
      BY <1>11, <1>12, <2>1
  <1>14. \A n \in UnderWay : h <= n
    <2>1. ASSUME NEW n \in Inside PROVE h <= n
      <3>1. PICK i \in r + 1 .. k : n = got[i]
        BY <1>7
      <3>. QED
        BY <1>4, <1>5, <1>6, <1>9, <3>1
    <2>2. ASSUME NEW n \in QueuedFrames PROVE h <= n
      BY <1>10
    <2>. QED
      BY <1>12, <2>1, <2>2
  <1>15. ReadFrames' = Append(ReadFrames, h)
    <2>1. \A i \in 1 .. r : read[i].n = got[i]
      BY <1>1, <1>2, ReadThenInside
    <2>2. \A i \in 1 .. r + 1 : read'[i].n = got[i]
      BY <1>1, <1>4, ReadThenInsideNext
    <2>3. ReadFrames = [i \in 1 .. r |-> got[i]]
      BY <1>2, <2>1 DEF ReadFrames
    <2>4. ReadFrames' = [i \in 1 .. r + 1 |-> got[i]]
      BY <1>4, <2>2 DEF ReadFrames
    <2>5. Append([i \in 1 .. r |-> got[i]], got[r + 1]) = [i \in 1 .. r + 1 |-> got[i]]
      <3>1. \A i \in 1 .. r : got[i] \in Nat
        BY <1>4, <1>5
      <3>. QED
        BY <1>6, <3>1
    <2>. QED
      BY <1>6, <2>3, <2>4, <2>5
  <1>16. Line!Oldest(h, UnderWay)
    BY <1>13, <1>14 DEF Line!Oldest
  <1>. QED
    BY <1>1, <1>13, <1>15, <1>16 DEF Line!Deliver

\* From the push to the reader frames keep their order, come at most once, and a
\* push costs at most one of them, for every depth and policy and as long as the
\* reader stays (adapt.rs:150-176).
THEOREM ReaderServed == ASpec => ReaderInOrder
  <1>1. AInit => Line!Init
    BY DEF AInit, Init, Line!Init, UnderWay, ReadFrames, QueuedFrames, Range
  <1>2. TypeOK /\ ATypeOK /\ NothingLostInside /\ Ordered /\ InLine /\ TypeOK' /\ ATypeOK'
            /\ NothingLostInside' /\ [ANext]_avars
            => [reader' # "dropped" => [Line!LineNext]_(Line!fifoVars)]_avars
    <2> SUFFICES ASSUME TypeOK, ATypeOK, NothingLostInside, Ordered, InLine, TypeOK', ATypeOK',
                        NothingLostInside', ANext, reader' # "dropped"
                 PROVE  Line!LineNext \/ UNCHANGED Line!fifoVars
      OBVIOUS
    <2>1. CASE Receive /\ got' # got
      BY <2>1, TakenStays DEF Line!fifoVars
    <2>2. CASE Receive /\ got' = got
      <3>1. UNCHANGED <<queue, pushes, chan, hand, read>>
        <4>1. ~TakeFrame(Forwarder)
          BY <2>2 DEF TakeFrame, TypeOK
        <4>. QED
          BY <2>2, <4>1 DEF Receive, StartRecv, Recv, Pop, CheckClosed, Drain, Park, Resume, readerVars
      <3>. QED
        BY <3>1 DEF Line!fifoVars, UnderWay, QueuedFrames, ReadFrames
    <2>3. CASE Send
      <3>1. chan' \o hand' = chan \o hand /\ UNCHANGED <<queue, pushes, read>>
        BY <2>3 DEF Send, SendWaits, ATypeOK, vars, readerVars
      <3>. QED
        BY <3>1 DEF Line!fifoVars, UnderWay, QueuedFrames, ReadFrames
    <2>4. CASE SendFails \/ Drop
      BY <2>4 DEF SendFails, Drop, readerVars
    <2>5. CASE Read
      BY <2>5, ReadDelivers DEF Line!LineNext
    <2>6. CASE ReadNone
      BY <2>6 DEF ReadNone, vars, taskVars, Line!fifoVars, UnderWay, QueuedFrames, ReadFrames
    <2>7. CASE Bus /\ Push
      <3>1. reader # "dropped" /\ UNCHANGED adapterVars
        BY <2>7 DEF Bus, adapterVars, readerVars
      <3>. QED
        BY <2>7, <3>1, PushOffers DEF Line!LineNext
    <2>8. CASE Bus /\ ~Push
      BY <2>8 DEF Bus, Close, CloseStore, CloseNotify, Tick, adapterVars, taskVars, readerVars,
                  Line!fifoVars, UnderWay, QueuedFrames, ReadFrames
    <2>. QED
      BY <2>1, <2>2, <2>3, <2>4, <2>5, <2>6, <2>7, <2>8 DEF ANext, Forward
  <1>. QED
    BY <1>1, <1>2, IsAChannel, TypeCorrect, ATypeCorrect, NothingLost, AlwaysOrdered,
       AlwaysInLine, PTL DEF ASpec, ReaderInOrder
=============================================================================
