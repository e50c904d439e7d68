------------------------------- MODULE Adapter -------------------------------
(***************************************************************************)
(* LinAdapter::subscribe of src/adapt.rs: the task it spawns takes frames  *)
(* from one subscriber channel of the bus (FrameReceiver, whose only       *)
(* consumer it is and whose recv it never abandons), turns each into a     *)
(* numbered message and sends it into a bounded mpsc channel, which the    *)
(* caller of subscribe reads and may drop.                                 *)
(*                                                                         *)
(* The mpsc channel is tokio's, modelled from how the task uses it: send   *)
(* waits for room, and fails once the receiver is dropped; recv gives None *)
(* when the sender is dropped and nothing is left.                         *)
(***************************************************************************)
EXTENDS FrameReceiver

CONSTANT Forwarder      \* the spawned task

ASSUME AdapterAssumption == Consumers = {Forwarder}

VARIABLES
    task,           \* the spawned task: it receives, it sends, or it has ended
    hand,           \* the message it is sending, none or one
    seq,            \* its counter
    chan,           \* the messages in the mpsc channel
    reader,         \* the caller's end: it reads, saw None, or was dropped
    read,           \* history: the messages the reader got, in order
    leftAt          \* history: frames taken from the bus when the reader left

taskVars == <<task, hand, seq>>
readerVars == <<reader, read, leftAt>>
adapterVars == <<taskVars, chan, readerVars>>
avars == <<vars, adapterVars>>

\* mpsc::channel(depth.max(1)), depth being the channel's own.
Depth == opts.capacity

AInit ==
    /\ Init
    /\ task = "recv"
    /\ hand = <<>>
    /\ seq = 0
    /\ chan = <<>>
    /\ reader = "reading"
    /\ read = <<>>
    /\ leftAt = 0

-----------------------------------------------------------------------------
\* to_message, with the task's number.
ToMessage(n) == [seq |-> seq, n |-> n]

\* frame_rx.recv().await, step by step: a frame becomes the message to be
\* sent, None ends the task.
Receive ==
    /\ task = "recv"
    /\ StartRecv(Forwarder) \/ Recv(Forwarder)
    /\ IF got' # got
       THEN /\ hand' = <<ToMessage(got'[Len(got')])>>
            /\ seq' = seq + 1
            /\ task' = "send"
       ELSE /\ task' = IF pc'[Forwarder] = "ended" THEN "ended" ELSE task
            /\ UNCHANGED <<hand, seq>>
    /\ UNCHANGED <<chan, readerVars>>

\* Faulty variant: try_send, and a full channel costs the message.
SendTry ==
    /\ chan' = IF Len(chan) < Depth THEN chan \o hand ELSE chan
    /\ hand' = <<>>

\* tx.send(msg).await
SendWaits ==
    /\ Len(chan) < Depth
    /\ chan' = chan \o hand
    /\ hand' = <<>>

Send ==
    /\ task = "send" /\ reader # "dropped"
    /\ SendWaits
    /\ task' = "recv"
    /\ UNCHANGED <<vars, seq, readerVars>>

\* Faulty variant: the task goes on without a reader.
AfterFailureGoOn == task' = "recv"

AfterFailure == task' = "ended"

\* The reader is gone, before the send or while it waits.
SendFails ==
    /\ task = "send" /\ reader = "dropped"
    /\ AfterFailure
    /\ hand' = <<>>
    /\ UNCHANGED <<vars, seq, chan, readerVars>>

Forward == Receive \/ Send \/ SendFails

-----------------------------------------------------------------------------
(***************************************************************************)
(* The caller of subscribe.                                                *)
(***************************************************************************)
Read ==
    /\ reader = "reading" /\ chan # <<>>
    /\ read' = Append(read, Head(chan))
    /\ chan' = Tail(chan)
    /\ UNCHANGED <<vars, taskVars, reader, leftAt>>

\* None: the task has ended and dropped its sender.
ReadNone ==
    /\ reader = "reading" /\ chan = <<>> /\ task = "ended"
    /\ reader' = "ended"
    /\ UNCHANGED <<vars, taskVars, chan, read, leftAt>>

\* The caller drops the receiver, and with it what is in the channel.
Drop ==
    /\ reader # "dropped"
    /\ reader' = "dropped"
    /\ chan' = <<>>
    /\ leftAt' = Len(got)
    /\ UNCHANGED <<vars, taskVars, read>>

\* The bus: it pushes and closes.  The adapter has no say in it, not even
\* when its task has ended: the channel stays subscribed.
Bus == (Push \/ (\E k \in Closers : Close(k)) \/ Tick) /\ UNCHANGED adapterVars

ANext == Forward \/ Read \/ ReadNone \/ Drop \/ Bus

ASpec == AInit /\ [][ANext]_avars

\* The executor runs the task whenever it can go on, close runs to its end,
\* and the caller reads in a loop until it drops its end.
AFairSpec ==
    /\ ASpec
    /\ WF_avars(Forward) /\ WF_avars(Read \/ ReadNone)
    /\ \A k \in Closers : WF_avars(CloseNotify(k) /\ UNCHANGED adapterVars)

-----------------------------------------------------------------------------
\* What the task took from the bus, as it numbered it.
Taken == [i \in 1 .. Len(got) |-> [seq |-> i - 1, n |-> got[i]]]

\* Between the bus's channel and the reader nothing is lost, doubled or
\* reordered, at whatever moment each of them looks: what was taken from the
\* bus is what was read, what waits in the channel and what the task holds
\* ("it never silently drops a message", adapt.rs:150-154).
NothingLostInside == reader # "dropped" => read \o chan \o hand = Taken

\* The frames the reader got, and those it may still get, wherever they are.
ReadFrames == [i \in 1 .. Len(read) |-> read[i].n]
UnderWay == {m.n : m \in Range(chan \o hand)} \cup QueuedFrames

Line == INSTANCE LossyLine WITH sent <- pushes, pending <- UnderWay, got <- ReadFrames

\* From the bus's push to the reader, through two channels and the task between
\* them: as long as the reader stays, frames come in the order pushed, each at
\* most once, and a push costs at most one frame.  The two channels together are
\* no LossyFifo: DropOldest evicts the oldest frame of the first only.
ReaderInOrder ==
    /\ Line!Init
    /\ [][reader' # "dropped" => [Line!LineNext]_(Line!fifoVars)]_avars

\* Under Block and without a rate limit the reader misses nothing at all: its
\* frames, those on their way and those still queued are all that were
\* pushed, in order (push appends under Block whatever the capacity, bus.rs:95).
BlockLosesNothing ==
    opts.policy = "Block" /\ opts.rateLimit = 0 => got \o queue = [i \in 1 .. pushes |-> i]

\* A reader that leaves costs the bus at most one frame more: the task ends
\* at its next send (adapt.rs:172-174).
OneFrameAfterLeaving == reader = "dropped" => Len(got) <= leftAt + 1

\* What the task has taken is read; if the reader leaves first, the task gets
\* rid of what it holds.  So nobody waits on anybody for ever, neither through
\* a full channel nor on a reader that has left (adapt.rs:171-175).
TakenIsRead ==
    \A i \in 1 .. MaxPushes :
        Len(got) >= i ~> Len(read) >= i \/ (reader = "dropped" /\ hand = <<>>)
=============================================================================
