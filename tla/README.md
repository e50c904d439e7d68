# rust-LIN: a verification development in TLA+

This directory models rust-LIN (`src/src`), an in-process LIN bus on tokio with
the master and slave nodes that use it, an E2E protection layer, an adapter to
RELAY messages and an LDF parser.  The modules are checked with TLC on small
instances and the main results are proved with TLAPS for every instance.

## The system

| Component | State | Operations | What is hard about it |
|---|---|---|---|
| Subscriber channel (`bus.rs`: `SubInner`, `FrameReceiver`) | bounded queue, `Notify`, `closed`, rate window | `push`, `pop`, `recv`, `close` | `recv` pops, checks and awaits in separate steps; readers drop their `recv` future; three back-pressure policies; a clock |
| Virtual bus (`virtual_bus/mod.rs`) | responses by id, subscriber list, schedule (one tokio mutex); `closed` and six counters (atomics) | `publish`, `publish_classic`, `subscribe`, `send_header`, `set_schedule`, `close` | every call checks `closed`, then awaits the lock; receivers pop and close without the lock; counters move after the unlock |
| Frame (`frame.rs`) | none | PID, checksum, `validate_frame`, filters | bit arithmetic, two checksum types |
| Slave node (`slave/mod.rs`) | set of registered ids | `set_response`, `registered_ids` | a bus call and a local update that are not atomic |
| Master node (`master/mod.rs`) | schedule | `set_schedule`, `run` | a loop with errors, delays and a deadline |
| E2E protection (`safety/mod.rs`) | sender's counter, receiver's last number | `protect`, `unwrap` | loss, duplication, reordering and the wrap of a 32-bit counter |
| Adapter (`adapt.rs`) | a forwarding task between two channels | `send`, `subscribe`, `close` | the task's life against the two channels' closes |
| Mock bus (`mock/mod.rs`) | recorded calls, responses, subscribers | `publish`, `send_header`, `inject`, `subscribe`, `close`, `reset` | several locks per call |
| LDF parser (`ldf/mod.rs`) | a database | `parse`, `decode` | truncated and damaged input, ids cut to a byte, bit offsets |

Interaction: nodes, adapter and command line call a bus through the `Bus` and
`MasterBus` traits.  A bus pushes frames into subscriber channels while it
holds its lock; a reader is woken through the channel's `Notify`.  Nothing is
persisted and there is no network: the failures of this system are dropped
futures, full queues, deadlines, closes at an unlucky moment and, for the E2E
layer, whatever the link below does to frames.

What makes each component correct:

* **Channel** - what is pushed and not refused is read, in order, once;
  a queue of a dropping policy stays within its capacity; a queued frame is
  never left beside sleeping readers; after a close the queue drains and then
  every `recv` gives `None`; the rate limit bounds what gets through.
* **Bus** - exchanges reach every receiver in one order; no open subscriber is
  forgotten or misses an exchange its filter takes; a closed channel gets
  nothing new; what is registered can be sent; the counters add up; every call
  returns.
* **Slave node** - the registered set says what the bus answers for.
* **Master node** - a run keeps to its table, survives failing slots and ends
  at its deadline.
* **E2E** - the receiver returns the sender's payloads, consecutive and
  unrepeated, and all of them while the link works.
* **Adapter** - forwards in order and loses nothing on the way, ends soon after
  its reader; what goes through messages to another bus arrives unchanged.
* **Mock bus** - what a test reads on its record is what the bus answers with,
  and what it answers with is what was registered.
* **Codec** - PID and checksum detect what they promise.
* **LDF** - parsing ends on any input, invents nothing and loses nothing, tables
  name frames that exist, decoding a signal returns its bits.

## Modules

| Module | Models | State | Actions |
|---|---|---|---|
| `SubInner` | `SubInner::push` on values | none | operators `HasRoom`, `Enqueue`, `Window`, `OverRate`, `Admit` |
| `FrameReceiver` | one channel: `SubInner` and `FrameReceiver` of `bus.rs` | `queue`, `closed`, `permit` and sleepers of the `Notify`, `rate`, clock, where each reader and closer is | `Push`; `StartRecv`, `Pop`, `CheckClosed`, `Drain`, `Park`, `Resume`, `Cancel`; `CloseStore`, `CloseNotify`; `Tick` |
| `LossyFifo` | what a channel promises its reader | `sent`, `pending`, `got` | send, lose, deliver |
| `LossyLine` | what the adapter, with its channel before it, promises the reader behind it: a `LossyFifo` whose loss need not be the oldest | the same | the same |
| `LinFrame` | frames, filters, `validate_frame`, the checksum type `publish` picks | none | operators |
| `VirtualBus` | `virtual_bus/mod.rs`, with the channels of its subscribers | the fields of `BusInner`, the lock's holder, each channel's queue and flag, the counters, where each task is in its call | `Begin`, the checks (`Reject`, `Admitted`, `CompareExchange`), `Cancel`, under the lock `Store`, `Remove`, `Attach`, `Install`, `Sweep`, `NoResponse`, `Unsendable`, `Exchange`, `PushNext`, `Unlock`, then `Count`; `Recv`, `CloseReceiver` |
| `LinBus` | what nodes rely on of a bus | `responses`, `closed`, `schedule` | `Publish`, `Withdraw`, `SetSchedule`, `Close` |
| `SlaveNode` | `slave/mod.rs`, several tasks in `set_response` | `registered`, where each task is | `set_response`, `Refuse`, `AwaitLock`, `CancelSet`, `PublishResponse`, `RecordResponse` |
| `MasterNode` | `master/mod.rs`, `set_schedule` and `run` | `schedule` (`table`), the loop's slot, the context | one action per step between awaits, `CancelMaster`, `Expire` |
| `Cluster` | both nodes on one bus that others close and reschedule | the union | `SlaveNext`, `MasterNext`, `CloseBus`, `DisableSchedule` |
| `E2E` | `safety/mod.rs` over a faulty link | `seq`, `last_seq`, `first`, payloads in hand and on the link | `protect`, `Transmit`, `unwrap` (`Accept`, `Reject`), the link's `Lose`, `Duplicate`, `Damage`, `Overtake`, `Stray` |
| `Adapter` | `LinAdapter::subscribe`: the forwarding task between a channel (`FrameReceiver`) and tokio's bounded mpsc channel | `task`, `hand`, `seq`, `chan`, the reader | `Receive`, `Send`, `SendFails`; `Read`, `ReadNone`, `Drop`; `Bus` (the channel's own steps) |
| `Codec` | `protect_id`, `verify_pid`, `calc_checksum` of `frame.rs`, on bytes | none | operators |
| `Gateway` | `send`, `close`, `to_message`, `from_message` of `adapt.rs` and `Error::kind`, between two buses, with the frame also out on a noisy line | `near`, `far` (responses), `closed`, the frame, the line | `Send`, `Close`, `Header`, `Relay`, `Noise`, `Listen` |
| `MockBus` | `mock/mod.rs`, calls overlapping lock by lock | the fields of `MockBus`, each channel's queue, where each task is in its call | `BeginAny`, `Check`, `Record`, `Store`, `RecordHeader`, `LookUp`, `Inject`, `Attach`, `CloseFlag`, `CloseSweep`, `ResetPublished`, `ResetHeaders`, `Cancel`, `Pop` |
| `Ldf` | the parser of `ldf/mod.rs`, line by line, and `Db::decode` | `pos`, the section, the frame or table being read, `db` | one action per branch of the parser's loops; `Decode` |
| `MCFrameReceiver`, `MCVirtualBus`, `MCCluster`, `MCAdapter`, `MCGateway`, `MCMockBus`, `MCLdf` | small instances | | |
| `FrameReceiver_proofs`, `VirtualBus_proofs`, `Cluster_proofs`, `E2E_proofs`, `Adapter_proofs`, `Gateway_proofs`, `MockBus_proofs`, `Ldf_proofs` | theorems | | |

How they fit together:

    LossyFifo  <---- implements ----  FrameReceiver   (one channel, in full)
        ^                                  |
        |                               SubInner      (push, on values)
        |                                  |
        +------- implements, per channel - VirtualBus (the bus, with its channels)
                                           |
                        LinBus <-- implements
                           |
               SlaveNode  MasterNode --> Cluster

    FrameReceiver --> Adapter      (the channel's steps, the task as its reader)
                        |
        LossyLine <-- implements   (from the push to the reader of the messages)
    SubInner -------> MockBus      (push, on values)
    LinFrame -> Codec -> Gateway   (frames, bytes, messages)

`FrameReceiver` looks at one channel down to the single atomic access;
`VirtualBus` takes `push` and `pop` as the atomic steps the queue's mutex makes
of them, and `Cluster` takes the bus as what `VirtualBus` is shown to implement
(`ImplementsBus`). `Adapter` extends `FrameReceiver`: its task is the channel's
only reader, so that an adapter's run is a run of that channel. `Gateway` takes
the two buses one call at a time; what happens between their calls and inside
the adapters' channels is the subject of `VirtualBus` and `Adapter`.

`Ldf` reads lines, as the parser does. A line carries what the parser asks of
it - its keyword, whether it has a colon, the text before its first colon or
comma, the parts between commas, its words, where its brace stands - `Numeral`
says which texts are integers, and `Unsigned` which are natural numbers, where
the code takes floats as well. Splitting a text is Rust's library; everything the parser decides by
the result is in the module.

How steps are cut: an action is what runs between two points at which another
task or thread can be observed. Those are awaits, accesses to an atomic, and
lock acquisitions. `push` is one action, because `broadcast` calls it under the
bus lock and it holds the queue's mutex throughout; `recv` is five, because it
takes that mutex twice, loads an atomic between, and then awaits. A future can
be dropped only at an await (`Cancel` of `FrameReceiver`, `VirtualBus` and
`MockBus`, `CancelSet`, `CancelMaster`).

Faulty variants of some operators stand beside them, commented as such. No
specification uses them: each describes a plausible bug that a property is
known to catch.

## Runs

| Run | What it explores | Properties |
|---|---|---|
| `receiver` | two readers, one closer, three pushes, four option sets (each policy, one rate-limited), clock to 3 with seconds of 2 ticks | `QueueBounded`; `NeverAllAsleep` (no frame queued while every reader sleeps); `DrainBeforeNone`; `RateBurst` (at most twice the limit in any second); `ImplementsLossyFifo`; `FramesLeave` and `RecvReturnsOnceClosed` (liveness) |
| `receiver_close` | one reader, one closer | `CloseEndsRecv`, violated |
| `bus` | two tasks, two channels, three budgets of calls | `RegisteredIsSendable`; `OpenIsListed`; `NoExchangeMissed`; `NothingAfterClose`; `DeliveriesAccounted`; `BroadcastOrder` (each channel implements `LossyFifo`); `ImplementsBus` (the bus implements `LinBus`); `CallsAdvance` (no step sets a call back, and a call waits only for another's broadcast); `CallsReturn` (liveness) |
| `bus_close` | the same, subscribing while closing | `CloseReachesAll`, violated |
| `cluster` | two slave tasks, one of them with bad calls too; a master with an empty table, a good one and a bad one | `RegisteredTracksBus`; `OneLateHeader`; `RunEndsAtDeadline` and `SlotsHeard` (liveness) |
| `slave_registered` | two slave tasks that set and clear the same id | `RegisteredIdsCurrent`, violated |
| `empty_schedule` | a master running while the bus gets an empty schedule | `EmptyScheduleStops`, violated |
| `e2e` | two threads, five payloads, a counter of 4 values, a link of two frames and three faults | `NoGapNoReplay` (what is returned is genuine; what is skipped or repeated is whole turns of the counter, so nothing until the wrap; a frame that is rejected changes nothing of what is taken next); `NoneRejected` (a stream that arrives whole and in order is never rejected, across the wrap too); `InOrderDelivered` (liveness) |
| `adapter` | a task with its bus channel and its mpsc channel, three option sets (each policy, one rate-limited), a reader that may leave, a close | `NothingLostInside` (taken = read, waiting or in hand); `BlockLosesNothing`; `OneFrameAfterLeaving`; `ReaderInOrder` (from push to reader the adapter implements `LossyLine`); `TakenIsRead` (liveness: what was taken is read, or, once the reader has left, out of the task's hand) |
| `gateway` | messages for every id, payloads where sums carry, refused messages; one inverted bit anywhere in a frame | `HeardIsSent` (each inverted bit is detected, a clean frame is accepted); `RelayedAlike` (the far bus answers with the same bytes) |
| `mock` | two tasks making any four of the calls, dropped at any await | `RecordAgrees` (the last record is what is stored, and is so again after calls that overlapped or were dropped between the two locks); `AnswersCurrent` (an injected payload was registered during the call) |
| `ldf` | two databases written in every layout, whole with a meaningless line before any line, cut off after any line, or with a line lost, swapped or replaced; three payloads | `SchedulesResolve`; `FramesWhole` (a filed frame is one block of the file, its references of that block); `TablesWhole` (a filed table is one block, its entries lines of it in order, with ids of frames headed above it); `NothingInvented`; `NothingLost`; `DecodeFaithful`; `ParserAdvances` (action property: each step consumes a line or leaves a section); `Terminates` (liveness) |

The type invariants are theorems (`TypeCorrect`) in `FrameReceiver_proofs`,
`VirtualBus_proofs`, `Cluster_proofs`, `E2E_proofs`, `MockBus_proofs` and
`Ldf_proofs`, and are not repeated in the runs.

### Bounds

* `MaxPushes = 3` overruns every capacity used (1 and 2), so eviction,
  refusal and a full queue at close all happen. Two readers are what a stolen
  or stored permit needs; a third adds only another sleeper. `MaxTime = 3`
  crosses a window's end, which is where twice the limit gets through.
* A bus run makes each call of a budget once, or twice where two of a kind
  interfere (`send_header`, `close`). Which call a task makes, and in which
  order, is open. Two tasks suffice for every pair of overlapping calls, and
  the longest chain one of the properties depends on (publish, subscribe,
  exchange, close, exchange) fits.
* The nodes' runs are unbounded in length; their state is finite. `late`
  counts to 2, one more than the property allows.
* `Modulus = 4` with five payloads makes the counter wrap once, at a value a
  frame still on the link can have. `MaxLink = 2` lets frames overtake. Three
  faults lose, damage and repeat in any combination; the properties that hold
  for any number of them are proved.

* `adapter`: capacities 1 and 2 for the bus channel and the same depth for the
  mpsc channel; with one frame in hand, five pushes fill both and overrun them.
* `gateway`: all 64 ids with a short payload; the bytes 0, 1, 127, 128, 254 and
  255, where the carry comes and goes, in pairs; payloads of 0, 1, 8 and 9
  bytes; ids as texts with a sign, with zeros, out of range and not a number.
  One inverted bit is what the checksum promises to detect, so `MaxFlips = 1`
  is no cut. Two sends let one message replace another.
* `mock`: `MaxCalls = 4` admits publish, publish, reset or close, and a header,
  in any overlap and with any of them dropped on the way; a publish that
  overlapped or was dropped, another that records alone, and a header fit as
  well. Id 64 is one `publish` takes and `send_header` refuses, and a
  payload of 9 bytes is refused. A queue of one frame is evicted by the second.
* `ldf`: the files hold signals across a byte border, past the payload, past 64
  bits, placed twice and never declared; frames with ids 64, 300 and -1 and with
  a name that is taken or empty; a delay of 10.5; tables before and after the
  frames. A section's brace is beside its keyword or on the next line; that of a
  frame or a table is on its header's line, as the parser, which goes line by
  line, asks. The line put in means nothing to any section and stands before
  each line in turn. In one of these places, before an own-line brace of
  `Schedule_tables`, the code does lose something: there `FirstUnnamed` says what
  the file gives, the first table under the name "" and all else as declared, so
  that `NothingInvented` and `NothingLost` bound that damage too. What is put
  in place of another line is any line of the file, a header with an id out of
  range, not a number or without a name, a frame on one line, a brace alone or
  with text behind it. `usize` and `u32` wrap at 65536, past every number in the
  files but -1, which is what wraps.

### Deadlock

The runs of `bus`, `e2e`, `adapter`, `gateway` and `mock` turn TLC's deadlock
check off: once every call of the budget is made and all have returned there is
nothing left to do; in `ldf` the parser ends. That no call hangs is
`CallsReturn`, that no frame hangs `TakenIsRead`, that the parser ends
`Terminates`. The `receiver` run keeps it on (readers call `recv` again and
again), as do the nodes' runs.

### Fairness

* Channel: a reader that can step does, as tokio polls a woken task, and
  `close` runs to its end. Nobody has to push, close or call `recv`, except in
  `LoopSpec`, where readers call it in a loop, as every reader in the code does
  (`adapt.rs`, `main.rs`, tests).
* Bus: weak fairness for the steps outside the critical section, strong
  fairness for those that need the lock. tokio documents its `Mutex` as fair
  (FIFO), so that a waiter is not passed over for ever.
* Nodes: weak fairness for the steps of `run` (a sleep ends, the lock is
  granted) and of `set_response`. A deadline need not come.
* E2E: threads transmit what they protected, and the receiver reads. The link
  is not obliged to do anything; `InOrderDelivered` is about links that do.
* Adapter: the executor runs the forwarding task while it can go on, a reader
  reads in a loop until it drops its end, a close that began runs to its end.
  Nobody has to push, to close or to leave.
* Parser: it is one call, so it goes on while it can; nobody has to `decode`.

## Proofs

The theorems hold for any number of readers, tasks, channels and calls, every
option and every bound. They use only the assumptions on the constants, which
say what kind of value each one is, that each channel of the bus is created by
one `subscribe` call, that callers and channels are finitely many, and that the
line inverts one bit at most.

What is computed along a sequence or a set (a checksum, a count of lines, a sum
over channels) is proved by induction on a number, as a step from the least
number that lacks the property (`Least`, `Induction` in `Gateway_proofs`).

* **`FrameReceiver_proofs`.** `TypeCorrect` first. `Bounded` is inductive with
  types. `ReaderAwake` (`NeverAllAsleep`) needs `Covered`: a permit is stored
  only while nobody waits, and a queued frame is covered by a permit or by a
  reader that will look at the queue before it can sleep. It survives an
  abandoned `recv` because a dropped `Notified` that was already notified
  passes the notice on. `AlwaysOrdered` - the queue is strictly increasing and
  holds nothing later than the last push - is the invariant under `Refinement`:
  with it, each step is a step of `LossyFifo` or leaves it alone.
  `NoneAfterDrain` follows what a reader that has seen `closed` can still find.
  `BurstLimited` (`RateBurst`) rests on `Windowed`, which relates the window to
  the times of admission: the last `count` of them are in the window, those a
  whole limit before are a second older than its start. From it, two admissions
  twice the limit apart are a second apart, and the admissions of a second fit
  into an interval of indices that long.
* **`VirtualBus_proofs`.** Types first; they need to know that what
  reaches the lock has passed its checks (`Checked`), since the lock's steps do
  not look again. `Sendable` adds that `publish` picks the checksum type under
  the lock. `MutualExclusion` says that the lock is held exactly by the one
  task in a broadcast and that its frame is the exchange last counted; every
  theorem about exchanges rests on it. `Order` (`BroadcastOrder`) needs that a
  queue holds its exchanges in rising order, up to the last its channel was
  offered; then each step is, for every channel, a step of `LossyFifo`.
  `ClosedStaysQuiet` (`NothingAfterClose`) adds that a closed channel is owed
  only exchanges that began before its close: `gc` runs under the lock, ahead
  of the count. `Complete` (`NoExchangeMissed`) needs in addition that a channel
  is created by one call and holds nothing until that call returns, and
  `Listed`, so that an exchange that begins finds every open channel.
  `Accounted` (`DeliveriesAccounted`) adds over all channels and all callers:
  a step changes what one channel took in or one caller owes, and a sum moves by
  as much as its one changed term. This is where callers and channels must be
  finitely many.
  `Advancing` (`CallsAdvance`) is the part of `CallsReturn` that needs no
  fairness. `Left` measures what is left of a call: a stage counts for more than
  all pushes of a broadcast. Each action moves one task, lowers its measure and
  leaves the others' alone (`StepAdvances`, `OthersRest`); that a waiter never
  waits for a task outside a broadcast, or for itself, is `MutualExclusion` again.
  `Refinement` (`ImplementsBus`) licenses `Cluster` to run on `LinBus`.
* **`Cluster_proofs`.** The types of a run need that a table is never empty and
  that the slot is back at the first entry whenever the master is idle.
  `RegisteredCorrect` needs what a task knows between `publish` and its update
  of the set: if no other task uses the id, the bus still holds what it
  published. `Deadline` needs that a late header is counted only in a slot that
  began before the deadline passed.
* **`E2E_proofs`.** `Consecutive` rests on `Ordered`: every genuine frame's
  counter is its number modulo `Modulus`, and the receiver's last counter is that
  of the number it returned last. What it accepts next is then the next number, or
  whole turns of the counter from it; while fewer than `Modulus` numbers have been
  drawn there is only the next. That what is taken next was taken in its turn,
  whatever was rejected in between, is `TakesNext`. `Authentic` needs nothing but the check. `Lossless`
  (`NoneRejected`) goes past the wrap: on a link without faults, with frames put
  on it in order, each counter is its number modulo `Modulus` (`Numbered`) and
  the frames returned and those on the way are what was put, in order
  (`Arriving`), so the frame that arrives is the one expected.
* **`Adapter_proofs`.** `IsAChannel` shows that each step of the adapter is a
  step of its channel or leaves it alone, so that the types and every theorem of
  `FrameReceiver_proofs` hold inside an adapter too. `NothingLost` is inductive
  with the types, once it is known that the task holds a frame exactly while it
  sends. `LeavesSoon` needs that a task which still receives has taken nothing
  since the reader left. `BlockComplete` follows the pushes: an unlimited Block
  channel appends each. `ReaderServed` (`ReaderInOrder`) maps the adapter to a
  `LossyLine` from the bus's push to the reader of the messages. Its invariant is
  `InLine`: the frames taken rise and lie before all that are queued. With
  `NothingLost`, a frame is in one place at a time, so that the task's take moves
  it without a step of the line, a push is one offer wherever the policy loses a
  frame, and what the reader gets is the least under way.
* **`Gateway_proofs`.** `HeardCorrect` (`HeardIsSent`) holds for payloads of any
  bytes and any length. The checksum ends a chain of sums; two payloads that
  differ in one byte have sums that stay that difference apart, give or take a
  carry (`SumsApart`), and an inverted bit is less than a full carry
  (`FlipChangesChecksum`); the PID's two parity bits see each inverted bit.
  `ChecksumClosed` gives the loop's result in closed form: the plain sum of the
  bytes, folded once modulo 255 and complemented. Damage goes unseen
  only if it changes that sum by a multiple of 255.
  `GatewayInv` follows the frame over the line and through the relay: what the
  line holds is the frame's bytes, or those with one bit inverted. `RelayCorrect`
  (`RelayedAlike`) rests on `RoundTrip`: a frame off the bus survives
  `to_message` and `from_message`.
* **`MockBus_proofs`.** `RecordIsAnswer` (`RecordAgrees`) needs three facts about
  the gap between publish's two locks, all of them of ids that are not `unsure`:
  such an id has at most one publisher in the gap (`OnePublisher`), whose
  payload is the last one recorded (`Owed`), and while nobody is there the last
  record is what is found (`Settled`). Overlapping calls and a call dropped in
  the gap make an id unsure; a call that records alone makes it sure again, as
  its record is the last and it is the one to store. `AnswerWasHeld` (`AnswersCurrent`) needs what a header
  knows before its look-up (`Knows`) and what it carries after (`Holds`).
* **`Ldf_proofs`.** `TypeCorrect` holds for any file and any reading of numerals:
  ids are bytes and offsets naturals because the parser cuts them. `TablesResolve`
  (`SchedulesResolve`) needs that frames are replaced under their id and never
  removed, for the table being read as well as for those filed.
  `AlwaysAdvances` (`ParserAdvances`) has `Todo` fall with each step: three for a
  line, so that leaving a loop at the end of the input counts as well.
  `FramesAreBlocks` (`FramesWhole`) needs that the frame being read is a block
  as far as the parser has come, and that one more line is one more reference or
  none. `TablesAreBlocks` (`TablesWhole`) needs the same of the table being read;
  that each frame of the database is headed by a line before the parser's
  (`FramesHeaded`), and that while a table is read those headers lie before the
  table; and that one more line is one more entry, said by that line, or none.
  `DecodeCorrect` (`DecodeFaithful`) needs that the bit the code shifts
  and masks out is the payload's bit of that number, that of a name placed twice
  the last place counts, and that the database stays as it is once parsed.

Only model-checked:

* everything under fairness (`FramesLeave`, `RecvReturnsOnceClosed`,
  `CallsReturn`, `RunEndsAtDeadline`, `SlotsHeard`, `InOrderDelivered`,
  `TakenIsRead`, `Terminates`), as the prover does not reason about fairness;
* `NothingInvented` and `NothingLost`, which compare the database with what a file
  was written to declare: `declares` is given with each file of the instance, and
  nothing in the parser defines it. `FramesWhole` and `TablesWhole` are what can be
  said of frames and tables from the lines alone, and those are proved for any
  file.

## Where code and documents differ

Shown by a run:

* `recv` can sleep for ever on a closed channel (`bus.rs:149`; run
  `receiver_close`): `close` between the load of `closed` and the await wakes
  nobody. `bus.rs:140` promises `None`.
* A `subscribe` that passed its check before `close` attaches a channel that
  stays open on the closed bus (`virtual_bus/mod.rs:246`; run `bus_close`).
  `bus.rs:190` promises that all subscriber channels are closed.
* Two `set_response` calls for one id can leave the registered set different
  from the bus (`slave/mod.rs:61`; run `slave_registered`).
* An empty schedule on the bus disables nothing (`master/mod.rs:109`; run
  `empty_schedule`), against `bus.rs:212`.

Visible without a run, and modelled as the code does it:

* `BackPressurePolicy::Block` does not block: `push` appends past the capacity
  (`bus.rs:95` against `relay.rs:144`). `QueueBounded` is about the other two.
* The rate limit of `relay.rs:159` is per window that opens with the first push
  after a second, so twice the limit can pass within a second (`RateBurst`
  states the bound that holds).
* A `close` dropped while it awaits the lock (`virtual_bus/mod.rs:265`) leaves a
  closed bus with open channels, and every later `close` returns at the
  `compare_exchange`: none closes them, though `bus.rs:190` says "Close the bus and
  all subscriber channels. Idempotent." `Cancel` of `VirtualBus` takes this step;
  `CloseReachesAll` is about closes that ran to their end.
* Frames evicted by `DropOldest` are not in `drop_count`, as `push` returns true
  (`bus.rs:89`), while `requirements.json:226` has dropped frames counted and `:289`
  calls the oldest frame dropped. `DeliveriesAccounted` takes them as delivered.
* `Frame::id` is documented as 0-63 (`ldf/mod.rs:58`) and holds any byte, the
  number cut by `as u8` (`ldf/mod.rs:453`): 300 and 44 are one frame, and 64 is one
  no master can ask for. No table names it (`SchedulesResolve`).
* A line that means nothing between `Schedule_tables` and a `{` on its own line
  leaves the brace to the section (`ldf/mod.rs:399`, `:408`), where it opens a table
  named "". The head of the first declared table is then an entry line without
  meaning, and its entries go to "". `ldf/mod.rs:202` promises a partial `Db`; this
  one has a table no line declares. In the other sections such a brace means
  nothing, and nothing is lost.
* `requirements.json:307` wants `InvalidFrame` for an empty schedule;
  `MasterNode::set_schedule` returns `Error::Other`.
* `publish` takes an empty payload, and each later header of that id fails in
  `validate_frame`, without moving `error_count`. No document says that
  `publish` refuses it, and `RegisteredIsSendable` leaves it out; run `bus` takes
  it, and by `SlotsHeard` such a slot holds up no other.

By design, and worth knowing: two threads that share a `Protector` draw
numbers atomically but may transmit in the other order, after which the
receiver rejects everything until the counter has come round (`safety/mod.rs:244`
chooses not to resynchronise). After `Modulus` payloads an old frame can have
the expected number again, so `NoGapNoReplay` admits gaps and replays of whole
turns of the counter, and no others.

The adapter:

* `adapt.rs:150` says that the policy applied upstream is the effective one. The
  reader sees it behind `depth` more messages and one in the task's hand, so a
  `DropOldest` reader that falls behind gets up to `depth + 1` frames older than
  those the policy kept.
* The task notices that its reader left only when it sends, and an ended task
  closes nothing: `FrameReceiver` has no `Drop`, so its channel stays on the
  bus's list and fills (`adapt.rs:172`). On a quiet bus the task stays for good.
* `send` answers `Closed` for a message with a malformed id on an open bus:
  `Error::kind` has no RELAY error for `InvalidFrame` (`adapt.rs:134`).
* `from_message` takes ids that `to_message` never writes, `+16` and `016`, and a
  checksum that does not parse becomes 0; `publish` then ignores it.

The mock bus, against the bus it stands for: `reset` is documented as "Clear
internal state" and keeps the responses, the closed flag and the subscribers
(`mock/mod.rs:78`); `publish` takes ids above 63; every frame is Enhanced, the
diagnostic ids included; filters are ignored. `publish` calls for one id that
overlap can leave the last record different from the response stored, and so
does a `publish` dropped between its locks (`mock/mod.rs:103`, `:104`), which is
recorded and never stored; `RecordAgrees` excludes the id until a `publish` for
it records alone. A header dropped on its way is recorded and not answered, a
`close` dropped at the list's lock leaves the channels open for good, a `reset`
dropped between its locks has cleared one record of the two.

The LDF parser: tables that come
before the frames are read as empty; a frame whose brace is on the next line is
lost, and such a brace of a table opens a table named ""; the closing brace of a frame whose header
does not parse ends the whole section. An offset below zero becomes a huge
`usize`, whose sum wraps in a release build, as modelled, and panics in a debug
build.

## Plan

Done: every component with state of its own, and the proofs listed above. What
could still be added:

1. A mock bus under the nodes: `MasterNode` runs in the crate's
   own tests against `MockBus`; `Cluster` with it in place of `LinBus` would say
   which of their properties those tests can see.
2. The adapter on the whole bus: `ReaderServed` reaches from a channel's pushes to
   the mpsc reader, `Order` from the bus's exchanges to the channel's pushes;
   a module that extends both would state their composition as one theorem.
3. For nodes and signals of the LDF database what `FramesWhole` and `TablesWhole`
   say of frames and tables: each comes from the lines of its own section.

## What is not modelled

* `base64_serde.rs`, `lib.rs`, `seooc.rs`, and of `error.rs` all but `kind`:
  encodings by a library, re-exports, constants, a table of texts. They have no
  state to check.
* `bin/main.rs`: argument parsing and printing. Each command makes a bus of its
  own that nobody else reaches and that lives as long as the command; what it
  does with it is one call `VirtualBus` or `MasterNode` already takes.
* The payload's bytes in `VirtualBus`, which looks at their number only; they are
  in `Codec` and `Gateway`. `E2E` takes the CRC as detecting the damage done: its
  arithmetic is left out, as no property tells two detecting codes apart.
* The physical line, which the crate does not have: `Gateway` has one so that the
  PID and the checksum have something to detect, with a receiver that checks
  what `SAFETY_MANUAL.md` 7.1 and `verify_pid` offer it.
* Publishers and subscribers of frames and signals in the LDF database, which are
  copied texts; encodings of `serde`.
* The slave's and master's pass-through methods (`subscribe`, `close`,
  `send_header`), which are the bus's own.
* `health` and `metrics`, which read counters one by one: a snapshot is not
  atomic, and no code depends on it.
* Wrap-around of the 64-bit counters and of `usize` lengths, out of reach of a
  program's life.
