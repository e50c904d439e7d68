------------------------------ MODULE MasterNode ------------------------------
(***************************************************************************)
(* MasterNode, src/master/mod.rs: the task that owns the node installs a   *)
(* schedule table and runs it.  Both take `&mut self` or `&self` of the    *)
(* one owner, so a node is in one call at a time; `run` holds its own      *)
(* table and shares only the bus with the rest of the program.             *)
(*                                                                         *)
(* The delay of a slot is a sleep of any length, and the deadline of a     *)
(* context passes at any moment (Expire).                                  *)
(***************************************************************************)
EXTENDS LinBus, Sequences

CONSTANT Tables         \* the schedules (sequences of ids) ever asked for

ASSUME MasterAssumption == Tables \subseteq Seq(Nat)

VARIABLES
    table,          \* MasterNode.schedule
    wanted,         \* set_schedule: its argument
    mpc,            \* where the owner is in set_schedule or run
    slot,           \* run: the slot it is in (i + 1)
    ctx,            \* run: the deadline of its context: none, ahead or passed
    answer,         \* run: what send_header returned for the slot
    late            \* history: headers answered since the deadline passed, up to 2

masterVars == <<table, wanted, mpc, slot, ctx, answer, late>>

MasterInit ==
    /\ table = <<>>
    /\ wanted = <<>>
    /\ mpc = "idle"
    /\ slot = 1
    /\ ctx = "none"
    /\ answer = "error"
    /\ late = 0

MasterStep(from, to) == mpc = from /\ mpc' = to

\* The call returns, or its future is dropped: its locals are gone.
Leave ==
    /\ mpc' = "idle"
    /\ wanted' = <<>>
    /\ slot' = 1
    /\ ctx' = "none"
    /\ answer' = "error"
    /\ late' = 0

-----------------------------------------------------------------------------
(***************************************************************************)
(* set_schedule: checks, the bus's set_schedule, and the node's own copy   *)
(* as soon as the bus has returned Ok.                                     *)
(***************************************************************************)
set_schedule ==
    /\ MasterStep("idle", "setCheck")
    /\ wanted' \in Tables
    /\ UNCHANGED <<table, slot, ctx, answer, late, busVars>>

BadTable(entries) ==
    entries = <<>> \/ \E k \in DOMAIN entries : entries[k] > LIN_MAX_ID

RefuseTable ==
    /\ mpc = "setCheck"
    /\ BadTable(wanted) \/ closed
    /\ Leave
    /\ UNCHANGED <<table, busVars>>

AwaitSetLock ==
    /\ ~BadTable(wanted) /\ ~closed
    /\ MasterStep("setCheck", "setLock")
    /\ UNCHANGED <<table, wanted, slot, ctx, answer, late, busVars>>

InstallTable ==
    /\ mpc = "setLock"
    /\ schedule' = Range(wanted)
    /\ table' = wanted
    /\ Leave
    /\ UNCHANGED <<responses, closed>>

-----------------------------------------------------------------------------
(***************************************************************************)
(* run: for every slot the deadline, send_header (its check of `closed`,   *)
(* the lock, the exchange), a callback, the sleep, the deadline again.     *)
(***************************************************************************)
\* With an empty table run returns at once.
run ==
    /\ table # <<>>
    /\ MasterStep("idle", "top")
    /\ ctx' \in {"none", "ahead", "passed"}
    /\ UNCHANGED <<table, wanted, slot, answer, late, busVars>>

\* Faulty variant: a context without a deadline is the one that is done.
DoneWithoutDeadline == ctx = "none"

\* Context::done
Done == ctx = "passed"

TimeOut(label) ==
    /\ mpc = label
    /\ Done
    /\ Leave
    /\ UNCHANGED <<table, busVars>>

StartSlot ==
    /\ ~Done
    /\ MasterStep("top", "header")
    /\ UNCHANGED <<table, wanted, slot, ctx, answer, late, busVars>>

CountLate == late' = IF ctx = "passed" /\ late < 2 THEN late + 1 ELSE late

RefuseHeader ==
    /\ closed
    /\ MasterStep("header", "callback")
    /\ answer' = "error"
    /\ CountLate
    /\ UNCHANGED <<table, wanted, slot, ctx, busVars>>

AwaitHeaderLock ==
    /\ ~closed
    /\ MasterStep("header", "lock")
    /\ UNCHANGED <<table, wanted, slot, ctx, answer, late, busVars>>

Exchange ==
    /\ MasterStep("lock", "callback")
    /\ answer' = IF Answers(table[slot]) THEN "frame" ELSE "error"
    /\ CountLate
    /\ UNCHANGED <<table, wanted, slot, ctx, busVars>>

\* on_frame or on_error, then the sleep.
Callback ==
    /\ MasterStep("callback", "sleep")
    /\ UNCHANGED <<table, wanted, slot, ctx, answer, late, busVars>>

\* Faulty variant: a slot that failed is tried again.
RetrySlot == IF answer = "error" THEN slot ELSE (slot % Len(table)) + 1

NextSlot == (slot % Len(table)) + 1

\* The sleep is over, the deadline is not.
Wake ==
    /\ ~Done
    /\ MasterStep("sleep", "top")
    /\ slot' = NextSlot
    /\ UNCHANGED <<table, wanted, ctx, answer, late, busVars>>

\* The owner drops the future at one of its awaits.
CancelMaster ==
    /\ mpc \in {"setLock", "lock", "sleep"}
    /\ Leave
    /\ UNCHANGED <<table, busVars>>

\* The deadline passes.
Expire ==
    /\ ctx = "ahead"
    /\ ctx' = "passed"
    /\ UNCHANGED <<table, wanted, mpc, slot, answer, late, busVars>>

Run ==
    \/ TimeOut("top") \/ TimeOut("sleep")
    \/ StartSlot \/ RefuseHeader \/ AwaitHeaderLock \/ Exchange \/ Callback \/ Wake

MasterNext ==
    \/ set_schedule \/ RefuseTable \/ AwaitSetLock \/ InstallTable
    \/ run \/ Run \/ CancelMaster \/ Expire

-----------------------------------------------------------------------------
Running == mpc \in {"top", "header", "lock", "callback", "sleep"}

\* Type correctness, and that `self.schedule[i]` is in range with an id a bus
\* takes, throughout a run.
MasterTypeOK ==
    /\ table \in Seq(0 .. LIN_MAX_ID)
    /\ wanted \in Seq(Nat)
    /\ mpc \in {"idle", "setCheck", "setLock", "top", "header", "lock", "callback", "sleep"}
    /\ Running => slot \in 1 .. Len(table)
    /\ ctx \in {"none", "ahead", "passed"}
    /\ answer \in {"frame", "error"}
    /\ late \in Nat

\* A run drives at most one header that is answered after its deadline: the
\* one under way when it passed, however long the bus or the slot took
\* (master/mod.rs:105-121).
OneLateHeader == Running => late <= 1

\* A run whose deadline has passed ends.
RunEndsAtDeadline == Running /\ ctx = "passed" ~> ~Running

\* on_frame is called with a frame for id.
Heard(id) == mpc = "callback" /\ table[slot] = id /\ answer = "frame"

\* No slot starves: an id of the running table is heard, unless the run ends
\* or the bus stops answering for it; failing slots beside it do not hold it
\* up (master/mod.rs:110-123).
SlotsHeard ==
    \A id \in UNION {Range(t) : t \in Tables} :
        Running /\ id \in Range(table)
            ~> \/ Heard(id)
               \/ ~Running
               \/ closed
               \/ ~Answers(id)

\* "An empty slice is valid and disables scheduled transmission. Safe to call
\* while running" (bus.rs:212-213): an empty schedule on the bus ends the run.
EmptyScheduleStops == Running /\ schedule = {} ~> ~Running \/ schedule # {}
=============================================================================
