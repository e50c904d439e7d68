--------------------------------- MODULE E2E ---------------------------------
(***************************************************************************)
(* End-to-end protection, src/safety/mod.rs: threads that share one        *)
(* Protector, a link, and a Receiver.                                      *)
(*                                                                         *)
(* A protected payload is its number among the calls of protect, its       *)
(* counter, and what unwrap finds of it: long enough for a header, the     *)
(* CRC right, the identifiers those of the receiver.  Damage is a short    *)
(* frame, or a change the CRC detects.                                     *)
(*                                                                         *)
(* The link is the environment (the library leaves the transport to its    *)
(* user): it may lose, duplicate, damage and swap frames and carry those   *)
(* of another Protector, MaxFaults times in all.  Several threads in       *)
(* unwrap are a swap: only the part under the lock of `inner` has state.   *)
(***************************************************************************)
EXTENDS Integers, SequencesExt

CONSTANTS
    Senders,        \* threads that call protect and put the result on the link
    Modulus,        \* the counter's: 2^32 in the code
    MaxFrames,      \* bound: calls of protect
    MaxLink,        \* bound: frames on the link
    MaxFaults       \* bound: what the link does to frames

ASSUME E2EAssumption ==
    /\ Modulus \in Nat \ {0, 1}
    /\ MaxFrames \in Nat
    /\ MaxLink \in Nat
    /\ MaxFaults \in Nat

VARIABLES
    seq,            \* Protector.seq
    hand,           \* the protected payload a thread is about to send
    link,           \* the frames on the link, the next to arrive first
    last_seq,       \* ReceiverInner.last_seq
    first,          \* ReceiverInner.first
    faults,         \* what the link may still do
    drawn,          \* history: calls of protect
    put,            \* history: the frames put on the link, in order
    accepted        \* history: the payloads unwrap returned, in order

protectorVars == <<seq, hand, drawn>>
receiverVars == <<last_seq, first, accepted>>
vars == <<protectorVars, receiverVars, link, faults, put>>

Counter == 0 .. Modulus - 1
Condition == {"good", "short", "badCrc", "foreign"}
Payload == [n : Nat, seq : Counter, is : Condition]

\* wrapping_add(1), fetch_add(1)
Inc(c) == (c + 1) % Modulus

Init ==
    /\ seq = 0
    /\ hand = [t \in Senders |-> {}]
    /\ link = <<>>
    /\ last_seq = 0
    /\ first = TRUE
    /\ faults = MaxFaults
    /\ drawn = 0
    /\ put = <<>>
    /\ accepted = <<>>

-----------------------------------------------------------------------------
\* Faulty variant: a load and a store, between which another thread's fall.
FetchAddTorn == seq' \in {seq, Inc(seq)}

FetchAdd == seq' = Inc(seq)

\* protect: the counter's value goes into the header.
protect(t) ==
    /\ hand[t] = {}
    /\ drawn < MaxFrames
    /\ hand' = [hand EXCEPT ![t] = {[n |-> drawn, seq |-> seq, is |-> "good"]}]
    /\ FetchAdd
    /\ drawn' = drawn + 1
    /\ UNCHANGED <<receiverVars, link, faults, put>>

\* The thread puts the result on the link.
Transmit(t) ==
    /\ Len(link) < MaxLink
    /\ \E m \in hand[t] :
        /\ link' = Append(link, m)
        /\ put' = Append(put, m.n)
    /\ hand' = [hand EXCEPT ![t] = {}]
    /\ UNCHANGED <<seq, drawn, receiverVars, faults>>

-----------------------------------------------------------------------------
(***************************************************************************)
(* The link.                                                               *)
(***************************************************************************)
Fault ==
    /\ faults > 0
    /\ faults' = faults - 1
    /\ UNCHANGED <<protectorVars, receiverVars, put>>

Lose ==
    /\ Fault
    /\ \E i \in 1 .. Len(link) : link' = RemoveAt(link, i)

Duplicate ==
    /\ Fault
    /\ Len(link) < MaxLink
    /\ \E i \in 1 .. Len(link) : link' = Append(link, link[i])

Damage ==
    /\ Fault
    /\ \E i \in 1 .. Len(link), how \in {"short", "badCrc"} :
        link' = [link EXCEPT ![i].is = how]

Overtake ==
    /\ Fault
    /\ \E i \in 1 .. Len(link) - 1 :
        link' = [link EXCEPT ![i] = link[i + 1], ![i + 1] = link[i]]

\* A frame of another Protector, with any counter.
Stray ==
    /\ Fault
    /\ Len(link) < MaxLink
    /\ \E c \in Counter : link' = Append(link, [n |-> 0, seq |-> c, is |-> "foreign"])

-----------------------------------------------------------------------------
(***************************************************************************)
(* unwrap: the four checks, each of which leaves without a change, and     *)
(* the acceptance.                                                         *)
(***************************************************************************)
\* No HeaderTooShort, CrcMismatch or IdentifierMismatch.
Sound(m) == m.is = "good"

\* Faulty variant: the counter compared without its wrap.
ExpectedNoWrap(m) == first \/ m.seq = last_seq + 1

\* No SequenceGap: the first frame, or the one after the last.
Expected(m) == first \/ m.seq = Inc(last_seq)

Arrive == link # <<>> /\ link' = Tail(link)

Accept ==
    /\ Arrive
    /\ Sound(Head(link)) /\ Expected(Head(link))
    /\ last_seq' = Head(link).seq
    /\ first' = FALSE
    /\ accepted' = Append(accepted, [n |-> Head(link).n, is |-> Head(link).is])
    /\ UNCHANGED <<protectorVars, faults, put>>

\* Faulty variant: a frame that is turned away starts the sequence.
RejectSeeds ==
    /\ Arrive
    /\ ~(Sound(Head(link)) /\ Expected(Head(link)))
    /\ last_seq' = Head(link).seq
    /\ first' = FALSE
    /\ UNCHANGED <<protectorVars, accepted, faults, put>>

Reject ==
    /\ Arrive
    /\ ~(Sound(Head(link)) /\ Expected(Head(link)))
    /\ UNCHANGED <<protectorVars, receiverVars, faults, put>>

unwrap == Accept \/ Reject

-----------------------------------------------------------------------------
Next ==
    \/ \E t \in Senders : protect(t) \/ Transmit(t)
    \/ Lose \/ Duplicate \/ Damage \/ Overtake \/ Stray
    \/ unwrap

Spec == Init /\ [][Next]_vars

\* Threads put on the link what they protected, and the receiver reads it.
FairSpec ==
    /\ Spec
    /\ \A t \in Senders : WF_vars(Transmit(t))
    /\ WF_vars(unwrap)

-----------------------------------------------------------------------------
TypeOK ==
    /\ seq \in Counter
    /\ hand \in [Senders -> SUBSET Payload]
    /\ link \in Seq(Payload)
    /\ last_seq \in Counter
    /\ first \in BOOLEAN
    /\ faults \in Nat
    /\ drawn \in Nat
    /\ put \in Seq(Nat)
    /\ accepted \in Seq([n : Nat, is : Condition])

\* Nothing damaged or of another sender is returned.
OnlyOwn == \A i \in 1 .. Len(accepted) : accepted[i].is = "good"

\* Each payload returned is a whole number of turns of the counter away from
\* the next protect call after the one returned before it.
WholeTurns ==
    \A i \in 1 .. Len(accepted) - 1 :
        accepted[i + 1].n % Modulus = (accepted[i].n + 1) % Modulus

\* Of the frames on the link, a genuine one that continues what was returned
\* would be taken, as would any genuine one while nothing has been returned:
\* what was turned away on the way, for whatever reason, has left no trace.
NextTaken ==
    \A k \in 1 .. Len(link) :
        /\ Sound(link[k])
        /\ \/ accepted = <<>>
           \/ link[k].n % Modulus = (accepted[Len(accepted)].n + 1) % Modulus
        => Expected(link[k])

\* Whatever the link and the threads do, the receiver returns genuine payloads
\* only, and what it skips or repeats is a whole turn of the counter, never a few
\* frames; until the counter wraps it returns those of consecutive protect
\* calls.  And it stays ready for the next one: no frame it rejects, damaged,
\* foreign or out of turn, starts or moves the sequence (safety/mod.rs:200-257).
NoGapNoReplay ==
    /\ OnlyOwn
    /\ WholeTurns
    /\ NextTaken
    /\ drawn < Modulus =>
        \A i \in 1 .. Len(accepted) - 1 : accepted[i + 1].n = accepted[i].n + 1

\* The threads have put their frames on the link in the order of their counters.
InOrder == \A i \in 1 .. Len(put) : put[i] = i - 1

\* unwrap never rejects a frame of such threads while the link does its job,
\* however often the counter has wrapped: every frame put on the link has been
\* returned, in its place, or is still on the way (safety/mod.rs:243-257).
NoneRejected ==
    faults = MaxFaults /\ InOrder =>
        /\ Len(accepted) + Len(link) = Len(put)
        /\ \A i \in 1 .. Len(accepted) : accepted[i].n = put[i]

\* While the link does its job and the threads put their frames on it in the
\* order of their counters, every frame is returned, across the wrap too.
InOrderDelivered ==
    \A k \in 1 .. MaxFrames :
        (Len(put) >= k /\ \A i \in 1 .. k : put[i] = i - 1)
            ~> Len(accepted) >= k \/ faults < MaxFaults
=============================================================================
