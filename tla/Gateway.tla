------------------------------- MODULE Gateway -------------------------------
(***************************************************************************)
(* Two LIN buses with a RELAY network between them (src/adapt.rs): the     *)
(* adapter of the near bus publishes the messages it is sent, a header     *)
(* puts a frame on the bus, its adapter turns the frame into a message,    *)
(* and the adapter of the far bus publishes that.  The frame also goes out *)
(* on a line that inverts bits, to a receiver which checks it the way the  *)
(* crate documents.                                                        *)
(*                                                                         *)
(* The buses are VirtualBuses seen from outside, one call at a time; the   *)
(* channels between bus and adapter are those of Adapter.                  *)
(***************************************************************************)
EXTENDS Codec

CONSTANTS
    Messages,       \* the messages sent to the near adapter
    MaxSends,       \* bound: messages sent
    MaxFlips        \* bound: bits the line inverts in one frame

ASSUME GatewayAssumption ==
    /\ \A m \in Messages : m.payload \in Seq(Byte) /\ m.id.n \in Nat
    /\ MaxSends \in Nat /\ MaxFlips \in {0, 1}

VARIABLES
    near, far,      \* the responses of the two buses
    closed,         \* the near bus is closed
    told,           \* what send last returned
    frame,          \* the frame on the near bus, none or one
    line,           \* its bytes on the line, none or one
    heard,          \* what the receiver accepted, none or one
    relayed,        \* the frame has been relayed
    sends, flips    \* bounds

vars == <<near, far, closed, told, frame, line, heard, relayed, sends, flips>>

NoFrame == {}

Init ==
    /\ near = <<>> /\ far = <<>>
    /\ closed = FALSE
    /\ told = "Ok"
    /\ frame = NoFrame /\ line = NoFrame /\ heard = NoFrame
    /\ relayed = FALSE
    /\ sends = 0 /\ flips = 0

-----------------------------------------------------------------------------
(***************************************************************************)
(* Frames and messages                                                     *)
(***************************************************************************)
\* A text is a numeral in some form: the digits alone, with a plus sign or
\* leading zeros before them, or something else (hexadecimal, a name).
Decimal(n) == [form |-> "digits", n |-> n]

\* parse::<u8> returns Ok, and then text.n.
Parses(text) == text.form \in {"digits", "plus", "zeros"} /\ text.n \in Byte

MetaOf(f) ==
    [key \in {"lin.checksum_type", "lin.checksum"} |->
        IF key = "lin.checksum" THEN Decimal(f.checksum)
        ELSE IF f.checksum_type = "Classic" THEN "classic" ELSE "enhanced"]

IdText(f) == Decimal(f.id)

to_message(f) == [protocol |-> "Lin", id |-> IdText(f), payload |-> f.data, meta |-> MetaOf(f)]

\* from_message returns Ok: ids are decimal texts up to 63.
Converts(m) ==
    /\ m.protocol = "Lin"
    /\ Parses(m.id)
    /\ m.id.n <= LIN_MAX_ID

\* Faulty variant: another key than the one to_message writes.
ChecksumOtherKey(m) ==
    IF "lin.cs" \in DOMAIN m.meta /\ Parses(m.meta["lin.cs"])
    THEN m.meta["lin.cs"].n ELSE 0

\* A checksum that is missing or no byte is 0.
ChecksumIn(m) ==
    IF "lin.checksum" \in DOMAIN m.meta /\ Parses(m.meta["lin.checksum"])
    THEN m.meta["lin.checksum"].n ELSE 0

\* The frame it returns, with whatever checksum and payload the message has;
\* a type that is missing or unknown is Classic.
from_message(m) ==
    [id |-> m.id.n,
     data |-> m.payload,
     checksum |-> ChecksumIn(m),
     checksum_type |->
        IF "lin.checksum_type" \in DOMAIN m.meta /\ m.meta["lin.checksum_type"] = "enhanced"
        THEN "Enhanced" ELSE "Classic"]

-----------------------------------------------------------------------------
(***************************************************************************)
(* The adapter's send                                                      *)
(***************************************************************************)
\* Error::kind, the RELAY error of a LIN error; send makes Closed of none.
Kind(e) == CASE e = "NoResponse" -> {"Timeout"}
             [] e \in {"Closed", "NotConnected", "Timeout", "PayloadTooLarge"} -> {e}
             [] OTHER -> {}
KindOrClosed(e) == IF Kind(e) = {} THEN "Closed" ELSE CHOOSE k \in Kind(e) : TRUE

\* What send returns; the bus looks at closed before anything else.
SendResult(m, busClosed) ==
    IF Len(m.payload) > LIN_MAX_DATA_LEN THEN "PayloadTooLarge"
    ELSE IF ~Converts(m) THEN KindOrClosed("InvalidFrame")
    ELSE IF busClosed THEN KindOrClosed("Closed")
    ELSE "Ok"

\* publish: the message's checksum goes no further, its type is Enhanced, or
\* Classic for a diagnostic id.
Publish(bus, m) ==
    LET f == from_message(m)
        r == [data |-> f.data, ct |-> ChecksumFor(f.id, "Enhanced")]
    IN  [i \in DOMAIN bus \cup {f.id} |-> IF i = f.id THEN r ELSE bus[i]]

Send(m) ==
    /\ sends < MaxSends
    /\ told' = SendResult(m, closed)
    /\ near' = IF told' = "Ok" THEN Publish(near, m) ELSE near
    /\ sends' = sends + 1
    /\ UNCHANGED <<far, closed, frame, line, heard, relayed, flips>>

\* close of the adapter closes its bus.
Close ==
    /\ closed' = TRUE
    /\ UNCHANGED <<near, far, told, frame, line, heard, relayed, sends, flips>>

-----------------------------------------------------------------------------
(***************************************************************************)
(* send_header on the near bus, and the way of its frame                   *)
(***************************************************************************)
Bytes(f) == <<protect_id(f.id)>> \o f.data \o <<f.checksum>>

Header(id) ==
    /\ ~closed
    /\ frame = NoFrame
    /\ id \in DOMAIN near
    /\ LET f == WireFrame(id, near[id].data, near[id].ct)
       IN  /\ ValidWireFrame(f)
           /\ frame' = {f}
           /\ line' = {[bytes |-> Bytes(f), ct |-> f.checksum_type]}
    /\ UNCHANGED <<near, far, closed, told, heard, relayed, sends, flips>>

\* The adapters of the two buses, one subscribed, the other sent to.
Relay ==
    \E f \in frame :
        /\ ~relayed
        /\ told' = SendResult(to_message(f), FALSE)
        /\ far' = IF told' = "Ok" THEN Publish(far, to_message(f)) ELSE far
        /\ relayed' = TRUE
        /\ UNCHANGED <<near, closed, frame, line, heard, sends, flips>>

\* The line inverts a bit.
Noise ==
    \E l \in line :
        /\ flips < MaxFlips
        /\ flips' = flips + 1
        /\ \E i \in DOMAIN l.bytes, k \in 0 .. 7 :
               line' = {[l EXCEPT !.bytes[i] = Flip(@, k)]}
        /\ UNCHANGED <<near, far, closed, told, frame, heard, relayed, sends>>

\* The receiver of SAFETY_MANUAL.md 7.1: verify_pid, validate_frame, then the
\* checksum against that of calc_checksum; it knows the type.
Accepted(l) ==
    LET pid == l.bytes[1]
        data == SubSeq(l.bytes, 2, Len(l.bytes) - 1)
    IN  {f \in {[id |-> RawId(pid), data |-> data, checksum |-> Last(l.bytes), checksum_type |-> l.ct]} :
            /\ verify_pid(pid)
            /\ ValidWireFrame(f)
            /\ f.checksum = calc_checksum(protect_id(f.id), data, l.ct)}

Listen ==
    \E l \in line :
        /\ heard' = Accepted(l)
        /\ line' = NoFrame
        /\ UNCHANGED <<near, far, closed, told, frame, relayed, sends, flips>>

Next ==
    \/ \E m \in Messages : Send(m)
    \/ \E id \in DOMAIN near : Header(id)
    \/ Close \/ Relay \/ Noise \/ Listen

Spec == Init /\ [][Next]_vars

-----------------------------------------------------------------------------
\* What the receiver accepts was sent: an inverted bit, in the identifier, the
\* payload or the checksum, never gets through, and a clean frame always does
\* (verify_pid, calc_checksum, frame.rs:160-214).
HeardIsSent ==
    frame # NoFrame /\ line = NoFrame => heard = IF flips = 0 THEN frame ELSE {}

\* The far bus answers the id with the very bytes the near bus did: no text,
\* type or default on the way through message and publish loses anything, and
\* the message itself still converts to the frame (adapt.rs:28-92, 129-139).
RelayedAlike ==
    \A f \in frame : relayed =>
        /\ f.id \in DOMAIN far
        /\ WireFrame(f.id, far[f.id].data, far[f.id].ct) = f
        /\ from_message(to_message(f)) = f
=============================================================================
