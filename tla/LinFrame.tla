------------------------------ MODULE LinFrame ------------------------------
(***************************************************************************)
(* Frames as src/frame.rs defines them, as far as the bus looks at them: a *)
(* payload is its length, and the checksum is its type.                    *)
(***************************************************************************)
EXTENDS Naturals

LIN_MAX_DATA_LEN == 8
LIN_MAX_ID == 63
Diagnostic == {60, 61}      \* LIN_DIAG_REQUEST_ID, LIN_DIAG_RESPONSE_ID

ChecksumType == {"Classic", "Enhanced"}

\* A slave response as the bus stores it, and a frame with the number of the
\* exchange that produced it.
Response == [len : Nat, ct : ChecksumType]
Frame == [n : Nat, id : Nat, len : Nat, ct : ChecksumType]

\* validate_frame returns Ok.
validate_frame(f) ==
    /\ f.id <= LIN_MAX_ID
    /\ f.len # 0
    /\ f.len <= LIN_MAX_DATA_LEN
    /\ f.id \in Diagnostic => f.ct = "Classic"

\* Faulty variant: publish keeps the checksum type it was asked for.
ChecksumAsked(id, ct) == ct

\* publish stores diagnostic responses with the classic checksum whatever was
\* asked for.
ChecksumFor(id, ct) == IF id \in Diagnostic THEN "Classic" ELSE ct

Filter == [id : Nat, all : BOOLEAN]

\* Faulty variant: no filter at all takes nothing.
MatchesListed(filters, f) == \E x \in filters : x.all \/ x.id = f.id

\* VirtualSub::matches over Filter::matches; no filter at all takes everything.
Matches(filters, f) == filters = {} \/ \E x \in filters : x.all \/ x.id = f.id
=============================================================================
