-------------------------------- MODULE Codec --------------------------------
(***************************************************************************)
(* Frames as they go on the wire: the protected identifier and checksum of *)
(* src/frame.rs, over bytes as the numbers 0 .. 255.                       *)
(***************************************************************************)
EXTENDS LinFrame, SequencesExt

Byte == 0 .. 255

Bit(n, k) == (n \div 2^k) % 2

\* byte with its bit k inverted.
Flip(byte, k) == IF Bit(byte, k) = 1 THEN byte - 2^k ELSE byte + 2^k

\* Faulty variant: P0 without ID2.
P0Short(id) == (Bit(id, 0) + Bit(id, 1) + Bit(id, 4)) % 2

P0(id) == (Bit(id, 0) + Bit(id, 1) + Bit(id, 2) + Bit(id, 4)) % 2
P1(id) == (1 + Bit(id, 1) + Bit(id, 3) + Bit(id, 4) + Bit(id, 5)) % 2

\* The six bits of an identifier, the rest masked off.
RawId(pid) == pid % 64

protect_id(byte) == LET id == RawId(byte) IN id + 64 * P0(id) + 128 * P1(id)

\* verify_pid returns Ok, and then RawId(pid).
verify_pid(pid) == protect_id(RawId(pid)) = pid

\* One byte into the sum, the carry added back.
Carry(sum, byte) == IF sum + byte > 255 THEN sum + byte - 255 ELSE sum + byte

calc_checksum(pid, data, ct) ==
    LET sum[n \in 0 .. Len(data)] ==
            IF n = 0 THEN (IF ct = "Enhanced" THEN pid ELSE 0)
                     ELSE Carry(sum[n - 1], data[n])
    IN  255 - sum[Len(data)]

-----------------------------------------------------------------------------
\* A frame of the bus, with its bytes.
WireFrame(id, data, ct) ==
    [id |-> id, data |-> data, checksum |-> calc_checksum(protect_id(id), data, ct),
     checksum_type |-> ct]

ValidWireFrame(f) ==
    validate_frame([id |-> f.id, len |-> Len(f.data), ct |-> f.checksum_type])
=============================================================================
