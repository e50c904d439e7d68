---------------------------- MODULE Gateway_proofs ----------------------------
(***************************************************************************)
(* Theorems about the gateway, for every set of messages: payloads of any  *)
(* bytes and length.                                                       *)
(*                                                                         *)
(* calc_checksum is a fold, and what it returns is shown by induction on   *)
(* the bytes summed: their plain sum with its carries added back at once   *)
(* (ChecksumClosed), and a byte more in one payload than in another leaves *)
(* the sums that much apart, give or take a carry (SumsApart), so an       *)
(* inverted bit shows (FlipChangesChecksum).  GatewayInv then follows the  *)
(* frame over the line and through the relay.                              *)
(***************************************************************************)
EXTENDS Gateway, WellFoundedInduction, TLAPS

(***************************************************************************)
(* Induction and the checksum.                                             *)
(***************************************************************************)
\* A set of natural numbers that is not empty has a least member.
LEMMA Least ==
    ASSUME NEW S \in SUBSET Nat, S # {}
    PROVE  \E n \in S : \A m \in S : n <= m
  <1>1. PICK n \in S : \A m \in S : ~(<<m, n>> \in OpToRel(<, Nat))
    BY NatLessThanWellFounded, WFMin
  <1>2. \A m \in S : ~(m < n)
    BY <1>1 DEF OpToRel
  <1>. QED
    BY <1>2

\* Induction, with the set of the numbers that have the property.
LEMMA Induction ==
    ASSUME NEW S, 0 \in S, \A n \in Nat : n \in S => n + 1 \in S
    PROVE  Nat \subseteq S
  <1> DEFINE T == {n \in Nat : n \notin S}
  <1> SUFFICES ASSUME T # {} PROVE FALSE
    OBVIOUS
  <1>1. PICK n \in T : \A m \in T : n <= m
    <2>1. T \in SUBSET Nat
      OBVIOUS
    <2> HIDE DEF T
    <2>. QED
      BY <2>1, Least
  <1>2. n # 0 /\ n - 1 \in Nat
    OBVIOUS
  <1>3. n - 1 \in S
    BY <1>1, <1>2
  <1>. QED
    BY <1>2, <1>3

\* s holds the sums of data's first bytes, from start.
Sums(s, start, data) ==
    /\ s \in [0 .. Len(data) -> Byte]
    /\ s[0] = start
    /\ \A n \in 1 .. Len(data) : s[n] = Carry(s[n - 1], data[n])

\* The sum of two bytes with its carry is a byte.
LEMMA CarryType == \A a, b \in Byte : Carry(a, b) \in Byte
  BY DEF Carry, Byte

\* The sums of a payload exist; it is CHOOSE that needs this.
LEMMA SumsExist ==
    ASSUME NEW start \in Byte, NEW data \in Seq(Byte)
    PROVE  \E s : Sums(s, start, data)
  <1> DEFINE Upto(n, s) == /\ s \in [0 .. n -> Byte] /\ s[0] = start
                           /\ \A m \in 1 .. n : s[m] = Carry(s[m - 1], data[m])
             S == {n \in Nat : n <= Len(data) => \E s : Upto(n, s)}
  <1>1. 0 \in S
    <2>1. Upto(0, [m \in {0} |-> start])
      OBVIOUS
    <2>. QED
      BY <2>1
  <1>2. ASSUME NEW n \in Nat, n \in S, n + 1 <= Len(data)
        PROVE  \E s : Upto(n + 1, s)
    <2>1. PICK s : Upto(n, s)
      BY <1>2
    <2> DEFINE u == [m \in 0 .. n + 1 |-> IF m = n + 1 THEN Carry(s[n], data[n + 1]) ELSE s[m]]
    <2>2. data[n + 1] \in Byte /\ s[n] \in Byte
      BY <1>2, <2>1
    <2>3. Carry(s[n], data[n + 1]) \in Byte
      BY <2>2, CarryType
    <2>4. u \in [0 .. n + 1 -> Byte] /\ u[0] = start
      BY <2>1, <2>3
    <2>5. ASSUME NEW m \in 1 .. n + 1 PROVE u[m] = Carry(u[m - 1], data[m])
      BY <2>1, <2>5
    <2>. QED
      BY <2>4, <2>5
  <1>3. Nat \subseteq S
    <2> HIDE DEF Upto
    <2>1. \A n \in Nat : n \in S => n + 1 \in S
      BY <1>2
    <2> HIDE DEF S
    <2>. QED
      BY <1>1, <2>1, Induction
  <1>4. \E s : Upto(Len(data), s)
    BY <1>3
  <1>. QED
    BY <1>4 DEF Sums

\* calc_checksum complements the last of the sums.
LEMMA ChecksumIsSum ==
    ASSUME NEW pid \in Byte, NEW data \in Seq(Byte), NEW ct
    PROVE  \E s : /\ Sums(s, IF ct = "Enhanced" THEN pid ELSE 0, data)
                  /\ s[Len(data)] \in Byte
                  /\ calc_checksum(pid, data, ct) = 255 - s[Len(data)]
  <1> DEFINE start == IF ct = "Enhanced" THEN pid ELSE 0
             Def(s) == [n \in 0 .. Len(data) |-> IF n = 0 THEN start ELSE Carry(s[n - 1], data[n])]
             sum == CHOOSE s : s = Def(s)
  <1>1. start \in Byte
    BY DEF Byte
  <1>2. calc_checksum(pid, data, ct) = 255 - sum[Len(data)]
    BY DEF calc_checksum
  <1> HIDE DEF start
  <1>3. PICK s : Sums(s, start, data)
    BY <1>1, SumsExist
  <1>4. s = Def(s)
    BY <1>3 DEF Sums
  <1>5. sum = Def(sum)
    BY <1>4
  <1>6. \A n \in 0 .. Len(data) : sum[n] = s[n]
    <2> HIDE DEF sum
    <2> DEFINE S == {n \in Nat : n <= Len(data) => sum[n] = s[n]}
    <2>1. 0 \in S
      BY <1>3, <1>5 DEF Sums
    <2>2. ASSUME NEW n \in Nat, n \in S, n + 1 <= Len(data)
          PROVE  sum[n + 1] = s[n + 1]
      <3>1. n + 1 \in 1 .. Len(data) /\ n + 1 \in 0 .. Len(data) /\ n + 1 # 0 /\ (n + 1) - 1 = n
        BY <2>2
      <3>2. sum[n + 1] = Carry(sum[n], data[n + 1])
        BY <1>5, <3>1
      <3>3. s[n + 1] = Carry(s[n], data[n + 1])
        BY <1>3, <3>1 DEF Sums
      <3>. QED
        BY <2>2, <3>2, <3>3
    <2>3. \A n \in Nat : n \in S => n + 1 \in S
      BY <2>2
    <2> HIDE DEF S
    <2>4. Nat \subseteq S
      BY <2>1, <2>3, Induction
    <2>. QED
      BY <2>4 DEF S
  <1>7. sum[Len(data)] = s[Len(data)]
    BY <1>6
  <1> HIDE DEF sum
  <1>8. s[Len(data)] \in Byte
    BY <1>3 DEF Sums
  <1>. QED
    BY <1>2, <1>3, <1>7, <1>8 DEF start

\* The plain sums of data's first bytes, from start.
Totals(s, start, data) ==
    /\ s \in [0 .. Len(data) -> Nat]
    /\ s[0] = start
    /\ \A n \in 1 .. Len(data) : s[n] = s[n - 1] + data[n]

\* What is left of a sum when its carries are added back: 255 is kept, and 0
\* comes of nothing but zeros.
Folded(sum) == IF sum = 0 THEN 0 ELSE 1 + ((sum - 1) % 255)

\* To fold a sum is to add back each carry as it comes.
LEMMA FoldCarries ==
    ASSUME NEW sum \in Nat, NEW byte \in Byte
    PROVE  Folded(sum + byte) = Carry(Folded(sum), byte)
  <1>0. byte \in 0 .. 255
    BY DEF Byte
  <1>1. CASE sum = 0
    <2>1. byte = 0 \/ (byte - 1 \in 0 .. 254 /\ (byte - 1) % 255 = byte - 1)
      BY <1>0
    <2>. QED
      BY <1>0, <1>1, <2>1 DEF Folded, Carry
  <1>2. CASE sum # 0
    <2>1. PICK r \in 0 .. 254 : r = (sum - 1) % 255
      BY <1>2
    <2>2. PICK total \in Nat : total = sum + byte /\ total # 0
      BY <1>0, <1>2
    <2>3. (total - 1) % 255 = IF r + byte > 254 THEN r + byte - 255 ELSE r + byte
      BY <1>0, <1>2, <2>1, <2>2
    <2>4. Folded(sum) = 1 + r /\ Folded(total) = 1 + ((total - 1) % 255)
      BY <1>2, <2>1, <2>2 DEF Folded
    <2>5. Folded(total) = Carry(Folded(sum), byte)
      BY <1>0, <2>3, <2>4 DEF Carry
    <2>. QED
      BY <2>2, <2>5
  <1>. QED
    BY <1>1, <1>2

\* The plain sums of a payload exist.
LEMMA TotalsExist ==
    ASSUME NEW start \in Byte, NEW data \in Seq(Byte)
    PROVE  \E s : Totals(s, start, data)
  <1> DEFINE Upto(n, s) == /\ s \in [0 .. n -> Nat] /\ s[0] = start
                           /\ \A m \in 1 .. n : s[m] = s[m - 1] + data[m]
             S == {n \in Nat : n <= Len(data) => \E s : Upto(n, s)}
  <1>0. Byte \subseteq Nat
    BY DEF Byte
  <1>1. 0 \in S
    <2>1. Upto(0, [m \in {0} |-> start])
      BY <1>0
    <2>. QED
      BY <2>1
  <1>2. ASSUME NEW n \in Nat, n \in S, n + 1 <= Len(data)
        PROVE  \E s : Upto(n + 1, s)
    <2>1. PICK s : Upto(n, s)
      BY <1>2
    <2> DEFINE u == [m \in 0 .. n + 1 |-> IF m = n + 1 THEN s[n] + data[n + 1] ELSE s[m]]
    <2>2. data[n + 1] \in Nat /\ s[n] \in Nat
      <3>1. data[n + 1] \in Byte
        BY <1>2
      <3>2. data[n + 1] \in Nat
        BY <1>0, <3>1
      <3>. QED
        BY <2>1, <3>2
    <2>3. s[n] + data[n + 1] \in Nat
      BY <2>2
    <2>4. u \in [0 .. n + 1 -> Nat] /\ u[0] = start
      BY <2>1, <2>3
    <2>5. ASSUME NEW m \in 1 .. n + 1 PROVE u[m] = u[m - 1] + data[m]
      <3>1. CASE m = n + 1
        <4>1. m \in 0 .. n + 1 /\ m - 1 \in 0 .. n + 1 /\ m - 1 # n + 1 /\ m - 1 = n
          BY <3>1
        <4>. QED
          BY <3>1, <4>1
      <3>2. CASE m # n + 1
        <4>1. m \in 0 .. n + 1 /\ m - 1 \in 0 .. n + 1 /\ m - 1 # n + 1 /\ m \in 1 .. n
          BY <3>2
        <4>. QED
          BY <2>1, <3>2, <4>1
      <3>. QED
        BY <3>1, <3>2
    <2>. QED
      BY <2>4, <2>5
  <1>3. Nat \subseteq S
    <2> HIDE DEF Upto
    <2>1. \A n \in Nat : n \in S => n + 1 \in S
      BY <1>2
    <2> HIDE DEF S
    <2>. QED
      BY <1>1, <2>1, Induction
  <1>4. \E s : Upto(Len(data), s)
    BY <1>3
  <1>. QED
    BY <1>4 DEF Totals

\* Sum and carry of one byte after another come to the plain sum, folded once.
LEMMA SumsFold ==
    ASSUME NEW start \in Byte, NEW data \in Seq(Byte),
           NEW s, Sums(s, start, data), NEW t, Totals(t, start, data)
    PROVE  s[Len(data)] = Folded(t[Len(data)])
  <1> DEFINE S == {n \in Nat : n <= Len(data) => s[n] = Folded(t[n])}
  <1>1. 0 \in S
    <2>1. start \in 0 .. 255
      BY DEF Byte
    <2>2. start = 0 \/ (start - 1 \in 0 .. 254 /\ (start - 1) % 255 = start - 1)
      BY <2>1
    <2>3. Folded(start) = start
      BY <2>1, <2>2 DEF Folded
    <2>. QED
      BY <2>3 DEF Sums, Totals
  <1>2. ASSUME NEW n \in Nat, n \in S, n + 1 <= Len(data)
        PROVE  s[n + 1] = Folded(t[n + 1])
    <2>1. n + 1 \in 1 .. Len(data) /\ n \in 0 .. Len(data) /\ (n + 1) - 1 = n
      BY <1>2
    <2>2. t[n] \in Nat /\ data[n + 1] \in Byte /\ s[n] = Folded(t[n])
      BY <1>2, <2>1 DEF Totals
    <2>3. s[n + 1] = Carry(s[n], data[n + 1]) /\ t[n + 1] = t[n] + data[n + 1]
      BY <2>1 DEF Sums, Totals
    <2>. QED
      BY <2>2, <2>3, FoldCarries
  <1>3. Nat \subseteq S
    <2>1. \A n \in Nat : n \in S => n + 1 \in S
      BY <1>2
    <2> HIDE DEF S
    <2>. QED
      BY <1>1, <2>1, Induction
  <1>. QED
    BY <1>3

\* What calc_checksum computes, for every payload: the complement of the plain
\* sum of the bytes, folded into one (the definition LIN gives, where the code
\* adds the carry back after each byte).
THEOREM ChecksumClosed ==
    ASSUME NEW pid \in Byte, NEW data \in Seq(Byte), NEW ct
    PROVE  \E t : /\ Totals(t, IF ct = "Enhanced" THEN pid ELSE 0, data)
                  /\ calc_checksum(pid, data, ct) = 255 - Folded(t[Len(data)])
  <1> DEFINE start == IF ct = "Enhanced" THEN pid ELSE 0
  <1>1. start \in Byte
    BY DEF Byte
  <1>2. PICK s : Sums(s, start, data) /\ calc_checksum(pid, data, ct) = 255 - s[Len(data)]
    BY ChecksumIsSum
  <1> HIDE DEF start
  <1>3. PICK t : Totals(t, start, data)
    BY <1>1, TotalsExist
  <1>4. s[Len(data)] = Folded(t[Len(data)])
    BY <1>1, <1>2, <1>3, SumsFold
  <1>. QED
    BY <1>2, <1>3, <1>4 DEF start

\* a differs from b by d, give or take a carry.
Apart(a, b, d) == a = b + d \/ a = b + d + 255 \/ a = b + d - 255

\* Two sums that are d apart stay so under a byte that goes into both, ...
LEMMA StaysApart ==
    ASSUME NEW a \in Byte, NEW b \in Byte, NEW x \in Byte,
           NEW d \in Int, d <= 255, d + 255 >= 0, Apart(a, b, d)
    PROVE  Apart(Carry(a, x), Carry(b, x), d)
  <1>1. a \in 0 .. 255 /\ b \in 0 .. 255 /\ x \in 0 .. 255
    BY DEF Byte
  <1>. QED
    BY <1>1 DEF Carry, Apart

\* ... and two bytes that go into one sum set it apart by their difference.
LEMMA ComesApart ==
    ASSUME NEW a \in Byte, NEW b \in Byte, NEW x \in Byte
    PROVE  /\ Apart(Carry(x, a), Carry(x, b), a - b)
           /\ a - b \in Int /\ a - b <= 255 /\ a - b + 255 >= 0
  <1>1. a \in 0 .. 255 /\ b \in 0 .. 255 /\ x \in 0 .. 255
    BY DEF Byte
  <1>. QED
    BY <1>1 DEF Carry, Apart

\* The sums of two payloads that differ in one byte end that difference apart.
LEMMA SumsApart ==
    ASSUME NEW start \in Byte, NEW data \in Seq(Byte), NEW i \in 1 .. Len(data), NEW byte \in Byte,
           NEW s, Sums(s, start, data),
           NEW t, Sums(t, start, [data EXCEPT ![i] = byte])
    PROVE  Apart(t[Len(data)], s[Len(data)], byte - data[i])
  <1> DEFINE d == byte - data[i]
             other == [data EXCEPT ![i] = byte]
             S == {n \in Nat : n <= Len(data) =>
                     IF n < i THEN t[n] = s[n] ELSE Apart(t[n], s[n], d)}
  <1>1. /\ other \in Seq(Byte) /\ Len(other) = Len(data) /\ other[i] = byte
        /\ \A n \in 1 .. Len(data) : n # i => other[n] = data[n]
        /\ data[i] \in Byte
    OBVIOUS
  <1>2. d \in Int /\ d <= 255 /\ d + 255 >= 0
    BY <1>1, ComesApart
  <1>3. 0 \in S
    BY DEF Sums
  <1>4. ASSUME NEW n \in Nat, n \in S, n + 1 <= Len(data)
        PROVE  IF n + 1 < i THEN t[n + 1] = s[n + 1] ELSE Apart(t[n + 1], s[n + 1], d)
    <2>1. n + 1 \in 1 .. Len(data) /\ n \in 0 .. Len(data) /\ (n + 1) - 1 = n
      BY <1>4
    <2>2. s[n] \in Byte /\ t[n] \in Byte /\ data[n + 1] \in Byte
      BY <1>1, <2>1 DEF Sums
    <2>3. s[n + 1] = Carry(s[n], data[n + 1]) /\ t[n + 1] = Carry(t[n], other[n + 1])
      BY <1>1, <2>1 DEF Sums
    <2> HIDE DEF other, d
    <2>4. CASE n + 1 < i
      <3>1. t[n] = s[n] /\ other[n + 1] = data[n + 1]
        BY <1>1, <1>4, <2>1, <2>4
      <3>2. t[n + 1] = s[n + 1]
        BY <2>3, <3>1
      <3>. QED
        BY <2>4, <3>2
    <2>5. CASE n + 1 = i
      <3>1. t[n] = s[n] /\ other[n + 1] = byte /\ data[n + 1] = data[i]
        BY <1>1, <1>4, <2>5
      <3>2. Apart(Carry(s[n], byte), Carry(s[n], data[i]), byte - data[i])
        BY <1>1, <2>2, ComesApart
      <3>3. Apart(t[n + 1], s[n + 1], d)
        BY <2>3, <3>1, <3>2 DEF d
      <3>. QED
        BY <2>5, <3>3
    <2>6. CASE n + 1 > i
      <3>1. Apart(t[n], s[n], d) /\ other[n + 1] = data[n + 1]
        BY <1>1, <1>4, <2>1, <2>6
      <3>2. Apart(t[n + 1], s[n + 1], d)
        BY <1>2, <2>2, <2>3, <3>1, StaysApart
      <3>. QED
        BY <2>6, <3>2
    <2>. QED
      BY <2>4, <2>5, <2>6
  <1>5. Nat \subseteq S
    <2>1. \A n \in Nat : n \in S => n + 1 \in S
      BY <1>4
    <2> HIDE DEF S
    <2>. QED
      BY <1>3, <2>1, Induction
  <1>6. Len(data) \in S /\ Len(data) >= i /\ Len(data) \in Nat
    BY <1>5
  <1> HIDE DEF d
  <1>7. Apart(t[Len(data)], s[Len(data)], d)
    BY <1>6
  <1>. QED
    BY <1>7 DEF d

\* An inverted bit changes a byte, by less than a full carry.
LEMMA FlipType ==
    ASSUME NEW b \in Byte, NEW k \in 0 .. 7
    PROVE  Flip(b, k) \in Byte /\ Flip(b, k) - b \notin {0, 255, -255}
  <1>1. k \in {0, 1, 2, 3, 4, 5, 6, 7}
    OBVIOUS
  <1>2. CASE k = 0
    BY <1>2 DEF Flip, Bit, Byte
  <1>3. CASE k = 1
    BY <1>3 DEF Flip, Bit, Byte
  <1>4. CASE k = 2
    BY <1>4 DEF Flip, Bit, Byte
  <1>5. CASE k = 3
    BY <1>5 DEF Flip, Bit, Byte
  <1>6. CASE k = 4
    BY <1>6 DEF Flip, Bit, Byte
  <1>7. CASE k = 5
    BY <1>7 DEF Flip, Bit, Byte
  <1>8. CASE k = 6
    BY <1>8 DEF Flip, Bit, Byte
  <1>9. CASE k = 7
    BY <1>9 DEF Flip, Bit, Byte
  <1>. QED
    BY <1>1, <1>2, <1>3, <1>4, <1>5, <1>6, <1>7, <1>8, <1>9

\* A protected identifier is a byte, verifies, and gives its identifier back.
LEMMA ProtectedVerifies ==
    ASSUME NEW id \in 0 .. LIN_MAX_ID
    PROVE  /\ protect_id(id) \in Byte /\ RawId(protect_id(id)) = id /\ verify_pid(protect_id(id))
  BY DEF protect_id, verify_pid, RawId, P0, P1, Bit, Byte, LIN_MAX_ID

\* With a bit inverted it does not verify.
LEMMA FlippedFails ==
    ASSUME NEW id \in 0 .. LIN_MAX_ID, NEW k \in 0 .. 7
    PROVE  ~verify_pid(Flip(protect_id(id), k))
  <1>1. k \in {0, 1, 2, 3, 4, 5, 6, 7} /\ id \in 0 .. 63
    BY DEF LIN_MAX_ID
  <1>2. CASE k = 0
    BY <1>1, <1>2, SMTT(40) DEF Flip, protect_id, verify_pid, RawId, P0, P1, Bit
  <1>3. CASE k = 1
    BY <1>1, <1>3, SMTT(40) DEF Flip, protect_id, verify_pid, RawId, P0, P1, Bit
  <1>4. CASE k = 2
    BY <1>1, <1>4, SMTT(40) DEF Flip, protect_id, verify_pid, RawId, P0, P1, Bit
  <1>5. CASE k = 3
    BY <1>1, <1>5, SMTT(40) DEF Flip, protect_id, verify_pid, RawId, P0, P1, Bit
  <1>6. CASE k = 4
    BY <1>1, <1>6, SMTT(40) DEF Flip, protect_id, verify_pid, RawId, P0, P1, Bit
  <1>7. CASE k = 5
    BY <1>1, <1>7, SMTT(40) DEF Flip, protect_id, verify_pid, RawId, P0, P1, Bit
  <1>8. CASE k = 6
    BY <1>1, <1>8, SMTT(40) DEF Flip, protect_id, verify_pid, RawId, P0, P1, Bit
  <1>9. CASE k = 7
    BY <1>1, <1>9, SMTT(40) DEF Flip, protect_id, verify_pid, RawId, P0, P1, Bit
  <1>. QED
    BY <1>1, <1>2, <1>3, <1>4, <1>5, <1>6, <1>7, <1>8, <1>9

\* A checksum is a byte.
LEMMA ChecksumByte ==
    ASSUME NEW pid \in Byte, NEW data \in Seq(Byte), NEW ct
    PROVE  calc_checksum(pid, data, ct) \in Byte
  <1>1. \A n \in Byte : 255 - n \in Byte
    BY DEF Byte
  <1>. QED
    BY <1>1, ChecksumIsSum

\* Sums that are less than a carry apart, but apart, are different.
LEMMA ApartDiffers ==
    ASSUME NEW a \in Byte, NEW b \in Byte, NEW d \in Int, d \notin {0, 255, -255}, Apart(a, b, d)
    PROVE  255 - a # 255 - b
  <1>1. a \in 0 .. 255 /\ b \in 0 .. 255
    BY DEF Byte
  <1>. QED
    BY <1>1 DEF Apart

\* An inverted bit of the payload changes the checksum.
LEMMA FlipChangesChecksum ==
    ASSUME NEW pid \in Byte, NEW data \in Seq(Byte), NEW ct, NEW i \in 1 .. Len(data), NEW k \in 0 .. 7
    PROVE  calc_checksum(pid, [data EXCEPT ![i] = Flip(data[i], k)], ct) # calc_checksum(pid, data, ct)
  <1> DEFINE start == IF ct = "Enhanced" THEN pid ELSE 0
             byte == Flip(data[i], k)
             other == [data EXCEPT ![i] = byte]
  <1>1. start \in Byte
    BY DEF Byte
  <1>2. byte \in Byte /\ byte - data[i] \in Int /\ byte - data[i] \notin {0, 255, -255}
    <2>1. data[i] \in Byte
      OBVIOUS
    <2>2. PICK b \in Byte : b = data[i]
      BY <2>1
    <2>3. Flip(b, k) \in Byte /\ Flip(b, k) - b \notin {0, 255, -255}
      BY FlipType, Zenon
    <2>4. byte = Flip(b, k)
      BY <2>2
    <2> HIDE DEF byte, other, start
    <2>5. byte \in Int /\ b \in Int
      BY <2>3, <2>4 DEF Byte
    <2>. QED
      BY <2>2, <2>3, <2>4, <2>5
  <1> HIDE DEF byte
  <1>3. other \in Seq(Byte) /\ Len(other) = Len(data)
    BY <1>2
  <1>4. PICK s : /\ Sums(s, start, data) /\ s[Len(data)] \in Byte
                 /\ calc_checksum(pid, data, ct) = 255 - s[Len(data)]
    BY ChecksumIsSum
  <1>5. PICK t : /\ Sums(t, start, other) /\ t[Len(data)] \in Byte
                 /\ calc_checksum(pid, other, ct) = 255 - t[Len(data)]
    <2> HIDE DEF other
    <2>1. PICK t : /\ Sums(t, start, other) /\ t[Len(other)] \in Byte
                   /\ calc_checksum(pid, other, ct) = 255 - t[Len(other)]
      BY <1>3, ChecksumIsSum, SMTT(30)
    <2>. QED
      BY <1>3, <2>1
  <1> HIDE DEF start
  <1>6. Apart(t[Len(data)], s[Len(data)], byte - data[i])
    BY <1>1, <1>2, <1>4, <1>5, SumsApart
  <1>7. 255 - t[Len(data)] # 255 - s[Len(data)]
    BY <1>2, <1>4, <1>5, <1>6, ApartDiffers
  <1>8. calc_checksum(pid, other, ct) # calc_checksum(pid, data, ct)
    BY <1>4, <1>5, <1>7
  <1>. QED
    BY <1>8 DEF byte

(***************************************************************************)
(* The line.                                                               *)
(***************************************************************************)
\* A frame the bus puts on the line.
OnWire(f) ==
    /\ f = WireFrame(f.id, f.data, f.checksum_type)
    /\ f.id \in 0 .. LIN_MAX_ID
    /\ f.data \in Seq(Byte)
    /\ f.checksum_type = ChecksumFor(f.id, "Enhanced")
    /\ ValidWireFrame(f)

\* Where the elements of two sequences are in their concatenation.
LEMMA Concat ==
    ASSUME NEW a \in Seq(Byte), NEW b \in Seq(Byte)
    PROVE  /\ a \o b \in Seq(Byte) /\ Len(a \o b) = Len(a) + Len(b)
           /\ \A i \in 1 .. Len(a) : (a \o b)[i] = a[i]
           /\ \A i \in 1 .. Len(b) : (a \o b)[Len(a) + i] = b[i]
  OBVIOUS

\* Where the parts of a frame are among its bytes.
LEMMA Layout ==
    ASSUME NEW f, OnWire(f)
    PROVE  /\ Bytes(f) \in Seq(Byte) /\ Len(Bytes(f)) = Len(f.data) + 2
           /\ Bytes(f)[1] = protect_id(f.id)
           /\ \A i \in 1 .. Len(f.data) : Bytes(f)[i + 1] = f.data[i]
           /\ Bytes(f)[Len(f.data) + 2] = f.checksum
           /\ f.checksum = calc_checksum(protect_id(f.id), f.data, f.checksum_type)
           /\ f.checksum \in Byte /\ protect_id(f.id) \in Byte
  <1>1. f.checksum = calc_checksum(protect_id(f.id), f.data, f.checksum_type)
    BY DEF OnWire, WireFrame
  <1>2. f.data \in Seq(Byte) /\ protect_id(f.id) \in Byte
    BY ProtectedVerifies DEF OnWire
  <1>3. f.checksum \in Byte
    BY <1>1, <1>2, ChecksumByte
  <1> DEFINE a == <<protect_id(f.id)>>
             c == <<f.checksum>>
  <1>4. a \in Seq(Byte) /\ Len(a) = 1 /\ a[1] = protect_id(f.id)
    BY <1>2
  <1>5. c \in Seq(Byte) /\ Len(c) = 1 /\ c[1] = f.checksum
    BY <1>3
  <1>6. Bytes(f) = a \o f.data \o c
    BY DEF Bytes
  <1> DEFINE n == Len(f.data)
             ad == a \o f.data
  <1> HIDE DEF a, c
  <1>7. n \in Nat
    BY <1>2
  <1>8. /\ ad \in Seq(Byte) /\ Len(ad) = n + 1 /\ ad[1] = protect_id(f.id)
        /\ \A i \in 1 .. n : ad[i + 1] = f.data[i]
    <2>1. /\ ad \in Seq(Byte) /\ Len(ad) = 1 + n
          /\ \A i \in 1 .. 1 : ad[i] = a[i]
          /\ \A i \in 1 .. n : ad[1 + i] = f.data[i]
      <3>1. a \in Seq(Byte) /\ f.data \in Seq(Byte) /\ 1 = Len(a)
        BY <1>2, <1>4
      <3>2. /\ a \o f.data \in Seq(Byte) /\ Len(a \o f.data) = Len(a) + n
            /\ \A i \in 1 .. Len(a) : (a \o f.data)[i] = a[i]
            /\ \A i \in 1 .. n : (a \o f.data)[Len(a) + i] = f.data[i]
        BY <3>1, Concat, Zenon
      <3>. QED
        BY <3>1, <3>2, Zenon
    <2> HIDE DEF ad
    <2>2. 1 \in 1 .. 1 /\ \A i \in 1 .. n : 1 + i = i + 1
      BY <1>7
    <2>. QED
      BY <1>4, <1>7, <2>1, <2>2
  <1>9. Bytes(f) = ad \o c
    BY <1>6
  <1> HIDE DEF ad
  <1>10. /\ Bytes(f) \in Seq(Byte) /\ Len(Bytes(f)) = n + 2
         /\ \A i \in 1 .. n + 1 : Bytes(f)[i] = ad[i]
         /\ Bytes(f)[n + 2] = f.checksum
    <2>1. /\ Bytes(f) \in Seq(Byte) /\ Len(Bytes(f)) = (n + 1) + 1
          /\ \A i \in 1 .. n + 1 : Bytes(f)[i] = ad[i]
          /\ \A i \in 1 .. 1 : Bytes(f)[(n + 1) + i] = c[i]
      <3>1. ad \in Seq(Byte) /\ c \in Seq(Byte) /\ n + 1 = Len(ad) /\ Len(c) = 1
        BY <1>5, <1>8
      <3>2. /\ ad \o c \in Seq(Byte) /\ Len(ad \o c) = Len(ad) + Len(c)
            /\ \A i \in 1 .. Len(ad) : (ad \o c)[i] = ad[i]
            /\ \A i \in 1 .. Len(c) : (ad \o c)[Len(ad) + i] = c[i]
        BY <3>1, Concat, Zenon
      <3>. QED
        BY <1>9, <3>1, <3>2, Zenon
    <2>2. Bytes(f)[(n + 1) + 1] = c[1] /\ (n + 1) + 1 = n + 2
      BY <1>7, <2>1
    <2>. QED
      BY <1>5, <2>1, <2>2
  <1>11. 1 \in 1 .. n + 1 /\ \A i \in 1 .. n : i + 1 \in 1 .. n + 1
    BY <1>7
  <1>12. Bytes(f)[1] = protect_id(f.id) /\ \A i \in 1 .. n : Bytes(f)[i + 1] = f.data[i]
    BY <1>8, <1>10, <1>11
  <1>. QED
    BY <1>1, <1>2, <1>3, <1>10, <1>12

\* The frame that goes by its protected identifier, data and checksum.
Read(pid, data, checksum, ct) == [id |-> RawId(pid), data |-> data, checksum |-> checksum, checksum_type |-> ct]

\* What the receiver makes of any bytes.
LEMMA Reading ==
    ASSUME NEW b \in Seq(Byte), NEW n \in Nat, Len(b) = n + 2, NEW ct,
           NEW data \in Seq(Byte), Len(data) = n, \A i \in 1 .. n : b[i + 1] = data[i]
    PROVE  LET f == Read(b[1], data, b[n + 2], ct)
           IN  Accepted([bytes |-> b, ct |-> ct]) =
                 IF /\ verify_pid(b[1]) /\ ValidWireFrame(f)
                    /\ b[n + 2] = calc_checksum(protect_id(RawId(b[1])), data, ct)
                 THEN {f} ELSE {}
  <1> DEFINE f == Read(b[1], data, b[n + 2], ct)
  <1>1. SubSeq(b, 2, Len(b) - 1) = data
    <2>1. SubSeq(b, 2, Len(b) - 1) \in Seq(Byte) /\ Len(SubSeq(b, 2, Len(b) - 1)) = n
      OBVIOUS
    <2>2. \A i \in 1 .. n : SubSeq(b, 2, Len(b) - 1)[i] = data[i]
      OBVIOUS
    <2>. QED
      BY <2>1, <2>2
  <1>2. Last(b) = b[n + 2]
    BY DEF Last
  <1>3. f.checksum = b[n + 2] /\ f.id = RawId(b[1])
    BY DEF Read
  <1>4. Accepted([bytes |-> b, ct |-> ct]) =
             {x \in {f} : /\ verify_pid(b[1]) /\ ValidWireFrame(x)
                          /\ x.checksum = calc_checksum(protect_id(x.id), data, ct)}
    BY <1>1, <1>2 DEF Accepted, Read
  <1> HIDE DEF f
  <1>5. Accepted([bytes |-> b, ct |-> ct]) =
          IF /\ verify_pid(b[1]) /\ ValidWireFrame(f)
             /\ b[n + 2] = calc_checksum(protect_id(RawId(b[1])), data, ct)
          THEN {f} ELSE {}
    BY <1>3, <1>4
  <1>. QED
    BY <1>5 DEF f

\* A clean frame is accepted, ...
LEMMA CleanAccepted ==
    ASSUME NEW f, OnWire(f)
    PROVE  Accepted([bytes |-> Bytes(f), ct |-> f.checksum_type]) = {f}
  <1> DEFINE n == Len(f.data)
             b == Bytes(f)
             g == Read(b[1], f.data, b[n + 2], f.checksum_type)
  <1>1. n \in Nat /\ f.data \in Seq(Byte) /\ f.id \in 0 .. LIN_MAX_ID
    BY DEF OnWire
  <1>2. /\ RawId(b[1]) = f.id /\ verify_pid(b[1])
        /\ b[n + 2] = f.checksum
        /\ f.checksum = calc_checksum(protect_id(f.id), f.data, f.checksum_type)
    BY <1>1, Layout, ProtectedVerifies
  <1>3. g = f
    BY <1>2 DEF OnWire, WireFrame, Read
  <1>4. ValidWireFrame(f)
    BY DEF OnWire
  <1>5. /\ b \in Seq(Byte) /\ Len(b) = n + 2 /\ \A i \in 1 .. n : b[i + 1] = f.data[i]
    BY Layout
  <1> HIDE DEF b, n
  <1>6. Accepted([bytes |-> b, ct |-> f.checksum_type]) =
          IF /\ verify_pid(b[1]) /\ ValidWireFrame(g)
             /\ b[n + 2] = calc_checksum(protect_id(RawId(b[1])), f.data, f.checksum_type)
          THEN {g} ELSE {}
    BY <1>1, <1>5, Reading DEF n
  <1> HIDE DEF g
  <1>7. Accepted([bytes |-> b, ct |-> f.checksum_type]) = {f}
    BY <1>2, <1>3, <1>4, <1>6
  <1>. QED
    BY <1>7 DEF b

\* ... and one with an inverted bit is not.
LEMMA FlippedRefused ==
    ASSUME NEW f, OnWire(f), NEW i \in DOMAIN Bytes(f), NEW k \in 0 .. 7
    PROVE  Accepted([bytes |-> [Bytes(f) EXCEPT ![i] = Flip(@, k)], ct |-> f.checksum_type]) = {}
  <1> DEFINE n == Len(f.data)
             b == [Bytes(f) EXCEPT ![i] = Flip(@, k)]
  <1>1. n \in Nat /\ f.data \in Seq(Byte) /\ f.id \in 0 .. LIN_MAX_ID
    BY DEF OnWire
  <1>2. Bytes(f) \in Seq(Byte) /\ Len(Bytes(f)) = n + 2 /\ i \in 1 .. n + 2
    BY <1>1, Layout
  <1>3. Bytes(f)[i] \in Byte
    BY <1>2
  <1>4. Flip(Bytes(f)[i], k) \in Byte /\ Flip(Bytes(f)[i], k) # Bytes(f)[i]
    <2>1. Bytes(f)[i] \in Int
      BY <1>3 DEF Byte
    <2>. QED
      BY <1>3, <2>1, FlipType
  <1>5. b \in Seq(Byte) /\ Len(b) = n + 2 /\ b[i] = Flip(Bytes(f)[i], k)
        /\ \A j \in 1 .. n + 2 : j # i => b[j] = Bytes(f)[j]
    BY <1>2, <1>4
  <1> HIDE DEF b, n
  <1>6. /\ Bytes(f)[1] = protect_id(f.id) /\ RawId(protect_id(f.id)) = f.id
        /\ \A j \in 1 .. n : Bytes(f)[j + 1] = f.data[j]
        /\ Bytes(f)[n + 2] = calc_checksum(protect_id(f.id), f.data, f.checksum_type)
    BY <1>1, Layout, ProtectedVerifies DEF n
  <1>7. CASE i = 1
    <2>1. ~verify_pid(b[1])
      BY <1>1, <1>5, <1>6, <1>7, FlippedFails
    <2>2. \A j \in 1 .. n : b[j + 1] = f.data[j]
      BY <1>1, <1>5, <1>6, <1>7
    <2>3. Accepted([bytes |-> b, ct |-> f.checksum_type]) = {}
      BY <1>1, <1>5, <2>1, <2>2, Reading DEF n
    <2>. QED
      BY <2>3 DEF b
  <1>8. CASE i = n + 2
    <2>1. \A j \in 1 .. n : b[j + 1] = f.data[j]
      BY <1>1, <1>5, <1>6, <1>8
    <2>2. b[1] = protect_id(f.id) /\ b[n + 2] # calc_checksum(protect_id(f.id), f.data, f.checksum_type)
      BY <1>1, <1>4, <1>5, <1>6, <1>8
    <2>3. Accepted([bytes |-> b, ct |-> f.checksum_type]) = {}
      <3>1. b[n + 2] # calc_checksum(protect_id(RawId(b[1])), f.data, f.checksum_type)
        BY <1>6, <2>2
      <3> DEFINE data == f.data
      <3>2. data \in Seq(Byte) /\ Len(data) = n /\ \A j \in 1 .. n : b[j + 1] = data[j]
        BY <1>1, <2>1 DEF n
      <3>3. b[n + 2] # calc_checksum(protect_id(RawId(b[1])), data, f.checksum_type)
        BY <3>1
      <3> HIDE DEF data
      <3>. QED
        BY <1>1, <1>5, <3>2, <3>3, Reading
    <2>. QED
      BY <2>3 DEF b
  <1>9. CASE i \in 2 .. n + 1
    <2> DEFINE h == i - 1
               data == [f.data EXCEPT ![h] = Flip(f.data[h], k)]
    <2>1. h \in 1 .. n /\ h + 1 = i
      BY <1>1, <1>9
    <2>2. Bytes(f)[i] = f.data[h]
      BY <1>6, <2>1
    <2>3. data \in Seq(Byte) /\ Len(data) = n /\ \A j \in 1 .. n : b[j + 1] = data[j]
      <3>1. data \in Seq(Byte) /\ Len(data) = n
        BY <1>1, <1>4, <2>1, <2>2 DEF n
      <3>2. data[h] = Flip(f.data[h], k) /\ \A j \in 1 .. n : j # h => data[j] = f.data[j]
        BY <1>1, <2>1 DEF n
      <3> HIDE DEF data, h
      <3>3. ASSUME NEW j \in 1 .. n PROVE b[j + 1] = data[j]
        <4>1. CASE j = h
          BY <1>5, <2>1, <2>2, <3>2, <4>1
        <4>2. CASE j # h
          <5>1. j + 1 \in 1 .. n + 2 /\ j + 1 # i
            BY <1>1, <2>1, <4>2
          <5>. QED
            BY <1>5, <1>6, <3>2, <4>2, <5>1
        <4>. QED
          BY <4>1, <4>2
      <3>. QED
        BY <3>1, <3>3
    <2>4. b[1] = protect_id(f.id) /\ b[n + 2] = calc_checksum(protect_id(f.id), f.data, f.checksum_type)
      BY <1>1, <1>5, <1>6, <1>9
    <2>5. calc_checksum(protect_id(f.id), data, f.checksum_type) # calc_checksum(protect_id(f.id), f.data, f.checksum_type)
      <3>1. protect_id(f.id) \in Byte /\ h \in 1 .. Len(f.data)
        BY <2>1, Layout DEF n
      <3> HIDE DEF h
      <3>. QED
        BY <1>1, <3>1, FlipChangesChecksum
    <2> HIDE DEF data
    <2>6. Accepted([bytes |-> b, ct |-> f.checksum_type]) = {}
      <3>1. b[n + 2] # calc_checksum(protect_id(RawId(b[1])), data, f.checksum_type)
        BY <1>6, <2>4, <2>5
      <3>. QED
        BY <1>1, <1>5, <2>3, <3>1, Reading
    <2>. QED
      BY <2>6 DEF b
  <1>. QED
    <2>1. i = 1 \/ i = n + 2 \/ i \in 2 .. n + 1
      BY <1>1, <1>2
    <2>. QED
      BY <2>1, <1>7, <1>8, <1>9

(***************************************************************************)
(* Messages.                                                               *)
(***************************************************************************)
\* A frame off the bus survives the way through a message.
LEMMA RoundTrip ==
    ASSUME NEW f, OnWire(f)
    PROVE  /\ SendResult(to_message(f), FALSE) = "Ok"
           /\ from_message(to_message(f)) = f
  <1> DEFINE m == to_message(f)
  <1>1. f.checksum \in Byte /\ f.data \in Seq(Byte)
    BY Layout DEF OnWire
  <1>2. f.id \in 0 .. 63 /\ f.id \in Byte
    BY DEF OnWire, Byte, LIN_MAX_ID
  <1>3. Len(f.data) <= LIN_MAX_DATA_LEN
    BY DEF OnWire, ValidWireFrame, validate_frame
  <1>4. f.checksum_type \in {"Classic", "Enhanced"}
    BY DEF OnWire, ChecksumFor
  <1>5. m.protocol = "Lin" /\ m.id = Decimal(f.id) /\ m.payload = f.data /\ m.meta = MetaOf(f)
    BY DEF to_message, IdText
  <1>6. /\ DOMAIN MetaOf(f) = {"lin.checksum_type", "lin.checksum"}
        /\ MetaOf(f)["lin.checksum_type"] = IF f.checksum_type = "Classic" THEN "classic" ELSE "enhanced"
        /\ MetaOf(f)["lin.checksum"] = Decimal(f.checksum)
    BY DEF MetaOf
  <1>7. \A n \in Byte : Parses(Decimal(n)) /\ Decimal(n).n = n
    BY DEF Parses, Decimal
  <1> HIDE DEF m
  <1>8. Converts(m) /\ m.id.n = f.id
    BY <1>2, <1>5, <1>7 DEF Converts, LIN_MAX_ID
  <1>9. ChecksumIn(m) = f.checksum
    BY <1>1, <1>5, <1>6, <1>7 DEF ChecksumIn
  <1>10. SendResult(m, FALSE) = "Ok"
    <2>1. ~(Len(m.payload) > LIN_MAX_DATA_LEN)
      BY <1>1, <1>3, <1>5 DEF LIN_MAX_DATA_LEN
    <2>. QED
      BY <1>8, <2>1 DEF SendResult
  <1>11. from_message(m) = [id |-> f.id, data |-> f.data, checksum |-> f.checksum,
                            checksum_type |-> f.checksum_type]
    BY <1>4, <1>5, <1>6, <1>8, <1>9 DEF from_message
  <1>12. f = [id |-> f.id, data |-> f.data, checksum |-> f.checksum,
              checksum_type |-> f.checksum_type]
    BY DEF OnWire, WireFrame
  <1>. QED
    BY <1>10, <1>11, <1>12 DEF m

(***************************************************************************)
(* The invariant.                                                          *)
(***************************************************************************)
\* What publish stores.
Stored(bus) ==
    \A id \in DOMAIN bus :
        /\ id \in 0 .. LIN_MAX_ID
        /\ bus[id].data \in Seq(Byte)
        /\ bus[id].ct = ChecksumFor(id, "Enhanced")

\* bus answers the id of f with what f was made of.
Answers(bus, f) ==
    f.id \in DOMAIN bus /\ bus[f.id] = [data |-> f.data, ct |-> f.checksum_type]

\* The bytes of f as they are sent, and with a bit of them inverted.
Sent(f) == [bytes |-> Bytes(f), ct |-> f.checksum_type]
Inverted(f) ==
    {[bytes |-> [Bytes(f) EXCEPT ![i] = Flip(@, k)], ct |-> f.checksum_type] :
        i \in DOMAIN Bytes(f), k \in 0 .. 7}

OnLine(f) == \E l \in IF flips = 0 THEN {Sent(f)} ELSE Inverted(f) : line = {l}
Received == line = NoFrame /\ heard = IF flips = 0 THEN frame ELSE {}

Quiet == frame = NoFrame /\ line = NoFrame /\ ~relayed /\ flips = 0

Underway(f) ==
    /\ frame = {f} /\ OnWire(f)
    /\ OnLine(f) \/ Received
    /\ relayed => Answers(far, f)

GatewayInv ==
    /\ Stored(near)
    /\ flips \in {0, 1}
    /\ Quiet \/ \E f \in frame : Underway(f)

\* A valid frame made of a stored response is one the bus sends.
LEMMA StoredFrame ==
    ASSUME NEW id \in DOMAIN near, Stored(near), ValidWireFrame(WireFrame(id, near[id].data, near[id].ct))
    PROVE  OnWire(WireFrame(id, near[id].data, near[id].ct))
  <1> DEFINE f == WireFrame(id, near[id].data, near[id].ct)
  <1>1. f.id = id /\ f.data = near[id].data /\ f.checksum_type = near[id].ct
    BY DEF WireFrame
  <1>2. f = WireFrame(id, near[id].data, near[id].ct) /\ ValidWireFrame(f)
    OBVIOUS
  <1> HIDE DEF f
  <1>3. OnWire(f)
    BY <1>1, <1>2 DEF OnWire, Stored
  <1>. QED
    BY <1>3 DEF f

\* A message that is sent leaves the near bus with what publish stores.
LEMMA PublishStored ==
    ASSUME NEW m \in Messages, NEW busClosed, Stored(near), SendResult(m, busClosed) = "Ok"
    PROVE  Stored(Publish(near, m))
  <1>1. m.payload \in Seq(Byte) /\ m.id.n \in Nat
    BY GatewayAssumption
  <1>2. m.id.n <= LIN_MAX_ID
    BY DEF SendResult, Converts, KindOrClosed, Kind
  <1>3. from_message(m).id = m.id.n /\ from_message(m).data = m.payload
    BY DEF from_message
  <1>4. m.id.n \in 0 .. LIN_MAX_ID
    <2> DEFINE n == m.id.n
    <2>1. n \in Nat /\ n <= LIN_MAX_ID
      BY <1>1, <1>2
    <2> HIDE DEF n
    <2>2. n \in 0 .. LIN_MAX_ID
      BY <2>1 DEF LIN_MAX_ID
    <2>. QED
      BY <2>2 DEF n
  <1> DEFINE r == [data |-> m.payload, ct |-> ChecksumFor(m.id.n, "Enhanced")]
  <1>5. Publish(near, m) = [i \in DOMAIN near \cup {m.id.n} |-> IF i = m.id.n THEN r ELSE near[i]]
    BY <1>3 DEF Publish
  <1>. QED
    BY <1>1, <1>4, <1>5 DEF Stored

\* The invariant holds at first, ...
LEMMA GatewayInit == Init => GatewayInv
  BY DEF Init, GatewayInv, Stored, Quiet, NoFrame

\* ... every step preserves it, ...
LEMMA GatewayStep == GatewayInv /\ [Next]_vars => GatewayInv'
  <1> SUFFICES ASSUME GatewayInv, [Next]_vars PROVE GatewayInv'
    OBVIOUS
  <1> USE DEF NoFrame
  <1>1. Stored(near) /\ flips \in {0, 1} /\ (Quiet \/ \E f \in frame : Underway(f))
    BY DEF GatewayInv
  <1>2. ASSUME UNCHANGED <<frame, line, heard, flips, far, relayed>>
        PROVE  (Quiet \/ \E f \in frame : Underway(f))'
    BY <1>1, <1>2 DEF Quiet, Underway, OnLine, Received
  <1>3. ASSUME NEW m \in Messages, Send(m) PROVE GatewayInv'
    <2>1. Stored(near)'
      BY <1>1, <1>3, PublishStored DEF Send
    <2>. QED
      BY <1>1, <1>2, <1>3, <2>1 DEF Send, GatewayInv
  <1>4. ASSUME NEW id \in DOMAIN near, Header(id) PROVE GatewayInv'
    <2>1. PICK f : /\ f = WireFrame(id, near[id].data, near[id].ct)
                   /\ frame = NoFrame /\ ValidWireFrame(f) /\ frame' = {f} /\ line' = {Sent(f)}
                   /\ UNCHANGED <<near, far, relayed, flips>>
      BY <1>4 DEF Header, Sent
    <2>2. OnWire(f)
      BY <1>1, <2>1, StoredFrame
    <2>3. flips = 0 /\ ~relayed
      BY <1>1, <2>1 DEF Quiet
    <2>4. Underway(f)'
      BY <2>1, <2>2, <2>3 DEF Underway, OnLine
    <2>5. Stored(near)' /\ flips' = 0 /\ f \in frame'
      BY <1>1, <2>1, <2>3 DEF Stored
    <2>. QED
      BY <2>4, <2>5 DEF GatewayInv
  <1>5. ASSUME Close PROVE GatewayInv'
    BY <1>1, <1>2, <1>5 DEF Close, GatewayInv
  <1>6. ASSUME Relay PROVE GatewayInv'
    <2>1. PICK f \in frame : Underway(f)
      BY <1>1, <1>6 DEF Relay, Quiet
    <2>2. /\ far' = IF SendResult(to_message(f), FALSE) = "Ok" THEN Publish(far, to_message(f)) ELSE far
          /\ relayed' = TRUE
          /\ UNCHANGED <<near, frame, line, heard, flips>>
      BY <1>6, <2>1 DEF Relay, Underway
    <2>3. OnWire(f)
      BY <2>1 DEF Underway
    <2>4. far' = Publish(far, to_message(f)) /\ from_message(to_message(f)) = f
      BY <2>2, <2>3, RoundTrip
    <2>5. Answers(far', f)
      BY <2>3, <2>4 DEF Publish, Answers, OnWire
    <2>6. Underway(f)'
      BY <2>1, <2>2, <2>5 DEF Underway, OnLine, Received
    <2>. QED
      BY <1>1, <2>1, <2>2, <2>6 DEF GatewayInv, Stored
  <1>7. ASSUME Noise PROVE GatewayInv'
    <2>1. PICK l \in line : /\ flips < MaxFlips /\ flips' = flips + 1
                            /\ \E i \in DOMAIN l.bytes, k \in 0 .. 7 :
                                 line' = {[l EXCEPT !.bytes[i] = Flip(@, k)]}
                            /\ UNCHANGED <<near, far, frame, heard, relayed>>
      BY <1>7 DEF Noise
    <2>2. flips = 0 /\ flips' = 1
      BY <1>1, <2>1, GatewayAssumption
    <2>3. PICK f \in frame : Underway(f)
      BY <1>1, <2>1 DEF Quiet
    <2>4. l = Sent(f)
      BY <2>1, <2>2, <2>3 DEF Underway, OnLine, Received
    <2>5. \E e \in Inverted(f) : line' = {e}
      <3>1. PICK i \in DOMAIN l.bytes, k \in 0 .. 7 : line' = {[l EXCEPT !.bytes[i] = Flip(@, k)]}
        BY <2>1
      <3>2. DOMAIN l.bytes = DOMAIN Bytes(f)
        BY <2>4 DEF Sent
      <3>3. [l EXCEPT !.bytes[i] = Flip(@, k)]
              = [bytes |-> [Bytes(f) EXCEPT ![i] = Flip(@, k)], ct |-> f.checksum_type]
        BY <2>4 DEF Sent
      <3>. QED
        BY <3>1, <3>2, <3>3 DEF Inverted
    <2>6. Underway(f)'
      BY <2>1, <2>2, <2>3, <2>5 DEF Underway, OnLine, Inverted
    <2>. QED
      BY <1>1, <2>1, <2>2, <2>3, <2>6 DEF GatewayInv, Stored
  <1>8. ASSUME Listen PROVE GatewayInv'
    <2>1. PICK l \in line : /\ heard' = Accepted(l) /\ line' = NoFrame
                            /\ UNCHANGED <<near, far, frame, relayed, flips>>
      BY <1>8 DEF Listen
    <2>2. PICK f \in frame : Underway(f)
      BY <1>1, <2>1 DEF Quiet
    <2>3. OnWire(f) /\ frame = {f} /\ OnLine(f)
      BY <2>1, <2>2 DEF Underway, Received
    <2>4. CASE flips = 0
      <3>1. Accepted(l) = {f}
        BY <2>1, <2>3, <2>4, CleanAccepted DEF OnLine, Sent
      <3>. QED
        BY <1>1, <2>1, <2>2, <2>3, <2>4, <3>1 DEF GatewayInv, Stored, Underway, Received
    <2>5. CASE flips = 1
      <3>1. l \in Inverted(f)
        BY <2>1, <2>3, <2>5 DEF OnLine
      <3>2. PICK i \in DOMAIN Bytes(f), k \in 0 .. 7 :
              l = [bytes |-> [Bytes(f) EXCEPT ![i] = Flip(@, k)], ct |-> f.checksum_type]
        BY <3>1 DEF Inverted
      <3>3. Accepted(l) = {}
        BY <2>3, <3>2, FlippedRefused
      <3>. QED
        BY <1>1, <2>1, <2>2, <2>3, <2>5, <3>3 DEF GatewayInv, Stored, Underway, Received
    <2>. QED
      BY <1>1, <2>4, <2>5
  <1>9. CASE UNCHANGED vars
    BY <1>1, <1>2, <1>9 DEF vars, GatewayInv, Stored
  <1>. QED
    BY <1>3, <1>4, <1>5, <1>6, <1>7, <1>8, <1>9 DEF Next

\* ... and so it always holds.
LEMMA GatewayInvariant == Spec => []GatewayInv
  BY GatewayInit, GatewayStep, PTL DEF Spec

\* Whatever the payload and its length, a receiver that checks what it reads
\* accepts a clean frame and no frame with an inverted bit (frame.rs:160-214).
THEOREM HeardCorrect == Spec => []HeardIsSent
  <1>1. GatewayInv => HeardIsSent
    BY DEF GatewayInv, Quiet, Underway, OnLine, Received, HeardIsSent, NoFrame
  <1>. QED
    BY <1>1, GatewayInvariant, PTL

\* Whatever is sent, the far bus answers with the bytes the near bus did
\* (adapt.rs:28-92, 129-139).
THEOREM RelayCorrect == Spec => []RelayedAlike
  <1>1. ASSUME GatewayInv, NEW f \in frame, relayed
        PROVE  /\ f.id \in DOMAIN far
               /\ WireFrame(f.id, far[f.id].data, far[f.id].ct) = f
               /\ from_message(to_message(f)) = f
    <2>1. OnWire(f) /\ Answers(far, f)
      BY <1>1 DEF GatewayInv, Quiet, Underway
    <2>2. f.id \in DOMAIN far /\ far[f.id].data = f.data /\ far[f.id].ct = f.checksum_type
      BY <2>1 DEF Answers
    <2>. QED
      BY <2>1, <2>2, RoundTrip DEF OnWire
  <1>2. GatewayInv => RelayedAlike
    BY <1>1 DEF RelayedAlike
  <1>. QED
    BY <1>2, GatewayInvariant, PTL
=============================================================================
