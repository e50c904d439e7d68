----------------------------- MODULE E2E_proofs -----------------------------
(***************************************************************************)
(* Theorems about end-to-end protection, for every number of threads,      *)
(* every width of the counter and whatever the link does.                  *)
(***************************************************************************)
EXTENDS E2E, SequenceTheorems, TLAPS

\* The counter stays one, and adds up below its wrap.
LEMMA IncType ==
    ASSUME NEW c \in Counter
    PROVE  Inc(c) \in Counter /\ (c + 1 < Modulus => Inc(c) = c + 1)
  <1>1. Modulus \in Nat /\ Modulus > 1
    BY E2EAssumption
  <1>2. c \in Nat /\ c < Modulus
    BY <1>1 DEF Counter
  <1>. QED
    BY <1>1, <1>2 DEF Inc, Counter

\* What RemoveAt leaves of a sequence.
LEMMA RemoveAtType ==
    ASSUME NEW S, NEW s \in Seq(S), NEW i \in 1 .. Len(s)
    PROVE  /\ RemoveAt(s, i) \in Seq(S)
           /\ \A k \in 1 .. Len(RemoveAt(s, i)) :
                \E j \in 1 .. Len(s) : RemoveAt(s, i)[k] = s[j]
  <1>. DEFINE l == SubSeq(s, 1, i - 1)
              r == SubSeq(s, i + 1, Len(s))
  <1>0. Len(s) \in Nat /\ i \in Nat /\ 1 <= i /\ i <= Len(s)
    BY LenProperties
  <1>1. l \in Seq(S) /\ Len(l) = i - 1 /\ \A k \in 1 .. i - 1 : l[k] = s[k]
    <2>1. \A k \in 1 .. i - 1 : s[k] \in S
      BY <1>0, ElementOfSeq
    <2>2. l \in Seq(S) /\ Len(l) = IF 1 <= i - 1 THEN (i - 1) - 1 + 1 ELSE 0
      BY <1>0, <2>1, SubSeqProperties
    <2>3. \A k \in 1 .. (i - 1) - 1 + 1 : l[k] = s[1 + k - 1]
      BY <1>0, <2>1, SubSeqProperties
    <2>. QED
      BY <1>0, <2>2, <2>3
  <1>2. r \in Seq(S) /\ Len(r) = Len(s) - i /\ \A k \in 1 .. Len(s) - i : r[k] = s[i + k]
    <2>1. \A k \in i + 1 .. Len(s) : s[k] \in S
      BY <1>0, ElementOfSeq
    <2>2. r \in Seq(S) /\ Len(r) = IF i + 1 <= Len(s) THEN Len(s) - (i + 1) + 1 ELSE 0
      BY <1>0, <2>1, SubSeqProperties
    <2>3. \A k \in 1 .. Len(s) - (i + 1) + 1 : r[k] = s[i + 1 + k - 1]
      BY <1>0, <2>1, SubSeqProperties
    <2>. QED
      BY <1>0, <2>2, <2>3
  <1>3. RemoveAt(s, i) = l \o r
    BY DEF RemoveAt
  <1>. HIDE DEF l, r
  <1>4. /\ RemoveAt(s, i) \in Seq(S)
        /\ Len(RemoveAt(s, i)) = Len(s) - 1
        /\ \A k \in 1 .. Len(s) - 1 :
             RemoveAt(s, i)[k] = IF k <= i - 1 THEN l[k] ELSE r[k - (i - 1)]
    <2>1. /\ l \o r \in Seq(S)
          /\ Len(l \o r) = Len(l) + Len(r)
          /\ \A k \in 1 .. Len(l) + Len(r) :
               (l \o r)[k] = IF k <= Len(l) THEN l[k] ELSE r[k - Len(l)]
      BY <1>1, <1>2, ConcatProperties
    <2>2. Len(l) = i - 1 /\ Len(l) + Len(r) = Len(s) - 1
      BY <1>0, <1>1, <1>2
    <2>. QED
      BY <1>3, <2>1, <2>2
  <1>5. ASSUME NEW k \in 1 .. Len(s) - 1
        PROVE  \E j \in 1 .. Len(s) : RemoveAt(s, i)[k] = s[j]
    <2>1. CASE k <= i - 1
      <3>1. RemoveAt(s, i)[k] = s[k] /\ k \in 1 .. Len(s)
        BY <1>0, <1>1, <1>4, <2>1
      <3>. QED
        BY <3>1
    <2>2. CASE ~(k <= i - 1)
      <3>1. k - (i - 1) \in 1 .. Len(s) - i /\ i + (k - (i - 1)) = k + 1 /\ k + 1 \in 1 .. Len(s)
        BY <1>0, <2>2
      <3>2. RemoveAt(s, i)[k] = r[k - (i - 1)]
        BY <1>4, <2>2
      <3>3. r[k - (i - 1)] = s[k + 1]
        BY <1>2, <3>1
      <3>. QED
        BY <3>1, <3>2, <3>3
    <2>. QED
      BY <2>1, <2>2
  <1>. QED
    BY <1>4, <1>5

(***************************************************************************)
(* Types.                                                                  *)
(***************************************************************************)
\* The link makes up no good frame: what it does leaves every good frame one
\* that was on it.
LEMMA FaultType ==
    ASSUME TypeOK, Lose \/ Duplicate \/ Damage \/ Overtake \/ Stray
    PROVE  /\ link' \in Seq(Payload)
           /\ \A k \in 1 .. Len(link') : link'[k].is = "good" =>
                \E j \in 1 .. Len(link) : link'[k] = link[j]
  <1>0. link \in Seq(Payload)
    BY DEF TypeOK
  <1>1. CASE Lose
    <2>1. PICK i \in 1 .. Len(link) : link' = RemoveAt(link, i)
      BY <1>1 DEF Lose
    <2>. QED
      BY <1>0, <2>1, RemoveAtType
  <1>2. CASE Duplicate
    BY <1>0, <1>2 DEF Duplicate
  <1>3. CASE Damage
    <2>1. PICK i \in 1 .. Len(link), how \in {"short", "badCrc"} :
            link' = [link EXCEPT ![i].is = how]
      BY <1>3 DEF Damage
    <2>2. link[i] \in Payload
      BY <1>0, <2>1
    <2>3. [link[i] EXCEPT !.is = how] \in Payload
      BY <2>1, <2>2 DEF Payload, Condition
    <2>4. link' = [link EXCEPT ![i] = [link[i] EXCEPT !.is = how]]
      BY <2>1
    <2>5. [link[i] EXCEPT !.is = how].is # "good"
      BY <2>1, <2>2 DEF Payload
    <2>. QED
      BY <1>0, <2>1, <2>3, <2>4, <2>5
  <1>4. CASE Overtake
    BY <1>0, <1>4 DEF Overtake
  <1>5. CASE Stray
    <2>1. PICK c \in Counter : link' = Append(link, [n |-> 0, seq |-> c, is |-> "foreign"])
      BY <1>5 DEF Stray
    <2>2. [n |-> 0, seq |-> c, is |-> "foreign"] \in Payload
      BY DEF Payload, Condition
    <2>. QED
      BY <1>0, <2>1, <2>2
  <1>. QED
    BY <1>1, <1>2, <1>3, <1>4, <1>5

\* protect hands out a payload with a counter value.
LEMMA ProtectType ==
    ASSUME TypeOK, NEW t \in Senders, protect(t)
    PROVE  TypeOK'
  <1>1. [n |-> drawn, seq |-> seq, is |-> "good"] \in Payload
    BY DEF TypeOK, Payload, Condition
  <1>2. hand' \in [Senders -> SUBSET Payload]
    BY <1>1 DEF TypeOK, protect
  <1>3. seq' \in Counter
    BY IncType DEF TypeOK, protect, FetchAdd
  <1>. QED
    BY <1>2, <1>3 DEF TypeOK, protect, receiverVars

\* What a thread puts on the link is what protect gave it.
LEMMA TransmitType ==
    ASSUME TypeOK, NEW t \in Senders, Transmit(t)
    PROVE  TypeOK'
  <1>1. PICK m \in hand[t] : link' = Append(link, m) /\ put' = Append(put, m.n)
    BY DEF Transmit
  <1>2. m \in Payload /\ m.n \in Nat
    BY DEF TypeOK, Payload
  <1>3. link' \in Seq(Payload) /\ put' \in Seq(Nat)
    BY <1>1, <1>2 DEF TypeOK
  <1>4. hand' \in [Senders -> SUBSET Payload]
    BY DEF TypeOK, Transmit
  <1>. QED
    BY <1>3, <1>4 DEF TypeOK, Transmit, receiverVars

\* unwrap remembers a counter value and a number it was given.
LEMMA UnwrapType ==
    ASSUME TypeOK, unwrap
    PROVE  TypeOK'
  <1>1. link \in Seq(Payload) /\ link # <<>> /\ link' = Tail(link)
    BY DEF TypeOK, unwrap, Accept, Reject, Arrive
  <1>2. Head(link) \in Payload /\ link' \in Seq(Payload)
    BY <1>1
  <1>3. CASE Accept
    <2>1. Head(link).seq \in Counter
          /\ [n |-> Head(link).n, is |-> Head(link).is] \in [n : Nat, is : Condition]
      BY <1>2 DEF Payload
    <2>2. last_seq' \in Counter /\ accepted' \in Seq([n : Nat, is : Condition])
      BY <1>3, <2>1 DEF TypeOK, Accept
    <2>3. first' \in BOOLEAN
      BY <1>3 DEF Accept
    <2>. QED
      BY <1>2, <1>3, <2>2, <2>3 DEF TypeOK, Accept, protectorVars
  <1>4. CASE Reject
    BY <1>2, <1>4 DEF TypeOK, Reject, protectorVars, receiverVars
  <1>. QED
    BY <1>3, <1>4 DEF unwrap

\* Every reachable state is well typed; the counters stay counters of the
\* modulus across their wrap.
THEOREM TypeCorrect == Spec => []TypeOK
  <1>1. Init => TypeOK
    <2> SUFFICES ASSUME Init PROVE TypeOK
      OBVIOUS
    <2>1. 0 \in Counter
      BY E2EAssumption DEF Counter
    <2>2. first \in BOOLEAN
      BY DEF Init
    <2>3. link \in Seq(Payload) /\ put \in Seq(Nat)
          /\ accepted \in Seq([n : Nat, is : Condition])
      BY DEF Init
    <2>. QED
      BY <2>1, <2>2, <2>3, E2EAssumption DEF Init, TypeOK
  <1>2. TypeOK /\ [Next]_vars => TypeOK'
    <2> SUFFICES ASSUME TypeOK, [Next]_vars PROVE TypeOK'
      OBVIOUS
    <2>1. ASSUME NEW t \in Senders, protect(t) PROVE TypeOK'
      BY <2>1, ProtectType
    <2>2. ASSUME NEW t \in Senders, Transmit(t) PROVE TypeOK'
      BY <2>2, TransmitType
    <2>3. CASE Lose \/ Duplicate \/ Damage \/ Overtake \/ Stray
      <3>1. link' \in Seq(Payload)
        BY <2>3, FaultType
      <3>2. Fault
        BY <2>3 DEF Lose, Duplicate, Damage, Overtake, Stray
      <3>. QED
        BY <3>1, <3>2 DEF TypeOK, Fault, protectorVars, receiverVars
    <2>4. CASE unwrap
      BY <2>4, UnwrapType
    <2>5. CASE UNCHANGED vars
      BY <2>5 DEF TypeOK, vars, protectorVars, receiverVars
    <2>. QED
      BY <2>1, <2>2, <2>3, <2>4, <2>5 DEF Next
  <1>. QED
    BY <1>1, <1>2, PTL DEF Spec

(***************************************************************************)
(* Arithmetic of the counter.                                              *)
(***************************************************************************)
\* A remainder is found by its quotient.
LEMMA Remainder ==
    ASSUME NEW M \in Nat, M > 0, NEW q \in Int, NEW r \in 0 .. M - 1
    PROVE  (M * q + r) % M = r
  OBVIOUS

\* Wrapping and counting agree.
LEMMA IncMod ==
    ASSUME NEW n \in Nat
    PROVE  Inc(n % Modulus) = (n + 1) % Modulus
  <1>1. PICK M \in Nat : M = Modulus /\ M > 1
    BY E2EAssumption
  <1>2. PICK q \in Int, r \in 0 .. M - 1 : q = n \div M /\ r = n % M /\ n = M * q + r
    BY <1>1
  <1>3. CASE r + 1 < M
    <2>1. PICK s \in 0 .. M - 1 : s = r + 1
      BY <1>1, <1>3
    <2>2. n + 1 = M * q + s
      BY <1>1, <1>2, <2>1
    <2>3. (M * q + s) % M = s
      BY <1>1, Remainder
    <2>4. s % M = s
      BY <1>1
    <2>. QED
      BY <1>1, <1>2, <2>1, <2>2, <2>3, <2>4 DEF Inc
  <1>4. CASE r + 1 = M
    <2>1. PICK p \in Int : p = q + 1
      OBVIOUS
    <2>2. n + 1 = M * p + 0
      BY <1>1, <1>2, <1>4, <2>1
    <2>3. 0 \in 0 .. M - 1
      BY <1>1
    <2>5. (M * p + 0) % M = 0
      BY <1>1, <2>3, Remainder
    <2>4. M % M = 0
      BY <1>1
    <2>. QED
      BY <1>1, <1>2, <1>4, <2>2, <2>4, <2>5 DEF Inc
  <1>. QED
    BY <1>2, <1>3, <1>4

(***************************************************************************)
(* A good frame carries its own number as its counter, modulo the counter's *)
(* range, and the receiver's last counter is in the same way the number it *)
(* last returned: that is why comparing counters keeps payloads in order,  *)
(* up to whole turns of the counter.                                       *)
(***************************************************************************)
Stamped(m, d) == m.is = "good" => m.n < d /\ m.seq = m.n % Modulus

Ordered ==
    /\ seq = drawn % Modulus
    /\ \A t \in Senders : \A m \in hand[t] : Stamped(m, drawn)
    /\ \A k \in 1 .. Len(link) : Stamped(link[k], drawn)
    /\ OnlyOwn
    /\ first <=> accepted = <<>>
    /\ ~first => last_seq = accepted[Len(accepted)].n % Modulus
    /\ \A i \in 1 .. Len(accepted) : accepted[i].n < drawn
    /\ WholeTurns

\* What unwrap returned has a number.
LEMMA AcceptedType ==
    ASSUME TypeOK, NEW i \in 1 .. Len(accepted)
    PROVE  accepted[i].n \in Nat
  <1>1. PICK R : R = [n : Nat, is : Condition]
    OBVIOUS
  <1>2. accepted \in Seq(R)
    BY <1>1 DEF TypeOK
  <1>3. accepted[i] \in R
    BY <1>2
  <1>. QED
    BY <1>1, <1>3

\* What the receiver has stays in order while it gets nothing.
LEMMA ReceiverIdle ==
    ASSUME TypeOK, Ordered, UNCHANGED receiverVars, drawn' \in Nat, drawn' >= drawn
    PROVE  /\ OnlyOwn' /\ (first' <=> accepted' = <<>>)
           /\ ~first' => last_seq' = accepted'[Len(accepted')].n % Modulus
           /\ \A i \in 1 .. Len(accepted') : accepted'[i].n < drawn'
           /\ WholeTurns'
  <1>1. accepted' = accepted /\ first' = first /\ last_seq' = last_seq
    BY DEF receiverVars
  <1>2. ASSUME NEW i \in 1 .. Len(accepted) PROVE accepted[i].n < drawn'
    <2>1. accepted[i].n \in Nat
      BY AcceptedType
    <2>2. accepted[i].n < drawn /\ drawn \in Nat
      BY DEF TypeOK, Ordered
    <2>. QED
      BY <2>1, <2>2
  <1>. QED
    BY <1>1, <1>2 DEF Ordered, OnlyOwn, WholeTurns

\* protect numbers its payload by the counter.
LEMMA OrderedProtect ==
    ASSUME TypeOK, Ordered, NEW t \in Senders, protect(t)
    PROVE  Ordered'
  <1>1. drawn \in Nat /\ drawn' = drawn + 1 /\ drawn' \in Nat /\ drawn' >= drawn
    BY DEF TypeOK, protect
  <1>2. seq' = drawn' % Modulus
    BY <1>1, IncMod DEF Ordered, protect, FetchAdd
  <1>3. \A u \in Senders : \A m \in hand'[u] : Stamped(m, drawn')
    <2> SUFFICES ASSUME NEW u \in Senders, NEW m \in hand'[u] PROVE Stamped(m, drawn')
      OBVIOUS
    <2>1. CASE m \in hand[u]
      <3>1. Stamped(m, drawn) /\ m.n \in Nat
        BY <2>1 DEF Ordered, TypeOK, Payload
      <3>. QED
        BY <1>1, <3>1 DEF Stamped
    <2>2. CASE m \notin hand[u]
      <3>1. m = [n |-> drawn, seq |-> seq, is |-> "good"]
        BY <2>2 DEF TypeOK, protect
      <3>. QED
        BY <1>1, <3>1 DEF Stamped, Ordered
    <2>. QED
      BY <2>1, <2>2
  <1>4. \A k \in 1 .. Len(link') : Stamped(link'[k], drawn')
    <2> SUFFICES ASSUME NEW k \in 1 .. Len(link) PROVE Stamped(link[k], drawn')
      BY DEF protect
    <2>1. Stamped(link[k], drawn) /\ link[k] \in Payload
      BY DEF Ordered, TypeOK
    <2>2. link[k].n \in Nat
      BY <2>1 DEF Payload
    <2>3. link' = link
      BY DEF protect
    <2>. QED
      BY <1>1, <2>1, <2>2, <2>3 DEF Stamped
  <1>5. UNCHANGED receiverVars
    BY DEF protect
  <1>. QED
    BY <1>1, <1>2, <1>3, <1>4, <1>5, ReceiverIdle DEF Ordered

\* Putting a payload on the link changes neither counter nor receiver.
LEMMA OrderedTransmit ==
    ASSUME TypeOK, Ordered, NEW t \in Senders, Transmit(t)
    PROVE  Ordered'
  <1>1. PICK m \in hand[t] : link' = Append(link, m)
    BY DEF Transmit
  <1>2. UNCHANGED <<seq, drawn, receiverVars>>
    BY DEF Transmit
  <1>3. link \in Seq(Payload) /\ m \in Payload /\ drawn \in Nat
    BY <1>1 DEF TypeOK
  <1>4. \A k \in 1 .. Len(link') : Stamped(link'[k], drawn')
    <2> SUFFICES ASSUME NEW k \in 1 .. Len(link') PROVE Stamped(link'[k], drawn')
      OBVIOUS
    <2>1. link'[k] = m \/ (k \in 1 .. Len(link) /\ link'[k] = link[k])
      BY <1>1, <1>3
    <2>2. Stamped(m, drawn) /\ (k \in 1 .. Len(link) => Stamped(link[k], drawn))
      BY DEF Ordered
    <2>. QED
      BY <1>2, <2>1, <2>2 DEF Stamped
  <1>5. \A u \in Senders : hand'[u] \subseteq hand[u]
    BY DEF TypeOK, Transmit
  <1>6. \A u \in Senders : \A x \in hand'[u] : Stamped(x, drawn')
    BY <1>2, <1>5 DEF Ordered, Stamped
  <1>7. drawn' = drawn /\ drawn' \in Nat /\ drawn' >= drawn
    BY <1>2, <1>3
  <1>. QED
    BY <1>2, <1>4, <1>6, <1>7, ReceiverIdle DEF Ordered

\* The faults of the link make no payload that looks genuine.
LEMMA OrderedFault ==
    ASSUME TypeOK, Ordered, Lose \/ Duplicate \/ Damage \/ Overtake \/ Stray
    PROVE  Ordered'
  <1>1. UNCHANGED <<protectorVars, receiverVars>>
    BY DEF Lose, Duplicate, Damage, Overtake, Stray, Fault
  <1>2. \A k \in 1 .. Len(link') : link'[k].is = "good" =>
          \E j \in 1 .. Len(link) : link'[k] = link[j]
    BY FaultType
  <1>3. \A k \in 1 .. Len(link') : Stamped(link'[k], drawn')
    <2> SUFFICES ASSUME NEW k \in 1 .. Len(link'), link'[k].is = "good"
                 PROVE  link'[k].n < drawn /\ link'[k].seq = link'[k].n % Modulus
      BY <1>1 DEF Stamped, protectorVars
    <2>1. PICK j \in 1 .. Len(link) : link'[k] = link[j]
      BY <1>2
    <2>. QED
      BY <2>1 DEF Ordered, Stamped
  <1>4. seq' = seq /\ hand' = hand /\ drawn' = drawn /\ drawn' \in Nat /\ drawn' >= drawn
    BY <1>1 DEF protectorVars, TypeOK
  <1>5. \A t \in Senders : \A m \in hand'[t] : Stamped(m, drawn')
    BY <1>4 DEF Ordered
  <1>. QED
    BY <1>1, <1>3, <1>4, <1>5, ReceiverIdle DEF Ordered

\* unwrap returns, up to whole turns, the successor of the payload it returned
\* before.
LEMMA OrderedUnwrap ==
    ASSUME TypeOK, Ordered, unwrap
    PROVE  Ordered'
  <1>1. link \in Seq(Payload) /\ link # <<>> /\ link' = Tail(link)
    BY DEF TypeOK, unwrap, Accept, Reject, Arrive
  <1>2. seq' = seq /\ hand' = hand /\ drawn' = drawn /\ drawn \in Nat
    BY DEF unwrap, Accept, Reject, protectorVars, TypeOK
  <1>3. \A k \in 1 .. Len(link') : Stamped(link'[k], drawn')
    <2> SUFFICES ASSUME NEW k \in 1 .. Len(link') PROVE Stamped(link'[k], drawn')
      OBVIOUS
    <2>1. k + 1 \in 1 .. Len(link) /\ link'[k] = link[k + 1]
      BY <1>1
    <2>2. Stamped(link[k + 1], drawn)
      BY <2>1 DEF Ordered
    <2>. QED
      BY <1>2, <2>1, <2>2 DEF Stamped
  <1>4. (seq = drawn % Modulus)' /\ (\A t \in Senders : \A m \in hand'[t] : Stamped(m, drawn'))
    BY <1>2 DEF Ordered
  <1>5. CASE Reject
    <2>1. UNCHANGED receiverVars /\ drawn' \in Nat /\ drawn' >= drawn
      BY <1>2, <1>5 DEF Reject
    <2>. QED
      BY <1>3, <1>4, <2>1, ReceiverIdle DEF Ordered
  <1>6. CASE Accept
    <2>1. PICK m \in Payload : m = Head(link) /\ m.is = "good" /\ Stamped(m, drawn)
      <3>1. Head(link) = link[1] /\ 1 \in 1 .. Len(link) /\ link[1] \in Payload
        BY <1>1
      <3>. QED
        BY <1>6, <3>1 DEF Ordered, Accept, Sound
    <2>2. /\ accepted \in Seq([n : Nat, is : Condition])
          /\ accepted' = Append(accepted, [n |-> m.n, is |-> m.is])
          /\ last_seq' = m.seq
          /\ first' = FALSE
      BY <1>6, <2>1 DEF TypeOK, Accept
    <2>3. first \/ m.seq = Inc(last_seq)
      BY <1>6, <2>1 DEF Accept, Expected
    <2>4. m.n \in Nat /\ m.n < drawn /\ m.seq = m.n % Modulus
      BY <2>1 DEF Payload, Stamped
    <2>5. [n |-> m.n, is |-> m.is] \in [n : Nat, is : Condition]
      BY <2>1 DEF Payload
    <2>6. /\ Len(accepted') = Len(accepted) + 1
          /\ accepted'[Len(accepted')] = [n |-> m.n, is |-> m.is]
          /\ \A i \in 1 .. Len(accepted) : accepted'[i] = accepted[i]
          /\ Len(accepted) \in Nat
      BY <2>2, <2>5
    <2>7. OnlyOwn'
      BY <2>1, <2>6 DEF Ordered, OnlyOwn
    <2>8. first' <=> accepted' = <<>>
      BY <2>2, <2>6
    <2>9. last_seq' = accepted'[Len(accepted')].n % Modulus
      BY <2>2, <2>4, <2>6
    <2>10. ASSUME NEW i \in 1 .. Len(accepted') PROVE accepted'[i].n < drawn'
      <3>1. CASE i = Len(accepted')
        BY <1>2, <2>4, <2>6, <3>1
      <3>2. CASE i \in 1 .. Len(accepted)
        BY <1>2, <2>6, <3>2 DEF Ordered
      <3>. QED
        BY <2>6, <3>1, <3>2
    <2>11. ASSUME NEW i \in 1 .. Len(accepted') - 1
           PROVE  accepted'[i + 1].n % Modulus = (accepted'[i].n + 1) % Modulus
      <3>1. CASE i < Len(accepted)
        <4>1. i \in 1 .. Len(accepted) - 1 /\ i + 1 \in 1 .. Len(accepted) /\ i \in 1 .. Len(accepted)
          BY <2>6, <3>1
        <4>. QED
          BY <2>6, <4>1 DEF Ordered, WholeTurns
      <3>2. CASE i = Len(accepted)
        <4>1. ~first /\ i \in 1 .. Len(accepted)
          BY <2>6, <3>2 DEF Ordered
        <4>2. PICK n \in Nat : n = accepted[i].n
          BY <4>1, AcceptedType
        <4>3. last_seq = n % Modulus
          BY <3>2, <4>1, <4>2 DEF Ordered
        <4>4. m.n % Modulus = (n + 1) % Modulus
          <5>1. m.seq = Inc(n % Modulus)
            BY <2>3, <4>1, <4>3
          <5>2. Inc(n % Modulus) = (n + 1) % Modulus
            BY IncMod
          <5>. QED
            BY <2>4, <5>1, <5>2, Zenon
        <4>5. accepted'[i + 1].n = m.n /\ accepted'[i].n = n
          BY <2>6, <3>2, <4>1, <4>2
        <4>. QED
          BY <4>4, <4>5
      <3>. QED
        BY <2>6, <3>1, <3>2
    <2>12. WholeTurns'
      BY <2>11 DEF WholeTurns
    <2>. QED
      BY <1>3, <1>4, <2>7, <2>8, <2>9, <2>10, <2>12 DEF Ordered
  <1>. QED
    BY <1>5, <1>6 DEF unwrap

\* Genuine payloads carry their own number and the receiver's last counter is
\* the number it returned last, each modulo the counter's range.
THEOREM AlwaysOrdered == Spec => []Ordered
  <1>1. Init => Ordered
    <2> SUFFICES ASSUME Init PROVE Ordered
      OBVIOUS
    <2>1. 0 % Modulus = 0
      BY E2EAssumption
    <2>. QED
      BY <2>1 DEF Init, Ordered, OnlyOwn, WholeTurns
  <1>2. TypeOK /\ Ordered /\ [Next]_vars => Ordered'
    <2> SUFFICES ASSUME TypeOK, Ordered, [Next]_vars PROVE Ordered'
      OBVIOUS
    <2>1. CASE UNCHANGED vars
      BY <2>1 DEF Ordered, OnlyOwn, WholeTurns, Stamped, vars, protectorVars, receiverVars
    <2>. QED
      BY <2>1, OrderedProtect, OrderedTransmit, OrderedFault, OrderedUnwrap DEF Next
  <1>. QED
    BY <1>1, <1>2, TypeCorrect, PTL DEF Spec

\* The counter the receiver waits for is that of the payload after the one it
\* returned last, so no frame it turned away has moved it.
LEMMA TakesNext ==
    ASSUME TypeOK, Ordered
    PROVE  NextTaken
  <1> SUFFICES ASSUME NEW k \in 1 .. Len(link), Sound(link[k]), ~first,
                      \/ accepted = <<>>
                      \/ link[k].n % Modulus = (accepted[Len(accepted)].n + 1) % Modulus
               PROVE  link[k].seq = Inc(last_seq)
    BY DEF NextTaken, Expected
  <1>1. accepted # <<>> /\ Len(accepted) \in 1 .. Len(accepted)
    BY DEF Ordered, TypeOK
  <1>2. PICK a \in Nat : a = accepted[Len(accepted)].n
    BY <1>1, AcceptedType
  <1>3. link[k].n % Modulus = (a + 1) % Modulus
    BY <1>1, <1>2
  <1>4. last_seq = a % Modulus /\ link[k].seq = link[k].n % Modulus
    BY <1>1, <1>2 DEF Ordered, Stamped, Sound
  <1>5. Inc(a % Modulus) = (a + 1) % Modulus
    BY IncMod
  <1>. QED
    BY <1>3, <1>4, <1>5, Zenon

\* What the receiver skips or repeats is a whole turn of the counter, for every
\* modulus and whatever the link and the threads that share the Protector do;
\* until the counter wraps it skips, repeats and reorders nothing, and a frame
\* that it rejects changes nothing of this.
THEOREM Consecutive == Spec => []NoGapNoReplay
  <1>1. TypeOK /\ Ordered => NoGapNoReplay
    <2> SUFFICES ASSUME TypeOK, Ordered, drawn < Modulus, NEW i \in 1 .. Len(accepted) - 1
                 PROVE  accepted[i + 1].n = accepted[i].n + 1
      BY TakesNext DEF Ordered, NoGapNoReplay
    <2>1. i \in 1 .. Len(accepted) /\ i + 1 \in 1 .. Len(accepted)
      BY DEF TypeOK
    <2>2. PICK a, b \in Nat : a = accepted[i].n /\ b = accepted[i + 1].n
      <3>1. accepted[i].n \in Nat /\ accepted[i + 1].n \in Nat
        BY <2>1, AcceptedType
      <3>. QED
        BY <3>1
    <2>3. a < drawn /\ b < drawn /\ b % Modulus = (a + 1) % Modulus
      BY <2>1, <2>2 DEF Ordered, WholeTurns
    <2>4. PICK M \in Nat : M = Modulus /\ a + 1 < M /\ b < M
      BY <2>3, E2EAssumption DEF TypeOK
    <2>5. b % M = b /\ (a + 1) % M = a + 1
      BY <2>4
    <2>. QED
      BY <2>2, <2>3, <2>4, <2>5
  <1>. QED
    BY <1>1, TypeCorrect, AlwaysOrdered, PTL

\* No damaged or foreign frame is ever returned.
THEOREM Authentic == Spec => []OnlyOwn
  <1>1. Ordered => OnlyOwn
    BY DEF Ordered
  <1>. QED
    BY <1>1, AlwaysOrdered, PTL

(***************************************************************************)
(* In order and undisturbed, across every wrap: each counter is the number *)
(* of its payload modulo Modulus, so that the frame after the last one     *)
(* returned always has the counter the receiver expects.                   *)
(***************************************************************************)
\* A genuine payload that carries its number.
Numbered(m) == m.is = "good" /\ m.seq = m.n % Modulus

\* What the receiver has, and what is on the way to it.
Arriving ==
    /\ Len(accepted) + Len(link) = Len(put)
    /\ \A i \in 1 .. Len(accepted) : accepted[i].n = i - 1
    /\ \A k \in 1 .. Len(link) : link[k].n = Len(accepted) + k - 1 /\ Numbered(link[k])
    /\ ~first => last_seq = (Len(accepted) - 1) % Modulus

Undisturbed ==
    /\ seq = drawn % Modulus
    /\ \A t \in Senders : \A m \in hand[t] : Numbered(m)
    /\ faults \in 0 .. MaxFaults
    /\ faults = MaxFaults /\ InOrder => Arriving

\* A payload gets the counter of its number.
LEMMA UndisturbedProtect ==
    ASSUME TypeOK, Undisturbed, NEW t \in Senders, protect(t)
    PROVE  Undisturbed'
  <1>1. seq' = drawn' % Modulus
    BY IncMod DEF TypeOK, Undisturbed, protect, FetchAdd
  <1>2. ASSUME NEW u \in Senders, NEW m \in hand'[u] PROVE Numbered(m)
    <2>1. m \in hand[u] \/ m = [n |-> drawn, seq |-> seq, is |-> "good"]
      BY <1>2 DEF TypeOK, protect
    <2>. QED
      BY <2>1 DEF Undisturbed, Numbered
  <1>3. UNCHANGED <<receiverVars, link, faults, put>>
    BY DEF protect
  <1>. QED
    BY <1>1, <1>2, <1>3 DEF Undisturbed, Arriving, InOrder, Numbered, receiverVars

\* The frame a thread adds comes after those on the link.
LEMMA UndisturbedTransmit ==
    ASSUME TypeOK, Undisturbed, NEW t \in Senders, Transmit(t)
    PROVE  Undisturbed'
  <1>1. PICK m \in hand[t] : link' = Append(link, m) /\ put' = Append(put, m.n)
    BY DEF Transmit
  <1>2. UNCHANGED <<seq, drawn, receiverVars, faults>>
    BY DEF Transmit
  <1>3. /\ link \in Seq(Payload) /\ m \in Payload /\ put \in Seq(Nat)
        /\ Len(link) \in Nat /\ Len(put) \in Nat /\ Len(accepted) \in Nat
    BY <1>1 DEF TypeOK
  <1>4. m.n \in Nat /\ Numbered(m)
    BY <1>1, <1>3 DEF Undisturbed, Payload
  <1>5. \A u \in Senders : hand'[u] \subseteq hand[u]
    BY DEF TypeOK, Transmit
  <1>6. \A u \in Senders : \A x \in hand'[u] : Numbered(x)
    BY <1>5 DEF Undisturbed
  <1>7. ASSUME faults = MaxFaults, InOrder' PROVE Arriving'
    <2>1. Len(put') = Len(put) + 1 /\ put'[Len(put) + 1] = m.n /\ \A i \in 1 .. Len(put) : put'[i] = put[i]
      BY <1>1, <1>3, <1>4
    <2>2. InOrder /\ m.n = Len(put)
      <3>1. \A i \in 1 .. Len(put) + 1 : put'[i] = i - 1
        BY <1>7, <2>1 DEF InOrder
      <3>2. put'[Len(put) + 1] = Len(put)
        BY <1>3, <3>1
      <3>3. \A i \in 1 .. Len(put) : put[i] = i - 1
        BY <1>3, <2>1, <3>1
      <3>. QED
        BY <2>1, <3>2, <3>3 DEF InOrder
    <2>3. Arriving
      BY <1>7, <2>2 DEF Undisturbed
    <2>4. Len(link') = Len(link) + 1 /\ link'[Len(link) + 1] = m /\ \A k \in 1 .. Len(link) : link'[k] = link[k]
      BY <1>1, <1>3
    <2>5. ASSUME NEW k \in 1 .. Len(link')
          PROVE  link'[k].n = Len(accepted) + k - 1 /\ Numbered(link'[k])
      <3>1. CASE k = Len(link) + 1
        <4>1. link'[k] = m
          BY <2>4, <3>1
        <4>2. PICK a, b, c \in Nat : a = Len(accepted) /\ b = Len(link) /\ c = Len(put)
          BY <1>3
        <4>3. a + b = c /\ k = b + 1 /\ m.n = c
          BY <2>2, <2>3, <3>1, <4>2 DEF Arriving
        <4>4. m.n = a + k - 1
          BY <4>2, <4>3
        <4>. QED
          BY <1>4, <4>1, <4>2, <4>4
      <3>2. CASE k \in 1 .. Len(link)
        BY <2>3, <2>4, <3>2 DEF Arriving
      <3>. QED
        BY <1>3, <2>4, <3>1, <3>2
    <2>. QED
      BY <1>2, <1>3, <2>1, <2>3, <2>4, <2>5 DEF Arriving, receiverVars, Numbered
  <1>. QED
    BY <1>2, <1>6, <1>7 DEF Undisturbed, Numbered

\* The frame that arrives is the one expected: it is not rejected, and the
\* receiver remembers its counter.
LEMMA UndisturbedUnwrap ==
    ASSUME TypeOK, Ordered, Undisturbed, unwrap
    PROVE  Undisturbed'
  <1>1. UNCHANGED <<protectorVars, faults, put>>
    BY DEF unwrap, Accept, Reject
  <1>2. link \in Seq(Payload) /\ link # <<>> /\ link' = Tail(link) /\ Len(accepted) \in Nat
    BY DEF TypeOK, unwrap, Accept, Reject, Arrive
  <1>3. /\ Len(link) \in Nat \ {0} /\ Len(link') = Len(link) - 1
        /\ \A k \in 1 .. Len(link') : link'[k] = link[k + 1]
        /\ Head(link) = link[1] /\ link[1] \in Payload
    BY <1>2
  <1>4. ASSUME faults = MaxFaults, InOrder PROVE Arriving'
    <2>1. Arriving
      BY <1>4 DEF Undisturbed
    <2>2. link[1].n = Len(accepted) /\ Numbered(link[1])
      BY <1>2, <1>3, <2>1 DEF Arriving
    <2>3. Expected(Head(link))
      <3>1. CASE first
        BY <3>1 DEF Expected
      <3>2. CASE ~first
        <4>1. accepted # <<>> /\ accepted \in Seq([n : Nat, is : Condition])
          BY <3>2 DEF Ordered, TypeOK
        <4>2. PICK j \in Nat : j = Len(accepted) - 1
          BY <4>1
        <4>3. last_seq = j % Modulus /\ link[1].seq = (j + 1) % Modulus
          BY <1>2, <2>1, <2>2, <3>2, <4>2 DEF Arriving, Numbered
        <4>. QED
          BY <1>3, <4>2, <4>3, IncMod DEF Expected
      <3>. QED
        BY <3>1, <3>2
    <2>4. Accept
      BY <1>3, <2>2, <2>3 DEF unwrap, Reject, Sound, Numbered
    <2>5. /\ last_seq' = link[1].seq /\ first' = FALSE
          /\ accepted' = Append(accepted, [n |-> link[1].n, is |-> link[1].is])
      BY <1>3, <2>4 DEF Accept
    <2>6. PICK e \in [n : Nat, is : Condition] :
            e = [n |-> link[1].n, is |-> link[1].is] /\ accepted' = Append(accepted, e)
      BY <1>3, <2>5 DEF Payload
    <2>7. /\ Len(accepted') = Len(accepted) + 1 /\ accepted'[Len(accepted) + 1] = e
          /\ \A i \in 1 .. Len(accepted) : accepted'[i] = accepted[i]
      BY <2>6 DEF TypeOK
    <2>8. \A i \in 1 .. Len(accepted') : accepted'[i].n = i - 1
      BY <1>2, <2>1, <2>2, <2>6, <2>7 DEF Arriving
    <2>9. \A k \in 1 .. Len(link') : link'[k].n = Len(accepted') + k - 1 /\ Numbered(link'[k])
      BY <1>2, <1>3, <2>1, <2>7 DEF Arriving
    <2>10. last_seq' = (Len(accepted') - 1) % Modulus
      BY <1>2, <2>2, <2>5, <2>7 DEF Numbered
    <2>11. Len(accepted') + Len(link') = Len(put')
      BY <1>1, <1>2, <1>3, <2>1, <2>7 DEF Arriving
    <2>. QED
      BY <2>8, <2>9, <2>10, <2>11 DEF Arriving, Numbered
  <1>. QED
    BY <1>1, <1>4 DEF Undisturbed, InOrder, Numbered, protectorVars

\* The account is kept for good: a fault ends it.
THEOREM AlwaysArriving == Spec => []Undisturbed
  <1>1. Init => Undisturbed
    <2> SUFFICES ASSUME Init PROVE Undisturbed
      OBVIOUS
    <2>1. 0 % Modulus = 0
      BY E2EAssumption
    <2>. QED
      BY <2>1, E2EAssumption DEF Init, Undisturbed, Arriving
  <1>2. TypeOK /\ Ordered /\ Undisturbed /\ [Next]_vars => Undisturbed'
    <2> SUFFICES ASSUME TypeOK, Ordered, Undisturbed, [Next]_vars PROVE Undisturbed'
      OBVIOUS
    <2>1. CASE Lose \/ Duplicate \/ Damage \/ Overtake \/ Stray
      <3>1. Fault
        BY <2>1 DEF Lose, Duplicate, Damage, Overtake, Stray
      <3>2. faults' \in 0 .. MaxFaults /\ faults' # MaxFaults
        BY <3>1, E2EAssumption DEF Fault, Undisturbed
      <3>. QED
        BY <3>1, <3>2 DEF Fault, Undisturbed, Numbered, protectorVars
    <2>2. CASE UNCHANGED vars
      BY <2>2 DEF Undisturbed, Arriving, InOrder, Numbered, vars, protectorVars, receiverVars
    <2>. QED
      BY <2>1, <2>2, UndisturbedProtect, UndisturbedTransmit, UndisturbedUnwrap DEF Next
  <1>. QED
    BY <1>1, <1>2, TypeCorrect, AlwaysOrdered, PTL DEF Spec

\* Frames put on an undisturbed link in the order of their counters are never
\* rejected, for every modulus and however often the counter wraps
\* (safety/mod.rs:243-257).
THEOREM Lossless == Spec => []NoneRejected
  <1>1. TypeOK /\ Undisturbed => NoneRejected
    <2> SUFFICES ASSUME TypeOK, Undisturbed, faults = MaxFaults, InOrder
                 PROVE  /\ Len(accepted) + Len(link) = Len(put)
                        /\ \A i \in 1 .. Len(accepted) : accepted[i].n = put[i]
      BY DEF NoneRejected
    <2>1. Arriving
      BY DEF Undisturbed
    <2>2. Len(accepted) \in Nat /\ Len(link) \in Nat /\ Len(put) \in Nat
      BY DEF TypeOK
    <2>3. 1 .. Len(accepted) \subseteq 1 .. Len(put)
      BY <2>1, <2>2 DEF Arriving
    <2>. QED
      BY <2>1, <2>3 DEF Arriving, InOrder
  <1>. QED
    BY <1>1, AlwaysArriving, TypeCorrect, PTL
=============================================================================
