------------------------------ MODULE MCGateway ------------------------------
(***************************************************************************)
(* Every id with a short payload, some with payloads of the bytes where    *)
(* sums carry, and messages that are refused.                              *)
(***************************************************************************)
EXTENDS Gateway

Message(id, data) == [protocol |-> "Lin", id |-> id, payload |-> data, meta |-> <<>>]

Edges == {0, 1, 127, 128, 254, 255}
Text(form, n) == [form |-> form, n |-> n]
Short == {Message(Decimal(n), <<n, 255>>) : n \in 0 .. 63}
Carries == {Message(t, d) : t \in {Text("plus", 16), Decimal(60)}, d \in {<<a, b>> : a, b \in Edges}}
Long == {Message(Text("zeros", 16), [i \in 1 .. n |-> 255 - i]) : n \in {0, 1, 8, 9}}
Refused == {Message(Decimal(64), <<1>>), Message(Text("other", 16), <<1>>), Message(Decimal(256), <<1>>),
            [Message(Decimal(1), <<1>>) EXCEPT !.protocol = "Can"]}

MCMessages == Short \cup Carries \cup Long \cup Refused
=============================================================================
