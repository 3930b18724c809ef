--------------------------- MODULE MCInboundService ---------------------------
(* Instances of InboundService for TLC: two receipts and three lines, one   *)
(* with an excess of which a part was rejected, one rejected in full.       *)
EXTENDS InboundService, TLC

CONSTANTS c1, c2, r1, r2, i1, i2, i3

TwoClients == {c1, c2}
MCReceipts == {r1, r2}
MCItems == {i1, i2, i3}
MCAccepted == [i \in MCItems |-> IF i = i3 THEN 0 ELSE 1]
MCRejected == [i \in MCItems |-> IF i = i1 THEN 0 ELSE 2]
MCExpected == [i \in MCItems |-> IF i = i2 THEN 2 ELSE 0]
=============================================================================
