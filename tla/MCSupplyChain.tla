---------------------------- MODULE MCSupplyChain ----------------------------
(* Instances of SupplyChain for TLC. *)
EXTENDS SupplyChain, TLC

CONSTANTS c1, c2, o1, o2, s1, s2, b1, b2, b3, m1, m2, chicken, bread

OneClient == {c1}
TwoClients == {c1, c2}

(* Two orders: of two stores, or of one store for the same day. *)
MCOrders == {o1, o2}
OwnStores == [o \in MCOrders |-> IF o = o1 THEN s1 ELSE s2]
SameStore == [o \in MCOrders |-> s1]
OneRoute == [s \in {s1, s2} |-> 1]
NextDay == [o \in MCOrders |-> 1]
MCMargin == [o \in MCOrders |-> IF o = o1 THEN 0 ELSE 1]

MCProducts == {chicken, bread}
MCRequested == [o \in MCOrders |-> [p \in MCProducts |->
                  IF p = chicken THEN 2 ELSE IF o = o1 THEN 1 ELSE 0]]
(* The second order asks for chicken in two lines of one piece each. *)
MCFirstLine == [o \in MCOrders |-> [p \in MCProducts |->
                  IF p = chicken /\ o = o2 THEN 1 ELSE MCRequested[o][p]]]
MCMinShelfLife == [p \in MCProducts |-> 0]

(* Three pieces of chicken for a demand of four, of which b1 expires first, *)
(* and two of bread.                                                        *)
MCBatches == {b1, b2, b3}
MCProductOf == [b \in MCBatches |-> IF b = b3 THEN bread ELSE chicken]
MCExpiryOf == [b \in MCBatches |-> IF b = b1 THEN 2 ELSE 3]
MCOpening == [b \in MCBatches |-> IF b = b1 THEN 1 ELSE 2]

OneManifest == {m1}
TwoManifests == {m1, m2}
TrucksAlike == Permutations(TwoManifests)
=============================================================================
