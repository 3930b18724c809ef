------------------------- MODULE MCProductionService -------------------------
(* Instances of ProductionService for TLC: two orders of one recipe, flour  *)
(* in one lot and chicken in two, of which l1 expires after one day.        *)
EXTENDS ProductionService, TLC

CONSTANTS c1, p1, p2, l1, l2, l3, chicken, flour

MCOrders == {p1, p2}
MCPlanned == [o \in MCOrders |-> IF o = p1 THEN 1 ELSE 2]
MCIngredients == {chicken, flour}
MCPerOutput == [p \in MCIngredients |-> 1]
MCLots == {l1, l2, l3}
MCProductOf == [l \in MCLots |-> IF l = l3 THEN flour ELSE chicken]
MCExpiryOf == [l \in MCLots |-> IF l = l1 THEN 1 ELSE 3]
MCOpening == [l \in MCLots |-> IF l = l3 THEN 4 ELSE 2]
OneClient == {c1}
=============================================================================
