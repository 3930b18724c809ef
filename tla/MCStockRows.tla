----------------------------- MODULE MCStockRows -----------------------------
(* Instances of StockRows for TLC: two sessions, three batches of two       *)
(* products, and the statement sequences of the service methods.            *)
EXTENDS StockRows

CONSTANTS c1, c2, b1, b2, b3, chicken, bread

MCBatches == {b1, b2, b3}
MCProducts == {chicken, bread}
MCProductOf == [b \in MCBatches |-> IF b = b3 THEN bread ELSE chicken]
MCExpiryOf == [b \in MCBatches |-> IF b = b1 THEN 1 ELSE 2]
MCMinShelfLife == [p \in MCProducts |-> 0]
MCOpening == [b \in MCBatches |-> IF b = b2 THEN 2 ELSE 1]

Reserve(p, n, d) == [kind |-> "reserve", product |-> p, amount |-> n, safety |-> d]
Give(b, n) == [kind |-> "release", batch |-> b, amount |-> n]
Ship(b, n) == [kind |-> "export", batch |-> b, amount |-> n]
Count(b, n) == [kind |-> "adjust", batch |-> b, amount |-> n]
Scrap(b, s) == [kind |-> "waste", batch |-> b, cause |-> s]

(* sendCoordinationInquiry for a new order and (release, then reserve      *)
(* again) for a queued one, approveOrder with a logistics cut-off and two  *)
(* lines, a departure, a stock count and a waste report.  A session that   *)
(* has released b2 and reserves from b1, and one that has reserved from b1 *)
(* and goes on to b2, deadlock.                                            *)
MCPrograms ==
  { << Reserve(chicken, 2, NoDate) >>,
    << Reserve(bread, 1, 1), Reserve(chicken, 1, 1) >>,
    << Give(b2, 1), Reserve(chicken, 2, NoDate) >>,
    << Ship(b2, 1) >>,
    << Count(b2, 1) >>,
    << Scrap(b2, "damaged") >> }

Sessions == {c1, c2}
=============================================================================
