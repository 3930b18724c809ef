-------------------------- MODULE SupplyChainProofs --------------------------
(***************************************************************************)
(* What SupplyChain keeps whatever the number of requests and the choice of *)
(* endpoints: the types of its tables, and that no truck leaves with rows    *)
(* nobody scanned.  One lemma per handler and invariant; the lemmas about    *)
(* bundles, rows and allocations come first.                               *)
(***************************************************************************)
EXTENDS SupplyChain, QuantitiesProofs

-----------------------------------------------------------------------------
(* Lemmas about the operators: rows and bundles.                           *)

Bundles == [Batches -> Nat]
Rows == Seq(ShipmentItemRow)

(* Rows that may carry nothing: what a store says has come, or is missing. *)
Line == [batch : Batches, quantity : Nat, picked : BOOLEAN]
Lines == Seq(Line)

(* The rows of a shipment are such rows. *)
LEMMA RowsAreLines ==
  ASSUME NEW items \in Rows
  PROVE  items \in Lines
<1>1. \A row \in ShipmentItemRow : row \in Line
  BY DEF ShipmentItemRow, Line
<1>2. Len(items) \in Nat /\ items \in [1..Len(items) -> ShipmentItemRow]
  BY DEF Rows
<1>3. items \in [1..Len(items) -> Line]
  BY <1>1, <1>2
<1> QED
  BY <1>2, <1>3 DEF Lines

(* The rows of one line: one for each batch it takes something of. *)
LEMMA LineOfBundle ==
  ASSUME NEW take \in Bundles
  PROVE  /\ RowsOfLine(take) \in Rows
         /\ \A k \in DOMAIN RowsOfLine(take) :
              /\ RowsOfLine(take)[k].quantity = take[RowsOfLine(take)[k].batch]
              /\ RowsOfLine(take)[k].quantity > 0
              /\ ~RowsOfLine(take)[k].picked
         /\ \A j, k \in DOMAIN RowsOfLine(take) :
              RowsOfLine(take)[j].batch = RowsOfLine(take)[k].batch => j = k
         /\ \A b \in Batches : take[b] > 0 =>
              \E k \in DOMAIN RowsOfLine(take) : RowsOfLine(take)[k].batch = b
<1> DEFINE D == {d \in Batches : take[d] > 0}
           S == {Item(b, take[b]) : b \in D}
           s == RowsOfLine(take)
<1>1. IsFiniteSet(S)
  <2> DEFINE f == [b \in D |-> Item(b, take[b])]
  <2>1. f \in Surjection(D, S)
    BY DEF Surjection
  <2>2. IsFiniteSet(D)
    BY FulfilmentAssumption, FS_Subset
  <2> QED
    BY <2>1, <2>2, FS_Surjection
<1>2. \A r \in S : /\ r \in ShipmentItemRow /\ ~r.picked
                   /\ r.quantity = take[r.batch] /\ r.quantity > 0
                   /\ r.batch \in D
  <2> SUFFICES ASSUME NEW b \in D
               PROVE  LET r == Item(b, take[b])
                      IN /\ r \in ShipmentItemRow /\ ~r.picked
                         /\ r.quantity = take[r.batch] /\ r.quantity > 0
                         /\ r.batch \in D
    OBVIOUS
  <2>1. take[b] \in Nat \ {0} /\ b \in Batches
    BY DEF Bundles
  <2> QED
    BY <2>1 DEF Item, ShipmentItemRow
<1>3. \A q, r \in S : q.batch = r.batch => q = r
  <2>1. \A r \in S : r = Item(r.batch, take[r.batch])
    <3> SUFFICES ASSUME NEW b \in D
                 PROVE  LET r == Item(b, take[b]) IN r = Item(r.batch, take[r.batch])
      OBVIOUS
    <3> QED
      BY DEF Item
  <2> QED
    BY <2>1
<1>4. \A b \in Batches : take[b] > 0 => \E r \in S : r.batch = b
  <2> SUFFICES ASSUME NEW b \in Batches, take[b] > 0 PROVE \E r \in S : r.batch = b
    OBVIOUS
  <2>1. Item(b, take[b]) \in S
    OBVIOUS
  <2> QED
    BY <2>1 DEF Item
<1>5. s = SetToSeq(S)
  BY DEF RowsOfLine
<1> HIDE DEF S, s
<1>6. /\ Cardinality(S) \in Nat /\ s \in [1..Cardinality(S) -> S] /\ IsInjective(s)
      /\ \A x \in S : \E k \in 1..Cardinality(S) : s[k] = x
  BY <1>1, <1>5, SetToSeqPlaces
<1>7. s \in Seq(ShipmentItemRow)
  BY <1>2, <1>6
<1>8. DOMAIN s = 1..Cardinality(S)
  BY <1>6
<1>9. \A j, k \in DOMAIN s : s[j].batch = s[k].batch => j = k
  BY <1>3, <1>6, <1>8 DEF IsInjective
<1>10. \A b \in Batches : take[b] > 0 => \E k \in DOMAIN s : s[k].batch = b
  BY <1>4, <1>6, <1>8
<1>11. \A k \in DOMAIN s : s[k].quantity = take[s[k].batch] /\ s[k].quantity > 0 /\ ~s[k].picked
  BY <1>2, <1>6, <1>8
<1> QED
  BY <1>7, <1>9, <1>10, <1>11 DEF s, Rows

(* The quantities of some rows. *)
QuantityOf(items) == [k \in DOMAIN items |-> items[k].quantity]

(* What a row carries is a part of the sum for its batch. *)
LEMMA GoodsAreSums ==
  ASSUME NEW items \in Lines, NEW b \in Batches
  PROVE  /\ IsFiniteSet(RowsOf(items, b)) /\ RowsOf(items, b) \in SUBSET DOMAIN items
         /\ Nats(QuantityOf(items), DOMAIN items)
         /\ Goods(items)[b] = SumOver(QuantityOf(items), RowsOf(items, b))
         /\ Goods(items)[b] \in Nat
<1> DEFINE R == RowsOf(items, b)
           f == [k \in R |-> items[k].quantity]
<1>1. IsFiniteSet(R) /\ R \in SUBSET DOMAIN items
  <2>1. IsFiniteSet(DOMAIN items)
    BY FS_Interval DEF Lines
  <2>2. R \in SUBSET DOMAIN items
    BY DEF RowsOf
  <2> QED
    BY <2>1, <2>2, FS_Subset
<1>2. Nats(QuantityOf(items), DOMAIN items)
  <2>1. \A k \in DOMAIN items : items[k] \in Line
    BY DEF Lines
  <2> QED
    BY <2>1 DEF Nats, QuantityOf, Line
<1>3. Goods(items)[b] = SumOver(f, R)
  BY TotalIsSum DEF Goods
<1>4. SumOver(f, R) = SumOver(QuantityOf(items), R)
  <2>1. \A k \in R : f[k] = QuantityOf(items)[k]
    BY <1>1 DEF QuantityOf
  <2> HIDE DEF f, R
  <2> QED
    BY <1>1, <2>1, SumSame
<1>5. SumOver(QuantityOf(items), R) \in Nat
  <2>1. Nats(QuantityOf(items), R)
    BY <1>1, <1>2 DEF Nats
  <2> HIDE DEF R
  <2> QED
    BY <1>1, <2>1, SumGrows
<1> QED
  BY <1>1, <1>2, <1>3, <1>4, <1>5

(* The goods of some rows are a bundle ... *)
LEMMA GoodsType ==
  ASSUME NEW items \in Lines
  PROVE  Goods(items) \in Bundles
  BY GoodsAreSums DEF Goods, Bundles

(* ... the rows of a line carry what it takes ... *)
LEMMA GoodsOfLine ==
  ASSUME NEW take \in Bundles
  PROVE  Goods(RowsOfLine(take)) = take
<1> DEFINE s == RowsOfLine(take)
<1>1. s \in Lines
  BY LineOfBundle, RowsAreLines
<1>2. ASSUME NEW b \in Batches PROVE Goods(s)[b] = take[b]
  <2> DEFINE R == RowsOf(s, b)
  <2>1. Goods(s)[b] = SumOver(QuantityOf(s), R)
    BY <1>1, GoodsAreSums
  <2>2. CASE take[b] > 0
    <3>1. PICK k \in DOMAIN s : s[k].batch = b
      BY <2>2, LineOfBundle
    <3>2. R = {k}
      BY <3>1, LineOfBundle DEF RowsOf
    <3>3. QuantityOf(s)[k] = take[b] /\ take[b] \in Int
      BY <3>1, LineOfBundle DEF QuantityOf, Bundles
    <3> HIDE DEF s, R
    <3> QED
      BY <2>1, <3>2, <3>3, SumSingle
  <2>3. CASE ~(take[b] > 0)
    <3>1. R = {}
      BY <2>3, LineOfBundle DEF RowsOf
    <3>2. take[b] = 0
      BY <2>3 DEF Bundles
    <3> QED
      BY <2>1, <3>1, <3>2, SumEmpty
  <2> QED
    BY <2>2, <2>3
<1>3. Goods(s) = [b \in Batches |-> Goods(s)[b]]
  BY DEF Goods
<1> QED
  BY <1>2, <1>3 DEF Bundles

(* ... and do not depend on what has been scanned.                         *)
LEMMA GoodsUnscanned ==
  ASSUME NEW items \in Lines, NEW other \in Lines, DOMAIN items = DOMAIN other,
         \A k \in DOMAIN items : items[k].batch = other[k].batch
                                 /\ items[k].quantity = other[k].quantity
  PROVE  Goods(items) = Goods(other)
<1>1. ASSUME NEW b \in Batches PROVE Goods(items)[b] = Goods(other)[b]
  <2>1. RowsOf(items, b) = RowsOf(other, b)
    BY DEF RowsOf
  <2>2. QuantityOf(items) = QuantityOf(other)
    BY DEF QuantityOf
  <2> QED
    BY <2>1, <2>2, GoodsAreSums
<1> QED
  BY <1>1 DEF Goods

(* The rows of two lists carry what both carry. *)
LEMMA GoodsTogether ==
  ASSUME NEW l \in Lines, NEW m \in Lines, NEW b \in Batches
  PROVE  l \o m \in Lines /\ Goods(l \o m)[b] = Goods(l)[b] + Goods(m)[b]
<1> DEFINE w == [r \in Line |-> IF r.batch = b THEN r.quantity ELSE 0]
<1>1. w \in [Line -> Int]
  BY DEF Line
<1>2. ASSUME NEW items \in Lines PROVE Goods(items)[b] = Weighed(items, w)
  <2> DEFINE g == [i \in DOMAIN items |-> w[items[i]]]
             P == RowsOf(items, b)
             q == QuantityOf(items)
  <2>1. IsFiniteSet(DOMAIN items) /\ \A i \in DOMAIN items : items[i] \in Line
    BY <1>1, WeighedType DEF Lines
  <2>2. P \subseteq DOMAIN items /\ Goods(items)[b] = SumOver(q, P) /\ Ints(q, P)
    BY GoodsAreSums DEF Nats, Ints
  <2>3. \A i \in DOMAIN items : g[i] = IF i \in P THEN q[i] ELSE 0
    BY <2>1 DEF RowsOf, QuantityOf
  <2>4. Weighed(items, w) = SumOver(g, DOMAIN items)
    BY DEF Weighed
  <2> HIDE DEF g, P, q, w
  <2>5. SumOver(g, DOMAIN items) = SumOver(q, P)
    BY <2>1, <2>2, <2>3, SumOfSome
  <2> QED
    BY <2>2, <2>4, <2>5
<1> HIDE DEF w
<1>3. l \in Seq(Line) /\ m \in Seq(Line)
  BY DEF Lines
<1>4. l \o m \in Seq(Line) /\ Weighed(l \o m, w) = Weighed(l, w) + Weighed(m, w)
  BY <1>1, <1>3, WeighedMore
<1>5. l \o m \in Lines
  BY <1>4 DEF Lines
<1> QED
  BY <1>2, <1>4, <1>5

(* What the first of two lines asks for, of each product. *)
Parts == [Products -> Nat]

(* Two lines share what is taken of a batch. *)
LEMMA LinesShare ==
  ASSUME NEW take \in Bundles, NEW first \in Parts
  PROVE  LET one == FirstTaken(take, first)
             two == SecondTaken(take, one)
         IN /\ one \in Bundles /\ two \in Bundles
            /\ \A b \in Batches : one[b] + two[b] = take[b]
<1> DEFINE one == FirstTaken(take, first)
           two == SecondTaken(take, one)
<1>1. ASSUME NEW b \in Batches
      PROVE  one[b] \in Nat /\ one[b] <= take[b] /\ take[b] \in Nat
  <2> DEFINE S == SoonerThan(b)
             g == [d \in S |-> take[d]]
  <2>1. IsFiniteSet(S) /\ Ints(g, S)
    <3>1. S \in SUBSET Batches
      BY DEF SoonerThan
    <3> QED
      BY <3>1, FulfilmentAssumption, FS_Subset DEF Ints, Bundles
  <2>2. Total(g) = SumOver(g, S)
    BY TotalIsSum
  <2>3. Total(g) \in Int
    <3> HIDE DEF g, S
    <3> QED
      BY <2>1, <2>2, SumType
  <2>4. one[b] = Minimum(take[b], Maximum(first[ProductOf[b]] - Total(g), 0))
    BY DEF FirstTaken
  <2>5. take[b] \in Nat /\ first[ProductOf[b]] \in Nat
    BY FulfilmentAssumption DEF Bundles, Parts
  <2> HIDE DEF g, S, one
  <2> QED
    BY <2>3, <2>4, <2>5 DEF Minimum, Maximum
<1>2. one \in Bundles
  <2>1. one = [b \in Batches |-> one[b]]
    BY DEF FirstTaken
  <2> HIDE DEF one
  <2> QED
    BY <1>1, <2>1 DEF Bundles
<1> HIDE DEF one
<1>3. two \in Bundles /\ \A b \in Batches : one[b] + two[b] = take[b]
  BY <1>1 DEF SecondTaken, Bundles
<1> QED
  BY <1>2, <1>3 DEF one

(* The rows made of a bundle for two lines carry just that, and each        *)
(* something of a batch it has something of.                               *)
LEMMA RowsOfBundle ==
  ASSUME NEW take \in Bundles, NEW first \in Parts
  PROVE  /\ ItemsOf(take, first) \in Rows
         /\ \A k \in DOMAIN ItemsOf(take, first) :
              /\ ItemsOf(take, first)[k].batch \in Batches
              /\ ItemsOf(take, first)[k].quantity > 0
              /\ take[ItemsOf(take, first)[k].batch] > 0
              /\ ~ItemsOf(take, first)[k].picked
<1>1. PICK one, two : /\ one = FirstTaken(take, first) /\ two = SecondTaken(take, one)
                      /\ one \in Bundles /\ two \in Bundles
                      /\ \A b \in Batches : one[b] + two[b] = take[b]
  BY LinesShare
<1>2. PICK l, m : l = RowsOfLine(one) /\ m = RowsOfLine(two)
  OBVIOUS
<1>3. ItemsOf(take, first) = l \o m
  BY <1>1, <1>2 DEF ItemsOf
<1>4. /\ l \in Rows /\ m \in Rows
      /\ \A k \in DOMAIN l : l[k].quantity = one[l[k].batch] /\ l[k].quantity > 0 /\ ~l[k].picked
      /\ \A k \in DOMAIN m : m[k].quantity = two[m[k].batch] /\ m[k].quantity > 0 /\ ~m[k].picked
  BY <1>1, <1>2, LineOfBundle
<1>5. \A b \in Batches : one[b] \in Nat /\ two[b] \in Nat /\ take[b] \in Nat
  BY <1>1 DEF Bundles
<1>6. ASSUME NEW rows \in Rows
      PROVE  \A k \in DOMAIN rows : rows[k].batch \in Batches
  <2>1. \A k \in DOMAIN rows : rows[k] \in ShipmentItemRow
    BY DEF Rows
  <2> QED
    BY <2>1 DEF ShipmentItemRow
<1>7. \A k \in DOMAIN l : l[k].batch \in Batches /\ take[l[k].batch] > 0
  BY <1>1, <1>4, <1>5, <1>6
<1>8. \A k \in DOMAIN m : m[k].batch \in Batches /\ take[m[k].batch] > 0
  BY <1>1, <1>4, <1>5, <1>6
<1>9. /\ l \o m \in Rows
      /\ \A k \in DOMAIN (l \o m) : \/ k \in DOMAIN l /\ (l \o m)[k] = l[k]
                                    \/ \E j \in DOMAIN m : (l \o m)[k] = m[j]
  <2>1. /\ l \in Seq(ShipmentItemRow) /\ m \in Seq(ShipmentItemRow)
        /\ Len(l) \in Nat /\ Len(m) \in Nat
        /\ DOMAIN l = 1..Len(l) /\ DOMAIN m = 1..Len(m)
    BY <1>4 DEF Rows
  <2>2. ASSUME NEW k \in DOMAIN (l \o m)
        PROVE  \/ k \in DOMAIN l /\ (l \o m)[k] = l[k]
               \/ \E j \in DOMAIN m : (l \o m)[k] = m[j]
    <3>1. /\ k \in 1..(Len(l) + Len(m))
          /\ (l \o m)[k] = IF k <= Len(l) THEN l[k] ELSE m[k - Len(l)]
      BY <2>1
    <3>2. CASE k <= Len(l)
      BY <2>1, <3>1, <3>2
    <3>3. CASE ~(k <= Len(l))
      <4>1. k - Len(l) \in DOMAIN m /\ (l \o m)[k] = m[k - Len(l)]
        BY <2>1, <3>1, <3>3
      <4> QED
        BY <4>1
    <3> QED
      BY <3>2, <3>3
  <2> QED
    BY <2>1, <2>2 DEF Rows
<1> QED
  BY <1>3, <1>4, <1>7, <1>8, <1>9

LEMMA GoodsOfBundle ==
  ASSUME NEW take \in Bundles, NEW first \in Parts
  PROVE  Goods(ItemsOf(take, first)) = take
<1>1. PICK one, two : /\ one = FirstTaken(take, first) /\ two = SecondTaken(take, one)
                      /\ one \in Bundles /\ two \in Bundles
                      /\ \A b \in Batches : one[b] + two[b] = take[b]
  BY LinesShare
<1>2. PICK l, m : l = RowsOfLine(one) /\ m = RowsOfLine(two)
  OBVIOUS
<1>3. ItemsOf(take, first) = l \o m
  BY <1>1, <1>2 DEF ItemsOf
<1>4. l \in Lines /\ m \in Lines /\ Goods(l) = one /\ Goods(m) = two
  BY <1>1, <1>2, LineOfBundle, GoodsOfLine, RowsAreLines
<1>5. \A b \in Batches : Goods(l \o m)[b] = take[b]
  BY <1>1, <1>4, GoodsTogether
<1>6. Goods(l \o m) = [b \in Batches |-> Goods(l \o m)[b]]
  BY DEF Goods
<1> QED
  BY <1>3, <1>5, <1>6 DEF Bundles

-----------------------------------------------------------------------------
(* Lemmas about the operators: stock.                                      *)

Stocks == [Batches -> StockRow]
BatchesOf(p) == {b \in Batches : ProductOf[b] = p}
Offers(rows, cutoff) == [b \in Batches |-> Offered(rows, b, cutoff)]

(* What a batch offers is there, is not blocked and is in time. *)
LEMMA OffersType ==
  ASSUME NEW rows \in Stocks, NEW cutoff \in [Products -> Nat]
  PROVE  /\ Offers(rows, cutoff) \in Bundles
         /\ \A b \in Batches : Offers(rows, cutoff)[b] > 0 =>
              /\ rows[b].status = "available" /\ ExpiryOf[b] > cutoff[ProductOf[b]]
              /\ Offers(rows, cutoff)[b] = rows[b].quantity - rows[b].reserved
<1>1. ASSUME NEW b \in Batches
      PROVE  /\ rows[b] \in StockRow /\ ExpiryOf[b] \in Nat
             /\ cutoff[ProductOf[b]] \in Nat
  BY FulfilmentAssumption DEF Stocks
<1>2. ASSUME NEW b \in Batches
      PROVE  /\ Offered(rows, b, cutoff) \in Nat
             /\ Offered(rows, b, cutoff) > 0 =>
                  /\ rows[b].status = "available" /\ ExpiryOf[b] > cutoff[ProductOf[b]]
                  /\ Offered(rows, b, cutoff) = rows[b].quantity - rows[b].reserved
  BY <1>1 DEF Offered, Maximum, StockRow, Blocked
<1> QED
  BY <1>2 DEF Offers, Bundles

(* The units of one product in a bundle. *)
LEMMA PerProductIsSum ==
  ASSUME NEW f, NEW p \in Products
  PROVE  /\ IsFiniteSet(BatchesOf(p)) /\ BatchesOf(p) \in SUBSET Batches
         /\ Total([b \in BatchesOf(p) |-> f[b]]) = SumOver(f, BatchesOf(p))
         /\ PerProduct(f)[p] = SumOver(f, BatchesOf(p))
         /\ f \in Bundles => SumOver(f, BatchesOf(p)) \in Nat
<1> DEFINE S == BatchesOf(p)
           g == [b \in S |-> f[b]]
<1>1. IsFiniteSet(S) /\ S \in SUBSET Batches
  BY FulfilmentAssumption, FS_Subset DEF BatchesOf
<1>2. Total(g) = SumOver(g, S)
  BY TotalIsSum
<1>3. SumOver(g, S) = SumOver(f, S)
  <2>1. \A b \in S : g[b] = f[b]
    OBVIOUS
  <2> HIDE DEF g, S
  <2> QED
    BY <1>1, <2>1, SumSame
<1>4. PerProduct(f)[p] = Total(g)
  BY DEF PerProduct, BatchesOf
<1>5. ASSUME f \in Bundles PROVE SumOver(f, S) \in Nat
  <2>1. Nats(f, S)
    BY <1>1, <1>5 DEF Nats, Bundles
  <2> HIDE DEF S
  <2> QED
    BY <1>1, <2>1, SumGrows
<1> QED
  BY <1>1, <1>2, <1>3, <1>4, <1>5

(* What is taken is offered, and of a product what is wanted or, if that   *)
(* is less, all there is.                                                  *)
LEMMA AllocationTakes ==
  ASSUME NEW rows \in Stocks, NEW wanted \in [Products -> Nat],
         NEW cutoff \in [Products -> Nat]
  PROVE  LET take == Allocation(rows, wanted, cutoff)
         IN /\ take \in Bundles
            /\ \A b \in Batches : take[b] <= Offers(rows, cutoff)[b]
            /\ \A p \in Products : PerProduct(take)[p]
                 = Minimum(wanted[p], SumOver(Offers(rows, cutoff), BatchesOf(p)))
<1> DEFINE take == Allocation(rows, wanted, cutoff)
           offer == Offers(rows, cutoff)
           Before(b) == SumOver(offer, SoonerThan(b))
<1>1. offer \in Bundles
  BY OffersType
<1>2. ASSUME NEW b \in Batches
      PROVE  /\ take[b] = Minimum(offer[b], Maximum(wanted[ProductOf[b]] - Before(b), 0))
             /\ Before(b) \in Nat /\ offer[b] \in Nat /\ wanted[ProductOf[b]] \in Nat
             /\ SoonerThan(b) = {d \in BatchesOf(ProductOf[b]) : ExpiryOf[d] < ExpiryOf[b]}
  <2> DEFINE S == SoonerThan(b)
             g == [d \in S |-> Offered(rows, d, cutoff)]
  <2>1. S \in SUBSET Batches /\ IsFiniteSet(S)
    BY FulfilmentAssumption, FS_Subset DEF SoonerThan
  <2>2. take[b] = Minimum(Offered(rows, b, cutoff),
                          Maximum(wanted[ProductOf[b]] - Total(g), 0))
    BY DEF Allocation
  <2>3. Total(g) = SumOver(g, S)
    BY TotalIsSum
  <2>4. SumOver(g, S) = SumOver(offer, S)
    <3>1. \A d \in S : g[d] = offer[d]
      BY <2>1 DEF Offers
    <3> HIDE DEF S, g, offer
    <3> QED
      BY <2>1, <3>1, SumSame
  <2>5. Before(b) \in Nat
    <3>1. Nats(offer, S)
      BY <1>1, <2>1 DEF Nats, Bundles
    <3>2. SumOver(offer, S) \in Nat
      <4> HIDE DEF S, offer
      <4> QED
        BY <2>1, <3>1, SumGrows
    <3> QED
      BY <3>2
  <2>6. offer[b] = Offered(rows, b, cutoff)
    BY DEF Offers
  <2>7. offer[b] \in Nat /\ wanted[ProductOf[b]] \in Nat
    BY <1>1, FulfilmentAssumption DEF Bundles
  <2>8. SoonerThan(b) = {d \in BatchesOf(ProductOf[b]) : ExpiryOf[d] < ExpiryOf[b]}
    BY DEF SoonerThan, BatchesOf
  <2> QED
    BY <2>2, <2>3, <2>4, <2>5, <2>6, <2>7, <2>8
<1>3. take = [b \in Batches |-> take[b]]
  BY DEF Allocation
<1> HIDE DEF take, offer
<1>4. \A b \in Batches : take[b] \in Nat /\ take[b] <= offer[b]
  BY <1>2 DEF Minimum, Maximum
<1>5. ASSUME NEW p \in Products
      PROVE  PerProduct(take)[p] = Minimum(wanted[p], SumOver(offer, BatchesOf(p)))
  <2> DEFINE S == BatchesOf(p)
             n == wanted[p]
  <2>1. S \in SUBSET Batches /\ IsFiniteSet(S)
    BY PerProductIsSum
  <2>2. ASSUME NEW b \in S
        PROVE  take[b] = Minimum(offer[b],
                 Maximum(n - SumOver(offer, {d \in S : ExpiryOf[d] < ExpiryOf[b]}), 0))
    <3>1. b \in Batches /\ ProductOf[b] = p
      BY DEF BatchesOf
    <3> QED
      BY <1>2, <3>1
  <2>3. \A b, d \in S : b # d => ExpiryOf[b] # ExpiryOf[d]
    BY FulfilmentAssumption DEF BatchesOf
  <2>4. Ints(ExpiryOf, S) /\ Nats(offer, S) /\ n \in Nat
    BY <1>1, <2>1, FulfilmentAssumption DEF Ints, Nats, Bundles
  <2>5. PerProduct(take)[p] = SumOver(take, S)
    BY PerProductIsSum
  <2>6. SumOver(take, S) = Minimum(n, SumOver(offer, S))
    <3> HIDE DEF S, n
    <3>1. \A b \in S : take[b] = Minimum(offer[b],
            Maximum(n - SumOver(offer, {d \in S : ExpiryOf[d] < ExpiryOf[b]}), 0))
      BY <2>2
    <3>2. IsFiniteSet(S) /\ Ints(ExpiryOf, S) /\ Nats(offer, S) /\ n \in Nat
          /\ \A b, d \in S : b # d => ExpiryOf[b] # ExpiryOf[d]
      BY <2>1, <2>3, <2>4
    <3>3. PICK f : f = offer
      OBVIOUS
    <3>4. PICK t : t = take
      OBVIOUS
    <3>5. \A b \in S : t[b] = Minimum(f[b],
            Maximum(n - SumOver(f, {d \in S : ExpiryOf[d] < ExpiryOf[b]}), 0))
      BY <3>1, <3>3, <3>4
    <3>6. SumOver(t, S) = Minimum(n, SumOver(f, S))
      BY <3>2, <3>3, <3>5, Served
    <3> QED
      BY <3>3, <3>4, <3>6
  <2> QED
    BY <2>5, <2>6
<1>6. take \in Bundles
  BY <1>3, <1>4 DEF Bundles
<1> QED
  BY <1>4, <1>5, <1>6 DEF take, offer

(* A stock row with two other columns is a stock row. *)
LEMMA StockRowChanged ==
  ASSUME NEW row \in StockRow, NEW x \in Int
  PROVE  /\ \A y \in Int : [row EXCEPT !.quantity = y, !.reserved = x] \in StockRow
         /\ \A st \in Blocked \cup {"available"} :
              [row EXCEPT !.reserved = x, !.status = st] \in StockRow
<1>1. row \in [quantity : Int, reserved : Int, status : Blocked \cup {"available"}]
  BY DEF StockRow
<1> QED
  BY <1>1 DEF StockRow

(* Reserving, releasing and exporting a bundle. *)
LEMMA StockMoves ==
  ASSUME NEW rows \in Stocks, NEW f \in Bundles
  PROVE  /\ Reserved(rows, f) \in Stocks /\ Released(rows, f) \in Stocks
         /\ Exported(rows, f) \in Stocks /\ FinallyDecreased(rows, f) \in Stocks
         /\ \A b \in Batches :
              /\ Clamped(rows, b, f[b]) \in Int
              /\ Reserved(rows, f)[b] = [rows[b] EXCEPT !.reserved = @ + f[b]]
              /\ Released(rows, f)[b] = [rows[b] EXCEPT !.reserved = Clamped(rows, b, f[b])]
              /\ Exported(rows, f)[b] = [rows[b] EXCEPT !.quantity = @ - f[b],
                                                !.reserved = Clamped(rows, b, f[b])]
              /\ FinallyDecreased(rows, f)[b] = [rows[b] EXCEPT !.quantity = @ - f[b],
                                                !.reserved = @ - f[b]]
<1>1. ASSUME NEW b \in Batches
      PROVE  /\ rows[b] \in StockRow /\ f[b] \in Nat /\ Clamped(rows, b, f[b]) \in Int
  <2>1. rows[b] \in StockRow /\ f[b] \in Nat
    BY DEF Stocks, Bundles
  <2> QED
    BY <2>1 DEF StockRow, Clamped, Maximum
<1>2. Reserved(rows, f) \in Stocks
  BY <1>1 DEF Reserved, Stocks, StockRow
<1>3. Released(rows, f) \in Stocks
  BY <1>1 DEF Released, Stocks, StockRow
<1>4. Exported(rows, f) \in Stocks
  <2>1. ASSUME NEW b \in Batches
        PROVE  [rows[b] EXCEPT !.quantity = @ - f[b], !.reserved = Clamped(rows, b, f[b])]
                 \in StockRow
    <3>1. rows[b].quantity - f[b] \in Int
      BY <1>1 DEF StockRow
    <3> QED
      BY <1>1, <3>1, StockRowChanged
  <2> QED
    BY <2>1 DEF Exported, Stocks
<1>5. FinallyDecreased(rows, f) \in Stocks
  <2>1. ASSUME NEW b \in Batches
        PROVE  [rows[b] EXCEPT !.quantity = @ - f[b], !.reserved = @ - f[b]] \in StockRow
    <3>1. rows[b].quantity - f[b] \in Int /\ rows[b].reserved - f[b] \in Int
      BY <1>1 DEF StockRow
    <3> QED
      BY <1>1, <3>1, StockRowChanged
  <2> QED
    BY <2>1 DEF FinallyDecreased, Stocks
<1> QED
  BY <1>1, <1>2, <1>3, <1>4, <1>5 DEF Reserved, Released, Exported, FinallyDecreased

-----------------------------------------------------------------------------
(* Types, for any number of requests.                                      *)

AboutOneOrder ==
  {"approve", "confirm", "reject", "cancel", "forceCancel", "cancelTask", "finalize"}

(* What a request refers to is there. *)
RequestOK(r) ==
  /\ r.kind \in AboutOneOrder => \E o \in Placed : r.orders = {o}
  /\ r.kind \in {"inquiry", "batchApprove"} => r.orders \subseteq Placed
  /\ r.kind \in {"manifest", "consolidate"} => r.target \subseteq DOMAIN shipment
  /\ r.kind = "receive" => r.target \in DOMAIN shipment
  /\ r.kind = "resolve" => r.target \in DOMAIN claim
  /\ r.kind = "claim" =>
       r.target.shipment \in DOMAIN shipment /\ r.target.lost \in Bundles
  /\ r.kind = "issue" =>
       r.target.ship \in DOMAIN shipment /\ r.target.item \in ShipmentItemRow
  /\ r.kind = "cancelManifest" => r.target \in DOMAIN manifest
  /\ r.kind = "depart" =>
       /\ r.target.manifest \in DOMAIN manifest
       /\ DOMAIN r.target.load \subseteq DOMAIN shipment
       /\ \A i \in DOMAIN r.target.load : r.target.load[i] \in Bundles

OrdersOK == order \in [Placed -> OrderRow] /\ Placed \subseteq Orders

ShipmentsOK ==
  /\ shipment \in Seq(ShipmentRow)
  /\ \A i \in DOMAIN shipment :
       /\ shipment[i].linked \cup {shipment[i].order} \subseteq Placed
       /\ shipment[i].manifest \in DOMAIN manifest \cup {None}

ManifestsOK ==
  manifest \in [DOMAIN manifest -> ManifestStatus] /\ DOMAIN manifest \subseteq Manifests

StoresOK == storeStock \in [DOMAIN RouteOf -> [Batches -> Int]]

ClaimsOK ==
  claim \in Seq(ClaimRow) /\ \A k \in DOMAIN claim : claim[k].shipment \in DOMAIN shipment

RequestsOK ==
  /\ req = [d \in Clients |-> req[d]]
  /\ \A d \in Clients : RequestOK(req[d]) /\ req[d].kind \in Endpoints \cup {"idle"}

Typed ==
  /\ today \in 0..Horizon /\ inquiries \in Nat
  /\ stock \in Stocks /\ log \in [Orders -> Bundles]
  /\ OrdersOK /\ ShipmentsOK /\ ManifestsOK /\ StoresOK /\ ClaimsOK /\ RequestsOK

LEMMA TypedIsTypeOK == Typed => TypeOK
<1> SUFFICES ASSUME Typed PROVE TypeOK
  OBVIOUS
<1> USE DEF Typed
<1>1. /\ Placed \subseteq Orders
      /\ \A o \in Placed : order[o] \in OrderRow
  BY DEF OrdersOK
<1>2. \A i \in DOMAIN shipment :
        /\ shipment[i] \in ShipmentRow
        /\ shipment[i].linked \cup {shipment[i].order} \subseteq Placed
        /\ shipment[i].manifest \in DOMAIN manifest \cup {None}
  BY DEF ShipmentsOK
<1>3. DOMAIN req = Clients
  BY DEF RequestsOK
<1> QED
  BY <1>1, <1>2, <1>3 DEF TypeOK, ManifestsOK, StoresOK, ClaimsOK, Stocks, Bundles

LEMMA InitTyped == Init => Typed
<1> SUFFICES ASSUME Init PROVE Typed
  OBVIOUS
<1> USE DEF Init
<1>1. stock \in Stocks
  BY FulfilmentAssumption DEF Stocks, StockRow
<1>2. log \in [Orders -> Bundles] /\ StoresOK
  BY DEF Bundles, Nothing, StoresOK
<1>3. OrdersOK
  BY DEF OrdersOK, Placed
<1>4. ManifestsOK /\ ClaimsOK
  BY DEF ManifestsOK, ClaimsOK
<1>5. ShipmentsOK
  BY DEF ShipmentsOK
<1>6. RequestsOK
  BY DEF RequestsOK, RequestOK, Idle, AboutOneOrder
<1> QED
  BY <1>1, <1>2, <1>3, <1>4, <1>5, <1>6, FulfilmentAssumption DEF Typed

(* Nothing is ever deleted. *)
Grows ==
  /\ Placed \subseteq Placed' /\ DOMAIN shipment \subseteq DOMAIN shipment'
  /\ DOMAIN manifest \subseteq DOMAIN manifest' /\ DOMAIN claim \subseteq DOMAIN claim'

(* So a request keeps what it refers to. *)
LEMMA RequestKept ==
  ASSUME Grows, NEW r, RequestOK(r)
  PROVE  RequestOK(r)'
<1>1. r.kind \in AboutOneOrder => \E o \in Placed' : r.orders = {o}
  BY DEF RequestOK, Grows
<1> QED
  BY <1>1 DEF RequestOK, Grows

LEMMA RequestsKept ==
  ASSUME RequestsOK, Grows, UNCHANGED req
  PROVE  RequestsOK'
<1>1. \A d \in Clients : RequestOK(req[d])'
  <2>1. ASSUME NEW r, RequestOK(r), NEW d \in Clients, req[d] = r PROVE RequestOK(req[d])'
    <3>1. RequestOK(r)'
      BY <2>1, RequestKept
    <3>2. req'[d] = r
      BY <2>1
    <3> QED
      BY <3>1, <3>2 DEF RequestOK
  <2> QED
    BY <2>1 DEF RequestsOK
<1> QED
  BY <1>1 DEF RequestsOK

(* A request that ends. *)
LEMMA RequestsDone ==
  ASSUME RequestsOK, Grows, NEW c \in Clients, Done(c)
  PROVE  RequestsOK'
<1>1. RequestOK(Idle)'
  BY DEF RequestOK, Idle, AboutOneOrder
<1>2. \A d \in Clients : req'[d] = Idle \/ req'[d] = req[d]
  BY DEF Done, RequestsOK
<1>3. ASSUME NEW d \in Clients
      PROVE  RequestOK(req[d])' /\ req'[d].kind \in Endpoints \cup {"idle"}
  <2>1. CASE req'[d] = Idle
    BY <1>1, <2>1 DEF RequestOK, Idle
  <2>2. CASE req'[d] = req[d]
    <3>1. PICK r : r = req[d]
      OBVIOUS
    <3>2. RequestOK(r)
      BY <3>1 DEF RequestsOK
    <3>3. RequestOK(r)'
      BY <3>2, RequestKept
    <3>4. req'[d].kind \in Endpoints \cup {"idle"}
      BY <2>2 DEF RequestsOK
    <3> QED
      BY <2>2, <3>1, <3>3, <3>4 DEF RequestOK
  <2> QED
    BY <1>2, <2>1, <2>2
<1>4. req' = [d \in Clients |-> req'[d]]
  BY DEF Done, RequestsOK
<1> QED
  BY <1>3, <1>4 DEF RequestsOK

(* A request that arrives leaves the tables alone. *)
LEMMA ArrivesTyped ==
  ASSUME Typed, NEW c \in Clients, NEW kind, NEW S, NEW target, Arrive(c, kind, S, target),
         RequestOK([kind |-> kind, orders |-> S, target |-> target])
  PROVE  Typed'
<1> DEFINE r == [kind |-> kind, orders |-> S, target |-> target]
<1>1. UNCHANGED <<today, stock, log, order, shipment, manifest, storeStock, claim, inquiries>>
  BY DEF Arrive
<1>2. req' = [req EXCEPT ![c] = r]
  BY DEF Arrive
<1>3. Grows
  BY <1>1 DEF Grows, Placed
<1>4. RequestOK(r)'
  BY <1>3, RequestKept
<1> HIDE DEF r
<1>5. r.kind \in Endpoints
  BY DEF r, Arrive, Serves
<1>6. RequestsOK'
  <2>1. ASSUME NEW d \in Clients
        PROVE  RequestOK(req[d])' /\ req'[d].kind \in Endpoints \cup {"idle"}
    <3>1. CASE d = c
      <4>1. req'[d] = r
        BY <1>2, <3>1 DEF Typed, RequestsOK
      <4> QED
        BY <1>4, <1>5, <4>1 DEF RequestOK
    <3>2. CASE d # c
      <4>1. PICK q : q = req[d]
        OBVIOUS
      <4>2. RequestOK(q)'
        BY <1>3, <4>1, RequestKept DEF Typed, RequestsOK
      <4>3. req'[d] = q
        BY <1>2, <3>2, <4>1 DEF Typed, RequestsOK
      <4>4. q.kind \in Endpoints \cup {"idle"}
        BY <4>1 DEF Typed, RequestsOK
      <4> QED
        BY <4>2, <4>3, <4>4 DEF RequestOK
    <3> QED
      BY <3>1, <3>2
  <2> QED
    BY <1>2, <2>1 DEF Typed, RequestsOK
<1> QED
  BY <1>1, <1>6 DEF Typed, OrdersOK, ShipmentsOK, ManifestsOK, StoresOK, ClaimsOK, Placed

(* Requests about one order. *)
LEMMA OneOrderRequest ==
  ASSUME Typed, NEW o \in Placed, NEW kind \in AboutOneOrder
  PROVE  RequestOK([kind |-> kind, orders |-> {o}, target |-> None])
  BY DEF RequestOK, AboutOneOrder

(* The endpoints of the order service that read first. *)
LEMMA OrderArrivalsTyped ==
  ASSUME Typed, NEW c \in Clients,
         \/ ArriveApprove(c) \/ ArriveConfirm(c) \/ ArriveReject(c) \/ ArriveCancel(c)
         \/ ArriveForceCancel(c) \/ ArriveInquiry(c) \/ ArriveBatchApprove(c)
         \/ ArriveReceive(c)
  PROVE  Typed'
<1>1. CASE \E o \in Placed, kind \in AboutOneOrder : Arrive(c, kind, {o}, None)
  BY <1>1, OneOrderRequest, ArrivesTyped
<1>2. CASE \E i \in DOMAIN shipment : Arrive(c, "receive", {}, i)
  <2>1. \A i \in DOMAIN shipment :
          RequestOK([kind |-> "receive", orders |-> {}, target |-> i])
    BY DEF RequestOK, AboutOneOrder
  <2> QED
    BY <1>2, <2>1, ArrivesTyped
<1>3. CASE \E S \in SUBSET Placed, kind \in {"inquiry", "batchApprove"} :
             \E target : Arrive(c, kind, S, target)
  <2>1. ASSUME NEW S \in SUBSET Placed, NEW kind \in {"inquiry", "batchApprove"}, NEW target
        PROVE  RequestOK([kind |-> kind, orders |-> S, target |-> target])
    BY DEF RequestOK, AboutOneOrder
  <2> QED
    BY <1>3, <2>1, ArrivesTyped
<1>4. ArriveInquiry(c) \/ ArriveBatchApprove(c) =>
        \E S \in SUBSET Placed, kind \in {"inquiry", "batchApprove"} :
          \E target : Arrive(c, kind, S, target)
  BY DEF ArriveInquiry, ArriveBatchApprove, OnDay
<1> QED
  BY <1>1, <1>2, <1>3, <1>4 DEF ArriveApprove, ArriveConfirm, ArriveReject, ArriveCancel,
     ArriveForceCancel, ArriveReceive, AboutOneOrder

(* Those of the warehouse service. *)
LEMMA WarehouseArrivalsTyped ==
  ASSUME Typed, NEW c \in Clients,
         \/ ArriveCancelTask(c) \/ ArriveFinalize(c) \/ ArriveManifest(c)
         \/ ArriveConsolidate(c) \/ ArriveIssue(c) \/ ArriveCancelManifest(c)
         \/ ArriveDeparture(c)
  PROVE  Typed'
<1>1. CASE \E o \in Placed, kind \in AboutOneOrder : Arrive(c, kind, {o}, None)
  BY <1>1, OneOrderRequest, ArrivesTyped
<1>2. CASE \E S \in SUBSET Placed, kind \in {"manifest", "consolidate"} :
             Arrive(c, kind, S, ReadyFor(S))
  <2>1. \A S \in SUBSET Placed, kind \in {"manifest", "consolidate"} :
          RequestOK([kind |-> kind, orders |-> S, target |-> ReadyFor(S)])
    BY DEF RequestOK, AboutOneOrder, ReadyFor
  <2> QED
    BY <1>2, <2>1, ArrivesTyped
<1>3. CASE ArriveIssue(c)
  <2>1. PICK i \in DOMAIN shipment : \E k \in DOMAIN shipment[i].items :
          Arrive(c, "issue", {}, [ship |-> i, item |-> shipment[i].items[k]])
    BY <1>3 DEF ArriveIssue
  <2>2. PICK k \in DOMAIN shipment[i].items :
          Arrive(c, "issue", {}, [ship |-> i, item |-> shipment[i].items[k]])
    BY <2>1
  <2>3. shipment[i].items[k] \in ShipmentItemRow
    <3>1. shipment[i] \in ShipmentRow
      BY DEF Typed, ShipmentsOK
    <3>2. shipment[i].items \in Seq(ShipmentItemRow)
      BY <3>1 DEF ShipmentRow
    <3> QED
      BY <3>2
  <2>4. RequestOK([kind |-> "issue", orders |-> {},
                   target |-> [ship |-> i, item |-> shipment[i].items[k]]])
    BY <2>3 DEF RequestOK, AboutOneOrder
  <2> QED
    BY <2>2, <2>4, ArrivesTyped
<1>4. CASE ArriveCancelManifest(c)
  <2>1. \A m \in DOMAIN manifest :
          RequestOK([kind |-> "cancelManifest", orders |-> {}, target |-> m])
    BY DEF RequestOK, AboutOneOrder
  <2> QED
    BY <1>4, <2>1, ArrivesTyped DEF ArriveCancelManifest
<1>5. CASE ArriveDeparture(c)
  <2>1. PICK m \in DOMAIN manifest :
          Arrive(c, "depart", {}, [manifest |-> m,
            load |-> [i \in OnManifest(m) |-> Goods(shipment[i].items)]])
    BY <1>5 DEF ArriveDeparture
  <2>2. ASSUME NEW i \in OnManifest(m) PROVE Goods(shipment[i].items) \in Bundles
    <3>1. shipment[i] \in ShipmentRow
      BY DEF OnManifest, Typed, ShipmentsOK
    <3>2. shipment[i].items \in Rows
      BY <3>1 DEF ShipmentRow, Rows
    <3> QED
      BY <3>2, RowsAreLines, GoodsType
  <2>3. OnManifest(m) \subseteq DOMAIN shipment
    BY DEF OnManifest
  <2>4. RequestOK([kind |-> "depart", orders |-> {}, target |-> [manifest |-> m,
                   load |-> [i \in OnManifest(m) |-> Goods(shipment[i].items)]]])
    BY <2>2, <2>3 DEF RequestOK, AboutOneOrder
  <2> QED
    BY <2>1, <2>4, ArrivesTyped
<1> QED
  BY <1>1, <1>2, <1>3, <1>4, <1>5 DEF ArriveCancelTask, ArriveFinalize, ArriveManifest,
     ArriveConsolidate, AboutOneOrder

(* Those of the claim service. *)
LEMMA ClaimArrivalsTyped ==
  ASSUME Typed, NEW c \in Clients, ArriveClaim(c) \/ ArriveResolve(c)
  PROVE  Typed'
<1>1. CASE ArriveClaim(c)
  <2>1. PICK i \in DOMAIN shipment :
          \E lost \in Bundles : Arrive(c, "claim", {}, [shipment |-> i, lost |-> lost])
    <3>1. \A n : [Batches -> 0..n] \subseteq Bundles
      BY DEF Bundles
    <3> QED
      BY <1>1, <3>1 DEF ArriveClaim
  <2>2. PICK lost \in Bundles : Arrive(c, "claim", {}, [shipment |-> i, lost |-> lost])
    BY <2>1
  <2>3. RequestOK([kind |-> "claim", orders |-> {},
                   target |-> [shipment |-> i, lost |-> lost]])
    BY <2>2 DEF RequestOK, AboutOneOrder
  <2> QED
    BY <2>2, <2>3, ArrivesTyped
<1>2. CASE ArriveResolve(c)
  <2>1. \A k \in DOMAIN claim :
          RequestOK([kind |-> "resolve", orders |-> {}, target |-> k])
    BY DEF RequestOK, AboutOneOrder
  <2> QED
    BY <1>2, <2>1, ArrivesTyped DEF ArriveResolve
<1> QED
  BY <1>1, <1>2

-----------------------------------------------------------------------------
(* What a request about one order is about. *)
LEMMA OneOrder ==
  ASSUME Typed, NEW c \in Clients, req[c].kind \in AboutOneOrder
  PROVE  OrderOf(c) \in Placed /\ req[c].orders = {OrderOf(c)}
<1>1. RequestOK(req[c])
  BY DEF Typed, RequestsOK
<1>2. PICK o \in Placed : req[c].orders = {o}
  BY <1>1 DEF RequestOK
<1> QED
  BY <1>2 DEF OrderOf

(* Orders whose rows change, none of which goes. *)
LEMMA OrdersChange ==
  ASSUME OrdersOK, order' = [o \in Placed |-> order'[o]],
         \A o \in Placed : order'[o] \in OrderRow
  PROVE  OrdersOK' /\ Placed' = Placed
  BY DEF OrdersOK, Placed

LEMMA OrderRowChanged ==
  ASSUME NEW row \in OrderRow, NEW st \in OrderStatus, NEW slip \in BOOLEAN,
         NEW confirm \in BOOLEAN
  PROVE  /\ [row EXCEPT !.status = st] \in OrderRow
         /\ [row EXCEPT !.confirm = confirm] \in OrderRow
         /\ [row EXCEPT !.status = st, !.confirm = confirm] \in OrderRow
         /\ [row EXCEPT !.status = st, !.slip = slip] \in OrderRow
<1>1. row \in [status : OrderStatus, group : Orders, created : 0..Horizon,
               slip : BOOLEAN, confirm : BOOLEAN]
  BY DEF OrderRow
<1> QED
  BY <1>1 DEF OrderRow

(* One order gets another status, and perhaps another flag. *)
LEMMA OneOrderChanges ==
  ASSUME OrdersOK, NEW o \in Placed, NEW st \in OrderStatus, NEW confirm \in BOOLEAN,
         \/ order' = WithStatus(o, st)
         \/ order' = [order EXCEPT ![o].confirm = confirm]
         \/ order' = [order EXCEPT ![o].status = st, ![o].confirm = confirm]
  PROVE  OrdersOK' /\ Placed' = Placed
<1>1. order \in [Placed -> OrderRow]
  BY DEF OrdersOK
<1>2. \A p \in Placed : \/ order'[p] = order[p]
                        \/ order'[p] = [order[p] EXCEPT !.status = st]
                        \/ order'[p] = [order[p] EXCEPT !.confirm = confirm]
                        \/ order'[p] = [order[p] EXCEPT !.status = st, !.confirm = confirm]
  BY <1>1 DEF WithStatus
<1>3. \A p \in Placed : order'[p] \in OrderRow
  <2>1. ASSUME NEW p \in Placed PROVE order'[p] \in OrderRow
    <3>1. order[p] \in OrderRow
      BY <1>1
    <3>2. /\ [order[p] EXCEPT !.status = st] \in OrderRow
          /\ [order[p] EXCEPT !.confirm = confirm] \in OrderRow
          /\ [order[p] EXCEPT !.status = st, !.confirm = confirm] \in OrderRow
      BY <3>1, OrderRowChanged
    <3> QED
      BY <1>2, <3>1, <3>2
  <2> QED
    BY <2>1
<1>4. order' = [p \in Placed |-> order'[p]]
  BY <1>1 DEF WithStatus
<1> QED
  BY <1>3, <1>4, OrdersChange

(* A shipment with another column or two is a shipment. *)
LEMMA ShipmentRowChanged ==
  ASSUME NEW row \in ShipmentRow, NEW st \in ShipmentStatus,
         NEW m \in Manifests \cup {None}, NEW items \in Rows, NEW S \in SUBSET Orders
  PROVE  /\ [row EXCEPT !.status = st] \in ShipmentRow
         /\ [row EXCEPT !.manifest = m] \in ShipmentRow
         /\ [row EXCEPT !.items = items] \in ShipmentRow
         /\ [row EXCEPT !.linked = S] \in ShipmentRow
         /\ [row EXCEPT !.linked = S, !.items = items] \in ShipmentRow
         /\ [row EXCEPT !.status = st, !.shipped = TRUE] \in ShipmentRow
         /\ [row EXCEPT !.manifest = m, !.status = st] \in ShipmentRow
<1>1. row \in [order : Orders, linked : SUBSET Orders, group : Orders,
               status : ShipmentStatus, manifest : Manifests \cup {None},
               shipped : BOOLEAN, items : Rows]
  BY DEF ShipmentRow, Rows
<1> QED
  BY <1>1 DEF ShipmentRow, Rows

(* Shipments whose rows change, none of which goes. *)
LEMMA ShipmentsChange ==
  ASSUME ShipmentsOK, shipment' = [i \in DOMAIN shipment |-> shipment'[i]],
         Placed \subseteq Placed', DOMAIN manifest \subseteq DOMAIN manifest',
         \A i \in DOMAIN shipment :
           /\ shipment'[i] \in ShipmentRow
           /\ shipment'[i].order \in Placed'
           /\ shipment'[i].linked \subseteq Placed'
           /\ shipment'[i].manifest \in DOMAIN manifest' \cup {None}
  PROVE  ShipmentsOK' /\ DOMAIN shipment' = DOMAIN shipment
<1>1. Len(shipment) \in Nat /\ DOMAIN shipment = 1..Len(shipment)
  BY DEF ShipmentsOK
<1>2. shipment' \in [1..Len(shipment) -> ShipmentRow]
  BY <1>1
<1>3. shipment' \in Seq(ShipmentRow) /\ DOMAIN shipment' = DOMAIN shipment
  BY <1>1, <1>2
<1> QED
  BY <1>3 DEF ShipmentsOK

(* There are finitely many shipments. *)
LEMMA FiniteShipments == Typed => IsFiniteSet(DOMAIN shipment)
<1> SUFFICES ASSUME Typed PROVE IsFiniteSet(DOMAIN shipment)
  OBVIOUS
<1>1. shipment \in Seq(ShipmentRow)
  BY DEF Typed, ShipmentsOK
<1>2. PICK n \in Nat : DOMAIN shipment = 1..n
  BY <1>1
<1> QED
  BY <1>2, FS_Interval

(* A row of the tables is a row; a shipment's items are rows. *)
LEMMA ShipmentFacts ==
  ASSUME Typed, NEW i \in DOMAIN shipment
  PROVE  /\ shipment[i] \in ShipmentRow /\ shipment[i].items \in Rows
         /\ shipment[i].order \in Placed /\ shipment[i].linked \subseteq Placed
         /\ shipment[i].manifest \in DOMAIN manifest \cup {None}
         /\ DOMAIN manifest \subseteq Manifests /\ Placed \subseteq Orders
<1>1. shipment[i] \in ShipmentRow
  BY DEF Typed, ShipmentsOK
<1>2. shipment[i].items \in Rows
  BY <1>1 DEF ShipmentRow, Rows
<1> QED
  BY <1>1, <1>2 DEF Typed, ShipmentsOK, ManifestsOK, OrdersOK

(* The goods of some shipments are a bundle. *)
LEMMA GoodsOfType ==
  ASSUME Typed, NEW S \in SUBSET DOMAIN shipment
  PROVE  GoodsOf(S) \in Bundles
<1>1. IsFiniteSet(S)
  <2>1. IsFiniteSet(DOMAIN shipment)
    BY FiniteShipments
  <2> QED
    BY <2>1, FS_Subset
<1>2. ASSUME NEW b \in Batches
      PROVE  Total([i \in S |-> Goods(shipment[i].items)[b]]) \in Nat
  <2> DEFINE f == [i \in S |-> Goods(shipment[i].items)[b]]
  <2>1. \A i \in S : f[i] \in Nat
    <3>1. ASSUME NEW i \in S PROVE f[i] \in Nat
      <4>1. shipment[i].items \in Lines
        BY ShipmentFacts, RowsAreLines
      <4> QED
        BY <4>1, GoodsAreSums
    <3> QED
      BY <3>1
  <2>2. Total(f) = SumOver(f, S)
    BY TotalIsSum
  <2>3. SumOver(f, S) \in Nat
    <3>1. Nats(f, S)
      BY <2>1 DEF Nats
    <3> HIDE DEF f
    <3> QED
      BY <1>1, <3>1, SumGrows
  <2> QED
    BY <2>2, <2>3
<1> QED
  BY <1>2 DEF GoodsOf, Bundles

(* What releaseStock gives back is a bundle. *)
LEMMA ToReleaseType ==
  ASSUME Typed, NEW o \in Placed, NEW give \in ToRelease(o)
  PROVE  give \in Bundles
<1>1. log[o] \in Bundles
  BY DEF Typed, OrdersOK
<1>2. Nothing \in Bundles
  BY DEF Nothing, Bundles
<1>3. \A i \in PrimaryShipments(o) : GoodsOf({i}) \in Bundles
  BY GoodsOfType DEF PrimaryShipments
<1> QED
  BY <1>1, <1>2, <1>3 DEF ToRelease

(* Requests whose rows stay end, and only orders change. *)
LEMMA OrdersOnly ==
  ASSUME Typed, NEW c \in Clients, Done(c), OrdersOK', Placed' = Placed, stock' \in Stocks,
         UNCHANGED <<today, log, shipment, manifest, storeStock, claim, inquiries>>
  PROVE  Typed'
<1>1. Grows
  BY DEF Grows
<1>2. RequestsOK'
  BY <1>1, RequestsDone DEF Typed
<1> QED
  BY <1>2 DEF Typed, ShipmentsOK, ManifestsOK, StoresOK, ClaimsOK

LEMMA RejectTyped ==
  ASSUME Typed, NEW c \in Clients, rejectOrder(c) \/ cancelOrder(c)
  PROVE  Typed'
<1>1. OrderOf(c) \in Placed
  BY OneOrder DEF rejectOrder, cancelOrder, Handles, AboutOneOrder
<1>2. OrdersOK' /\ Placed' = Placed
  <2>1. \E st \in OrderStatus : order' = WithStatus(OrderOf(c), st)
    BY DEF rejectOrder, cancelOrder, OrderStatus
  <2>2. OrdersOK
    BY DEF Typed
  <2> QED
    BY <1>1, <2>1, <2>2, OneOrderChanges
<1> QED
  BY <1>2, OrdersOnly DEF rejectOrder, cancelOrder, Typed

LEMMA ConfirmTyped ==
  ASSUME Typed, NEW c \in Clients, kitchenProductionConfirm(c)
  PROVE  Typed'
<1> DEFINE o == OrderOf(c)
<1>1. o \in Placed
  BY OneOrder DEF kitchenProductionConfirm, Handles, AboutOneOrder
<1>2. OrdersOK' /\ Placed' = Placed
  <2>1. \E st \in OrderStatus : order' = [order EXCEPT ![o].status = st, ![o].confirm = FALSE]
    BY DEF kitchenProductionConfirm, refuseProduction, acceptProduction, OrderStatus
  <2>2. OrdersOK
    BY DEF Typed
  <2> HIDE DEF o
  <2> QED
    BY <1>1, <2>1, <2>2, OneOrderChanges
<1>3. stock' \in Stocks
  <2>1. CASE refuseProduction(o)
    <3>1. PICK give \in ToRelease(o) : stock' = Released(stock, give)
      BY <2>1 DEF refuseProduction
    <3>2. give \in Bundles
      BY <1>1, <3>1, ToReleaseType
    <3> QED
      BY <3>1, <3>2, StockMoves DEF Typed
  <2>2. CASE acceptProduction(o)
    BY <2>2 DEF acceptProduction, Typed
  <2> QED
    BY <2>1, <2>2 DEF kitchenProductionConfirm
<1> QED
  BY <1>2, <1>3, OrdersOnly DEF kitchenProductionConfirm

(* A shipment whose status alone changes. *)
LEMMA StatusOfShipment ==
  ASSUME Typed, NEW i \in DOMAIN shipment, NEW st \in ShipmentStatus,
         \/ shipment' = [shipment EXCEPT ![i].status = st]
         \/ shipment' = [shipment EXCEPT ![i].status = st, ![i].shipped = TRUE],
         Placed' = Placed, UNCHANGED manifest
  PROVE  ShipmentsOK' /\ DOMAIN shipment' = DOMAIN shipment
<1>1. ASSUME NEW j \in DOMAIN shipment
      PROVE  /\ shipment'[j] \in ShipmentRow
             /\ shipment'[j].order = shipment[j].order
             /\ shipment'[j].linked = shipment[j].linked
             /\ shipment'[j].manifest = shipment[j].manifest
  <2>1. shipment[j] \in ShipmentRow /\ shipment[j].items \in Rows
        /\ shipment[j].linked \in SUBSET Orders
        /\ shipment[j].manifest \in Manifests \cup {None}
    BY ShipmentFacts
  <2>2. \/ shipment'[j] = shipment[j]
        \/ shipment'[j] = [shipment[j] EXCEPT !.status = st]
        \/ shipment'[j] = [shipment[j] EXCEPT !.status = st, !.shipped = TRUE]
    BY DEF Typed, ShipmentsOK
  <2>3. /\ [shipment[j] EXCEPT !.status = st] \in ShipmentRow
        /\ [shipment[j] EXCEPT !.status = st, !.shipped = TRUE] \in ShipmentRow
    BY <2>1, ShipmentRowChanged
  <2> QED
    BY <2>1, <2>2, <2>3 DEF ShipmentRow
<1>2. shipment' = [j \in DOMAIN shipment |-> shipment'[j]]
  BY DEF Typed, ShipmentsOK
<1>3. \A j \in DOMAIN shipment :
        /\ shipment'[j] \in ShipmentRow
        /\ shipment'[j].order \in Placed'
        /\ shipment'[j].linked \subseteq Placed'
        /\ shipment'[j].manifest \in DOMAIN manifest' \cup {None}
  BY <1>1, ShipmentFacts
<1> QED
  BY <1>2, <1>3, ShipmentsChange DEF Typed

LEMMA CreateTyped ==
  ASSUME Typed, NEW o \in Orders, createOrder(o)
  PROVE  Typed'
<1>1. PICK g \in {o} \cup OpenGroups(o) : insertOrderWithItems(o, g)
  BY DEF createOrder
<1>2. order \in [Placed -> OrderRow] /\ Placed \subseteq Orders
  BY DEF Typed, OrdersOK
<1>3. g \in Orders
  BY <1>1, <1>2 DEF OpenGroups, OrderRow
<1>4. Placed' = Placed \cup {o}
  BY <1>1 DEF insertOrderWithItems, Placed
<1>5. [status |-> "pending", group |-> g, created |-> today,
       slip |-> FALSE, confirm |-> FALSE] \in OrderRow
  BY <1>3 DEF OrderRow, OrderStatus, Typed
<1>6. OrdersOK'
  <2>1. order' \in [Placed \cup {o} -> OrderRow]
    BY <1>1, <1>2, <1>5 DEF insertOrderWithItems
  <2> QED
    BY <1>2, <1>4, <2>1 DEF OrdersOK
<1>7. UNCHANGED <<today, stock, log, shipment, manifest, storeStock, claim, inquiries, req>>
  BY DEF createOrder
<1>8. Grows
  BY <1>4, <1>7 DEF Grows
<1>9. RequestsOK'
  BY <1>7, <1>8, RequestsKept DEF Typed
<1>10. ShipmentsOK'
  BY <1>4, <1>7 DEF Typed, ShipmentsOK
<1> QED
  BY <1>6, <1>7, <1>9, <1>10 DEF Typed, ManifestsOK, StoresOK, ClaimsOK

(* The lines of an order that has been placed. *)
LEMMA FirstLineTyped ==
  ASSUME Typed, NEW o \in Placed
  PROVE  FirstLine[o] \in Parts
<1>1. o \in Orders
  BY DEF Typed, OrdersOK
<1> QED
  BY <1>1, FulfilmentAssumption DEF Parts

(* The shipments with one row replaced. *)
WithRow(i, row) == [j \in DOMAIN shipment |-> IF j = i THEN row ELSE shipment[j]]

(* A shipment that another order joins. *)
Joined(row, o, take) ==
  [row EXCEPT !.linked = row.linked \cup {o}, !.items = row.items \o ItemsOf(take, FirstLine[o])]

NewFor(o, g, take) ==
  NewShipment(o, {o}, g, "preparing", ItemsOf(take, FirstLine[o]))

(* The two ways an order gets its shipment. *)
LEMMA ShipmentMade ==
  ASSUME Typed, NEW o, NEW g, NEW take,
         shipment' \in ShipmentForOrder(shipment, o, g, take)
  PROVE  \/ /\ \A i \in DOMAIN shipment :
                 ~(shipment[i].group = g /\ shipment[i].status = "preparing")
            /\ shipment' = Append(shipment, NewFor(o, g, take))
         \/ \E i \in DOMAIN shipment :
              /\ shipment[i].group = g /\ shipment[i].status = "preparing"
              /\ shipment' = WithRow(i, Joined(shipment[i], o, take))
<1> DEFINE J == findPreparingShipmentByConsolidationGroup(shipment, g)
<1>1. J = {i \in DOMAIN shipment :
             shipment[i].group = g /\ shipment[i].status = "preparing"}
  BY DEF findPreparingShipmentByConsolidationGroup
<1>2. CASE J = {}
  BY <1>1, <1>2 DEF ShipmentForOrder, NewFor
<1>3. CASE J # {}
  <2>1. PICK i \in J : shipment' = [linkShipmentOrder(shipment, i, o)
                                      EXCEPT ![i].items = @ \o ItemsOf(take, FirstLine[o])]
    BY <1>3 DEF ShipmentForOrder
  <2>2. i \in DOMAIN shipment /\ shipment[i] \in ShipmentRow
    BY <1>1, ShipmentFacts
  <2> DEFINE link == [shipment[i] EXCEPT !.linked = shipment[i].linked \cup {o}]
             ships == linkShipmentOrder(shipment, i, o)
  <2>3. DOMAIN ships = DOMAIN shipment
        /\ \A j \in DOMAIN shipment : ships[j] = IF j = i THEN link ELSE shipment[j]
    BY <2>2 DEF linkShipmentOrder
  <2>4. link.items = shipment[i].items
        /\ [link EXCEPT !.items = link.items \o ItemsOf(take, FirstLine[o])] = Joined(shipment[i], o, take)
    BY <2>2 DEF ShipmentRow, Joined
  <2> HIDE DEF link, ships
  <2>5. shipment' = [j \in DOMAIN ships |->
          IF j = i THEN [ships[i] EXCEPT !.items = ships[i].items \o ItemsOf(take, FirstLine[o])]
          ELSE ships[j]]
    BY <2>1 DEF ships
  <2>6. shipment' = WithRow(i, Joined(shipment[i], o, take))
    BY <2>2, <2>3, <2>4, <2>5 DEF WithRow
  <2> QED
    BY <1>1, <2>2, <2>6
<1> QED
  BY <1>2, <1>3

(* Either leaves a table of shipments. *)
LEMMA ShipmentMadeTyped ==
  ASSUME Typed, NEW o \in Placed, NEW g \in Orders, NEW take \in Bundles,
         shipment' \in ShipmentForOrder(shipment, o, g, take),
         Placed' = Placed, UNCHANGED manifest
  PROVE  ShipmentsOK' /\ DOMAIN shipment \subseteq DOMAIN shipment'
<1>1. ItemsOf(take, FirstLine[o]) \in Rows
  BY FirstLineTyped, RowsOfBundle
<1>2. shipment \in Seq(ShipmentRow) /\ Placed \subseteq Orders
  BY DEF Typed, ShipmentsOK, OrdersOK
<1>3. CASE shipment' = Append(shipment, NewShipment(o, {o}, g, "preparing", ItemsOf(take, FirstLine[o])))
  <2> DEFINE row == NewShipment(o, {o}, g, "preparing", ItemsOf(take, FirstLine[o]))
  <2>1. row \in ShipmentRow /\ row.order = o /\ row.linked = {o} /\ row.manifest = None
    BY <1>1, <1>2 DEF NewShipment, ShipmentRow, ShipmentStatus, Rows
  <2> HIDE DEF row
  <2>2. shipment' = Append(shipment, row)
    BY <1>3 DEF row
  <2>3. shipment' \in Seq(ShipmentRow) /\ DOMAIN shipment \subseteq DOMAIN shipment'
        /\ \A i \in DOMAIN shipment' : \/ i \in DOMAIN shipment /\ shipment'[i] = shipment[i]
                                       \/ shipment'[i] = row
    BY <1>2, <2>1, <2>2
  <2>4. \A i \in DOMAIN shipment :
          /\ shipment[i].linked \cup {shipment[i].order} \subseteq Placed
          /\ shipment[i].manifest \in DOMAIN manifest \cup {None}
    BY DEF Typed, ShipmentsOK
  <2>5. \A i \in DOMAIN shipment' :
          /\ shipment'[i].linked \cup {shipment'[i].order} \subseteq Placed
          /\ shipment'[i].manifest \in DOMAIN manifest \cup {None}
    BY <2>1, <2>3, <2>4
  <2> QED
    BY <2>3, <2>5 DEF ShipmentsOK
<1>4. ASSUME NEW i \in DOMAIN shipment,
             shipment' = WithRow(i, Joined(shipment[i], o, take))
      PROVE  ShipmentsOK' /\ DOMAIN shipment' = DOMAIN shipment
  <2> DEFINE row == Joined(shipment[i], o, take)
  <2>1. shipment[i] \in ShipmentRow /\ shipment[i].items \in Rows
        /\ shipment[i].linked \subseteq Placed /\ shipment[i].order \in Placed
        /\ shipment[i].manifest \in DOMAIN manifest \cup {None}
        /\ DOMAIN manifest \subseteq Manifests
    BY ShipmentFacts
  <2>2. shipment[i].items \o ItemsOf(take, FirstLine[o]) \in Rows
    BY <1>1, <2>1 DEF Rows
  <2>3. shipment[i].linked \cup {o} \in SUBSET Orders
    BY <1>2, <2>1
  <2>4. row \in ShipmentRow
    <3>1. shipment[i].status \in ShipmentStatus
          /\ shipment[i].manifest \in Manifests \cup {None}
      BY <2>1 DEF ShipmentRow
    <3> QED
      BY <2>1, <2>2, <2>3, <3>1, ShipmentRowChanged DEF Joined
  <2>5. row.order \in Placed /\ row.linked \subseteq Placed
        /\ row.manifest \in DOMAIN manifest \cup {None}
    BY <2>1 DEF ShipmentRow, Joined
  <2>6. \A j \in DOMAIN shipment : shipment'[j] = IF j = i THEN row ELSE shipment[j]
    BY <1>2, <1>4 DEF WithRow
  <2> HIDE DEF row
  <2>7. \A j \in DOMAIN shipment :
          /\ shipment'[j] \in ShipmentRow
          /\ shipment'[j].order \in Placed'
          /\ shipment'[j].linked \subseteq Placed'
          /\ shipment'[j].manifest \in DOMAIN manifest' \cup {None}
    BY <2>4, <2>5, <2>6, ShipmentFacts
  <2>8. shipment' = [j \in DOMAIN shipment |-> shipment'[j]]
    BY <1>2, <1>4 DEF WithRow
  <2> QED
    BY <2>7, <2>8, ShipmentsChange DEF Typed
<1> QED
  BY <1>3, <1>4, ShipmentMade DEF NewFor

(* What an order takes is a bundle. *)
LEMMA TakenType ==
  ASSUME Typed, NEW o \in Placed
  PROVE  Taken(o) \in Bundles
<1>1. o \in Orders
  BY DEF Typed, OrdersOK
<1>2. CutOffDate(DeliveryOf[o] + Margin[o]) \in [Products -> Nat]
      /\ Requested[o] \in [Products -> Nat]
  BY <1>1, FulfilmentAssumption DEF CutOffDate
<1> QED
  BY <1>2, AllocationTakes DEF Taken, Typed

LEMMA ApproveTyped ==
  ASSUME Typed, NEW c \in Clients, approveOrder(c)
  PROVE  Typed'
<1> DEFINE o == OrderOf(c)
<1>1. o \in Placed
  BY OneOrder DEF approveOrder, Handles, AboutOneOrder
<1>2. UNCHANGED <<today, manifest, storeStock, claim, inquiries>> /\ Done(c)
      /\ (rejectOutOfStock(o) \/ applyApproval(o) \/ awaitProduction(o))
  BY DEF approveOrder
<1> HIDE DEF o
<1>3. OrdersOK' /\ Placed' = Placed
  <2>1. \/ order' = WithStatus(o, "rejected")
        \/ order' = [order EXCEPT ![o].status = "approved", ![o].confirm = FALSE]
        \/ order' = [order EXCEPT ![o].confirm = TRUE]
    BY <1>2 DEF rejectOutOfStock, applyApproval, awaitProduction, applySmartOrderApproval,
       setOrderProductionFlag
  <2>2. "rejected" \in OrderStatus /\ "approved" \in OrderStatus /\ OrdersOK
    BY DEF OrderStatus, Typed
  <2> QED
    BY <1>1, <2>1, <2>2, OneOrderChanges
<1>4. CASE rejectOutOfStock(o) \/ awaitProduction(o)
  <2>1. UNCHANGED <<stock, log, shipment>>
    BY <1>4 DEF rejectOutOfStock, awaitProduction
  <2> QED
    BY <1>2, <1>3, <2>1, OrdersOnly DEF Typed
<1>5. CASE applyApproval(o)
  <2> DEFINE take == Taken(o)
             g == order[o].group
  <2>1. take \in Bundles
    BY <1>1, TakenType
  <2>2. /\ stock' = Reserved(stock, take)
        /\ log' = [log EXCEPT ![o] = Plus(@, take)]
        /\ shipment' \in ShipmentForOrder(shipment, o, g, take)
    BY <1>5 DEF applyApproval
  <2>3. g \in Orders
    BY <1>1 DEF Typed, OrdersOK, OrderRow
  <2> HIDE DEF take, g
  <2>4. stock' \in Stocks
    BY <2>1, <2>2, StockMoves DEF Typed
  <2>5. log' \in [Orders -> Bundles]
    <3>1. log[o] \in Bundles
      BY <1>1 DEF Typed, OrdersOK
    <3>2. Plus(log[o], take) \in Bundles
      BY <2>1, <3>1 DEF Plus, Bundles
    <3> QED
      BY <2>2, <3>2 DEF Typed
  <2>6. ShipmentsOK' /\ DOMAIN shipment \subseteq DOMAIN shipment'
    BY <1>1, <1>2, <1>3, <2>1, <2>2, <2>3, ShipmentMadeTyped
  <2>7. Grows
    BY <1>2, <1>3, <2>6 DEF Grows
  <2>8. RequestsOK'
    BY <1>2, <2>7, RequestsDone DEF Typed
  <2>9. ClaimsOK'
    BY <1>2, <2>6 DEF Typed, ClaimsOK
  <2> QED
    BY <1>2, <1>3, <2>4, <2>5, <2>6, <2>8, <2>9 DEF Typed, ManifestsOK, StoresOK
<1> QED
  BY <1>2, <1>4, <1>5

(* A request that ends leaves typed tables, if it takes nothing away. *)
LEMMA TablesTyped ==
  ASSUME Typed, NEW c \in Clients, Done(c), Grows, UNCHANGED <<today, log, inquiries>>,
         stock' \in Stocks, OrdersOK', ShipmentsOK', ManifestsOK', StoresOK', ClaimsOK'
  PROVE  Typed'
<1>1. RequestsOK'
  BY RequestsDone DEF Typed
<1> QED
  BY <1>1 DEF Typed

(* The claims, the stores and the manifests stay when nothing touches them. *)
LEMMA ClaimsStay ==
  ASSUME Typed, UNCHANGED claim, DOMAIN shipment \subseteq DOMAIN shipment'
  PROVE  ClaimsOK'
  BY DEF Typed, ClaimsOK

LEMMA OthersStay ==
  ASSUME Typed
  PROVE  /\ UNCHANGED storeStock => StoresOK'
         /\ UNCHANGED manifest => ManifestsOK'
         /\ UNCHANGED order => OrdersOK' /\ Placed' = Placed
         /\ UNCHANGED <<shipment, manifest>> /\ Placed' = Placed => ShipmentsOK'
  BY DEF Typed, StoresOK, ManifestsOK, OrdersOK, ShipmentsOK, Placed

LEMMA ForceCancelTyped ==
  ASSUME Typed, NEW c \in Clients, forceCancelOrder(c)
  PROVE  Typed'
<1> DEFINE o == OrderOf(c)
<1>1. o \in Placed
  BY OneOrder DEF forceCancelOrder, Handles, AboutOneOrder
<1>2. /\ UNCHANGED <<today, log, manifest, storeStock, claim, inquiries>> /\ Done(c)
      /\ order' = WithStatus(o, "cancelled")
      /\ \/ UNCHANGED <<stock, shipment>>
         \/ \E i \in ShipmentsOf(o) :
              /\ stock' = Released(stock, GoodsOf({i}))
              /\ shipment' = [shipment EXCEPT ![i].status = "cancelled"]
  BY DEF forceCancelOrder
<1> HIDE DEF o
<1>3. OrdersOK' /\ Placed' = Placed
  BY <1>1, <1>2, OneOrderChanges DEF OrderStatus, Typed
<1>4. ShipmentsOK' /\ DOMAIN shipment' = DOMAIN shipment /\ stock' \in Stocks
  <2>1. CASE UNCHANGED <<stock, shipment>>
    BY <1>2, <1>3, <2>1, OthersStay DEF Typed
  <2>2. ASSUME NEW i \in ShipmentsOf(o), stock' = Released(stock, GoodsOf({i})),
               shipment' = [shipment EXCEPT ![i].status = "cancelled"]
        PROVE  ShipmentsOK' /\ DOMAIN shipment' = DOMAIN shipment /\ stock' \in Stocks
    <3>1. i \in DOMAIN shipment
      BY DEF ShipmentsOf, PrimaryShipments
    <3>2. GoodsOf({i}) \in Bundles
      BY <3>1, GoodsOfType
    <3>3. stock' \in Stocks
      BY <2>2, <3>2, StockMoves DEF Typed
    <3>4. "cancelled" \in ShipmentStatus
      BY DEF ShipmentStatus
    <3> QED
      BY <1>2, <1>3, <2>2, <3>1, <3>3, <3>4, StatusOfShipment
  <2> QED
    BY <1>2, <2>1, <2>2
<1>5. Grows
  BY <1>2, <1>3, <1>4 DEF Grows
<1> QED
  BY <1>2, <1>3, <1>4, <1>5, TablesTyped, ClaimsStay, OthersStay

LEMMA CancelTaskTyped ==
  ASSUME Typed, NEW c \in Clients, cancelPickingTask(c)
  PROVE  Typed'
<1> DEFINE o == OrderOf(c)
<1>1. o \in Placed
  BY OneOrder DEF cancelPickingTask, Handles, AboutOneOrder
<1>2. /\ UNCHANGED <<today, log, manifest, storeStock, claim, inquiries>> /\ Done(c)
      /\ order' = WithStatus(o, "cancelled")
      /\ \E give \in ToRelease(o) : stock' = Released(stock, give)
      /\ \/ UNCHANGED shipment
         \/ \E i \in ShipmentsOf(o) : shipment' = [shipment EXCEPT ![i].status = "cancelled"]
  BY DEF cancelPickingTask
<1> HIDE DEF o
<1>3. OrdersOK' /\ Placed' = Placed
  BY <1>1, <1>2, OneOrderChanges DEF OrderStatus, Typed
<1>4. ShipmentsOK' /\ DOMAIN shipment' = DOMAIN shipment
  <2>1. CASE UNCHANGED shipment
    BY <1>2, <1>3, <2>1, OthersStay
  <2>2. ASSUME NEW i \in ShipmentsOf(o),
               shipment' = [shipment EXCEPT ![i].status = "cancelled"]
        PROVE  ShipmentsOK' /\ DOMAIN shipment' = DOMAIN shipment
    <3>1. i \in DOMAIN shipment
      BY DEF ShipmentsOf, PrimaryShipments
    <3>2. "cancelled" \in ShipmentStatus
      BY DEF ShipmentStatus
    <3> QED
      BY <1>2, <1>3, <2>2, <3>1, <3>2, StatusOfShipment
  <2> QED
    BY <1>2, <2>1, <2>2
<1>5. stock' \in Stocks
  <2>1. PICK give \in ToRelease(o) : stock' = Released(stock, give)
    BY <1>2
  <2>2. give \in Bundles
    BY <1>1, <2>1, ToReleaseType
  <2> QED
    BY <2>1, <2>2, StockMoves DEF Typed
<1>6. Grows
  BY <1>2, <1>3, <1>4 DEF Grows
<1> QED
  BY <1>2, <1>3, <1>4, <1>5, <1>6, TablesTyped, ClaimsStay, OthersStay

LEMMA FinalizeTyped ==
  ASSUME Typed, NEW c \in Clients, finalizeBulkShipment(c)
  PROVE  Typed'
<1> DEFINE o == OrderOf(c)
<1>1. o \in Placed
  BY OneOrder DEF finalizeBulkShipment, Handles, AboutOneOrder
<1>2. /\ UNCHANGED <<today, log, manifest, storeStock, claim, inquiries>> /\ Done(c)
      /\ order' = WithStatus(o, "delivering")
      /\ \/ UNCHANGED <<stock, shipment>>
         \/ \E i \in PrimaryShipments(o) :
              /\ stock' = FinallyDecreased(stock, GoodsOf({i}))
              /\ shipment' = [shipment EXCEPT ![i].status = "in_transit", ![i].shipped = TRUE]
  BY DEF finalizeBulkShipment
<1> HIDE DEF o
<1>3. OrdersOK' /\ Placed' = Placed
  BY <1>1, <1>2, OneOrderChanges DEF OrderStatus, Typed
<1>4. ShipmentsOK' /\ DOMAIN shipment' = DOMAIN shipment /\ stock' \in Stocks
  <2>1. CASE UNCHANGED <<stock, shipment>>
    BY <1>2, <1>3, <2>1, OthersStay DEF Typed
  <2>2. ASSUME NEW i \in PrimaryShipments(o), stock' = FinallyDecreased(stock, GoodsOf({i})),
               shipment' = [shipment EXCEPT ![i].status = "in_transit", ![i].shipped = TRUE]
        PROVE  ShipmentsOK' /\ DOMAIN shipment' = DOMAIN shipment /\ stock' \in Stocks
    <3>1. i \in DOMAIN shipment
      BY DEF PrimaryShipments
    <3>2. GoodsOf({i}) \in Bundles
      BY <3>1, GoodsOfType
    <3>3. stock' \in Stocks
      BY <2>2, <3>2, StockMoves DEF Typed
    <3>4. "in_transit" \in ShipmentStatus
      BY DEF ShipmentStatus
    <3> QED
      BY <1>2, <1>3, <2>2, <3>1, <3>3, <3>4, StatusOfShipment
  <2> QED
    BY <1>2, <2>1, <2>2
<1>5. Grows
  BY <1>2, <1>3, <1>4 DEF Grows
<1> QED
  BY <1>2, <1>3, <1>4, <1>5, TablesTyped, ClaimsStay, OthersStay

(* ... and keeps the others. *)
LEMMA ShipmentColumns ==
  ASSUME NEW row \in ShipmentRow
  PROVE  /\ \A m : /\ [row EXCEPT !.manifest = m].order = row.order
                   /\ [row EXCEPT !.manifest = m].linked = row.linked
                   /\ [row EXCEPT !.manifest = m].manifest = m
         /\ \A m, st : /\ [row EXCEPT !.manifest = m, !.status = st].order = row.order
                       /\ [row EXCEPT !.manifest = m, !.status = st].linked = row.linked
                       /\ [row EXCEPT !.manifest = m, !.status = st].manifest = m
         /\ \A st : /\ [row EXCEPT !.status = st, !.shipped = TRUE].order = row.order
                    /\ [row EXCEPT !.status = st, !.shipped = TRUE].linked = row.linked
                    /\ [row EXCEPT !.status = st, !.shipped = TRUE].manifest = row.manifest
         /\ \A items : /\ [row EXCEPT !.items = items].order = row.order
                       /\ [row EXCEPT !.items = items].linked = row.linked
                       /\ [row EXCEPT !.items = items].manifest = row.manifest
<1>1. row \in [order : Orders, linked : SUBSET Orders, group : Orders,
               status : ShipmentStatus, manifest : Manifests \cup {None},
               shipped : BOOLEAN, items : Seq(ShipmentItemRow)]
  BY DEF ShipmentRow
<1> QED
  BY <1>1

(* Shipments of which some get another manifest, status or picked goods.   *)
LEMMA SomeShipmentsChange ==
  ASSUME Typed, shipment' = [i \in DOMAIN shipment |-> shipment'[i]], Placed' = Placed,
         DOMAIN manifest \subseteq DOMAIN manifest', DOMAIN manifest' \subseteq Manifests,
         \A i \in DOMAIN shipment :
           \/ shipment'[i] = shipment[i]
           \/ \E m \in DOMAIN manifest' \cup {None} :
                shipment'[i] = [shipment[i] EXCEPT !.manifest = m]
           \/ \E m \in DOMAIN manifest' \cup {None}, st \in ShipmentStatus :
                shipment'[i] = [shipment[i] EXCEPT !.manifest = m, !.status = st]
           \/ \E st \in ShipmentStatus :
                shipment'[i] = [shipment[i] EXCEPT !.status = st, !.shipped = TRUE]
           \/ \E items \in Rows : shipment'[i] = [shipment[i] EXCEPT !.items = items]
  PROVE  ShipmentsOK' /\ DOMAIN shipment' = DOMAIN shipment
<1>1. ASSUME NEW i \in DOMAIN shipment
      PROVE  /\ shipment'[i] \in ShipmentRow
             /\ shipment'[i].order = shipment[i].order
             /\ shipment'[i].linked = shipment[i].linked
             /\ shipment'[i].manifest \in DOMAIN manifest' \cup {None}
  <2>1. /\ shipment[i] \in ShipmentRow /\ shipment[i].items \in Rows
        /\ shipment[i].linked \in SUBSET Orders
        /\ shipment[i].status \in ShipmentStatus
        /\ shipment[i].manifest \in DOMAIN manifest \cup {None}
        /\ shipment[i].manifest \in Manifests \cup {None}
    BY ShipmentFacts DEF ShipmentRow
  <2>2. CASE shipment'[i] = shipment[i]
    BY <2>1, <2>2
  <2>3. CASE \E m \in DOMAIN manifest' \cup {None} :
               shipment'[i] = [shipment[i] EXCEPT !.manifest = m]
    <3>1. PICK m \in DOMAIN manifest' \cup {None} :
            shipment'[i] = [shipment[i] EXCEPT !.manifest = m]
      BY <2>3
    <3> DEFINE new == [shipment[i] EXCEPT !.manifest = m]
    <3>2. new \in ShipmentRow
      <4>1. m \in Manifests \cup {None}
        BY <3>1
      <4> QED
        BY <2>1, <3>1, <4>1, ShipmentRowChanged
    <3>3. new.order = shipment[i].order /\ new.linked = shipment[i].linked
          /\ new.manifest = m
      BY <2>1, ShipmentColumns
    <3> HIDE DEF new
    <3>4. shipment'[i] = new
      BY <3>1 DEF new
    <3> QED
      BY <2>1, <3>1, <3>2, <3>3, <3>4
  <2>4. CASE \E m \in DOMAIN manifest' \cup {None}, st \in ShipmentStatus :
               shipment'[i] = [shipment[i] EXCEPT !.manifest = m, !.status = st]
    <3>1. PICK m \in DOMAIN manifest' \cup {None}, st \in ShipmentStatus :
            shipment'[i] = [shipment[i] EXCEPT !.manifest = m, !.status = st]
      BY <2>4
    <3> DEFINE new == [shipment[i] EXCEPT !.manifest = m, !.status = st]
    <3>2. new \in ShipmentRow
      <4>1. m \in Manifests \cup {None}
        BY <3>1
      <4> QED
        BY <2>1, <3>1, <4>1, ShipmentRowChanged
    <3>3. new.order = shipment[i].order /\ new.linked = shipment[i].linked
          /\ new.manifest = m
      BY <2>1 DEF ShipmentRow
    <3> HIDE DEF new
    <3>4. shipment'[i] = new
      BY <3>1 DEF new
    <3> QED
      BY <2>1, <3>1, <3>2, <3>3, <3>4
  <2>5. CASE \E st \in ShipmentStatus :
               shipment'[i] = [shipment[i] EXCEPT !.status = st, !.shipped = TRUE]
    <3>1. PICK st \in ShipmentStatus :
            shipment'[i] = [shipment[i] EXCEPT !.status = st, !.shipped = TRUE]
      BY <2>5
    <3> DEFINE new == [shipment[i] EXCEPT !.status = st, !.shipped = TRUE]
    <3>2. new \in ShipmentRow
      BY <2>1, <3>1, ShipmentRowChanged
    <3>3. new.order = shipment[i].order /\ new.linked = shipment[i].linked
          /\ new.manifest = shipment[i].manifest
      BY <2>1, ShipmentColumns
    <3> HIDE DEF new
    <3>4. shipment'[i] = new
      BY <3>1 DEF new
    <3> QED
      BY <2>1, <3>1, <3>2, <3>3, <3>4
  <2>6. CASE \E items \in Rows : shipment'[i] = [shipment[i] EXCEPT !.items = items]
    <3>1. PICK items \in Rows : shipment'[i] = [shipment[i] EXCEPT !.items = items]
      BY <2>6
    <3> DEFINE new == [shipment[i] EXCEPT !.items = items]
    <3>2. new \in ShipmentRow
      BY <2>1, <3>1, ShipmentRowChanged
    <3>3. new.order = shipment[i].order /\ new.linked = shipment[i].linked
          /\ new.manifest = shipment[i].manifest
      BY <2>1, ShipmentColumns
    <3> HIDE DEF new
    <3>4. shipment'[i] = new
      BY <3>1 DEF new
    <3> QED
      BY <2>1, <3>1, <3>2, <3>3, <3>4
  <2> QED
    BY <2>1, <2>2, <2>3, <2>4, <2>5, <2>6
<1>2. \A i \in DOMAIN shipment :
        /\ shipment'[i].order \in Placed'
        /\ shipment'[i].linked \subseteq Placed'
  BY <1>1, ShipmentFacts
<1> QED
  BY <1>1, <1>2, ShipmentsChange DEF Typed

(* A new manifest is one of Manifests. *)
LEMMA NewManifestTyped ==
  ASSUME Typed, NEW m \in Manifests \ DOMAIN manifest,
         manifest' = [n \in DOMAIN manifest \cup {m} |->
                        IF n = m THEN "preparing" ELSE manifest[n]]
  PROVE  /\ ManifestsOK' /\ DOMAIN manifest' = DOMAIN manifest \cup {m}
         /\ DOMAIN manifest \subseteq DOMAIN manifest' /\ DOMAIN manifest' \subseteq Manifests
  BY DEF Typed, ManifestsOK, ManifestStatus

LEMMA CreateManifestTyped ==
  ASSUME Typed, NEW c \in Clients, createManifest(c)
  PROVE  Typed'
<1>1. PICK m \in Manifests \ DOMAIN manifest :
        /\ manifest' = [n \in DOMAIN manifest \cup {m} |->
                          IF n = m THEN "preparing" ELSE manifest[n]]
        /\ shipment' = [i \in DOMAIN shipment |->
                          IF i \in req[c].target
                          THEN [shipment[i] EXCEPT !.manifest = m] ELSE shipment[i]]
  BY DEF createManifest
<1>2. Done(c) /\ UNCHANGED <<today, stock, log, order, storeStock, claim, inquiries>>
  BY DEF createManifest
<1>3. /\ ManifestsOK' /\ DOMAIN manifest' = DOMAIN manifest \cup {m}
      /\ DOMAIN manifest \subseteq DOMAIN manifest' /\ DOMAIN manifest' \subseteq Manifests
  BY <1>1, NewManifestTyped
<1>4. OrdersOK' /\ Placed' = Placed
  BY <1>2, OthersStay
<1>5. ShipmentsOK' /\ DOMAIN shipment' = DOMAIN shipment
  <2>1. \A i \in DOMAIN shipment : \/ shipment'[i] = shipment[i]
                                   \/ shipment'[i] = [shipment[i] EXCEPT !.manifest = m]
    BY <1>1
  <2>2. shipment' = [i \in DOMAIN shipment |-> shipment'[i]]
    BY <1>1
  <2> QED
    BY <1>3, <1>4, <2>1, <2>2, SomeShipmentsChange
<1>6. Grows
  BY <1>2, <1>3, <1>4, <1>5 DEF Grows
<1> QED
  BY <1>2, <1>3, <1>4, <1>5, <1>6, TablesTyped, ClaimsStay, OthersStay DEF Typed

LEMMA ConsolidateTyped ==
  ASSUME Typed, NEW c \in Clients, consolidateManifestOrders(c)
  PROVE  Typed'
<1> DEFINE loaded == {shipment[i].order : i \in req[c].target}
<1>1. PICK m \in Manifests \ DOMAIN manifest :
        /\ manifest' = [n \in DOMAIN manifest \cup {m} |->
                          IF n = m THEN "preparing" ELSE manifest[n]]
        /\ shipment' = [i \in DOMAIN shipment |->
                          IF i \in req[c].target
                          THEN [shipment[i] EXCEPT !.manifest = m, !.status = "consolidated"]
                          ELSE shipment[i]]
  BY DEF consolidateManifestOrders
<1>2. Done(c) /\ UNCHANGED <<today, stock, log, storeStock, claim, inquiries>>
  BY DEF consolidateManifestOrders
<1>3. /\ ManifestsOK' /\ DOMAIN manifest' = DOMAIN manifest \cup {m}
      /\ DOMAIN manifest \subseteq DOMAIN manifest' /\ DOMAIN manifest' \subseteq Manifests
  BY <1>1, NewManifestTyped
<1>4. OrdersOK' /\ Placed' = Placed
  <2>1. order' = [o \in Placed |->
                    IF o \in loaded THEN [order[o] EXCEPT !.status = "picking", !.slip = TRUE]
                    ELSE order[o]]
    BY DEF consolidateManifestOrders
  <2> HIDE DEF loaded
  <2>2. ASSUME NEW o \in Placed PROVE order'[o] \in OrderRow
    <3>1. order[o] \in OrderRow /\ "picking" \in OrderStatus
      BY DEF Typed, OrdersOK, OrderStatus
    <3>2. [order[o] EXCEPT !.status = "picking", !.slip = TRUE] \in OrderRow
      BY <3>1, OrderRowChanged
    <3> QED
      BY <2>1, <3>1, <3>2
  <2>3. order' = [o \in Placed |-> order'[o]]
    BY <2>1
  <2> QED
    BY <2>2, <2>3, OrdersChange DEF Typed
<1>5. ShipmentsOK' /\ DOMAIN shipment' = DOMAIN shipment
  <2>1. \A i \in DOMAIN shipment :
          \/ shipment'[i] = shipment[i]
          \/ shipment'[i] = [shipment[i] EXCEPT !.manifest = m, !.status = "consolidated"]
    BY <1>1
  <2>2. shipment' = [i \in DOMAIN shipment |-> shipment'[i]]
    BY <1>1
  <2>3. "consolidated" \in ShipmentStatus
    BY DEF ShipmentStatus
  <2> QED
    BY <1>3, <1>4, <2>1, <2>2, <2>3, SomeShipmentsChange
<1>6. Grows
  BY <1>2, <1>3, <1>4, <1>5 DEF Grows
<1> QED
  BY <1>2, <1>3, <1>4, <1>5, <1>6, TablesTyped, ClaimsStay, OthersStay DEF Typed

LEMMA CancelManifestTyped ==
  ASSUME Typed, NEW c \in Clients, cancelManifest(c)
  PROVE  Typed'
<1> DEFINE m == req[c].target
           S == OnManifest(m)
<1>1. /\ Done(c) /\ UNCHANGED <<today, log, order, storeStock, claim, inquiries>>
      /\ stock' = Released(stock, GoodsOf(S))
      /\ shipment' = [i \in DOMAIN shipment |->
                       IF i \in S THEN [shipment[i] EXCEPT !.manifest = None] ELSE shipment[i]]
      /\ manifest' = [manifest EXCEPT ![m] = "cancelled"]
  BY DEF cancelManifest
<1>2. S \in SUBSET DOMAIN shipment
  BY DEF OnManifest
<1> HIDE DEF m, S
<1>3. ManifestsOK' /\ DOMAIN manifest' = DOMAIN manifest /\ DOMAIN manifest' \subseteq Manifests
  BY <1>1 DEF Typed, ManifestsOK, ManifestStatus
<1>4. OrdersOK' /\ Placed' = Placed
  BY <1>1, OthersStay
<1>5. ShipmentsOK' /\ DOMAIN shipment' = DOMAIN shipment
  <2>1. \A i \in DOMAIN shipment : \/ shipment'[i] = shipment[i]
                                   \/ shipment'[i] = [shipment[i] EXCEPT !.manifest = None]
    BY <1>1
  <2>2. shipment' = [i \in DOMAIN shipment |-> shipment'[i]]
    BY <1>1
  <2> QED
    BY <1>3, <1>4, <2>1, <2>2, SomeShipmentsChange
<1>6. stock' \in Stocks
  <2>1. GoodsOf(S) \in Bundles
    BY <1>2, GoodsOfType
  <2> QED
    BY <1>1, <2>1, StockMoves DEF Typed
<1>7. Grows
  BY <1>1, <1>3, <1>4, <1>5 DEF Grows
<1> QED
  BY <1>1, <1>3, <1>4, <1>5, <1>6, <1>7, TablesTyped, ClaimsStay, OthersStay

LEMMA VerifyTyped ==
  ASSUME Typed, NEW i \in DOMAIN shipment, NEW k \in DOMAIN shipment[i].items,
         verifyManifestItem(i, k)
  PROVE  Typed'
<1> DEFINE items == [shipment[i].items EXCEPT ![k].picked = TRUE]
<1>1. /\ shipment' = [shipment EXCEPT ![i].items[k].picked = TRUE]
      /\ UNCHANGED <<today, stock, log, order, manifest, storeStock, claim, inquiries, req>>
  BY DEF verifyManifestItem
<1>2. items \in Rows
  <2>1. shipment[i].items \in Seq(ShipmentItemRow)
    BY ShipmentFacts DEF Rows
  <2>2. shipment[i].items[k] \in ShipmentItemRow
    BY <2>1
  <2>3. [shipment[i].items[k] EXCEPT !.picked = TRUE] \in ShipmentItemRow
    BY <2>2 DEF ShipmentItemRow
  <2> QED
    BY <2>1, <2>3 DEF Rows
<1>3. ShipmentsOK' /\ DOMAIN shipment' = DOMAIN shipment
  <2>1. \A j \in DOMAIN shipment : \/ shipment'[j] = shipment[j]
                                   \/ shipment'[j] = [shipment[j] EXCEPT !.items = items]
    BY <1>1 DEF Typed, ShipmentsOK
  <2>2. shipment' = [j \in DOMAIN shipment |-> shipment'[j]]
    BY <1>1 DEF Typed, ShipmentsOK
  <2>3. Placed' = Placed /\ DOMAIN manifest' = DOMAIN manifest
        /\ DOMAIN manifest' \subseteq Manifests
    BY <1>1 DEF Placed, Typed, ManifestsOK
  <2> HIDE DEF items
  <2> QED
    BY <1>2, <2>1, <2>2, <2>3, SomeShipmentsChange
<1>4. Grows
  BY <1>1, <1>3 DEF Grows, Placed
<1>5. RequestsOK'
  BY <1>1, <1>4, RequestsKept DEF Typed
<1> QED
  BY <1>1, <1>3, <1>5, ClaimsStay, OthersStay DEF Typed

(* The sum of natural numbers over a finite set. *)
LEMMA TotalType ==
  ASSUME NEW S, IsFiniteSet(S), NEW f, f = [x \in S |-> f[x]], \A x \in S : f[x] \in Nat
  PROVE  Total(f) \in Nat
<1>1. DOMAIN f = S /\ Nats(f, S)
  <2>1. DOMAIN [x \in S |-> f[x]] = S
    OBVIOUS
  <2> QED
    BY <2>1 DEF Nats
<1>2. Total(f) = SumOver(f, S)
  BY <1>1, TotalIsSum
<1> QED
  BY <1>1, <1>2, SumGrows

(* What a departure takes away is a bundle. *)
LEMMA LoadType ==
  ASSUME Typed, NEW load, DOMAIN load \subseteq DOMAIN shipment,
         \A i \in DOMAIN load : load[i] \in Bundles
  PROVE  [b \in Batches |-> Total([i \in DOMAIN load |-> load[i][b]])] \in Bundles
<1>1. IsFiniteSet(DOMAIN load)
  <2>1. IsFiniteSet(DOMAIN shipment)
    BY FiniteShipments
  <2> QED
    BY <2>1, FS_Subset
<1>2. ASSUME NEW b \in Batches PROVE Total([i \in DOMAIN load |-> load[i][b]]) \in Nat
  <2> DEFINE S == DOMAIN load
             f == [i \in S |-> load[i][b]]
  <2>1. f = [i \in S |-> f[i]] /\ \A i \in S : f[i] \in Nat
    BY DEF Bundles
  <2> HIDE DEF f, S
  <2>2. Total(f) \in Nat
    BY <1>1, <2>1, TotalType DEF S
  <2> QED
    BY <2>2 DEF f, S
<1> QED
  BY <1>2 DEF Bundles

LEMMA DepartureTyped ==
  ASSUME Typed, NEW c \in Clients, confirmManifestDeparture(c)
  PROVE  Typed'
<1> DEFINE m == req[c].target.manifest
           load == req[c].target.load
           out == [b \in Batches |-> Total([i \in DOMAIN load |-> load[i][b]])]
<1>1. /\ Done(c) /\ UNCHANGED <<today, log, storeStock, claim, inquiries>>
      /\ stock' = Exported(stock, out)
      /\ shipment' = [i \in DOMAIN shipment |->
                       IF i \in DOMAIN load
                       THEN [shipment[i] EXCEPT !.status = "in_transit", !.shipped = TRUE]
                       ELSE shipment[i]]
      /\ order' = [o \in Placed |->
                    IF \E i \in DOMAIN load : shipment[i].order = o
                    THEN [order[o] EXCEPT !.status = "delivering"] ELSE order[o]]
      /\ manifest' = [manifest EXCEPT ![m] = "departed"]
  BY DEF confirmManifestDeparture
<1>2. DOMAIN load \subseteq DOMAIN shipment /\ \A i \in DOMAIN load : load[i] \in Bundles
  <2>1. RequestOK(req[c]) /\ req[c].kind = "depart"
    BY DEF Typed, RequestsOK, confirmManifestDeparture, Handles
  <2> QED
    BY <2>1 DEF RequestOK
<1>3. out \in Bundles
  BY <1>2, LoadType
<1> HIDE DEF m, load, out
<1>4. ManifestsOK' /\ DOMAIN manifest' = DOMAIN manifest /\ DOMAIN manifest' \subseteq Manifests
  BY <1>1 DEF Typed, ManifestsOK, ManifestStatus
<1>5. OrdersOK' /\ Placed' = Placed
  <2>1. ASSUME NEW o \in Placed PROVE order'[o] \in OrderRow
    <3>1. order[o] \in OrderRow /\ "delivering" \in OrderStatus
      BY DEF Typed, OrdersOK, OrderStatus
    <3>2. [order[o] EXCEPT !.status = "delivering"] \in OrderRow
      BY <3>1, OrderRowChanged
    <3> QED
      BY <1>1, <3>1, <3>2
  <2>2. order' = [o \in Placed |-> order'[o]]
    BY <1>1
  <2> QED
    BY <2>1, <2>2, OrdersChange DEF Typed
<1>6. ShipmentsOK' /\ DOMAIN shipment' = DOMAIN shipment
  <2>1. \A i \in DOMAIN shipment :
          \/ shipment'[i] = shipment[i]
          \/ shipment'[i] = [shipment[i] EXCEPT !.status = "in_transit", !.shipped = TRUE]
    BY <1>1
  <2>2. shipment' = [i \in DOMAIN shipment |-> shipment'[i]]
    BY <1>1
  <2>3. "in_transit" \in ShipmentStatus
    BY DEF ShipmentStatus
  <2> QED
    BY <1>4, <1>5, <2>1, <2>2, <2>3, SomeShipmentsChange
<1>7. stock' \in Stocks
  BY <1>1, <1>3, StockMoves DEF Typed
<1>8. Grows
  BY <1>1, <1>4, <1>5, <1>6 DEF Grows
<1> QED
  BY <1>1, <1>4, <1>5, <1>6, <1>7, <1>8, TablesTyped, ClaimsStay, OthersStay

-----------------------------------------------------------------------------
(* Claims and receipts.                                                    *)

(* The units of each product in a bundle are natural numbers. *)
LEMMA PerProductType ==
  ASSUME NEW f \in Bundles
  PROVE  PerProduct(f) \in [Products -> Nat]
<1>1. \A p \in Products : PerProduct(f)[p] \in Nat
  BY PerProductIsSum
<1> QED
  BY <1>1 DEF PerProduct

(* A claim more. *)
LEMMA WithClaimTyped ==
  ASSUME Typed, NEW i \in DOMAIN shipment, NEW lost \in Bundles, claim' = WithClaim(i, lost),
         DOMAIN shipment \subseteq DOMAIN shipment'
  PROVE  ClaimsOK' /\ DOMAIN claim \subseteq DOMAIN claim'
<1> DEFINE row == [shipment |-> i, status |-> "pending", items |-> PerProduct(lost)]
<1>1. row \in ClaimRow /\ row.shipment = i
  <2>1. PerProduct(lost) \in [Products -> Nat]
    BY PerProductType
  <2>2. i \in Nat
    BY DEF Typed, ShipmentsOK
  <2> QED
    BY <2>1, <2>2 DEF ClaimRow, ClaimStatus
<1>2. claim' = Append(claim, row)
  BY DEF WithClaim
<1> HIDE DEF row
<1>3. claim \in Seq(ClaimRow) /\ \A k \in DOMAIN claim : claim[k].shipment \in DOMAIN shipment
  BY DEF Typed, ClaimsOK
<1>4. claim' \in Seq(ClaimRow) /\ DOMAIN claim \subseteq DOMAIN claim'
      /\ \A k \in DOMAIN claim' : claim'[k] = row \/ (k \in DOMAIN claim /\ claim'[k] = claim[k])
  <2>1. Len(claim) \in Nat /\ DOMAIN claim = 1..Len(claim)
    BY <1>3
  <2>2. claim' \in Seq(ClaimRow) /\ Len(claim') = Len(claim) + 1
    BY <1>1, <1>2, <1>3
  <2>3. DOMAIN claim' = 1..(Len(claim) + 1)
    BY <2>2
  <2>4. claim'[Len(claim) + 1] = row
    BY <1>1, <1>2, <1>3, <2>1
  <2>5. \A k \in 1..Len(claim) : claim'[k] = claim[k]
    BY <1>1, <1>2, <1>3, <2>1
  <2>6. DOMAIN claim' = DOMAIN claim \cup {Len(claim) + 1}
    BY <2>1, <2>3
  <2>7. ASSUME NEW k \in DOMAIN claim'
        PROVE  claim'[k] = row \/ (k \in DOMAIN claim /\ claim'[k] = claim[k])
    <3>1. CASE k = Len(claim) + 1
      BY <2>4, <3>1
    <3>2. CASE k \in DOMAIN claim
      BY <2>1, <2>5, <3>2
    <3> QED
      BY <2>6, <3>1, <3>2
  <2> QED
    BY <2>2, <2>6, <2>7
<1>5. ASSUME NEW k \in DOMAIN claim' PROVE claim'[k].shipment \in DOMAIN shipment'
  <2>1. claim'[k].shipment \in DOMAIN shipment
    BY <1>1, <1>3, <1>4
  <2> QED
    BY <2>1
<1> QED
  BY <1>4, <1>5 DEF ClaimsOK

(* The store a shipment goes to. *)
LEMMA StoreOfShipmentType ==
  ASSUME Typed, NEW i \in DOMAIN shipment
  PROVE  StoreOfShipment(i) \in DOMAIN RouteOf
  BY ShipmentFacts, FulfilmentAssumption DEF StoreOfShipment

LEMMA ClaimTyped ==
  ASSUME Typed, NEW c \in Clients, createManualClaim(c)
  PROVE  Typed'
<1> DEFINE i == req[c].target.shipment
           lost == req[c].target.lost
<1>1. i \in DOMAIN shipment /\ lost \in Bundles
  <2>1. RequestOK(req[c]) /\ req[c].kind = "claim"
    BY DEF Typed, RequestsOK, createManualClaim, Handles
  <2> QED
    BY <2>1 DEF RequestOK
<1>2. /\ Done(c) /\ UNCHANGED <<today, stock, log, shipment, manifest, inquiries>>
      /\ claim' = WithClaim(i, lost)
      /\ storeStock' = [storeStock EXCEPT ![StoreOfShipment(i)] =
                          [b \in Batches |-> @[b] - lost[b]]]
      /\ order' = WithStatus(shipment[i].order, "claimed")
  BY DEF createManualClaim
<1> HIDE DEF i, lost
<1>3. ClaimsOK' /\ DOMAIN claim \subseteq DOMAIN claim'
  BY <1>1, <1>2, WithClaimTyped
<1>4. OrdersOK' /\ Placed' = Placed
  <2>1. shipment[i].order \in Placed /\ "claimed" \in OrderStatus /\ OrdersOK
    BY <1>1, ShipmentFacts DEF OrderStatus, Typed
  <2> QED
    BY <1>2, <2>1, OneOrderChanges
<1>5. StoresOK'
  <2>1. storeStock[StoreOfShipment(i)] \in [Batches -> Int]
    BY <1>1, StoreOfShipmentType DEF Typed, StoresOK
  <2>2. [b \in Batches |-> storeStock[StoreOfShipment(i)][b] - lost[b]] \in [Batches -> Int]
    BY <1>1, <2>1 DEF Bundles
  <2> QED
    BY <1>2, <2>2 DEF Typed, StoresOK
<1>6. Grows
  BY <1>2, <1>3, <1>4 DEF Grows
<1> QED
  BY <1>2, <1>3, <1>4, <1>5, <1>6, TablesTyped, OthersStay DEF Typed

LEMMA ResolveTyped ==
  ASSUME Typed, NEW c \in Clients, resolveClaim(c)
  PROVE  Typed'
<1> DEFINE k == req[c].target
<1>1. k \in DOMAIN claim
  <2>1. RequestOK(req[c]) /\ req[c].kind = "resolve"
    BY DEF Typed, RequestsOK, resolveClaim, Handles
  <2> QED
    BY <2>1 DEF RequestOK
<1>2. /\ Done(c)
      /\ UNCHANGED <<today, stock, log, order, shipment, manifest, storeStock, inquiries>>
  BY DEF resolveClaim
<1>3. PICK verdict \in {"approved", "rejected"} :
        claim' = [claim EXCEPT ![k].status = verdict]
  BY DEF resolveClaim
<1> HIDE DEF k
<1>4. ClaimsOK' /\ DOMAIN claim' = DOMAIN claim
  <2>1. claim \in Seq(ClaimRow) /\ \A j \in DOMAIN claim : claim[j].shipment \in DOMAIN shipment
    BY DEF Typed, ClaimsOK
  <2>2. claim[k] \in ClaimRow
    BY <1>1, <2>1
  <2>3. [claim[k] EXCEPT !.status = verdict] \in ClaimRow
        /\ [claim[k] EXCEPT !.status = verdict].shipment = claim[k].shipment
    BY <2>2 DEF ClaimRow, ClaimStatus
  <2>4. claim' \in Seq(ClaimRow) /\ DOMAIN claim' = DOMAIN claim
        /\ \A j \in DOMAIN claim : claim'[j].shipment = claim[j].shipment
    BY <1>1, <1>3, <2>1, <2>3
  <2> QED
    BY <1>2, <2>1, <2>4 DEF ClaimsOK
<1>5. Grows
  BY <1>2, <1>4 DEF Grows, Placed
<1> QED
  BY <1>2, <1>4, <1>5, TablesTyped, OthersStay DEF Typed, Placed

(* A row that carries another quantity. *)
LEMMA LineChanged ==
  ASSUME NEW row \in Line, NEW n \in Nat
  PROVE  /\ [row EXCEPT !.quantity = n] \in Line
         /\ [row EXCEPT !.quantity = n].batch = row.batch
         /\ [row EXCEPT !.quantity = n].quantity = n
  BY DEF Line

(* What came and what is lost, row by row. *)
LEMMA LinesOfReceipt ==
  ASSUME NEW items \in Lines, NEW f, \A k \in DOMAIN items : f[k] \in Nat
  PROVE  [k \in DOMAIN items |-> [items[k] EXCEPT !.quantity = f[k]]] \in Lines
<1>1. Len(items) \in Nat /\ DOMAIN items = 1..Len(items)
      /\ \A k \in DOMAIN items : items[k] \in Line
  BY DEF Lines
<1>2. \A k \in DOMAIN items : [items[k] EXCEPT !.quantity = f[k]] \in Line
  BY <1>1, LineChanged
<1>3. [k \in DOMAIN items |-> [items[k] EXCEPT !.quantity = f[k]]] \in [1..Len(items) -> Line]
  BY <1>1, <1>2
<1> QED
  BY <1>1, <1>3 DEF Lines

(* The rows of a receipt: what came and what is claimed. *)
LEMMA ReceiptType ==
  ASSUME NEW items \in Lines, NEW report,
         \A b \in DOMAIN report : report[b] \in ReportsOn(items, b)
  PROVE  /\ Came(items, report) \in Lines /\ Lost(items, report) \in Lines
         /\ \A k \in DOMAIN items :
              /\ Came(items, report)[k].batch = items[k].batch
              /\ Lost(items, report)[k].batch = items[k].batch
              /\ Came(items, report)[k].quantity = Credit(items[k], report)
              /\ Lost(items, report)[k].quantity = Loss(items[k], report)
<1>1. \A k \in DOMAIN items : items[k] \in Line
  BY DEF Lines
<1>2. ASSUME NEW k \in DOMAIN items
      PROVE  Credit(items[k], report) \in Nat /\ Loss(items[k], report) \in Nat
  <2>1. PICK n, b : n = items[k].quantity /\ b = items[k].batch
    OBVIOUS
  <2>2. n \in Nat /\ b \in Batches
    BY <1>1, <2>1 DEF Line
  <2>3. ASSUME b \in DOMAIN report
        PROVE  /\ report[b].actual \in Nat /\ report[b].damaged \in Nat
               /\ report[b].damaged <= report[b].actual
    <3>1. report[b] \in ReportsOn(items, b)
      BY <2>3
    <3>2. PICK sent : sent = Goods(items)[b]
      OBVIOUS
    <3>3. report[b] \in [actual : 0..sent, damaged : 0..sent]
          /\ report[b].damaged <= report[b].actual
      BY <3>1, <3>2 DEF ReportsOn
    <3> QED
      BY <3>3
  <2>4. CASE b \in DOMAIN report
    BY <2>1, <2>2, <2>3, <2>4 DEF Credit, Loss, Reported, Maximum
  <2>5. CASE b \notin DOMAIN report
    BY <2>1, <2>2, <2>5 DEF Credit, Loss, Reported
  <2> QED
    BY <2>4, <2>5
<1> DEFINE f == [k \in DOMAIN items |-> Credit(items[k], report)]
           g == [k \in DOMAIN items |-> Loss(items[k], report)]
<1>3. \A k \in DOMAIN items : f[k] \in Nat /\ g[k] \in Nat
  BY <1>2
<1>4. /\ Came(items, report) = [k \in DOMAIN items |-> [items[k] EXCEPT !.quantity = f[k]]]
      /\ Lost(items, report) = [k \in DOMAIN items |-> [items[k] EXCEPT !.quantity = g[k]]]
  BY DEF Came, Lost
<1>5. ASSUME NEW k \in DOMAIN items
      PROVE  /\ Came(items, report)[k].quantity = f[k]
             /\ Came(items, report)[k].batch = items[k].batch
  <2>1. Came(items, report)[k] = [items[k] EXCEPT !.quantity = f[k]]
    BY <1>4
  <2> HIDE DEF f
  <2> QED
    BY <1>1, <1>3, <2>1, LineChanged
<1>6. ASSUME NEW k \in DOMAIN items
      PROVE  /\ Lost(items, report)[k].quantity = g[k]
             /\ Lost(items, report)[k].batch = items[k].batch
  <2>1. Lost(items, report)[k] = [items[k] EXCEPT !.quantity = g[k]]
    BY <1>4
  <2> HIDE DEF g
  <2> QED
    BY <1>1, <1>3, <2>1, LineChanged
<1>7. Came(items, report) \in Lines /\ Lost(items, report) \in Lines
  <2>1. \A h : (\A k \in DOMAIN items : h[k] \in Nat) =>
                 [k \in DOMAIN items |-> [items[k] EXCEPT !.quantity = h[k]]] \in Lines
    BY LinesOfReceipt
  <2> HIDE DEF f, g
  <2> QED
    BY <1>3, <1>4, <2>1
<1> QED
  BY <1>5, <1>6, <1>7

(* What a receipt does, and what the store has reported. *)
LEMMA ReceiptMade ==
  ASSUME NEW c \in Clients, receiveShipment(c)
  PROVE  LET i == req[c].target
             s == shipment[i]
         IN /\ Done(c) /\ UNCHANGED <<today, stock, log, manifest, inquiries>>
            /\ shipment' = [shipment EXCEPT ![i].status = "completed"]
            /\ \E report :
                 LET came == Came(s.items, report)
                     lost == Lost(s.items, report)
                     short == \E k \in DOMAIN s.items : lost[k].quantity > 0
                 IN /\ \A b \in DOMAIN report : report[b] \in ReportsOn(s.items, b)
                    /\ storeStock' = [storeStock EXCEPT ![StoreOfShipment(i)] =
                                        Plus(@, Goods(came))]
                    /\ claim' = IF short THEN WithClaim(i, Goods(lost)) ELSE claim
                    /\ order' = WithStatus(s.order, IF short THEN "claimed" ELSE "completed")
<1> DEFINE i == req[c].target
           s == shipment[i]
           named == {s.items[k].batch : k \in DOMAIN s.items}
<1>1. PICK reported \in SUBSET named :
        \E report \in [reported -> UNION {ReportsOn(s.items, b) : b \in named}] :
          LET came == Came(s.items, report)
              lost == Lost(s.items, report)
              short == \E k \in DOMAIN s.items : lost[k].quantity > 0
          IN /\ \A b \in reported : report[b] \in ReportsOn(s.items, b)
             /\ storeStock' = [storeStock EXCEPT ![StoreOfShipment(i)] =
                                 Plus(@, Goods(came))]
             /\ claim' = IF short THEN WithClaim(i, Goods(lost)) ELSE claim
             /\ order' = WithStatus(s.order, IF short THEN "claimed" ELSE "completed")
  BY DEF receiveShipment
<1>2. \A X : \A report \in [reported -> X] : DOMAIN report = reported
  OBVIOUS
<1>3. \E report :
        LET came == Came(s.items, report)
            lost == Lost(s.items, report)
            short == \E k \in DOMAIN s.items : lost[k].quantity > 0
        IN /\ \A b \in DOMAIN report : report[b] \in ReportsOn(s.items, b)
           /\ storeStock' = [storeStock EXCEPT ![StoreOfShipment(i)] =
                               Plus(@, Goods(came))]
           /\ claim' = IF short THEN WithClaim(i, Goods(lost)) ELSE claim
           /\ order' = WithStatus(s.order, IF short THEN "claimed" ELSE "completed")
  BY <1>1, <1>2
<1> QED
  BY <1>3 DEF receiveShipment

LEMMA ReceiveTyped ==
  ASSUME Typed, NEW c \in Clients, receiveShipment(c)
  PROVE  Typed'
<1> DEFINE i == req[c].target
<1>1. i \in DOMAIN shipment
  <2>1. RequestOK(req[c]) /\ req[c].kind = "receive"
    BY DEF Typed, RequestsOK, receiveShipment, Handles
  <2> QED
    BY <2>1 DEF RequestOK
<1>2. /\ Done(c) /\ UNCHANGED <<today, stock, log, manifest, inquiries>>
      /\ shipment' = [shipment EXCEPT ![i].status = "completed"]
  BY ReceiptMade
<1>3. PICK came \in Lines, lost \in Lines :
        /\ storeStock' = [storeStock EXCEPT ![StoreOfShipment(i)] = Plus(@, Goods(came))]
        /\ claim' = WithClaim(i, Goods(lost)) \/ claim' = claim
        /\ \E st \in {"claimed", "completed"} : order' = WithStatus(shipment[i].order, st)
  <2>1. PICK report :
          /\ \A b \in DOMAIN report : report[b] \in ReportsOn(shipment[i].items, b)
          /\ storeStock' = [storeStock EXCEPT ![StoreOfShipment(i)] =
               Plus(@, Goods(Came(shipment[i].items, report)))]
          /\ \/ claim' = WithClaim(i, Goods(Lost(shipment[i].items, report)))
             \/ claim' = claim
          /\ \E st \in {"claimed", "completed"} : order' = WithStatus(shipment[i].order, st)
    BY ReceiptMade
  <2>2. shipment[i].items \in Lines
    BY <1>1, ShipmentFacts, RowsAreLines
  <2>3. Came(shipment[i].items, report) \in Lines
        /\ Lost(shipment[i].items, report) \in Lines
    BY <2>1, <2>2, ReceiptType
  <2> QED
    BY <2>1, <2>3
<1> HIDE DEF i
<1>4. Goods(came) \in Bundles /\ Goods(lost) \in Bundles
  BY GoodsType
<1>5. OrdersOK' /\ Placed' = Placed
  <2>1. shipment[i].order \in Placed /\ "claimed" \in OrderStatus /\ "completed" \in OrderStatus
        /\ OrdersOK
    BY <1>1, ShipmentFacts DEF OrderStatus, Typed
  <2> QED
    BY <1>3, <2>1, OneOrderChanges
<1>6. ShipmentsOK' /\ DOMAIN shipment' = DOMAIN shipment
  BY <1>1, <1>2, <1>5, StatusOfShipment DEF ShipmentStatus
<1>7. StoresOK'
  <2>1. storeStock[StoreOfShipment(i)] \in [Batches -> Int]
    BY <1>1, StoreOfShipmentType DEF Typed, StoresOK
  <2>2. Plus(storeStock[StoreOfShipment(i)], Goods(came)) \in [Batches -> Int]
    BY <1>4, <2>1 DEF Bundles, Plus
  <2> QED
    BY <1>3, <2>2 DEF Typed, StoresOK
<1>8. ClaimsOK' /\ DOMAIN claim \subseteq DOMAIN claim'
  <2>1. CASE claim' = WithClaim(i, Goods(lost))
    BY <1>1, <1>4, <1>6, <2>1, WithClaimTyped
  <2>2. CASE claim' = claim
    BY <1>6, <2>2, ClaimsStay
  <2> QED
    BY <1>3, <2>1, <2>2
<1>9. Grows
  BY <1>2, <1>5, <1>6, <1>8 DEF Grows
<1> QED
  BY <1>2, <1>5, <1>6, <1>7, <1>8, <1>9, TablesTyped, OthersStay DEF Typed

(* What replaces a damaged batch is a bundle. *)
LEMMA SubstitutesType ==
  ASSUME NEW rows \in Stocks, NEW bad \in Batches, NEW n \in Nat
  PROVE  Substitutes(rows, bad, n) \in Bundles
<1> DEFINE other(b) == IF ProductOf[b] = ProductOf[bad] /\ b # bad
                       THEN Maximum(rows[b].quantity - rows[b].reserved, 0) ELSE 0
           before(b) == Total([d \in SoonerThan(b) |-> other(d)])
<1>1. ASSUME NEW b \in Batches PROVE other(b) \in Nat
  <2>1. rows[b] \in StockRow
    BY DEF Stocks
  <2> QED
    BY <2>1 DEF StockRow, Maximum
<1>2. ASSUME NEW b \in Batches PROVE before(b) \in Nat
  <2> DEFINE S == SoonerThan(b)
             f == [d \in S |-> other(d)]
  <2>1. IsFiniteSet(S)
    BY FulfilmentAssumption, FS_Subset DEF SoonerThan
  <2>2. f = [d \in S |-> f[d]] /\ \A d \in S : f[d] \in Nat
    BY <1>1 DEF SoonerThan
  <2>3. Total(f) \in Nat
    <3> HIDE DEF f, S
    <3> QED
      BY <2>1, <2>2, TotalType
  <2> QED
    BY <2>3
<1>3. Substitutes(rows, bad, n)
        = [b \in Batches |-> Minimum(other(b), Maximum(n - before(b), 0))]
  BY DEF Substitutes
<1> HIDE DEF other, before
<1>4. \A b \in Batches : Minimum(other(b), Maximum(n - before(b), 0)) \in Nat
  BY <1>1, <1>2 DEF Minimum, Maximum
<1> QED
  BY <1>3, <1>4 DEF Bundles

LEMMA IssueTyped ==
  ASSUME Typed, NEW c \in Clients, reportManifestBatchIssue(c)
  PROVE  Typed'
<1> DEFINE i == req[c].target.ship
           item == req[c].target.item
           items == shipment[i].items
           back == [stock EXCEPT ![item.batch].reserved = @ - item.quantity]
           take == Substitutes(back, item.batch, item.quantity)
<1>1. i \in DOMAIN shipment /\ item \in ShipmentItemRow
  <2>1. RequestOK(req[c]) /\ req[c].kind = "issue"
    BY DEF Typed, RequestsOK, reportManifestBatchIssue, Handles
  <2> QED
    BY <2>1 DEF RequestOK
<1>2. /\ Done(c) /\ UNCHANGED <<today, log, order, manifest, storeStock, claim, inquiries>>
      /\ stock' = [Reserved(back, take) EXCEPT ![item.batch].status = "damaged"]
      /\ \/ shipment' = [shipment EXCEPT ![i].items = @ \o RowsOfLine(take)]
         \/ \E k \in DOMAIN items :
              shipment' = [shipment EXCEPT ![i].items = RemoveAt(@, k) \o RowsOfLine(take)]
  BY DEF reportManifestBatchIssue
<1>3. item.batch \in Batches /\ item.quantity \in Nat /\ items \in Rows
  BY <1>1, ShipmentFacts DEF ShipmentItemRow
<1> HIDE DEF i, item
<1>4. back \in Stocks
  <2>1. stock[item.batch] \in StockRow
    BY <1>3 DEF Typed, Stocks
  <2>2. [stock[item.batch] EXCEPT !.reserved = @ - item.quantity] \in StockRow
    BY <1>3, <2>1 DEF StockRow
  <2> QED
    BY <1>3, <2>2 DEF Typed, Stocks
<1> HIDE DEF back
<1>5. take \in Bundles
  BY <1>3, <1>4, SubstitutesType
<1> HIDE DEF take
<1>6. stock' \in Stocks
  <2> DEFINE rows == Reserved(back, take)
  <2>1. rows \in Stocks
    BY <1>4, <1>5, StockMoves
  <2> HIDE DEF rows
  <2>2. rows[item.batch] \in StockRow
    BY <1>3, <2>1 DEF Stocks
  <2>3. [rows[item.batch] EXCEPT !.status = "damaged"] \in StockRow
    BY <2>2 DEF StockRow, Blocked
  <2>4. stock' = [rows EXCEPT ![item.batch].status = "damaged"]
    BY <1>2 DEF rows
  <2> QED
    BY <1>3, <2>1, <2>3, <2>4 DEF Stocks
<1>7. OrdersOK' /\ Placed' = Placed
  BY <1>2, OthersStay
<1>8. ShipmentsOK' /\ DOMAIN shipment' = DOMAIN shipment
  <2>1. PICK rows : /\ rows \in Rows
                    /\ shipment' = [shipment EXCEPT ![i].items = rows]
    <3>1. RowsOfLine(take) \in Rows
      BY <1>5, LineOfBundle
    <3>2. items \o RowsOfLine(take) \in Rows
      BY <1>3, <3>1 DEF Rows
    <3>3. ASSUME NEW k \in DOMAIN items PROVE RemoveAt(items, k) \o RowsOfLine(take) \in Rows
      <4>1. RemoveAt(items, k) \in Rows
        <5>1. Len(items) \in Nat /\ k \in 1..Len(items) /\ items \in Seq(ShipmentItemRow)
          BY <1>3 DEF Rows
        <5>2. SubSeq(items, 1, k - 1) \in Seq(ShipmentItemRow)
              /\ SubSeq(items, k + 1, Len(items)) \in Seq(ShipmentItemRow)
          BY <5>1
        <5> QED
          BY <5>2 DEF RemoveAt, Rows
      <4> QED
        BY <3>1, <4>1 DEF Rows
    <3>4. CASE shipment' = [shipment EXCEPT ![i].items = @ \o RowsOfLine(take)]
      <4>1. shipment' = [shipment EXCEPT ![i].items = items \o RowsOfLine(take)]
        BY <3>4
      <4> QED
        BY <3>2, <4>1
    <3>5. ASSUME NEW k \in DOMAIN items,
                 shipment' = [shipment EXCEPT ![i].items = RemoveAt(@, k) \o RowsOfLine(take)]
          PROVE  \E rows : rows \in Rows /\ shipment' = [shipment EXCEPT ![i].items = rows]
      <4>1. shipment' = [shipment EXCEPT ![i].items = RemoveAt(items, k) \o RowsOfLine(take)]
        BY <3>5
      <4> QED
        BY <3>3, <4>1
    <3> QED
      BY <1>2, <3>4, <3>5
  <2>2. \A j \in DOMAIN shipment : \/ shipment'[j] = shipment[j]
                                   \/ shipment'[j] = [shipment[j] EXCEPT !.items = rows]
    BY <2>1 DEF Typed, ShipmentsOK
  <2>3. shipment' = [j \in DOMAIN shipment |-> shipment'[j]]
    BY <2>1 DEF Typed, ShipmentsOK
  <2>4. DOMAIN manifest' = DOMAIN manifest /\ DOMAIN manifest' \subseteq Manifests
    BY <1>2 DEF Typed, ManifestsOK
  <2> QED
    BY <1>7, <2>1, <2>2, <2>3, <2>4, SomeShipmentsChange
<1>9. Grows
  BY <1>2, <1>7, <1>8 DEF Grows
<1> QED
  BY <1>2, <1>6, <1>7, <1>8, <1>9, TablesTyped, ClaimsStay, OthersStay

LEMMA ExpireTyped ==
  ASSUME Typed, cronExpireBatches
  PROVE  Typed'
<1>1. /\ today < Horizon /\ today' = today + 1
      /\ UNCHANGED <<log, order, shipment, manifest, storeStock, claim, inquiries, req>>
  BY DEF cronExpireBatches
<1>2. today' \in 0..Horizon
  BY <1>1, FulfilmentAssumption DEF Typed
<1>3. stock' \in Stocks
  <2>1. ASSUME NEW b \in Batches PROVE stock'[b] \in StockRow
    <3>1. stock[b] \in StockRow
      BY DEF Typed, Stocks
    <3>2. stock'[b] = stock[b]
          \/ stock'[b] = [stock[b] EXCEPT !.reserved = 0, !.status = "expired"]
      BY DEF cronExpireBatches
    <3>3. [stock[b] EXCEPT !.reserved = 0, !.status = "expired"] \in StockRow
      <4>1. "expired" \in Blocked \cup {"available"} /\ 0 \in Int
        BY DEF Blocked
      <4>2. \A st \in Blocked \cup {"available"} :
              [stock[b] EXCEPT !.reserved = 0, !.status = st] \in StockRow
        BY <3>1, <4>1, StockRowChanged
      <4> QED
        BY <4>1, <4>2
    <3> QED
      BY <3>1, <3>2, <3>3
  <2>2. stock' = [b \in Batches |-> stock'[b]]
    BY DEF cronExpireBatches
  <2> QED
    BY <2>1, <2>2 DEF Stocks
<1>4. Grows
  BY <1>1 DEF Grows, Placed
<1>5. RequestsOK'
  BY <1>1, <1>4, RequestsKept DEF Typed
<1> QED
  BY <1>1, <1>2, <1>3, <1>5, ClaimsStay, OthersStay DEF Typed, Placed

LEMMA FailTyped ==
  ASSUME Typed, NEW c \in Clients, Fail(c)
  PROVE  Typed'
<1>1. Done(c) /\ UNCHANGED <<today, stock, log, order, shipment, manifest, storeStock, claim,
                             inquiries>>
  BY DEF Fail
<1>2. Grows
  BY <1>1 DEF Grows, Placed
<1> QED
  BY <1>1, <1>2, TablesTyped, ClaimsStay, OthersStay DEF Typed, Placed

-----------------------------------------------------------------------------
(* The coordination hub: its loops are runs, turn by turn.                 *)

Holdings == [stock : Stocks, log : [Orders -> Bundles]]

LEMMA RequeueType ==
  ASSUME Typed, NEW st \in Holdings, NEW o \in Orders
  PROVE  Requeue(st, o) \in Holdings
<1>1. st.stock \in Stocks /\ st.log \in [Orders -> Bundles] /\ st.log[o] \in Bundles
  BY DEF Holdings
<1>2. PICK freed \in Stocks : freed = Released(st.stock, st.log[o])
  BY <1>1, StockMoves
<1>3. ShelfCutOff \in [Products -> Nat] /\ Requested[o] \in [Products -> Nat]
  BY FulfilmentAssumption DEF ShelfCutOff, Typed
<1>4. PICK take \in Bundles : take = Allocation(freed, Requested[o], ShelfCutOff)
  BY <1>3, AllocationTakes
<1>5. Reserved(freed, take) \in Stocks
  BY StockMoves
<1>6. [st.log EXCEPT ![o] = Plus(@, take)] \in [Orders -> Bundles]
  <2>1. Plus(st.log[o], take) \in Bundles
    BY <1>1 DEF Plus, Bundles
  <2> QED
    BY <1>1, <2>1
<1>7. Requeue(st, o) = [stock |-> Reserved(freed, take),
                        log |-> [st.log EXCEPT ![o] = Plus(@, take)]]
  BY <1>2, <1>4 DEF Requeue
<1> QED
  BY <1>5, <1>6, <1>7 DEF Holdings

(* The queue of an inquiry. *)
RequeueAll(st, queue) == FoldLeft(Requeue, st, queue)

LEMMA QueueRuns ==
  ASSUME Typed, NEW n \in Nat, NEW queue \in [1..n -> Orders], NEW st \in Holdings
  PROVE  \E run \in [0..n -> Holdings] :
           /\ run[0] = st /\ run[n] = RequeueAll(st, queue)
           /\ \A k \in 1..n : run[k] = Requeue(run[k - 1], queue[k])
<1> DEFINE D == DOMAIN queue
           Folds(g) == g = [s \in SUBSET D |->
                              IF s = {} THEN st
                              ELSE Requeue(g[s \ {Max(s)}], queue[Max(s)])]
<1>1. RequeueAll(st, queue) = (CHOOSE g : Folds(g))[D]
  BY DEF RequeueAll, FoldLeft, MapThenFoldSet
<1>2. PICK S : S = 1..n
  OBVIOUS
<1>3. PICK step : step = [x \in Holdings \X S |-> Requeue(x[1], queue[x[2]])]
  OBVIOUS
<1>4. step \in [Holdings \X S -> Holdings]
        /\ \A t \in Holdings, k \in S : step[<<t, k>>] = Requeue(t, queue[k])
  <2>1. \A x \in Holdings \X S : x[1] \in Holdings /\ queue[x[2]] \in Orders
    BY <1>2
  <2> QED
    BY <1>3, <2>1, RequeueType
<1> HIDE DEF Holdings
<1>5. \A s \in SUBSET S : s # {} => Max(s) \in S
  BY <1>2, LargestPosition
<1>6. \E g : Folds(g)
  <2>1. PICK g \in [SUBSET S -> Holdings] : Loops(step, st, g, SUBSET S)
    BY <1>2, <1>4, LoopExists
  <2>2. \A s \in SUBSET S : s # {} => g[s \ {Max(s)}] \in Holdings
    BY <2>1
  <2>3. \A s \in SUBSET S : s # {} =>
          step[<<g[s \ {Max(s)}], Max(s)>>] = Requeue(g[s \ {Max(s)}], queue[Max(s)])
    BY <1>4, <1>5, <2>2
  <2>4. Folds(g)
    BY <1>2, <2>1, <2>3 DEF Loops
  <2> QED
    BY <2>4
<1>7. PICK h : h = (CHOOSE g : Folds(g)) /\ Folds(h)
  BY <1>6
<1>8. \A s \in SUBSET S :
        h[s] = IF s = {} THEN st ELSE Requeue(h[s \ {Max(s)}], queue[Max(s)])
  BY <1>2, <1>7
<1>9. h[{}] = st
  BY <1>8
<1>10. \A s \in SUBSET S : s # {} /\ h[s \ {Max(s)}] \in Holdings =>
         h[s] = step[<<h[s \ {Max(s)}], Max(s)>>]
  BY <1>4, <1>5, <1>8
<1>11. PICK run \in [0..n -> Holdings] :
         /\ run[0] = st /\ run[n] = h[S]
         /\ \A k \in S : run[k] = step[<<run[k - 1], k>>]
  <2>1. Turning(n, Holdings, step, h)
    BY <1>2, <1>4, <1>9, <1>10 DEF Turning
  <2>2. PICK run \in [0..n -> Holdings] :
          /\ run[0] = h[{}] /\ run[n] = h[1..n]
          /\ \A k \in 1..n : run[k] = step[<<run[k - 1], k>>]
    BY <2>1, LoopTurns
  <2> QED
    BY <1>2, <1>9, <2>2
<1>12. \A k \in 1..n : run[k] = Requeue(run[k - 1], queue[k])
  <2>1. \A k \in 1..n : k \in S /\ k - 1 \in 0..n
    BY <1>2
  <2> QED
    BY <1>4, <1>11, <2>1
<1>13. run[n] = RequeueAll(st, queue)
  BY <1>1, <1>2, <1>7, <1>11
<1> QED
  BY <1>11, <1>12, <1>13

(* A queue has each of its orders, once.                                   *)
LEMMA QueueOf ==
  ASSUME NEW S \in SUBSET Orders, NEW queue \in SetToSeqs(S)
  PROVE  \E n \in Nat : /\ queue \in [1..n -> S] /\ Len(queue) = n
                        /\ \A j, k \in 1..n : queue[j] = queue[k] => j = k
                        /\ \A o \in S : \E k \in 1..n : queue[k] = o
<1>1. IsFiniteSet(S)
  BY FulfilmentAssumption, FS_Subset
<1>2. PICK n \in Nat : n = Cardinality(S)
  BY <1>1, FS_CardinalityType
<1>3. queue \in [1..n -> S] /\ \A j, k \in 1..n : j # k => queue[j] # queue[k]
  BY <1>2 DEF SetToSeqs
<1>4. Len(queue) = n
  BY <1>3
<1>5. \A o \in S : \E k \in 1..n : queue[k] = o
  <2> DEFINE R == {queue[k] : k \in 1..n}
  <2>1. R \subseteq S
    BY <1>3
  <2>2. queue \in Bijection(1..n, R)
    <3>1. queue \in [1..n -> R] /\ IsInjective(queue)
      BY <1>3 DEF IsInjective
    <3> QED
      BY <3>1 DEF Bijection, Injection, Surjection
  <2>4. IsFiniteSet(1..n) /\ Cardinality(1..n) = n
    BY FS_Interval
  <2>3. Cardinality(R) = Cardinality(1..n)
    <3>1. ExistsBijection(1..n, R)
      BY <2>2 DEF ExistsBijection
    <3> HIDE DEF R
    <3> QED
      BY <2>4, <3>1, FS_Bijection
  <2>5. R = S
    BY <1>1, <1>2, <2>1, <2>3, <2>4, FS_Subset
  <2> QED
    BY <2>5
<1> QED
  BY <1>3, <1>4, <1>5

LEMMA InquiryTyped ==
  ASSUME Typed, NEW c \in Clients, sendCoordinationInquiry(c)
  PROVE  Typed'
<1> DEFINE locked == OnDay(req[c].target, "pending")
           S == req[c].orders \cup locked
<1>1. S \in SUBSET Orders /\ locked \subseteq Placed
  BY DEF sendCoordinationInquiry, Handles, Typed, RequestsOK, RequestOK, OrdersOK, OnDay
<1>2. PICK queue \in SetToSeqs(S) :
        LET end == RequeueAll([stock |-> stock, log |-> log], queue)
        IN stock' = end.stock /\ log' = end.log
  BY DEF sendCoordinationInquiry, RequeueAll
<1>3. /\ lockPendingOrdersForCoordination(locked) /\ inquiries' = inquiries + 1 /\ Done(c)
      /\ UNCHANGED <<today, shipment, manifest, storeStock, claim>>
  BY DEF sendCoordinationInquiry
<1> HIDE DEF S, locked
<1>4. stock' \in Stocks /\ log' \in [Orders -> Bundles]
  <2>1. PICK n \in Nat : queue \in [1..n -> Orders]
    BY <1>1, <1>2, QueueOf
  <2>2. [stock |-> stock, log |-> log] \in Holdings
    BY DEF Holdings, Typed
  <2>3. RequeueAll([stock |-> stock, log |-> log], queue) \in Holdings
    <3>1. n \in 0..n
      OBVIOUS
    <3> QED
      BY <2>1, <2>2, <3>1, QueueRuns
  <2> QED
    BY <1>2, <2>3 DEF Holdings
<1>5. OrdersOK' /\ Placed' = Placed
  <2>1. order \in [Placed -> OrderRow] /\ Placed \subseteq Orders
    BY DEF Typed, OrdersOK
  <2>2. \A o \in Placed : [order[o] EXCEPT !.status = "coordinating"] \in OrderRow
    BY <2>1 DEF OrderRow, OrderStatus
  <2>3. order' \in [Placed -> OrderRow]
    BY <1>3, <2>1, <2>2 DEF lockPendingOrdersForCoordination
  <2>4. Placed' = Placed
    BY <2>3 DEF Placed
  <2> QED
    BY <2>1, <2>3, <2>4 DEF OrdersOK
<1>6. Grows
  BY <1>3, <1>5 DEF Grows
<1>7. RequestsOK'
  BY <1>3, <1>6, RequestsDone DEF Typed
<1>8. ShipmentsOK' /\ ManifestsOK' /\ StoresOK' /\ ClaimsOK'
  BY <1>3, <1>5 DEF Typed, ShipmentsOK, ManifestsOK, StoresOK, ClaimsOK
<1> QED
  BY <1>3, <1>4, <1>5, <1>7, <1>8 DEF Typed

-----------------------------------------------------------------------------
(* Batch approval: the same, with what each order was granted and has taken. *)

Grants(S) == [stock : Stocks, log : [Orders -> Bundles], takes : [S -> Bundles]]

GrantAll(st, queue, granted) ==
  FoldLeft(LAMBDA s, o : Grant(s, o, granted[o]), st, queue)

LEMMA GrantType ==
  ASSUME NEW S \in SUBSET Orders, NEW st \in Grants(S), NEW o \in S,
         NEW granted \in [Products -> Nat]
  PROVE  Grant(st, o, granted) \in Grants(S)
<1>1. st.stock \in Stocks /\ st.log \in [Orders -> Bundles] /\ st.log[o] \in Bundles
      /\ st.takes \in [S -> Bundles]
  BY DEF Grants
<1>2. PICK freed \in Stocks : freed = Released(st.stock, st.log[o])
  BY <1>1, StockMoves
<1>3. CutOffDate(DeliveryOf[o]) \in [Products -> Nat]
  BY FulfilmentAssumption DEF CutOffDate
<1>4. PICK take \in Bundles : take = Allocation(freed, granted, CutOffDate(DeliveryOf[o]))
  BY <1>3, AllocationTakes
<1>5. Reserved(freed, take) \in Stocks
  BY StockMoves
<1>6. [st.log EXCEPT ![o] = Plus(@, take)] \in [Orders -> Bundles]
  <2>1. Plus(st.log[o], take) \in Bundles
    BY <1>1 DEF Plus, Bundles
  <2> QED
    BY <1>1, <2>1
<1>7. [st.takes EXCEPT ![o] = take] \in [S -> Bundles]
  BY <1>1
<1>8. Grant(st, o, granted) = [stock |-> Reserved(freed, take),
                               log |-> [st.log EXCEPT ![o] = Plus(@, take)],
                               takes |-> [st.takes EXCEPT ![o] = take]]
  BY <1>2, <1>4 DEF Grant
<1> QED
  BY <1>5, <1>6, <1>7, <1>8 DEF Grants

Granting(A, n, queue, granted, st) ==
  /\ A \in SUBSET Orders /\ n \in Nat /\ queue \in [1..n -> A]
  /\ granted \in [A -> [Products -> Nat]] /\ st \in Grants(A)

GrantRun(run, A, n, queue, granted, st) ==
  /\ run \in [0..n -> Grants(A)] /\ run[0] = st
  /\ \A k \in 1..n : run[k] = Grant(run[k - 1], queue[k], granted[queue[k]])

LEMMA GrantRuns ==
  ASSUME NEW A, NEW n, NEW queue, NEW granted, NEW st, Granting(A, n, queue, granted, st)
  PROVE  \E run : GrantRun(run, A, n, queue, granted, st)
                  /\ run[n] = GrantAll(st, queue, granted)
<1>1. /\ A \in SUBSET Orders /\ n \in Nat /\ queue \in [1..n -> A]
      /\ granted \in [A -> [Products -> Nat]] /\ st \in Grants(A)
  BY DEF Granting
<1> DEFINE D == DOMAIN queue
           Folds(g) == g = [s \in SUBSET D |->
                              IF s = {} THEN st
                              ELSE Grant(g[s \ {Max(s)}], queue[Max(s)],
                                         granted[queue[Max(s)]])]
<1>2. GrantAll(st, queue, granted) = (CHOOSE g : Folds(g))[D]
  BY DEF GrantAll, FoldLeft, MapThenFoldSet
<1>3. PICK S : S = 1..n
  OBVIOUS
<1>4. PICK T : T = Grants(A)
  OBVIOUS
<1>5. PICK step : step = [x \in T \X S |-> Grant(x[1], queue[x[2]], granted[queue[x[2]]])]
  OBVIOUS
<1>6. step \in [T \X S -> T]
        /\ \A t \in T, k \in S : step[<<t, k>>] = Grant(t, queue[k], granted[queue[k]])
  <2>1. \A x \in T \X S : x[1] \in T /\ queue[x[2]] \in A
                           /\ granted[queue[x[2]]] \in [Products -> Nat]
    BY <1>1, <1>3
  <2>2. \A x \in T \X S : Grant(x[1], queue[x[2]], granted[queue[x[2]]]) \in T
    BY <1>1, <1>4, <2>1, GrantType
  <2> QED
    BY <1>5, <2>2
<1>7. \A s \in SUBSET S : s # {} => Max(s) \in S
  BY <1>1, <1>3, LargestPosition
<1>8. \E g : Folds(g)
  <2>1. PICK g \in [SUBSET S -> T] : Loops(step, st, g, SUBSET S)
    BY <1>1, <1>3, <1>4, <1>6, LoopExists
  <2>2. \A s \in SUBSET S : s # {} => g[s \ {Max(s)}] \in T
    BY <2>1
  <2>3. \A s \in SUBSET S : s # {} =>
          step[<<g[s \ {Max(s)}], Max(s)>>]
            = Grant(g[s \ {Max(s)}], queue[Max(s)], granted[queue[Max(s)]])
    BY <1>6, <1>7, <2>2
  <2>4. Folds(g)
    BY <1>1, <1>3, <2>1, <2>3 DEF Loops
  <2> QED
    BY <2>4
<1>9. PICK h : h = (CHOOSE g : Folds(g)) /\ Folds(h)
  BY <1>8
<1>10. \A s \in SUBSET S :
        h[s] = IF s = {} THEN st
               ELSE Grant(h[s \ {Max(s)}], queue[Max(s)], granted[queue[Max(s)]])
  BY <1>1, <1>3, <1>9
<1>11. h[{}] = st
  BY <1>10
<1>12. PICK run \in [0..n -> T] :
         /\ run[0] = st /\ run[n] = h[S]
         /\ \A k \in S : run[k] = step[<<run[k - 1], k>>]
  <2>1. \A s \in SUBSET S : s # {} /\ h[s \ {Max(s)}] \in T =>
          h[s] = step[<<h[s \ {Max(s)}], Max(s)>>]
    BY <1>6, <1>7, <1>10
  <2>2. Turning(n, T, step, h)
    BY <1>1, <1>3, <1>4, <1>6, <1>11, <2>1 DEF Turning
  <2> QED
    BY <1>1, <1>3, <1>11, <2>2, LoopTurns
<1>13. \A k \in 1..n : run[k] = Grant(run[k - 1], queue[k], granted[queue[k]])
  <2>1. \A k \in 1..n : k \in S /\ k - 1 \in 0..n
    BY <1>1, <1>3
  <2> QED
    BY <1>6, <1>12, <2>1
<1>14. run[n] = GrantAll(st, queue, granted)
  BY <1>1, <1>2, <1>3, <1>9, <1>12
<1> QED
  BY <1>4, <1>12, <1>13, <1>14 DEF GrantRun

(* The rows of a consolidated shipment: those of the orders of its group. *)
ItemsFor(queue, g, takes, first) ==
  FoldLeft(LAMBDA items, o : IF order[o].group = g THEN items \o ItemsOf(takes[o], first[o]) ELSE items,
           << >>, queue)

AddItems(items, o, g, takes, first) ==
  IF order[o].group = g THEN items \o ItemsOf(takes[o], first[o]) ELSE items

ItemsInTurn(run, n, queue, g, takes, first) ==
  /\ run \in [0..n -> Rows]
  /\ run[0] = << >> /\ run[n] = ItemsFor(queue, g, takes, first)
  /\ \A k \in 1..n : run[k] = AddItems(run[k - 1], queue[k], g, takes, first)

LEMMA ItemsRun ==
  ASSUME NEW A, NEW takes \in [A -> Bundles], NEW first \in [A -> Parts], NEW g,
         NEW n \in Nat, NEW queue \in [1..n -> A]
  PROVE  /\ ItemsFor(queue, g, takes, first) \in Rows
         /\ \E run : ItemsInTurn(run, n, queue, g, takes, first)
<1> DEFINE D == DOMAIN queue
           Folds(f) == f = [s \in SUBSET D |->
                              IF s = {} THEN << >>
                              ELSE AddItems(f[s \ {Max(s)}], queue[Max(s)], g, takes, first)]
<1>1. ItemsFor(queue, g, takes, first) = (CHOOSE f : Folds(f))[D]
  BY DEF ItemsFor, FoldLeft, MapThenFoldSet, AddItems
<1>2. PICK S : S = 1..n
  OBVIOUS
<1>3. PICK T : T = Rows
  OBVIOUS
<1>4. PICK step : step = [x \in T \X S |-> AddItems(x[1], queue[x[2]], g, takes, first)]
  OBVIOUS
<1>5. step \in [T \X S -> T]
        /\ \A t \in T, k \in S : step[<<t, k>>] = AddItems(t, queue[k], g, takes, first)
  <2>1. ASSUME NEW t \in Rows, NEW o \in A PROVE AddItems(t, o, g, takes, first) \in Rows
    <3>1. ItemsOf(takes[o], first[o]) \in Rows
      BY RowsOfBundle
    <3> QED
      BY <3>1 DEF AddItems, Rows
  <2>2. \A x \in T \X S : x[1] \in T /\ queue[x[2]] \in A
    BY <1>2
  <2> HIDE DEF Rows
  <2>3. \A x \in T \X S : AddItems(x[1], queue[x[2]], g, takes, first) \in T
    BY <1>3, <2>1, <2>2
  <2> QED
    BY <1>4, <2>3
<1>6. \A s \in SUBSET S : s # {} => Max(s) \in S
  BY <1>2, LargestPosition
<1>14. << >> \in T
  BY <1>3 DEF Rows
<1>7. \E f : Folds(f)
  <2>1. PICK f \in [SUBSET S -> T] : Loops(step, << >>, f, SUBSET S)
    BY <1>2, <1>5, <1>14, LoopExists
  <2>2. \A s \in SUBSET S : s # {} => f[s \ {Max(s)}] \in T
    BY <2>1
  <2>3. \A s \in SUBSET S : s # {} =>
          step[<<f[s \ {Max(s)}], Max(s)>>]
            = AddItems(f[s \ {Max(s)}], queue[Max(s)], g, takes, first)
    BY <1>5, <1>6, <2>2
  <2>4. Folds(f)
    BY <1>2, <2>1, <2>3 DEF Loops
  <2> QED
    BY <2>4
<1>8. PICK h : h = (CHOOSE f : Folds(f)) /\ Folds(h)
  BY <1>7
<1>9. \A s \in SUBSET S :
        h[s] = IF s = {} THEN << >>
               ELSE AddItems(h[s \ {Max(s)}], queue[Max(s)], g, takes, first)
  BY <1>2, <1>8
<1>10. h[{}] = << >>
  BY <1>9
<1>11. PICK run \in [0..n -> T] :
         /\ run[0] = << >> /\ run[n] = h[S]
         /\ \A k \in S : run[k] = step[<<run[k - 1], k>>]
  <2>1. \A s \in SUBSET S : s # {} /\ h[s \ {Max(s)}] \in T =>
          h[s] = step[<<h[s \ {Max(s)}], Max(s)>>]
    BY <1>5, <1>6, <1>9
  <2>2. Turning(n, T, step, h)
    BY <1>2, <1>5, <1>14, <1>10, <2>1 DEF Turning
  <2> QED
    BY <1>2, <1>10, <2>2, LoopTurns
<1>12. \A k \in 1..n : run[k] = AddItems(run[k - 1], queue[k], g, takes, first)
  <2>1. \A k \in 1..n : k \in S /\ k - 1 \in 0..n
    BY <1>2
  <2> QED
    BY <1>5, <1>11, <2>1
<1>13. run[n] = ItemsFor(queue, g, takes, first)
  BY <1>1, <1>2, <1>8, <1>11
<1>15. run[n] \in T
  <2>1. n \in 0..n
    OBVIOUS
  <2> QED
    BY <1>11, <2>1
<1>16. ItemsInTurn(run, n, queue, g, takes, first)
  BY <1>3, <1>11, <1>12, <1>13 DEF ItemsInTurn
<1> QED
  BY <1>3, <1>13, <1>15, <1>16

(* The queue's first order of the group stands for it. *)
LEMMA SmallestPosition ==
  ASSUME NEW n \in Nat, NEW s \in SUBSET (1..n), s # {}
  PROVE  Min(s) \in s
<1>1. s \subseteq Nat
  OBVIOUS
<1>2. PICK m \in s : \A k \in s : m <= k
  BY <1>1, LeastNumber
<1> QED
  BY <1>2 DEF Min

InGroup(n, queue, g) == {k \in 1..n : order[queue[k]].group = g}

Grouping(S, n, queue, g, takes, first) ==
  /\ S \in SUBSET Placed /\ n \in Nat /\ queue \in [1..n -> S]
  /\ takes \in [S -> Bundles] /\ first \in [S -> Parts]
  /\ InGroup(n, queue, g) # {}

Consolidates(row, S, n, queue, g, takes, first) ==
  /\ row \in ShipmentRow /\ row.manifest = None /\ row.group = g
  /\ row.status = "consolidated" /\ ~row.shipped
  /\ row.order \in S /\ order[row.order].group = g
  /\ row.linked = {queue[k] : k \in InGroup(n, queue, g)} /\ row.linked \subseteq S
  /\ row.items = ItemsFor(queue, g, takes, first)

LEMMA ConsolidatedType ==
  ASSUME Typed, NEW S, NEW n, NEW queue, NEW g, NEW takes, NEW first,
         Grouping(S, n, queue, g, takes, first)
  PROVE  Consolidates(ConsolidatedShipment(queue, g, takes, first), S, n, queue, g, takes, first)
<1>1. /\ S \in SUBSET Placed /\ n \in Nat /\ queue \in [1..n -> S]
      /\ takes \in [S -> Bundles] /\ first \in [S -> Parts] /\ InGroup(n, queue, g) # {}
  BY DEF Grouping
<1> DEFINE turns == InGroup(n, queue, g)
           row == NewShipment(queue[Min(turns)], {queue[k] : k \in turns}, g,
                              "consolidated", ItemsFor(queue, g, takes, first))
<1>2. ConsolidatedShipment(queue, g, takes, first) = row
  BY <1>1 DEF ConsolidatedShipment, ItemsFor, InGroup
<1>3. Min(turns) \in turns
  BY <1>1, SmallestPosition DEF InGroup
<1>4. ItemsFor(queue, g, takes, first) \in Rows
  BY <1>1, ItemsRun
<1>5. S \subseteq Orders /\ \A o \in S : order[o].group \in Orders
  BY <1>1 DEF Typed, OrdersOK, OrderRow
<1>6. /\ queue[Min(turns)] \in S /\ order[queue[Min(turns)]].group = g
      /\ {queue[k] : k \in turns} \in SUBSET S
  BY <1>1, <1>3 DEF InGroup
<1>7. g \in Orders
  BY <1>5, <1>6
<1> HIDE DEF turns
<1>8. row \in ShipmentRow
  BY <1>1, <1>4, <1>5, <1>6, <1>7 DEF NewShipment, ShipmentRow, ShipmentStatus, Rows
<1>9. /\ row.manifest = None /\ row.group = g /\ row.order = queue[Min(turns)]
      /\ row.status = "consolidated" /\ ~row.shipped
      /\ row.linked = {queue[k] : k \in turns} /\ row.items = ItemsFor(queue, g, takes, first)
  BY DEF NewShipment
<1> QED
  BY <1>2, <1>6, <1>8, <1>9 DEF Consolidates, turns

(* What a batch approval does: each order takes something, and each group    *)
(* gets a shipment of its own.                                             *)
Batch(S, n, m, granted, first, queue, waves, run) ==
  /\ S \in SUBSET Placed /\ n \in Nat /\ m \in Nat
  /\ granted \in [S -> [Products -> Nat]] /\ first \in [S -> Parts]
  /\ \A o \in S, p \in Products : granted[o][p] <= Requested[o][p]
  /\ queue \in [1..n -> S]
  /\ \A j, k \in 1..n : queue[j] = queue[k] => j = k
  /\ \A o \in S : \E k \in 1..n : queue[k] = o
  /\ waves \in [1..m -> {order[o].group : o \in S}]
  /\ \A j, k \in 1..m : waves[j] = waves[k] => j = k
  /\ \A o \in S : \E k \in 1..m : waves[k] = order[o].group
  /\ GrantRun(run, S, n, queue, granted,
              [stock |-> stock, log |-> log, takes |-> [o \in S |-> Nothing]])

Consignments(m, queue, waves, takes, first) ==
  [k \in 1..m |-> ConsolidatedShipment(queue, waves[k], takes, first)]

LEMMA BatchApproves ==
  ASSUME Typed, NEW c \in Clients, batchApproveByAllocation(c)
  PROVE  \E n, m, granted, first, queue, waves, run :
           /\ Batch(req[c].orders, n, m, granted, first, queue, waves, run)
           /\ stock' = run[n].stock /\ log' = run[n].log
           /\ shipment' = shipment \o Consignments(m, queue, waves, run[n].takes, first)
<1> DEFINE S == req[c].orders
           groups == {order[o].group : o \in S}
           start == [stock |-> stock, log |-> log, takes |-> [o \in S |-> Nothing]]
<1>1. S \in SUBSET Placed /\ S \in SUBSET Orders
  BY DEF batchApproveByAllocation, Handles, Typed, RequestsOK, RequestOK, OrdersOK
<1>2. groups \in SUBSET Orders
  BY <1>1 DEF Typed, OrdersOK, OrderRow
<1>15. \A queue \in SetToSeqs(S) : \E n \in Nat :
         /\ queue \in [1..n -> S] /\ Len(queue) = n
         /\ \A j, k \in 1..n : queue[j] = queue[k] => j = k
         /\ \A o \in S : \E k \in 1..n : queue[k] = o
  BY <1>1, QueueOf
<1>3. PICK queue \in SetToSeqs(S), waves \in SetToSeqs(groups),
           granted \in [S -> UNION {Granted(o) : o \in S}] :
        \E first \in [S -> UNION {GrantedFirst(o, granted[o]) : o \in S}] :
          /\ \A o \in S : granted[o] \in Granted(o) /\ first[o] \in GrantedFirst(o, granted[o])
          /\ LET end == GrantAll(start, queue, granted)
             IN /\ stock' = end.stock
                /\ log' = end.log
                /\ shipment' = shipment \o [k \in 1..Len(waves) |->
                     ConsolidatedShipment(queue, waves[k], end.takes, first)]
  BY DEF batchApproveByAllocation, GrantAll
<1>14. PICK first \in [S -> UNION {GrantedFirst(o, granted[o]) : o \in S}] :
          /\ \A o \in S : granted[o] \in Granted(o) /\ first[o] \in GrantedFirst(o, granted[o])
          /\ LET end == GrantAll(start, queue, granted)
             IN /\ stock' = end.stock
                /\ log' = end.log
                /\ shipment' = shipment \o [k \in 1..Len(waves) |->
                     ConsolidatedShipment(queue, waves[k], end.takes, first)]
  BY <1>3
<1> HIDE DEF groups, S
<1>4. PICK n \in Nat : /\ queue \in [1..n -> S] /\ Len(queue) = n
                       /\ \A j, k \in 1..n : queue[j] = queue[k] => j = k
                       /\ \A o \in S : \E k \in 1..n : queue[k] = o
  BY <1>15, Zenon
<1>5. PICK m \in Nat : /\ waves \in [1..m -> groups] /\ Len(waves) = m
                       /\ \A j, k \in 1..m : waves[j] = waves[k] => j = k
                       /\ \A g \in groups : \E k \in 1..m : waves[k] = g
  BY <1>2, QueueOf
<1>13. first \in [S -> Parts]
  <2>1. ASSUME NEW o \in S PROVE first[o] \in Parts
    <3>1. first[o] \in GrantedFirst(o, granted[o])
      BY <1>14
    <3>2. PICK most : most = Total(FirstLine[o])
      OBVIOUS
    <3>3. first[o] \in [Products -> 0..most]
      BY <3>1, <3>2 DEF GrantedFirst
    <3>4. \A k \in 0..most : k \in Nat
      OBVIOUS
    <3> QED
      BY <3>3, <3>4 DEF Parts
  <2> QED
    BY <1>14, <2>1
<1>6. granted \in [S -> [Products -> Nat]]
      /\ \A o \in S, p \in Products : granted[o][p] <= Requested[o][p]
  <2>1. ASSUME NEW o \in S
        PROVE  granted[o] \in [Products -> Nat] /\ \A p \in Products : granted[o][p] <= Requested[o][p]
    <3>1. granted[o] \in Granted(o)
      BY <1>14
    <3> HIDE <1>14
    <3> QED
      BY <3>1 DEF Granted
  <2> QED
    BY <2>1, <1>3
<1>7. start \in Grants(S)
  BY DEF Grants, Typed, Nothing, Bundles
<1> HIDE DEF start
<1>8. PICK run : GrantRun(run, S, n, queue, granted, start)
                 /\ run[n] = GrantAll(start, queue, granted)
  <2>1. Granting(S, n, queue, granted, start)
    BY <1>1, <1>4, <1>6, <1>7 DEF Granting
  <2> QED
    BY <2>1, GrantRuns
<1>9. /\ stock' = run[n].stock /\ log' = run[n].log
      /\ shipment' = shipment \o Consignments(m, queue, waves, run[n].takes, first)
  BY <1>14, <1>5, <1>8 DEF Consignments
<1>10. \A o \in S : \E k \in 1..m : waves[k] = order[o].group
  BY <1>5 DEF groups
<1>11. waves \in [1..m -> {order[o].group : o \in S}]
  BY <1>5 DEF groups
<1>12. Batch(S, n, m, granted, first, queue, waves, run)
  BY <1>1, <1>4, <1>5, <1>6, <1>8, <1>10, <1>11, <1>13 DEF Batch, start
<1> QED
  BY <1>9, <1>12 DEF S

(* Rows appended to a table leave the others where they are. *)
LEMMA AppendedRows ==
  ASSUME NEW T, NEW s \in Seq(T), NEW m \in Nat, NEW more \in [1..m -> T],
         NEW l, l = s \o more
  PROVE  /\ l \in Seq(T) /\ DOMAIN s \subseteq DOMAIN l /\ Len(l) = Len(s) + m
         /\ \A i \in DOMAIN s : l[i] = s[i]
         /\ \A i \in DOMAIN l : \/ i \in DOMAIN s /\ l[i] = s[i]
                                \/ \E k \in 1..m : l[i] = more[k]
         /\ \A k \in 1..m : Len(s) + k \in DOMAIN l /\ l[Len(s) + k] = more[k]
<1>1. more \in Seq(T) /\ Len(more) = m
  OBVIOUS
<1>2. PICK n \in Nat : n = Len(s) /\ DOMAIN s = 1..n
  OBVIOUS
<1>3. l \in Seq(T) /\ Len(l) = n + m
  BY <1>1, <1>2
<1>4. DOMAIN l = 1..(n + m)
  BY <1>3
<1>5. \A i \in 1..(n + m) : l[i] = IF i <= n THEN s[i] ELSE more[i - n]
  BY <1>1, <1>2
<1>6. \A i \in 1..(n + m) : i \in 1..n \/ i - n \in 1..m
  OBVIOUS
<1>7. \A i \in 1..n : i \in 1..(n + m) /\ l[i] = s[i]
  <2>1. \A i \in 1..n : i \in 1..(n + m) /\ i <= n
    OBVIOUS
  <2> QED
    BY <1>5, <2>1
<1>8. ASSUME NEW i \in 1..(n + m)
      PROVE  (i \in 1..n /\ l[i] = s[i]) \/ \E k \in 1..m : l[i] = more[k]
  <2>1. CASE i \in 1..n
    BY <1>7, <2>1
  <2>2. CASE i \notin 1..n
    <3>1. i - n \in 1..m /\ ~(i <= n)
      BY <2>2
    <3>2. l[i] = more[i - n]
      BY <1>5, <3>1
    <3> QED
      BY <3>1, <3>2
  <2> QED
    BY <2>1, <2>2
<1>9. ASSUME NEW k \in 1..m PROVE n + k \in 1..(n + m) /\ l[n + k] = more[k]
  <2>1. n + k \in 1..(n + m) /\ ~(n + k <= n) /\ (n + k) - n = k
    OBVIOUS
  <2> QED
    BY <1>5, <2>1
<1>10. l \in Seq(T) /\ DOMAIN s \subseteq DOMAIN l /\ Len(l) = Len(s) + m
  BY <1>2, <1>3, <1>4, <1>7
<1> QED
  BY <1>2, <1>4, <1>7, <1>8, <1>9, <1>10

(* The shipments of a batch approval come after the others.                *)
BatchShips(S, n, m, queue, waves, takes, first) ==
  /\ shipment' \in Seq(ShipmentRow) /\ DOMAIN shipment \subseteq DOMAIN shipment'
  /\ \A i \in DOMAIN shipment : shipment'[i] = shipment[i]
  /\ \A i \in DOMAIN shipment' :
       \/ i \in DOMAIN shipment /\ shipment'[i] = shipment[i]
       \/ \E k \in 1..m : Consolidates(shipment'[i], S, n, queue, waves[k], takes, first)
  /\ Len(shipment') = Len(shipment) + m
  /\ \A k \in 1..m :
       /\ Len(shipment) + k \in DOMAIN shipment'
       /\ Consolidates(shipment'[Len(shipment) + k], S, n, queue, waves[k], takes, first)

LEMMA BatchApproved ==
  ASSUME Typed, NEW c \in Clients, batchApproveByAllocation(c)
  PROVE  \E n, m, granted, first, queue, waves, run :
           /\ Batch(req[c].orders, n, m, granted, first, queue, waves, run)
           /\ run[n] \in Grants(req[c].orders)
           /\ stock' = run[n].stock /\ log' = run[n].log
           /\ BatchShips(req[c].orders, n, m, queue, waves, run[n].takes, first)
<1>1. PICK S, n, m, granted, first, queue, waves, run :
        /\ S = req[c].orders /\ Batch(S, n, m, granted, first, queue, waves, run)
        /\ stock' = run[n].stock /\ log' = run[n].log
        /\ shipment' = shipment \o Consignments(m, queue, waves, run[n].takes, first)
  BY BatchApproves
<1>2. /\ S \in SUBSET Placed /\ n \in Nat /\ m \in Nat
      /\ queue \in [1..n -> S] /\ waves \in [1..m -> {order[o].group : o \in S}]
      /\ \A o \in S : \E k \in 1..n : queue[k] = o
      /\ first \in [S -> Parts]
      /\ run[n] \in Grants(S)
  <2>1. Batch(S, n, m, granted, first, queue, waves, run)
    BY <1>1
  <2>2. /\ S \in SUBSET Placed /\ n \in Nat /\ m \in Nat /\ queue \in [1..n -> S]
        /\ \A o \in S : \E k \in 1..n : queue[k] = o
    BY <2>1, Zenon DEF Batch
  <2>3. waves \in [1..m -> {order[o].group : o \in S}]
    BY <2>1, Zenon DEF Batch
  <2>6. first \in [S -> Parts]
    BY <2>1, Zenon DEF Batch
  <2>4. run \in [0..n -> Grants(S)]
    BY <2>1, Zenon DEF Batch, GrantRun
  <2>5. n \in 0..n
    BY <2>2
  <2> QED
    BY <2>2, <2>3, <2>4, <2>5, <2>6
<1> DEFINE last == run[n]
           more == Consignments(m, queue, waves, last.takes, first)
<1>3. last.takes \in [S -> Bundles]
  BY <1>2 DEF Grants
<1>4. ASSUME NEW k \in 1..m
      PROVE  Consolidates(more[k], S, n, queue, waves[k], last.takes, first)
  <2>1. PICK g : g = waves[k]
    OBVIOUS
  <2>2. PICK o \in S : g = order[o].group
    BY <1>2, <2>1
  <2>3. PICK j \in 1..n : queue[j] = o
    BY <1>2
  <2>4. Grouping(S, n, queue, g, last.takes, first)
    BY <1>2, <1>3, <2>2, <2>3 DEF Grouping, InGroup
  <2>5. Consolidates(ConsolidatedShipment(queue, g, last.takes, first), S, n, queue, g, last.takes, first)
    BY <2>4, ConsolidatedType
  <2>6. more[k] = ConsolidatedShipment(queue, g, last.takes, first)
    BY <2>1 DEF Consignments
  <2> QED
    BY <2>1, <2>5, <2>6
<1> HIDE DEF more, last
<1>5. shipment \in Seq(ShipmentRow) /\ more \in [1..m -> ShipmentRow]
      /\ shipment' = shipment \o more
  <2>1. more = [k \in 1..m |-> more[k]]
    BY DEF more, Consignments
  <2>2. more \in [1..m -> ShipmentRow]
    BY <1>4, <2>1 DEF Consolidates
  <2>3. shipment' = shipment \o more
    BY <1>1 DEF more, last
  <2> QED
    BY <2>2, <2>3 DEF Typed, ShipmentsOK
<1>6. /\ shipment' \in Seq(ShipmentRow) /\ DOMAIN shipment \subseteq DOMAIN shipment'
      /\ Len(shipment') = Len(shipment) + m
      /\ \A i \in DOMAIN shipment : shipment'[i] = shipment[i]
      /\ \A i \in DOMAIN shipment' : \/ i \in DOMAIN shipment /\ shipment'[i] = shipment[i]
                                     \/ \E k \in 1..m : shipment'[i] = more[k]
      /\ \A k \in 1..m :
           Len(shipment) + k \in DOMAIN shipment' /\ shipment'[Len(shipment) + k] = more[k]
  <2>1. PICK l : l = shipment'
    OBVIOUS
  <2>2. PICK p : p = shipment
    OBVIOUS
  <2>3. p \in Seq(ShipmentRow) /\ more \in [1..m -> ShipmentRow] /\ l = p \o more
    BY <1>5, <2>1, <2>2
  <2>4. /\ l \in Seq(ShipmentRow) /\ DOMAIN p \subseteq DOMAIN l /\ Len(l) = Len(p) + m
        /\ \A i \in DOMAIN p : l[i] = p[i]
        /\ \A i \in DOMAIN l : \/ i \in DOMAIN p /\ l[i] = p[i]
                               \/ \E k \in 1..m : l[i] = more[k]
        /\ \A k \in 1..m : Len(p) + k \in DOMAIN l /\ l[Len(p) + k] = more[k]
    <3>1. PICK T : T = ShipmentRow
      OBVIOUS
    <3>2. p \in Seq(T) /\ more \in [1..m -> T] /\ m \in Nat /\ l = p \o more
      BY <1>2, <2>3, <3>1
    <3> HIDE DEF more
    <3> QED
      BY <3>1, <3>2, AppendedRows
  <2> QED
    BY <2>1, <2>2, <2>4
<1>7. BatchShips(S, n, m, queue, waves, last.takes, first)
  <2>1. \A i \in DOMAIN shipment' :
          \/ i \in DOMAIN shipment /\ shipment'[i] = shipment[i]
          \/ \E k \in 1..m : Consolidates(shipment'[i], S, n, queue, waves[k], last.takes, first)
    BY <1>4, <1>6
  <2>2. \A k \in 1..m :
          /\ Len(shipment) + k \in DOMAIN shipment'
          /\ Consolidates(shipment'[Len(shipment) + k], S, n, queue, waves[k], last.takes, first)
    BY <1>4, <1>6
  <2> QED
    BY <1>6, <2>1, <2>2 DEF BatchShips
<1> QED
  BY <1>1, <1>2, <1>7 DEF last

LEMMA BatchApproveTyped ==
  ASSUME Typed, NEW c \in Clients, batchApproveByAllocation(c)
  PROVE  Typed'
<1>1. PICK S, n, m, granted, first, queue, waves, run :
        /\ S = req[c].orders /\ Batch(S, n, m, granted, first, queue, waves, run)
        /\ run[n] \in Grants(S) /\ stock' = run[n].stock /\ log' = run[n].log
        /\ BatchShips(S, n, m, queue, waves, run[n].takes, first)
  BY BatchApproved
<1>2. S \subseteq Placed
  BY <1>1, Zenon DEF Batch
<1>3. stock' \in Stocks /\ log' \in [Orders -> Bundles]
  BY <1>1 DEF Grants
<1>4. /\ order' = [o \in Placed |->
                    IF o \in S THEN [order[o] EXCEPT !.status = "approved", !.slip = TRUE]
                    ELSE order[o]]
      /\ Done(c) /\ UNCHANGED <<today, manifest, storeStock, claim, inquiries>>
  BY <1>1 DEF batchApproveByAllocation
<1>5. OrdersOK' /\ Placed' = Placed
  <2>1. order \in [Placed -> OrderRow] /\ Placed \subseteq Orders
    BY DEF Typed, OrdersOK
  <2>2. \A o \in Placed : [order[o] EXCEPT !.status = "approved", !.slip = TRUE] \in OrderRow
    BY <2>1 DEF OrderRow, OrderStatus
  <2>3. order' \in [Placed -> OrderRow]
    BY <1>4, <2>1, <2>2
  <2>4. Placed' = Placed
    BY <2>3 DEF Placed
  <2> QED
    BY <2>1, <2>3, <2>4 DEF OrdersOK
<1>6. shipment' \in Seq(ShipmentRow) /\ DOMAIN shipment \subseteq DOMAIN shipment'
      /\ \A i \in DOMAIN shipment' :
           \/ i \in DOMAIN shipment /\ shipment'[i] = shipment[i]
           \/ /\ shipment'[i].manifest = None /\ shipment'[i].order \in S
              /\ shipment'[i].linked \subseteq S
  BY <1>1 DEF BatchShips, Consolidates
<1>7. ShipmentsOK'
  <2>1. \A i \in DOMAIN shipment :
          /\ shipment[i].linked \cup {shipment[i].order} \subseteq Placed
          /\ shipment[i].manifest \in DOMAIN manifest \cup {None}
    BY DEF Typed, ShipmentsOK
  <2>2. \A i \in DOMAIN shipment' :
          /\ shipment'[i].linked \cup {shipment'[i].order} \subseteq Placed
          /\ shipment'[i].manifest \in DOMAIN manifest \cup {None}
    BY <1>2, <1>6, <2>1
  <2> QED
    BY <1>4, <1>5, <1>6, <2>2 DEF ShipmentsOK
<1>8. Grows
  BY <1>4, <1>5, <1>6 DEF Grows
<1>9. RequestsOK'
  BY <1>4, <1>8, RequestsDone DEF Typed
<1>10. ManifestsOK' /\ StoresOK' /\ ClaimsOK'
  BY <1>4, <1>6 DEF Typed, ManifestsOK, StoresOK, ClaimsOK
<1> QED
  BY <1>3, <1>4, <1>5, <1>7, <1>9, <1>10 DEF Typed

-----------------------------------------------------------------------------
(* Type correctness.                                                       *)

LEMMA NextTyped ==
  Typed /\ [Next]_vars => Typed'
<1> SUFFICES ASSUME Typed, [Next]_vars PROVE Typed'
  OBVIOUS
<1>1. ASSUME NEW o \in Orders, createOrder(o) PROVE Typed'
  BY <1>1, CreateTyped
<1>2. ASSUME NEW c \in Clients, OrderRequest(c) PROVE Typed'
  BY <1>2, OrderArrivalsTyped, ApproveTyped, ConfirmTyped, RejectTyped, ForceCancelTyped,
     InquiryTyped, BatchApproveTyped, ReceiveTyped DEF OrderRequest
<1>3. ASSUME NEW c \in Clients, WarehouseRequest(c) PROVE Typed'
  BY <1>3, WarehouseArrivalsTyped, CancelTaskTyped, FinalizeTyped, CreateManifestTyped,
     ConsolidateTyped, IssueTyped, CancelManifestTyped, DepartureTyped DEF WarehouseRequest
<1>4. ASSUME NEW c \in Clients, ClaimRequest(c) PROVE Typed'
  BY <1>4, ClaimArrivalsTyped, ClaimTyped, ResolveTyped DEF ClaimRequest
<1>5. ASSUME NEW c \in Clients, Fail(c) PROVE Typed'
  BY <1>5, FailTyped
<1>6. ASSUME NEW i \in DOMAIN shipment, NEW k \in DOMAIN shipment[i].items,
             verifyManifestItem(i, k)
      PROVE  Typed'
  BY <1>6, VerifyTyped
<1>7. CASE cronExpireBatches
  BY <1>7, ExpireTyped
<1>8. CASE UNCHANGED vars
  <2>1. Grows
    BY <1>8 DEF vars, Grows, Placed
  <2>2. RequestsOK'
    BY <1>8, <2>1, RequestsKept DEF vars, Typed
  <2> QED
    BY <1>8, <2>2, ClaimsStay, OthersStay DEF vars, Typed, Placed
<1> QED
  BY <1>1, <1>2, <1>3, <1>4, <1>5, <1>6, <1>7, <1>8 DEF Next

(* Whatever is requested and by however many clients, the tables have      *)
(* their types: no reference dangles, no claimed or shipped quantity is     *)
(* negative.                                                               *)
THEOREM TypeCorrect == Spec => []TypeOK
<1>1. Init => Typed
  BY InitTyped
<1>2. Typed /\ [Next]_vars => Typed'
  BY NextTyped
<1>3. Typed => TypeOK
  BY TypedIsTypeOK
<1> QED
  BY <1>1, <1>2, <1>3, PTL DEF Spec

-----------------------------------------------------------------------------
(* What is on a truck, for any number of requests.                         *)

(* A manifest is made of approved orders without locking them              *)
(* (createManifest leaves the shipments open to others, races shows what    *)
(* that costs), and an issue changes the load of a truck: with either a     *)
(* row can join a truck that is leaving.                                   *)
NoLateRows == Endpoints \cap {"manifest", "issue"} = {}

AllPicked(row) == \A k \in DOMAIN row.items : row.items[k].picked

(* Why nothing leaves unscanned: what is on a manifest is closed to other   *)
(* orders, and the load a departure has read is still all there is.        *)
LoadsScanned ==
  /\ \A i \in DOMAIN shipment :
       shipment[i].manifest # None => shipment[i].status # "preparing"
  /\ \A c \in Clients : req[c].kind \notin {"manifest", "issue"}
  /\ \A c \in Clients : req[c].kind = "depart" =>
       \A i \in OnManifest(req[c].target.manifest) :
         i \in DOMAIN req[c].target.load /\ AllPicked(shipment[i])
  /\ NothingLeavesUnscanned

(* A shipment that is on no manifest, that stays on its manifest, or that   *)
(* goes on a new one.                                                      *)
StaysLoaded(i) ==
  \/ shipment'[i].manifest = None
  \/ /\ i \in DOMAIN shipment /\ shipment'[i].manifest = shipment[i].manifest
     /\ shipment'[i].status # "preparing"
     /\ AllPicked(shipment[i]) => AllPicked(shipment'[i])
     /\ shipment[i].shipped => shipment'[i].shipped
  \/ /\ shipment'[i].manifest \notin DOMAIN manifest
     /\ shipment'[i].status # "preparing"

LEMMA LoadsKept ==
  ASSUME Typed, LoadsScanned, \A i \in DOMAIN shipment' : StaysLoaded(i),
         \A m \in DOMAIN manifest' : manifest'[m] = "departed" =>
           \/ m \in DOMAIN manifest /\ manifest[m] = "departed"
           \/ \A i \in DOMAIN shipment' : shipment'[i].manifest = m =>
                shipment'[i].shipped /\ AllPicked(shipment'[i]),
         \A d \in Clients : req'[d] = req[d] \/ req'[d] = Idle
  PROVE  LoadsScanned'
<1>1. ASSUME NEW i \in DOMAIN shipment', shipment'[i].manifest # None
      PROVE  shipment'[i].status # "preparing"
  BY <1>1 DEF StaysLoaded
<1>2. ASSUME NEW i \in DOMAIN shipment', shipment'[i].manifest # None,
             shipment'[i].manifest \in DOMAIN manifest
      PROVE  /\ i \in OnManifest(shipment'[i].manifest)
             /\ AllPicked(shipment[i]) => AllPicked(shipment'[i])
             /\ shipment[i].shipped => shipment'[i].shipped
  BY <1>2 DEF StaysLoaded, OnManifest
<1>3. None \notin DOMAIN manifest
  BY FulfilmentAssumption DEF Typed, ManifestsOK
<1>4. ASSUME NEW c \in Clients, req'[c].kind = "depart",
             NEW i \in DOMAIN shipment', shipment'[i].manifest = req'[c].target.manifest
      PROVE  i \in DOMAIN req'[c].target.load /\ AllPicked(shipment'[i])
  <2>1. req'[c] = req[c]
    BY <1>4 DEF Idle
  <2>2. req[c].target.manifest \in DOMAIN manifest
    BY <1>4, <2>1 DEF Typed, RequestsOK, RequestOK
  <2>3. i \in OnManifest(req[c].target.manifest) /\ (AllPicked(shipment[i]) => AllPicked(shipment'[i]))
    BY <1>2, <1>3, <1>4, <2>1, <2>2
  <2> QED
    BY <1>4, <2>1, <2>3 DEF LoadsScanned
<1>5. ASSUME NEW m \in DOMAIN manifest', manifest'[m] = "departed",
             NEW i \in DOMAIN shipment', shipment'[i].manifest = m
      PROVE  shipment'[i].shipped /\ AllPicked(shipment'[i])
  <2> SUFFICES ASSUME m \in DOMAIN manifest, manifest[m] = "departed"
               PROVE  shipment'[i].shipped /\ AllPicked(shipment'[i])
    BY <1>5
  <2>2. /\ i \in OnManifest(m)
        /\ AllPicked(shipment[i]) => AllPicked(shipment'[i])
        /\ shipment[i].shipped => shipment'[i].shipped
    BY <1>2, <1>3, <1>5
  <2>3. shipment[i].shipped /\ AllPicked(shipment[i])
    BY <2>2 DEF LoadsScanned, NothingLeavesUnscanned, AllPicked
  <2> QED
    BY <2>2, <2>3
<1>6. NothingLeavesUnscanned'
  BY <1>5 DEF NothingLeavesUnscanned, OnManifest, AllPicked
<1>7. \A c \in Clients : req'[c].kind \notin {"manifest", "issue"}
  BY DEF LoadsScanned, Idle
<1> QED
  BY <1>1, <1>4, <1>6, <1>7 DEF LoadsScanned, OnManifest

(* A shipment whose row stays, or whose status does. *)
LEMMA LoadsOfStatus ==
  ASSUME Typed, LoadsScanned, NEW i \in DOMAIN shipment,
         \/ shipment'[i] = shipment[i]
         \/ \E st \in ShipmentStatus \ {"preparing"} :
              \/ shipment'[i] = [shipment[i] EXCEPT !.status = st]
              \/ shipment'[i] = [shipment[i] EXCEPT !.status = st, !.shipped = TRUE]
         \/ shipment'[i] = [shipment[i] EXCEPT !.manifest = None]
  PROVE  StaysLoaded(i)
<1>1. shipment[i] \in [order : Orders, linked : SUBSET Orders, group : Orders,
                       status : ShipmentStatus, manifest : Manifests \cup {None},
                       shipped : BOOLEAN, items : Seq(ShipmentItemRow)]
  BY ShipmentFacts DEF ShipmentRow
<1>2. CASE shipment'[i] = shipment[i]
  BY <1>2 DEF StaysLoaded, LoadsScanned
<1>3. ASSUME NEW st, st # "preparing", shipment'[i] = [shipment[i] EXCEPT !.status = st]
      PROVE  StaysLoaded(i)
  <2>1. /\ shipment'[i].manifest = shipment[i].manifest /\ shipment'[i].status = st
        /\ shipment'[i].items = shipment[i].items /\ shipment'[i].shipped = shipment[i].shipped
    BY <1>1, <1>3
  <2> QED
    BY <1>3, <2>1 DEF StaysLoaded, AllPicked
<1>4. ASSUME NEW st, st # "preparing",
             shipment'[i] = [shipment[i] EXCEPT !.status = st, !.shipped = TRUE]
      PROVE  StaysLoaded(i)
  <2>1. /\ shipment'[i].manifest = shipment[i].manifest /\ shipment'[i].status = st
        /\ shipment'[i].items = shipment[i].items /\ shipment'[i].shipped
    BY <1>1, <1>4
  <2> QED
    BY <1>4, <2>1 DEF StaysLoaded, AllPicked
<1>5. CASE shipment'[i] = [shipment[i] EXCEPT !.manifest = None]
  BY <1>1, <1>5 DEF StaysLoaded
<1> QED
  BY <1>2, <1>3, <1>4, <1>5

(* The requests of the others stay. *)
LEMMA DoneIdles ==
  ASSUME Typed, NEW c \in Clients, Done(c)
  PROVE  \A d \in Clients : req'[d] = req[d] \/ req'[d] = Idle
  BY DEF Done, Typed, RequestsOK

(* Nothing happens to the loads. *)
LEMMA LoadsUntouched ==
  ASSUME Typed, LoadsScanned, UNCHANGED <<shipment, manifest>>,
         \A d \in Clients : req'[d] = req[d] \/ req'[d] = Idle
  PROVE  LoadsScanned'
<1>1. \A i \in DOMAIN shipment' : StaysLoaded(i)
  BY LoadsOfStatus
<1> QED
  BY <1>1, LoadsKept

LEMMA ArrivalsLeaveLoads ==
  ASSUME Typed, LoadsScanned, NEW c \in Clients, NEW kind, NEW S, NEW target,
         kind \notin {"manifest", "issue", "depart"}, Arrive(c, kind, S, target)
  PROVE  LoadsScanned'
<1>1. UNCHANGED <<shipment, manifest>>
      /\ \A d \in Clients : IF d = c THEN req'[d].kind = kind ELSE req'[d] = req[d]
  BY DEF Arrive, Typed, RequestsOK
<1>2. NothingLeavesUnscanned'
  BY <1>1 DEF LoadsScanned, NothingLeavesUnscanned, OnManifest
<1>3. \A d \in Clients : req'[d].kind = "depart" =>
        \A i \in OnManifest(req'[d].target.manifest) :
          i \in DOMAIN req'[d].target.load /\ AllPicked(shipment[i])
  BY <1>1 DEF LoadsScanned
<1> QED
  BY <1>1, <1>2, <1>3 DEF LoadsScanned, OnManifest

(* The order service. *)
LEMMA OrdersLeaveLoads ==
  ASSUME Typed, LoadsScanned, NEW c \in Clients, OrderRequest(c)
  PROVE  LoadsScanned'
<1>1. CASE \/ ArriveApprove(c) \/ ArriveConfirm(c) \/ ArriveReject(c) \/ ArriveCancel(c)
           \/ ArriveForceCancel(c) \/ ArriveReceive(c) \/ ArriveInquiry(c)
           \/ ArriveBatchApprove(c)
  <2>1. \E kind \in {"approve", "confirm", "reject", "cancel", "forceCancel", "receive",
                     "inquiry", "batchApprove"} : \E S, target : Arrive(c, kind, S, target)
    BY <1>1 DEF ArriveApprove, ArriveConfirm, ArriveReject, ArriveCancel, ArriveForceCancel,
       ArriveReceive, ArriveInquiry, ArriveBatchApprove
  <2> QED
    BY <2>1, ArrivalsLeaveLoads
<1>2. CASE rejectOrder(c) \/ cancelOrder(c) \/ kitchenProductionConfirm(c)
  <2>1. Done(c) /\ UNCHANGED <<shipment, manifest>>
    BY <1>2 DEF rejectOrder, cancelOrder, kitchenProductionConfirm
  <2> QED
    BY <2>1, DoneIdles, LoadsUntouched
<1>3. CASE approveOrder(c)
  <2> DEFINE o == OrderOf(c)
             take == Taken(o)
             g == order[o].group
  <2>1. Done(c) /\ UNCHANGED manifest
        /\ (UNCHANGED shipment \/ shipment' \in ShipmentForOrder(shipment, o, g, take))
    BY <1>3 DEF approveOrder, rejectOutOfStock, applyApproval, awaitProduction
  <2> HIDE DEF o, take, g
  <2>2. CASE UNCHANGED shipment
    BY <2>1, <2>2, DoneIdles, LoadsUntouched
  <2>3. CASE shipment' = Append(shipment, NewShipment(o, {o}, g, "preparing", ItemsOf(take, FirstLine[o])))
    <3> DEFINE row == NewShipment(o, {o}, g, "preparing", ItemsOf(take, FirstLine[o]))
    <3>1. row.manifest = None
      BY DEF NewShipment
    <3> HIDE DEF row
    <3>2. \A i \in DOMAIN shipment' : \/ i \in DOMAIN shipment /\ shipment'[i] = shipment[i]
                                      \/ shipment'[i] = row
      BY <2>3 DEF row, Typed, ShipmentsOK
    <3>3. \A i \in DOMAIN shipment' : StaysLoaded(i)
      <4>1. \A i \in DOMAIN shipment : shipment'[i] = shipment[i] => StaysLoaded(i)
        BY LoadsOfStatus
      <4> QED
        BY <3>1, <3>2, <4>1 DEF StaysLoaded
    <3> QED
      BY <2>1, <3>3, DoneIdles, LoadsKept
  <2>4. ASSUME NEW i \in DOMAIN shipment, shipment[i].status = "preparing",
               shipment' = WithRow(i, Joined(shipment[i], o, take))
        PROVE  LoadsScanned'
    <3>1. shipment[i].manifest = None
      BY <2>4 DEF LoadsScanned
    <3>2. Joined(shipment[i], o, take).manifest = None
      BY <3>1, ShipmentFacts DEF Joined, ShipmentRow
    <3>3. ASSUME NEW j \in DOMAIN shipment' PROVE StaysLoaded(j)
      <4>1. CASE j = i
        BY <2>4, <3>2, <4>1 DEF WithRow, StaysLoaded
      <4>2. CASE j # i
        <5>1. j \in DOMAIN shipment /\ shipment'[j] = shipment[j]
          BY <2>4, <4>2 DEF WithRow
        <5> QED
          BY <5>1, LoadsOfStatus
      <4> QED
        BY <4>1, <4>2
    <3> QED
      BY <2>1, <3>3, DoneIdles, LoadsKept
  <2> QED
    BY <2>1, <2>2, <2>3, <2>4, ShipmentMade DEF NewFor
<1>4. CASE forceCancelOrder(c)
  <2>1. Done(c) /\ UNCHANGED manifest
        /\ \/ UNCHANGED shipment
           \/ \E i \in DOMAIN shipment : shipment' = [shipment EXCEPT ![i].status = "cancelled"]
    BY <1>4 DEF forceCancelOrder, ShipmentsOf, PrimaryShipments
  <2>2. DOMAIN shipment' = DOMAIN shipment
        /\ \A i \in DOMAIN shipment :
             \/ shipment'[i] = shipment[i]
             \/ shipment'[i] = [shipment[i] EXCEPT !.status = "cancelled"]
    BY <2>1 DEF Typed, ShipmentsOK
  <2>3. "cancelled" \in ShipmentStatus \ {"preparing"}
    BY DEF ShipmentStatus
  <2>4. \A i \in DOMAIN shipment' : StaysLoaded(i)
    BY <2>2, <2>3, LoadsOfStatus
  <2> QED
    BY <2>1, <2>4, DoneIdles, LoadsKept
<1>5. CASE receiveShipment(c)
  <2>1. Done(c) /\ UNCHANGED manifest
        /\ shipment' = [shipment EXCEPT ![req[c].target].status = "completed"]
    BY <1>5 DEF receiveShipment
  <2>2. DOMAIN shipment' = DOMAIN shipment
        /\ \A i \in DOMAIN shipment :
             \/ shipment'[i] = shipment[i]
             \/ shipment'[i] = [shipment[i] EXCEPT !.status = "completed"]
    BY <2>1 DEF Typed, ShipmentsOK
  <2>3. "completed" \in ShipmentStatus \ {"preparing"}
    BY DEF ShipmentStatus
  <2>4. \A i \in DOMAIN shipment' : StaysLoaded(i)
    BY <2>2, <2>3, LoadsOfStatus
  <2> QED
    BY <2>1, <2>4, DoneIdles, LoadsKept
<1>6. CASE sendCoordinationInquiry(c)
  <2>1. Done(c) /\ UNCHANGED <<shipment, manifest>>
    BY <1>6 DEF sendCoordinationInquiry
  <2> QED
    BY <2>1, DoneIdles, LoadsUntouched
<1>7. CASE batchApproveByAllocation(c)
  <2>1. Done(c) /\ UNCHANGED manifest
    BY <1>7 DEF batchApproveByAllocation
  <2>2. \A i \in DOMAIN shipment' : \/ i \in DOMAIN shipment /\ shipment'[i] = shipment[i]
                                    \/ shipment'[i].manifest = None
    BY <1>7, BatchApproved DEF BatchShips, Consolidates
  <2>3. \A i \in DOMAIN shipment' : StaysLoaded(i)
    <3>1. \A i \in DOMAIN shipment : shipment'[i] = shipment[i] => StaysLoaded(i)
      BY LoadsOfStatus
    <3> QED
      BY <2>2, <3>1 DEF StaysLoaded
  <2> QED
    BY <2>1, <2>3, DoneIdles, LoadsKept
<1> QED
  BY <1>1, <1>2, <1>3, <1>4, <1>5, <1>6, <1>7 DEF OrderRequest

(* The warehouse service. *)
LEMMA ConsolidationLoads ==
  ASSUME Typed, LoadsScanned, NEW c \in Clients, consolidateManifestOrders(c)
  PROVE  LoadsScanned'
<1>1. PICK m \in Manifests \ DOMAIN manifest :
        /\ manifest' = [n \in DOMAIN manifest \cup {m} |->
                          IF n = m THEN "preparing" ELSE manifest[n]]
        /\ shipment' = [i \in DOMAIN shipment |->
                          IF i \in req[c].target
                          THEN [shipment[i] EXCEPT !.manifest = m, !.status = "consolidated"]
                          ELSE shipment[i]]
  BY DEF consolidateManifestOrders
<1>2. Done(c)
  BY DEF consolidateManifestOrders
<1>3. ASSUME NEW i \in DOMAIN shipment' PROVE StaysLoaded(i)
  <2>1. i \in DOMAIN shipment
    BY <1>1
  <2>2. CASE i \in req[c].target
    <3>1. shipment'[i] = [shipment[i] EXCEPT !.manifest = m, !.status = "consolidated"]
      BY <1>1, <2>1, <2>2
    <3>2. shipment'[i].manifest = m /\ shipment'[i].status = "consolidated"
      BY <2>1, <3>1, ShipmentFacts DEF ShipmentRow
    <3> QED
      BY <3>2 DEF StaysLoaded
  <2>3. CASE i \notin req[c].target
    BY <1>1, <2>1, <2>3, LoadsOfStatus
  <2> QED
    BY <2>2, <2>3
<1>4. \A n \in DOMAIN manifest' : manifest'[n] = "departed" =>
        n \in DOMAIN manifest /\ manifest[n] = "departed"
  BY <1>1
<1> QED
  BY <1>2, <1>3, <1>4, DoneIdles, LoadsKept

LEMMA CancellationLoads ==
  ASSUME Typed, LoadsScanned, NEW c \in Clients, cancelManifest(c)
  PROVE  LoadsScanned'
<1> DEFINE m == req[c].target
<1>1. /\ Done(c)
      /\ shipment' = [i \in DOMAIN shipment |->
                       IF i \in OnManifest(m) THEN [shipment[i] EXCEPT !.manifest = None]
                       ELSE shipment[i]]
      /\ manifest' = [manifest EXCEPT ![m] = "cancelled"]
  BY DEF cancelManifest
<1> HIDE DEF m
<1>2. DOMAIN shipment' = DOMAIN shipment
      /\ \A i \in DOMAIN shipment : \/ shipment'[i] = shipment[i]
                                    \/ shipment'[i] = [shipment[i] EXCEPT !.manifest = None]
  BY <1>1
<1>3. \A i \in DOMAIN shipment' : StaysLoaded(i)
  BY <1>2, LoadsOfStatus
<1>4. \A n \in DOMAIN manifest' : manifest'[n] = "departed" =>
        n \in DOMAIN manifest /\ manifest[n] = "departed"
  BY <1>1 DEF Typed, ManifestsOK
<1> QED
  BY <1>1, <1>3, <1>4, DoneIdles, LoadsKept

(* A truck leaves with what the request has read, which is still its load.  *)
LEMMA DepartureLoads ==
  ASSUME Typed, LoadsScanned, NEW c \in Clients, confirmManifestDeparture(c)
  PROVE  LoadsScanned'
<1> DEFINE m == req[c].target.manifest
           load == req[c].target.load
<1>1. /\ Done(c) /\ req[c].kind = "depart"
      /\ shipment' = [i \in DOMAIN shipment |->
                       IF i \in DOMAIN load
                       THEN [shipment[i] EXCEPT !.status = "in_transit", !.shipped = TRUE]
                       ELSE shipment[i]]
      /\ manifest' = [manifest EXCEPT ![m] = "departed"]
  BY DEF confirmManifestDeparture, Handles
<1>2. \A i \in OnManifest(m) : i \in DOMAIN load /\ AllPicked(shipment[i])
  BY <1>1 DEF LoadsScanned
<1> HIDE DEF m, load
<1>3. \A i \in DOMAIN shipment : \/ shipment'[i] = shipment[i]
                                 \/ shipment'[i] = [shipment[i] EXCEPT
                                                      !.status = "in_transit", !.shipped = TRUE]
  BY <1>1
<1>4. \A i \in DOMAIN shipment' : StaysLoaded(i)
  <2>1. "in_transit" \in ShipmentStatus \ {"preparing"} /\ DOMAIN shipment' = DOMAIN shipment
    BY <1>1 DEF ShipmentStatus
  <2> QED
    BY <1>3, <2>1, LoadsOfStatus
<1>5. ASSUME NEW i \in DOMAIN shipment', shipment'[i].manifest = m
      PROVE  shipment'[i].shipped /\ AllPicked(shipment'[i])
  <2>1. i \in DOMAIN shipment
    BY <1>1
  <2>2. shipment[i] \in [order : Orders, linked : SUBSET Orders, group : Orders,
                         status : ShipmentStatus, manifest : Manifests \cup {None},
                         shipped : BOOLEAN, items : Seq(ShipmentItemRow)]
    BY <2>1, ShipmentFacts DEF ShipmentRow
  <2>3. shipment'[i].manifest = shipment[i].manifest /\ shipment'[i].items = shipment[i].items
    BY <1>3, <2>1, <2>2
  <2>4. i \in DOMAIN load /\ AllPicked(shipment[i])
    BY <1>2, <1>5, <2>1, <2>3 DEF OnManifest
  <2>5. shipment'[i].shipped
    BY <1>1, <2>1, <2>2, <2>4
  <2> QED
    BY <2>3, <2>4, <2>5 DEF AllPicked
<1>6. \A n \in DOMAIN manifest' : manifest'[n] = "departed" =>
        \/ n \in DOMAIN manifest /\ manifest[n] = "departed"
        \/ \A i \in DOMAIN shipment' : shipment'[i].manifest = n =>
             shipment'[i].shipped /\ AllPicked(shipment'[i])
  <2>1. \A n \in DOMAIN manifest' : n # m => n \in DOMAIN manifest /\ manifest'[n] = manifest[n]
    BY <1>1 DEF Typed, ManifestsOK
  <2> QED
    BY <1>5, <2>1
<1> QED
  BY <1>1, <1>4, <1>6, DoneIdles, LoadsKept

(* The departure that arrives has read the whole load, all of it scanned.   *)
LEMMA DepartureArrives ==
  ASSUME Typed, LoadsScanned, NEW c \in Clients, ArriveDeparture(c)
  PROVE  LoadsScanned'
<1>1. PICK m \in DOMAIN manifest :
        /\ Unscanned(OnManifest(m)) = {}
        /\ Arrive(c, "depart", {}, [manifest |-> m,
             load |-> [i \in OnManifest(m) |-> Goods(shipment[i].items)]])
  BY DEF ArriveDeparture
<1> DEFINE load == [i \in OnManifest(m) |-> Goods(shipment[i].items)]
           r == [kind |-> "depart", orders |-> {}, target |-> [manifest |-> m, load |-> load]]
<1>2. UNCHANGED <<shipment, manifest>> /\ req' = [req EXCEPT ![c] = r]
  BY <1>1 DEF Arrive
<1>3. r.kind = "depart" /\ r.target.manifest = m /\ DOMAIN r.target.load = OnManifest(m)
  OBVIOUS
<1> HIDE DEF r, load
<1>4. \A d \in Clients : IF d = c THEN req'[d] = r ELSE req'[d] = req[d]
  BY <1>2 DEF Typed, RequestsOK
<1>5. \A i \in OnManifest(m) : AllPicked(shipment[i])
  BY <1>1 DEF Unscanned, AllPicked
<1>6. NothingLeavesUnscanned'
  BY <1>2 DEF LoadsScanned, NothingLeavesUnscanned, OnManifest
<1>7. \A d \in Clients : req'[d].kind = "depart" =>
        \A i \in OnManifest(req'[d].target.manifest) :
          i \in DOMAIN req'[d].target.load /\ AllPicked(shipment[i])
  BY <1>3, <1>4, <1>5 DEF LoadsScanned
<1>8. \A d \in Clients : req'[d].kind \notin {"manifest", "issue"}
  BY <1>3, <1>4 DEF LoadsScanned
<1> QED
  BY <1>2, <1>6, <1>7, <1>8 DEF LoadsScanned, OnManifest

LEMMA WarehouseKeepsLoads ==
  ASSUME NoLateRows, Typed, LoadsScanned, NEW c \in Clients, WarehouseRequest(c)
  PROVE  LoadsScanned'
<1>1. CASE ArriveCancelTask(c) \/ ArriveFinalize(c) \/ ArriveConsolidate(c)
           \/ ArriveCancelManifest(c)
  <2>1. \E kind \in {"cancelTask", "finalize", "consolidate", "cancelManifest"} :
          \E S, target : Arrive(c, kind, S, target)
    BY <1>1 DEF ArriveCancelTask, ArriveFinalize, ArriveConsolidate, ArriveCancelManifest
  <2> QED
    BY <2>1, ArrivalsLeaveLoads
<1>2. ~ArriveManifest(c) /\ ~ArriveIssue(c)
  BY DEF NoLateRows, ArriveManifest, ArriveIssue, Arrive, Serves
<1>3. ~createManifest(c) /\ ~reportManifestBatchIssue(c)
  BY DEF LoadsScanned, createManifest, reportManifestBatchIssue, Handles
<1>4. CASE cancelPickingTask(c) \/ finalizeBulkShipment(c)
  <2>1. Done(c) /\ UNCHANGED manifest
    BY <1>4 DEF cancelPickingTask, finalizeBulkShipment
  <2>2. \/ UNCHANGED shipment
        \/ \E i \in DOMAIN shipment : shipment' = [shipment EXCEPT ![i].status = "cancelled"]
        \/ \E i \in DOMAIN shipment :
             shipment' = [shipment EXCEPT ![i].status = "in_transit", ![i].shipped = TRUE]
    BY <1>4 DEF cancelPickingTask, finalizeBulkShipment, ShipmentsOf, PrimaryShipments
  <2>3. DOMAIN shipment' = DOMAIN shipment
        /\ \A i \in DOMAIN shipment :
             \/ shipment'[i] = shipment[i]
             \/ shipment'[i] = [shipment[i] EXCEPT !.status = "cancelled"]
             \/ shipment'[i] = [shipment[i] EXCEPT !.status = "in_transit", !.shipped = TRUE]
    BY <2>2 DEF Typed, ShipmentsOK
  <2>4. {"cancelled", "in_transit"} \subseteq ShipmentStatus \ {"preparing"}
    BY DEF ShipmentStatus
  <2>5. \A i \in DOMAIN shipment' : StaysLoaded(i)
    BY <2>3, <2>4, LoadsOfStatus
  <2> QED
    BY <2>1, <2>5, DoneIdles, LoadsKept
<1> QED
  BY <1>1, <1>2, <1>3, <1>4, ConsolidationLoads, CancellationLoads, DepartureArrives,
     DepartureLoads DEF WarehouseRequest

(* A scan only adds to what has been picked. *)
LEMMA ScanLoads ==
  ASSUME Typed, LoadsScanned, NEW i \in DOMAIN shipment, NEW k \in DOMAIN shipment[i].items,
         verifyManifestItem(i, k)
  PROVE  LoadsScanned'
<1> DEFINE items == [shipment[i].items EXCEPT ![k].picked = TRUE]
<1>1. UNCHANGED <<manifest, req>> /\ shipment' = [shipment EXCEPT ![i].items = items]
  BY DEF verifyManifestItem
<1>2. shipment[i].items \in Seq(ShipmentItemRow)
  BY ShipmentFacts DEF Rows
<1>3. \A j \in DOMAIN items : j \in DOMAIN shipment[i].items
                              /\ (shipment[i].items[j].picked => items[j].picked)
  <2>1. shipment[i].items[k] \in [batch : Batches, quantity : Nat \ {0}, picked : BOOLEAN]
    <3>1. shipment[i].items[k] \in ShipmentItemRow
      <4> HIDE DEF items
      <4> QED
        BY <1>2
    <3> QED
      BY <3>1 DEF ShipmentItemRow
  <2>2. items[k].picked
    BY <1>2, <2>1
  <2>3. DOMAIN items = DOMAIN shipment[i].items
        /\ \A j \in DOMAIN items : j # k => items[j] = shipment[i].items[j]
    OBVIOUS
  <2> HIDE DEF items
  <2> QED
    BY <2>2, <2>3
<1> HIDE DEF items
<1>4. ASSUME NEW j \in DOMAIN shipment' PROVE StaysLoaded(j)
  <2>1. j \in DOMAIN shipment
    BY <1>1
  <2>2. CASE j = i
    <3>1. shipment'[j] = [shipment[i] EXCEPT !.items = items]
      BY <1>1, <2>2 DEF Typed, ShipmentsOK
    <3>2. shipment[i] \in [order : Orders, linked : SUBSET Orders, group : Orders,
                           status : ShipmentStatus, manifest : Manifests \cup {None},
                           shipped : BOOLEAN, items : Seq(ShipmentItemRow)]
      BY ShipmentFacts DEF ShipmentRow
    <3>3. /\ shipment'[j].manifest = shipment[j].manifest
          /\ shipment'[j].status = shipment[j].status
          /\ shipment'[j].shipped = shipment[j].shipped /\ shipment'[j].items = items
      BY <2>2, <3>1, <3>2
    <3>4. AllPicked(shipment[j]) => AllPicked(shipment'[j])
      BY <1>3, <2>2, <3>3 DEF AllPicked
    <3> QED
      BY <2>1, <3>3, <3>4 DEF StaysLoaded, LoadsScanned
  <2>3. CASE j # i
    <3>1. shipment'[j] = shipment[j]
      BY <1>1, <2>1, <2>3
    <3> QED
      BY <2>1, <3>1, LoadsOfStatus
  <2> QED
    BY <2>2, <2>3
<1> QED
  BY <1>1, <1>4, LoadsKept

LEMMA InitLoads == Init => LoadsScanned
  BY DEF Init, LoadsScanned, NothingLeavesUnscanned, Idle

LEMMA NextLoads ==
  NoLateRows /\ Typed /\ LoadsScanned /\ [Next]_vars => LoadsScanned'
<1> SUFFICES ASSUME NoLateRows, Typed, LoadsScanned, [Next]_vars
             PROVE  LoadsScanned'
  OBVIOUS
<1>1. ASSUME NEW c \in Clients, ClaimRequest(c) PROVE LoadsScanned'
  <2>1. CASE ArriveClaim(c) \/ ArriveResolve(c)
    <3>1. \E kind \in {"claim", "resolve"} : \E S, target : Arrive(c, kind, S, target)
      BY <2>1 DEF ArriveClaim, ArriveResolve
    <3> QED
      BY <3>1, ArrivalsLeaveLoads
  <2>2. CASE createManualClaim(c) \/ resolveClaim(c)
    <3>1. Done(c) /\ UNCHANGED <<shipment, manifest>>
      BY <2>2 DEF createManualClaim, resolveClaim
    <3> QED
      BY <3>1, DoneIdles, LoadsUntouched
  <2> QED
    BY <1>1, <2>1, <2>2 DEF ClaimRequest
<1>2. ASSUME NEW c \in Clients, Fail(c) PROVE LoadsScanned'
  BY <1>2, DoneIdles, LoadsUntouched DEF Fail
<1>3. ASSUME NEW o \in Orders, createOrder(o) PROVE LoadsScanned'
  BY <1>3, LoadsUntouched DEF createOrder
<1>4. CASE cronExpireBatches
  BY <1>4, LoadsUntouched DEF cronExpireBatches
<1>5. CASE UNCHANGED vars
  BY <1>5, LoadsUntouched DEF vars
<1> QED
  BY <1>1, <1>2, <1>3, <1>4, <1>5, OrdersLeaveLoads, WarehouseKeepsLoads, ScanLoads DEF Next

(* Whatever the interleaving of the requests, what has departed was scanned *)
(* row by row and has left: a load is closed when it goes on a manifest.   *)
THEOREM LoadsAreScanned ==
  ASSUME NoLateRows
  PROVE  Spec => []NothingLeavesUnscanned
<1>1. Init => Typed /\ LoadsScanned
  BY InitTyped, InitLoads
<1>2. Typed /\ LoadsScanned /\ [Next]_vars => (Typed /\ LoadsScanned)'
  BY NextTyped, NextLoads
<1>3. LoadsScanned => NothingLeavesUnscanned
  BY DEF LoadsScanned
<1> QED
  BY <1>1, <1>2, <1>3, PTL DEF Spec
=============================================================================
