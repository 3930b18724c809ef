----------------------------- MODULE StockPromise -----------------------------
(***************************************************************************)
(* What the kitchen promises a store, without tables, requests, shipments  *)
(* or trucks: an approved order owns goods of its own until they leave for *)
(* it or it is called off, in which case all of them are free again.       *)
(* Goods are bundles, [Batches -> Nat].  Spoilt goods leave the story: they *)
(* are neither free nor held nor counted as gone.                          *)
(***************************************************************************)
EXTENDS Quantities

CONSTANTS Orders, Batches, Opening

VARIABLES
  state,  \* of each order
  free,   \* goods nobody has been promised
  held,   \* the goods promised to each order
  gone    \* goods that have left

vars == <<state, free, held, gone>>

Bundle(limit) ==
  {f \in [Batches -> UNION {0..limit[b] : b \in Batches}] :
     \A b \in Batches : f[b] <= limit[b]}

Zero == [b \in Batches |-> 0]

Init ==
  /\ state = [o \in Orders |-> "none"]
  /\ free = Opening
  /\ held = [o \in Orders |-> Zero]
  /\ gone = Zero

Move(o, from, to) == state[o] = from /\ state' = [state EXCEPT ![o] = to]

Place(o) == Move(o, "none", "open") /\ UNCHANGED <<free, held, gone>>

(* Never more than is free, possibly less than was asked for. *)
Promise(o) ==
  /\ Move(o, "open", "promised")
  /\ \E goods \in Bundle(free) :
       /\ held' = [held EXCEPT ![o] = goods]
       /\ free' = [b \in Batches |-> free[b] - goods[b]]
  /\ UNCHANGED gone

Refuse(o) == Move(o, "open", "void") /\ UNCHANGED <<free, held, gone>>

CallOff(o) ==
  /\ Move(o, "promised", "void")
  /\ held' = [held EXCEPT ![o] = Zero]
  /\ free' = [b \in Batches |-> free[b] + held[o][b]]
  /\ UNCHANGED gone

(* A truck leaves with all the goods of the orders in S, and nothing else.  *)
Ship(S) ==
  /\ \A o \in S : state[o] = "promised"
  /\ state' = [o \in Orders |-> IF o \in S THEN "away" ELSE state[o]]
  /\ held' = [o \in Orders |-> IF o \in S THEN Zero ELSE held[o]]
  /\ gone' = [b \in Batches |->
                gone[b] + Total([o \in S |-> held[o][b]])]
  /\ UNCHANGED free

(* Batches expire, whoever has been promised them. *)
Spoil(S) ==
  /\ free' = [b \in Batches |-> IF b \in S THEN 0 ELSE free[b]]
  /\ held' = [o \in Orders |-> [b \in Batches |-> IF b \in S THEN 0 ELSE held[o][b]]]
  /\ gone' = [b \in Batches |-> IF b \in S THEN 0 ELSE gone[b]]
  /\ UNCHANGED state

(* The store has received them. *)
Finish(o) == Move(o, "away", "done") /\ UNCHANGED <<free, held, gone>>

Next ==
  \/ \E o \in Orders : Place(o) \/ Promise(o) \/ Refuse(o) \/ CallOff(o) \/ Finish(o)
  \/ \E S \in SUBSET Orders : Ship(S)
  \/ \E S \in SUBSET Batches : Spoil(S)

Spec == Init /\ [][Next]_vars
=============================================================================
