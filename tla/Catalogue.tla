------------------------------- MODULE Catalogue -------------------------------
(***************************************************************************)
(* product (with base units and batches), supplier and the recipes of the  *)
(* production module: the reference data the supply chain reads.  Nothing  *)
(* is deleted, rows are deactivated.  Every endpoint checks first and      *)
(* writes later; the database adds foreign keys and unique columns.        *)
(***************************************************************************)
EXTENDS Requests, FiniteSets, Functions

CONSTANTS
  Units, UnitNames,
  SeedUnits,       \* base units at the start: identifier -> row
  Products,
  SeedProducts,    \* products at the start: identifier -> row
  ProductTypes,    \* the product types an instance uses
  BillChoices,     \* the sets of ingredients an instance uses
  Recipes,
  SeedRecipes,     \* recipes at the start: identifier -> row
  ProductionOrders, Lots, Suppliers,
  LotQuantities    \* quantities an administrator may give a lot

VARIABLES
  unit,      \* base_units: identifier -> name and is_active
  product,   \* products: identifier -> unit, type and is_active
  recipe,    \* recipes and recipe_items: output, items and is_active
  porder,    \* production_orders: recipe and status
  lot,       \* batches and their inventory row in the central warehouse
  supplier   \* suppliers: identifier -> is_active

catalogueVars == <<unit, product, recipe, porder, lot, supplier>>

(* Rows, with the columns that matter here. *)
UnitRow == [name : UnitNames, active : BOOLEAN]
ProductRow == [unit : Units, type : ProductTypes, active : BOOLEAN]
RecipeRow == [output : Products, items : BillChoices, active : BOOLEAN]
ProductionOrderRow ==
  [recipe : Recipes, status : {"draft", "pending", "in_progress", "completed"}]
LotRow == [product : Products, quantity : LotQuantities \cup {0},
           status : {"pending", "available", "empty", "expired"}]
SupplierRow == [active : BOOLEAN]

ASSUME CatalogueAssumption ==
  /\ ProductTypes \subseteq {"raw_material", "finished_good", "resell_product"}
  /\ DOMAIN SeedUnits \subseteq Units /\ DOMAIN SeedProducts \subseteq Products
  /\ DOMAIN SeedRecipes \subseteq Recipes
  /\ BillChoices \subseteq SUBSET Products /\ {} \notin BillChoices  \* ArrayMinSize(1)
  /\ LotQuantities \subseteq Nat \ {0}
  /\ \A u \in DOMAIN SeedUnits : SeedUnits[u] \in UnitRow
  /\ \A p \in DOMAIN SeedProducts :
       SeedProducts[p] \in ProductRow /\ SeedProducts[p].unit \in DOMAIN SeedUnits
  /\ \A r \in DOMAIN SeedRecipes :
       /\ SeedRecipes[r] \in RecipeRow
       /\ SeedRecipes[r].items \cup {SeedRecipes[r].output} \subseteq DOMAIN SeedProducts

NoRows == [x \in {} |-> x]

CatalogueInit ==
  /\ unit = SeedUnits /\ product = SeedProducts
  /\ recipe = SeedRecipes /\ porder = NoRows /\ lot = NoRows /\ supplier = NoRows

With(table, id, row) ==
  [k \in DOMAIN table \cup {id} |-> IF k = id THEN row ELSE table[k]]

Active(table, id) == id \in DOMAIN table /\ table[id].active

(* UPDATE ... SET of the fields a PATCH gives. *)
Patched(row, patch) ==
  [f \in DOMAIN row |-> IF f \in DOMAIN patch THEN patch[f] ELSE row[f]]

-----------------------------------------------------------------------------
(* Base units.                                                              *)

Named(name) == {u \in DOMAIN unit : unit[u].name = name}   \* findByName

ArriveCreateUnit(c, u, name) ==
  /\ MayCall(c, "createUnit")
  /\ u \notin DOMAIN unit /\ Named(name) = {}
  /\ Becomes(c, [kind |-> "createUnit", step |-> "write", unit |-> u, name |-> name])
  /\ UNCHANGED catalogueVars

ArriveUpdateUnit(c, u, name) ==
  /\ MayCall(c, "updateUnit")
  /\ Active(unit, u)
  /\ name # unit[u].name => Named(name) = {}
  /\ Becomes(c, [kind |-> "updateUnit", step |-> "write", unit |-> u, name |-> name])
  /\ UNCHANGED catalogueVars

(* INSERT or UPDATE; base_units.name is UNIQUE. *)
writeUnit(c) ==
  /\ At(c, "createUnit", "write") \/ At(c, "updateUnit", "write")
  /\ LET u == req[c].unit
         name == req[c].name
     IN /\ Named(name) \subseteq {u}
        /\ req[c].kind = "createUnit" => u \notin DOMAIN unit
        /\ unit' = With(unit, u,
                     [name |-> name,
                      active |-> req[c].kind = "createUnit" \/ unit[u].active])
  /\ Done(c)
  /\ UNCHANGED <<product, recipe, porder, lot, supplier>>

(* Deactivated whatever it measures.  The check and the UPDATE commute with *)
(* every other statement: one step.                                        *)
removeUnit(u) ==
  /\ Immediate("removeUnit")
  /\ Active(unit, u)
  /\ unit' = [unit EXCEPT ![u].active = FALSE]
  /\ UNCHANGED <<product, recipe, porder, lot, supplier>>

-----------------------------------------------------------------------------
(* Products.                                                                *)

ArriveCreateProduct(c, p, u) ==
  /\ MayCall(c, "createProduct")
  /\ p \notin DOMAIN product /\ Active(unit, u)
  /\ \E type \in ProductTypes :
       Becomes(c, [kind |-> "createProduct", step |-> "insert", product |-> p,
                   row |-> [unit |-> u, type |-> type, active |-> TRUE]])
  /\ UNCHANGED catalogueVars

createProduct(c) ==
  /\ At(c, "createProduct", "insert")
  /\ req[c].product \notin DOMAIN product    \* the sku is UNIQUE
  /\ product' = With(product, req[c].product, req[c].row)
  /\ Done(c)
  /\ UNCHANGED <<unit, recipe, porder, lot, supplier>>

ArriveUpdateProduct(c, p) ==
  /\ MayCall(c, "updateProduct")
  /\ Active(product, p)
  /\ \E type \in ProductTypes, u \in DOMAIN unit, fields \in SUBSET {"unit", "type"} :
       Becomes(c, [kind |-> "updateProduct", step |-> "update", product |-> p,
                   patch |-> Restrict([unit |-> u, type |-> type], fields)])
  /\ UNCHANGED catalogueVars

(* By id alone: a product removed meanwhile is changed all the same, and    *)
(* stays removed.                                                          *)
updateProduct(c) ==
  /\ At(c, "updateProduct", "update")
  /\ product' = [product EXCEPT ![req[c].product] = Patched(@, req[c].patch)]
  /\ Done(c)
  /\ UNCHANGED <<unit, recipe, porder, lot, supplier>>

removeProduct(p) ==
  /\ Immediate("removeProduct")
  /\ Active(product, p)
  /\ product' = [product EXCEPT ![p].active = FALSE]
  /\ UNCHANGED <<unit, recipe, porder, lot, supplier>>

restoreProduct(p) ==
  /\ Immediate("restoreProduct")
  /\ p \in DOMAIN product
  /\ product' = [product EXCEPT ![p].active = TRUE]
  /\ UNCHANGED <<unit, recipe, porder, lot, supplier>>

-----------------------------------------------------------------------------
(* Lots (batches) as the product module writes them.                        *)

(* A lot of any product that exists, an inactive one included. *)
createBatch(l, p) ==
  /\ Immediate("createBatch")
  /\ l \notin DOMAIN lot /\ p \in DOMAIN product
  /\ lot' = With(lot, l, [product |-> p, status |-> "pending", quantity |-> 0])
  /\ UNCHANGED <<unit, product, recipe, porder, supplier>>

(* The quantity of the inventory row is overwritten, whatever it reserves,  *)
(* and the totals of the batches table are not recomputed.                 *)
updateBatch(l) ==
  /\ Immediate("updateBatch")
  /\ l \in DOMAIN lot
  /\ \E st \in {lot[l].status, "pending", "available", "empty", "expired"},
        n \in LotQuantities \cup {lot[l].quantity} :
       lot' = [lot EXCEPT ![l].status = st, ![l].quantity = n]
  /\ UNCHANGED <<unit, product, recipe, porder, supplier>>

-----------------------------------------------------------------------------
(* Suppliers.                                                               *)

createSupplier(s) ==
  /\ Immediate("createSupplier")
  /\ s \notin DOMAIN supplier
  /\ supplier' = With(supplier, s, [active |-> TRUE])
  /\ UNCHANGED <<unit, product, recipe, porder, lot>>

(* findOne, then softDelete; update changes no field modelled here. *)
removeSupplier(s) ==
  /\ Immediate("removeSupplier")
  /\ Active(supplier, s)
  /\ supplier' = [supplier EXCEPT ![s].active = FALSE]
  /\ UNCHANGED <<unit, product, recipe, porder, lot>>

-----------------------------------------------------------------------------
(* Recipes (bills of materials).                                            *)

IsOutput(p) == Active(product, p) /\ product[p].type = "finished_good"

assertBomIngredientLines(output, items) ==
  \A p \in items :
    p # output /\ Active(product, p) /\ product[p].type = "raw_material"

(* Nothing asks whether the output has an active recipe already. *)
ArriveCreateRecipe(c, r, output, items) ==
  /\ r \notin DOMAIN recipe
  /\ IsOutput(output) /\ assertBomIngredientLines(output, items)
  /\ Becomes(c, [kind |-> "createRecipe", step |-> "insert", recipe |-> r,
                 row |-> [output |-> output, items |-> items, active |-> TRUE]])
  /\ UNCHANGED catalogueVars

createRecipe(c) ==
  /\ At(c, "createRecipe", "insert")
  /\ req[c].recipe \notin DOMAIN recipe     \* a fresh serial
  /\ recipe' = With(recipe, req[c].recipe, req[c].row)
  /\ Done(c)
  /\ UNCHANGED <<unit, product, porder, lot, supplier>>

Open(o) == porder[o].status \in {"draft", "pending", "in_progress"}

(* Mutant: drafts do not count. *)
BlockingOrders_NoDrafts(r) ==
  {o \in DOMAIN porder : porder[o].recipe = r
                         /\ porder[o].status \in {"pending", "in_progress"}}

(* countBlockingOrdersForRecipe *)
BlockingOrders(r) == {o \in DOMAIN porder : porder[o].recipe = r /\ Open(o)}

(* countOtherActiveRecipesForProduct *)
OtherActiveRecipes(p, r) ==
  {k \in DOMAIN recipe \ {r} : recipe[k].output = p /\ recipe[k].active}

(* patch holds the fields given; seen are the orders that existed when the  *)
(* request checked (a history variable, for the property below).           *)
ArriveUpdateRecipe(c, r, patch) ==
  LET row == Patched(recipe[r], patch)
  IN /\ DOMAIN patch \cap {"output", "items"} # {} => BlockingOrders(r) = {}
     /\ "output" \in DOMAIN patch =>
          IsOutput(row.output) /\ (row.active => OtherActiveRecipes(row.output, r) = {})
     /\ row.active /\ ~recipe[r].active => OtherActiveRecipes(row.output, r) = {}
     /\ "items" \in DOMAIN patch => assertBomIngredientLines(row.output, row.items)
     /\ Becomes(c, [kind |-> "updateRecipe", step |-> "update", recipe |-> r,
                    patch |-> patch, seen |-> DOMAIN porder])
     /\ UNCHANGED catalogueVars

updateRecipe(c) ==
  /\ At(c, "updateRecipe", "update")
  /\ recipe' = [recipe EXCEPT ![req[c].recipe] = Patched(@, req[c].patch)]
  /\ Done(c)
  /\ UNCHANGED <<unit, product, porder, lot, supplier>>

-----------------------------------------------------------------------------
(* Production orders, as far as recipes are concerned.                      *)

(* findActiveRecipesByOutputProductId: exactly one must be active. *)
ArriveProductionOrder(c, o, p) ==
  /\ o \notin DOMAIN porder /\ IsOutput(p)
  /\ \E r \in DOMAIN recipe : \E st \in {"draft", "pending"} :
       /\ {k \in DOMAIN recipe : recipe[k].output = p /\ recipe[k].active} = {r}
       /\ recipe[r].items # {}
       /\ Becomes(c, [kind |-> "createOrder", step |-> "insert", porder |-> o,
                      row |-> [recipe |-> r, status |-> st]])
  /\ UNCHANGED catalogueVars

createProductionOrder(c) ==
  /\ At(c, "createOrder", "insert")
  /\ req[c].porder \notin DOMAIN porder
  /\ porder' = With(porder, req[c].porder, req[c].row)
  /\ Done(c)
  /\ UNCHANGED <<unit, product, recipe, lot, supplier>>

(* startProduction and completeProduction; ProductionService has the rest. *)
startOrder(o) ==
  /\ Immediate("startOrder")
  /\ porder[o].status \in {"draft", "pending"}
  /\ IsOutput(recipe[porder[o].recipe].output)
  /\ porder' = [porder EXCEPT ![o].status = "in_progress"]
  /\ UNCHANGED <<unit, product, recipe, lot, supplier>>

completeOrder(o) ==
  /\ Immediate("completeOrder")
  /\ porder[o].status = "in_progress"
  /\ porder' = [porder EXCEPT ![o].status = "completed"]
  /\ UNCHANGED <<unit, product, recipe, lot, supplier>>

-----------------------------------------------------------------------------
RecipePatches ==
  {Restrict(row, fields) :
     row \in RecipeRow,
     fields \in (SUBSET {"output", "items", "active"}) \ {{}}}

ProductRequest(c) ==
  \/ \E u \in Units, name \in UnitNames :
       ArriveCreateUnit(c, u, name) \/ ArriveUpdateUnit(c, u, name)
  \/ \E p \in Products, u \in Units : ArriveCreateProduct(c, p, u)
  \/ \E p \in Products : ArriveUpdateProduct(c, p)
  \/ writeUnit(c) \/ createProduct(c) \/ updateProduct(c)

RecipeRequest(c) ==
  \/ /\ MayCall(c, "createRecipe")
     /\ \E r \in Recipes, p \in Products, S \in BillChoices :
          ArriveCreateRecipe(c, r, p, S)
  \/ /\ MayCall(c, "updateRecipe")
     /\ \E r \in DOMAIN recipe : \E patch \in RecipePatches :
          ArriveUpdateRecipe(c, r, patch)
  \/ /\ MayCall(c, "createOrder")
     /\ \E o \in ProductionOrders, p \in Products : ArriveProductionOrder(c, o, p)
  \/ createRecipe(c) \/ updateRecipe(c) \/ createProductionOrder(c)

CatalogueNext ==
  \/ \E u \in Units : removeUnit(u)
  \/ \E p \in Products : removeProduct(p) \/ restoreProduct(p)
  \/ \E l \in Lots : updateBatch(l) \/ \E p \in Products : createBatch(l, p)
  \/ \E s \in Suppliers : createSupplier(s) \/ removeSupplier(s)
  \/ \E o \in DOMAIN porder : startOrder(o) \/ completeOrder(o)
  \/ \E c \in Clients : ProductRequest(c) \/ RecipeRequest(c)

-----------------------------------------------------------------------------
(* Properties.                                                             *)

CatalogueTypeOK ==
  /\ \A u \in DOMAIN unit : unit[u] \in UnitRow
  /\ \A p \in DOMAIN product :
       product[p] \in ProductRow /\ product[p].unit \in DOMAIN unit
  /\ \A r \in DOMAIN recipe :
       /\ recipe[r] \in RecipeRow
       /\ recipe[r].items \cup {recipe[r].output} \subseteq DOMAIN product
  /\ \A o \in DOMAIN porder :
       porder[o] \in ProductionOrderRow /\ porder[o].recipe \in DOMAIN recipe
  /\ \A l \in DOMAIN lot : lot[l] \in LotRow /\ lot[l].product \in DOMAIN product
  /\ \A s \in DOMAIN supplier : supplier[s] \in SupplierRow

(* The bill of a production order is what its kitchen was told: a recipe    *)
(* changes its output or its ingredients only while no order that was there *)
(* when the change was checked is still open on it.  An order created after *)
(* the check (it is made outside the transaction that writes) is not seen.  *)
BillsChangeOnlyUnderNewOrders ==
  [][\A r \in DOMAIN recipe :
       \/ recipe'[r].output = recipe[r].output /\ recipe'[r].items = recipe[r].items
       \/ \E c \in Clients :
            /\ req[c].kind = "updateRecipe" /\ req[c].recipe = r
            /\ \A o \in req[c].seen : porder[o].recipe = r => ~Open(o)]_catalogueVars
=============================================================================
