----------------------------- MODULE Administration -----------------------------
(***************************************************************************)
(* The administration services and the books of the stock, side by side.   *)
(* They share the clients and no state: a scenario (the endpoints a        *)
(* behaviour exercises) belongs to one of them, and the others stand       *)
(* still.                                                                  *)
(***************************************************************************)
EXTENDS AccountService, Catalogue, Logistics, ConfigCache, StockReports

vars == <<req, served, accountVars, catalogueVars, logisticsVars, configVars,
          ledgerVars>>

Init ==
  /\ RequestsInit
  /\ AccountInit /\ CatalogueInit /\ LogisticsInit /\ ConfigInit
  /\ LedgerInit

(* Between the answer of the database and the map nothing can fail but the  *)
(* process, and then Restart.                                              *)
Fail(c) == Abort(c) /\ req[c].step # "cache"

Next ==
  \/ AccountNext /\ UNCHANGED <<catalogueVars, logisticsVars, configVars, ledgerVars>>
  \/ CatalogueNext /\ UNCHANGED <<accountVars, logisticsVars, configVars, ledgerVars>>
  \/ LogisticsNext /\ UNCHANGED <<accountVars, catalogueVars, configVars, ledgerVars>>
  \/ ConfigNext /\ UNCHANGED <<accountVars, catalogueVars, logisticsVars, ledgerVars>>
  \/ (LedgerNext \/ ReaderNext)
     /\ UNCHANGED <<accountVars, catalogueVars, logisticsVars, configVars>>
  \/ \E c \in Clients :
       Fail(c) /\ UNCHANGED <<accountVars, catalogueVars, logisticsVars, configVars,
                              ledgerVars>>

(* The jobs of the scheduler are run every night. *)
Spec ==
  /\ Init /\ [][Next]_vars
  /\ WF_vars(clearExpiredTokens
             /\ UNCHANGED <<catalogueVars, logisticsVars, configVars, ledgerVars>>)

(* Every variable has its type, and every reference its row. *)
TypeOK ==
  /\ DOMAIN req = Clients /\ served \in Scenarios
  /\ AccountTypeOK /\ CatalogueTypeOK /\ LogisticsTypeOK /\ ConfigTypeOK
  /\ LedgerTypeOK
=============================================================================
