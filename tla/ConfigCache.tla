------------------------------ MODULE ConfigCache ------------------------------
(***************************************************************************)
(* system-config: settings in a table and in a map of the process.  A read *)
(* that misses and an update both set the map after they have awaited the  *)
(* database, so the order of the writes to the table and of the writes to  *)
(* the map may differ.                                                     *)
(***************************************************************************)
EXTENDS Requests

CONSTANTS Keys, Values, SeedSettings   \* settings at the start

Settings == [Keys -> Values \cup {{}}]     \* {} where there is none

ASSUME ConfigAssumption == SeedSettings \in Settings /\ {} \notin Values

VARIABLES
  setting,     \* system_configs: key -> value
  configCache, \* the map: key -> value
  crossed      \* keys written while another request was about to cache an
               \* older value (history, since the process started)

configVars == <<setting, configCache, crossed>>

ConfigInit ==
  /\ setting = SeedSettings
  /\ configCache = SeedSettings       \* onModuleInit
  /\ crossed = {}

(* A request that has the answer of the database and will cache it next. *)
Caching(c, k) == req[c].kind \in {"getConfig", "updateConfig"}
                 /\ req[c].step = "cache" /\ req[c].key = k

(* getConfigValue, getValues: only a miss asks the database, and a missing  *)
(* row is not cached.                                                      *)
ArriveGet(c, k) ==
  /\ configCache[k] = {}
  /\ Becomes(c, [kind |-> "getConfig", step |-> "find", key |-> k])
  /\ UNCHANGED configVars

findByKey(c) ==
  /\ At(c, "getConfig", "find")
  /\ IF setting[req[c].key] = {} THEN Done(c)
     ELSE req' = [req EXCEPT ![c] = [kind |-> "getConfig", step |-> "cache",
                                     key |-> req[c].key,
                                     value |-> setting[req[c].key]]]
  /\ UNCHANGED configVars

(* Whether the row exists decides between UPDATE and an upsert, with the    *)
(* same effect, for rows are never deleted.                                *)
ArriveUpdateConfig(c, k, v) ==
  /\ Becomes(c, [kind |-> "updateConfig", step |-> "write", key |-> k, value |-> v])
  /\ UNCHANGED configVars

writeSetting(c) ==
  /\ At(c, "updateConfig", "write")
  /\ LET k == req[c].key
     IN /\ setting' = [setting EXCEPT ![k] = req[c].value]
        /\ crossed' = IF \E d \in Clients \ {c} : Caching(d, k)
                      THEN crossed \cup {k} ELSE crossed
  /\ GoesTo(c, "cache")
  /\ UNCHANGED configCache

(* Mutant: an update leaves the map to the reads. *)
cacheValue_ReadsOnly(c) ==
  /\ At(c, "getConfig", "cache") \/ At(c, "updateConfig", "cache")
  /\ configCache' = IF req[c].kind = "updateConfig" THEN configCache
                    ELSE [configCache EXCEPT ![req[c].key] = req[c].value]
  /\ Done(c)
  /\ UNCHANGED <<setting, crossed>>

cacheValue(c) ==
  /\ At(c, "getConfig", "cache") \/ At(c, "updateConfig", "cache")
  /\ configCache' = [configCache EXCEPT ![req[c].key] = req[c].value]
  /\ Done(c)
  /\ UNCHANGED <<setting, crossed>>

(* A crash loses the requests and the map; refreshCache reads the table.    *)
Restart ==
  /\ Serves("restart")
  /\ req' = [c \in Clients |-> Idle]
  /\ configCache' = setting
  /\ crossed' = {}
  /\ UNCHANGED setting

ConfigNext ==
  \/ \E c \in Clients :
       \/ \E k \in Keys : ArriveGet(c, k) \/ \E v \in Values : ArriveUpdateConfig(c, k, v)
       \/ findByKey(c) \/ writeSetting(c) \/ cacheValue(c)
  \/ Restart

-----------------------------------------------------------------------------
(* Properties.                                                             *)

ConfigTypeOK ==
  /\ setting \in Settings /\ configCache \in Settings
  /\ \A k \in Keys : configCache[k] # {} => setting[k] # {}

(* What the process answers from its map is what the table says, once the   *)
(* requests on the key are answered: unless an update of the key was written *)
(* while another request was about to cache what it had read before it, and *)
(* then until the restart.                                                 *)
StaleOnlyAfterCrossing ==
  \A k \in Keys :
    \/ k \in crossed
    \/ configCache[k] \in {{}, setting[k]}
    \/ \E c \in Clients : Caching(c, k)
=============================================================================
