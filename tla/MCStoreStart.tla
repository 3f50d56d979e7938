---------------------------- MODULE MCStoreStart ----------------------------
(* The store's calls, the migration that runs before the first of them on a   *)
(* directory of a development build, and the import of the servers of GETSSH  *)
(* 2.0 after it. A behaviour is one of the three: the calls begin from every  *)
(* state a migration or an earlier start leaves (Init of Store), the others   *)
(* from a store without a call.                                               *)

EXTENDS Store, Migration, LegacyImport

VARIABLE part

startUp == <<vars, migration, import, part>>

StartInit ==
  /\ part \in {"calls", "migration", "import"}
  /\ Init /\ (part # "calls" => cur[App] = None)
  /\ MigrationInit /\ (part # "migration" => layout = "json")
  /\ ImportInit /\ (part # "import" => source = NoFile /\ opens = "saved")

StartNext ==
  \/ part = "calls" /\ Next /\ UNCHANGED <<migration, import, part>>
  \/ part = "migration" /\ MigrationNext /\ UNCHANGED <<vars, import, part>>
  \/ part = "import" /\ ImportNext /\ UNCHANGED <<vars, migration, part>>

StartSpec ==
  /\ StartInit /\ [][StartNext]_startUp
  /\ \A t \in Threads : WF_vars(Proceed(t))
  /\ WF_migration(part = "migration" /\ MigrationGoesOn)

--------------------------------------------------
(* Properties *)

(* Every variable of the parts keeps to the values the code gives it. *)
StartTypeOK == TypeOK /\ MigrationTypeOK /\ ImportTypeOK

(* store.rs and legacy.rs: no crash, error or lock leaves a database under a  *)
(* key that is gone, or what a development build stored destroyed or half     *)
(* moved. legacyV2Profiles.ts: the servers of 2.0 come once, stay as the user *)
(* leaves them and get their port.                                            *)
DataStays ==
  /\ Reachable /\ NothingDestroyed /\ MovedWhole
  /\ NeverUnasked /\ PortOwed /\ ImportsStay

(* Every call returns, and a migration whose faults end lets the app start. *)
StartReturns == Returns /\ (part = "migration" => MigrationEnds)
=============================================================================
