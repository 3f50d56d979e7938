----------------------------- MODULE Migration -----------------------------
(* getssh-store's legacy.rs: the data of development builds moves into the    *)
(* keystore at a start, behind a backup that an attempt which failed puts     *)
(* back and one that was cut off puts back at the next start. A file is gone, *)
(* as the old build left it, or whole under its keystore key: copies, restores*)
(* and re-encryptions all end in one rename. Nothing but this program writes  *)
(* to the directory between two attempts.                                     *)

EXTENDS Naturals, FiniteSets

CONSTANTS
  OldWorkspaces,  \* the workspaces of the old data
  WithVault,      \* those with a password, in a vault.key the system can open
  MaxFaults       \* bound: crashes and failed steps

ASSUME MigrationConstants == WithVault \subseteq OldWorkspaces /\ MaxFaults \in Nat

VARIABLES
  layout,     \* what the old build left: one getssh.db, main.db, both, or JSON files
  encrypted,  \* main.db and getssh.db are under the app key
  files,      \* the data directory
  imported,   \* workspaces that main.db lists, of those in JSON files
  backup,     \* .keystore-migration-backup
  kept,       \* what .pre-keystore-kept holds
  keyring,    \* keyring.json exists
  at,         \* where the start is; "down" when the program does not run
  todo,       \* the files or workspaces the present loop has left
  keyKnown,   \* legacy_app_key found the app key
  resumed,    \* take_backup found a complete backup
  erred,      \* the present restore met an error
  moved,      \* migrated_workspaces of the report
  left,       \* workspaces a report named as failed or deferred
  cut,        \* an error ended the import of the JSON files
  faults

migration == <<layout, encrypted, files, imported, backup, kept, keyring, at, todo,
               keyKnown, resumed, erred, moved, left, cut, faults>>

MainDb == <<"main.db">>
Getssh == <<"getssh.db">>
Migrated == <<"getssh.db.migrated">>
AppKey == <<"app_key.enc">>
Db(w) == <<"workspace.db", w>>
Vault(w) == <<"vault.key", w>>
Databases == {MainDb, Getssh, Migrated} \cup {Db(w) : w \in OldWorkspaces}
Names == Databases \cup {AppKey} \cup {Vault(w) : w \in OldWorkspaces}

There(f, n) == f[n] # "none"
Present(f) == {n \in Names : There(f, n)}
Vaulted(w) == w \in WithVault /\ layout \in {"main", "both"}
Listed == IF layout = "json" THEN imported ELSE OldWorkspaces

NoBackup == [dir |-> FALSE, complete |-> FALSE, has |-> [n \in Names |-> "none"]]

OldFiles ==
  CASE layout = "getssh" -> {Getssh}
    [] layout = "main" -> {MainDb} \cup {Db(w) : w \in OldWorkspaces} \cup {Vault(w) : w \in WithVault}
    [] layout = "both" -> {Getssh, MainDb} \cup {Db(w) : w \in OldWorkspaces} \cup {Vault(w) : w \in WithVault}
    [] layout = "json" -> {}

MigrationInit ==
  /\ layout \in {"getssh", "main", "both", "json"}
  /\ encrypted \in BOOLEAN /\ (layout = "json" => ~encrypted)
  /\ files = [n \in Names |-> IF n \in OldFiles \cup (IF encrypted THEN {AppKey} ELSE {})
                              THEN "old" ELSE "none"]
  /\ imported = {} /\ backup = NoBackup /\ kept = {} /\ keyring = FALSE
  /\ at = "down" /\ todo = {} /\ keyKnown = FALSE /\ resumed = FALSE /\ erred = FALSE
  /\ moved = {} /\ left = {} /\ cut = FALSE /\ faults = 0

--------------------------------------------------
(* The steps, in the order of migrate_legacy and migrate_legacy_data *)

Goes(to) == at' = to
Known == <<layout, encrypted, keyKnown>>

NeedsMigration ==
  IF keyring THEN backup.dir \/ There(files, AppKey)
  ELSE There(files, MainDb) \/ There(files, Getssh) \/ There(files, AppKey) \/ layout = "json"

(* start_with; legacy_app_key and the head of take_backup. *)
StartMigration ==
  /\ at = "down"
  /\ keyKnown' = There(files, AppKey) /\ resumed' = backup.complete
  /\ moved' = {} /\ erred' = FALSE
  /\ IF ~NeedsMigration THEN Goes("open") /\ UNCHANGED <<todo, backup>>
     ELSE IF backup.complete THEN Goes("main") /\ UNCHANGED <<todo, backup>>
     ELSE Goes("backup") /\ todo' = Present(files) /\ backup' = [backup EXCEPT !.dir = TRUE]
  /\ UNCHANGED <<layout, encrypted, files, imported, kept, keyring, left, cut, faults>>

(* take_backup: before its mark nothing has moved, so a copy is taken again. *)
TakeBackup ==
  /\ at = "backup"
  /\ \/ \E n \in todo : /\ backup' = [backup EXCEPT !.has[n] = files[n]]
                        /\ todo' = todo \ {n} /\ UNCHANGED at
     \/ todo = {} /\ backup' = [backup EXCEPT !.complete = TRUE] /\ Goes("main") /\ UNCHANGED todo
  /\ UNCHANGED <<Known, files, imported, kept, keyring, resumed, erred, moved, left, cut, faults>>

Restoring(to) == Goes(to) /\ todo' = Present(backup.has) /\ erred' = FALSE

(* A slip: an attempt that was cut off goes on with the files as it left them.*)
FindMainAsLeft ==
  /\ at = "main" /\ keyring' = TRUE
  /\ IF files[MainDb] = "new" THEN Goes("mark") ELSE Goes("prepare")
  /\ UNCHANGED <<Known, files, imported, backup, kept, todo, resumed, erred, moved, left, cut, faults>>

FindMain ==
  /\ at = "main" /\ keyring' = TRUE
  /\ IF files[MainDb] = "new" THEN Goes("mark") /\ UNCHANGED <<todo, erred>>
     ELSE IF resumed THEN Restoring("putBack")
     ELSE Goes("prepare") /\ UNCHANGED <<todo, erred>>
  /\ UNCHANGED <<Known, files, imported, backup, kept, resumed, moved, left, cut, faults>>

(* restore_backup: what has no copy was made by the attempt; then copy_back. *)
Made == {n \in Databases : There(files, n) /\ ~There(backup.has, n)}

(* A slip: in any order. *)
AnyMade == Made

(* names() sorts, so main.db goes before the workspaces. *)
FirstMade ==
  IF Migrated \in Made THEN {Migrated} ELSE IF MainDb \in Made THEN {MainDb} ELSE Made

RestoreBackup ==
  /\ at \in {"putBack", "restoring"}
  /\ \/ \E n \in FirstMade : /\ files' = [files EXCEPT ![n] = "none"]
                             /\ imported' = IF n = MainDb THEN {} ELSE imported
                             /\ UNCHANGED <<todo, at, erred, faults>>
     \/ /\ Made = {} /\ UNCHANGED <<at, imported>>
        /\ \E n \in todo :
             /\ todo' = todo \ {n}
             /\ \/ files' = [files EXCEPT ![n] = backup.has[n]] /\ UNCHANGED <<erred, faults>>
                \/ faults < MaxFaults /\ faults' = faults + 1 /\ erred' = TRUE /\ UNCHANGED files
     \/ /\ Made = {} /\ todo = {} /\ UNCHANGED <<files, imported, faults>>
        /\ IF at = "restoring" THEN Goes("down") /\ UNCHANGED <<todo, erred>>
           ELSE IF erred THEN Restoring("restoring")
           ELSE Goes("prepare") /\ UNCHANGED <<todo, erred>>
  /\ UNCHANGED <<Known, backup, kept, keyring, resumed, moved, left, cut>>

LegacyOpens(n) == files[n] = "old" /\ (encrypted => keyKnown)

(* prepare_main: the split, the import, or neither. *)
PrepareMain ==
  /\ at = "prepare"
  /\ IF There(files, MainDb)
     THEN LegacyOpens(MainDb) /\ Goes("move") /\ UNCHANGED <<files, imported, todo, cut>>
     ELSE IF There(files, Getssh)
     THEN LegacyOpens(Getssh) /\ Goes("split") /\ todo' = OldWorkspaces /\ UNCHANGED <<files, imported, cut>>
     ELSE /\ Goes("import") /\ todo' = OldWorkspaces
          /\ files' = [files EXCEPT ![MainDb] = "old"] /\ imported' = {} /\ cut' = FALSE
  /\ UNCHANGED <<Known, backup, kept, keyring, resumed, erred, moved, left, faults>>

(* split_getssh_db's renames: the workspaces, getssh.db away, main.db last. *)
Split ==
  /\ at = "split"
  /\ \/ \E w \in todo : files' = [files EXCEPT ![Db(w)] = "old"] /\ todo' = todo \ {w} /\ UNCHANGED at
     \/ /\ todo = {} /\ There(files, Getssh) /\ UNCHANGED <<todo, at>>
        /\ files' = [files EXCEPT ![Getssh] = "none", ![Migrated] = "old"]
     \/ /\ todo = {} /\ ~There(files, Getssh) /\ Goes("move") /\ UNCHANGED todo
        /\ files' = [files EXCEPT ![MainDb] = "old"]
  /\ UNCHANGED <<Known, imported, backup, kept, keyring, resumed, erred, moved, left, cut, faults>>

(* import_json: an error in it ends it, perhaps between a row and its         *)
(* database, and the migration goes on.                                       *)
ImportJson ==
  /\ at = "import"
  /\ \/ \E w \in todo : /\ imported' = imported \cup {w} /\ todo' = todo \ {w}
                        /\ files' = [files EXCEPT ![Db(w)] = "old"] /\ UNCHANGED <<at, cut, faults>>
     \/ todo = {} /\ Goes("move") /\ UNCHANGED <<files, imported, todo, cut, faults>>
     \/ /\ todo # {} /\ faults < MaxFaults /\ faults' = faults + 1 /\ cut' = TRUE
        /\ imported' \in {imported} \cup {imported \cup {w} : w \in todo}
        /\ Goes("move") /\ UNCHANGED <<files, todo>>
  /\ UNCHANGED <<Known, backup, kept, keyring, resumed, erred, moved, left>>

MoveMain ==
  /\ at = "move" /\ files[MainDb] = "old" /\ Goes("mark")
  /\ files' = [files EXCEPT ![MainDb] = "new"]
  /\ UNCHANGED <<Known, imported, backup, kept, keyring, todo, resumed, erred, moved, left, cut, faults>>

(* workspace_rows and mark_adopting *)
MarkAdopting ==
  /\ at = "mark" /\ Goes("rows") /\ todo' = Listed
  /\ UNCHANGED <<Known, files, imported, backup, kept, keyring, resumed, erred, moved, left, cut, faults>>

(* migrate_legacy_row; one that fails stays as it was and stops nothing, and  *)
(* one with a password whose vault key is gone is left to its owner.          *)
MigrateRow ==
  /\ at = "rows"
  /\ \/ \E w \in todo :
          /\ todo' = todo \ {w} /\ UNCHANGED at
          /\ \/ /\ Vaulted(w) => There(files, Vault(w))
                /\ files' = [files EXCEPT ![Db(w)] = IF @ = "none" THEN "none" ELSE "new"]
                /\ moved' = moved \cup {w} /\ UNCHANGED <<left, faults>>
             \/ /\ Vaulted(w) /\ ~There(files, Vault(w))
                /\ left' = left \cup {w} /\ UNCHANGED <<files, moved, faults>>
             \/ /\ faults < MaxFaults /\ faults' = faults + 1
                /\ left' = left \cup {w} /\ UNCHANGED <<files, moved>>
     \/ /\ todo = {} /\ Goes("flags") /\ UNCHANGED <<todo, files, moved, left, faults>>
  /\ UNCHANGED <<Known, imported, backup, kept, keyring, resumed, erred, cut>>

(* update_flags, then the vault keys of what moved. *)
RemoveVaults ==
  /\ at \in {"flags", "vaults"}
  /\ \/ /\ at = "flags" /\ Goes("vaults") /\ todo' = {w \in moved : There(files, Vault(w))}
        /\ UNCHANGED files
     \/ /\ at = "vaults" /\ UNCHANGED at
        /\ \E w \in todo : files' = [files EXCEPT ![Vault(w)] = "none"] /\ todo' = todo \ {w}
     \/ at = "vaults" /\ todo = {} /\ Goes("keys") /\ UNCHANGED <<todo, files>>
  /\ UNCHANGED <<Known, imported, backup, kept, keyring, resumed, erred, moved, left, cut, faults>>

KeepAway(n) == kept' = kept \cup {n} /\ files' = [files EXCEPT ![n] = "none"]

(* A slip: getssh.db is kept before the key that opens it. *)
KeepGetsshFirst ==
  /\ at = "keys"
  /\ IF There(files, Getssh) THEN KeepAway(Getssh) /\ UNCHANGED at
     ELSE files' = [files EXCEPT ![AppKey] = "none"] /\ UNCHANGED kept /\ Goes("migrated")
  /\ UNCHANGED <<Known, imported, backup, keyring, todo, resumed, erred, moved, left, cut, faults>>

(* keep_unsplit, the key first; without a getssh.db its key is removed. *)
KeepOrRemoveKeys ==
  /\ at = "keys"
  /\ IF There(files, Getssh)
     THEN IF There(files, AppKey) THEN KeepAway(AppKey) /\ UNCHANGED at
          ELSE KeepAway(Getssh) /\ Goes("migrated")
     ELSE files' = [files EXCEPT ![AppKey] = "none"] /\ UNCHANGED kept /\ Goes("migrated")
  /\ UNCHANGED <<Known, imported, backup, keyring, todo, resumed, erred, moved, left, cut, faults>>

RemoveMigrated ==
  /\ at = "migrated" /\ Goes("drop") /\ files' = [files EXCEPT ![Migrated] = "none"]
  /\ UNCHANGED <<Known, imported, backup, kept, keyring, todo, resumed, erred, moved, left, cut, faults>>

(* drop_backup renames it away before it deletes it. *)
DropBackup ==
  /\ at = "drop" /\ Goes("open") /\ backup' = NoBackup
  /\ UNCHANGED <<Known, files, imported, kept, keyring, todo, resumed, erred, moved, left, cut, faults>>

(* open_main creates a main.db that is missing. *)
OpenStore ==
  /\ at = "open" /\ Goes("started")
  /\ keyring' = TRUE
  /\ files' = [files EXCEPT ![MainDb] = IF @ = "none" THEN "new" ELSE @]
  /\ UNCHANGED <<Known, imported, backup, kept, todo, resumed, erred, moved, left, cut, faults>>

(* An error once the backup is complete puts it back; before that, or when    *)
(* the backup cannot be dropped, the start just fails.                        *)
MayFail == {"main", "prepare", "split", "move", "mark", "flags", "vaults", "keys", "migrated"}
Unreadable == at = "prepare" /\ (There(files, MainDb) \/ There(files, Getssh))
              /\ ~LegacyOpens(IF There(files, MainDb) THEN MainDb ELSE Getssh)
StepFails ==
  /\ \/ Unreadable /\ UNCHANGED faults
     \/ at \in MayFail \cup {"backup", "drop"} /\ faults < MaxFaults /\ faults' = faults + 1
  /\ IF at \in MayFail THEN Restoring("restoring") ELSE Goes("down") /\ UNCHANGED <<todo, erred>>
  /\ UNCHANGED <<Known, files, imported, backup, kept, keyring, resumed, moved, left, cut>>

Stops ==
  /\ at # "down" /\ faults < MaxFaults /\ faults' = faults + 1
  /\ Goes("down") /\ todo' = {} /\ moved' = {}
  /\ UNCHANGED <<Known, files, imported, backup, kept, keyring, resumed, erred, left, cut>>

MigrationStep ==
  \/ StartMigration \/ TakeBackup \/ FindMain \/ RestoreBackup \/ PrepareMain \/ Split
  \/ ImportJson \/ MoveMain \/ MarkAdopting \/ MigrateRow \/ RemoveVaults
  \/ KeepOrRemoveKeys \/ RemoveMigrated \/ DropBackup \/ OpenStore

MigrationNext == MigrationStep \/ StepFails \/ Stops

(* The user starts the program again, and the start goes on. *)
MigrationGoesOn == MigrationStep \/ (Unreadable /\ StepFails)
MigrationFairness == WF_migration(MigrationGoesOn)

MigrationSpec == MigrationInit /\ [][MigrationNext]_migration /\ MigrationFairness

--------------------------------------------------
(* Properties *)

MigrationTypeOK ==
  /\ files \in [Names -> {"none", "old", "new"}] /\ backup.has \in [Names -> {"none", "old"}]
  /\ kept \subseteq {AppKey, Getssh} /\ imported \subseteq OldWorkspaces
  /\ faults \in 0..MaxFaults

(* At any moment everything the old build had is on the disk, with the key    *)
(* that opens it, in place or in the backup that the next start puts back.    *)
Everywhere == Present(files) \cup Present(backup.has) \cup kept
Readable(n) == n \in Everywhere /\ (encrypted => AppKey \in Everywhere)
NothingDestroyed ==
  /\ layout = "json" \/ files[MainDb] = "new" \/ Readable(MainDb) \/ Readable(Getssh)
     \/ Readable(Migrated)
  /\ layout = "both" => Readable(Getssh)
  /\ layout \in {"main", "both"} =>
       \A w \in OldWorkspaces : Db(w) \in Everywhere

(* Once the app has started, all of it is where the app looks: main.db under  *)
(* its new key, each workspace too unless it was reported, nothing skipped,   *)
(* no secret of the old build left beside it, and it never migrates again.    *)
MovedWhole ==
  at = "started" =>
    /\ files[MainDb] = "new"
    /\ cut \/ Listed = OldWorkspaces
    /\ \A w \in Listed :
         \/ files[Db(w)] = "new" /\ (w \in left \/ ~There(files, Vault(w)))
         \/ files[Db(w)] = "old" /\ w \in left
         \/ cut /\ ~There(files, Db(w))
    /\ ~There(files, AppKey) /\ ~There(files, Getssh) /\ ~There(files, Migrated)
    /\ ~backup.dir /\ ~NeedsMigration

(* With faults that end, the app starts. *)
MigrationEnds == <>[](at = "started")
=============================================================================
