----------------------------- MODULE McpConfigs -----------------------------
(* Where McpManager.ts keeps one server: its command or address in            *)
(* mcp_servers.json, its tokens (environment, headers) in the store, both     *)
(* merged in memory once the data is open. The program may stop between the   *)
(* two writes of a save, the app locks and unlocks, and the file may be       *)
(* edited while the program is not running. A token is named by the target it *)
(* was entered for.                                                           *)

EXTENDS Naturals

CONSTANTS
  Targets,  \* commands and addresses
  None      \* no token, no server

ASSUME ConfigConstants == None \notin Targets

VARIABLES
  file,     \* mcp_servers.json: [target, token]; a token only from an older version
  stored,   \* the app secret: [target, token]; target None: saved before it was recorded
  config,   \* serverConfigs in memory
  alive,    \* the program runs
  ready,    \* appLock.isReady()
  loaded,   \* secretsLoaded
  saving,   \* how far saveConfigs is: "no", "store" (the store is written, the file is not)
  dirty     \* history: a save failed, was cut off, or the file was edited by hand since

configs == <<file, stored, config, alive, ready, loaded, saving, dirty>>

NoServer == [target |-> None, token |-> None]
Servers == [target : Targets, token : Targets \union {None}]

ConfigsInit ==
  /\ file \in {f \in Servers : f.token \in {None, f.target}}
  /\ stored \in {NoServer} \union {[target |-> t, token |-> file.target] : t \in {None, file.target}}
  /\ config = NoServer /\ alive = FALSE /\ ready = FALSE /\ loaded = FALSE
  /\ saving = "no" /\ dirty = FALSE

(* storeOpen: the stored tokens were merged in and the data is open. *)
StoreOpen == loaded /\ ready

(* The first half of saveConfigs: the tokens with the target they belong to,  *)
(* or nothing to keep, into the store; a save that would put tokens into the  *)
(* file while the store is closed is refused.                                 *)
Save(c) ==
  IF StoreOpen
  THEN /\ saving' = "store" /\ UNCHANGED dirty
       /\ stored' = IF c.token = None THEN NoServer ELSE c
  ELSE /\ UNCHANGED stored
       /\ IF c.token = None THEN saving' = "store" /\ UNCHANGED dirty
                            ELSE saving' = "no" /\ dirty' = TRUE

(* The second half: the file, without tokens, or an error. *)
WriteFile ==
  /\ alive /\ saving = "store" /\ saving' = "no"
  /\ \/ file' = [config EXCEPT !.token = None] /\ UNCHANGED dirty
     \/ UNCHANGED file /\ dirty' = TRUE
  /\ UNCHANGED <<stored, config, alive, ready, loaded>>

Free == alive /\ saving = "no"

(* loadConfigs, at the start. *)
LoadConfigs ==
  /\ ~alive /\ alive' = TRUE /\ config' = file
  /\ ready' = FALSE /\ loaded' = FALSE /\ saving' = "no"
  /\ UNCHANGED <<file, stored, dirty>>

(* loadSecrets, once the data is open: the file's own tokens win and are      *)
(* moved; stored tokens are merged in for the target they were saved for,     *)
(* those without a target once, and dropped for another.                      *)
LoadSecrets ==
  /\ Free /\ ready /\ ~loaded /\ loaded' = TRUE
  /\ LET merged == [config EXCEPT !.token = stored.token]
         moved == config.token # None
         once == ~moved /\ stored # NoServer /\ stored.target = None IN
       CASE config = NoServer \/ (~moved /\ stored = NoServer) ->
              UNCHANGED <<config, stored, saving>>
         [] moved -> config' = config /\ stored' = config /\ saving' = "store"
         [] once -> config' = merged /\ stored' = merged /\ saving' = "store"
         [] ~moved /\ stored.target = config.target ->
              config' = merged /\ UNCHANGED <<stored, saving>>
         [] OTHER -> stored' = NoServer /\ UNCHANGED <<config, saving>>
  /\ UNCHANGED <<file, alive, ready, dirty>>

(* A slip: tokens are carried over to the new target. *)
UpdateKeeping ==
  /\ Free /\ config # NoServer
  /\ \E t \in Targets, supplied \in BOOLEAN :
       /\ t # config.target => StoreOpen
       /\ LET next == [target |-> t, token |-> IF supplied THEN t ELSE config.token] IN
            config' = next /\ Save(next)
  /\ UNCHANGED <<file, alive, ready, loaded>>

(* updateServer: another command or address needs the store open and keeps    *)
(* no token that the update does not set again.                               *)
Update ==
  /\ Free /\ config # NoServer
  /\ \E t \in Targets, supplied \in BOOLEAN :
       /\ t # config.target => StoreOpen
       /\ LET next == [target |-> t, token |-> IF supplied THEN t
                                              ELSE IF t = config.target THEN config.token ELSE None] IN
            config' = next /\ Save(next)
  /\ UNCHANGED <<file, alive, ready, loaded>>

(* The lock screen comes and goes (AppLock). *)
LockChanges ==
  /\ Free /\ ready' = ~ready
  /\ UNCHANGED <<file, stored, config, alive, loaded, saving, dirty>>

(* The program stops, also between the store and the file. *)
ProgramStops ==
  /\ alive /\ alive' = FALSE /\ config' = NoServer
  /\ dirty' = (dirty \/ saving # "no")
  /\ UNCHANGED <<file, stored, ready, loaded, saving>>

(* mcp_servers.json is edited by hand, the tokens it holds with it. Tokens    *)
(* stored without a target are kept once whatever it says, so they are left   *)
(* out here.                                                                  *)
EditFile ==
  /\ ~alive /\ ~(stored # NoServer /\ stored.target = None)
  /\ \E t \in Targets, token \in BOOLEAN : file' = [target |-> t, token |-> IF token THEN t ELSE None]
  /\ dirty' = TRUE
  /\ UNCHANGED <<stored, config, alive, ready, loaded, saving>>

ConfigsNext ==
  \/ LoadConfigs \/ LoadSecrets \/ Update \/ WriteFile \/ LockChanges \/ ProgramStops \/ EditFile

ConfigsSpec == ConfigsInit /\ [][ConfigsNext]_configs

--------------------------------------------------
(* Properties *)

ConfigsTypeOK ==
  /\ file \in Servers /\ config \in Servers \union {NoServer}
  /\ stored \in {NoServer} \union [target : Targets \union {None}, token : Targets]
  /\ {alive, ready, loaded, dirty} \subseteq BOOLEAN /\ saving \in {"no", "store"}

(* Tokens go only to the command or address they were entered for, whatever   *)
(* was edited, locked, cut off or failed in between; and a save that          *)
(* succeeded is complete: both places hold what memory holds.                 *)
TokensStay ==
  /\ config.token # None => config.token = config.target
  /\ alive /\ loaded /\ saving = "no" /\ ~dirty
       => file.target = config.target /\ stored.token = config.token /\ file.token = None
=============================================================================
