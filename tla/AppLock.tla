------------------------------ MODULE AppLock ------------------------------
(* The app lock of the Electron main process (security/appLock.ts): the phase *)
(* the windows see, over a store that opens and closes on threads of its own. *)
(* JavaScript runs one turn at a time, but the store's asynchronous calls run *)
(* on pool threads: between two synchronous calls of one turn (lock reads the *)
(* state, then closes the store) a pool thread may have changed the store.    *)
(* The store is what Store.tla and Keystore.tla refine; here it is open or    *)
(* closed, with or without a master password.                                 *)

EXTENDS Naturals, FiniteSets

CONSTANTS
  Unlocks,   \* unlock requests in flight at a time (windows, a reloaded window)
  Waiters,   \* callers of whenOpen (McpManager, appSecrets)
  Jobs,      \* the changes of the master password that may run: "set", "remove"
  None       \* no request

ASSUME AppLockConstants ==
  /\ None \notin Unlocks
  /\ Jobs \subseteq {"set", "remove"}

VARIABLES
  phase,         \* LockPhase
  lockRequested, \* a lock asked for while the start or an unlock was finishing
  starting,      \* how far start() is
  v2Import,      \* the import of the GETSSH 2.0 servers: "no", "running", "done"
  request,       \* the stage of each unlock request
  previous,      \* the request each one waits for
  unlocking,     \* this.unlocking: the last request of the chain
  locking,       \* how far the running lock() is
  waiting,       \* the callers whose whenOpen is pending (settledWaiters)
  master,        \* the store has a master password
  open,          \* AppState.phase of the store is 'ready'
  deviceLost,    \* the device key of this installation is gone
  job,           \* a change of the master password on a pool thread
  owed           \* history: a lock was asked for while the data was open, and
                 \* neither carried out nor followed by an unlock

store == <<master, open, deviceLost, job>>
vars == <<phase, lockRequested, starting, v2Import, request, previous, unlocking,
          locking, waiting, master, open, deviceLost, job, owed>>

Idle == "idle"
Phases == {"starting", "locked", "ready", "error"}
Stages == {Idle, "queued", "asking", "opening", "opened", "refused", "importing"}

Init ==
  /\ phase = "starting" /\ starting = "store" /\ v2Import = "no"
  /\ lockRequested = FALSE /\ locking = "no" /\ owed = FALSE
  /\ request = [u \in Unlocks |-> Idle]
  /\ previous = [u \in Unlocks |-> None]
  /\ unlocking = None /\ waiting = {} /\ job = Idle
  /\ master \in BOOLEAN /\ deviceLost \in BOOLEAN /\ open = FALSE

--------------------------------------------------
(* Phases *)

(* The phases that resolve whenOpen. *)
Settles(p) == p \in {"ready", "error"}

(* The phase changes; a request to lock outlives only 'ready'. *)
SetPhase(p) ==
  /\ phase' = p
  /\ lockRequested' = (lockRequested /\ p = "ready")
  /\ waiting' = IF Settles(p) THEN {} ELSE waiting

(* A turn of JavaScript may begin: no other turn is in the middle of lock(). *)
Turn == locking = "no"

(* whenOpen: resolved at once, or pending until a phase settles. *)
WhenOpen(w) ==
  /\ Turn /\ ~Settles(phase) /\ w \notin waiting
  /\ waiting' = waiting \union {w}
  /\ UNCHANGED <<phase, lockRequested, starting, v2Import, request, previous,
                 unlocking, locking, owed, store>>

--------------------------------------------------
(* The end of a start or of an unlock *)

(* The data is open: the 2.0 import runs once, every caller waits for it. *)
AwaitImport == v2Import' = IF v2Import = "no" THEN "running" ELSE v2Import

ImportEnds ==
  /\ Turn /\ v2Import = "running" /\ v2Import' = "done"
  /\ UNCHANGED <<phase, lockRequested, starting, request, previous, unlocking,
                 locking, waiting, owed, store>>

(* becomeReady after the import: a lock that came in meanwhile keeps the app  *)
(* locked behind a master password, and otherwise runs right after 'ready'.   *)
BecomeReady ==
  IF lockRequested /\ master
  THEN /\ lockRequested' = FALSE /\ locking' = "protected"
       /\ UNCHANGED <<phase, waiting>>
  ELSE /\ phase' = "ready" /\ waiting' = {} /\ lockRequested' = FALSE
       /\ locking' = IF lockRequested THEN "asked" ELSE "no"

(* lockApp: the store drops what a password protects; without a master        *)
(* password the app stays open.                                               *)
LockApp == /\ open' = (open /\ ~master)
           /\ owed' = FALSE

(* dropLockRequest: an unlock that failed leaves nothing open behind it. *)
DropLockRequest ==
  /\ lockRequested' = FALSE
  /\ IF lockRequested THEN LockApp ELSE UNCHANGED <<open, owed>>

--------------------------------------------------
(* start *)

(* store.start on its thread: without a master password the device key opens  *)
(* the data by itself; any failure leaves it closed.                          *)
StoreStarts ==
  /\ starting = "store"
  /\ \E outcome \in {"answered", "failed"} :
       /\ starting' = outcome
       /\ open' = (outcome = "answered" /\ ~master /\ ~deviceLost)
  /\ UNCHANGED <<phase, lockRequested, v2Import, request, previous, unlocking,
                 locking, waiting, master, deviceLost, job, owed>>

(* start resumes: ready if the store opened; locked if it did not or if the   *)
(* device key is lost (the recovery code opens it); otherwise an error.       *)
StartResumes ==
  /\ Turn /\ starting \in {"answered", "failed"}
  /\ IF starting = "answered" /\ open
     THEN /\ starting' = "importing" /\ AwaitImport
          /\ UNCHANGED <<phase, lockRequested, waiting>>
     ELSE /\ starting' = "done"
          /\ SetPhase(IF starting = "answered" \/ deviceLost THEN "locked" ELSE "error")
          /\ UNCHANGED v2Import
  /\ UNCHANGED <<request, previous, unlocking, locking, owed, store>>

StartEnds ==
  /\ Turn /\ starting = "importing" /\ v2Import = "done"
  /\ starting' = "done" /\ BecomeReady
  /\ UNCHANGED <<v2Import, request, previous, unlocking, owed, store>>

--------------------------------------------------
(* unlock *)

(* A slip: every request starts at once. *)
UnlockAtOnce(u) ==
  /\ Turn /\ request[u] = Idle
  /\ request' = [request EXCEPT ![u] = "queued"]
  /\ unlocking' = u
  /\ UNCHANGED <<phase, lockRequested, starting, v2Import, previous, locking, waiting, owed, store>>

(* A request joins the chain behind the one in progress. *)
Unlock(u) ==
  /\ Turn /\ request[u] = Idle
  /\ request' = [request EXCEPT ![u] = "queued"]
  /\ previous' = [previous EXCEPT ![u] = unlocking]
  /\ unlocking' = u
  /\ UNCHANGED <<phase, lockRequested, starting, v2Import, locking, waiting, owed, store>>

(* A slip: the chain is not cut when its last request ends. *)
ReturnUncut(u) ==
  /\ request' = [request EXCEPT ![u] = Idle]
  /\ previous' = [v \in Unlocks |-> IF previous[v] = u \/ v = u THEN None ELSE previous[v]]
  /\ UNCHANGED unlocking

(* The request ends; the one behind it may go on. *)
Return(u) ==
  /\ request' = [request EXCEPT ![u] = Idle]
  /\ previous' = [v \in Unlocks |-> IF previous[v] = u \/ v = u THEN None ELSE previous[v]]
  /\ unlocking' = IF unlocking = u THEN None ELSE unlocking

(* The first lines of unlockOnce: nothing to do unless the app is locked. *)
MayAsk == phase = "locked"

UnlockOnce(u) ==
  /\ Turn /\ request[u] = "queued" /\ previous[u] = None
  /\ IF MayAsk
     THEN /\ request' = [request EXCEPT ![u] = "asking"]
          /\ UNCHANGED <<previous, unlocking>>
     ELSE Return(u)
  /\ UNCHANGED <<phase, lockRequested, starting, v2Import, locking, waiting, owed, store>>

(* The store's unlock_app on its thread: the credentials open the app, and    *)
(* what follows (a pending rotation on a full disk) may still fail, which     *)
(* locks it again.                                                            *)
StoreOpens(u) ==
  /\ request[u] = "asking"
  /\ request' = [request EXCEPT ![u] = "opening"]
  /\ open' = TRUE /\ deviceLost' = FALSE /\ owed' = FALSE
  /\ UNCHANGED <<phase, lockRequested, starting, v2Import, previous, unlocking,
                 locking, waiting, master, job>>

StoreRefuses(u) ==
  /\ request[u] = "asking"
  /\ request' = [request EXCEPT ![u] = "refused"]
  /\ UNCHANGED <<phase, lockRequested, starting, v2Import, previous, unlocking,
                 locking, waiting, owed, store>>

(* A slip: what follows fails and the app stays open. *)
StoreAnswersOpen(u) ==
  /\ request[u] = "opening"
  /\ \E answer \in {"opened", "refused"} : request' = [request EXCEPT ![u] = answer]
  /\ UNCHANGED <<phase, lockRequested, starting, v2Import, previous, unlocking,
                 locking, waiting, owed, store>>

StoreAnswers(u) ==
  /\ request[u] = "opening"
  /\ \/ /\ request' = [request EXCEPT ![u] = "opened"]
        /\ UNCHANGED <<open, owed>>
     \/ /\ request' = [request EXCEPT ![u] = "refused"]
        /\ LockApp
  /\ UNCHANGED <<phase, lockRequested, starting, v2Import, previous, unlocking,
                 locking, waiting, master, deviceLost, job>>

(* unlockOnce resumes with the store's answer. *)
UnlockResumes(u) ==
  /\ Turn
  /\ \/ /\ request[u] = "opened" /\ open
        /\ request' = [request EXCEPT ![u] = "importing"] /\ AwaitImport
        /\ UNCHANGED <<lockRequested, previous, unlocking, open, owed>>
     \/ /\ \/ request[u] = "refused"
           \/ request[u] = "opened" /\ ~open
        /\ DropLockRequest /\ Return(u)
        /\ UNCHANGED v2Import
  /\ UNCHANGED <<phase, starting, locking, waiting, master, deviceLost, job>>

UnlockEnds(u) ==
  /\ Turn /\ request[u] = "importing" /\ v2Import = "done"
  /\ Return(u) /\ BecomeReady
  /\ UNCHANGED <<starting, v2Import, owed, store>>

--------------------------------------------------
(* lock *)

(* A slip: only the start keeps it. *)
KeepsAtStart == phase = "starting"

(* A lock request that finds the app not ready is kept for a start or an      *)
(* unlock whose store has opened, and dropped otherwise.                      *)
Keeps == \/ phase = "starting"
         \/ unlocking # None /\ open

LockAsked ==
  /\ Turn
  /\ IF phase = "ready"
     THEN locking' = "asked" /\ UNCHANGED lockRequested
     ELSE lockRequested' = (lockRequested \/ Keeps) /\ UNCHANGED locking
  /\ owed' = (owed \/ open)
  /\ UNCHANGED <<phase, starting, v2Import, request, previous, unlocking, waiting, store>>

(* lock() reads whether the app is protected, then closes the store, then     *)
(* changes the phase by what it read.                                         *)
LockReads ==
  /\ locking = "asked"
  /\ locking' = IF master THEN "protected" ELSE "plain"
  /\ UNCHANGED <<phase, lockRequested, starting, v2Import, request, previous,
                 unlocking, waiting, owed, store>>

LockCloses ==
  /\ locking \in {"protected", "plain"} /\ locking' = "no"
  /\ LockApp
  /\ IF locking = "protected" THEN SetPhase("locked")
                              ELSE UNCHANGED <<phase, lockRequested, waiting>>
  /\ UNCHANGED <<starting, v2Import, request, previous, unlocking, master, deviceLost, job>>

--------------------------------------------------
(* The master password *)

(* security:set-master-password and security:remove-master-password begin     *)
(* while the app is ready.                                                    *)
ChangeBegins(j) ==
  /\ Turn /\ phase = "ready" /\ job = Idle /\ job' = j
  /\ UNCHANGED <<phase, lockRequested, starting, v2Import, request, previous,
                 unlocking, locking, waiting, master, open, deviceLost, owed>>

(* The change takes effect in the store, which needs the app's key: an app    *)
(* closed meanwhile refuses it.                                               *)
ChangeApplies ==
  /\ job # Idle /\ job' = Idle
  /\ master' = IF open THEN job = "set" ELSE master
  /\ UNCHANGED <<phase, lockRequested, starting, v2Import, request, previous,
                 unlocking, locking, waiting, open, deviceLost, owed>>

--------------------------------------------------
Thread == StoreStarts \/ ChangeApplies
          \/ \E u \in Unlocks : StoreOpens(u) \/ StoreRefuses(u) \/ StoreAnswers(u)
Resume(u) == UnlockOnce(u) \/ UnlockResumes(u) \/ UnlockEnds(u)

Next ==
  \/ Thread \/ ImportEnds \/ StartResumes \/ StartEnds
  \/ LockAsked \/ LockReads \/ LockCloses
  \/ \E u \in Unlocks : Unlock(u) \/ Resume(u)
  \/ \E w \in Waiters : WhenOpen(w)
  \/ \E j \in Jobs : ChangeBegins(j)

Spec == Init /\ [][Next]_vars

(* Threads finish, a lock that has begun goes on, and the event loop serves   *)
(* the requests that can go on, also when turns of lock() come in between.    *)
Answer(u) == StoreOpens(u) \/ StoreRefuses(u) \/ StoreAnswers(u)

(* No turn of lock() can come in between: it begins when the app is ready. *)
StartGoesOn == ImportEnds \/ StartResumes \/ StartEnds

Fairness ==
  /\ WF_vars(StoreStarts) /\ WF_vars(ChangeApplies)
  /\ WF_vars(LockReads) /\ WF_vars(LockCloses)
  /\ \A u \in Unlocks : WF_vars(Answer(u))
  /\ WF_vars(StartGoesOn) /\ SF_vars(\E u \in Unlocks : Resume(u))

FairSpec == Spec /\ Fairness

--------------------------------------------------
(* Properties *)

(* Every variable keeps to the values the code gives it, and the chain is     *)
(* there exactly while a request is.                                          *)
TypeOK ==
  /\ phase \in Phases /\ starting \in {"store", "answered", "failed", "importing", "done"}
  /\ v2Import \in {"no", "running", "done"} /\ locking \in {"no", "asked", "protected", "plain"}
  /\ request \in [Unlocks -> Stages] /\ previous \in [Unlocks -> Unlocks \union {None}]
  /\ unlocking \in Unlocks \union {None} /\ waiting \subseteq Waiters
  /\ job \in {Idle, "set", "remove"}
  /\ {lockRequested, master, open, deviceLost, owed} \subseteq BOOLEAN
  /\ (unlocking = None) <=> \A u \in Unlocks : request[u] = Idle

(* unlock: the store's unlock (Argon2, a prompt) never runs next to another:  *)
(* requests go one at a time.                                                 *)
OneAtATime == Cardinality({u \in Unlocks : request[u] \notin {Idle, "queued"}}) <= 1

(* Behind the lock screen of an app with a master password nothing is open,   *)
(* except for the moment an unlock that succeeded takes to finish.            *)
NothingOpenBehind ==
  phase = "locked" /\ master /\ locking = "no" /\ open
    => \E u \in Unlocks : request[u] \in {"opening", "opened", "importing"}

(* A request to lock that came in after the data opened is never overtaken:   *)
(* with a master password the app does not become ready behind it.            *)
NeverReadyBehindALock == [][phase' = "ready" /\ phase # "ready" => ~(owed /\ master)]_vars

(* whenOpen leaves nobody pending once the phase is ready or an error,        *)
(* whichever turn it joined in.                                               *)
NobodyLeftWaiting == phase \in {"ready", "error"} => waiting = {}

(* A lock asked for while the data is open is carried out, also when it came  *)
(* in between the store's opening and 'ready', and whatever is protected.     *)
LockHonoured == owed ~> ~owed \/ phase = "locked"

(* unlock_app: a failure after the app opened does not leave its key and      *)
(* main.db open behind the lock screen. (Violated where the device key was    *)
(* lost and there is no master password: lock_app drops only what a password  *)
(* protects.)                                                                 *)
NothingLeftOpen ==
  phase = "locked" /\ locking = "no" /\ open
    => \E u \in Unlocks : request[u] \in {"opening", "opened", "importing"}

(* Every unlock request is answered, also those queued behind another. *)
Returns == \A u \in Unlocks : request[u] # Idle ~> request[u] = Idle
=============================================================================
