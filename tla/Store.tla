------------------------------- MODULE Store -------------------------------
(***************************************************************************)
(* The databases of getssh-store and the calls that create, move, open and *)
(* close them.  A database file opens with one key: the key of a version   *)
(* of its scope (module Rotation), a pre-3.0 password, or none (plain      *)
(* SQLite).  The keystore, the files and the open connections change in    *)
(* separate steps, so every call is a list of steps that its thread works  *)
(* through; other threads run, and the app may stop, between any two.      *)
(*                                                                         *)
(* The calls that rekey run on the libuv pool; the locks and the reads run *)
(* on Electron's main thread (Js).  Pool = {Js} makes the calls sequential.*)
(* A typed password is taken to be right: a wrong one changes nothing.     *)
(***************************************************************************)
EXTENDS Rotation, Sequences, SequencesExt

CONSTANTS
    Pool,     \* the threads of the libuv pool
    Js,       \* the main thread
    Main,     \* the main workspace, or None when it is not one of Workspaces
    Before    \* workspace databases there may be before the first start

Missing == "missing"
Plain   == "plain"     \* SQLite without a key
Legacy  == "legacy"    \* SQLCipher under a workspace password of GETSSH 2.x

ASSUME StoreConstants ==
    /\ App \notin Workspaces /\ IsFiniteSet(Workspaces)
    /\ None \notin Serials
    /\ {Missing, Plain, Legacy} \cap (Serials \cup {None}) = {}
    /\ Main \in Workspaces \cup {None}
    /\ Before \subseteq {Missing, Plain, Legacy}

Threads == Pool \cup {Js}

VARIABLES
    file,       \* what each scope's database file opens with
    conn,       \* "no", "live", or "stale": open on a file that was replaced
    rows,       \* the workspaces listed in main.db
    adopting,   \* the rows of adopting_workspaces
    started,    \* start() has run in this process
    ready,      \* the app lock has announced the data as open
    job         \* the remaining steps of the call a thread is in

databases == <<file, conn, rows, adopting>>
vars == <<keystore, databases, started, ready, job>>

Locked(s)   == ~ Unlocked(s)
Mounted(s)  == conn[s] # "no"
MainOpen    == Mounted(App)

(***************************************************************************)
(* Steps.  A step names a scope, and a key or a flag where it needs one.   *)
(* Four of them only mark where an error goes: "skip" (any error but a     *)
(* locked scope is dropped here), "asks" (only "needs password" is),       *)
(* "relock" and "undo" (any error runs that clean-up).                     *)
(***************************************************************************)
Step(do, s)          == [do |-> do, s |-> s, with |-> None]
StepWith(do, s, with) == [do |-> do, s |-> s, with |-> with]

Marks == {"skip", "asks", "relock", "undo"}

FirstAfter(q, Stop(_)) ==
    LET k == SelectInSeq(q, Stop) IN IF k = 0 THEN <<>> ELSE SubSeq(q, k, Len(q))

Trim(q) == FirstAfter(q, LAMBDA x : x.do \notin Marks)

At(t, do) == job[t] # <<>> /\ Head(job[t]).do = do
It(t)     == Head(job[t])

\* The current step is done; the steps it asks for come next.
Then(t, steps) == job' = [job EXCEPT ![t] = Trim(steps \o Tail(@))]

Begin(t, steps) == job[t] = <<>> /\ job' = [job EXCEPT ![t] = steps]

\* The scopes of S one after the other; an error of one leaves the others alone.
EachOf(S, do) == FoldSet(LAMBDA s, q : <<Step(do, s), Step("skip", s)>> \o q, <<>>, S)

\* A password of the app replaces those of the workspaces.
DropEach(S) == FoldSet(LAMBDA w, q : <<Step("drop", w)>> \o q, <<>>, S)

Discard(s) == <<Step("closeone", s), Step("ksdelete", s), Step("skip", s), Step("unlink", s)>>

\* Slip: a database that waits for its password is opened again and again.
CleanUpRetrying(mark) ==
    CASE mark.do = "relock" -> <<Step("kslock", App), Step("close", App)>>
      [] mark.do = "undo"   -> Discard(mark.s)
      [] mark.do = "asks"   -> <<Step("open", mark.s), mark>>
      [] OTHER              -> <<>>

CleanUp(mark) ==
    CASE mark.do = "relock" -> <<Step("kslock", App), Step("close", App)>>
      [] mark.do = "undo"   -> Discard(mark.s)
      [] OTHER              -> <<>>

\* Slip: only "needs password" is left to the workspace, a damaged file is not.
CatchesOnlyNeeds(error) ==
    {"relock", "undo"} \cup IF error = "needs" THEN {"skip", "asks"} ELSE {}

Catches(error) ==
    {"relock", "undo"} \cup CASE error = "locked" -> {}
                              [] error = "needs"  -> {"skip", "asks"}
                              [] error = "io"     -> {"skip"}

\* A mark handles the errors of its own scope, "relock" those of the whole unlocking.
Handles(mark, error, s) == mark.do \in Catches(error) /\ (mark.do = "relock" \/ mark.s = s)

\* The current step returns an error: the ? operator, up to what handles it.
Fail(t, error) ==
    LET rest == FirstAfter(job[t], LAMBDA x : Handles(x, error, It(t).s))
    IN  job' = [job EXCEPT ![t] =
                  IF rest = <<>> THEN <<>> ELSE Trim(CleanUp(Head(rest)) \o Tail(rest))]

Same == UNCHANGED <<keystore, databases>>

--------------------------------------------------
(* A new key version gets a name that neither the file nor a running call holds. *)

Held(s) == {file[s]} \cup {It(t).with : t \in {u \in Threads : job[u] # <<>>}}

NewNames ==
    \A s \in Scopes :
        /\ cur'[s] \in {cur[s], staged[s], None} \cup (Serials \ Held(s))
        /\ staged'[s] \in {staged[s], None} \cup (Serials \ Held(s))

--------------------------------------------------
(* open_main, after_unlock *)

\* open_main: with the current key only; a missing main.db is created.
OpenMain(t) ==
    /\ At(t, "openmain")
    /\ UNCHANGED <<keystore, adopting>>
    /\ \/ MainOpen /\ Then(t, <<>>) /\ UNCHANGED <<file, conn, rows>>
       \/ ~ MainOpen /\ Locked(App) /\ Fail(t, "locked") /\ UNCHANGED <<file, conn, rows>>
       \/ /\ ~ MainOpen /\ Unlocked(App) /\ file[App] \notin {Missing, cur[App]}
          /\ Fail(t, "io")
          /\ UNCHANGED <<file, conn, rows>>
       \/ /\ ~ MainOpen /\ Unlocked(App) /\ file[App] \in {Missing, cur[App]}
          /\ file' = [file EXCEPT ![App] = cur[App]]
          /\ conn' = [conn EXCEPT ![App] = "live"]
          /\ rows' = IF rows = {} THEN {Main} \ {None} ELSE rows
          /\ Then(t, <<>>)

\* complete_app_wide_rotations: the app's own must succeed, a workspace's may fail.
AppWide(S) ==
    (IF App \in S THEN <<Step("complete", App)>> ELSE <<>>) \o EachOf(S \ {App}, "complete")

\* complete_pending_rotations
Sweep(t) ==
    /\ At(t, "sweep")
    /\ Then(t, AppWide({s \in Scopes : Rotating(s) /\ Unlocked(s)}))
    /\ Same

\* The loop of after_unlock over the rows of main.db.
OpenAll(t) ==
    /\ At(t, "openall")
    /\ IF MainOpen THEN Then(t, EachOf(rows, "open")) ELSE Fail(t, "locked")
    /\ Same

AfterUnlock == <<Step("openmain", App), Step("sweep", App), Step("openall", App), Step("ready", App)>>

\* becomeReady
Announce(t) ==
    /\ At(t, "ready")
    /\ Then(t, <<>>)
    /\ ready' = (MainOpen /\ Unlocked(App))
    /\ Same

--------------------------------------------------
(* complete_rotation *)

\* Slip: the rotation is committed before the database has moved.
CommitThenMove(s) == <<Step("commit", s), StepWith("rekey", s, staged[s])>>

MoveThenCommit(s) == <<StepWith("rekey", s, staged[s]), Step("commit", s)>>

\* Slip: only main.db is thought to be open.
InPlaceMain(s) == s = App /\ Mounted(s)

InPlace(s) == Mounted(s)

Complete(t) ==
    /\ At(t, "complete")
    /\ LET s == It(t).s IN
       \/ Exists(s) /\ ~ Rotating(s) /\ Then(t, <<>>)
       \/ ~ Exists(s) /\ Then(t, <<>>)
       \/ Rotating(s) /\ Staged(s) \notin open /\ Fail(t, "locked")
       \/ /\ Rotating(s) /\ Staged(s) \in open
          /\ Then(t, MoveThenCommit(s))
    /\ Same

\* An open connection is rekeyed in place, a closed file on a copy (CopyDone).
Rekey(t) ==
    /\ At(t, "rekey")
    /\ LET s == It(t).s
           to == It(t).with
       IN
       \/ /\ InPlace(s)
          /\ file' = IF conn[s] = "live" THEN [file EXCEPT ![s] = to] ELSE file
          /\ Then(t, <<>>)
       \/ /\ ~ InPlace(s) /\ file[s] \in {Missing, to}
          /\ Then(t, <<>>)
          /\ UNCHANGED file
       \/ /\ ~ InPlace(s) /\ file[s] \notin {Missing, to}
          /\ UNCHANGED file
          /\ IF file[s] = Plain /\ MainOpen /\ s \in adopting
             THEN Then(t, <<StepWith("rename", s, to)>>)
             ELSE IF Locked(s) THEN Fail(t, "locked")
             ELSE IF file[s] = cur[s] THEN Then(t, <<StepWith("rename", s, to)>>)
             ELSE Fail(t, "io")
    /\ UNCHANGED <<keystore, conn, rows, adopting>>

\* rekey_file: the verified copy replaces the file; a connection on the old one is cut off.
CopyDone(t) ==
    /\ At(t, "rename")
    /\ LET s == It(t).s IN
       /\ file' = [file EXCEPT ![s] = It(t).with]
       /\ conn' = [conn EXCEPT ![s] = IF @ = "live" THEN "stale" ELSE @]
    /\ Then(t, <<>>)
    /\ UNCHANGED <<keystore, rows, adopting>>

Commit(t) ==
    /\ At(t, "commit")
    /\ LET s == It(t).s IN
       \/ KsCommit(s) /\ Then(t, <<>>)
       \/ ~ (Rotating(s) /\ Staged(s) \in open) /\ Fail(t, "locked") /\ UNCHANGED keystore
    /\ UNCHANGED databases

--------------------------------------------------
(* Opening a workspace *)

\* open_scope: what needs no password opens; under a master password also the workspaces
\* whose key was wrapped under the app key.
MustOpen(s) == Unlocked(s) \/ ~ Guarded(s)
MayOpen(s)  == MustOpen(s) \/ (sealed[App] /\ Unlocked(App))

\* The staged key of a workspace may need the app key, which a lock may have dropped.
Obtained(s) == {Versions(s)} \cup (IF Locked(App) THEN {{Current(s)}} ELSE {})

\* Slip: the scope is created before its row is marked.
AdoptionUnmarked(s) == <<StepWith("create", s, "quiet"), Step("mark", s),
                         StepWith("move", s, Plain), Step("mount", s), Step("unmark", s)>>

\* The mark comes first: a crash must find it beside the new scope.
Adoption(s) == <<Step("mark", s), StepWith("create", s, "quiet"),
                 StepWith("move", s, Plain), Step("mount", s), Step("unmark", s)>>

\* open_workspace, adopt_workspace
OpenWorkspace(t) ==
    /\ At(t, "open")
    /\ UNCHANGED databases
    /\ LET s == It(t).s IN
       \/ Mounted(s) /\ Then(t, <<>>) /\ UNCHANGED keystore
       \/ /\ ~ Mounted(s) /\ ~ Exists(s)
          /\ IF file[s] \in {Missing, Plain}
             THEN Then(t, Adoption(s))
             ELSE Fail(t, "needs")
          /\ UNCHANGED keystore
       \/ ~ Mounted(s) /\ Exists(s) /\ ~ MustOpen(s) /\ Then(t, <<>>) /\ UNCHANGED keystore
       \/ /\ ~ Mounted(s) /\ Exists(s) /\ MayOpen(s)
          /\ \E V \in Obtained(s) : KsUnlock(V)
          /\ Then(t, <<Step("complete", s), Step("adopted", s), Step("mount", s), Step("unmark", s)>>)

\* An adoption that stopped before encrypting the file is finished, and only that.
FinishAdoption(t) ==
    /\ At(t, "adopted")
    /\ LET s == It(t).s IN
       IF file[s] = Plain /\ MainOpen /\ s \in adopting
       THEN Then(t, <<StepWith("move", s, Plain)>>)
       ELSE Then(t, <<>>)
    /\ Same

\* move_to_scope_key
Move(t) ==
    /\ At(t, "move")
    /\ LET s == It(t).s
           from == It(t).with
       IN  IF Locked(s) THEN Fail(t, "locked")
           ELSE IF file[s] \in {Missing, cur[s]} THEN Then(t, <<>>)
           ELSE IF file[s] = from THEN Then(t, <<StepWith("rename", s, cur[s])>>)
           ELSE Fail(t, "io")
    /\ Same

\* mount: the key is read here and used by Connect.
Mount(t) ==
    /\ At(t, "mount")
    /\ LET s == It(t).s IN
       IF Mounted(s) THEN Then(t, <<>>)
       ELSE IF Locked(s) THEN Fail(t, "locked")
       ELSE Then(t, <<StepWith("connect", s, cur[s])>>)
    /\ Same

\* mount_unlocked reports a half-moved database as waiting for its password.
Connect(t) ==
    /\ At(t, "connect")
    /\ UNCHANGED <<keystore, rows, adopting>>
    /\ LET s == It(t).s
           key == It(t).with
       IN
       \/ /\ file[s] \in {Missing, key}
          /\ file' = [file EXCEPT ![s] = key]
          /\ conn' = [conn EXCEPT ![s] = "live"]
          /\ Then(t, <<>>)
       \/ /\ file[s] \notin {Missing, key}
          /\ Fail(t, IF sealed[s] /\ file[s] # Plain THEN "needs" ELSE "io")
          /\ UNCHANGED <<file, conn>>

\* Rows of main.db: adopting_workspaces, workspaces.
WriteRow(t) ==
    /\ \E do \in {"mark", "unmark", "row"} : At(t, do)
    /\ LET s == It(t).s
           idle == At(t, "unmark") /\ s \notin adopting
       IN  IF MainOpen \/ idle
           THEN /\ adopting' = CASE At(t, "mark")   -> adopting \cup {s}
                                 [] At(t, "unmark") -> adopting \ {s}
                                 [] OTHER           -> adopting
                /\ rows' = IF At(t, "row") THEN rows \cup {s} ELSE rows
                /\ Then(t, <<>>)
           ELSE Fail(t, "locked") /\ UNCHANGED <<rows, adopting>>
    /\ UNCHANGED <<keystore, file, conn>>

\* create_scope.  create_workspace takes back a scope whose database or row it cannot write.
CreateScope(t) ==
    /\ At(t, "create") \/ At(t, "createnew")
    /\ LET s == It(t).s IN
       \/ /\ KsCreate(s, It(t).with = "own")
          /\ NewNames
          /\ Then(t, IF At(t, "create") THEN <<>>
                     ELSE <<Step("mount", s), Step("row", s), Step("undo", s)>>)
       \/ ~ (Exists(App) /\ ~ Exists(s)) /\ Fail(t, "locked") /\ UNCHANGED keystore
    /\ UNCHANGED databases

--------------------------------------------------
(* Passwords *)

\* The part of unlock_workspace after open_workspace: the workspace's own password
\* (typed: it may also be the old passphrase of the file), Touch ID or the recovery code.
UnlockOwn(t) ==
    /\ At(t, "unlock")
    /\ UNCHANGED databases
    /\ LET s == It(t).s IN
       \/ Mounted(s) /\ Then(t, <<>>) /\ UNCHANGED keystore
       \/ ~ Mounted(s) /\ ~ (Exists(s) /\ sealed[s]) /\ Fail(t, "locked") /\ UNCHANGED keystore
       \/ /\ ~ Mounted(s) /\ Exists(s) /\ sealed[s]
          /\ \E V \in Obtained(s) : KsUnlock(V)
          /\ \E typed \in {<<>>, <<StepWith("move", s, Legacy)>>} :
                Then(t, <<Step("complete", s)>> \o typed \o <<Step("mount", s), Step("drop", s)>>)

\* Slip: the password goes although the database still waits for it.
DropsUnmounted(s) == sealed[App] /\ sealed[s] /\ Unlocked(s)

\* drop_workspace_password_under_master
Drops(s) == sealed[App] /\ Mounted(s) /\ sealed[s] /\ Unlocked(s)

DropPassword(t) ==
    /\ At(t, "drop")
    /\ UNCHANGED databases
    /\ LET s == It(t).s IN
       \/ ~ Drops(s) /\ Then(t, <<>>) /\ UNCHANGED keystore
       \/ Drops(s) /\ Rotating(s) /\ Fail(t, "locked") /\ UNCHANGED keystore
       \/ Drops(s) /\ KsRemovePassword(s) /\ NewNames /\ Then(t, <<Step("complete", s)>>)

\* set_password and remove_password of the keystore, and the rotations they ask for.
ChangePassword(t) ==
    /\ UNCHANGED databases
    /\ LET s == It(t).s
           free == Unlocked(s) /\ ~ Rotating(s)
           own == {w \in Workspaces : s = App /\ sealed[w]}
       IN
       \/ /\ At(t, "setpw") /\ KsSetPassword(s) /\ NewNames
          /\ Then(t, IF s = App THEN AppWide(Affected(App)) \o DropEach(own)
                                ELSE <<Step("complete", s)>>)
       \/ At(t, "rmpw") /\ KsRemovePassword(s) /\ NewNames /\ Then(t, <<Step("complete", s)>>)
       \/ At(t, "rmpw") /\ ~ sealed[s] /\ Then(t, <<>>) /\ UNCHANGED keystore
       \/ /\ \/ At(t, "setpw") /\ ~ (free /\ ~ sealed[s])
             \/ At(t, "rmpw") /\ sealed[s] /\ ~ free
          /\ Fail(t, "locked")
          /\ UNCHANGED keystore

--------------------------------------------------
(* Locking and deleting *)

\* lock_protected, lock_scope
DropKeys(t) ==
    /\ At(t, "kslock")
    /\ KsLock(IF It(t).s = App THEN Scopes ELSE {It(t).s})
    /\ Then(t, <<>>)
    /\ UNCHANGED databases

\* Slip: only a locked app closes databases.
ClosingWithApp == {s \in Scopes : Locked(App)}

\* close_locked
Closing == {s \in Scopes : Locked(s)}

CloseLocked(t) ==
    /\ At(t, "close")
    /\ conn' = [s \in Scopes |-> IF s \in Closing THEN "no" ELSE conn[s]]
    /\ Then(t, <<>>)
    /\ UNCHANGED <<keystore, file, rows, adopting>>

Delete(t) ==
    /\ LET s == It(t).s IN
       \/ /\ At(t, "closeone")
          /\ conn' = [conn EXCEPT ![s] = "no"]
          /\ Then(t, <<>>)
          /\ UNCHANGED <<keystore, file, rows, adopting>>
       \/ /\ At(t, "delrow")
          /\ IF MainOpen
             THEN rows' = rows \ {s} /\ adopting' = adopting \ {s} /\ Then(t, <<>>)
             ELSE Fail(t, "locked") /\ UNCHANGED <<rows, adopting>>
          /\ UNCHANGED <<keystore, file, conn>>
       \/ /\ At(t, "ksdelete")
          /\ \/ KsDelete(s)
             \/ ~ Exists(s) /\ UNCHANGED keystore
          /\ Then(t, <<>>)
          /\ UNCHANGED databases
       \/ /\ At(t, "unlink")
          /\ file' = [file EXCEPT ![s] = Missing]
          /\ Then(t, <<>>)
          /\ UNCHANGED <<keystore, conn, rows, adopting>>

--------------------------------------------------
(* The calls *)

\* start_with: the first run creates the keyring; the app opens unless a password protects it.
Start(t) ==
    /\ ~ started /\ \A u \in Threads : job[u] = <<>>
    /\ started' = TRUE
    /\ UNCHANGED <<databases, ready>>
    /\ \/ ~ Exists(App) /\ KsInitialize({}, {}) /\ Begin(t, AfterUnlock)
       \/ Exists(App) /\ ~ Guarded(App) /\ KsUnlock(Versions(App)) /\ Begin(t, AfterUnlock)
       \/ Exists(App) /\ Guarded(App) /\ UNCHANGED <<keystore, job>>

\* unlock_app, one at a time (appLock.unlock).  The app key also opens workspaces under it.
Unlocking(t) == \E i \in 1..Len(job[t]) : job[t][i].do = "ready"

UnlockApp(t) ==
    /\ started /\ ~ ready /\ Guarded(App)
    /\ \A u \in Threads : ~ Unlocking(u)
    /\ \E W \in SUBSET {w \in Workspaces : Exists(w)} :
          KsUnlock(UNION {Versions(s) : s \in W \cup {App}})
    /\ Begin(t, AfterUnlock \o <<Step("relock", App)>>)
    /\ UNCHANGED <<databases, started, ready>>

Call(t, steps) == ready /\ Begin(t, steps) /\ Same /\ UNCHANGED <<started, ready>>

SetMasterPassword(t) ==
    /\ ~ sealed[App]
    /\ \A w \in Workspaces : Exists(w) /\ sealed[w] => Unlocked(w)
    /\ Call(t, <<Step("setpw", App)>>)

RemoveMasterPassword(t) == sealed[App] /\ Call(t, <<Step("rmpw", App)>>)

CreateWorkspace(t, s, own) ==
    /\ MainOpen /\ s \notin rows /\ file[s] = Missing /\ ~ (own = "own" /\ sealed[App])
    /\ Call(t, <<Step("unmark", s), StepWith("createnew", s, own)>>)

DeleteWorkspace(t, s) ==
    /\ MainOpen /\ s \in rows \ {Main}
    /\ Call(t, <<Step("closeone", s), Step("delrow", s), Step("ksdelete", s), Step("unlink", s)>>)

OpenCall(t, s) == s \in rows /\ Call(t, <<Step("open", s)>>)

\* unlock_workspace; without a scope it is migrate_legacy_workspace.
UnlockWith(s) ==
    IF Exists(s) THEN <<Step("open", s), Step("asks", s), Step("unlock", s)>>
    ELSE <<StepWith("create", s, "own"), StepWith("move", s, Legacy), Step("mount", s), Step("drop", s)>>

UnlockWorkspace(t, s) ==
    /\ s \in rows /\ ~ Mounted(s) /\ (Exists(s) \/ file[s] = Legacy)
    /\ Call(t, UnlockWith(s))

SetWorkspacePassword(t, s) ==
    /\ MainOpen /\ s \in rows \ {Main} /\ ~ sealed[App] /\ ~ sealed[s]
    /\ Call(t, <<Step("open", s), Step("setpw", s)>>)

RemoveWorkspacePassword(t, s) ==
    /\ MainOpen /\ s \in rows /\ Exists(s) /\ sealed[s]
    /\ Call(t, (IF Mounted(s) THEN <<>> ELSE UnlockWith(s)) \o <<Step("rmpw", s)>>)

LockApp ==
    /\ ready /\ job[Js] = <<>>
    /\ job' = [job EXCEPT ![Js] = <<Step("kslock", App), Step("close", App)>>]
    /\ ready' = ~ sealed[App]
    /\ Same /\ UNCHANGED started

LockWorkspace(s) == Exists(s) /\ Call(Js, <<Step("kslock", s), Step("close", s)>>)

\* with_workspace: any read mounts a workspace whose key is in memory.
ReadWorkspace(s) ==
    /\ started /\ ~ Mounted(s) /\ Unlocked(s)
    /\ Begin(Js, <<Step("mount", s)>>)
    /\ Same /\ UNCHANGED <<started, ready>>

--------------------------------------------------
(* Failures *)

Fallible == {"openmain", "rekey", "rename", "commit", "move", "connect", "mark", "unmark",
             "row", "create", "createnew", "setpw", "rmpw", "drop", "delrow", "ksdelete"}

\* A write, a read or the device refuses the current step.
Fault(t) ==
    /\ job[t] # <<>> /\ It(t).do \in Fallible
    /\ Fail(t, "io")
    /\ Same

\* The app stops: what is in memory is gone.
Crash ==
    /\ started
    /\ KsForget
    /\ conn' = [s \in Scopes |-> "no"]
    /\ started' = FALSE /\ ready' = FALSE
    /\ job' = [t \in Threads |-> <<>>]
    /\ UNCHANGED <<file, rows, adopting>>

--------------------------------------------------
\* A first start, or data from before the keystore that has its keyring and main.db by now.
Init ==
    /\ open = {} /\ staged = [s \in Scopes |-> None] /\ sealed = [s \in Scopes |-> FALSE]
    /\ conn = [s \in Scopes |-> "no"] /\ adopting = {}
    /\ started = FALSE /\ ready = FALSE
    /\ job = [t \in Threads |-> <<>>]
    /\ \/ /\ cur = [s \in Scopes |-> None]
          /\ file = [s \in Scopes |-> Missing]
          /\ rows = {}
       \/ \E n \in Serials : \E found \in [Workspaces -> Before] :
          /\ cur = [s \in Scopes |-> IF s = App THEN n ELSE None]
          /\ file = [s \in Scopes |-> IF s = App THEN n ELSE found[s]]
          /\ rows = Workspaces

Work(t) ==
    \/ OpenMain(t) \/ Sweep(t) \/ OpenAll(t) \/ Complete(t) \/ Rekey(t) \/ CopyDone(t) \/ Commit(t)
    \/ OpenWorkspace(t) \/ FinishAdoption(t) \/ Move(t) \/ Mount(t) \/ Connect(t)
    \/ WriteRow(t) \/ CreateScope(t)
    \/ UnlockOwn(t) \/ DropPassword(t) \/ ChangePassword(t)
    \/ DropKeys(t) \/ CloseLocked(t) \/ Delete(t)
    \/ Fault(t)

Proceed(t) ==
    \/ Work(t) /\ UNCHANGED <<started, ready>>
    \/ Announce(t) /\ UNCHANGED started

NewCall(t) ==
    \/ Start(t) \/ UnlockApp(t) \/ SetMasterPassword(t) \/ RemoveMasterPassword(t)
    \/ \E s \in Workspaces :
          \/ \E own \in {"own", "quiet"} : CreateWorkspace(t, s, own)
          \/ DeleteWorkspace(t, s) \/ OpenCall(t, s) \/ UnlockWorkspace(t, s)
          \/ SetWorkspacePassword(t, s) \/ RemoveWorkspacePassword(t, s)

Next ==
    \/ \E t \in Threads : Proceed(t)
    \/ \E t \in Pool : NewCall(t)
    \/ LockApp
    \/ \E s \in Workspaces : LockWorkspace(s) \/ ReadWorkspace(s)
    \/ Crash

Spec == Init /\ [][Next]_vars

\* A thread of the pool, and the main thread, run on as long as the app does.
FairSpec == Spec /\ \A t \in Threads : WF_vars(Proceed(t))

--------------------------------------------------
(* What must hold *)

TypeOK ==
    /\ KeystoreType
    /\ file \in [Scopes -> Serials \cup {Missing, Plain, Legacy}]
    /\ conn \in [Scopes -> {"no", "live", "stale"}]
    /\ rows \subseteq Workspaces /\ adopting \subseteq Workspaces
    /\ started \in BOOLEAN /\ ready \in BOOLEAN
    /\ \A t \in Threads : \A i \in 1..Len(job[t]) : job[t][i].s \in Scopes

\* No database is ever left under a key that the keystore no longer has: neither a crash
\* or an error between rekeying and committing, nor a lock in between loses one.
Reachable == \A s \in Scopes :
    Exists(s) => file[s] \in {Missing, Plain, Legacy, cur[s], staged[s]}

\* The move of an old database can always be finished: a workspace with a scope whose
\* file is still plain is marked, so the next open finishes it, and a half-moved 2.x
\* database keeps the workspace password that can still finish the move.
Finishable ==
    /\ \A s \in rows : Exists(s) /\ file[s] = Plain => s \in adopting
    /\ \A s \in Workspaces : Exists(s) /\ file[s] = Legacy => sealed[s]

\* Outside a lock in progress, no database stays open whose key was dropped.
ClosedWhenLocked == \A s \in Scopes :
    Mounted(s) /\ Locked(s) => \E t \in Threads : \E i \in 1..Len(job[t]) : job[t][i].do = "close"

\* A workspace that cannot be moved or opened does not keep the app from unlocking.
UnlockStands ==
    [][\A t \in Threads : Unlocking(t) /\ It(t).s # App /\ started' => Unlocking(t)']_vars

\* Every call returns: finishing an adoption, a move or a dropped password never asks for itself.
Returns == \A t \in Threads : job[t] # <<>> ~> job[t] = <<>>

\* A connection is never left on a file that was replaced under it.
NothingStale == \A s \in Scopes : conn[s] # "stale"

\* After a stop between rekeying main.db and committing, only the commit is left to do.
MainOpens == \A t \in Threads : At(t, "openmain") => file[App] # staged[App]
=============================================================================
