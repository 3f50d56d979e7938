------------------------------ MODULE Keystore ------------------------------
(***************************************************************************)
(* The keystore (rust-core/getssh-keystore/src/store.rs): the key versions *)
(* of every scope, the routes that open them, the keys in memory, and the  *)
(* public operations.                                                      *)
(*                                                                         *)
(* Operations hold the `op` mutex from their snapshot to the end, but the  *)
(* locks take only the `state` mutex and may come in between.  `snap` is   *)
(* the snapshot of the operation in flight; which operation it belongs to  *)
(* is chosen when it finishes, which is when its effects appear.  The      *)
(* epoch counter is kept as "has it moved since the snapshot" (snap.fresh).*)
(*                                                                         *)
(* Wrong passwords, the password delay, the contents of fields and         *)
(* database files are left out; every password used is the right one.      *)
(***************************************************************************)
EXTENDS Keyring

CONSTANTS
    MayAbort,   \* scopes for which abort_rotation is called
    MayMove     \* whether the data may be brought to another machine

VARIABLES
    keyring,    \* keyring.json, also held in State.keyring
    keys,       \* State.keys: unlocked key versions
    fieldKeys,  \* State.field_keys: scopes whose field key is in memory
    reveal,     \* State.reveal: domains with a reveal session
    lost,       \* State.quiet_device_lost
    snap,       \* the operation in flight
    devices,    \* device keys that exist on this machine
    moved,      \* the data was brought to a machine without its device keys
    exposed,    \* live versions that some saved keyring opened with no secret
    locked      \* protected scopes not opened since they were last locked

vars == <<keyring, keys, fieldKeys, reveal, lost, snap, devices, moved, exposed, locked>>

Idle        == [phase |-> "idle", known |-> {}, fresh |-> TRUE, retired |-> {}]
Busy(k)     == [phase |-> "busy", known |-> k, fresh |-> TRUE, retired |-> {}]
Retiring(D) == [phase |-> "retiring", known |-> {}, fresh |-> TRUE, retired |-> D]

TypeOK ==
    /\ keyring \in Keyrings
    /\ keys \subseteq Slots
    /\ fieldKeys \subseteq Scopes
    /\ reveal \subseteq Scopes
    /\ lost \in BOOLEAN
    /\ snap \in [phase : {"idle", "busy", "retiring"}, known : SUBSET Slots,
                 fresh : BOOLEAN, retired : SUBSET DeviceIds]
    /\ devices \subseteq DeviceIds
    /\ moved \in BOOLEAN
    /\ exposed \subseteq Slots
    /\ locked \subseteq Scopes

Init ==
    /\ keyring = Empty
    /\ keys = {} /\ fieldKeys = {} /\ reveal = {} /\ lost = FALSE
    /\ snap = Idle
    /\ devices = {} /\ moved = FALSE /\ exposed = {} /\ locked = {}

--------------------------------------------------
\* Versions a keyring opens for anyone who has the device keys D: no secret needed.
OpensQuietly(kr, D) ==
    LET direct == {v \in AllVersions(kr) : \E d \in D : Device(d) \in kr.wraps[v]}
    IN  direct \cup {v \in AllVersions(kr) :
                        \E a \in direct : a[1] = App /\ Parent(a[2]) \in kr.wraps[v]}

UsedSerials(kr, s) ==
    {n \in Serials : \/ n \in {kr.cur[s], kr.staged[s]}
                     \/ s = App /\ n = kr.recovery.mac
                     \/ s = App /\ \E v \in AllVersions(kr) : Parent(n) \in kr.wraps[v]}
FreshSerials(kr, s) == Serials \ UsedSerials(kr, s)

UsedCodes(kr) ==
    {r \in RecoveryIds : r = kr.recovery.id \/ \E v \in Slots : Recovery(r) \in kr.wraps[v]}

\* reveal_domain: which reveal session covers a scope.
RevealDomain(pol, s) == IF s # App /\ pol.own[s] /\ ~ pol.own[App] THEN s ELSE App

--------------------------------------------------
(* The frame of an operation. *)

BeginOp ==
    /\ snap.phase = "idle"
    /\ snap' = Busy(keys)
    /\ UNCHANGED <<keyring, keys, fieldKeys, reveal, lost, devices, moved, exposed, locked>>

\* Slip: a lock during the operation is not noticed.
MayFinishAnyway == snap.phase = "busy"

\* finish refuses to save or install anything if a lock came after the snapshot.
MayFinish == snap.phase = "busy" /\ snap.fresh

\* The rest of finish: the keyring is saved and the memory updated in one step.
\* `unlocks` are the scopes the operation was asked to open.
Finish(kr, ks, fs, rv, l, unlocks) ==
    /\ keyring' = kr
    /\ keys' = ks
    /\ fieldKeys' = fs
    /\ reveal' = rv
    /\ lost' = l
    /\ devices' = devices \cup (DeviceKeys(kr) \ DeviceKeys(keyring))
    /\ LET gone == Retired(keyring, kr) IN
       snap' = IF gone = {} THEN Idle ELSE Retiring(gone)
    /\ exposed' = (exposed \cup OpensQuietly(kr, DeviceIds)) \cap AllVersions(kr)
    /\ locked' = {s \in locked : /\ ~ (snap.fresh /\ s \in unlocks)
                                 /\ Exists(kr, s) /\ Protected(kr, s)}
    /\ UNCHANGED moved

\* Device keys are deleted only after the keyring that dropped them is saved.
DeleteRetired ==
    /\ snap.phase = "retiring"
    /\ devices' = devices \ snap.retired
    /\ snap' = Idle
    /\ UNCHANGED <<keyring, keys, fieldKeys, reveal, lost, moved, exposed, locked>>

\* Any error: a failed save, a device error, a lock since the snapshot.
EndWithError ==
    /\ snap.phase = "busy"
    /\ snap' = Idle
    /\ UNCHANGED <<keyring, keys, fieldKeys, reveal, lost, devices, moved, exposed, locked>>

Known == snap.known

Saves(R, ks, fs, rv, unlocks) ==
    R.ok /\ Finish(R.keyring, ks, fs, rv, R.lost, unlocks)

--------------------------------------------------
(* First run. *)

NewVersion(kr, s, n, own, W) ==
    [kr EXCEPT !.own[<<s, n>>] = own, !.wraps[<<s, n>>] = W]

Initialize ==
    LET n  == Fresh(FreshSerials(keyring, App))
        kr == [NewVersion(keyring, App, n, FALSE, {}) EXCEPT !.cur[App] = n]
    IN  /\ ~ Exists(keyring, App) /\ n # None
        /\ Saves(Reconcile(kr, devices, {<<App, n>>}, {App}, FALSE),
                 {<<App, n>>}, {App}, reveal, {})

\* The bundle holds the current version of the app and of some workspaces, each
\* with its password route only.
InitializeFromExport(ids, withPassword) ==
    LET n    == Fresh(Serials)
        all  == ids \cup {App}
        kr   == [keyring EXCEPT
                    !.cur   = [s \in Scopes |-> IF s \in all THEN n ELSE None],
                    !.own   = [v \in Slots |-> v[2] = n /\ v[1] \in withPassword],
                    !.wraps = [v \in Slots |-> IF v[2] = n /\ v[1] \in withPassword
                                               THEN {Password} ELSE {}]]
        R    == Reconcile(kr, devices, all \X {n}, all, FALSE)
    IN  /\ ~ Exists(keyring, App)
        /\ Saves(R, R.known, all, reveal, {})

--------------------------------------------------
(* Unlocking. *)

\* An unlock that ends in the repair pass R.  The pass may fail if it needs the
\* device; the unlock stands without it.
Repairs(R, ks, fs, l, unlocks) ==
    \/ R.ok /\ Finish(R.keyring, ks, fs, reveal, R.lost, unlocks)
    \/ (~ R.ok \/ R.device) /\ \E k \in {l, R.lost} : Finish(keyring, ks, fs, reveal, k, unlocks)

\* complete_unlock: `found` were just opened.
CompleteUnlock(s, found) ==
    LET k1 == Known \cup found
        l1 == FindsLost(keyring, devices, k1, lost, Versions(keyring, s))
        k2 == k1 \cup {v \in Versions(keyring, s) : Obtains(keyring, devices, k1, lost, v)}
        ks == keys \cup found \cup (k2 \cap Versions(keyring, s))
    IN  /\ Current(keyring, s) \in k2
        /\ Repairs(Reconcile(keyring, devices, k2, {s}, l1), ks, fieldKeys \cup {s}, l1, {s})

OpenScope(s) ==
    LET found == {v \in Versions(keyring, s) : Obtains(keyring, devices, Known, lost, v)} IN
    /\ Exists(keyring, s)
    /\ Current(keyring, s) \in found
    /\ CompleteUnlock(s, found)

\* note_lost: the device key turned out to be gone.
OpenScopeFails(s) ==
    /\ snap.phase = "busy"
    /\ Exists(keyring, s)
    /\ ~ Obtains(keyring, devices, Known, lost, Current(keyring, s))
    /\ lost' = FindsLost(keyring, devices, Known, lost, {Current(keyring, s)})
    /\ snap' = Idle
    /\ UNCHANGED <<keyring, keys, fieldKeys, reveal, devices, moved, exposed, locked>>

UnlockWithPassword(s) ==
    LET found == {v \in Versions(keyring, s) : Password \in keyring.wraps[v]} IN
    /\ Exists(keyring, s)
    /\ found # {}
    /\ CompleteUnlock(s, found)

UnlockWithPresence(s) ==
    LET found == {v \in Versions(keyring, s) :
                     \E d \in devices : Presence(d) \in keyring.wraps[v]} IN
    /\ Exists(keyring, s)
    /\ Current(keyring, s) \in found
    /\ CompleteUnlock(s, found)

\* A code opens every version with a route to it, also one that was replaced.
UnlockWithRecovery(r) ==
    LET found  == {v \in AllVersions(keyring) : Recovery(r) \in keyring.wraps[v]}
        opened == {s \in Scopes : Current(keyring, s) \in found}
        l1     == lost \/ (keyring.quiet # None /\ keyring.quiet \notin devices)
    IN  /\ opened # {}
        /\ Repairs(Reconcile(keyring, devices, Known \cup found, Scopes, l1),
                   keys \cup found, fieldKeys \cup opened, l1, {v[1] : v \in found})

--------------------------------------------------
(* Locking: only the state mutex, so an operation may be in flight. *)

MovesEpoch == snap' = [snap EXCEPT !.fresh = FALSE]

LockProtected ==
    LET pol == Policy(keyring, keys)
        P   == {s \in Scopes : Exists(keyring, s) /\ IsProtected(pol, s)} IN
    /\ IF snap.phase = "busy" THEN MovesEpoch ELSE UNCHANGED snap
    /\ reveal' = {}
    /\ keys' = {v \in keys : v[1] \notin P}
    /\ fieldKeys' = fieldKeys \ P
    /\ locked' = locked \cup P
    /\ UNCHANGED <<keyring, lost, devices, moved, exposed>>

LockScope(s) ==
    LET pol  == Policy(keyring, keys)
        hide == IsProtected(pol, s) IN
    /\ s # App /\ Exists(keyring, s)
    /\ IF hide /\ snap.phase = "busy" THEN MovesEpoch ELSE UNCHANGED snap
    /\ keys' = IF hide THEN {v \in keys : v[1] # s} ELSE keys
    /\ fieldKeys' = IF hide THEN fieldKeys \ {s} ELSE fieldKeys
    /\ locked' = IF hide THEN locked \cup {s} ELSE locked
    /\ reveal' = IF RevealDomain(pol, s) = s THEN reveal \ {s} ELSE reveal
    /\ UNCHANGED <<keyring, lost, devices, moved, exposed>>

--------------------------------------------------
(* Scopes. *)

CreateScope(s, withPassword) ==
    LET n  == Fresh(FreshSerials(keyring, s))
        kr == [NewVersion(keyring, s, n, withPassword,
                          IF withPassword THEN {Password} ELSE {}) EXCEPT !.cur[s] = n]
        R  == Reconcile(kr, devices, Known \cup {<<s, n>>}, {s}, lost)
    IN  /\ s # App /\ ~ Exists(keyring, s) /\ Exists(keyring, App) /\ n # None
        /\ \/ Current(keyring, App) \in Known
           \/ Password \notin keyring.wraps[Governing(keyring, App)]
        /\ Saves(R, keys \cup {<<s, n>>}, fieldKeys \cup {s}, reveal, {s})

Without(kr, V) ==
    [kr EXCEPT !.own   = [v \in Slots |-> v \notin V /\ kr.own[v]],
               !.wraps = [v \in Slots |-> IF v \in V THEN {} ELSE kr.wraps[v]]]

DeleteScope(s) ==
    /\ s # App /\ Exists(keyring, s)
    /\ Finish([Without(keyring, Versions(keyring, s)) EXCEPT !.cur[s] = None, !.staged[s] = None],
              {v \in keys : v[1] # s}, fieldKeys \ {s}, reveal \ {s}, lost, {s})

--------------------------------------------------
(* Passwords. *)

\* Slip: every staged version is sealed as having its own password.
StageAllSealed(kr, T, own, W) ==
    LET new(s) == <<s, Fresh(FreshSerials(kr, s))>> IN
    [kr EXCEPT !.staged = [s \in Scopes |-> IF s \in T THEN new(s)[2] ELSE kr.staged[s]],
               !.own    = [v \in Slots |-> IF v[1] \in T /\ v = new(v[1]) THEN TRUE ELSE kr.own[v]],
               !.wraps  = [v \in Slots |-> IF v[1] \in T /\ v = new(v[1]) THEN W ELSE kr.wraps[v]]]

\* stage_version on every scope of T; the current keys must be obtainable.
StageVersions(kr, T, own, W) ==
    LET new(s) == <<s, Fresh(FreshSerials(kr, s))>> IN
    [kr EXCEPT !.staged = [s \in Scopes |-> IF s \in T THEN new(s)[2] ELSE kr.staged[s]],
               !.own    = [v \in Slots |-> IF v[1] \in T /\ v = new(v[1]) THEN own ELSE kr.own[v]],
               !.wraps  = [v \in Slots |-> IF v[1] \in T /\ v = new(v[1]) THEN W ELSE kr.wraps[v]]]

CanStage(kr, known, l, T) ==
    \A s \in T : /\ FreshSerials(kr, s) # {}
                 /\ Obtains(kr, devices, known, l, Current(kr, s))

StagedKeys(kr, T) == {Current(kr, s) : s \in T} \cup {Staged(kr, s) : s \in T}

\* Slip: reveal sessions survive the change.
FinishKeepingReveal(R, T) ==
    Saves(R, keys \cup {v \in R.known \cap AllVersions(R.keyring) : v[1] \in T},
          fieldKeys \cup {s \in T : Current(R.keyring, s) \in R.known}, reveal, {})

\* finish_protection_change: the scopes touched stay unlocked, reveal sessions end.
FinishProtectionChange(R, T) ==
    Saves(R, keys \cup {v \in R.known \cap AllVersions(R.keyring) : v[1] \in T},
          fieldKeys \cup {s \in T : Current(R.keyring, s) \in R.known}, {}, {})

\* A workspace that becomes protected by the new master password.
Transitioning(before, after, known) ==
    {s \in Workspaces : /\ Exists(before, s) /\ ~ Rotating(after, s)
                        /\ ~ IsProtected(Policy(before, known), s)
                        /\ IsProtected(Policy(after, known), s)}

ChangePassword(s) ==
    LET kr == [keyring EXCEPT !.wraps[Current(keyring, s)] = @ \cup {Password}]
        k  == WithAppKeys(keyring, devices, Known, lost)
        l  == FindsLost(keyring, devices, Known, lost, Versions(keyring, App))
    IN  /\ Exists(keyring, s) /\ ~ Rotating(keyring, s)
        /\ Current(keyring, s) \in Known
        /\ keyring.own[Current(keyring, s)]
        /\ FinishProtectionChange(Reconcile(kr, devices, k, Scopes, l), {s})

\* A scope without a password gets one: it, and under a new master password every
\* workspace that becomes protected, get a staged version.
SetPassword(s) ==
    LET k    == WithAppKeys(keyring, devices, Known, lost)
        l    == FindsLost(keyring, devices, Known, lost, Versions(keyring, App))
        kr1  == [keyring EXCEPT !.wraps[Current(keyring, s)] = @ \cup {Password}]
        kr2  == [StageVersions(kr1, {s}, TRUE, {Password}) EXCEPT
                    !.recovery = IF s = App THEN NoRecovery ELSE @]
        k2   == k \cup StagedKeys(kr2, {s})
        T    == IF s = App THEN Transitioning(keyring, kr2, k2) ELSE {}
        kr3  == StageVersions(kr2, T, FALSE, {})
        R    == Reconcile(kr3, devices, k2 \cup StagedKeys(kr3, T), Scopes, l)
    IN  /\ Exists(keyring, s) /\ ~ Rotating(keyring, s)
        /\ Current(keyring, s) \in Known
        /\ ~ keyring.own[Current(keyring, s)]
        /\ CanStage(kr1, k, l, {s})
        /\ CanStage(kr2, k2, l, T)
        /\ FinishProtectionChange(R, {s} \cup T)

RemovePassword(s) ==
    LET k  == WithAppKeys(keyring, devices, Known, lost)
        l  == FindsLost(keyring, devices, Known, lost, Versions(keyring, App))
        kr == StageVersions(keyring, {s}, FALSE, {})
        R  == Reconcile(kr, devices, k \cup StagedKeys(kr, {s}), Scopes, l)
    IN  /\ Exists(keyring, s) /\ ~ Rotating(keyring, s)
        /\ Current(keyring, s) \in Known
        /\ keyring.own[Current(keyring, s)]
        /\ CanStage(keyring, k, l, {s})
        /\ FinishProtectionChange(R, {s})

--------------------------------------------------
(* Touch ID / Windows Hello and the recovery code. *)

WithPresence(kr, s, W) ==
    [kr EXCEPT !.wraps = [v \in Slots |->
        IF v \in Versions(kr, s) THEN {w \in kr.wraps[v] : w.kind # "presence"} \cup W
                                 ELSE kr.wraps[v]]]

EnablePresence(s) ==
    /\ Exists(keyring, s)
    /\ Versions(keyring, s) \subseteq Known
    /\ keyring.own[Governing(keyring, s)]
    /\ UnusedDevices(keyring, devices) # {}
    /\ LET d == Fresh(UnusedDevices(keyring, devices)) IN
       Finish(WithPresence(keyring, s, {Presence(d)}), keys, fieldKeys, reveal, lost, {})

DisablePresence(s) ==
    LET kr == WithPresence(keyring, s, {}) IN
    /\ Exists(keyring, s)
    /\ kr # keyring
    /\ \A v \in Versions(kr, s) : kr.wraps[v] # {}
    /\ Finish(kr, keys, fieldKeys, reveal, lost, {})

SetupRecovery ==
    LET gov == Governing(keyring, App)
        new == RecoveryIds \ UsedCodes(keyring)
        kr  == [keyring EXCEPT !.recovery =
                   [id |-> Fresh(new), mac |-> gov[2], held |-> keyring.own[gov]]]
    IN  /\ gov \in Known
        /\ new # {}
        /\ Saves(Reconcile(kr, devices, Known, Scopes, lost), keys, fieldKeys, reveal, {})

RemoveRecovery ==
    LET kr == [keyring EXCEPT !.recovery = NoRecovery] IN
    /\ Governing(keyring, App) \in Known
    /\ Saves(Reconcile(kr, devices, Known, Scopes, lost), keys, fieldKeys, reveal, {})

--------------------------------------------------
(* The end of a rotation. *)

CommitRotation(s) ==
    LET new == Staged(keyring, s)
        old == Current(keyring, s)
        kr  == [Without(keyring, {old}) EXCEPT !.cur[s] = new[2], !.staged[s] = None]
    IN  /\ Rotating(keyring, s)
        /\ new \in Known
        /\ Saves(Reconcile(kr, devices, Known, Scopes, lost),
                 (keys \ {old}) \cup {new}, fieldKeys \cup {s}, reveal, {})

AbortRotation(s) ==
    LET new == Staged(keyring, s)
        kr  == [Without(keyring, {new}) EXCEPT !.staged[s] = None]
    IN  /\ s \in MayAbort
        /\ Rotating(keyring, s)
        /\ Saves(Reconcile(kr, devices, Known, Scopes, lost),
                 keys \ {new}, fieldKeys, reveal, {})

--------------------------------------------------
(* Reveal sessions. *)

\* start_reveal after the OS check or the password of the domain.
OpenReveal(s) ==
    /\ Exists(keyring, s) /\ s \in fieldKeys
    /\ reveal' = reveal \cup {RevealDomain(Policy(keyring, Known), s)}
    /\ snap' = Idle
    /\ UNCHANGED <<keyring, keys, fieldKeys, lost, devices, moved, exposed, locked>>

CloseReveal ==
    /\ reveal # {} /\ reveal' = {}
    /\ UNCHANGED <<keyring, keys, fieldKeys, lost, snap, devices, moved, exposed, locked>>

\* Five minutes without a reveal.
RevealExpires(d) ==
    /\ d \in reveal /\ reveal' = reveal \ {d}
    /\ UNCHANGED <<keyring, keys, fieldKeys, lost, snap, devices, moved, exposed, locked>>

--------------------------------------------------
(* The process ends at any moment and starts again; once, on a machine     *)
(* that does not have the device keys.  Device keys nothing refers to are  *)
(* forgotten by the model: nobody can use them again.                      *)

Restart ==
    /\ Exists(keyring, App)
    /\ keys' = {} /\ fieldKeys' = {} /\ reveal' = {} /\ lost' = FALSE
    /\ snap' = Idle
    /\ \/ devices' = devices \cap DeviceKeys(keyring) /\ UNCHANGED moved
       \/ MayMove /\ ~ moved /\ moved' = TRUE /\ devices' = {}
    /\ locked' = {s \in Scopes : Exists(keyring, s) /\ Protected(keyring, s)}
    /\ UNCHANGED <<keyring, exposed>>

--------------------------------------------------
\* An operation that gets as far as its last step.
Operation ==
    \/ Initialize
    \/ \E ids \in SUBSET Workspaces : \E P \in SUBSET (ids \cup {App}) :
          InitializeFromExport(ids, P)
    \/ \E s \in Scopes :
          \/ OpenScope(s)
          \/ UnlockWithPassword(s) \/ UnlockWithPresence(s)
          \/ \E p \in BOOLEAN : CreateScope(s, p)
          \/ DeleteScope(s)
          \/ ChangePassword(s) \/ SetPassword(s) \/ RemovePassword(s)
          \/ EnablePresence(s) \/ DisablePresence(s)
          \/ CommitRotation(s) \/ AbortRotation(s)
          \/ OpenReveal(s)
    \/ \E r \in RecoveryIds : UnlockWithRecovery(r)
    \/ SetupRecovery \/ RemoveRecovery

Next ==
    \/ BeginOp \/ EndWithError \/ DeleteRetired
    \/ MayFinish /\ Operation
    \/ \E s \in Scopes : OpenScopeFails(s) \/ LockScope(s) \/ RevealExpires(s)
    \/ LockProtected
    \/ CloseReveal
    \/ Restart

Spec == Init /\ [][Next]_vars

--------------------------------------------------
(* Properties. *)

\* No version of a protected scope opens without a secret: none keeps a route
\* of the quiet device key, not even through the app's key.
ProtectedNeverQuiet ==
    \A v \in OpensQuietly(keyring, {keyring.quiet}) : ~ Protected(keyring, v[1])

\* The sealed flag of the version that governs and the password route agree, so
\* a locked scope is treated the same as an unlocked one.
FlagMatchesRoute ==
    \A s \in Scopes : Exists(keyring, s) =>
        LET v == Governing(keyring, s) IN keyring.own[v] <=> Password \in keyring.wraps[v]

\* A workspace opens through the app key only while a master password is set.
ParentsNeedMaster ==
    \A v \in AllVersions(keyring) : \A n \in Serials :
        Parent(n) \in keyring.wraps[v] => keyring.own[Governing(keyring, App)]

\* What a user with the passwords and this machine can open.
OpensForUser(v) ==
    LET direct(u) == \/ Password \in keyring.wraps[u]
                     \/ HasQuiet(keyring, u) /\ keyring.quiet \in devices
    IN  \/ direct(v)
        \/ \E a \in Versions(keyring, App) :
              keyring.own[a] /\ Parent(a[2]) \in keyring.wraps[v] /\ direct(a)

\* On the machine the keys were made on, every live version of every scope opens
\* for the user, and no Touch ID route points at a device key that was deleted: no
\* sequence of protection changes, crashes and locks shuts a scope.
NoLockout ==
    ~ moved => /\ \A v \in AllVersions(keyring) : OpensForUser(v)
               /\ PresenceKeys(keyring) \subseteq devices

\* A version sealed with its own password opens with that password anywhere, and a
\* route through the app's key leads to a version of it that is sealed like that.
PasswordTravels ==
    /\ \A v \in AllVersions(keyring) : keyring.own[v] => Password \in keyring.wraps[v]
    /\ \A v \in AllVersions(keyring) : \A n \in Serials :
          Parent(n) \in keyring.wraps[v] /\ <<App, n>> \in AllVersions(keyring)
             => keyring.own[<<App, n>>]

\* Once a protected scope is locked, none of its keys is in memory until an
\* operation that began after the lock opens it.
LockHolds ==
    \A s \in locked : s \notin fieldKeys /\ \A v \in keys : v[1] # s

\* What a secret sealed stays with its holder.  A version sealed with a password was
\* never open without one, except a workspace version on its way out (its password is
\* being removed); the recovery code opens the governing version of a protected scope
\* only if it was made under a master password; and a reveal session of a workspace's
\* own exists only while its own password is what protects it.
SecretsKept ==
    /\ \A v \in exposed : keyring.own[v] => v[1] # App /\ Rotating(keyring, v[1])
    /\ \A s \in Scopes :
          /\ Exists(keyring, s) /\ Protected(keyring, s)
          /\ keyring.recovery # NoRecovery
          /\ Recovery(keyring.recovery.id) \in keyring.wraps[Governing(keyring, s)]
          => keyring.recovery.held
    /\ \A s \in reveal \ {App} :
          keyring.own[Governing(keyring, s)] /\ ~ keyring.own[Governing(keyring, App)]

\* Data of a protected scope with no rotation pending is under a key that no
\* saved keyring ever opened without a secret.
NewKeyUnderNewProtection ==
    \A s \in Scopes :
        Exists(keyring, s) /\ ~ Rotating(keyring, s) /\ Protected(keyring, s)
            => Current(keyring, s) \notin exposed
=============================================================================
