------------------------------ MODULE Keyring ------------------------------
(***************************************************************************)
(* The protection policy of the keystore (rust-core/getssh-keystore/src/   *)
(* store.rs): which routes ("wraps") open which key version, and how       *)
(* `reconcile` brings them in line with the policy after every change.     *)
(* This module has no variables; module Keystore is the state machine.     *)
(*                                                                         *)
(* A key version is a slot <<scope, serial>>.  A keyring is a record       *)
(*   cur, staged : scope -> serial or None  versions[0] and versions[1]    *)
(*   own   : slot -> BOOLEAN   the own-password flag sealed in the version *)
(*   wraps : slot -> set of wraps                                          *)
(*   quiet : the quiet device key, or None                                 *)
(*   recovery : [id, mac, held], or NoRecovery.  mac is the app version    *)
(*     whose key made the entry's tag; held records whether a master       *)
(*     password was set then (an observation: the code does not read it).  *)
(* Keys, nonces and ciphertexts are abstracted to who can open what: a     *)
(* wrap opens its version for whoever holds what the wrap refers to.  The  *)
(* file is the one the program wrote (no tampering).                       *)
(***************************************************************************)
EXTENDS Naturals, FiniteSets

CONSTANTS
    App,          \* the app scope
    Workspaces,   \* the workspace scopes that may exist
    Serials,      \* names for the key versions of a scope
    DeviceIds,    \* names for the keys a device can hold
    RecoveryIds,  \* names for recovery codes
    None          \* no version, no device key, no code

ASSUME KeyringConstants ==
    /\ App \notin Workspaces
    /\ Serials # {}
    /\ None \notin Serials /\ None \notin DeviceIds /\ None \notin RecoveryIds

Scopes == {App} \cup Workspaces
Slots  == Scopes \X Serials

Password     == [kind |-> "password", ref |-> None]
Device(d)    == [kind |-> "device",   ref |-> d]
Presence(d)  == [kind |-> "presence", ref |-> d]
Parent(n)    == [kind |-> "parent",   ref |-> n]
Recovery(r)  == [kind |-> "recovery", ref |-> r]

Wraps == {Password} \cup {Device(d) : d \in DeviceIds}
                    \cup {Presence(d) : d \in DeviceIds}
                    \cup {Parent(n) : n \in Serials}
                    \cup {Recovery(r) : r \in RecoveryIds}

NoRecovery == [id |-> None, mac |-> None, held |-> FALSE]

Keyrings ==
    [ cur      : [Scopes -> Serials \cup {None}],
      staged   : [Scopes -> Serials \cup {None}],
      own      : [Slots -> BOOLEAN],
      wraps    : [Slots -> SUBSET Wraps],
      quiet    : DeviceIds \cup {None},
      recovery : {NoRecovery} \cup [id : RecoveryIds, mac : Serials, held : BOOLEAN] ]

Empty ==
    [ cur      |-> [s \in Scopes |-> None],
      staged   |-> [s \in Scopes |-> None],
      own      |-> [v \in Slots |-> FALSE],
      wraps    |-> [v \in Slots |-> {}],
      quiet    |-> None,
      recovery |-> NoRecovery ]

Exists(kr, s)   == kr.cur[s] # None
Current(kr, s)  == <<s, kr.cur[s]>>
Staged(kr, s)   == <<s, kr.staged[s]>>
Rotating(kr, s) == kr.staged[s] # None

\* The last version: its sealed record decides how the scope is protected.
Governing(kr, s) == IF Rotating(kr, s) THEN Staged(kr, s) ELSE Current(kr, s)

\* Protection according to the sealed records (what IsProtected tries to know).
Protected(kr, s) == kr.own[Governing(kr, s)] \/ kr.own[Governing(kr, App)]

Versions(kr, s) == {<<s, n>> : n \in {kr.cur[s], kr.staged[s]} \ {None}}
AllVersions(kr) == UNION {Versions(kr, s) : s \in Scopes}

PresenceKeys(kr) == {d \in DeviceIds : \E v \in Slots : Presence(d) \in kr.wraps[v]}
DeviceKeys(kr)   == PresenceKeys(kr)
                    \cup {d \in DeviceIds : d = kr.quiet}
                    \cup {d \in DeviceIds : \E v \in Slots : Device(d) \in kr.wraps[v]}

\* Slip: the quiet key is retired although it was kept.
RetiredWithQuiet(old, new) ==
    (PresenceKeys(old) \ PresenceKeys(new)) \cup ({old.quiet} \ {None})

\* Slip: a dropped presence key is deleted though another version still uses it.
RetiredUnchecked(old, new) ==
    {d \in DeviceIds : \E v \in Slots : Presence(d) \in old.wraps[v] \ new.wraps[v]}
    \cup ({old.quiet} \ {new.quiet, None})

\* Slip: a first quiet key "replaces" no key at all.
RetiredNoKey(old, new) ==
    (PresenceKeys(old) \ PresenceKeys(new)) \cup ({old.quiet} \ {new.quiet})

\* Presence keys that no wrap uses any more, and a quiet key that was replaced.
Retired(old, new) ==
    (PresenceKeys(old) \ PresenceKeys(new)) \cup ({old.quiet} \ {new.quiet, None})

--------------------------------------------------
\* Slip: workspaces with their own password are covered by any code.
CoveredByAnyCode(kr, open, master) == IF kr.recovery = NoRecovery THEN {} ELSE Scopes

\* recovery_may_cover: unprotected scopes, and every scope under a master password
\* if the code was made with the governing app key in hand (recovery_trusted).
Covered(kr, open, master) ==
    IF kr.recovery = NoRecovery THEN {}
    ELSE IF master /\ kr.recovery.mac = Governing(kr, App)[2] THEN Scopes
    ELSE open

(* Policy::build: what the keyring and the keys in memory say.             *)
(*   own     the own-password flag of each scope: the sealed record where  *)
(*           the key is known, otherwise the file's password route         *)
(*   open    scopes that sealed records say are unprotected                *)
(*   parents app versions that workspace keys are to be wrapped under      *)
(*   covered scopes that may get a recovery route                          *)
Policy(kr, known) ==
    LET verified(s) == Exists(kr, s) /\ Governing(kr, s) \in known
        own     == [s \in Scopes |->
                      IF verified(s) THEN kr.own[Governing(kr, s)]
                      ELSE Exists(kr, s) /\ Password \in kr.wraps[Governing(kr, s)]]
        open    == {s \in Scopes : verified(s) /\ verified(App) /\ ~ own[s] /\ ~ own[App]}
        master  == verified(App) /\ own[App]
    IN  [ own     |-> own,
          open    |-> open,
          parents |-> {v[2] : v \in {a \in Versions(kr, App) :
                                       master /\ a \in known /\ kr.own[a]}},
          covered |-> Covered(kr, open, master) ]

\* Slip: the master password is forgotten.
IsProtectedAlone(pol, s) == pol.own[s]

IsProtected(pol, s) == pol.own[s] \/ pol.own[App]

\* Slip: every app version may be quiet.
QuietAllowedAnyVersion(kr, pol, v) == v[1] \in pol.open

\* An app version about to be retired never gets a quiet route.
QuietAllowed(kr, pol, v) ==
    v[1] \in pol.open /\ (v[1] = App => v = Governing(kr, App))

HasQuiet(kr, v) == kr.quiet # None /\ Device(kr.quiet) \in kr.wraps[v]

\* Slip: parent routes outlive the master password.
ForbiddenParentKept(kr, pol, known, v, n) ==
    \/ v[1] = App
    \/ <<App, n>> \in Versions(kr, App) \cap known /\ ~ kr.own[<<App, n>>]

ForbiddenParent(kr, pol, known, v, n) ==
    \/ v[1] = App
    \/ ~ pol.own[App]
    \/ <<App, n>> \in Versions(kr, App) \cap known /\ ~ kr.own[<<App, n>>]

\* Routes that would bypass the protection: always removed.
Forbidden(kr, pol, known, v, w) ==
    \/ w.kind = "device" /\ w.ref = kr.quiet /\ IsProtected(pol, v[1])
    \/ w.kind = "presence" /\ ~ pol.own[v[1]] /\ ~ (v \in known /\ kr.own[v])
    \/ w.kind = "parent" /\ ForbiddenParent(kr, pol, known, v, w.ref)

\* Slip: a password being removed is dropped before the rotation is committed.
StaleEarly(kr, known, v, w) ==
    \/ w.kind = "device" /\ w.ref # kr.quiet
    \/ w.kind = "parent" /\ <<App, w.ref>> \notin Versions(kr, App)
    \/ w.kind = "recovery" /\ w.ref # kr.recovery.id
    \/ /\ w.kind = "password"
       /\ Governing(kr, v[1]) \in known /\ ~ kr.own[Governing(kr, v[1])]

\* Leftovers: a replaced device key, an old code, a retired app key, a password nobody set.
Stale(kr, known, v, w) ==
    \/ w.kind = "device" /\ w.ref # kr.quiet
    \/ w.kind = "parent" /\ <<App, w.ref>> \notin Versions(kr, App)
    \/ w.kind = "recovery" /\ w.ref # kr.recovery.id
    \/ /\ w.kind = "password"
       /\ {v, Governing(kr, v[1])} \subseteq known
       /\ ~ kr.own[v] /\ ~ kr.own[Governing(kr, v[1])]

Allowed(kr, pol, known, v) == {w \in kr.wraps[v] : ~ Forbidden(kr, pol, known, v, w)}
Kept(kr, pol, known, v) == {w \in Allowed(kr, pol, known, v) : ~ Stale(kr, known, v, w)}

\* The routes the policy wants on a version whose key is known.
Wanted(kr, pol, v) ==
    (IF QuietAllowed(kr, pol, v) THEN {Device(kr.quiet)} ELSE {})
    \cup (IF v[1] # App THEN {Parent(n) : n \in pol.parents} ELSE {})
    \cup (IF v[1] \in pol.covered THEN {Recovery(kr.recovery.id)} ELSE {})

NeedsWork(kr, pol, known, v) ==
    \/ Kept(kr, pol, known, v) # kr.wraps[v]
    \/ ~ Wanted(kr, pol, v) \subseteq kr.wraps[v]

--------------------------------------------------
(* obtain_quietly: a key that needs no prompt.  `devs` are the keys that   *)
(* exist on this machine; `lost` is quiet_device_lost.                     *)

ThroughMemory(kr, known, v) ==
    \/ v \in known
    \/ \E a \in Versions(kr, App) \cap known : kr.own[a] /\ Parent(a[2]) \in kr.wraps[v]

Obtains(kr, devs, known, lost, v) ==
    ThroughMemory(kr, known, v) \/ (~ lost /\ HasQuiet(kr, v) /\ kr.quiet \in devs)

AsksDevice(kr, known, lost, v) ==
    ~ ThroughMemory(kr, known, v) /\ ~ lost /\ HasQuiet(kr, v)

FindsLost(kr, devs, known, lost, V) ==
    lost \/ (kr.quiet \notin devs /\ \E v \in V : AsksDevice(kr, known, lost, v))

WithAppKeys(kr, devs, known, lost) ==
    known \cup {v \in Versions(kr, App) : Obtains(kr, devs, known, lost, v)}

--------------------------------------------------
(* reconcile over the scopes `ids`. *)

LiveIn(kr, ids) == UNION {Versions(kr, s) : s \in ids}

\* Versions that need a change but whose key is not in memory.
WorkVersions(kr, known, ids) ==
    LET pol == Policy(kr, known) IN
    {v \in LiveIn(kr, ids) \ known : NeedsWork(kr, pol, known, v)}

\* apply_policy on one version; no routes at all means that it fails.
Applied(kr, pol, known, v) ==
    LET kept == Kept(kr, pol, known, v) IN
    IF v \in known THEN kept \cup Wanted(kr, pol, v)
    ELSE IF kept # {} THEN kept
    ELSE IF Allowed(kr, pol, known, v) = kr.wraps[v] THEN kr.wraps[v] ELSE {}

UnusedDevices(kr, devs) == DeviceIds \ (devs \cup DeviceKeys(kr))
Fresh(S) == IF S = {} THEN None ELSE CHOOSE x \in S : TRUE

ApplyPolicy(kr, pol, known, ids) ==
    LET live == LiveIn(kr, ids) IN
    [kr EXCEPT !.wraps = [v \in Slots |->
        IF v \in live THEN Applied(kr, pol, known, v) ELSE kr.wraps[v]]]

\* The end of a pass that has the keys k: the policy is applied.  A quiet key is
\* created when an unprotected scope needs one and this machine has none.
\*   ok      no version is left closed (and the model has a name for a new key)
\*   device  the pass asks the device for something, which may fail
Outcome(kr, devs, ids, k, l, asked, pol) ==
    LET adds == \E v \in LiveIn(kr, ids) : QuietAllowed(kr, pol, v) /\ ~ HasQuiet(kr, v)
        repl == /\ ids \cap pol.open # {}
                /\ kr.quiet = None \/ l \/ (adds /\ kr.quiet \notin devs)
        new  == UnusedDevices(kr, devs)
        q    == IF repl THEN [kr EXCEPT !.quiet = Fresh(new)] ELSE kr
        done == ApplyPolicy(q, pol, k, ids)
    IN  [ ok      |-> (repl => new # {}) /\ \A v \in LiveIn(q, ids) : done.wraps[v] # {},
          keyring |-> done,
          known   |-> k,
          lost    |-> l /\ ~ repl,
          device  |-> repl \/ adds \/ asked ]

\* The keys of the versions that need work are obtained first, quietly.
Obtaining(kr, devs, known, ids, lost, k1, work) ==
    LET k2 == k1 \cup {v \in work : Obtains(kr, devs, k1, lost, v)} IN
    Outcome(kr, devs, ids, k2,
            FindsLost(kr, devs, k1, lost, Versions(kr, App) \cup work),
            \E v \in Versions(kr, App) \cup work : AsksDevice(kr, known, lost, v),
            Policy(kr, k2))

Reconcile(kr, devs, known, ids, lost) ==
    LET k1 == WithAppKeys(kr, devs, known, lost) IN
    Obtaining(kr, devs, known, ids, lost, k1, WorkVersions(kr, k1, ids))
=============================================================================
