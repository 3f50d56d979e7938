------------------------------ MODULE Rotation ------------------------------
(***************************************************************************)
(* What the keystore promises to its user, the store: which key versions a *)
(* scope has, whether its own password protects it, and whose keys are in  *)
(* memory.  Every call is one step.  Module Keystore implements it (the    *)
(* run keystore); module Store is built on it.                             *)
(*                                                                         *)
(* abort_rotation is not offered: no code of the application calls it.     *)
(***************************************************************************)
EXTENDS Naturals, FiniteSets

CONSTANTS
    App,          \* the app scope
    Workspaces,   \* the workspace scopes that may exist
    Serials,      \* names for the key versions of a scope
    None          \* no version

Scopes == {App} \cup Workspaces

VARIABLES
    cur,      \* the version a scope's database uses (versions[0])
    staged,   \* the version a pending rotation moves it to (versions[1])
    sealed,   \* whether the scope is to have its own password
    open      \* the key versions in memory

keystore == <<cur, staged, sealed, open>>

Exists(s)   == cur[s] # None
Rotating(s) == staged[s] # None
Current(s)  == <<s, cur[s]>>
Staged(s)   == <<s, staged[s]>>

\* Slip: a staged version is taken for granted.
VersionsBoth(s) == {<<s, n>> : n \in {cur[s], staged[s]}}

Versions(s) == {<<s, n>> : n \in {cur[s], staged[s]} \ {None}}
Guarded(s)  == sealed[s] \/ sealed[App]

Unlocked(s) == Exists(s) /\ Current(s) \in open

KeystoreType ==
    /\ cur \in [Scopes -> Serials \cup {None}]
    /\ staged \in [Scopes -> Serials \cup {None}]
    /\ sealed \in [Scopes -> BOOLEAN]
    /\ open \subseteq Scopes \X Serials

KeystoreInit ==
    /\ cur = [s \in Scopes |-> None]
    /\ staged = [s \in Scopes |-> None]
    /\ sealed = [s \in Scopes |-> FALSE]
    /\ open = {}

--------------------------------------------------
\* initialize, initialize_from_export: a first app version, and what a bundle brings.
KsInitialize(ids, P) ==
    /\ \A s \in Scopes : ~ Exists(s)
    /\ \E n \in Serials :
          /\ cur' = [s \in Scopes |-> IF s \in ids \cup {App} THEN n ELSE None]
          /\ open' = (ids \cup {App}) \X {n}
    /\ sealed' = [s \in Scopes |-> s \in P]
    /\ UNCHANGED staged

\* Every unlock adds keys of versions that exist.
KsUnlock(V) ==
    /\ V \subseteq UNION {Versions(s) : s \in Scopes}
    /\ open' = open \cup V
    /\ UNCHANGED <<cur, staged, sealed>>

\* A lock drops the keys of the scopes that something protects.
KsLock(S) ==
    /\ open' = {v \in open : ~ (v[1] \in S /\ Guarded(v[1]))}
    /\ UNCHANGED <<cur, staged, sealed>>

KsForget == open' = {} /\ UNCHANGED <<cur, staged, sealed>>

KsCreate(s, p) ==
    /\ s # App /\ ~ Exists(s) /\ Exists(App)
    /\ \E n \in Serials :
          /\ cur' = [cur EXCEPT ![s] = n]
          /\ open' = open \cup {<<s, n>>}
    /\ sealed' = [sealed EXCEPT ![s] = p]
    /\ UNCHANGED staged

KsDelete(s) ==
    /\ s # App /\ Exists(s)
    /\ cur' = [cur EXCEPT ![s] = None]
    /\ staged' = [staged EXCEPT ![s] = None]
    /\ sealed' = [sealed EXCEPT ![s] = FALSE]
    /\ open' = {v \in open : v[1] # s}

\* The scopes of T get a new version beside the current one; both keys stay in memory.
Stage(T) ==
    \E n \in [T -> Serials] :
        /\ \A s \in T : n[s] # cur[s]
        /\ staged' = [s \in Scopes |-> IF s \in T THEN n[s] ELSE staged[s]]
        /\ open' = open \cup {Current(s) : s \in T} \cup {<<s, n[s]>> : s \in T}

\* Scopes that become protected by a new password of s.
Affected(s) ==
    {s} \cup {w \in Workspaces : s = App /\ Exists(w) /\ ~ Rotating(w) /\ ~ sealed[w]}

KsSetPassword(s) ==
    /\ Unlocked(s) /\ ~ Rotating(s) /\ ~ sealed[s]
    /\ Stage(Affected(s))
    /\ sealed' = [sealed EXCEPT ![s] = TRUE]
    /\ UNCHANGED cur

KsRemovePassword(s) ==
    /\ Unlocked(s) /\ ~ Rotating(s) /\ sealed[s]
    /\ Stage({s})
    /\ sealed' = [sealed EXCEPT ![s] = FALSE]
    /\ UNCHANGED cur

\* The database uses the staged version now.
KsCommit(s) ==
    /\ Rotating(s) /\ Staged(s) \in open
    /\ cur' = [cur EXCEPT ![s] = staged[s]]
    /\ staged' = [staged EXCEPT ![s] = None]
    /\ open' = open \ {Current(s)}
    /\ UNCHANGED sealed

--------------------------------------------------
KeystoreNext ==
    \/ \E ids \in SUBSET Workspaces : \E P \in SUBSET (ids \cup {App}) : KsInitialize(ids, P)
    \/ \E V \in SUBSET (UNION {Versions(s) : s \in Scopes}) : KsUnlock(V)
    \/ KsLock(Scopes)
    \/ \E s \in Workspaces : KsLock({s})
    \/ KsForget
    \/ \E s \in Scopes :
          \/ \E p \in BOOLEAN : KsCreate(s, p)
          \/ KsDelete(s)
          \/ KsSetPassword(s) \/ KsRemovePassword(s) \/ KsCommit(s)

KeystorePromise == KeystoreInit /\ [][KeystoreNext]_keystore
=============================================================================
