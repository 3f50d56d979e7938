--------------------------- MODULE KeystoreProofs ---------------------------
(***************************************************************************)
(* The keystore keeps its types and never leaves a protected scope with a  *)
(* quiet route, for every set of workspaces, versions, device keys and     *)
(* codes and however operations, locks and restarts interleave.            *)
(*                                                                         *)
(* The invariant is the one `reconcile` needs and restores, shown first: a *)
(* well-formed keyring whose flags and password routes agree.  An aborted  *)
(* rotation of a workspace may leave a password route whose flag is gone:  *)
(* L is the set of workspaces that are allowed that.                       *)
(***************************************************************************)
EXTENDS MCKeystore, TLAPS

--------------------------------------------------
(***************************************************************************)
(* What `reconcile` guarantees: whatever keys are in memory, the keyring   *)
(* it returns is well formed, and no protected scope it worked on keeps a  *)
(* quiet route.                                                            *)
(***************************************************************************)

\* A workspace needs the app, and a staged version a current one.
Shape(kr) ==
    \A s \in Scopes : /\ Exists(kr, s) => Exists(kr, App)
                      /\ Rotating(kr, s) => Exists(kr, s)

\* The governing version's sealed flag and its password route agree; of the scopes L
\* only that a flag has its route.
FlagMatches(kr, s, L) ==
    /\ kr.own[Governing(kr, s)] => Password \in kr.wraps[Governing(kr, s)]
    /\ Password \in kr.wraps[Governing(kr, s)] => kr.own[Governing(kr, s)] \/ s \in L
FlagsMatch(kr, L) == \A s \in Scopes : Exists(kr, s) => FlagMatches(kr, s, L)

\* Version v: no quiet route under protection, no parent route without a master password.
RoutesSound(kr, v) ==
    /\ kr.quiet # None /\ Device(kr.quiet) \in kr.wraps[v] => ~ Protected(kr, v[1])
    /\ \A n \in Serials : Parent(n) \in kr.wraps[v] => kr.own[Governing(kr, App)]

Sound(kr, L) ==
    Shape(kr) /\ FlagsMatch(kr, L) /\ \A v \in AllVersions(kr) : RoutesSound(kr, v)

--------------------------------------------------
\* The versions of a keyring are slots.
LEMMA VersionsAreSlots ==
  ASSUME NEW kr \in Keyrings
  PROVE  /\ \A s \in Scopes : Versions(kr, s) \subseteq Slots
         /\ AllVersions(kr) \subseteq Slots
         /\ \A v \in AllVersions(kr) : v[1] \in Scopes /\ v \in Versions(kr, v[1])
BY DEF Keyrings, Versions, AllVersions, Slots, Scopes

\* The governing version of a scope that exists is one of its versions.
LEMMA GoverningIsVersion ==
  ASSUME NEW kr \in Keyrings, NEW s \in Scopes, Exists(kr, s)
  PROVE  /\ Governing(kr, s) \in Slots
         /\ Governing(kr, s) \in Versions(kr, s)
         /\ Governing(kr, s) \in AllVersions(kr)
         /\ Governing(kr, s)[1] = s
BY DEF Keyrings, Versions, AllVersions, Slots, Scopes, Governing, Exists, Rotating,
       Staged, Current

\* On a keyring whose flags match, the policy takes no protected scope for unprotected,
\* whether its key is in memory or not, and knows the truth about all but those of L.
LEMMA PolicyIsTrue ==
  ASSUME NEW L \in SUBSET Workspaces,
         NEW kr \in Keyrings, NEW known, Shape(kr), FlagsMatch(kr, L),
         NEW s \in Scopes, Exists(kr, s)
  PROVE  /\ kr.own[Governing(kr, s)] => Policy(kr, known).own[s]
         /\ s \notin L => Policy(kr, known).own[s] = kr.own[Governing(kr, s)]
         /\ Policy(kr, known).own[App] = kr.own[Governing(kr, App)]
         /\ s \in Policy(kr, known).open => ~ Protected(kr, s)
         /\ \A n \in Policy(kr, known).parents : kr.own[Governing(kr, App)]
<1>1. App \in Scopes /\ Exists(kr, App) /\ App \notin L BY KeyringConstants DEF Shape, Scopes
<1>2. \A t \in Scopes : Exists(kr, t) =>
          /\ kr.own[Governing(kr, t)] => Policy(kr, known).own[t]
          /\ t \notin L => Policy(kr, known).own[t] = kr.own[Governing(kr, t)]
          /\ Governing(kr, t) \in known => Policy(kr, known).own[t] = kr.own[Governing(kr, t)]
 <2> SUFFICES ASSUME NEW t \in Scopes, Exists(kr, t)
              PROVE  /\ kr.own[Governing(kr, t)] => Policy(kr, known).own[t]
                     /\ t \notin L => Policy(kr, known).own[t] = kr.own[Governing(kr, t)]
                     /\ Governing(kr, t) \in known
                           => Policy(kr, known).own[t] = kr.own[Governing(kr, t)]
  OBVIOUS
 <2>1. Governing(kr, t) \in Slots BY GoverningIsVersion
 <2>2. kr.own[Governing(kr, t)] \in BOOLEAN BY <2>1 DEF Keyrings
 <2>3. FlagMatches(kr, t, L) BY DEF FlagsMatch
 <2>4. Policy(kr, known).own[t] =
          IF Governing(kr, t) \in known THEN kr.own[Governing(kr, t)]
          ELSE Password \in kr.wraps[Governing(kr, t)]
  BY DEF Policy
 <2> QED BY <2>2, <2>3, <2>4 DEF FlagMatches
<1>3. s \in Policy(kr, known).open =>
          /\ ~ Policy(kr, known).own[s] /\ ~ Policy(kr, known).own[App]
          /\ Governing(kr, s) \in known
 BY DEF Policy
<1>4. \A n \in Policy(kr, known).parents : Policy(kr, known).own[App] BY DEF Policy
<1> QED BY <1>1, <1>2, <1>3, <1>4 DEF Protected

--------------------------------------------------
\* A name for a new device key is one nothing refers to.
LEMMA FreshIsUnused ==
  ASSUME NEW kr, NEW devs, UnusedDevices(kr, devs) # {}
  PROVE  /\ Fresh(UnusedDevices(kr, devs)) \in DeviceIds
         /\ Fresh(UnusedDevices(kr, devs)) \notin DeviceKeys(kr)
<1>1. Fresh(UnusedDevices(kr, devs)) \in UnusedDevices(kr, devs) BY DEF Fresh
<1> QED BY <1>1 DEF UnusedDevices

\* Result R of a pass over `ids` is the policy of the keys k applied with quiet key d.
AppliesWith(R, kr, ids, k, d) ==
    /\ R.known = k
    /\ R.keyring = ApplyPolicy([kr EXCEPT !.quiet = d], Policy(kr, k), k, ids)
    /\ d = kr.quiet \/ (d \in DeviceIds /\ d \notin DeviceKeys(kr))
    /\ ids \cap Policy(kr, k).open # {} => d # None
    /\ R.lost \in BOOLEAN

\* A successful pass applies the policy of some set k of keys, with the quiet key it
\* found or a new one; a scope verified to be unprotected has a quiet key then.
LEMMA ReconcileResult ==
  ASSUME NEW kr \in Keyrings, NEW devs, NEW known \in SUBSET Slots,
         NEW ids \in SUBSET Scopes, NEW deviceGone \in BOOLEAN,
         Reconcile(kr, devs, known, ids, deviceGone).ok
  PROVE  \E k \in SUBSET Slots, d \in DeviceIds \cup {None} :
            AppliesWith(Reconcile(kr, devs, known, ids, deviceGone), kr, ids, k, d)
<1> DEFINE R == Reconcile(kr, devs, known, ids, deviceGone)
           k1 == WithAppKeys(kr, devs, known, deviceGone)
           work == WorkVersions(kr, k1, ids)
           k2 == k1 \cup {v \in work : Obtains(kr, devs, k1, deviceGone, v)}
           l == FindsLost(kr, devs, k1, deviceGone, Versions(kr, App) \cup work)
           pol == Policy(kr, k2)
           adds == \E v \in LiveIn(kr, ids) : QuietAllowed(kr, pol, v) /\ ~ HasQuiet(kr, v)
           repl == /\ ids \cap pol.open # {}
                   /\ kr.quiet = None \/ l \/ (adds /\ kr.quiet \notin devs)
           new == UnusedDevices(kr, devs)
           q == IF repl THEN [kr EXCEPT !.quiet = Fresh(new)] ELSE kr
<1>1. /\ R.known = k2
      /\ R.keyring = ApplyPolicy(q, pol, k2, ids)
      /\ R.lost = (l /\ ~ repl)
      /\ R.ok => (repl => new # {})
 BY DEF Reconcile, Obtaining, Outcome
<1>2. k2 \in SUBSET Slots
 <2>1. k1 \subseteq Slots BY VersionsAreSlots DEF WithAppKeys, Scopes
 <2>2. work \subseteq Slots BY VersionsAreSlots DEF WorkVersions, LiveIn
 <2> QED BY <2>1, <2>2
<1>3. R.lost \in BOOLEAN BY <1>1
<1>4. \E d \in DeviceIds \cup {None} : AppliesWith(R, kr, ids, k2, d)
 <2>1. CASE repl
  <3>1. Fresh(new) \in DeviceIds /\ Fresh(new) \notin DeviceKeys(kr)
   BY <1>1, <2>1, FreshIsUnused
  <3>2. q = [kr EXCEPT !.quiet = Fresh(new)] BY <2>1
  <3>3. AppliesWith(R, kr, ids, k2, Fresh(new))
   BY <1>1, <1>3, <3>1, <3>2, KeyringConstants DEF AppliesWith
  <3> QED BY <3>1, <3>3
 <2>2. CASE ~ repl
  <3>1. q = [kr EXCEPT !.quiet = kr.quiet] BY <2>2 DEF Keyrings
  <3>2. ids \cap pol.open # {} => kr.quiet # None BY <2>2
  <3>3. AppliesWith(R, kr, ids, k2, kr.quiet) BY <1>1, <1>3, <3>1, <3>2 DEF AppliesWith
  <3> QED BY <3>3 DEF Keyrings
 <2> QED BY <2>1, <2>2
<1> HIDE DEF k2
<1> QED BY <1>2, <1>4

--------------------------------------------------
\* What apply_policy leaves on a version it worked on: routes that were there and are
\* not forbidden, and routes the policy wants.
LEMMA AppliedRoutes ==
  ASSUME NEW q, NEW pol, NEW k, NEW v, NEW w \in Applied(q, pol, k, v)
  PROVE  \/ w \in q.wraps[v] /\ ~ Forbidden(q, pol, k, v, w)
         \/ w \in Wanted(q, pol, v)
BY DEF Applied, Kept, Allowed

\* A password route stays on a version sealed with its own password.
LEMMA PasswordStays ==
  ASSUME NEW q, NEW pol, NEW k, NEW v, q.own[v], Password \in q.wraps[v]
  PROVE  Password \in Applied(q, pol, k, v)
<1>1. ~ Forbidden(q, pol, k, v, Password) BY DEF Forbidden, Password
<1>2. ~ Stale(q, k, v, Password) BY DEF Stale, Password
<1>3. Password \in Kept(q, pol, k, v) BY <1>1, <1>2 DEF Kept, Allowed
<1> QED BY <1>3 DEF Applied

\* No pass adds a password route.
LEMMA WantedRoutes ==
  ASSUME NEW q, NEW pol, NEW v
  PROVE  /\ Password \notin Wanted(q, pol, v)
         /\ \A d : Device(d) \in Wanted(q, pol, v) => v[1] \in pol.open
         /\ \A n : Parent(n) \in Wanted(q, pol, v) => n \in pol.parents
BY DEF Wanted, QuietAllowed, Password, Device, Parent, Recovery

\* Applying the policy of any set k of keys makes the versions of `ids` sound, and
\* leaves the others sound if the quiet key is the old one or a new one.
LEMMA ApplyPolicySound ==
  ASSUME NEW L \in SUBSET Workspaces,
         NEW kr \in Keyrings, NEW k, NEW d \in DeviceIds \cup {None},
         NEW ids \in SUBSET Scopes, Shape(kr), FlagsMatch(kr, L),
         d = kr.quiet \/ (d \in DeviceIds /\ d \notin DeviceKeys(kr)),
         \A v \in AllVersions(kr) : v[1] \notin ids => RoutesSound(kr, v)
  PROVE  Sound(ApplyPolicy([kr EXCEPT !.quiet = d], Policy(kr, k), k, ids), L)
<1> DEFINE q == [kr EXCEPT !.quiet = d]
           pol == Policy(kr, k)
           r == ApplyPolicy(q, pol, k, ids)
<1>1. /\ q.cur = kr.cur /\ q.staged = kr.staged /\ q.own = kr.own
      /\ q.wraps = kr.wraps /\ q.quiet = d
 BY DEF Keyrings
<1>2. /\ r.cur = kr.cur /\ r.staged = kr.staged /\ r.own = kr.own /\ r.quiet = d
      /\ r.wraps = [v \in Slots |-> IF v \in LiveIn(q, ids) THEN Applied(q, pol, k, v)
                                    ELSE kr.wraps[v]]
 BY <1>1 DEF ApplyPolicy, Keyrings
<1>3. \A s \in Scopes : /\ Exists(r, s) = Exists(kr, s)
                        /\ Rotating(r, s) = Rotating(kr, s)
                        /\ Governing(r, s) = Governing(kr, s)
                        /\ Governing(q, s) = Governing(kr, s)
                        /\ Versions(r, s) = Versions(kr, s)
 BY <1>1, <1>2 DEF Exists, Rotating, Governing, Staged, Current, Versions
<1>4. AllVersions(r) = AllVersions(kr) /\ LiveIn(q, ids) \subseteq AllVersions(kr)
 BY <1>1, <1>3 DEF AllVersions, LiveIn, Versions
<1>5. \A v \in AllVersions(kr) : v \in LiveIn(q, ids) <=> v[1] \in ids
 BY <1>1 DEF AllVersions, LiveIn, Versions
<1>6. \A v \in AllVersions(kr) : v \in Slots /\ v[1] \in Scopes /\ Exists(kr, v[1])
 BY VersionsAreSlots DEF Shape, Versions, Exists, Rotating
<1>7. App \in Scopes BY DEF Scopes
<1> HIDE DEF q, pol, r
<1>8. Shape(r) BY <1>3, <1>7 DEF Shape
<1>9. FlagsMatch(r, L)
 <2> SUFFICES ASSUME NEW s \in Scopes, Exists(kr, s)
              PROVE  /\ r.own[Governing(kr, s)] => Password \in r.wraps[Governing(kr, s)]
                     /\ Password \in r.wraps[Governing(kr, s)]
                           => r.own[Governing(kr, s)] \/ s \in L
  BY <1>3 DEF FlagsMatch, FlagMatches
 <2> DEFINE v == Governing(kr, s)
 <2>1. /\ v \in Slots
       /\ kr.own[v] => Password \in kr.wraps[v]
       /\ Password \in kr.wraps[v] => kr.own[v] \/ s \in L
  BY GoverningIsVersion DEF FlagsMatch, FlagMatches
 <2>2. CASE v \in LiveIn(q, ids)
  <3>1. r.wraps[v] = Applied(q, pol, k, v) BY <1>2, <2>1, <2>2
  <3>2. kr.own[v] => Password \in Applied(q, pol, k, v) BY <1>1, <2>1, PasswordStays
  <3>3. Password \in Applied(q, pol, k, v) => Password \in kr.wraps[v]
   BY <1>1, AppliedRoutes, WantedRoutes
  <3> QED BY <1>2, <2>1, <3>1, <3>2, <3>3
 <2>3. CASE v \notin LiveIn(q, ids) BY <1>2, <2>1, <2>3
 <2> QED BY <2>2, <2>3
<1>10. ASSUME NEW v \in AllVersions(kr) PROVE RoutesSound(r, v)
 <2>1. v \in Slots /\ v[1] \in Scopes /\ Exists(kr, v[1]) BY <1>6
 <2>2. Protected(r, v[1]) = Protected(kr, v[1]) BY <1>2, <1>3, <1>7, <2>1 DEF Protected
 <2>3. Governing(r, App) = Governing(kr, App) BY <1>3, <1>7
 <2>4. CASE v[1] \in ids
  <3>1. r.wraps[v] = Applied(q, pol, k, v) BY <1>2, <1>5, <2>1, <2>4
  <3>2. /\ kr.own[Governing(kr, v[1])] => pol.own[v[1]]
        /\ pol.own[App] = kr.own[Governing(kr, App)]
        /\ v[1] \in pol.open => ~ Protected(kr, v[1])
        /\ \A n \in pol.parents : kr.own[Governing(kr, App)]
   BY <2>1, PolicyIsTrue DEF pol
  <3>3. ASSUME d # None, Device(d) \in Applied(q, pol, k, v)
        PROVE  ~ Protected(kr, v[1])
   <4>1. CASE ~ Forbidden(q, pol, k, v, Device(d))
    BY <1>1, <3>2, <4>1 DEF Forbidden, Device, IsProtected, Protected
   <4>2. CASE Device(d) \in Wanted(q, pol, v) BY <3>2, <4>2, WantedRoutes
   <4> QED BY <3>3, <4>1, <4>2, AppliedRoutes
  <3>4. ASSUME NEW n \in Serials, Parent(n) \in Applied(q, pol, k, v)
        PROVE  kr.own[Governing(kr, App)]
   <4>1. CASE ~ Forbidden(q, pol, k, v, Parent(n))
    BY <3>2, <4>1 DEF Forbidden, ForbiddenParent, Parent
   <4>2. CASE Parent(n) \in Wanted(q, pol, v) BY <3>2, <4>2, WantedRoutes
   <4> QED BY <3>4, <4>1, <4>2, AppliedRoutes
  <3> QED BY <1>2, <2>2, <2>3, <3>1, <3>3, <3>4 DEF RoutesSound
 <2>5. CASE v[1] \notin ids
  <3>1. r.wraps[v] = kr.wraps[v] /\ RoutesSound(kr, v) BY <1>2, <1>5, <2>1, <2>5
  <3>2. d # None /\ Device(d) \in kr.wraps[v] => d = kr.quiet BY <2>1 DEF DeviceKeys
  <3> QED BY <1>2, <2>2, <2>3, <3>1, <3>2 DEF RoutesSound
 <2> QED BY <2>4, <2>5
<1> QED BY <1>4, <1>8, <1>9, <1>10 DEF Sound, r, q, pol

\* The routes the policy wants are well formed if there is a quiet key to point them at.
LEMMA ApplyPolicyType ==
  ASSUME NEW kr \in Keyrings, NEW k, NEW d \in DeviceIds \cup {None},
         NEW ids \in SUBSET Scopes,
         ids \cap Policy(kr, k).open # {} => d # None
  PROVE  ApplyPolicy([kr EXCEPT !.quiet = d], Policy(kr, k), k, ids) \in Keyrings
<1> DEFINE q == [kr EXCEPT !.quiet = d]
           pol == Policy(kr, k)
<1>1. /\ q \in Keyrings
      /\ q.wraps = kr.wraps /\ q.quiet = d /\ q.recovery = kr.recovery
      /\ q.cur = kr.cur /\ q.staged = kr.staged
 BY DEF Keyrings
<1>2. pol.parents \subseteq Serials
 <2>1. Versions(kr, App) \subseteq Slots BY VersionsAreSlots DEF Scopes
 <2>2. \A a \in Versions(kr, App) : a[2] \in Serials BY <2>1 DEF Slots
 <2>3. \A n \in pol.parents : \E a \in Versions(kr, App) : n = a[2] BY DEF Policy
 <2> QED BY <2>2, <2>3
<1>3. pol.covered # {} => kr.recovery.id \in RecoveryIds BY DEF Policy, Covered, Keyrings
<1> HIDE DEF pol
<1>4. ASSUME NEW v \in Slots, v \in LiveIn(q, ids)
      PROVE  Applied(q, pol, k, v) \subseteq Wraps
 <2>1. v[1] \in ids BY <1>4 DEF LiveIn, Versions
 <2>2. q.wraps[v] \subseteq Wraps BY <1>1 DEF Keyrings
 <2>3. QuietAllowed(q, pol, v) => Device(d) \in Wraps BY <2>1 DEF QuietAllowed, Wraps, pol
 <2>4. \A n \in pol.parents : Parent(n) \in Wraps BY <1>2 DEF Wraps
 <2>5. v[1] \in pol.covered => Recovery(kr.recovery.id) \in Wraps BY <1>3 DEF Wraps
 <2>6. Wanted(q, pol, v) \subseteq Wraps BY <1>1, <2>3, <2>4, <2>5 DEF Wanted
 <2> QED BY <2>2, <2>6, AppliedRoutes
<1>5. [v \in Slots |-> IF v \in LiveIn(q, ids) THEN Applied(q, pol, k, v) ELSE q.wraps[v]]
          \in [Slots -> SUBSET Wraps]
 BY <1>1, <1>4 DEF Keyrings
<1> QED BY <1>1, <1>5 DEF ApplyPolicy, Keyrings, pol
--------------------------------------------------
\* A successful pass over `ids` returns a well-formed and sound keyring, whatever keys
\* are in memory and however the versions of `ids` were open before; only routes and the
\* quiet key change.
THEOREM ReconcileSound ==
  ASSUME NEW L \in SUBSET Workspaces,
         NEW kr \in Keyrings, NEW devs, NEW known \in SUBSET Slots,
         NEW ids \in SUBSET Scopes, NEW deviceGone \in BOOLEAN,
         Shape(kr), FlagsMatch(kr, L),
         \A v \in AllVersions(kr) : v[1] \notin ids => RoutesSound(kr, v),
         Reconcile(kr, devs, known, ids, deviceGone).ok
  PROVE  /\ Reconcile(kr, devs, known, ids, deviceGone).keyring \in Keyrings
         /\ Sound(Reconcile(kr, devs, known, ids, deviceGone).keyring, L)
         /\ Reconcile(kr, devs, known, ids, deviceGone).known \in SUBSET Slots
         /\ Reconcile(kr, devs, known, ids, deviceGone).lost \in BOOLEAN
<1>1. PICK k \in SUBSET Slots, d \in DeviceIds \cup {None} :
          AppliesWith(Reconcile(kr, devs, known, ids, deviceGone), kr, ids, k, d)
 BY ReconcileResult
<1>2. ApplyPolicy([kr EXCEPT !.quiet = d], Policy(kr, k), k, ids) \in Keyrings
 BY <1>1, ApplyPolicyType DEF AppliesWith
<1>3. Sound(ApplyPolicy([kr EXCEPT !.quiet = d], Policy(kr, k), k, ids), L)
 BY <1>1, ApplyPolicySound DEF AppliesWith
<1> QED BY <1>1, <1>2, <1>3 DEF AppliesWith

--------------------------------------------------
\* The states of the program.

IInv(L) == TypeOK /\ Sound(keyring, L)

--------------------------------------------------
\* What an operation reads from memory and from its snapshot is well typed.
LEMMA SnapshotType ==
  ASSUME TypeOK
  PROVE  /\ keyring \in Keyrings /\ Known \in SUBSET Slots
         /\ WithAppKeys(keyring, devices, Known, lost) \in SUBSET Slots
         /\ \A V : FindsLost(keyring, devices, Known, lost, V) \in BOOLEAN
<1>1. keyring \in Keyrings /\ Known \in SUBSET Slots /\ lost \in BOOLEAN BY DEF TypeOK, Known
<1>2. Versions(keyring, App) \subseteq Slots BY <1>1, VersionsAreSlots DEF Scopes
<1> QED BY <1>1, <1>2 DEF WithAppKeys, FindsLost

\* Saving a sound keyring keeps the invariant.
LEMMA FinishKeeps ==
  ASSUME NEW L \in SUBSET Workspaces, IInv(L),
         NEW kr \in Keyrings, Sound(kr, L),
         NEW ks \in SUBSET Slots, NEW fs \in SUBSET Scopes, NEW rv \in SUBSET Scopes,
         NEW l \in BOOLEAN, NEW unlocks, Finish(kr, ks, fs, rv, l, unlocks)
  PROVE  IInv(L)'
<1>1. /\ keyring' = kr /\ keys' = ks /\ fieldKeys' = fs /\ reveal' = rv /\ lost' = l
      /\ moved' = moved
 BY DEF Finish
<1>2. devices' \subseteq DeviceIds BY DEF Finish, IInv, TypeOK, DeviceKeys, PresenceKeys
<1>3. Retired(keyring, kr) \subseteq DeviceIds
 BY DEF IInv, TypeOK, Retired, PresenceKeys, Keyrings
<1>4. snap' \in [phase : {"idle", "busy", "retiring"}, known : SUBSET Slots,
                 fresh : BOOLEAN, retired : SUBSET DeviceIds]
 BY <1>3 DEF Finish, Idle, Retiring
<1>5. exposed' \subseteq Slots /\ locked' \subseteq Scopes
 BY VersionsAreSlots DEF Finish, IInv, TypeOK
<1>6. moved' \in BOOLEAN BY <1>1 DEF IInv, TypeOK
<1>7. TypeOK' BY <1>1, <1>2, <1>4, <1>5, <1>6 DEF TypeOK
<1>8. Sound(keyring, L)' BY <1>1
<1> QED BY <1>7, <1>8 DEF IInv

\* A pass over `ids` that ends in a save keeps the invariant.
LEMMA SavesKeeps ==
  ASSUME NEW L \in SUBSET Workspaces, IInv(L),
         NEW kr \in Keyrings, Shape(kr), FlagsMatch(kr, L),
         NEW known \in SUBSET Slots, NEW ids \in SUBSET Scopes, NEW l \in BOOLEAN,
         \A v \in AllVersions(kr) : v[1] \notin ids => RoutesSound(kr, v),
         NEW ks \in SUBSET Slots, NEW fs \in SUBSET Scopes, NEW rv \in SUBSET Scopes,
         NEW unlocks,
         Saves(Reconcile(kr, devices, known, ids, l), ks, fs, rv, unlocks)
  PROVE  IInv(L)'
<1> DEFINE R == Reconcile(kr, devices, known, ids, l)
<1>1. R.ok /\ Finish(R.keyring, ks, fs, rv, R.lost, unlocks) BY DEF Saves
<1>2. R.keyring \in Keyrings /\ Sound(R.keyring, L) /\ R.lost \in BOOLEAN
 BY <1>1, ReconcileSound
<1> HIDE DEF R
<1> QED BY <1>1, <1>2, FinishKeeps

\* A pass over every scope needs nothing of the routes that were there.
LEMMA SavesAllKeeps ==
  ASSUME NEW L \in SUBSET Workspaces, IInv(L),
         NEW kr \in Keyrings, Shape(kr), FlagsMatch(kr, L),
         NEW known \in SUBSET Slots, NEW l \in BOOLEAN,
         NEW ks \in SUBSET Slots, NEW fs \in SUBSET Scopes, NEW rv \in SUBSET Scopes,
         NEW unlocks,
         Saves(Reconcile(kr, devices, known, Scopes, l), ks, fs, rv, unlocks)
  PROVE  IInv(L)'
<1>1. \A v \in AllVersions(kr) : v[1] \notin Scopes => RoutesSound(kr, v) BY VersionsAreSlots
<1> QED BY <1>1, SavesKeeps

\* finish_protection_change keeps the invariant.
LEMMA ProtectionChangeKeeps ==
  ASSUME NEW L \in SUBSET Workspaces, IInv(L),
         NEW kr \in Keyrings, Shape(kr), FlagsMatch(kr, L),
         NEW known \in SUBSET Slots, NEW l \in BOOLEAN, NEW T \in SUBSET Scopes,
         FinishProtectionChange(Reconcile(kr, devices, known, Scopes, l), T)
  PROVE  IInv(L)'
<1> DEFINE R == Reconcile(kr, devices, known, Scopes, l)
           ks == keys \cup {v \in R.known \cap AllVersions(R.keyring) : v[1] \in T}
           fs == fieldKeys \cup {s \in T : Current(R.keyring, s) \in R.known}
<1>1. Saves(R, ks, fs, {}, {}) BY DEF FinishProtectionChange
<1>2. \A v \in AllVersions(kr) : v[1] \notin Scopes => RoutesSound(kr, v) BY VersionsAreSlots
<1>3. R.ok BY <1>1 DEF Saves
<1>4. R.known \in SUBSET Slots BY <1>2, <1>3, ReconcileSound
<1>5. ks \in SUBSET Slots /\ fs \in SUBSET Scopes /\ {} \in SUBSET Scopes
 BY <1>4 DEF IInv, TypeOK
<1> HIDE DEF ks, fs
<1> QED BY <1>1, <1>5, SavesAllKeeps

--------------------------------------------------
\* A name for a new version is a serial the scope does not use.
LEMMA FreshSerial ==
  ASSUME NEW kr, NEW s, FreshSerials(kr, s) # {}
  PROVE  Fresh(FreshSerials(kr, s)) \in Serials
BY DEF Fresh, FreshSerials

\* Staging sealed versions keeps the shape, and makes the flags of the staged scopes match.
LEMMA StagingKeeps ==
  ASSUME NEW L \in SUBSET Workspaces,
         NEW kr \in Keyrings, Shape(kr), NEW T \in SUBSET Scopes,
         \A s \in T : Exists(kr, s) /\ FreshSerials(kr, s) # {},
         \A s \in Scopes \ T : Exists(kr, s) =>
            FlagMatches(kr, s, L),
         NEW own \in BOOLEAN, NEW W \in SUBSET Wraps, own <=> Password \in W
  PROVE  /\ StageVersions(kr, T, own, W) \in Keyrings
         /\ Shape(StageVersions(kr, T, own, W))
         /\ FlagsMatch(StageVersions(kr, T, own, W), L)
         /\ \A s \in T : Staged(StageVersions(kr, T, own, W), s) \in Slots
         /\ \A s \in T : Current(StageVersions(kr, T, own, W), s) \in Slots
         /\ StageVersions(kr, T, own, W).cur = kr.cur
         /\ \A s \in Scopes \ T :
                Rotating(StageVersions(kr, T, own, W), s) <=> Rotating(kr, s)
<1> DEFINE r == StageVersions(kr, T, own, W)
           n(s) == Fresh(FreshSerials(kr, s))
<1>1. \A s \in T : n(s) \in Serials BY FreshSerial
<1> HIDE DEF n
<1>2. /\ r.cur = kr.cur
      /\ r.staged = [s \in Scopes |-> IF s \in T THEN n(s) ELSE kr.staged[s]]
      /\ r.own = [v \in Slots |-> IF v[1] \in T /\ v = <<v[1], n(v[1])>> THEN own
                                   ELSE kr.own[v]]
      /\ r.wraps = [v \in Slots |-> IF v[1] \in T /\ v = <<v[1], n(v[1])>> THEN W
                                     ELSE kr.wraps[v]]
      /\ r.quiet = kr.quiet /\ r.recovery = kr.recovery
 BY DEF StageVersions, Keyrings, n
<1>3. r \in Keyrings
 <2> DEFINE S == [s \in Scopes |-> IF s \in T THEN n(s) ELSE kr.staged[s]]
            O == [v \in Slots |-> IF v[1] \in T /\ v = <<v[1], n(v[1])>> THEN own
                                  ELSE kr.own[v]]
            X == [v \in Slots |-> IF v[1] \in T /\ v = <<v[1], n(v[1])>> THEN W
                                  ELSE kr.wraps[v]]
 <2>1. S \in [Scopes -> Serials \cup {None}] BY <1>1 DEF Keyrings
 <2>2. O \in [Slots -> BOOLEAN] BY DEF Keyrings
 <2>3. X \in [Slots -> SUBSET Wraps] BY DEF Keyrings
 <2>4. r = [kr EXCEPT !.staged = S, !.own = O, !.wraps = X]
  <3>1. \A s \in Scopes : <<s, n(s)>>[2] = n(s) OBVIOUS
  <3> QED BY <3>1 DEF StageVersions, n
 <2> HIDE DEF S, O, X
 <2>5. [kr EXCEPT !.staged = S, !.own = O, !.wraps = X] \in Keyrings
  BY <2>1, <2>2, <2>3 DEF Keyrings
 <2> QED BY <2>4, <2>5
<1> HIDE DEF r
<1>4. Shape(r) BY <1>2 DEF Shape, Exists, Rotating, Scopes
<1>5. ASSUME NEW s \in Scopes, Exists(r, s)
      PROVE  FlagMatches(r, s, L)
 <2>1. CASE s \in T
  <3>1. Governing(r, s) = <<s, n(s)>>
   BY <1>1, <1>2, <2>1, KeyringConstants DEF Governing, Rotating, Staged
  <3>2. <<s, n(s)>> \in Slots BY <1>1, <2>1 DEF Slots
  <3> QED BY <1>2, <2>1, <3>1, <3>2 DEF FlagMatches
 <2>2. CASE s \notin T
  <3>1. Exists(kr, s) /\ Governing(r, s) = Governing(kr, s)
   BY <1>2, <1>5, <2>2 DEF Exists, Governing, Rotating, Staged, Current
  <3>2. Governing(kr, s) \in Slots /\ Governing(kr, s)[1] = s BY <3>1, GoverningIsVersion
  <3> QED BY <1>2, <2>2, <3>1, <3>2 DEF FlagMatches
 <2> QED BY <2>1, <2>2
<1>6. \A s \in T : Staged(r, s) \in Slots /\ Current(r, s) \in Slots
 BY <1>1, <1>2 DEF Staged, Current, Slots, Exists, Keyrings
<1>7. \A s \in Scopes \ T : Rotating(r, s) <=> Rotating(kr, s) BY <1>2 DEF Rotating
<1> QED BY <1>2, <1>3, <1>4, <1>5, <1>6, <1>7 DEF FlagsMatch, r

--------------------------------------------------
(* The operations, one lemma each. *)

\* initialize
LEMMA InitializeKeeps ==
  ASSUME NEW L \in SUBSET Workspaces, IInv(L), Initialize
  PROVE  IInv(L)'
<1> DEFINE n == Fresh(FreshSerials(keyring, App))
           kr == [NewVersion(keyring, App, n, FALSE, {}) EXCEPT !.cur[App] = n]
<1>1. keyring \in Keyrings /\ Shape(keyring) /\ ~ Exists(keyring, App) /\ App \in Scopes
 BY DEF IInv, TypeOK, Sound, Initialize, Scopes
<1>2. n \in Serials /\ <<App, n>> \in Slots BY <1>1 DEF Initialize, Fresh, FreshSerials, Slots
<1> HIDE DEF n
<1>3. /\ kr.cur = [keyring.cur EXCEPT ![App] = n] /\ kr.staged = keyring.staged
      /\ kr.own = [keyring.own EXCEPT ![<<App, n>>] = FALSE]
      /\ kr.wraps = [keyring.wraps EXCEPT ![<<App, n>>] = {}]
 BY DEF NewVersion, Keyrings
<1>4. kr \in Keyrings BY <1>1, <1>2 DEF NewVersion, Keyrings
<1>5. Saves(Reconcile(kr, devices, {<<App, n>>}, {App}, FALSE),
             {<<App, n>>}, {App}, reveal, {})
 BY DEF Initialize, n
<1> HIDE DEF kr
<1>6. \A s \in Scopes : /\ Exists(kr, s) => s = App
                        /\ ~ Rotating(kr, s)
 BY <1>1, <1>3 DEF Shape, Exists, Rotating, Keyrings
<1>7. Exists(kr, App) /\ Governing(kr, App) = <<App, n>>
 BY <1>1, <1>2, <1>3, <1>6, KeyringConstants DEF Exists, Governing, Current, Keyrings
<1>8. Shape(kr) BY <1>6, <1>7 DEF Shape
<1>9. FlagsMatch(kr, L) BY <1>1, <1>2, <1>3, <1>6, <1>7 DEF FlagsMatch, Keyrings, FlagMatches
<1>10. \A v \in AllVersions(kr) : v[1] = App BY <1>6 DEF AllVersions, Versions, Exists, Rotating
<1>11. /\ {<<App, n>>} \in SUBSET Slots /\ {App} \in SUBSET Scopes
       /\ reveal \in SUBSET Scopes /\ FALSE \in BOOLEAN
 BY <1>1, <1>2 DEF IInv, TypeOK
<1>12. \A v \in AllVersions(kr) : v[1] \notin {App} => RoutesSound(kr, v) BY <1>10
<1> QED BY <1>4, <1>8, <1>9, <1>5, <1>11, <1>12, SavesKeeps

\* initialize_from_export
LEMMA InitializeFromExportKeeps ==
  ASSUME NEW L \in SUBSET Workspaces, IInv(L),
         NEW ids \in SUBSET Workspaces, NEW P \in SUBSET (ids \cup {App}),
         InitializeFromExport(ids, P)
  PROVE  IInv(L)'
<1> DEFINE n == Fresh(Serials)
           all == ids \cup {App}
           cur == [s \in Scopes |-> IF s \in all THEN n ELSE None]
           own == [v \in Slots |-> v[2] = n /\ v[1] \in P]
           wraps == [v \in Slots |-> IF v[2] = n /\ v[1] \in P THEN {Password} ELSE {}]
           kr == [keyring EXCEPT !.cur = cur, !.own = own, !.wraps = wraps]
           R == Reconcile(kr, devices, all \X {n}, all, FALSE)
<1>1. keyring \in Keyrings /\ Shape(keyring) /\ ~ Exists(keyring, App) /\ App \in Scopes
 BY DEF IInv, TypeOK, Sound, InitializeFromExport, Scopes
<1>2. n \in Serials /\ n # None BY KeyringConstants DEF Fresh
<1> HIDE DEF n
<1>3. all \in SUBSET Scopes /\ App \in all BY DEF Scopes
<1>4. all \X {n} \in SUBSET Slots BY <1>2, <1>3 DEF Slots
<1>5. /\ cur \in [Scopes -> Serials \cup {None}]
      /\ own \in [Slots -> BOOLEAN]
      /\ wraps \in [Slots -> SUBSET Wraps]
 BY <1>2 DEF Wraps
<1>6. kr \in Keyrings
 <2> HIDE DEF cur, own, wraps
 <2> QED BY <1>1, <1>5 DEF Keyrings
<1>7. kr.cur = cur /\ kr.staged = keyring.staged /\ kr.own = own /\ kr.wraps = wraps
 BY <1>1 DEF Keyrings
<1>8. Saves(R, R.known, all, reveal, {}) BY DEF InitializeFromExport, n
<1> HIDE DEF kr
<1>9. \A s \in Scopes : ~ Rotating(kr, s) /\ (Exists(kr, s) <=> s \in all)
 BY <1>1, <1>2, <1>7 DEF Shape, Exists, Rotating
<1>10. Shape(kr) BY <1>3, <1>9 DEF Shape
<1>11. FlagsMatch(kr, L)
 <2> SUFFICES ASSUME NEW s \in Scopes, Exists(kr, s)
              PROVE  FlagMatches(kr, s, L)
  BY DEF FlagsMatch
 <2>1. Governing(kr, s) = <<s, n>> /\ <<s, n>> \in Slots
  BY <1>2, <1>7, <1>9 DEF Governing, Current, Slots
 <2>2. own[<<s, n>>] = (s \in P) BY <2>1
 <2>3. wraps[<<s, n>>] = IF s \in P THEN {Password} ELSE {} BY <2>1
 <2> HIDE DEF own, wraps
 <2>4. own[<<s, n>>] <=> Password \in wraps[<<s, n>>] BY <2>2, <2>3
 <2> QED BY <1>7, <2>1, <2>4 DEF FlagMatches
<1>12. \A v \in AllVersions(kr) : v[1] \notin all => RoutesSound(kr, v)
 BY <1>9 DEF AllVersions, Versions, Exists, Rotating
<1> HIDE DEF all
<1>13. R.ok BY <1>8 DEF Saves
<1>14. R.known \in SUBSET Slots BY <1>3, <1>4, <1>6, <1>10, <1>11, <1>12, <1>13, ReconcileSound
<1>15. reveal \in SUBSET Scopes BY DEF IInv, TypeOK
<1> QED BY <1>3, <1>4, <1>6, <1>10, <1>11, <1>12, <1>8, <1>14, <1>15, SavesKeeps

\* complete_unlock: the repair pass is saved or left out, the keys are installed.
LEMMA CompleteUnlockKeeps ==
  ASSUME NEW L \in SUBSET Workspaces, IInv(L),
         NEW s \in Scopes, NEW found \in SUBSET Versions(keyring, s),
         CompleteUnlock(s, found)
  PROVE  IInv(L)'
<1> DEFINE k1 == Known \cup found
           l1 == FindsLost(keyring, devices, k1, lost, Versions(keyring, s))
           k2 == k1 \cup {v \in Versions(keyring, s) :
                             Obtains(keyring, devices, k1, lost, v)}
           R  == Reconcile(keyring, devices, k2, {s}, l1)
           ks == keys \cup found \cup (k2 \cap Versions(keyring, s))
           fs == fieldKeys \cup {s}
<1>1. /\ keyring \in Keyrings /\ Shape(keyring) /\ FlagsMatch(keyring, L)
      /\ Sound(keyring, L) /\ \A v \in AllVersions(keyring) : RoutesSound(keyring, v)
 BY DEF IInv, TypeOK, Sound
<1>2. k2 \in SUBSET Slots /\ ks \in SUBSET Slots /\ fs \in SUBSET Scopes
 BY <1>1, VersionsAreSlots, SnapshotType DEF IInv, TypeOK
<1>3. l1 \in BOOLEAN /\ reveal \in SUBSET Scopes BY DEF IInv, TypeOK, FindsLost
<1>4. \/ R.ok /\ Finish(R.keyring, ks, fs, reveal, R.lost, {s})
      \/ \E l \in {l1, R.lost} : Finish(keyring, ks, fs, reveal, l, {s})
 BY DEF CompleteUnlock, Repairs
<1>5. R.lost \in BOOLEAN BY <1>3 DEF Reconcile, Obtaining, Outcome, FindsLost
<1> HIDE DEF k2, ks, fs, l1
<1>6. CASE R.ok /\ Finish(R.keyring, ks, fs, reveal, R.lost, {s})
 <2>1. R.keyring \in Keyrings /\ Sound(R.keyring, L) BY <1>1, <1>2, <1>3, <1>6, ReconcileSound
 <2> QED BY <1>2, <1>3, <1>5, <1>6, <2>1, FinishKeeps
<1>7. CASE \E l \in {l1, R.lost} : Finish(keyring, ks, fs, reveal, l, {s})
 BY <1>1, <1>2, <1>3, <1>5, <1>7, FinishKeeps
<1> QED BY <1>4, <1>6, <1>7

\* open_scope, unlock_with_password, unlock_with_presence
LEMMA UnlocksKeep ==
  ASSUME NEW L \in SUBSET Workspaces, IInv(L), NEW s \in Scopes,
         OpenScope(s) \/ UnlockWithPassword(s) \/ UnlockWithPresence(s)
  PROVE  IInv(L)'
<1>1. CASE OpenScope(s) BY <1>1, CompleteUnlockKeeps DEF OpenScope
<1>2. CASE UnlockWithPassword(s) BY <1>2, CompleteUnlockKeeps DEF UnlockWithPassword
<1>3. CASE UnlockWithPresence(s) BY <1>3, CompleteUnlockKeeps DEF UnlockWithPresence
<1> QED BY <1>1, <1>2, <1>3

\* unlock_with_recovery
LEMMA UnlockWithRecoveryKeeps ==
  ASSUME NEW L \in SUBSET Workspaces, IInv(L), NEW r, UnlockWithRecovery(r)
  PROVE  IInv(L)'
<1> DEFINE found == {v \in AllVersions(keyring) : Recovery(r) \in keyring.wraps[v]}
           opened == {s \in Scopes : Current(keyring, s) \in found}
           l1 == lost \/ (keyring.quiet # None /\ keyring.quiet \notin devices)
           k  == Known \cup found
           R  == Reconcile(keyring, devices, k, Scopes, l1)
           ks == keys \cup found
           fs == fieldKeys \cup opened
           U  == {v[1] : v \in found}
<1>1. keyring \in Keyrings /\ Shape(keyring) /\ FlagsMatch(keyring, L) /\ Sound(keyring, L)
 BY DEF IInv, TypeOK, Sound
<1>2. k \in SUBSET Slots /\ ks \in SUBSET Slots /\ fs \in SUBSET Scopes
 BY <1>1, VersionsAreSlots, SnapshotType DEF IInv, TypeOK
<1>3. l1 \in BOOLEAN /\ reveal \in SUBSET Scopes BY DEF IInv, TypeOK
<1>4. \/ Saves(R, ks, fs, reveal, U)
      \/ \E l \in {l1, R.lost} : Finish(keyring, ks, fs, reveal, l, U)
 BY DEF UnlockWithRecovery, Saves, Repairs
<1>5. R.lost \in BOOLEAN BY <1>3 DEF Reconcile, Obtaining, Outcome, FindsLost
<1> HIDE DEF k, ks, fs, l1, U
<1>6. CASE Saves(R, ks, fs, reveal, U) BY <1>1, <1>2, <1>3, <1>6, SavesAllKeeps
<1>7. CASE \E l \in {l1, R.lost} : Finish(keyring, ks, fs, reveal, l, U)
 BY <1>1, <1>2, <1>3, <1>5, <1>7, FinishKeeps
<1> QED BY <1>4, <1>6, <1>7

\* Changing versions of one scope without touching the others, their flags or the app.
LEMMA OtherScopesStaySound ==
  ASSUME NEW L \in SUBSET Workspaces,
         NEW kr \in Keyrings, Sound(kr, L), NEW s \in Scopes, NEW r \in Keyrings,
         r.quiet = kr.quiet,
         \A t \in Scopes \ {s} : r.cur[t] = kr.cur[t] /\ r.staged[t] = kr.staged[t],
         \A v \in Slots : v[1] # s => r.own[v] = kr.own[v] /\ r.wraps[v] = kr.wraps[v],
         NEW v \in AllVersions(r), v[1] # s,
         s # App \/ r.own[Governing(r, App)] = kr.own[Governing(kr, App)]
  PROVE  RoutesSound(r, v)
<1>1. v \in Slots /\ v[1] \in Scopes /\ v \in Versions(r, v[1]) /\ App \in Scopes
 BY VersionsAreSlots DEF Scopes
<1>2. v \in AllVersions(kr) /\ Exists(kr, v[1]) /\ Exists(kr, App)
 BY <1>1 DEF Sound, Versions, AllVersions, Shape, Exists, Rotating
<1>3. \A t \in Scopes \ {s} : Governing(r, t) = Governing(kr, t)
 BY DEF Governing, Rotating, Staged, Current
<1>4. /\ Governing(kr, v[1]) \in Slots /\ Governing(kr, v[1])[1] = v[1]
      /\ Governing(kr, App) \in Slots /\ Governing(kr, App)[1] = App
 BY <1>1, <1>2, GoverningIsVersion
<1>5. /\ r.own[Governing(r, v[1])] = kr.own[Governing(kr, v[1])]
      /\ r.own[Governing(r, App)] = kr.own[Governing(kr, App)]
      /\ r.wraps[v] = kr.wraps[v]
 BY <1>1, <1>3, <1>4
<1>6. RoutesSound(kr, v) BY <1>2 DEF Sound
<1> QED BY <1>5, <1>6 DEF RoutesSound, Protected

\* create_scope
LEMMA CreateScopeKeeps ==
  ASSUME NEW L \in SUBSET Workspaces, IInv(L),
         NEW s \in Scopes, NEW p \in BOOLEAN, CreateScope(s, p)
  PROVE  IInv(L)'
<1> DEFINE n == Fresh(FreshSerials(keyring, s))
           W == IF p THEN {Password} ELSE {}
           kr == [NewVersion(keyring, s, n, p, W) EXCEPT !.cur[s] = n]
           k == Known \cup {<<s, n>>}
           ks == keys \cup {<<s, n>>}
           fs == fieldKeys \cup {s}
<1>1. /\ keyring \in Keyrings /\ Shape(keyring) /\ FlagsMatch(keyring, L)
      /\ \A v \in AllVersions(keyring) : RoutesSound(keyring, v)
      /\ lost \in BOOLEAN /\ reveal \in SUBSET Scopes
 BY DEF IInv, TypeOK, Sound
<1>2. /\ s # App /\ App \in Scopes
      /\ ~ Exists(keyring, s) /\ Exists(keyring, App) /\ ~ Rotating(keyring, s)
 BY <1>1 DEF CreateScope, Shape, Scopes
<1>3. n \in Serials /\ <<s, n>> \in Slots BY DEF CreateScope, Fresh, FreshSerials, Slots
<1>4. Saves(Reconcile(kr, devices, k, {s}, lost), ks, fs, reveal, {s}) BY DEF CreateScope
<1> HIDE DEF n
<1>5. k \in SUBSET Slots /\ ks \in SUBSET Slots /\ fs \in SUBSET Scopes
 BY <1>3, SnapshotType DEF IInv, TypeOK
<1>6. W \in SUBSET Wraps /\ (p <=> Password \in W) BY DEF Wraps
<1> HIDE DEF W, k, ks, fs
<1>7. /\ kr.cur = [keyring.cur EXCEPT ![s] = n] /\ kr.staged = keyring.staged
      /\ kr.own = [keyring.own EXCEPT ![<<s, n>>] = p]
      /\ kr.wraps = [keyring.wraps EXCEPT ![<<s, n>>] = W]
      /\ kr.quiet = keyring.quiet
 BY <1>1 DEF NewVersion, Keyrings
<1>8. kr \in Keyrings BY <1>1, <1>3, <1>6 DEF NewVersion, Keyrings
<1> HIDE DEF kr
<1>9. \A t \in Scopes \ {s} : /\ kr.cur[t] = keyring.cur[t]
                              /\ kr.staged[t] = keyring.staged[t]
                              /\ Governing(kr, t) = Governing(keyring, t)
 BY <1>1, <1>7 DEF Keyrings, Governing, Rotating, Staged, Current
<1>10. Governing(kr, s) = <<s, n>> /\ ~ Rotating(kr, s)
 BY <1>1, <1>2, <1>7 DEF Keyrings, Governing, Rotating, Current
<1>11. Shape(kr) BY <1>1, <1>2, <1>9, <1>10 DEF Shape, Exists, Rotating
<1>12. \A v \in Slots : v[1] # s => /\ kr.own[v] = keyring.own[v]
                                    /\ kr.wraps[v] = keyring.wraps[v]
 BY <1>1, <1>7 DEF Keyrings
<1>13. kr.own[<<s, n>>] = p /\ kr.wraps[<<s, n>>] = W BY <1>1, <1>3, <1>7 DEF Keyrings
<1>14. FlagsMatch(kr, L)
 <2> SUFFICES ASSUME NEW t \in Scopes, Exists(kr, t)
              PROVE  FlagMatches(kr, t, L)
  BY DEF FlagsMatch
 <2>1. CASE t = s BY <1>6, <1>10, <1>13, <2>1 DEF FlagMatches
 <2>2. CASE t # s
  <3>1. Exists(keyring, t) BY <1>9, <2>2 DEF Exists
  <3>2. Governing(keyring, t) \in Slots /\ Governing(keyring, t)[1] = t
   BY <1>1, <3>1, GoverningIsVersion
  <3> QED BY <1>1, <1>9, <1>12, <2>2, <3>1, <3>2 DEF FlagsMatch, FlagMatches
 <2> QED BY <2>1, <2>2
<1>15. ASSUME NEW v \in AllVersions(kr), v[1] \notin {s}
       PROVE  RoutesSound(kr, v)
 <2>1. Sound(keyring, L) BY DEF IInv
 <2>2. kr.quiet = keyring.quiet /\ v[1] # s BY <1>7, <1>15
 <2>3. \A t \in Scopes \ {s} : kr.cur[t] = keyring.cur[t] /\ kr.staged[t] = keyring.staged[t]
  BY <1>9
 <2> QED BY <1>1, <1>2, <1>8, <1>12, <2>1, <2>2, <2>3, OtherScopesStaySound
<1> QED BY <1>1, <1>4, <1>5, <1>8, <1>11, <1>14, <1>15, SavesKeeps

\* delete_scope
LEMMA DeleteScopeKeeps ==
  ASSUME NEW L \in SUBSET Workspaces, IInv(L), NEW s \in Scopes, DeleteScope(s)
  PROVE  IInv(L)'
<1> DEFINE V == Versions(keyring, s)
           r == [Without(keyring, V) EXCEPT !.cur[s] = None, !.staged[s] = None]
           ks == {v \in keys : v[1] # s}
           fs == fieldKeys \ {s}
           rv == reveal \ {s}
<1>1. keyring \in Keyrings /\ Sound(keyring, L) /\ lost \in BOOLEAN BY DEF IInv, TypeOK
<1>2. /\ r.cur = [keyring.cur EXCEPT ![s] = None]
      /\ r.staged = [keyring.staged EXCEPT ![s] = None]
      /\ r.own = [v \in Slots |-> v \notin V /\ keyring.own[v]]
      /\ r.wraps = [v \in Slots |-> IF v \in V THEN {} ELSE keyring.wraps[v]]
      /\ r.quiet = keyring.quiet
 BY <1>1 DEF Without, Keyrings
<1>3. r \in Keyrings
 <2>1. Without(keyring, V) \in Keyrings BY <1>1 DEF Without, Keyrings
 <2> QED BY <2>1 DEF Keyrings
<1>4. s # App /\ Finish(r, ks, fs, rv, lost, {s}) BY DEF DeleteScope
<1>5. ks \in SUBSET Slots /\ fs \in SUBSET Scopes /\ rv \in SUBSET Scopes BY DEF IInv, TypeOK
<1> HIDE DEF r, ks, fs, rv
<1>6. \A v \in V : v[1] = s BY DEF Versions
<1>7. \A v \in Slots : v[1] # s => /\ r.own[v] = keyring.own[v]
                                   /\ r.wraps[v] = keyring.wraps[v]
 BY <1>1, <1>2, <1>6 DEF Keyrings
<1>8. \A t \in Scopes \ {s} : /\ r.cur[t] = keyring.cur[t]
                              /\ r.staged[t] = keyring.staged[t]
                              /\ Governing(r, t) = Governing(keyring, t)
 BY <1>1, <1>2 DEF Keyrings, Governing, Rotating, Staged, Current
<1>9. ~ Exists(r, s) /\ ~ Rotating(r, s) BY <1>1, <1>2 DEF Keyrings, Exists, Rotating
<1>10. Shape(r) BY <1>1, <1>4, <1>8, <1>9 DEF Sound, Shape, Exists, Rotating, Scopes
<1>11. FlagsMatch(r, L)
 <2> SUFFICES ASSUME NEW t \in Scopes, Exists(r, t)
              PROVE  FlagMatches(r, t, L)
  BY DEF FlagsMatch
 <2>1. t # s /\ Exists(keyring, t) BY <1>8, <1>9 DEF Exists
 <2>2. Governing(keyring, t) \in Slots /\ Governing(keyring, t)[1] = t
  BY <1>1, <2>1, GoverningIsVersion
 <2> QED BY <1>1, <1>7, <1>8, <2>1, <2>2 DEF Sound, FlagsMatch, FlagMatches
<1>12. ASSUME NEW v \in AllVersions(r) PROVE RoutesSound(r, v)
 <2>1. v[1] # s BY <1>9 DEF AllVersions, Versions, Exists, Rotating
 <2>2. r.quiet = keyring.quiet BY <1>2
 <2>3. \A t \in Scopes \ {s} : r.cur[t] = keyring.cur[t] /\ r.staged[t] = keyring.staged[t]
  BY <1>8
 <2> QED BY <1>1, <1>3, <1>4, <1>7, <2>1, <2>2, <2>3, OtherScopesStaySound
<1> QED BY <1>1, <1>3, <1>4, <1>5, <1>10, <1>11, <1>12, FinishKeeps DEF Sound

\* Changing the Touch ID routes of a scope keeps the keyring sound.
LEMMA WithPresenceKeeps ==
  ASSUME NEW L \in SUBSET Workspaces,
         NEW kr \in Keyrings, Sound(kr, L), NEW s, NEW W \in SUBSET Wraps,
         \A w \in W : w.kind = "presence"
  PROVE  WithPresence(kr, s, W) \in Keyrings /\ Sound(WithPresence(kr, s, W), L)
<1> DEFINE r == WithPresence(kr, s, W)
<1>1. /\ r.cur = kr.cur /\ r.staged = kr.staged /\ r.own = kr.own /\ r.quiet = kr.quiet
      /\ r.wraps = [v \in Slots |->
            IF v \in Versions(kr, s) THEN {w \in kr.wraps[v] : w.kind # "presence"} \cup W
                                     ELSE kr.wraps[v]]
 BY DEF WithPresence, Keyrings
<1>2. r \in Keyrings BY DEF WithPresence, Keyrings
<1> HIDE DEF r
<1>3. \A v \in Slots : \A w : w.kind # "presence" => (w \in r.wraps[v] <=> w \in kr.wraps[v])
 BY <1>1
<1>4. \A t \in Scopes : /\ Exists(r, t) <=> Exists(kr, t)
                        /\ Rotating(r, t) <=> Rotating(kr, t)
                        /\ Governing(r, t) = Governing(kr, t)
 BY <1>1 DEF Exists, Rotating, Governing, Staged, Current
<1>5. AllVersions(r) = AllVersions(kr) BY <1>1 DEF AllVersions, Versions
<1>6. Shape(r) BY <1>4 DEF Sound, Shape, Scopes
<1>7. FlagsMatch(r, L)
 <2> SUFFICES ASSUME NEW t \in Scopes, Exists(kr, t)
              PROVE  FlagMatches(r, t, L)
  BY <1>4 DEF FlagsMatch
 <2>1. Governing(kr, t) \in Slots BY GoverningIsVersion
 <2>2. Password.kind # "presence" BY DEF Password
 <2> QED BY <1>1, <1>3, <1>4, <2>1, <2>2 DEF Sound, FlagsMatch, FlagMatches
<1>8. ASSUME NEW v \in AllVersions(r) PROVE RoutesSound(r, v)
 <2>1. v \in Slots /\ v[1] \in Scopes /\ App \in Scopes /\ RoutesSound(kr, v)
  BY <1>5, VersionsAreSlots DEF Sound, Scopes
 <2>2. /\ \A n : Parent(n) \in r.wraps[v] => Parent(n) \in kr.wraps[v]
       /\ \A d : Device(d) \in r.wraps[v] => Device(d) \in kr.wraps[v]
  BY <1>3, <2>1 DEF Parent, Device
 <2>3. Governing(r, v[1]) = Governing(kr, v[1]) /\ Governing(r, App) = Governing(kr, App)
  BY <1>4, <2>1
 <2> QED BY <1>1, <2>1, <2>2, <2>3 DEF RoutesSound, Protected
<1> QED BY <1>2, <1>6, <1>7, <1>8 DEF Sound, r

\* enable_presence and disable_presence
LEMMA PresenceKeeps ==
  ASSUME NEW L \in SUBSET Workspaces, IInv(L), NEW s \in Scopes, EnablePresence(s) \/ DisablePresence(s)
  PROVE  IInv(L)'
<1>1. /\ keyring \in Keyrings /\ Sound(keyring, L) /\ lost \in BOOLEAN
      /\ keys \in SUBSET Slots /\ fieldKeys \in SUBSET Scopes /\ reveal \in SUBSET Scopes
 BY DEF IInv, TypeOK
<1>2. PICK W \in SUBSET Wraps : /\ \A w \in W : w.kind = "presence"
                               /\ Finish(WithPresence(keyring, s, W), keys, fieldKeys,
                                         reveal, lost, {})
 <2>1. CASE EnablePresence(s)
  <3> DEFINE d == Fresh(UnusedDevices(keyring, devices))
  <3>1. Finish(WithPresence(keyring, s, {Presence(d)}), keys, fieldKeys, reveal, lost, {})
   BY <2>1 DEF EnablePresence
  <3>2. d \in DeviceIds BY <2>1, FreshIsUnused DEF EnablePresence
  <3>3. {Presence(d)} \in SUBSET Wraps /\ \A w \in {Presence(d)} : w.kind = "presence"
   BY <3>2 DEF Wraps, Presence
  <3> QED BY <3>1, <3>3
 <2>2. CASE DisablePresence(s) BY <2>2 DEF DisablePresence
 <2> QED BY <2>1, <2>2
<1>3. WithPresence(keyring, s, W) \in Keyrings /\ Sound(WithPresence(keyring, s, W), L)
 BY <1>1, <1>2, WithPresenceKeeps
<1> QED BY <1>1, <1>2, <1>3, FinishKeeps

--------------------------------------------------
\* Adding a password route to the current version of s, which becomes sealed too or is
\* replaced, leaves every other flag alone.
LEMMA WithPasswordRoute ==
  ASSUME NEW L \in SUBSET Workspaces,
         NEW kr \in Keyrings, Shape(kr), FlagsMatch(kr, L), NEW s \in Scopes
  PROVE  LET r == [kr EXCEPT !.wraps[Current(kr, s)] = @ \cup {Password}] IN
         /\ r \in Keyrings /\ Shape(r)
         /\ r.cur = kr.cur /\ r.staged = kr.staged
         /\ \A t \in Scopes \ {s} : Exists(r, t) =>
               FlagMatches(r, t, L)
         /\ Exists(kr, s) /\ ~ Rotating(kr, s) /\ kr.own[Current(kr, s)] => FlagsMatch(r, L)
<1> DEFINE c == Current(kr, s)
           r == [kr EXCEPT !.wraps[c] = @ \cup {Password}]
<1>1. /\ r.cur = kr.cur /\ r.staged = kr.staged /\ r.own = kr.own
      /\ r.wraps = [kr.wraps EXCEPT ![c] = @ \cup {Password}]
 BY DEF Keyrings
<1>2. r \in Keyrings
 <2>1. Password \in Wraps BY DEF Wraps
 <2> QED BY <2>1 DEF Keyrings
<1> HIDE DEF r
<1>3. \A t \in Scopes : /\ Exists(r, t) <=> Exists(kr, t)
                        /\ Rotating(r, t) <=> Rotating(kr, t)
                        /\ Governing(r, t) = Governing(kr, t)
 BY <1>1 DEF Exists, Rotating, Governing, Staged, Current
<1>4. Shape(r) BY <1>3 DEF Shape, Scopes
<1>5. ASSUME NEW t \in Scopes, Exists(r, t),
             t # s \/ (~ Rotating(kr, s) /\ kr.own[Current(kr, s)])
      PROVE  FlagMatches(r, t, L)
 <2>1. Governing(kr, t) \in Slots /\ Governing(kr, t)[1] = t BY <1>3, <1>5, GoverningIsVersion
 <2>2. FlagMatches(kr, t, L) BY <1>3, <1>5 DEF FlagsMatch
 <2>3. CASE t # s
  <3>1. c # Governing(kr, t) BY <2>1, <2>3 DEF Current
  <3>2. r.wraps[Governing(kr, t)] = kr.wraps[Governing(kr, t)] BY <1>1, <2>1, <3>1 DEF Keyrings
  <3> QED BY <1>1, <1>3, <2>2, <3>2 DEF FlagMatches
 <2>4. CASE t = s
  <3>1. Governing(kr, t) = c /\ kr.own[c] BY <1>5, <2>4 DEF Governing
  <3>2. r.wraps[c] = kr.wraps[c] \cup {Password} BY <1>1, <2>1, <3>1 DEF Keyrings
  <3> QED BY <1>1, <1>3, <3>1, <3>2 DEF FlagMatches
 <2> QED BY <2>3, <2>4
<1>6. \A t \in Scopes \ {s} : Exists(r, t) =>
          FlagMatches(r, t, L)
 BY <1>5
<1>7. ~ Rotating(kr, s) /\ kr.own[Current(kr, s)] => FlagsMatch(r, L) BY <1>5 DEF FlagsMatch
<1> QED BY <1>1, <1>2, <1>4, <1>6, <1>7 DEF r

\* The recovery entry has no part in the shape or the flags.
LEMMA WithRecovery ==
  ASSUME NEW L \in SUBSET Workspaces,
         NEW kr \in Keyrings, Shape(kr), FlagsMatch(kr, L),
         NEW e \in {NoRecovery} \cup [id : RecoveryIds, mac : Serials, held : BOOLEAN]
  PROVE  LET r == [kr EXCEPT !.recovery = e] IN
         /\ r \in Keyrings /\ Shape(r) /\ FlagsMatch(r, L)
         /\ r.cur = kr.cur /\ r.staged = kr.staged
<1> DEFINE r == [kr EXCEPT !.recovery = e]
<1>1. /\ r.cur = kr.cur /\ r.staged = kr.staged /\ r.own = kr.own /\ r.wraps = kr.wraps
      /\ r \in Keyrings
 BY DEF Keyrings
<1> HIDE DEF r
<1>2. \A t \in Scopes : /\ Exists(r, t) <=> Exists(kr, t)
                        /\ Rotating(r, t) <=> Rotating(kr, t)
                        /\ Governing(r, t) = Governing(kr, t)
 BY <1>1 DEF Exists, Rotating, Governing, Staged, Current
<1>3. Shape(r) /\ FlagsMatch(r, L) BY <1>1, <1>2 DEF Shape, FlagsMatch, Scopes, FlagMatches
<1> QED BY <1>1, <1>3 DEF r

\* setup_recovery and remove_recovery
LEMMA RecoveryKeeps ==
  ASSUME NEW L \in SUBSET Workspaces, IInv(L), SetupRecovery \/ RemoveRecovery
  PROVE  IInv(L)'
<1>1. /\ keyring \in Keyrings /\ Shape(keyring) /\ FlagsMatch(keyring, L) /\ lost \in BOOLEAN
      /\ keys \in SUBSET Slots /\ fieldKeys \in SUBSET Scopes /\ reveal \in SUBSET Scopes
 BY DEF IInv, TypeOK, Sound
<1>2. Known \in SUBSET Slots BY SnapshotType DEF IInv
<1>3. CASE SetupRecovery
 <2> DEFINE gov == Governing(keyring, App)
            new == RecoveryIds \ UsedCodes(keyring)
            e == [id |-> Fresh(new), mac |-> gov[2], held |-> keyring.own[gov]]
            kr == [keyring EXCEPT !.recovery = e]
 <2>1. gov \in Slots BY <1>2, <1>3 DEF SetupRecovery
 <2>2. gov[2] \in Serials /\ keyring.own[gov] \in BOOLEAN BY <1>1, <2>1 DEF Slots, Keyrings
 <2>3. Fresh(new) \in RecoveryIds BY <1>3 DEF SetupRecovery, Fresh
 <2>4. e \in [id : RecoveryIds, mac : Serials, held : BOOLEAN] BY <2>2, <2>3
 <2>5. Saves(Reconcile(kr, devices, Known, Scopes, lost), keys, fieldKeys, reveal, {})
  BY <1>3 DEF SetupRecovery
 <2> HIDE DEF e
 <2>6. kr \in Keyrings /\ Shape(kr) /\ FlagsMatch(kr, L) BY <1>1, <2>4, WithRecovery
 <2> HIDE DEF kr
 <2> QED BY <1>1, <1>2, <2>5, <2>6, SavesAllKeeps
<1>4. CASE RemoveRecovery
 <2> DEFINE kr == [keyring EXCEPT !.recovery = NoRecovery]
 <2>1. Saves(Reconcile(kr, devices, Known, Scopes, lost), keys, fieldKeys, reveal, {})
  BY <1>4 DEF RemoveRecovery
 <2>2. kr \in Keyrings /\ Shape(kr) /\ FlagsMatch(kr, L) BY <1>1, WithRecovery
 <2> HIDE DEF kr
 <2> QED BY <1>1, <1>2, <2>1, <2>2, SavesAllKeeps
<1> QED BY <1>3, <1>4

\* change_password
LEMMA ChangePasswordKeeps ==
  ASSUME NEW L \in SUBSET Workspaces, IInv(L), NEW s \in Scopes, ChangePassword(s)
  PROVE  IInv(L)'
<1> DEFINE kr == [keyring EXCEPT !.wraps[Current(keyring, s)] = @ \cup {Password}]
           k  == WithAppKeys(keyring, devices, Known, lost)
           l  == FindsLost(keyring, devices, Known, lost, Versions(keyring, App))
<1>1. keyring \in Keyrings /\ Shape(keyring) /\ FlagsMatch(keyring, L)
 BY DEF IInv, TypeOK, Sound
<1>2. k \in SUBSET Slots /\ l \in BOOLEAN BY SnapshotType DEF IInv
<1>3. /\ Exists(keyring, s) /\ ~ Rotating(keyring, s) /\ keyring.own[Current(keyring, s)]
      /\ FinishProtectionChange(Reconcile(kr, devices, k, Scopes, l), {s})
 BY DEF ChangePassword
<1>4. kr \in Keyrings /\ Shape(kr) /\ FlagsMatch(kr, L) BY <1>1, <1>3, WithPasswordRoute
<1> HIDE DEF kr, k, l
<1> QED BY <1>2, <1>3, <1>4, ProtectionChangeKeeps

\* remove_password
LEMMA RemovePasswordKeeps ==
  ASSUME NEW L \in SUBSET Workspaces, IInv(L), NEW s \in Scopes, RemovePassword(s)
  PROVE  IInv(L)'
<1> DEFINE k  == WithAppKeys(keyring, devices, Known, lost)
           l  == FindsLost(keyring, devices, Known, lost, Versions(keyring, App))
           kr == StageVersions(keyring, {s}, FALSE, {})
           k2 == k \cup StagedKeys(kr, {s})
<1>1. keyring \in Keyrings /\ Shape(keyring) /\ FlagsMatch(keyring, L)
 BY DEF IInv, TypeOK, Sound
<1>2. k \in SUBSET Slots /\ l \in BOOLEAN BY SnapshotType DEF IInv
<1>3. /\ Exists(keyring, s) /\ FreshSerials(keyring, s) # {}
      /\ FinishProtectionChange(Reconcile(kr, devices, k2, Scopes, l), {s})
 BY DEF RemovePassword, CanStage
<1>4. \A t \in Scopes \ {s} : Exists(keyring, t) =>
         FlagMatches(keyring, t, L)
 BY <1>1 DEF FlagsMatch
<1>5. {} \in SUBSET Wraps /\ FALSE \in BOOLEAN /\ (FALSE <=> Password \in {}) OBVIOUS
<1>6. /\ kr \in Keyrings /\ Shape(kr) /\ FlagsMatch(kr, L)
      /\ Staged(kr, s) \in Slots /\ Current(kr, s) \in Slots
 BY ZenonT(60), <1>1, <1>3, <1>4, <1>5, StagingKeeps
<1> HIDE DEF kr, k, l
<1>7. k2 \in SUBSET Slots BY <1>2, <1>6 DEF StagedKeys
<1> HIDE DEF k2
<1> QED BY <1>2, <1>3, <1>6, <1>7, ProtectionChangeKeeps

\* set_password
LEMMA SetPasswordKeeps ==
  ASSUME NEW L \in SUBSET Workspaces, IInv(L), NEW s \in Scopes, SetPassword(s)
  PROVE  IInv(L)'
<1> DEFINE k   == WithAppKeys(keyring, devices, Known, lost)
           l   == FindsLost(keyring, devices, Known, lost, Versions(keyring, App))
           kr1 == [keyring EXCEPT !.wraps[Current(keyring, s)] = @ \cup {Password}]
           st  == StageVersions(kr1, {s}, TRUE, {Password})
           kr2 == [st EXCEPT !.recovery = IF s = App THEN NoRecovery ELSE @]
           k2  == k \cup StagedKeys(kr2, {s})
           T   == IF s = App THEN Transitioning(keyring, kr2, k2) ELSE {}
           kr3 == StageVersions(kr2, T, FALSE, {})
           k3  == k2 \cup StagedKeys(kr3, T)
           R   == Reconcile(kr3, devices, k3, Scopes, l)
<1>1. keyring \in Keyrings /\ Shape(keyring) /\ FlagsMatch(keyring, L)
 BY DEF IInv, TypeOK, Sound
<1>2. k \in SUBSET Slots /\ l \in BOOLEAN BY SnapshotType DEF IInv
<1>3. /\ Exists(keyring, s) /\ FreshSerials(kr1, s) # {}
      /\ \A t \in T : FreshSerials(kr2, t) # {}
      /\ FinishProtectionChange(R, {s} \cup T)
 BY DEF SetPassword, CanStage
<1>4. /\ kr1 \in Keyrings /\ Shape(kr1) /\ kr1.cur = keyring.cur
      /\ \A t \in Scopes \ {s} : Exists(kr1, t) =>
            FlagMatches(kr1, t, L)
 BY <1>1, WithPasswordRoute
<1> HIDE DEF kr1, k, l
<1>5. {Password} \in SUBSET Wraps /\ TRUE \in BOOLEAN /\ (TRUE <=> Password \in {Password})
 BY DEF Wraps
<1>6. /\ st \in Keyrings /\ Shape(st) /\ FlagsMatch(st, L)
      /\ Staged(st, s) \in Slots /\ Current(st, s) \in Slots /\ st.cur = kr1.cur
 <2>1. Exists(kr1, s) BY <1>3, <1>4 DEF Exists
 <2>2. \A t \in {s} : Exists(kr1, t) /\ FreshSerials(kr1, t) # {} BY <1>3, <2>1
 <2>3. {s} \in SUBSET Scopes OBVIOUS
 <2> QED BY <1>4, <1>5, <2>2, <2>3, StagingKeeps
<1> HIDE DEF st
<1>7. /\ kr2 \in Keyrings /\ Shape(kr2) /\ FlagsMatch(kr2, L)
      /\ kr2.cur = st.cur /\ kr2.staged = st.staged
 <2> DEFINE e == IF s = App THEN NoRecovery ELSE st.recovery
 <2>1. e \in {NoRecovery} \cup [id : RecoveryIds, mac : Serials, held : BOOLEAN]
  BY <1>6 DEF Keyrings
 <2>2. kr2 = [st EXCEPT !.recovery = e] OBVIOUS
 <2> HIDE DEF e
 <2> QED BY <1>6, <2>1, <2>2, WithRecovery
<1> HIDE DEF kr2
<1>8. k2 \in SUBSET Slots BY <1>2, <1>6, <1>7 DEF StagedKeys, Staged, Current
<1> HIDE DEF k2
<1>9. T \in SUBSET Scopes /\ \A t \in T : Exists(kr2, t) /\ FreshSerials(kr2, t) # {}
 BY <1>3, <1>4, <1>6, <1>7 DEF Transitioning, Scopes, Exists
<1> HIDE DEF T
<1>10. \A t \in Scopes \ T : Exists(kr2, t) =>
          FlagMatches(kr2, t, L)
 BY <1>7 DEF FlagsMatch
<1>11. {} \in SUBSET Wraps /\ FALSE \in BOOLEAN /\ (FALSE <=> Password \in {}) OBVIOUS
<1>12. /\ kr3 \in Keyrings /\ Shape(kr3) /\ FlagsMatch(kr3, L)
       /\ \A t \in T : Staged(kr3, t) \in Slots /\ Current(kr3, t) \in Slots
 BY <1>7, <1>9, <1>10, <1>11, StagingKeeps
<1> HIDE DEF kr3
<1>13. k3 \in SUBSET Slots /\ {s} \cup T \in SUBSET Scopes BY <1>8, <1>9, <1>12 DEF StagedKeys
<1> HIDE DEF k3
<1> QED BY <1>2, <1>3, <1>12, <1>13, ProtectionChangeKeeps

\* commit_rotation: the staged version governs before and after.
LEMMA CommitRotationKeeps ==
  ASSUME NEW L \in SUBSET Workspaces, IInv(L), NEW s \in Scopes, CommitRotation(s)
  PROVE  IInv(L)'
<1> DEFINE new == Staged(keyring, s)
           old == Current(keyring, s)
           kr  == [Without(keyring, {old}) EXCEPT !.cur[s] = new[2], !.staged[s] = None]
           ks  == (keys \ {old}) \cup {new}
           fs  == fieldKeys \cup {s}
<1>1. /\ keyring \in Keyrings /\ Shape(keyring) /\ FlagsMatch(keyring, L) /\ lost \in BOOLEAN
      /\ reveal \in SUBSET Scopes
 BY DEF IInv, TypeOK, Sound
<1>2. Known \in SUBSET Slots BY SnapshotType DEF IInv
<1>3. /\ Rotating(keyring, s) /\ new \in Known
      /\ Saves(Reconcile(kr, devices, Known, Scopes, lost), ks, fs, reveal, {})
 BY DEF CommitRotation
<1>4. new \in Slots /\ ks \in SUBSET Slots /\ fs \in SUBSET Scopes
 BY <1>2, <1>3 DEF IInv, TypeOK
<1>5. new[2] = keyring.staged[s] /\ new[2] \in Serials BY <1>4 DEF Staged, Slots
<1>6. /\ kr.cur = [keyring.cur EXCEPT ![s] = new[2]]
      /\ kr.staged = [keyring.staged EXCEPT ![s] = None]
      /\ kr.own = [v \in Slots |-> v \notin {old} /\ keyring.own[v]]
      /\ kr.wraps = [v \in Slots |-> IF v \in {old} THEN {} ELSE keyring.wraps[v]]
 BY <1>1 DEF Without, Keyrings
<1>7. kr \in Keyrings
 <2>1. Without(keyring, {old}) \in Keyrings BY <1>1 DEF Without, Keyrings
 <2> QED BY <1>5, <2>1 DEF Keyrings
<1> HIDE DEF kr, ks, fs
<1>8. \A t \in Scopes : Governing(kr, t) = Governing(keyring, t)
 BY <1>1, <1>3, <1>5, <1>6 DEF Keyrings, Governing, Rotating, Staged, Current
<1>9. \A t \in Scopes : Exists(kr, t) <=> Exists(keyring, t)
 BY <1>1, <1>3, <1>5, <1>6, KeyringConstants DEF Keyrings, Shape, Exists
<1>10. \A t \in Scopes : Rotating(kr, t) => Rotating(keyring, t)
 BY <1>1, <1>6 DEF Keyrings, Rotating
<1>11. Shape(kr) BY <1>1, <1>9, <1>10 DEF Shape, Scopes
<1>12. FlagsMatch(kr, L)
 <2> SUFFICES ASSUME NEW t \in Scopes, Exists(keyring, t)
              PROVE  FlagMatches(kr, t, L)
  BY <1>8, <1>9 DEF FlagsMatch
 <2> DEFINE g == Governing(keyring, t)
 <2>1. /\ g \in Slots
       /\ keyring.own[g] => Password \in keyring.wraps[g]
       /\ Password \in keyring.wraps[g] => keyring.own[g] \/ t \in L
  BY <1>1, GoverningIsVersion DEF FlagsMatch, FlagMatches
 <2> HIDE DEF g
 <2>2. kr.own[g] <=> g # old /\ keyring.own[g] BY <1>6, <2>1
 <2>3. kr.wraps[g] = IF g = old THEN {} ELSE keyring.wraps[g] BY <1>6, <2>1
 <2>4. /\ kr.own[g] => Password \in kr.wraps[g]
       /\ Password \in kr.wraps[g] => kr.own[g] \/ t \in L
  BY <2>1, <2>2, <2>3
 <2> QED BY <1>8, <2>4 DEF g, FlagMatches
<1> QED BY <1>1, <1>2, <1>3, <1>4, <1>7, <1>11, <1>12, SavesAllKeeps

--------------------------------------------------
\* Locks, expiries, failures and restarts touch memory only.
LEMMA MemoryStepsKeep ==
  ASSUME NEW L \in SUBSET Workspaces, IInv(L),
         \/ BeginOp \/ EndWithError \/ DeleteRetired
         \/ \E s \in Scopes : \/ OpenScopeFails(s) \/ LockScope(s) \/ RevealExpires(s)
                             \/ OpenReveal(s)
         \/ LockProtected \/ CloseReveal \/ Restart \/ UNCHANGED vars
  PROVE  IInv(L)'
<1>1. /\ TypeOK /\ Sound(keyring, L) /\ App \in Scopes BY DEF IInv, Scopes
<1>2. keyring' = keyring
 BY DEF BeginOp, EndWithError, DeleteRetired, OpenScopeFails, LockScope, RevealExpires,
        OpenReveal, LockProtected, CloseReveal, Restart, vars
<1>3. TypeOK'
 <2>1. CASE BeginOp BY <1>1, <2>1 DEF TypeOK, BeginOp, Busy
 <2>2. CASE EndWithError BY <1>1, <2>2 DEF TypeOK, EndWithError, Idle
 <2>11. CASE DeleteRetired BY <1>1, <2>11 DEF TypeOK, DeleteRetired, Idle
 <2>3. ASSUME NEW s \in Scopes, OpenScopeFails(s) PROVE TypeOK'
  BY <1>1, <2>3 DEF TypeOK, OpenScopeFails, FindsLost, Idle
 <2>4. ASSUME NEW s \in Scopes, LockScope(s) PROVE TypeOK'
  BY <1>1, <2>4 DEF TypeOK, LockScope, MovesEpoch
 <2>5. ASSUME NEW s \in Scopes, RevealExpires(s) PROVE TypeOK'
  BY <1>1, <2>5 DEF TypeOK, RevealExpires
 <2>6. ASSUME NEW s \in Scopes, OpenReveal(s) PROVE TypeOK'
  BY <1>1, <2>6 DEF TypeOK, OpenReveal, RevealDomain, Idle
 <2>7. CASE LockProtected BY <1>1, <2>7 DEF TypeOK, LockProtected, MovesEpoch
 <2>8. CASE CloseReveal BY <1>1, <2>8 DEF TypeOK, CloseReveal
 <2>9. CASE Restart BY <1>1, <2>9 DEF TypeOK, Restart, Idle
 <2>10. CASE UNCHANGED vars BY <1>1, <2>10 DEF TypeOK, vars
 <2> QED BY <2>1, <2>2, <2>3, <2>4, <2>5, <2>6, <2>7, <2>8, <2>9, <2>10, <2>11
<1> QED BY <1>1, <1>2, <1>3 DEF IInv

\* Every operation but the abort of a rotation keeps the invariant.
LEMMA OperationKeeps ==
  ASSUME NEW L \in SUBSET Workspaces, IInv(L), Operation,
         \A s \in Scopes : ~ AbortRotation(s)
  PROVE  IInv(L)'
<1>1. CASE Initialize BY <1>1, InitializeKeeps
<1>2. ASSUME NEW ids \in SUBSET Workspaces, NEW P \in SUBSET (ids \cup {App}),
             InitializeFromExport(ids, P)
      PROVE  IInv(L)'
 BY <1>2, InitializeFromExportKeeps
<1>3. ASSUME NEW s \in Scopes,
             OpenScope(s) \/ UnlockWithPassword(s) \/ UnlockWithPresence(s)
      PROVE  IInv(L)'
 BY <1>3, UnlocksKeep
<1>4. ASSUME NEW s \in Scopes, NEW p \in BOOLEAN, CreateScope(s, p) PROVE IInv(L)'
 BY <1>4, CreateScopeKeeps
<1>5. ASSUME NEW s \in Scopes, DeleteScope(s) PROVE IInv(L)'
 BY <1>5, DeleteScopeKeeps
<1>6. ASSUME NEW s \in Scopes, ChangePassword(s) PROVE IInv(L)'
 BY <1>6, ChangePasswordKeeps
<1>7. ASSUME NEW s \in Scopes, SetPassword(s) PROVE IInv(L)'
 BY <1>7, SetPasswordKeeps
<1>8. ASSUME NEW s \in Scopes, RemovePassword(s) PROVE IInv(L)'
 BY <1>8, RemovePasswordKeeps
<1>9. ASSUME NEW s \in Scopes, EnablePresence(s) \/ DisablePresence(s) PROVE IInv(L)'
 BY <1>9, PresenceKeeps
<1>10. ASSUME NEW s \in Scopes, CommitRotation(s) PROVE IInv(L)'
 BY <1>10, CommitRotationKeeps
<1>11. ASSUME NEW s \in Scopes, OpenReveal(s) PROVE IInv(L)'
 BY <1>11, MemoryStepsKeep
<1>12. ASSUME NEW r \in RecoveryIds, UnlockWithRecovery(r) PROVE IInv(L)'
 BY <1>12, UnlockWithRecoveryKeeps
<1>13. CASE SetupRecovery \/ RemoveRecovery BY <1>13, RecoveryKeeps
<1> QED
 BY <1>1, <1>2, <1>3, <1>4, <1>5, <1>6, <1>7, <1>8, <1>9, <1>10, <1>11, <1>12, <1>13
    DEF Operation

\* The first run starts from an empty keyring.
LEMMA InitEstablishes ==
  ASSUME NEW L, Init
  PROVE  IInv(L)
<1>1. Empty \in Keyrings BY DEF Empty, Keyrings
<1>2. Sound(Empty, L)
 BY DEF Empty, Sound, Shape, FlagsMatch, Exists, Rotating, AllVersions, Versions
<1> QED BY <1>1, <1>2 DEF Init, IInv, TypeOK, Idle

--------------------------------------------------
(***************************************************************************)
(* What the keystore promises to its users, for every value of the         *)
(* constants: keys that a lock dropped stay out of memory until an         *)
(* operation that began after the lock opens their scope, the store sees   *)
(* nothing but the calls of module Rotation, one at a time, and a version  *)
(* sealed with a password opens with it anywhere.                          *)
(*                                                                         *)
(* The first two rest on what the epoch check of finish gives: an          *)
(* operation that gets to its last step has only keys that are still in    *)
(* memory.                                                                 *)
(***************************************************************************)

LockedNeedSecret ==
    \A s \in locked : /\ Exists(keyring, s)
                      /\ \/ Protected(keyring, s)
                         \/ Password \in keyring.wraps[Governing(keyring, s)]
SnapshotHolds == snap.phase = "busy" /\ snap.fresh => snap.known \subseteq keys
KeysHaveScopes == \A v \in keys : Exists(keyring, v[1])
Distinct(kr) == \A s \in Scopes : Rotating(kr, s) => kr.staged[s] # kr.cur[s]

HoldInv ==
    LockHolds /\ LockedNeedSecret /\ SnapshotHolds /\ KeysHaveScopes /\ Distinct(keyring)

--------------------------------------------------
\* A pass changes no version, no seal and forgets no key.
LEMMA ReconcileVersions ==
  ASSUME NEW kr \in Keyrings, NEW devs, NEW known \in SUBSET Slots,
         NEW ids \in SUBSET Scopes, NEW l \in BOOLEAN,
         Reconcile(kr, devs, known, ids, l).ok
  PROVE  /\ Reconcile(kr, devs, known, ids, l).keyring.cur = kr.cur
         /\ Reconcile(kr, devs, known, ids, l).keyring.staged = kr.staged
         /\ Reconcile(kr, devs, known, ids, l).keyring.own = kr.own
<1> DEFINE R == Reconcile(kr, devs, known, ids, l)
<1>1. PICK k \in SUBSET Slots, d \in DeviceIds \cup {None} : AppliesWith(R, kr, ids, k, d)
 BY ReconcileResult
<1> HIDE DEF R
<1>2. R.keyring = ApplyPolicy([kr EXCEPT !.quiet = d], Policy(kr, k), k, ids)
 BY <1>1 DEF AppliesWith
<1>3. R.keyring.cur = kr.cur /\ R.keyring.staged = kr.staged /\ R.keyring.own = kr.own
 BY <1>2 DEF ApplyPolicy, Keyrings
<1> QED BY <1>3 DEF R

\* What a pass knows at its end: what it was given and versions it may work on.
LEMMA ReconcileKnows ==
  ASSUME NEW kr, NEW devs, NEW known, NEW ids, NEW l
  PROVE  /\ known \subseteq Reconcile(kr, devs, known, ids, l).known
         /\ Reconcile(kr, devs, known, ids, l).known
               \subseteq known \cup Versions(kr, App) \cup LiveIn(kr, ids)
<1> DEFINE k1 == WithAppKeys(kr, devs, known, l)
           work == WorkVersions(kr, k1, ids)
           k2 == k1 \cup {v \in work : Obtains(kr, devs, k1, l, v)}
<1>1. Reconcile(kr, devs, known, ids, l).known = k2 BY DEF Reconcile, Obtaining, Outcome
<1>2. known \subseteq k1 /\ k1 \subseteq known \cup Versions(kr, App) BY DEF WithAppKeys
<1>3. work \subseteq LiveIn(kr, ids) BY DEF WorkVersions
<1> HIDE DEF k1, work
<1>4. known \subseteq k2 /\ k2 \subseteq k1 \cup work BY <1>2
<1> HIDE DEF k2
<1> QED BY <1>1, <1>2, <1>3, <1>4

\* The last step of an operation that adds keys of the scopes T only, those of T that
\* were locked being the ones it was asked to open.
LEMMA FinishHolds ==
  ASSUME HoldInv, MayFinish, NEW kr, NEW ks, NEW fs, NEW rv, NEW l, NEW U, NEW T,
         Finish(kr, ks, fs, rv, l, U),
         \A v \in ks : v \in keys \/ v[1] \in T,
         fs \subseteq fieldKeys \cup T,
         T \cap locked \subseteq U,
         \A v \in ks : Exists(kr, v[1]),
         Distinct(kr)
  PROVE  HoldInv'
<1>1. keyring' = kr /\ keys' = ks /\ fieldKeys' = fs BY DEF Finish
<1>2. snap'.phase # "busy" BY DEF Finish, Idle, Retiring
<1>3. \A s \in locked' : /\ s \in locked /\ s \notin T
                         /\ Exists(kr, s) /\ Protected(kr, s)
 BY DEF Finish, MayFinish
<1>4. LockHolds' BY <1>1, <1>3 DEF HoldInv, LockHolds
<1>5. LockedNeedSecret' BY <1>1, <1>3 DEF LockedNeedSecret
<1>6. SnapshotHolds' BY <1>2 DEF SnapshotHolds
<1>7. KeysHaveScopes' /\ Distinct(keyring)' BY <1>1 DEF KeysHaveScopes
<1> QED BY <1>4, <1>5, <1>6, <1>7 DEF HoldInv

\* Keyrings with the same versions and seals look the same to the store.
LEMMA SameSealing ==
  ASSUME NEW kr, NEW r, r.cur = kr.cur, r.staged = kr.staged, r.own = kr.own
  PROVE  /\ Sealing(r) = Sealing(kr)
         /\ \A s : /\ Exists(r, s) <=> Exists(kr, s)
                   /\ Rotating(r, s) <=> Rotating(kr, s)
                   /\ Governing(r, s) = Governing(kr, s)
         /\ Distinct(r) <=> Distinct(kr)
BY DEF Sealing, Exists, Rotating, Governing, Current, Staged, Distinct

\* A step that changes no version or seal and adds keys of existing versions is an unlock.
LEMMA UnlockStep ==
  ASSUME keyring'.cur = keyring.cur, keyring'.staged = keyring.staged,
         Sealing(keyring') = Sealing(keyring),
         NEW V \in SUBSET AllVersions(keyring), keys' = keys \cup V
  PROVE  Promise!KeystoreNext
<1>1. V \in SUBSET UNION {Promise!Versions(s) : s \in Promise!Scopes}
 BY DEF AllVersions, Versions, Scopes, Promise!Versions, Promise!Scopes
<1>2. Promise!KsUnlock(V) BY <1>1 DEF Promise!KsUnlock
<1> QED BY <1>1, <1>2 DEF Promise!KeystoreNext

\* The same for a whole operation: it saves a keyring with the same versions and seals
\* and installs keys V of the scopes T.
LEMMA FinishUnlocks ==
  ASSUME NEW L \in SUBSET Workspaces, IInv(L), HoldInv, MayFinish, NEW kr,
         kr.cur = keyring.cur, kr.staged = keyring.staged, kr.own = keyring.own,
         NEW V \in SUBSET AllVersions(keyring), NEW T, \A v \in V : v[1] \in T,
         NEW fs, fs \subseteq fieldKeys \cup T, NEW rv, NEW l, NEW U, T \cap locked \subseteq U,
         Finish(kr, keys \cup V, fs, rv, l, U)
  PROVE  HoldInv' /\ Promise!KeystoreNext
<1>1. keyring' = kr /\ keys' = keys \cup V BY DEF Finish
<1>2. Sealing(kr) = Sealing(keyring) /\ Distinct(kr) BY SameSealing DEF HoldInv
<1>3. \A v \in keys \cup V : Exists(kr, v[1])
 <2>1. \A v \in keys \cup V : Exists(keyring, v[1])
  BY DEF HoldInv, KeysHaveScopes, IInv, Sound, Shape, AllVersions, Versions, Exists, Rotating
 <2> QED BY <2>1, SameSealing
<1>4. \A v \in keys \cup V : v \in keys \/ v[1] \in T OBVIOUS
<1>5. HoldInv' BY <1>2, <1>3, <1>4, FinishHolds
<1>6. Promise!KeystoreNext BY <1>1, <1>2, UnlockStep
<1> QED BY <1>5, <1>6

--------------------------------------------------
(* The operations, one lemma each. *)

\* initialize: nothing exists yet, so nothing is locked.
LEMMA InitializeKept ==
  ASSUME NEW L \in SUBSET Workspaces, IInv(L), HoldInv, MayFinish, Initialize
  PROVE  HoldInv' /\ Promise!KeystoreNext
<1> DEFINE n == Fresh(FreshSerials(keyring, App))
           kr == [NewVersion(keyring, App, n, FALSE, {}) EXCEPT !.cur[App] = n]
           R  == Reconcile(kr, devices, {<<App, n>>}, {App}, FALSE)
<1>1. keyring \in Keyrings /\ App \in Scopes /\ Shape(keyring) /\ ~ Exists(keyring, App)
 BY DEF IInv, TypeOK, Sound, Initialize, Scopes
<1>2. n \in Serials /\ n # None /\ <<App, n>> \in Slots
 BY <1>1 DEF Initialize, Fresh, FreshSerials, Slots
<1>3. Saves(R, {<<App, n>>}, {App}, reveal, {}) BY DEF Initialize
<1> HIDE DEF n
<1>4. /\ kr.cur = [keyring.cur EXCEPT ![App] = n] /\ kr.staged = keyring.staged
      /\ kr.own = [keyring.own EXCEPT ![<<App, n>>] = FALSE]
 BY DEF NewVersion, Keyrings
<1>5. kr \in Keyrings BY <1>1, <1>2 DEF NewVersion, Keyrings
<1> HIDE DEF kr
<1>6. R.keyring.cur = kr.cur /\ R.keyring.staged = kr.staged /\ R.keyring.own = kr.own
 <2> DEFINE K == {<<App, n>>}
            I == {App}
            f == FALSE
 <2>1. K \in SUBSET Slots /\ I \in SUBSET Scopes /\ f \in BOOLEAN BY <1>1, <1>2
 <2>2. Reconcile(kr, devices, K, I, f).ok BY <1>3 DEF Saves
 <2>3. R = Reconcile(kr, devices, K, I, f) OBVIOUS
 <2> HIDE DEF R, K, I, f
 <2> QED BY <1>5, <2>1, <2>2, <2>3, ReconcileVersions
<1>7. Finish(R.keyring, {<<App, n>>}, {App}, reveal, R.lost, {}) BY <1>3 DEF Saves
<1> HIDE DEF R
<1>8. locked = {} /\ \A s \in Scopes : ~ Exists(keyring, s) /\ ~ Rotating(keyring, s)
 BY <1>1 DEF HoldInv, LockedNeedSecret, IInv, TypeOK, Shape
<1>9. /\ Exists(R.keyring, App) /\ \A s \in Scopes : ~ Rotating(R.keyring, s)
      /\ \A s \in Scopes \ {App} : ~ Exists(R.keyring, s)
 BY <1>1, <1>2, <1>4, <1>6, <1>8 DEF Exists, Rotating, Keyrings
<1>10. HoldInv'
 <2> DEFINE ks == {<<App, n>>}
            fs == {App}
            U  == {}
 <2>1. \A v \in ks : v \in keys \/ v[1] \in fs OBVIOUS
 <2>2. \A v \in ks : Exists(R.keyring, v[1]) BY <1>9
 <2>3. fs \subseteq fieldKeys \cup fs /\ fs \cap locked \subseteq U BY <1>8
 <2>4. Distinct(R.keyring) BY <1>9 DEF Distinct
 <2>5. Finish(R.keyring, ks, fs, reveal, R.lost, U) BY <1>7
 <2> HIDE DEF R, ks, fs, U
 <2> QED BY <2>1, <2>2, <2>3, <2>4, <2>5, FinishHolds
<1>11. keyring' = R.keyring /\ keys' = {<<App, n>>} BY <1>7 DEF Finish
<1>12. Governing(R.keyring, App) = <<App, n>>
 BY <1>1, <1>4, <1>6, <1>9 DEF Governing, Current, Keyrings
<1>13. Sealing(R.keyring) = [s \in Scopes |-> s \in {}]
 BY <1>1, <1>2, <1>4, <1>6, <1>9, <1>12 DEF Sealing, Keyrings
<1>14. R.keyring.cur = [s \in Scopes |-> IF s \in {} \cup {App} THEN n ELSE None]
 BY <1>1, <1>4, <1>6, <1>8 DEF Exists, Keyrings
<1>15. Promise!KsInitialize({}, {})
 <2>1. keys' = ({} \cup {App}) \X {n} BY <1>11
 <2> QED
  BY <1>2, <1>4, <1>6, <1>8, <1>11, <1>13, <1>14, <2>1
     DEF Promise!KsInitialize, Promise!Exists, Promise!Scopes, Scopes, Exists
<1> QED BY <1>10, <1>15 DEF Promise!KeystoreNext

\* initialize_from_export
LEMMA InitializeFromExportKept ==
  ASSUME NEW L \in SUBSET Workspaces, IInv(L), HoldInv, MayFinish,
         NEW ids \in SUBSET Workspaces, NEW P \in SUBSET (ids \cup {App}),
         InitializeFromExport(ids, P)
  PROVE  HoldInv' /\ Promise!KeystoreNext
<1> DEFINE n == Fresh(Serials)
           all == ids \cup {App}
           cur == [s \in Scopes |-> IF s \in all THEN n ELSE None]
           own == [v \in Slots |-> v[2] = n /\ v[1] \in P]
           wraps == [v \in Slots |-> IF v[2] = n /\ v[1] \in P THEN {Password} ELSE {}]
           kr == [keyring EXCEPT !.cur = cur, !.own = own, !.wraps = wraps]
           R == Reconcile(kr, devices, all \X {n}, all, FALSE)
<1>1. keyring \in Keyrings /\ Shape(keyring) /\ ~ Exists(keyring, App) /\ App \in Scopes
 BY DEF IInv, TypeOK, Sound, InitializeFromExport, Scopes
<1>2. n \in Serials /\ n # None BY KeyringConstants DEF Fresh
<1>3. Saves(R, R.known, all, reveal, {}) BY DEF InitializeFromExport
<1> HIDE DEF n
<1>4. all \in SUBSET Scopes /\ App \in all /\ all \X {n} \in SUBSET Slots
 BY <1>2 DEF Scopes, Slots
<1>5. /\ cur \in [Scopes -> Serials \cup {None}]
      /\ own \in [Slots -> BOOLEAN]
      /\ wraps \in [Slots -> SUBSET Wraps]
 BY <1>2 DEF Wraps
<1>6. kr \in Keyrings
 <2> HIDE DEF cur, own, wraps
 <2> QED BY <1>1, <1>5 DEF Keyrings
<1>7. kr.cur = cur /\ kr.staged = keyring.staged /\ kr.own = own BY <1>1 DEF Keyrings
<1> HIDE DEF kr
<1>8. R.keyring.cur = cur /\ R.keyring.staged = keyring.staged /\ R.keyring.own = own
 BY ZenonT(60), <1>3, <1>4, <1>6, <1>7, ReconcileVersions DEF Saves
<1>9. locked = {} /\ \A s \in Scopes : ~ Exists(keyring, s) /\ ~ Rotating(keyring, s)
 BY <1>1 DEF HoldInv, LockedNeedSecret, IInv, TypeOK, Shape
<1>10. \A s \in Scopes : /\ ~ Rotating(kr, s) /\ ~ Rotating(R.keyring, s)
                         /\ Exists(kr, s) <=> s \in all
                         /\ Exists(R.keyring, s) <=> s \in all
 BY <1>2, <1>7, <1>8, <1>9 DEF Exists, Rotating
<1>11. R.known = all \X {n}
 <2>1. Versions(kr, App) \subseteq all \X {n} /\ LiveIn(kr, all) \subseteq all \X {n}
  <3>1. \A s \in all : Versions(kr, s) \subseteq {<<s, n>>}
   BY <1>4, <1>7, <1>10 DEF Versions, Rotating
  <3> QED BY <1>4, <3>1 DEF LiveIn
 <2> QED BY <2>1, ReconcileKnows
<1>12. Finish(R.keyring, all \X {n}, all, reveal, R.lost, {}) BY <1>3, <1>11 DEF Saves
<1> HIDE DEF R, cur, own
<1>13. HoldInv'
 <2>1. \A v \in all \X {n} : v \in keys \/ v[1] \in all OBVIOUS
 <2>2. \A v \in all \X {n} : Exists(R.keyring, v[1]) BY <1>4, <1>10
 <2>3. all \subseteq fieldKeys \cup all /\ all \cap locked \subseteq {} BY <1>9
 <2>4. Distinct(R.keyring) BY <1>10 DEF Distinct
 <2> HIDE DEF all
 <2> QED BY <1>12, <2>1, <2>2, <2>3, <2>4, FinishHolds
<1>14. keyring' = R.keyring /\ keys' = all \X {n} BY <1>12 DEF Finish
<1>15. Sealing(R.keyring) = [s \in Scopes |-> s \in P]
 <2>1. \A s \in all : Governing(R.keyring, s) = <<s, n>>
  BY <1>4, <1>8, <1>10 DEF Governing, Current, cur
 <2>2. \A s \in all : own[<<s, n>>] = (s \in P) BY <1>2, <1>4 DEF own, Slots
 <2>3. \A s \in Scopes : Exists(R.keyring, s) /\ R.keyring.own[Governing(R.keyring, s)]
                            <=> s \in P
  <3> SUFFICES ASSUME NEW s \in Scopes
               PROVE  Exists(R.keyring, s) /\ own[Governing(R.keyring, s)] <=> s \in P
   BY <1>8
  <3>1. CASE s \in all
   <4>1. Exists(R.keyring, s) BY <1>10, <3>1
   <4>2. own[Governing(R.keyring, s)] <=> s \in P BY <2>1, <2>2, <3>1
   <4> QED BY <4>1, <4>2
  <3>2. CASE s \notin all BY <1>10, <3>2
  <3> QED BY <3>1, <3>2
 <2> QED BY <2>3 DEF Sealing
<1>16. Promise!KsInitialize(ids, P)
 BY <1>2, <1>8, <1>9, <1>14, <1>15
    DEF Promise!KsInitialize, Promise!Exists, Promise!Scopes, Scopes, Exists, cur
<1> QED BY <1>13, <1>16 DEF Promise!KeystoreNext

\* complete_unlock opens versions of one scope, the one it was asked to open.
LEMMA CompleteUnlockKept ==
  ASSUME NEW L \in SUBSET Workspaces, IInv(L), HoldInv, MayFinish,
         NEW s \in Scopes, NEW found \in SUBSET Versions(keyring, s),
         CompleteUnlock(s, found)
  PROVE  HoldInv' /\ Promise!KeystoreNext
<1> DEFINE k1 == Known \cup found
           l1 == FindsLost(keyring, devices, k1, lost, Versions(keyring, s))
           k2 == k1 \cup {v \in Versions(keyring, s) :
                             Obtains(keyring, devices, k1, lost, v)}
           R  == Reconcile(keyring, devices, k2, {s}, l1)
           V  == found \cup (k2 \cap Versions(keyring, s))
           ks == keys \cup found \cup (k2 \cap Versions(keyring, s))
           fs == fieldKeys \cup {s}
<1>1. keyring \in Keyrings /\ lost \in BOOLEAN /\ Known \in SUBSET Slots
 BY SnapshotType DEF IInv, TypeOK
<1>2. k2 \in SUBSET Slots /\ l1 \in BOOLEAN /\ {s} \in SUBSET Scopes
 BY <1>1, VersionsAreSlots DEF FindsLost
<1>3. PICK kr, l : /\ kr = keyring \/ (R.ok /\ kr = R.keyring)
                   /\ Finish(kr, ks, fs, reveal, l, {s})
 BY DEF CompleteUnlock, Repairs
<1> HIDE DEF k2, l1
<1>4. kr.cur = keyring.cur /\ kr.staged = keyring.staged /\ kr.own = keyring.own
 <2> DEFINE I == {s}
 <2>1. CASE kr = keyring BY <2>1
 <2>2. CASE R.ok /\ kr = R.keyring
  <3>1. I \in SUBSET Scopes /\ Reconcile(keyring, devices, k2, I, l1).ok BY <1>2, <2>2
  <3>2. kr = Reconcile(keyring, devices, k2, I, l1).keyring BY <2>2
  <3> HIDE DEF I
  <3> QED BY <1>1, <1>2, <3>1, <3>2, ReconcileVersions
 <2> QED BY <1>3, <2>1, <2>2
<1>5. V \in SUBSET AllVersions(keyring) /\ \A v \in V : v[1] \in {s}
 BY DEF AllVersions, Versions
<1>6. ks = keys \cup V OBVIOUS
<1> HIDE DEF V, ks
<1>7. Finish(kr, keys \cup V, fs, reveal, l, {s}) BY <1>3, <1>6
<1>8. fs \subseteq fieldKeys \cup {s} /\ {s} \cap locked \subseteq {s} OBVIOUS
<1> DEFINE T == {s}
<1>9. /\ \A v \in V : v[1] \in T
      /\ fs \subseteq fieldKeys \cup T /\ T \cap locked \subseteq T
      /\ Finish(kr, keys \cup V, fs, reveal, l, T)
 BY <1>5, <1>7
<1> HIDE DEF T, fs
<1> QED BY <1>4, <1>5, <1>9, FinishUnlocks

\* open_scope, unlock_with_password, unlock_with_presence
LEMMA UnlocksKept ==
  ASSUME NEW L \in SUBSET Workspaces, IInv(L), HoldInv, MayFinish, NEW s \in Scopes,
         OpenScope(s) \/ UnlockWithPassword(s) \/ UnlockWithPresence(s)
  PROVE  HoldInv' /\ Promise!KeystoreNext
<1>1. CASE OpenScope(s) BY <1>1, CompleteUnlockKept DEF OpenScope
<1>2. CASE UnlockWithPassword(s) BY <1>2, CompleteUnlockKept DEF UnlockWithPassword
<1>3. CASE UnlockWithPresence(s) BY <1>3, CompleteUnlockKept DEF UnlockWithPresence
<1> QED BY <1>1, <1>2, <1>3

\* unlock_with_recovery opens the versions the code has a route to, whatever their scopes.
LEMMA UnlockWithRecoveryKept ==
  ASSUME NEW L \in SUBSET Workspaces, IInv(L), HoldInv, MayFinish,
         NEW r, UnlockWithRecovery(r)
  PROVE  HoldInv' /\ Promise!KeystoreNext
<1> DEFINE found == {v \in AllVersions(keyring) : Recovery(r) \in keyring.wraps[v]}
           opened == {s \in Scopes : Current(keyring, s) \in found}
           l1 == lost \/ (keyring.quiet # None /\ keyring.quiet \notin devices)
           k  == Known \cup found
           R  == Reconcile(keyring, devices, k, Scopes, l1)
           fs == fieldKeys \cup opened
           U  == {v[1] : v \in found}
<1>1. keyring \in Keyrings /\ lost \in BOOLEAN /\ Known \in SUBSET Slots
 BY SnapshotType DEF IInv, TypeOK
<1>2. k \in SUBSET Slots /\ l1 \in BOOLEAN /\ Scopes \in SUBSET Scopes BY <1>1, VersionsAreSlots
<1>3. PICK kr, l : /\ kr = keyring \/ (R.ok /\ kr = R.keyring)
                   /\ Finish(kr, keys \cup found, fs, reveal, l, U)
 BY DEF UnlockWithRecovery, Repairs
<1> HIDE DEF k, l1
<1>4. kr.cur = keyring.cur /\ kr.staged = keyring.staged /\ kr.own = keyring.own
 BY <1>1, <1>2, <1>3, ReconcileVersions
<1>5. opened \subseteq U BY DEF Current
<1>6. found \in SUBSET AllVersions(keyring) /\ \A v \in found : v[1] \in U OBVIOUS
<1> HIDE DEF found, opened, U
<1>7. fs \subseteq fieldKeys \cup U /\ U \cap locked \subseteq U BY <1>5
<1> HIDE DEF fs
<1> QED BY <1>3, <1>4, <1>6, <1>7, FinishUnlocks

\* Operations that install no key: enable_presence, disable_presence, setup_recovery,
\* remove_recovery.
LEMMA NoKeysKept ==
  ASSUME NEW L \in SUBSET Workspaces, IInv(L), HoldInv, MayFinish,
         \/ \E s \in Scopes : EnablePresence(s) \/ DisablePresence(s)
         \/ SetupRecovery \/ RemoveRecovery
  PROVE  HoldInv' /\ Promise!KeystoreNext
<1>1. keyring \in Keyrings /\ lost \in BOOLEAN /\ Known \in SUBSET Slots
 BY SnapshotType DEF IInv, TypeOK
<1>2. PICK kr, l : /\ kr.cur = keyring.cur /\ kr.staged = keyring.staged
                   /\ kr.own = keyring.own
                   /\ Finish(kr, keys, fieldKeys, reveal, l, {})
 <2>1. ASSUME NEW s \in Scopes, EnablePresence(s) \/ DisablePresence(s)
       PROVE  \E kr, l : /\ kr.cur = keyring.cur /\ kr.staged = keyring.staged
                         /\ kr.own = keyring.own
                         /\ Finish(kr, keys, fieldKeys, reveal, l, {})
  <3>1. PICK W : Finish(WithPresence(keyring, s, W), keys, fieldKeys, reveal, lost, {})
   BY <2>1 DEF EnablePresence, DisablePresence
  <3>2. /\ WithPresence(keyring, s, W).cur = keyring.cur
        /\ WithPresence(keyring, s, W).staged = keyring.staged
        /\ WithPresence(keyring, s, W).own = keyring.own
   BY <1>1 DEF WithPresence, Keyrings
  <3> QED BY <3>1, <3>2
 <2>2. ASSUME NEW e,
              e \in {NoRecovery} \cup [id : RecoveryIds, mac : Serials, held : BOOLEAN],
              Saves(Reconcile([keyring EXCEPT !.recovery = e], devices, Known, Scopes, lost),
                    keys, fieldKeys, reveal, {})
       PROVE  \E kr, l : /\ kr.cur = keyring.cur /\ kr.staged = keyring.staged
                         /\ kr.own = keyring.own
                         /\ Finish(kr, keys, fieldKeys, reveal, l, {})
  <3> DEFINE q == [keyring EXCEPT !.recovery = e]
             R == Reconcile(q, devices, Known, Scopes, lost)
  <3>1. q \in Keyrings /\ q.cur = keyring.cur /\ q.staged = keyring.staged
        /\ q.own = keyring.own
   BY <1>1, <2>2 DEF Keyrings
  <3>2. R.ok /\ Finish(R.keyring, keys, fieldKeys, reveal, R.lost, {}) BY <2>2 DEF Saves
  <3> HIDE DEF q
  <3>3. R.keyring.cur = q.cur /\ R.keyring.staged = q.staged /\ R.keyring.own = q.own
   BY <1>1, <3>1, <3>2, ReconcileVersions
  <3> QED BY <3>1, <3>2, <3>3
 <2>3. CASE SetupRecovery
  <3> DEFINE gov == Governing(keyring, App)
             new == RecoveryIds \ UsedCodes(keyring)
             e == [id |-> Fresh(new), mac |-> gov[2], held |-> keyring.own[gov]]
  <3>1. gov \in Slots /\ Fresh(new) \in RecoveryIds BY <1>1, <2>3 DEF SetupRecovery, Fresh
  <3>2. gov[2] \in Serials /\ keyring.own[gov] \in BOOLEAN BY <1>1, <3>1 DEF Slots, Keyrings
  <3>3. e \in [id : RecoveryIds, mac : Serials, held : BOOLEAN] BY <3>1, <3>2
  <3>4. Saves(Reconcile([keyring EXCEPT !.recovery = e], devices, Known, Scopes, lost),
              keys, fieldKeys, reveal, {})
   BY <2>3 DEF SetupRecovery
  <3> HIDE DEF e
  <3> QED BY <2>2, <3>3, <3>4
 <2>4. CASE RemoveRecovery BY <2>2, <2>4 DEF RemoveRecovery
 <2> QED BY <2>1, <2>3, <2>4
<1> DEFINE V == {}
<1>3. /\ V \in SUBSET AllVersions(keyring) /\ \A v \in V : v[1] \in V
      /\ fieldKeys \subseteq fieldKeys \cup V /\ V \cap locked \subseteq V
      /\ Finish(kr, keys \cup V, fieldKeys, reveal, l, V)
 <2>1. keys \cup V = keys OBVIOUS
 <2> QED BY <1>2, <2>1
<1> HIDE DEF V
<1> QED BY <1>2, <1>3, FinishUnlocks

\* A key the operation started with is in memory, so its scope is not locked.
LEMMA KnownIsOpen ==
  ASSUME HoldInv, MayFinish, NEW v \in Known
  PROVE  v \in keys /\ v[1] \notin locked
BY DEF HoldInv, SnapshotHolds, LockHolds, MayFinish, Known

\* create_scope
LEMMA CreateScopeKept ==
  ASSUME NEW L \in SUBSET Workspaces, IInv(L), HoldInv, MayFinish,
         NEW s \in Scopes, NEW p \in BOOLEAN, CreateScope(s, p)
  PROVE  HoldInv' /\ Promise!KeystoreNext
<1> DEFINE n == Fresh(FreshSerials(keyring, s))
           W == IF p THEN {Password} ELSE {}
           kr == [NewVersion(keyring, s, n, p, W) EXCEPT !.cur[s] = n]
           k == Known \cup {<<s, n>>}
           T == {s}
           ks == keys \cup {<<s, n>>}
           R == Reconcile(kr, devices, k, T, lost)
<1>1. /\ keyring \in Keyrings /\ Shape(keyring) /\ lost \in BOOLEAN
      /\ Known \in SUBSET Slots
 BY SnapshotType DEF IInv, TypeOK, Sound
<1>2. /\ s # App /\ App \in Scopes
      /\ ~ Exists(keyring, s) /\ Exists(keyring, App) /\ ~ Rotating(keyring, s)
 BY <1>1 DEF CreateScope, Shape, Scopes
<1>3. n \in Serials /\ n # None /\ <<s, n>> \in Slots
 BY DEF CreateScope, Fresh, FreshSerials, Slots
<1>4. R.ok /\ Finish(R.keyring, ks, fieldKeys \cup T, reveal, R.lost, T)
 BY DEF CreateScope, Saves
<1> HIDE DEF n
<1>5. k \in SUBSET Slots /\ T \in SUBSET Scopes /\ W \in SUBSET Wraps BY <1>1, <1>3 DEF Wraps
<1> HIDE DEF W, k
<1>6. /\ kr.cur = [keyring.cur EXCEPT ![s] = n] /\ kr.staged = keyring.staged
      /\ kr.own = [keyring.own EXCEPT ![<<s, n>>] = p]
 BY <1>1 DEF NewVersion, Keyrings
<1>7. kr \in Keyrings BY <1>1, <1>3, <1>5 DEF NewVersion, Keyrings
<1> HIDE DEF kr, T
<1>8. R.keyring.cur = kr.cur /\ R.keyring.staged = kr.staged /\ R.keyring.own = kr.own
 BY <1>1, <1>4, <1>5, <1>7, ReconcileVersions
<1> HIDE DEF R
<1>9. \A t \in Scopes \ {s} : /\ Exists(R.keyring, t) <=> Exists(keyring, t)
                              /\ Rotating(R.keyring, t) <=> Rotating(keyring, t)
                              /\ Governing(R.keyring, t) = Governing(keyring, t)
                              /\ R.keyring.cur[t] = keyring.cur[t]
 BY <1>1, <1>6, <1>8 DEF Keyrings, Exists, Governing, Rotating, Staged, Current
<1>10. /\ Exists(R.keyring, s) /\ ~ Rotating(R.keyring, s)
       /\ Governing(R.keyring, s) = <<s, n>>
 BY <1>1, <1>2, <1>3, <1>6, <1>8 DEF Keyrings, Exists, Governing, Rotating, Current
<1>11. HoldInv'
 <2>1. \A v \in ks : v \in keys \/ v[1] \in T BY DEF T
 <2>2. \A v \in ks : Exists(R.keyring, v[1])
  BY <1>9, <1>10 DEF HoldInv, KeysHaveScopes, IInv, TypeOK, Slots
 <2>3. Distinct(R.keyring) BY <1>6, <1>8, <1>9, <1>10 DEF HoldInv, Distinct
 <2> HIDE DEF ks
 <2> QED BY <1>4, <2>1, <2>2, <2>3, FinishHolds
<1>12. Sealing(R.keyring) = [Sealing(keyring) EXCEPT ![s] = p]
 <2>1. R.keyring.own[<<s, n>>] = p BY <1>1, <1>3, <1>6, <1>8 DEF Keyrings
 <2>2. ASSUME NEW t \in Scopes \ {s}
       PROVE  Exists(R.keyring, t) /\ R.keyring.own[Governing(R.keyring, t)]
                 <=> Exists(keyring, t) /\ keyring.own[Governing(keyring, t)]
  <3>1. CASE Exists(keyring, t)
   <4>1. Governing(keyring, t) \in Slots /\ Governing(keyring, t) # <<s, n>>
    BY <1>1, <3>1, GoverningIsVersion
   <4> QED BY <1>1, <1>6, <1>8, <1>9, <4>1 DEF Keyrings
  <3>2. CASE ~ Exists(keyring, t) BY <1>9, <3>2
  <3> QED BY <3>1, <3>2
 <2>3. ASSUME NEW t \in Scopes
       PROVE  Exists(R.keyring, t) /\ R.keyring.own[Governing(R.keyring, t)]
                 <=> [Sealing(keyring) EXCEPT ![s] = p][t]
  <3>1. CASE t = s BY <1>10, <2>1, <3>1 DEF Sealing
  <3>2. CASE t # s BY <2>2, <3>2 DEF Sealing
  <3> QED BY <3>1, <3>2
 <2> QED BY <2>3 DEF Sealing
<1>13. keyring' = R.keyring /\ keys' = keys \cup {<<s, n>>} BY <1>4 DEF Finish
<1>14. Promise!KsCreate(s, p)
 BY <1>2, <1>3, <1>6, <1>8, <1>12, <1>13 DEF Promise!KsCreate, Promise!Exists, Exists
<1>15. s \in Promise!Scopes BY DEF Promise!Scopes, Scopes
<1> QED BY <1>11, <1>14, <1>15 DEF Promise!KeystoreNext

\* delete_scope
LEMMA DeleteScopeKept ==
  ASSUME NEW L \in SUBSET Workspaces, IInv(L), HoldInv, MayFinish,
         NEW s \in Scopes, DeleteScope(s)
  PROVE  HoldInv' /\ Promise!KeystoreNext
<1> DEFINE V == Versions(keyring, s)
           r == [Without(keyring, V) EXCEPT !.cur[s] = None, !.staged[s] = None]
           ks == {v \in keys : v[1] # s}
           fs == fieldKeys \ {s}
           T == {s}
<1>1. keyring \in Keyrings /\ Shape(keyring) BY DEF IInv, TypeOK, Sound
<1>2. /\ r.cur = [keyring.cur EXCEPT ![s] = None]
      /\ r.staged = [keyring.staged EXCEPT ![s] = None]
      /\ r.own = [v \in Slots |-> v \notin V /\ keyring.own[v]]
 BY <1>1 DEF Without, Keyrings
<1>3. s # App /\ Exists(keyring, s) /\ Finish(r, ks, fs, reveal \ {s}, lost, T)
 BY DEF DeleteScope
<1> HIDE DEF r
<1>4. \A v \in V : v[1] = s BY DEF Versions
<1> HIDE DEF V
<1>5. \A t \in Scopes \ {s} : /\ Exists(r, t) <=> Exists(keyring, t)
                              /\ Rotating(r, t) <=> Rotating(keyring, t)
                              /\ Governing(r, t) = Governing(keyring, t)
                              /\ r.cur[t] = keyring.cur[t] /\ r.staged[t] = keyring.staged[t]
 BY <1>1, <1>2 DEF Keyrings, Exists, Governing, Rotating, Staged, Current
<1>6. ~ Exists(r, s) /\ ~ Rotating(r, s) BY <1>1, <1>2 DEF Keyrings, Exists, Rotating
<1>7. HoldInv'
 <2>1. \A v \in ks : v \in keys \/ v[1] \in T OBVIOUS
 <2>2. \A v \in ks : Exists(r, v[1]) BY <1>5 DEF HoldInv, KeysHaveScopes, IInv, TypeOK, Slots
 <2>3. Distinct(r) BY <1>5, <1>6 DEF HoldInv, Distinct
 <2>4. fs \subseteq fieldKeys \cup T /\ T \cap locked \subseteq T OBVIOUS
 <2> HIDE DEF ks, fs, T
 <2> QED BY <1>3, <2>1, <2>2, <2>3, <2>4, FinishHolds
<1>8. Sealing(r) = [Sealing(keyring) EXCEPT ![s] = FALSE]
 <2>1. ASSUME NEW t \in Scopes \ {s}
       PROVE  Exists(r, t) /\ r.own[Governing(r, t)]
                 <=> Exists(keyring, t) /\ keyring.own[Governing(keyring, t)]
  <3>1. CASE Exists(keyring, t)
   <4>1. Governing(keyring, t) \in Slots /\ Governing(keyring, t) \notin V
    BY <1>1, <1>4, <3>1, GoverningIsVersion
   <4> QED BY <1>2, <1>5, <4>1
  <3>2. CASE ~ Exists(keyring, t) BY <1>5, <3>2
  <3> QED BY <3>1, <3>2
 <2>2. ASSUME NEW t \in Scopes
       PROVE  Exists(r, t) /\ r.own[Governing(r, t)]
                 <=> [Sealing(keyring) EXCEPT ![s] = FALSE][t]
  <3>1. CASE t = s BY <1>6, <3>1 DEF Sealing
  <3>2. CASE t # s BY <2>1, <3>2 DEF Sealing
  <3> QED BY <3>1, <3>2
 <2> QED BY <2>2 DEF Sealing
<1>9. keyring' = r /\ keys' = ks BY <1>3 DEF Finish
<1>10. Promise!KsDelete(s)
 BY <1>2, <1>3, <1>8, <1>9 DEF Promise!KsDelete, Promise!Exists, Exists
<1>11. s \in Promise!Scopes BY DEF Promise!Scopes, Scopes
<1> QED BY <1>7, <1>10, <1>11 DEF Promise!KeystoreNext

--------------------------------------------------
\* The versions of the scopes T among the keys K.
LiveKeys(K, kr, T) == {v \in K \cap AllVersions(kr) : v[1] \in T}

\* finish_protection_change on scopes that are not locked: the versions and seals it was
\* given are saved, and of the scopes T the keys it was given are in memory.
LEMMA ProtectionChangeKept ==
  ASSUME NEW L \in SUBSET Workspaces, IInv(L), HoldInv, MayFinish,
         NEW kr \in Keyrings, Shape(kr), Distinct(kr), kr.cur = keyring.cur,
         NEW known \in SUBSET Slots, NEW l \in BOOLEAN,
         NEW T \in SUBSET Scopes, T \cap locked = {},
         FinishProtectionChange(Reconcile(kr, devices, known, Scopes, l), T)
  PROVE  /\ HoldInv'
         /\ keyring'.cur = kr.cur /\ keyring'.staged = kr.staged
         /\ Sealing(keyring') = Sealing(kr)
         /\ \E K : known \subseteq K /\ keys' = keys \cup LiveKeys(K, kr, T)
<1> DEFINE R  == Reconcile(kr, devices, known, Scopes, l)
           A  == {v \in R.known \cap AllVersions(R.keyring) : v[1] \in T}
           F  == {s \in T : Current(R.keyring, s) \in R.known}
<1>1. R.ok /\ Finish(R.keyring, keys \cup A, fieldKeys \cup F, {}, R.lost, {})
 BY DEF FinishProtectionChange, Saves
<1>2. R.keyring.cur = kr.cur /\ R.keyring.staged = kr.staged /\ R.keyring.own = kr.own
 <2>1. Scopes \in SUBSET Scopes OBVIOUS
 <2> QED BY <1>1, <2>1, ReconcileVersions
<1>3. known \subseteq R.known BY ReconcileKnows
<1> HIDE DEF R
<1>4. AllVersions(R.keyring) = AllVersions(kr) BY <1>2 DEF AllVersions, Versions
<1>5. \A v \in keys \cup A : Exists(R.keyring, v[1])
 <2>1. \A v \in keys : Exists(R.keyring, v[1]) BY <1>2 DEF HoldInv, KeysHaveScopes, Exists
 <2>2. \A v \in A : Exists(kr, v[1]) BY <1>4 DEF Shape, AllVersions, Versions, Exists, Rotating
 <2> QED BY <1>2, <2>1, <2>2 DEF Exists
<1>6. /\ \A v \in keys \cup A : v \in keys \/ v[1] \in T
      /\ fieldKeys \cup F \subseteq fieldKeys \cup T
      /\ T \cap locked \subseteq {}
 OBVIOUS
<1>7. Distinct(R.keyring) /\ Sealing(R.keyring) = Sealing(kr) BY <1>2, SameSealing
<1>8. keyring' = R.keyring /\ keys' = keys \cup A BY <1>1 DEF Finish
<1> HIDE DEF F
<1>9. HoldInv'
 <2> DEFINE ks == keys \cup A
            fs == fieldKeys \cup F
 <2>1. /\ Finish(R.keyring, ks, fs, {}, R.lost, {})
       /\ \A v \in ks : v \in keys \/ v[1] \in T
       /\ \A v \in ks : Exists(R.keyring, v[1])
       /\ fs \subseteq fieldKeys \cup T /\ T \cap locked \subseteq {}
  BY <1>1, <1>5, <1>6
 <2> HIDE DEF ks, fs
 <2> QED BY <1>7, <2>1, FinishHolds
<1>10. A = LiveKeys(R.known, kr, T) BY <1>4 DEF LiveKeys
<1> HIDE DEF A
<1> QED BY <1>2, <1>3, <1>7, <1>8, <1>9, <1>10

\* change_password
LEMMA ChangePasswordKept ==
  ASSUME NEW L \in SUBSET Workspaces, IInv(L), HoldInv, MayFinish,
         NEW s \in Scopes, ChangePassword(s)
  PROVE  HoldInv' /\ Promise!KeystoreNext
<1> DEFINE kr == [keyring EXCEPT !.wraps[Current(keyring, s)] = @ \cup {Password}]
           k  == WithAppKeys(keyring, devices, Known, lost)
           l  == FindsLost(keyring, devices, Known, lost, Versions(keyring, App))
           T  == {s}
<1>1. keyring \in Keyrings /\ Shape(keyring) /\ FlagsMatch(keyring, L)
 BY DEF IInv, TypeOK, Sound
<1>2. k \in SUBSET Slots /\ l \in BOOLEAN BY SnapshotType DEF IInv
<1>3. /\ Current(keyring, s) \in Known
      /\ FinishProtectionChange(Reconcile(kr, devices, k, Scopes, l), T)
 BY DEF ChangePassword
<1>4. /\ kr \in Keyrings /\ Shape(kr)
      /\ kr.cur = keyring.cur /\ kr.staged = keyring.staged
 BY <1>1, WithPasswordRoute
<1>5. kr.own = keyring.own BY <1>1 DEF Keyrings
<1> HIDE DEF kr, k, l
<1>6. T \in SUBSET Scopes /\ T \cap locked = {} BY <1>3, KnownIsOpen DEF Current
<1> HIDE DEF T
<1>7. Sealing(kr) = Sealing(keyring) /\ Distinct(kr) BY <1>4, <1>5, SameSealing DEF HoldInv
<1>8. /\ HoldInv'
      /\ keyring'.cur = kr.cur /\ keyring'.staged = kr.staged
      /\ Sealing(keyring') = Sealing(kr)
      /\ \E K : k \subseteq K /\ keys' = keys \cup LiveKeys(K, kr, T)
 BY <1>2, <1>3, <1>4, <1>6, <1>7, ProtectionChangeKept
<1>9. AllVersions(kr) = AllVersions(keyring) BY <1>4 DEF AllVersions, Versions
<1>10. PICK K : keys' = keys \cup LiveKeys(K, kr, T) BY <1>8
<1> DEFINE V == LiveKeys(K, kr, T)
<1>11. V \in SUBSET AllVersions(keyring) /\ keys' = keys \cup V BY <1>9, <1>10 DEF LiveKeys
<1> HIDE DEF V
<1> QED BY <1>4, <1>7, <1>8, <1>11, UnlockStep

\* commit_rotation: the staged version governs before and after.
LEMMA CommitRotationKept ==
  ASSUME NEW L \in SUBSET Workspaces, IInv(L), HoldInv, MayFinish,
         NEW s \in Scopes, CommitRotation(s)
  PROVE  HoldInv' /\ Promise!KeystoreNext
<1> DEFINE new == Staged(keyring, s)
           old == Current(keyring, s)
           kr  == [Without(keyring, {old}) EXCEPT !.cur[s] = new[2], !.staged[s] = None]
           ks  == (keys \ {old}) \cup {new}
           T   == {s}
           R   == Reconcile(kr, devices, Known, Scopes, lost)
<1>1. /\ keyring \in Keyrings /\ Shape(keyring) /\ lost \in BOOLEAN
      /\ Known \in SUBSET Slots /\ Scopes \in SUBSET Scopes
 BY SnapshotType DEF IInv, TypeOK, Sound
<1>2. /\ Rotating(keyring, s) /\ new \in Known
      /\ R.ok /\ Finish(R.keyring, ks, fieldKeys \cup T, reveal, R.lost, {})
 BY DEF CommitRotation, Saves
<1>3. new \in keys /\ new \in Slots /\ s \notin locked BY <1>1, <1>2, KnownIsOpen DEF Staged
<1>4. /\ new = <<s, keyring.staged[s]>> /\ new[2] = keyring.staged[s]
      /\ new[2] \in Serials /\ new[2] # None
      /\ old = <<s, keyring.cur[s]>> /\ keyring.cur[s] # keyring.staged[s]
 BY <1>2, <1>3, KeyringConstants DEF Staged, Current, Slots, HoldInv, Distinct
<1>5. /\ kr.cur = [keyring.cur EXCEPT ![s] = new[2]]
      /\ kr.staged = [keyring.staged EXCEPT ![s] = None]
      /\ kr.own = [v \in Slots |-> v \notin {old} /\ keyring.own[v]]
 BY <1>1 DEF Without, Keyrings
<1>6. kr \in Keyrings
 <2>1. Without(keyring, {old}) \in Keyrings BY <1>1 DEF Without, Keyrings
 <2> QED BY <1>4, <2>1 DEF Keyrings
<1> HIDE DEF kr
<1>7. R.keyring.cur = kr.cur /\ R.keyring.staged = kr.staged /\ R.keyring.own = kr.own
 BY <1>1, <1>2, <1>6, ReconcileVersions
<1> HIDE DEF R
<1>8. \A t \in Scopes : /\ Governing(R.keyring, t) = Governing(keyring, t)
                        /\ Exists(R.keyring, t) <=> Exists(keyring, t)
                        /\ Rotating(R.keyring, t) <=> Rotating(keyring, t) /\ t # s
 BY <1>1, <1>2, <1>4, <1>5, <1>7
    DEF Keyrings, Shape, Governing, Exists, Rotating, Staged, Current
<1>9. HoldInv'
 <2>1. \A v \in ks : v \in keys BY <1>3
 <2>2. \A v \in ks : Exists(R.keyring, v[1])
  BY <1>8, <2>1 DEF HoldInv, KeysHaveScopes, IInv, TypeOK, Slots
 <2>3. Distinct(R.keyring) BY <1>1, <1>5, <1>7, <1>8 DEF HoldInv, Distinct, Keyrings
 <2> DEFINE fs == fieldKeys \cup T
 <2>4. /\ \A v \in ks : v \in keys \/ v[1] \in T
       /\ fs \subseteq fieldKeys \cup T /\ T \cap locked \subseteq {}
       /\ Finish(R.keyring, ks, fs, reveal, R.lost, {})
  BY <1>2, <1>3, <2>1
 <2> HIDE DEF ks, fs, T
 <2> QED BY <2>2, <2>3, <2>4, FinishHolds
<1>10. keyring' = R.keyring /\ keys' = ks BY <1>2 DEF Finish
<1>11. Sealing(R.keyring) = Sealing(keyring)
 <2> SUFFICES ASSUME NEW t \in Scopes, Exists(keyring, t)
              PROVE  R.keyring.own[Governing(keyring, t)] <=> keyring.own[Governing(keyring, t)]
  BY <1>8 DEF Sealing
 <2>1. Governing(keyring, t) \in Slots BY <1>1, GoverningIsVersion
 <2>2. Governing(keyring, t) # old BY <1>2, <1>4 DEF Governing, Staged, Current
 <2> QED BY <1>5, <1>7, <2>1, <2>2
<1>12. ks = keys \ {old} BY <1>3, <1>4
<1>13. Promise!KsCommit(s)
 BY <1>2, <1>3, <1>4, <1>5, <1>7, <1>10, <1>11, <1>12
    DEF Promise!KsCommit, Promise!Rotating, Promise!Staged, Promise!Current, Rotating
<1>14. s \in Promise!Scopes BY DEF Promise!Scopes, Scopes
<1> QED BY <1>9, <1>13, <1>14 DEF Promise!KeystoreNext

\* Staging gives each scope of T a version that is not its current one and is to have
\* its own password or not, as `own` says; it leaves the other scopes alone.
LEMMA StagingSeals ==
  ASSUME NEW kr \in Keyrings, Distinct(kr), NEW T \in SUBSET Scopes,
         \A s \in T : Exists(kr, s) /\ FreshSerials(kr, s) # {},
         NEW own \in BOOLEAN, NEW W \in SUBSET Wraps
  PROVE  LET r == StageVersions(kr, T, own, W) IN
         /\ r.cur = kr.cur
         /\ \A s \in T : r.staged[s] \in Serials /\ r.staged[s] # kr.cur[s]
         /\ \A s \in Scopes \ T : r.staged[s] = kr.staged[s]
         /\ Distinct(r)
         /\ \A s \in T : Sealing(r)[s] = own
         /\ \A s \in Scopes \ T : Sealing(r)[s] = Sealing(kr)[s]
<1> DEFINE r == StageVersions(kr, T, own, W)
           n(s) == Fresh(FreshSerials(kr, s))
<1>1. \A s \in T : n(s) \in Serials /\ n(s) # kr.cur[s] BY DEF Fresh, FreshSerials, UsedSerials
<1> HIDE DEF n
<1>2. /\ r.cur = kr.cur
      /\ r.staged = [s \in Scopes |-> IF s \in T THEN n(s) ELSE kr.staged[s]]
      /\ r.own = [v \in Slots |-> IF v[1] \in T /\ v = <<v[1], n(v[1])>> THEN own
                                   ELSE kr.own[v]]
 BY DEF StageVersions, Keyrings, n
<1> HIDE DEF r
<1>3. \A s \in T : r.staged[s] \in Serials /\ r.staged[s] # kr.cur[s] BY <1>1, <1>2
<1>4. \A s \in Scopes \ T : r.staged[s] = kr.staged[s] BY <1>2
<1>5. Distinct(r) BY <1>2, <1>3, <1>4 DEF Distinct, Rotating
<1>6. ASSUME NEW s \in T PROVE Sealing(r)[s] = own
 <2>1. Governing(r, s) = <<s, n(s)>> /\ Exists(r, s)
  BY <1>1, <1>2, <1>3, KeyringConstants DEF Governing, Rotating, Staged, Exists
 <2>2. <<s, n(s)>> \in Slots BY <1>1 DEF Slots
 <2>3. r.own[<<s, n(s)>>] = own BY <1>2, <2>2
 <2>4. Sealing(r)[s] = (Exists(r, s) /\ r.own[Governing(r, s)]) BY DEF Sealing
 <2>5. CASE own = TRUE BY <2>1, <2>3, <2>4, <2>5
 <2>6. CASE own = FALSE BY <2>1, <2>3, <2>4, <2>6
 <2> QED BY <2>5, <2>6
<1>7. ASSUME NEW s \in Scopes \ T PROVE Sealing(r)[s] = Sealing(kr)[s]
 <2>1. Governing(r, s) = Governing(kr, s) /\ (Exists(r, s) <=> Exists(kr, s))
  BY <1>2, <1>4 DEF Governing, Rotating, Staged, Current, Exists
 <2>2. CASE Exists(kr, s)
  <3>1. Governing(kr, s) \in Slots /\ Governing(kr, s)[1] = s BY <2>2, GoverningIsVersion
  <3>2. r.own[Governing(kr, s)] = kr.own[Governing(kr, s)] BY <1>2, <3>1
  <3> QED BY <2>1, <3>2 DEF Sealing
 <2>3. CASE ~ Exists(kr, s) BY <2>1, <2>3 DEF Sealing
 <2> QED BY <2>2, <2>3
<1> QED BY <1>2, <1>3, <1>4, <1>5, <1>6, <1>7 DEF r

\* What the store sees of a staging: both keys of every scope of T are in memory.
LEMMA StageStep ==
  ASSUME NEW kr \in Keyrings, kr.cur = keyring.cur, keyring \in Keyrings,
         NEW T \in SUBSET Scopes,
         \A t \in T : Exists(kr, t) /\ kr.staged[t] \in Serials /\ kr.staged[t] # kr.cur[t],
         \A t \in Scopes \ T : kr.staged[t] = keyring.staged[t],
         keyring'.staged = kr.staged,
         NEW K, StagedKeys(kr, T) \subseteq K, keys' = keys \cup LiveKeys(K, kr, T)
  PROVE  Promise!Stage(T)
<1> DEFINE n == [t \in T |-> kr.staged[t]]
           S == {<<t, kr.cur[t]>> : t \in T} \cup {<<t, kr.staged[t]>> : t \in T}
<1>1. n \in [T -> Serials] /\ \A t \in T : n[t] = kr.staged[t] OBVIOUS
<1>2. S \subseteq K BY DEF StagedKeys, Current, Staged
<1>3. \A t \in T : Versions(kr, t) = {<<t, kr.cur[t]>>, <<t, kr.staged[t]>>}
 BY KeyringConstants DEF Versions, Exists
<1>4. LiveKeys(K, kr, T) = S
 <2>1. \A t \in T : Versions(kr, t) \subseteq AllVersions(kr) BY DEF AllVersions
 <2>2. S \subseteq AllVersions(kr) /\ \A v \in S : v[1] \in T BY <1>3, <2>1
 <2>3. S \subseteq LiveKeys(K, kr, T) BY <1>2, <2>2 DEF LiveKeys
 <2>4. \A v \in LiveKeys(K, kr, T) : v[1] \in T /\ v \in Versions(kr, v[1])
  BY VersionsAreSlots DEF LiveKeys
 <2>5. LiveKeys(K, kr, T) \subseteq S BY <1>3, <2>4
 <2> QED BY <2>3, <2>5
<1>5. {<<t, n[t]>> : t \in T} = {<<t, kr.staged[t]>> : t \in T} BY <1>1
<1>6. keys' = keys \cup {<<t, keyring.cur[t]>> : t \in T} \cup {<<t, n[t]>> : t \in T}
 BY <1>4, <1>5
<1>7. kr.staged = [t \in Scopes |-> IF t \in T THEN n[t] ELSE keyring.staged[t]]
 BY <1>1 DEF Keyrings
<1>8. \A t \in T : n[t] # keyring.cur[t] BY <1>1
<1> HIDE DEF n
<1> QED BY <1>1, <1>6, <1>7, <1>8 DEF Promise!Stage, Promise!Current, Promise!Scopes, Scopes

\* remove_password
LEMMA RemovePasswordKept ==
  ASSUME NEW L \in SUBSET Workspaces, IInv(L), HoldInv, MayFinish,
         NEW s \in Scopes, RemovePassword(s)
  PROVE  HoldInv' /\ Promise!KeystoreNext
<1> DEFINE k  == WithAppKeys(keyring, devices, Known, lost)
           l  == FindsLost(keyring, devices, Known, lost, Versions(keyring, App))
           T  == {s}
           f  == FALSE
           W  == {}
           kr == StageVersions(keyring, T, f, W)
           k2 == k \cup StagedKeys(kr, T)
<1>1. /\ keyring \in Keyrings /\ Shape(keyring) /\ FlagsMatch(keyring, L)
      /\ Distinct(keyring)
 BY DEF IInv, TypeOK, Sound, HoldInv
<1>2. k \in SUBSET Slots /\ l \in BOOLEAN BY SnapshotType DEF IInv
<1>3. /\ Exists(keyring, s) /\ ~ Rotating(keyring, s) /\ Current(keyring, s) \in Known
      /\ keyring.own[Current(keyring, s)]
      /\ FinishProtectionChange(Reconcile(kr, devices, k2, Scopes, l), T)
 BY DEF RemovePassword
<1>4. \A t \in T : Exists(keyring, t) /\ FreshSerials(keyring, t) # {}
 BY <1>3 DEF RemovePassword, CanStage
<1>5. \A t \in Scopes \ T : Exists(keyring, t) =>
         FlagMatches(keyring, t, L)
 BY <1>1 DEF FlagsMatch
<1>6. T \in SUBSET Scopes /\ f \in BOOLEAN /\ W \in SUBSET Wraps /\ (f <=> Password \in W)
 OBVIOUS
<1>7. Current(keyring, s) \in keys /\ T \cap locked = {} BY <1>3, KnownIsOpen DEF Current
<1> HIDE DEF f, W, T
<1>8. /\ kr \in Keyrings /\ Shape(kr)
      /\ \A t \in T : Staged(kr, t) \in Slots /\ Current(kr, t) \in Slots
 BY <1>1, <1>4, <1>5, <1>6, StagingKeeps
<1>9. /\ kr.cur = keyring.cur /\ Distinct(kr)
      /\ \A t \in T : kr.staged[t] \in Serials /\ kr.staged[t] # keyring.cur[t]
      /\ \A t \in Scopes \ T : kr.staged[t] = keyring.staged[t]
      /\ \A t \in T : Sealing(kr)[t] = f
      /\ \A t \in Scopes \ T : Sealing(kr)[t] = Sealing(keyring)[t]
 BY <1>1, <1>4, <1>6, StagingSeals
<1> HIDE DEF kr, k, l
<1>10. k2 \in SUBSET Slots /\ StagedKeys(kr, T) \subseteq k2 BY <1>2, <1>8 DEF StagedKeys
<1> HIDE DEF k2
<1>11. /\ HoldInv'
       /\ keyring'.cur = kr.cur /\ keyring'.staged = kr.staged
       /\ Sealing(keyring') = Sealing(kr)
       /\ \E K : k2 \subseteq K /\ keys' = keys \cup LiveKeys(K, kr, T)
 BY <1>2, <1>3, <1>6, <1>7, <1>8, <1>9, <1>10, ProtectionChangeKept
<1>12. Promise!Stage(T)
 <2>1. \A t \in T : Exists(kr, t) /\ kr.staged[t] \in Serials /\ kr.staged[t] # kr.cur[t]
  BY <1>4, <1>9 DEF Exists
 <2>2. PICK K : StagedKeys(kr, T) \subseteq K /\ keys' = keys \cup LiveKeys(K, kr, T)
  BY <1>10, <1>11
 <2> QED BY <1>1, <1>6, <1>8, <1>9, <1>11, <2>1, <2>2, StageStep
<1>13. Sealing(keyring') = [Sealing(keyring) EXCEPT ![s] = FALSE]
 BY <1>9, <1>11 DEF f, T, Sealing
<1>14. Sealing(keyring)[s] BY <1>3 DEF Sealing, Governing
<1>15. Promise!KsRemovePassword(s)
 BY <1>3, <1>7, <1>9, <1>11, <1>12, <1>13, <1>14
    DEF Promise!KsRemovePassword, Promise!Unlocked, Promise!Exists, Promise!Rotating,
        Promise!Current, Exists, Rotating, Current, T
<1>16. s \in Promise!Scopes BY DEF Promise!Scopes, Scopes
<1> QED BY <1>11, <1>15, <1>16 DEF Promise!KeystoreNext

\* set_password: under a new master password every workspace that had no protection gets
\* a new version too, and no scope of those was locked.
LEMMA SetPasswordKept ==
  ASSUME NEW L \in SUBSET Workspaces, IInv(L), HoldInv, MayFinish,
         NEW s \in Scopes, SetPassword(s)
  PROVE  HoldInv' /\ (L = {} => Promise!KeystoreNext)
<1> DEFINE k   == WithAppKeys(keyring, devices, Known, lost)
           l   == FindsLost(keyring, devices, Known, lost, Versions(keyring, App))
           kr1 == [keyring EXCEPT !.wraps[Current(keyring, s)] = @ \cup {Password}]
           S   == {s}
           y   == TRUE
           P   == {Password}
           st  == StageVersions(kr1, S, y, P)
           kr2 == [st EXCEPT !.recovery = IF s = App THEN NoRecovery ELSE @]
           k2  == k \cup StagedKeys(kr2, S)
           T   == IF s = App THEN Transitioning(keyring, kr2, k2) ELSE {}
           f   == FALSE
           W   == {}
           kr3 == StageVersions(kr2, T, f, W)
           k3  == k2 \cup StagedKeys(kr3, T)
           R   == Reconcile(kr3, devices, k3, Scopes, l)
           A   == S \cup T
<1>1. /\ keyring \in Keyrings /\ Shape(keyring) /\ FlagsMatch(keyring, L)
      /\ Distinct(keyring)
 BY DEF IInv, TypeOK, Sound, HoldInv
<1>2. k \in SUBSET Slots /\ l \in BOOLEAN BY SnapshotType DEF IInv
<1>3. /\ Exists(keyring, s) /\ ~ Rotating(keyring, s) /\ Current(keyring, s) \in Known
      /\ ~ keyring.own[Current(keyring, s)]
      /\ FreshSerials(kr1, s) # {}
      /\ \A t \in T : FreshSerials(kr2, t) # {}
      /\ FinishProtectionChange(R, A)
 BY DEF SetPassword, CanStage
<1>4. Current(keyring, s) \in keys /\ s \notin locked BY <1>3, KnownIsOpen DEF Current
<1>5. /\ S \in SUBSET Scopes /\ y \in BOOLEAN /\ P \in SUBSET Wraps /\ (y <=> Password \in P)
      /\ f \in BOOLEAN /\ W \in SUBSET Wraps /\ (f <=> Password \in W)
 BY DEF Wraps
<1>6. /\ kr1 \in Keyrings /\ Shape(kr1) /\ Distinct(kr1)
      /\ kr1.cur = keyring.cur /\ kr1.staged = keyring.staged
      /\ Sealing(kr1) = Sealing(keyring)
      /\ \A t \in Scopes \ S : Exists(kr1, t) =>
            FlagMatches(kr1, t, L)
 <2>1. kr1.own = keyring.own BY <1>1 DEF Keyrings
 <2>2. /\ kr1 \in Keyrings /\ Shape(kr1)
       /\ kr1.cur = keyring.cur /\ kr1.staged = keyring.staged
       /\ \A t \in Scopes \ {s} : Exists(kr1, t) =>
             FlagMatches(kr1, t, L)
  BY <1>1, WithPasswordRoute
 <2> HIDE DEF kr1
 <2> QED BY <1>1, <2>1, <2>2, SameSealing
<1>7. \A t \in S : Exists(kr1, t) /\ FreshSerials(kr1, t) # {}
 <2> HIDE DEF kr1
 <2> QED BY <1>3, <1>6 DEF Exists
<1> HIDE DEF kr1, k, l, S, y, P, f, W
<1>8. /\ st \in Keyrings /\ Shape(st) /\ FlagsMatch(st, L)
      /\ \A t \in S : Staged(st, t) \in Slots /\ Current(st, t) \in Slots
 <2>1. kr1 \in Keyrings /\ Shape(kr1) /\ S \in SUBSET Scopes BY <1>5, <1>6
 <2>2. \A t \in Scopes \ S : Exists(kr1, t) => FlagMatches(kr1, t, L) BY <1>6
 <2>3. y \in BOOLEAN /\ P \in SUBSET Wraps /\ (y <=> Password \in P) BY <1>5
 <2>4. /\ st \in Keyrings /\ Shape(st) /\ FlagsMatch(st, L)
       /\ \A t \in S : Staged(st, t) \in Slots
       /\ \A t \in S : Current(st, t) \in Slots
  BY <1>7, <2>1, <2>2, <2>3, StagingKeeps
 <2> QED BY <2>4
<1>9. /\ st.cur = kr1.cur /\ Distinct(st)
      /\ \A t \in S : st.staged[t] \in Serials /\ st.staged[t] # kr1.cur[t]
      /\ \A t \in Scopes \ S : st.staged[t] = kr1.staged[t]
      /\ \A t \in S : Sealing(st)[t] = y
      /\ \A t \in Scopes \ S : Sealing(st)[t] = Sealing(kr1)[t]
 <2>1. /\ kr1 \in Keyrings /\ Distinct(kr1)
       /\ S \in SUBSET Scopes /\ y \in BOOLEAN /\ P \in SUBSET Wraps
  BY <1>5, <1>6
 <2>2. /\ st.cur = kr1.cur
       /\ \A t \in S : st.staged[t] \in Serials /\ st.staged[t] # kr1.cur[t]
       /\ \A t \in Scopes \ S : st.staged[t] = kr1.staged[t]
       /\ Distinct(st)
       /\ \A t \in S : Sealing(st)[t] = y
       /\ \A t \in Scopes \ S : Sealing(st)[t] = Sealing(kr1)[t]
  BY <1>7, <2>1, StagingSeals
 <2> QED BY <2>2
<1> HIDE DEF st
<1>10. /\ kr2 \in Keyrings /\ Shape(kr2) /\ FlagsMatch(kr2, L)
       /\ kr2.cur = st.cur /\ kr2.staged = st.staged /\ kr2.own = st.own
 <2> DEFINE e == IF s = App THEN NoRecovery ELSE st.recovery
 <2>1. e \in {NoRecovery} \cup [id : RecoveryIds, mac : Serials, held : BOOLEAN]
  BY <1>8 DEF Keyrings
 <2>2. kr2 = [st EXCEPT !.recovery = e] OBVIOUS
 <2>3. kr2.own = st.own BY <1>8 DEF Keyrings
 <2> HIDE DEF e
 <2> QED BY <1>8, <2>1, <2>2, <2>3, WithRecovery
<1> HIDE DEF kr2
<1>11. /\ Distinct(kr2) /\ kr2.cur = keyring.cur /\ Sealing(kr2) = Sealing(st)
       /\ \A t \in S : kr2.staged[t] \in Serials /\ kr2.staged[t] # keyring.cur[t]
       /\ \A t \in Scopes \ S : /\ kr2.staged[t] = keyring.staged[t]
                                /\ Sealing(kr2)[t] = Sealing(keyring)[t]
       /\ Sealing(kr2)[s]
 <2>1. s \in S /\ y BY DEF S, y
 <2>2. Sealing(kr2) = Sealing(st) /\ Distinct(kr2) BY <1>9, <1>10, SameSealing
 <2> QED BY <1>6, <1>9, <1>10, <2>1, <2>2
<1>12. k2 \in SUBSET Slots BY <1>2, <1>8, <1>10 DEF StagedKeys, Staged, Current
<1>13. s = App => \A v \in k2 : v \in Known \/ v[1] = App
 BY DEF k, S, WithAppKeys, StagedKeys, Versions, Staged, Current
<1> HIDE DEF k2
<1> DEFINE Q == {w \in Workspaces : /\ s = App /\ Exists(keyring, w) /\ ~ Rotating(keyring, w)
                                     /\ ~ Sealing(keyring)[w]}
<1>14. T \subseteq Q /\ (L = {} => T = Q) /\ T \cap locked = {}
 <2>1. CASE s # App BY <2>1
 <2>2. CASE s = App
  <3>1. ~ keyring.own[Governing(keyring, App)] BY <1>3, <2>2 DEF Governing
  <3>2. \A w \in Workspaces : w \in Scopes /\ w \notin S /\ w # App
   BY <2>2, KeyringConstants DEF Scopes, S
  <3>3. ASSUME NEW w \in Workspaces, Exists(keyring, w)
        PROVE  /\ Sealing(keyring)[w] => IsProtected(Policy(keyring, k2), w)
               /\ L = {} /\ IsProtected(Policy(keyring, k2), w) => Sealing(keyring)[w]
               /\ IsProtected(Policy(kr2, k2), w)
               /\ Rotating(kr2, w) <=> Rotating(keyring, w)
               /\ w \in locked => IsProtected(Policy(keyring, k2), w)
   <4>1. w \in Scopes /\ App \in Scopes BY DEF Scopes
   <4>2. /\ keyring.own[Governing(keyring, w)] => Policy(keyring, k2).own[w]
         /\ w \notin L =>
               Policy(keyring, k2).own[w] = keyring.own[Governing(keyring, w)]
         /\ Policy(keyring, k2).own[App] = keyring.own[Governing(keyring, App)]
    BY <1>1, <3>3, <4>1, PolicyIsTrue
   <4>3. /\ Sealing(keyring)[w] => IsProtected(Policy(keyring, k2), w)
         /\ L = {} /\ IsProtected(Policy(keyring, k2), w) => Sealing(keyring)[w]
    BY <3>1, <3>3, <4>1, <4>2 DEF IsProtected, Sealing
   <4>4. Exists(kr2, w) BY <1>11, <3>3 DEF Exists
   <4>5. Policy(kr2, k2).own[App] = kr2.own[Governing(kr2, App)]
    BY <1>10, <4>1, <4>4, PolicyIsTrue
   <4>6. IsProtected(Policy(kr2, k2), w) BY <1>11, <2>2, <4>1, <4>5 DEF IsProtected, Sealing
   <4>7. Rotating(kr2, w) <=> Rotating(keyring, w) BY <1>11, <3>2, <4>1 DEF Rotating
   <4>8. ASSUME w \in locked PROVE IsProtected(Policy(keyring, k2), w)
    <5>1. Governing(keyring, w) \notin Known /\ Governing(keyring, w)[1] = w
     BY <1>1, <3>3, <4>1, <4>8, KnownIsOpen, GoverningIsVersion
    <5>2. Governing(keyring, w) \notin k2 BY <1>13, <2>2, <3>2, <5>1
    <5>3. Policy(keyring, k2).own[w] = (Password \in keyring.wraps[Governing(keyring, w)])
     BY <3>3, <4>1, <5>2 DEF Policy
    <5>4. FlagMatches(keyring, w, L) BY <1>1, <3>3, <4>1 DEF FlagsMatch
    <5>5. \/ Protected(keyring, w)
          \/ Password \in keyring.wraps[Governing(keyring, w)]
     BY <4>8 DEF HoldInv, LockedNeedSecret
    <5> QED BY <3>1, <5>3, <5>4, <5>5 DEF Protected, FlagMatches, IsProtected
   <4> QED BY <4>3, <4>6, <4>7, <4>8
  <3>4. T = {w \in Workspaces : /\ Exists(keyring, w) /\ ~ Rotating(keyring, w)
                                /\ ~ IsProtected(Policy(keyring, k2), w)}
   BY <2>2, <3>3 DEF Transitioning
  <3> QED BY <2>2, <3>3, <3>4
 <2> QED BY <2>1, <2>2
<1> HIDE DEF T
<1>15. /\ T \in SUBSET Scopes /\ S \cap T = {}
       /\ \A t \in T : Exists(kr2, t) /\ FreshSerials(kr2, t) # {} /\ ~ Sealing(keyring)[t]
 BY <1>3, <1>11, <1>14, KeyringConstants DEF Scopes, S, Exists
<1>16. \A t \in Scopes \ T : Exists(kr2, t) =>
          FlagMatches(kr2, t, L)
 BY <1>10 DEF FlagsMatch
<1>17. /\ kr3 \in Keyrings /\ Shape(kr3)
       /\ \A t \in T : Staged(kr3, t) \in Slots /\ Current(kr3, t) \in Slots
 BY <1>5, <1>10, <1>15, <1>16, StagingKeeps
<1>18. /\ kr3.cur = kr2.cur /\ Distinct(kr3)
       /\ \A t \in T : kr3.staged[t] \in Serials /\ kr3.staged[t] # kr2.cur[t]
       /\ \A t \in Scopes \ T : kr3.staged[t] = kr2.staged[t]
       /\ \A t \in T : Sealing(kr3)[t] = f
       /\ \A t \in Scopes \ T : Sealing(kr3)[t] = Sealing(kr2)[t]
 <2>1. /\ kr2 \in Keyrings /\ Distinct(kr2)
       /\ T \in SUBSET Scopes /\ f \in BOOLEAN /\ W \in SUBSET Wraps
  BY <1>5, <1>10, <1>11, <1>15
 <2>2. \A t \in T : Exists(kr2, t) /\ FreshSerials(kr2, t) # {} BY <1>15
 <2> QED BY <2>1, <2>2, StagingSeals
<1> HIDE DEF kr3
<1>19. k3 \in SUBSET Slots /\ A \in SUBSET Scopes /\ A \cap locked = {}
 BY <1>4, <1>5, <1>12, <1>14, <1>15, <1>17 DEF StagedKeys, S
<1>20. StagedKeys(kr3, A) \subseteq k3
 <2>1. StagedKeys(kr3, S) = StagedKeys(kr2, S)
  BY <1>5, <1>15, <1>18 DEF StagedKeys, Staged, Current
 <2>2. StagedKeys(kr2, S) \subseteq k2 BY DEF k2
 <2> QED BY <2>1, <2>2 DEF StagedKeys
<1> HIDE DEF k3
<1>21. /\ \A t \in A : Exists(kr3, t) /\ kr3.staged[t] \in Serials /\ kr3.staged[t] # kr3.cur[t]
       /\ \A t \in Scopes \ A : kr3.staged[t] = keyring.staged[t]
 BY <1>3, <1>5, <1>11, <1>15, <1>18 DEF Exists, S
<1>22. L = {} => A = Promise!Affected(s)
 BY <1>14 DEF Promise!Affected, Promise!Exists, Promise!Rotating, Exists, Rotating, S
<1> HIDE DEF A
<1>23. /\ HoldInv'
       /\ keyring'.cur = kr3.cur /\ keyring'.staged = kr3.staged
       /\ Sealing(keyring') = Sealing(kr3)
       /\ \E K : k3 \subseteq K /\ keys' = keys \cup LiveKeys(K, kr3, A)
 BY <1>2, <1>3, <1>11, <1>17, <1>18, <1>19, ProtectionChangeKept
<1>24. Promise!Stage(A)
 <2>1. PICK K : StagedKeys(kr3, A) \subseteq K /\ keys' = keys \cup LiveKeys(K, kr3, A)
  BY <1>20, <1>23
 <2> QED BY <1>1, <1>11, <1>17, <1>18, <1>19, <1>21, <1>23, <2>1, StageStep
<1>25. Sealing(keyring') = [Sealing(keyring) EXCEPT ![s] = TRUE]
 <2>1. ASSUME NEW t \in Scopes
       PROVE  Sealing(kr3)[t] <=> [Sealing(keyring) EXCEPT ![s] = TRUE][t]
  <3>1. CASE t = s BY <1>11, <1>15, <1>18, <3>1 DEF S, Sealing
  <3>2. CASE t \in T BY <1>15, <1>18, <3>2 DEF S, f, Sealing
  <3>3. CASE t # s /\ t \notin T BY <1>11, <1>18, <3>3 DEF S, Sealing
  <3> QED BY <3>1, <3>2, <3>3
 <2> QED BY <1>23, <2>1 DEF Sealing
<1>26. ~ Sealing(keyring)[s] BY <1>3 DEF Sealing, Governing
<1>27. L = {} => Promise!KsSetPassword(s)
 BY <1>3, <1>4, <1>11, <1>18, <1>22, <1>23, <1>24, <1>25, <1>26
    DEF Promise!KsSetPassword, Promise!Unlocked, Promise!Exists, Promise!Rotating,
        Promise!Current, Exists, Rotating, Current
<1>28. s \in Promise!Scopes BY DEF Promise!Scopes, Scopes
<1> QED BY <1>23, <1>27, <1>28 DEF Promise!KeystoreNext

--------------------------------------------------
\* What seems protected is, or has a password route at least.
LEMMA SeemsProtected ==
  ASSUME NEW L \in SUBSET Workspaces,
         NEW kr \in Keyrings, NEW known, Shape(kr), FlagsMatch(kr, L),
         NEW s \in Scopes, Exists(kr, s)
  PROVE  /\ IsProtected(Policy(kr, known), s)
               => Protected(kr, s) \/ Password \in kr.wraps[Governing(kr, s)]
         /\ L = {} => (IsProtected(Policy(kr, known), s) <=> Protected(kr, s))
<1>1. /\ s \notin L => Policy(kr, known).own[s] = kr.own[Governing(kr, s)]
      /\ Policy(kr, known).own[App] = kr.own[Governing(kr, App)]
 BY PolicyIsTrue
<1>2. Policy(kr, known).own[s] \in {kr.own[Governing(kr, s)],
                                   Password \in kr.wraps[Governing(kr, s)]}
 BY DEF Policy
<1> QED BY <1>1, <1>2 DEF IsProtected, Protected

\* lock_protected drops the keys of every scope that something protects, and no other
\* if all flags match.
LEMMA LockProtectedKept ==
  ASSUME NEW L \in SUBSET Workspaces, IInv(L), HoldInv, LockProtected
  PROVE  HoldInv' /\ (L = {} => Promise!KeystoreNext)
<1> DEFINE P == {s \in Scopes : Exists(keyring, s) /\ IsProtected(Policy(keyring, keys), s)}
<1>1. /\ keyring \in Keyrings /\ Shape(keyring) /\ FlagsMatch(keyring, L) /\ keys \subseteq Slots
 BY DEF IInv, TypeOK, Sound
<1>2. /\ \A s \in P : /\ Exists(keyring, s)
                      /\ \/ Protected(keyring, s)
                         \/ Password \in keyring.wraps[Governing(keyring, s)]
      /\ L = {} => \A s \in Scopes : s \in P <=> Exists(keyring, s) /\ Protected(keyring, s)
 BY <1>1, SeemsProtected
<1>3. /\ keys' = {v \in keys : v[1] \notin P} /\ fieldKeys' = fieldKeys \ P
      /\ locked' = locked \cup P /\ keyring' = keyring
      /\ snap' = IF snap.phase = "busy" THEN [snap EXCEPT !.fresh = FALSE] ELSE snap
 BY DEF LockProtected, MovesEpoch
<1> HIDE DEF P
<1>4. LockHolds' BY <1>3 DEF HoldInv, LockHolds
<1>5. LockedNeedSecret'
 <2>1. \A s \in P : s \in Scopes BY DEF P
 <2> QED BY <1>2, <1>3, <2>1 DEF HoldInv, LockedNeedSecret
<1>6. SnapshotHolds'
 <2>1. snap'.phase = "busy" => ~ snap'.fresh BY <1>3 DEF IInv, TypeOK
 <2> QED BY <2>1 DEF SnapshotHolds
<1>7. KeysHaveScopes' /\ Distinct(keyring)' BY <1>3 DEF HoldInv, KeysHaveScopes
<1>8. ASSUME L = {}
      PROVE  keys' = {v \in keys : ~ (v[1] \in Scopes /\ Promise!Guarded(v[1]))}
 <2>1. ASSUME NEW v \in keys
       PROVE  v[1] \in P <=> v[1] \in Scopes /\ Promise!Guarded(v[1])
  <3>1. v[1] \in Scopes /\ App \in Scopes /\ Exists(keyring, v[1])
   BY <1>1, <2>1 DEF Slots, Scopes, HoldInv, KeysHaveScopes
  <3>2. Exists(keyring, App) BY <1>1, <3>1 DEF Shape
  <3>3. Promise!Guarded(v[1]) <=> Protected(keyring, v[1])
   BY <3>1, <3>2 DEF Promise!Guarded, Protected, Sealing
  <3> QED BY <1>2, <1>8, <3>1, <3>3
 <2> QED BY <1>3, <2>1
<1>9. L = {} => Promise!KsLock(Promise!Scopes)
 BY <1>3, <1>8 DEF Promise!KsLock, Promise!Scopes, Scopes
<1> QED BY <1>4, <1>5, <1>6, <1>7, <1>9 DEF HoldInv, Promise!KeystoreNext

\* lock_scope drops the keys of one workspace, if something protects it.
LEMMA LockScopeKept ==
  ASSUME NEW L \in SUBSET Workspaces, IInv(L), HoldInv, NEW s \in Scopes, LockScope(s)
  PROVE  HoldInv' /\ (L = {} => Promise!KeystoreNext)
<1> DEFINE hide == IsProtected(Policy(keyring, keys), s)
<1>1. /\ keyring \in Keyrings /\ Shape(keyring) /\ FlagsMatch(keyring, L) /\ App \in Scopes
 BY DEF IInv, TypeOK, Sound, Scopes
<1>2. /\ s \in Workspaces /\ Exists(keyring, s) /\ keyring' = keyring
      /\ keys' = IF hide THEN {v \in keys : v[1] # s} ELSE keys
      /\ fieldKeys' = IF hide THEN fieldKeys \ {s} ELSE fieldKeys
      /\ locked' = IF hide THEN locked \cup {s} ELSE locked
      /\ snap' = IF hide /\ snap.phase = "busy" THEN [snap EXCEPT !.fresh = FALSE] ELSE snap
 BY DEF LockScope, MovesEpoch, Scopes
<1>3. /\ hide => Protected(keyring, s) \/ Password \in keyring.wraps[Governing(keyring, s)]
      /\ L = {} => (hide <=> Protected(keyring, s))
 <2>1. s \in Scopes OBVIOUS
 <2> QED BY <1>1, <1>2, <2>1, SeemsProtected
<1> HIDE DEF hide
<1>4. LockHolds' BY <1>2 DEF HoldInv, LockHolds
<1>5. LockedNeedSecret' BY <1>2, <1>3 DEF HoldInv, LockedNeedSecret
<1>6. SnapshotHolds'
 <2>1. CASE hide
  <3>1. snap'.phase = "busy" => ~ snap'.fresh BY <1>2, <2>1 DEF IInv, TypeOK
  <3> QED BY <3>1 DEF SnapshotHolds
 <2>2. CASE ~ hide BY <1>2, <2>2 DEF HoldInv, SnapshotHolds
 <2> QED BY <2>1, <2>2
<1>7. KeysHaveScopes' /\ Distinct(keyring)' BY <1>2 DEF HoldInv, KeysHaveScopes
<1>8. L = {} => (Promise!Guarded(s) <=> hide)
 <2>1. Exists(keyring, App) BY <1>1, <1>2 DEF Shape
 <2> QED BY <1>1, <1>2, <1>3, <2>1 DEF Promise!Guarded, Protected, Sealing
<1>9. L = {} => keys' = {v \in keys : ~ (v[1] \in {s} /\ Promise!Guarded(v[1]))} BY <1>2, <1>8
<1>10. L = {} => Promise!KsLock({s}) BY <1>2, <1>9 DEF Promise!KsLock
<1> QED BY <1>2, <1>4, <1>5, <1>6, <1>7, <1>10 DEF HoldInv, Promise!KeystoreNext

\* The other steps keep the keyring, and the keys too unless the process starts again.
LEMMA MemoryStepsKept ==
  ASSUME NEW L \in SUBSET Workspaces, IInv(L), HoldInv,
         \/ BeginOp \/ EndWithError \/ DeleteRetired
         \/ \E s \in Scopes : \/ OpenScopeFails(s) \/ LockScope(s) \/ RevealExpires(s)
                             \/ OpenReveal(s)
         \/ LockProtected \/ CloseReveal \/ Restart \/ UNCHANGED vars
  PROVE  HoldInv' /\ (L = {} => Promise!KeystoreNext \/ UNCHANGED Promise!keystore)
<1>1. CASE \/ BeginOp \/ EndWithError \/ DeleteRetired \/ CloseReveal \/ UNCHANGED vars
           \/ \E s \in Scopes : OpenScopeFails(s) \/ RevealExpires(s) \/ OpenReveal(s)
 <2>1. /\ keyring' = keyring /\ keys' = keys /\ fieldKeys' = fieldKeys /\ locked' = locked
       /\ snap' \in {snap, Idle, Busy(keys)}
  BY <1>1 DEF BeginOp, EndWithError, DeleteRetired, CloseReveal, OpenScopeFails,
              RevealExpires, OpenReveal, vars
 <2>2. SnapshotHolds' BY <2>1 DEF HoldInv, SnapshotHolds, Idle, Busy
 <2>3. LockHolds' /\ LockedNeedSecret' /\ KeysHaveScopes' /\ Distinct(keyring)'
  BY <2>1 DEF HoldInv, LockHolds, LockedNeedSecret, KeysHaveScopes
 <2> QED BY <2>1, <2>2, <2>3 DEF HoldInv, Promise!keystore
<1>2. CASE \E s \in Scopes : LockScope(s) BY <1>2, LockScopeKept
<1>3. CASE LockProtected BY <1>3, LockProtectedKept
<1>4. CASE Restart
 <2>1. /\ keyring' = keyring /\ keys' = {} /\ fieldKeys' = {} /\ snap' = Idle
       /\ locked' = {s \in Scopes : Exists(keyring, s) /\ Protected(keyring, s)}
  BY <1>4 DEF Restart
 <2>2. HoldInv'
  BY <2>1 DEF HoldInv, LockHolds, LockedNeedSecret, SnapshotHolds, KeysHaveScopes, Idle
 <2>3. Promise!KsForget BY <2>1 DEF Promise!KsForget
 <2> QED BY <2>2, <2>3 DEF Promise!KeystoreNext
<1> QED BY <1>1, <1>2, <1>3, <1>4

\* Every operation but the abort of a rotation is a call of Rotation.
LEMMA OperationKept ==
  ASSUME NEW L \in SUBSET Workspaces, IInv(L), HoldInv, MayFinish, Operation,
         \A s \in Scopes : ~ AbortRotation(s)
  PROVE  HoldInv' /\ (L = {} => Promise!KeystoreNext \/ UNCHANGED Promise!keystore)
<1>1. CASE Initialize BY <1>1, InitializeKept
<1>2. ASSUME NEW ids \in SUBSET Workspaces, NEW P \in SUBSET (ids \cup {App}),
             InitializeFromExport(ids, P)
      PROVE  HoldInv' /\ Promise!KeystoreNext
 BY <1>2, InitializeFromExportKept
<1>3. ASSUME NEW s \in Scopes,
             \/ OpenScope(s) \/ UnlockWithPassword(s) \/ UnlockWithPresence(s)
             \/ \E p \in BOOLEAN : CreateScope(s, p)
             \/ DeleteScope(s)
             \/ ChangePassword(s) \/ SetPassword(s) \/ RemovePassword(s)
             \/ EnablePresence(s) \/ DisablePresence(s)
             \/ CommitRotation(s)
      PROVE  HoldInv' /\ (L = {} => Promise!KeystoreNext)
 BY <1>3, UnlocksKept, CreateScopeKept, DeleteScopeKept, ChangePasswordKept,
    SetPasswordKept, RemovePasswordKept, NoKeysKept, CommitRotationKept
<1>4. CASE \E s \in Scopes : OpenReveal(s) BY <1>4, MemoryStepsKept
<1>5. ASSUME NEW r \in RecoveryIds, UnlockWithRecovery(r)
      PROVE  HoldInv' /\ Promise!KeystoreNext
 BY <1>5, UnlockWithRecoveryKept
<1>6. CASE SetupRecovery \/ RemoveRecovery BY <1>6, NoKeysKept
<1> QED BY <1>1, <1>2, <1>3, <1>4, <1>5, <1>6 DEF Operation

\* The first run: nothing exists, nothing is locked.
LEMMA InitKept ==
  ASSUME Init
  PROVE  HoldInv /\ Promise!KeystoreInit
<1>1. /\ keyring.cur = [s \in Scopes |-> None] /\ keyring.staged = [s \in Scopes |-> None]
      /\ keys = {} /\ locked = {} /\ snap.phase = "idle"
 BY DEF Init, Empty, Idle
<1>2. HoldInv
 BY <1>1 DEF HoldInv, LockHolds, LockedNeedSecret, SnapshotHolds, KeysHaveScopes,
             Distinct, Rotating
<1>3. Sealing(keyring) = [s \in Scopes |-> FALSE] BY <1>1 DEF Sealing, Exists
<1> QED BY <1>1, <1>2, <1>3 DEF Promise!KeystoreInit, Promise!Scopes, Scopes

--------------------------------------------------
(* Passwords travel: the routes of a password and of the app's key that    *)
(* PasswordTravels is about are kept by every change of a keyring.         *)

Travels(kr) ==
    /\ \A v \in AllVersions(kr) : kr.own[v] => Password \in kr.wraps[v]
    /\ \A v \in AllVersions(kr) : \A n \in Serials :
          Parent(n) \in kr.wraps[v] /\ <<App, n>> \in AllVersions(kr) => kr.own[<<App, n>>]

\* A pass keeps password routes of sealed versions and adds app routes of sealed ones.
LEMMA ReconcileTravels ==
  ASSUME NEW kr \in Keyrings, Travels(kr), NEW devs, NEW known \in SUBSET Slots,
         NEW ids \in SUBSET Scopes, NEW l \in BOOLEAN,
         Reconcile(kr, devs, known, ids, l).ok
  PROVE  Travels(Reconcile(kr, devs, known, ids, l).keyring)
<1> DEFINE R == Reconcile(kr, devs, known, ids, l)
<1>1. PICK k \in SUBSET Slots, d \in DeviceIds \cup {None} : AppliesWith(R, kr, ids, k, d)
 BY ReconcileResult
<1>2. /\ R.keyring.cur = kr.cur /\ R.keyring.staged = kr.staged /\ R.keyring.own = kr.own
 BY ReconcileVersions
<1> HIDE DEF R
<1> DEFINE q == [kr EXCEPT !.quiet = d]
           pol == Policy(kr, k)
<1>3. q.wraps = kr.wraps /\ q.own = kr.own BY DEF Keyrings
<1>4. R.keyring.wraps = [v \in Slots |-> IF v \in LiveIn(q, ids) THEN Applied(q, pol, k, v)
                                         ELSE kr.wraps[v]]
 BY <1>1, <1>3 DEF AppliesWith, ApplyPolicy, Keyrings
<1>5. ASSUME NEW n \in pol.parents PROVE kr.own[<<App, n>>]
 <2>1. PICK a \in Versions(kr, App) : n = a[2] /\ kr.own[a] BY DEF Policy
 <2> QED BY <2>1 DEF Versions
<1> HIDE DEF q, pol
<1>6. AllVersions(R.keyring) = AllVersions(kr) /\ AllVersions(kr) \subseteq Slots
 BY <1>2, VersionsAreSlots DEF AllVersions, Versions
<1>7. ASSUME NEW v \in AllVersions(kr), kr.own[v] PROVE Password \in R.keyring.wraps[v]
 <2>1. v \in Slots /\ Password \in kr.wraps[v] BY <1>6, <1>7 DEF Travels
 <2>2. Password \in Applied(q, pol, k, v) BY <1>3, <1>7, <2>1, PasswordStays
 <2> QED BY <1>4, <2>1, <2>2
<1>8. ASSUME NEW v \in AllVersions(kr), NEW n \in Serials,
             Parent(n) \in R.keyring.wraps[v], <<App, n>> \in AllVersions(kr)
      PROVE  kr.own[<<App, n>>]
 <2>1. v \in Slots BY <1>6
 <2>2. CASE Parent(n) \in kr.wraps[v] BY <1>8, <2>2 DEF Travels
 <2>3. CASE Parent(n) \notin kr.wraps[v]
  <3>1. Parent(n) \in Applied(q, pol, k, v) BY <1>4, <1>8, <2>1, <2>3
  <3>2. Parent(n) \in Wanted(q, pol, v) BY <1>3, <2>3, <3>1, AppliedRoutes
  <3> QED BY <1>5, <3>2, WantedRoutes
 <2> QED BY <2>2, <2>3
<1> QED BY <1>2, <1>6, <1>7, <1>8 DEF Travels, R

\* Versions may go, presence and password routes may come.
LEMMA FewerVersionsTravel ==
  ASSUME NEW kr \in Keyrings, Travels(kr), NEW r,
         AllVersions(r) \subseteq AllVersions(kr),
         \A v \in AllVersions(r) : /\ r.own[v] = kr.own[v]
                                   /\ Password \in kr.wraps[v] => Password \in r.wraps[v]
                                   /\ \A n : Parent(n) \in r.wraps[v] => Parent(n) \in kr.wraps[v]
  PROVE  Travels(r)
BY DEF Travels

\* The serial of a new app version is not one that a leftover route names.
LEMMA StagingTravels ==
  ASSUME NEW kr \in Keyrings, Travels(kr), NEW T \in SUBSET Scopes,
         \A s \in T : Exists(kr, s) /\ FreshSerials(kr, s) # {},
         NEW own \in BOOLEAN, NEW W \in SUBSET {Password}, own => Password \in W
  PROVE  Travels(StageVersions(kr, T, own, W))
<1> DEFINE r == StageVersions(kr, T, own, W)
           n(s) == Fresh(FreshSerials(kr, s))
           fresh == {<<s, n(s)>> : s \in T}
<1>1. \A s \in T : n(s) \in Serials /\ n(s) # kr.cur[s] BY DEF Fresh, FreshSerials, UsedSerials
<1>2. ASSUME App \in T, NEW v \in AllVersions(kr) PROVE Parent(n(App)) \notin kr.wraps[v]
 BY <1>2 DEF Fresh, FreshSerials, UsedSerials
<1> HIDE DEF n
<1>3. /\ r.cur = kr.cur
      /\ r.staged = [s \in Scopes |-> IF s \in T THEN n(s) ELSE kr.staged[s]]
      /\ r.own = [v \in Slots |-> IF v[1] \in T /\ v = <<v[1], n(v[1])>> THEN own
                                   ELSE kr.own[v]]
      /\ r.wraps = [v \in Slots |-> IF v[1] \in T /\ v = <<v[1], n(v[1])>> THEN W
                                     ELSE kr.wraps[v]]
 BY DEF StageVersions, Keyrings, n
<1> HIDE DEF r
<1>4. /\ \A s \in T : Versions(r, s) \subseteq {<<s, kr.cur[s]>>, <<s, n(s)>>}
      /\ \A s \in Scopes \ T : Versions(r, s) = Versions(kr, s)
 BY <1>3 DEF Versions
<1>5. \A s \in T : <<s, kr.cur[s]>> \in AllVersions(kr) /\ <<s, kr.cur[s]>> \notin fresh
 BY <1>1 DEF AllVersions, Versions, Exists
<1>6. \A v \in AllVersions(r) : v \in fresh \/ (v \in AllVersions(kr) /\ v \notin fresh)
 <2> SUFFICES ASSUME NEW s \in Scopes, NEW v \in Versions(r, s)
              PROVE  v \in fresh \/ (v \in AllVersions(kr) /\ v \notin fresh)
  BY DEF AllVersions
 <2>1. CASE s \in T BY <1>4, <1>5, <2>1
 <2>2. CASE s \notin T BY <1>4, <2>2 DEF AllVersions, Versions
 <2> QED BY <2>1, <2>2
<1>7. AllVersions(kr) \subseteq Slots /\ fresh \subseteq Slots
 BY <1>1, VersionsAreSlots DEF Slots
<1>8. \A v \in fresh : r.own[v] = own /\ r.wraps[v] = W BY <1>3, <1>7
<1>9. \A v \in Slots \ fresh : r.own[v] = kr.own[v] /\ r.wraps[v] = kr.wraps[v] BY <1>3
<1>10. \A m : Parent(m) \notin W BY DEF Parent, Password
<1>11. \A m \in Serials : <<App, m>> \in fresh => App \in T /\ m = n(App) OBVIOUS
<1> HIDE DEF fresh
<1>12. \A v \in AllVersions(r) : r.own[v] => Password \in r.wraps[v]
 <2> SUFFICES ASSUME NEW v \in AllVersions(r), r.own[v] PROVE Password \in r.wraps[v]
  OBVIOUS
 <2>1. CASE v \in fresh BY <1>8, <2>1
 <2>2. CASE v \in AllVersions(kr) /\ v \notin fresh BY <1>7, <1>9, <2>2 DEF Travels
 <2> QED BY <1>6, <2>1, <2>2
<1>13. ASSUME NEW v \in AllVersions(r), NEW m \in Serials, Parent(m) \in r.wraps[v],
              <<App, m>> \in AllVersions(r)
       PROVE  r.own[<<App, m>>]
 <2>1. v \in AllVersions(kr) /\ v \notin fresh BY <1>6, <1>8, <1>10, <1>13
 <2>2. Parent(m) \in kr.wraps[v] BY <1>7, <1>9, <1>13, <2>1
 <2>3. <<App, m>> \notin fresh BY <1>2, <1>11, <2>1, <2>2
 <2> QED BY <1>6, <1>7, <1>9, <1>13, <2>1, <2>2, <2>3 DEF Travels
<1> QED BY <1>12, <1>13 DEF Travels, r

\* Saving the outcome of a pass over such a keyring.
LEMMA SavesTravels ==
  ASSUME NEW kr \in Keyrings, Travels(kr), NEW known \in SUBSET Slots,
         NEW ids \in SUBSET Scopes, NEW l \in BOOLEAN, NEW ks, NEW fs, NEW rv, NEW U,
         Saves(Reconcile(kr, devices, known, ids, l), ks, fs, rv, U)
  PROVE  Travels(keyring')
<1> DEFINE R == Reconcile(kr, devices, known, ids, l)
<1>1. R.ok /\ keyring' = R.keyring BY DEF Saves, Finish
<1>2. Travels(R.keyring) BY <1>1, ReconcileTravels
<1> HIDE DEF R
<1> QED BY <1>1, <1>2

\* The first run: a version without a password, or those of the bundle.
LEMMA FirstRunTravels ==
  ASSUME NEW L \in SUBSET Workspaces, IInv(L),
         \/ Initialize
         \/ \E ids \in SUBSET Workspaces : \E P \in SUBSET (ids \cup {App}) :
               InitializeFromExport(ids, P)
  PROVE  Travels(keyring')
<1>1. keyring \in Keyrings /\ Shape(keyring) /\ App \in Scopes
 BY DEF IInv, TypeOK, Sound, Scopes
<1>2. CASE Initialize
 <2> DEFINE n == Fresh(FreshSerials(keyring, App))
            kr == [NewVersion(keyring, App, n, FALSE, {}) EXCEPT !.cur[App] = n]
            K == {<<App, n>>}
            I == {App}
            f == FALSE
 <2>1. n \in Serials /\ K \in SUBSET Slots /\ I \in SUBSET Scopes /\ f \in BOOLEAN
  BY <1>1, <1>2 DEF Initialize, Fresh, FreshSerials, Slots
 <2>2. Saves(Reconcile(kr, devices, K, I, f), K, I, reveal, {}) BY <1>2 DEF Initialize
 <2> HIDE DEF n
 <2>3. kr \in Keyrings BY <1>1, <2>1 DEF NewVersion, Keyrings
 <2>4. /\ kr.cur = [keyring.cur EXCEPT ![App] = n] /\ kr.staged = keyring.staged
       /\ kr.own = [keyring.own EXCEPT ![<<App, n>>] = FALSE]
       /\ kr.wraps = [keyring.wraps EXCEPT ![<<App, n>>] = {}]
  BY DEF NewVersion, Keyrings
 <2> HIDE DEF kr
 <2>5. \A s \in Scopes : ~ Exists(keyring, s) /\ ~ Rotating(keyring, s)
  BY <1>1, <1>2 DEF Initialize, Shape
 <2>6. \A v \in AllVersions(kr) : v = <<App, n>>
  BY <1>1, <2>4, <2>5 DEF AllVersions, Versions, Exists, Rotating, Keyrings
 <2>7. ~ kr.own[<<App, n>>] /\ kr.wraps[<<App, n>>] = {} BY <1>1, <2>1, <2>4 DEF Keyrings
 <2>8. Travels(kr) BY <2>6, <2>7 DEF Travels
 <2> HIDE DEF K, I, f
 <2> QED BY <2>1, <2>2, <2>3, <2>8, SavesTravels
<1>3. ASSUME NEW ids \in SUBSET Workspaces, NEW P \in SUBSET (ids \cup {App}),
             InitializeFromExport(ids, P)
      PROVE  Travels(keyring')
 <2> DEFINE n == Fresh(Serials)
            all == ids \cup {App}
            cur == [s \in Scopes |-> IF s \in all THEN n ELSE None]
            own == [v \in Slots |-> v[2] = n /\ v[1] \in P]
            wraps == [v \in Slots |-> IF v[2] = n /\ v[1] \in P THEN {Password} ELSE {}]
            kr == [keyring EXCEPT !.cur = cur, !.own = own, !.wraps = wraps]
            K == all \X {n}
            f == FALSE
            R == Reconcile(kr, devices, K, all, f)
 <2>1. n \in Serials BY KeyringConstants DEF Fresh
 <2>2. Saves(R, R.known, all, reveal, {}) BY <1>3 DEF InitializeFromExport
 <2> HIDE DEF n
 <2>3. all \in SUBSET Scopes /\ K \in SUBSET Slots /\ f \in BOOLEAN BY <2>1 DEF Scopes, Slots
 <2>4. /\ cur \in [Scopes -> Serials \cup {None}]
       /\ own \in [Slots -> BOOLEAN]
       /\ wraps \in [Slots -> SUBSET Wraps]
  BY <2>1 DEF Wraps
 <2>5. \A v \in Slots : own[v] => Password \in wraps[v] OBVIOUS
 <2>6. \A v \in Slots : \A m : Parent(m) \notin wraps[v] BY DEF Parent, Password
 <2> HIDE DEF cur, own, wraps
 <2>7. kr \in Keyrings /\ kr.own = own /\ kr.wraps = wraps BY <1>1, <2>4 DEF Keyrings
 <2> HIDE DEF kr, all, K, f
 <2>8. AllVersions(kr) \subseteq Slots BY <2>7, VersionsAreSlots
 <2>9. Travels(kr) BY <2>5, <2>6, <2>7, <2>8 DEF Travels
 <2> QED BY <2>2, <2>3, <2>7, <2>9, SavesTravels
<1> QED BY <1>2, <1>3

\* Unlocks and the recovery code: the passes start from the saved versions and routes.
LEMMA UnlocksTravel ==
  ASSUME NEW L \in SUBSET Workspaces, IInv(L), Travels(keyring),
         \/ \E s \in Scopes : OpenScope(s) \/ UnlockWithPassword(s) \/ UnlockWithPresence(s)
         \/ \E r \in RecoveryIds : UnlockWithRecovery(r)
         \/ SetupRecovery \/ RemoveRecovery
  PROVE  Travels(keyring')
<1>1. keyring \in Keyrings /\ lost \in BOOLEAN /\ Known \in SUBSET Slots
 BY SnapshotType DEF IInv, TypeOK
<1>2. ASSUME NEW k \in SUBSET Slots, NEW ids \in SUBSET Scopes, NEW l \in BOOLEAN,
             NEW ks, NEW fs, NEW U,
             Repairs(Reconcile(keyring, devices, k, ids, l), ks, fs, l, U)
      PROVE  Travels(keyring')
 <2> DEFINE R == Reconcile(keyring, devices, k, ids, l)
 <2>1. CASE R.ok /\ Finish(R.keyring, ks, fs, reveal, R.lost, U)
  <3>1. Saves(R, ks, fs, reveal, U) BY <2>1 DEF Saves
  <3> QED BY <1>1, <3>1, SavesTravels
 <2>2. CASE \E x \in {l, R.lost} : Finish(keyring, ks, fs, reveal, x, U)
  <3>1. keyring' = keyring BY <2>2 DEF Finish
  <3> QED BY <3>1
 <2> QED BY <1>2, <2>1, <2>2 DEF Repairs
<1>3. ASSUME NEW s \in Scopes, NEW found \in SUBSET Versions(keyring, s),
             CompleteUnlock(s, found)
      PROVE  Travels(keyring')
 <2> DEFINE k1 == Known \cup found
            l1 == FindsLost(keyring, devices, k1, lost, Versions(keyring, s))
            k2 == k1 \cup {v \in Versions(keyring, s) :
                              Obtains(keyring, devices, k1, lost, v)}
            ks == keys \cup found \cup (k2 \cap Versions(keyring, s))
            I == {s}
 <2>1. Repairs(Reconcile(keyring, devices, k2, I, l1), ks, fieldKeys \cup I, l1, I)
  BY <1>3 DEF CompleteUnlock
 <2>2. k2 \in SUBSET Slots /\ l1 \in BOOLEAN /\ I \in SUBSET Scopes
  BY <1>1, VersionsAreSlots DEF FindsLost
 <2> HIDE DEF k2, l1, I, ks
 <2> QED BY <1>2, <2>1, <2>2
<1>4. CASE \E s \in Scopes : OpenScope(s) \/ UnlockWithPassword(s) \/ UnlockWithPresence(s)
 <2> PICK s \in Scopes : OpenScope(s) \/ UnlockWithPassword(s) \/ UnlockWithPresence(s) BY <1>4
 <2>1. \E found \in SUBSET Versions(keyring, s) : CompleteUnlock(s, found)
  BY DEF OpenScope, UnlockWithPassword, UnlockWithPresence
 <2> QED BY <1>3, <2>1
<1>5. ASSUME NEW r \in RecoveryIds, UnlockWithRecovery(r) PROVE Travels(keyring')
 <2> DEFINE found == {v \in AllVersions(keyring) : Recovery(r) \in keyring.wraps[v]}
            opened == {s \in Scopes : Current(keyring, s) \in found}
            l1 == lost \/ (keyring.quiet # None /\ keyring.quiet \notin devices)
            k == Known \cup found
 <2>1. Repairs(Reconcile(keyring, devices, k, Scopes, l1), keys \cup found,
               fieldKeys \cup opened, l1, {v[1] : v \in found})
  BY <1>5 DEF UnlockWithRecovery
 <2>2. k \in SUBSET Slots /\ l1 \in BOOLEAN /\ Scopes \in SUBSET Scopes
  BY <1>1, VersionsAreSlots
 <2> HIDE DEF k, l1
 <2> QED BY <1>2, <2>1, <2>2
<1>6. ASSUME NEW e, e \in {NoRecovery} \cup [id : RecoveryIds, mac : Serials, held : BOOLEAN],
             Saves(Reconcile([keyring EXCEPT !.recovery = e], devices, Known, Scopes, lost),
                   keys, fieldKeys, reveal, {})
      PROVE  Travels(keyring')
 <2> DEFINE q == [keyring EXCEPT !.recovery = e]
 <2>1. /\ q \in Keyrings /\ q.cur = keyring.cur /\ q.staged = keyring.staged
       /\ q.own = keyring.own /\ q.wraps = keyring.wraps
  BY <1>1, <1>6 DEF Keyrings
 <2>2. Saves(Reconcile(q, devices, Known, Scopes, lost), keys, fieldKeys, reveal, {}) BY <1>6
 <2> HIDE DEF q
 <2>3. Travels(q) BY <2>1 DEF Travels, AllVersions, Versions
 <2>4. Scopes \in SUBSET Scopes OBVIOUS
 <2> QED BY <1>1, <2>1, <2>2, <2>3, <2>4, SavesTravels
<1>7. CASE SetupRecovery
 <2> DEFINE gov == Governing(keyring, App)
            new == RecoveryIds \ UsedCodes(keyring)
            e == [id |-> Fresh(new), mac |-> gov[2], held |-> keyring.own[gov]]
 <2>1. gov \in Slots /\ Fresh(new) \in RecoveryIds BY <1>1, <1>7 DEF SetupRecovery, Fresh
 <2>2. gov[2] \in Serials /\ keyring.own[gov] \in BOOLEAN BY <1>1, <2>1 DEF Slots, Keyrings
 <2>3. e \in [id : RecoveryIds, mac : Serials, held : BOOLEAN] BY <2>1, <2>2
 <2>4. Saves(Reconcile([keyring EXCEPT !.recovery = e], devices, Known, Scopes, lost),
             keys, fieldKeys, reveal, {})
  BY <1>7 DEF SetupRecovery
 <2> HIDE DEF e
 <2> QED BY <1>6, <2>3, <2>4
<1>8. CASE RemoveRecovery BY <1>6, <1>8 DEF RemoveRecovery
<1> QED BY <1>4, <1>5, <1>7, <1>8

\* A workspace comes with a version that opens with its own password, or goes.
LEMMA ScopesTravel ==
  ASSUME NEW L \in SUBSET Workspaces, IInv(L), Travels(keyring), NEW s \in Scopes,
         DeleteScope(s) \/ \E p \in BOOLEAN : CreateScope(s, p)
  PROVE  Travels(keyring')
<1>1. /\ keyring \in Keyrings /\ Shape(keyring) /\ lost \in BOOLEAN /\ Known \in SUBSET Slots
      /\ App \in Scopes
 BY SnapshotType DEF IInv, TypeOK, Sound, Scopes
<1>2. CASE DeleteScope(s)
 <2> DEFINE V == Versions(keyring, s)
            r == [Without(keyring, V) EXCEPT !.cur[s] = None, !.staged[s] = None]
 <2>1. /\ r.cur = [keyring.cur EXCEPT ![s] = None]
       /\ r.staged = [keyring.staged EXCEPT ![s] = None]
       /\ r.own = [v \in Slots |-> v \notin V /\ keyring.own[v]]
       /\ r.wraps = [v \in Slots |-> IF v \in V THEN {} ELSE keyring.wraps[v]]
  BY <1>1 DEF Without, Keyrings
 <2>2. keyring' = r /\ s # App BY <1>2 DEF DeleteScope, Finish
 <2> HIDE DEF r
 <2>3. \A v \in AllVersions(r) : v \in AllVersions(keyring) /\ v \notin V
  <3> SUFFICES ASSUME NEW t \in Scopes, NEW v \in Versions(r, t)
               PROVE  v \in AllVersions(keyring) /\ v \notin V
   BY DEF AllVersions
  <3>1. t # s BY <1>1, <2>1 DEF Versions, Keyrings
  <3>2. v \in Versions(keyring, t) BY <1>1, <2>1, <3>1 DEF Versions, Keyrings
  <3> QED BY <3>1, <3>2 DEF AllVersions, Versions
 <2>4. AllVersions(keyring) \subseteq Slots BY <1>1, VersionsAreSlots
 <2> HIDE DEF V
 <2>5. \A v \in AllVersions(r) : (r.own[v] <=> keyring.own[v]) /\ r.wraps[v] = keyring.wraps[v]
  BY <2>1, <2>3, <2>4
 <2>6. \A n \in Serials : <<App, n>> \in AllVersions(r) => <<App, n>> \in AllVersions(keyring)
  BY <2>3
 <2>7. Travels(r) BY <2>3, <2>5, <2>6 DEF Travels
 <2> QED BY <2>2, <2>7
<1>3. ASSUME NEW p \in BOOLEAN, CreateScope(s, p) PROVE Travels(keyring')
 <2> DEFINE n == Fresh(FreshSerials(keyring, s))
            W == IF p THEN {Password} ELSE {}
            kr == [NewVersion(keyring, s, n, p, W) EXCEPT !.cur[s] = n]
            k == Known \cup {<<s, n>>}
            I == {s}
 <2>1. /\ s # App /\ n \in Serials /\ <<s, n>> \in Slots
       /\ ~ Exists(keyring, s) /\ ~ Rotating(keyring, s)
  BY <1>1, <1>3 DEF CreateScope, Fresh, FreshSerials, Slots, Shape
 <2>2. Saves(Reconcile(kr, devices, k, I, lost), keys \cup {<<s, n>>}, fieldKeys \cup I,
             reveal, I)
  BY <1>3 DEF CreateScope
 <2> HIDE DEF n
 <2>3. /\ k \in SUBSET Slots /\ I \in SUBSET Scopes /\ W \in SUBSET Wraps
       /\ (p => Password \in W) /\ \A m : Parent(m) \notin W
  BY <1>1, <2>1 DEF Wraps, Parent, Password
 <2> HIDE DEF W, k, I
 <2>4. kr \in Keyrings BY <1>1, <2>1, <2>3 DEF NewVersion, Keyrings
 <2>5. /\ kr.cur = [keyring.cur EXCEPT ![s] = n] /\ kr.staged = keyring.staged
       /\ kr.own = [keyring.own EXCEPT ![<<s, n>>] = p]
       /\ kr.wraps = [keyring.wraps EXCEPT ![<<s, n>>] = W]
  BY DEF NewVersion, Keyrings
 <2> HIDE DEF kr
 <2>6. \A v \in AllVersions(kr) : v = <<s, n>> \/ (v \in AllVersions(keyring) /\ v[1] # s)
  <3> SUFFICES ASSUME NEW t \in Scopes, NEW v \in Versions(kr, t)
               PROVE  v = <<s, n>> \/ (v \in AllVersions(keyring) /\ v[1] # s)
   BY DEF AllVersions
  <3>1. CASE t = s BY <1>1, <2>1, <2>5, <3>1 DEF Versions, Rotating, Keyrings
  <3>2. CASE t # s
   <4>1. v \in Versions(keyring, t) BY <1>1, <2>5, <3>2 DEF Versions, Keyrings
   <4> QED BY <3>2, <4>1 DEF AllVersions, Versions
  <3> QED BY <3>1, <3>2
 <2>7. AllVersions(keyring) \subseteq Slots BY <1>1, VersionsAreSlots
 <2>8. \A v \in AllVersions(keyring) : v[1] # s =>
          kr.own[v] = keyring.own[v] /\ kr.wraps[v] = keyring.wraps[v]
  BY <1>1, <2>5, <2>7 DEF Keyrings
 <2>9. kr.own[<<s, n>>] = p /\ kr.wraps[<<s, n>>] = W BY <1>1, <2>1, <2>5 DEF Keyrings
 <2>10. \A v \in AllVersions(kr) : kr.own[v] => Password \in kr.wraps[v]
  <3> SUFFICES ASSUME NEW v \in AllVersions(kr), kr.own[v] PROVE Password \in kr.wraps[v]
   OBVIOUS
  <3>1. CASE v = <<s, n>> BY <2>3, <2>9, <3>1
  <3>2. CASE v \in AllVersions(keyring) /\ v[1] # s BY <2>8, <3>2 DEF Travels
  <3> QED BY <2>6, <3>1, <3>2
 <2>11. ASSUME NEW v \in AllVersions(kr), NEW m \in Serials, Parent(m) \in kr.wraps[v],
               <<App, m>> \in AllVersions(kr)
        PROVE  kr.own[<<App, m>>]
  <3>1. v \in AllVersions(keyring) /\ v[1] # s BY <2>3, <2>6, <2>9, <2>11
  <3>2. <<App, m>> \in AllVersions(keyring) /\ <<App, m>>[1] # s BY <2>1, <2>6, <2>11
  <3> QED BY <2>8, <2>11, <3>1, <3>2 DEF Travels
 <2>12. Travels(kr) BY <2>10, <2>11 DEF Travels
 <2> QED BY <1>1, <2>2, <2>3, <2>4, <2>12, SavesTravels
<1> QED BY <1>2, <1>3

\* enable_presence and disable_presence touch neither route.
LEMMA PresenceTravels ==
  ASSUME NEW L \in SUBSET Workspaces, IInv(L), Travels(keyring),
         NEW s \in Scopes, EnablePresence(s) \/ DisablePresence(s)
  PROVE  Travels(keyring')
<1>1. keyring \in Keyrings BY DEF IInv, TypeOK
<1>2. PICK W : /\ \A w \in W : w.kind = "presence"
               /\ keyring' = WithPresence(keyring, s, W)
 <2>1. CASE EnablePresence(s)
  <3>1. PICK d : keyring' = WithPresence(keyring, s, {Presence(d)})
   BY <2>1 DEF EnablePresence, Finish
  <3>2. \A w \in {Presence(d)} : w.kind = "presence" BY DEF Presence
  <3> QED BY <3>1, <3>2
 <2>2. CASE DisablePresence(s) BY <2>2 DEF DisablePresence, Finish
 <2> QED BY <2>1, <2>2
<1> DEFINE r == WithPresence(keyring, s, W)
<1>3. /\ r.cur = keyring.cur /\ r.staged = keyring.staged /\ r.own = keyring.own
      /\ r.wraps = [v \in Slots |->
            IF v \in Versions(keyring, s)
            THEN {w \in keyring.wraps[v] : w.kind # "presence"} \cup W
            ELSE keyring.wraps[v]]
 BY <1>1 DEF WithPresence, Keyrings
<1> HIDE DEF r
<1>4. AllVersions(r) = AllVersions(keyring) /\ AllVersions(keyring) \subseteq Slots
 BY <1>1, <1>3, VersionsAreSlots DEF AllVersions, Versions
<1>5. Password.kind # "presence" /\ \A n : Parent(n).kind # "presence" BY DEF Password, Parent
<1>6. \A v \in AllVersions(r) :
         /\ r.own[v] = keyring.own[v]
         /\ Password \in keyring.wraps[v] => Password \in r.wraps[v]
         /\ \A n : Parent(n) \in r.wraps[v] => Parent(n) \in keyring.wraps[v]
 BY <1>2, <1>3, <1>4, <1>5
<1>7. Travels(r) BY <1>1, <1>4, <1>6, FewerVersionsTravel
<1> QED BY <1>2, <1>7 DEF r

\* The end of a protection change.
LEMMA ProtectionChangeTravels ==
  ASSUME NEW kr \in Keyrings, Travels(kr), NEW known \in SUBSET Slots,
         NEW l \in BOOLEAN, NEW T,
         FinishProtectionChange(Reconcile(kr, devices, known, Scopes, l), T)
  PROVE  Travels(keyring')
<1>1. Scopes \in SUBSET Scopes OBVIOUS
<1> QED BY <1>1, SavesTravels DEF FinishProtectionChange

\* A further password route on the current version of a scope.
LEMMA PasswordRouteTravels ==
  ASSUME NEW kr \in Keyrings, Travels(kr), NEW s
  PROVE  Travels([kr EXCEPT !.wraps[Current(kr, s)] = @ \cup {Password}])
<1> DEFINE c == Current(kr, s)
           r == [kr EXCEPT !.wraps[c] = @ \cup {Password}]
<1>1. /\ r.cur = kr.cur /\ r.staged = kr.staged /\ r.own = kr.own
      /\ r.wraps = [kr.wraps EXCEPT ![c] = @ \cup {Password}]
 BY DEF Keyrings
<1> HIDE DEF r, c
<1>2. AllVersions(r) = AllVersions(kr) /\ AllVersions(kr) \subseteq Slots
 BY <1>1, VersionsAreSlots DEF AllVersions, Versions
<1>3. \A v \in Slots : r.wraps[v] \in {kr.wraps[v], kr.wraps[v] \cup {Password}}
 BY <1>1 DEF Keyrings
<1>4. \A n : Parent(n) # Password BY DEF Parent, Password
<1>5. \A v \in AllVersions(r) :
         /\ r.own[v] = kr.own[v]
         /\ Password \in kr.wraps[v] => Password \in r.wraps[v]
         /\ \A n : Parent(n) \in r.wraps[v] => Parent(n) \in kr.wraps[v]
 BY <1>1, <1>2, <1>3, <1>4
<1>6. Travels(r) BY <1>2, <1>5, FewerVersionsTravel
<1> QED BY <1>6 DEF r, c

\* change_password and remove_password
LEMMA PasswordChangesTravel ==
  ASSUME NEW L \in SUBSET Workspaces, IInv(L), Travels(keyring),
         NEW s \in Scopes, ChangePassword(s) \/ RemovePassword(s)
  PROVE  Travels(keyring')
<1> DEFINE k == WithAppKeys(keyring, devices, Known, lost)
           l == FindsLost(keyring, devices, Known, lost, Versions(keyring, App))
           T == {s}
<1>1. keyring \in Keyrings /\ Shape(keyring) /\ FlagsMatch(keyring, L)
 BY DEF IInv, TypeOK, Sound
<1>2. k \in SUBSET Slots /\ l \in BOOLEAN BY SnapshotType DEF IInv
<1>3. CASE ChangePassword(s)
 <2> DEFINE kr == [keyring EXCEPT !.wraps[Current(keyring, s)] = @ \cup {Password}]
 <2>1. FinishProtectionChange(Reconcile(kr, devices, k, Scopes, l), T)
  BY <1>3 DEF ChangePassword
 <2>2. kr \in Keyrings /\ Travels(kr) BY <1>1, WithPasswordRoute, PasswordRouteTravels
 <2> HIDE DEF kr, k, l, T
 <2> QED BY <1>2, <2>1, <2>2, ProtectionChangeTravels
<1>4. CASE RemovePassword(s)
 <2> DEFINE f  == FALSE
            W  == {}
            kr == StageVersions(keyring, T, f, W)
            k2 == k \cup StagedKeys(kr, T)
 <2>1. FinishProtectionChange(Reconcile(kr, devices, k2, Scopes, l), T)
  BY <1>4 DEF RemovePassword
 <2>2. \A t \in T : Exists(keyring, t) /\ FreshSerials(keyring, t) # {}
  BY <1>4 DEF RemovePassword, CanStage
 <2>3. \A t \in Scopes \ T : Exists(keyring, t) => FlagMatches(keyring, t, L)
  BY <1>1 DEF FlagsMatch
 <2>4. /\ T \in SUBSET Scopes /\ f \in BOOLEAN /\ W \in SUBSET Wraps
       /\ (f <=> Password \in W) /\ W \in SUBSET {Password} /\ (f => Password \in W)
  OBVIOUS
 <2> HIDE DEF f, W, T
 <2>5. /\ kr \in Keyrings
       /\ \A t \in T : Staged(kr, t) \in Slots /\ Current(kr, t) \in Slots
  BY <1>1, <2>2, <2>3, <2>4, StagingKeeps
 <2>6. Travels(kr) BY <1>1, <2>2, <2>4, StagingTravels
 <2> HIDE DEF kr, k, l
 <2>7. k2 \in SUBSET Slots BY <1>2, <2>5 DEF StagedKeys
 <2> HIDE DEF k2
 <2> QED BY <1>2, <2>1, <2>5, <2>6, <2>7, ProtectionChangeTravels
<1> QED BY <1>3, <1>4

\* set_password
LEMMA SetPasswordTravels ==
  ASSUME NEW L \in SUBSET Workspaces, IInv(L), Travels(keyring),
         NEW s \in Scopes, SetPassword(s)
  PROVE  Travels(keyring')
<1> DEFINE k   == WithAppKeys(keyring, devices, Known, lost)
           l   == FindsLost(keyring, devices, Known, lost, Versions(keyring, App))
           kr1 == [keyring EXCEPT !.wraps[Current(keyring, s)] = @ \cup {Password}]
           S   == {s}
           y   == TRUE
           P   == {Password}
           st  == StageVersions(kr1, S, y, P)
           kr2 == [st EXCEPT !.recovery = IF s = App THEN NoRecovery ELSE @]
           k2  == k \cup StagedKeys(kr2, S)
           T   == IF s = App THEN Transitioning(keyring, kr2, k2) ELSE {}
           f   == FALSE
           W   == {}
           kr3 == StageVersions(kr2, T, f, W)
           k3  == k2 \cup StagedKeys(kr3, T)
           A   == S \cup T
<1>1. keyring \in Keyrings /\ Shape(keyring) /\ FlagsMatch(keyring, L)
 BY DEF IInv, TypeOK, Sound
<1>2. k \in SUBSET Slots /\ l \in BOOLEAN BY SnapshotType DEF IInv
<1>3. /\ Exists(keyring, s) /\ FreshSerials(kr1, s) # {}
      /\ \A t \in T : FreshSerials(kr2, t) # {}
      /\ FinishProtectionChange(Reconcile(kr3, devices, k3, Scopes, l), A)
 BY DEF SetPassword, CanStage
<1>4. /\ S \in SUBSET Scopes /\ y \in BOOLEAN /\ P \in SUBSET Wraps
      /\ (y <=> Password \in P) /\ P \in SUBSET {Password} /\ (y => Password \in P)
 BY DEF Wraps
<1>5. /\ f \in BOOLEAN /\ W \in SUBSET Wraps
      /\ (f <=> Password \in W) /\ W \in SUBSET {Password} /\ (f => Password \in W)
 OBVIOUS
<1>6. /\ kr1 \in Keyrings /\ Shape(kr1) /\ kr1.cur = keyring.cur /\ Travels(kr1)
      /\ \A t \in Scopes \ S : Exists(kr1, t) =>
            FlagMatches(kr1, t, L)
 BY <1>1, WithPasswordRoute, PasswordRouteTravels
<1>7. \A t \in S : Exists(kr1, t) /\ FreshSerials(kr1, t) # {}
 <2> HIDE DEF kr1
 <2> QED BY <1>3, <1>6 DEF Exists
<1> HIDE DEF kr1, k, l, S, y, P, f, W
<1>8. /\ st \in Keyrings /\ Shape(st) /\ FlagsMatch(st, L) /\ st.cur = kr1.cur
      /\ \A t \in S : Staged(st, t) \in Slots /\ Current(st, t) \in Slots
 <2>1. kr1 \in Keyrings /\ Shape(kr1) /\ S \in SUBSET Scopes BY <1>4, <1>6
 <2>2. \A t \in Scopes \ S : Exists(kr1, t) => FlagMatches(kr1, t, L) BY <1>6
 <2>3. y \in BOOLEAN /\ P \in SUBSET Wraps /\ (y <=> Password \in P) BY <1>4
 <2>4. /\ st \in Keyrings /\ Shape(st) /\ FlagsMatch(st, L) /\ st.cur = kr1.cur
       /\ \A t \in S : Staged(st, t) \in Slots
       /\ \A t \in S : Current(st, t) \in Slots
  BY <1>7, <2>1, <2>2, <2>3, StagingKeeps
 <2> QED BY <2>4
<1>9. Travels(st) BY <1>4, <1>6, <1>7, StagingTravels
<1> HIDE DEF st
<1>10. /\ kr2 \in Keyrings /\ Shape(kr2) /\ FlagsMatch(kr2, L)
       /\ kr2.cur = st.cur /\ kr2.staged = st.staged
       /\ kr2.own = st.own /\ kr2.wraps = st.wraps
 <2> DEFINE e == IF s = App THEN NoRecovery ELSE st.recovery
 <2>1. e \in {NoRecovery} \cup [id : RecoveryIds, mac : Serials, held : BOOLEAN]
  BY <1>8 DEF Keyrings
 <2>2. kr2 = [st EXCEPT !.recovery = e] OBVIOUS
 <2>3. kr2.own = st.own /\ kr2.wraps = st.wraps BY <1>8 DEF Keyrings
 <2> HIDE DEF e
 <2> QED BY <1>8, <2>1, <2>2, <2>3, WithRecovery
<1> HIDE DEF kr2
<1>11. Travels(kr2) BY <1>9, <1>10 DEF Travels, AllVersions, Versions
<1>12. k2 \in SUBSET Slots BY <1>2, <1>8, <1>10 DEF StagedKeys, Staged, Current
<1> HIDE DEF k2
<1>13. T \in SUBSET Scopes /\ \A t \in T : Exists(kr2, t) /\ FreshSerials(kr2, t) # {}
 BY <1>3, <1>6, <1>8, <1>10 DEF Transitioning, Scopes, Exists
<1> HIDE DEF T
<1>14. \A t \in Scopes \ T : Exists(kr2, t) =>
          FlagMatches(kr2, t, L)
 BY <1>10 DEF FlagsMatch
<1>15. /\ kr3 \in Keyrings
       /\ \A t \in T : Staged(kr3, t) \in Slots /\ Current(kr3, t) \in Slots
 BY <1>5, <1>10, <1>13, <1>14, StagingKeeps
<1>16. Travels(kr3) BY <1>5, <1>10, <1>11, <1>13, StagingTravels
<1> HIDE DEF kr3
<1>17. k3 \in SUBSET Slots BY <1>12, <1>15 DEF StagedKeys
<1> HIDE DEF k3
<1> QED BY <1>2, <1>3, <1>15, <1>16, <1>17, ProtectionChangeTravels

\* commit_rotation: the old version goes.
LEMMA CommitRotationTravels ==
  ASSUME NEW L \in SUBSET Workspaces, IInv(L), Distinct(keyring), Travels(keyring),
         NEW s \in Scopes, CommitRotation(s)
  PROVE  Travels(keyring')
<1> DEFINE new == Staged(keyring, s)
           old == Current(keyring, s)
           kr  == [Without(keyring, {old}) EXCEPT !.cur[s] = new[2], !.staged[s] = None]
<1>1. /\ keyring \in Keyrings /\ lost \in BOOLEAN
      /\ Known \in SUBSET Slots /\ Scopes \in SUBSET Scopes
 BY SnapshotType DEF IInv, TypeOK
<1>2. /\ Rotating(keyring, s) /\ new \in Known
      /\ Saves(Reconcile(kr, devices, Known, Scopes, lost),
               (keys \ {old}) \cup {new}, fieldKeys \cup {s}, reveal, {})
 BY DEF CommitRotation
<1>3. /\ new = <<s, keyring.staged[s]>> /\ new[2] = keyring.staged[s] /\ new[2] \in Serials
      /\ old = <<s, keyring.cur[s]>> /\ keyring.cur[s] # keyring.staged[s]
 BY <1>1, <1>2 DEF Staged, Current, Slots, Distinct
<1>4. /\ kr.cur = [keyring.cur EXCEPT ![s] = new[2]]
      /\ kr.staged = [keyring.staged EXCEPT ![s] = None]
      /\ kr.own = [v \in Slots |-> v \notin {old} /\ keyring.own[v]]
      /\ kr.wraps = [v \in Slots |-> IF v \in {old} THEN {} ELSE keyring.wraps[v]]
 BY <1>1 DEF Without, Keyrings
<1>5. kr \in Keyrings
 <2>1. Without(keyring, {old}) \in Keyrings BY <1>1 DEF Without, Keyrings
 <2> QED BY <1>3, <2>1 DEF Keyrings
<1> HIDE DEF kr
<1>6. \A v \in AllVersions(kr) : v \in AllVersions(keyring) /\ v # old
 <2> SUFFICES ASSUME NEW t \in Scopes, NEW v \in Versions(kr, t)
              PROVE  v \in AllVersions(keyring) /\ v # old
  BY DEF AllVersions
 <2>1. CASE t = s
  <3>1. v = <<s, keyring.staged[s]>> BY <1>1, <1>3, <1>4, <2>1 DEF Versions, Keyrings
  <3> QED BY <1>2, <1>3, <3>1 DEF AllVersions, Versions, Rotating
 <2>2. CASE t # s
  <3>1. v \in Versions(keyring, t) BY <1>1, <1>4, <2>2 DEF Versions, Keyrings
  <3> QED BY <1>3, <2>2, <3>1 DEF AllVersions, Versions
 <2> QED BY <2>1, <2>2
<1>7. AllVersions(keyring) \subseteq Slots BY <1>1, VersionsAreSlots
<1> HIDE DEF old, new
<1>8. \A v \in AllVersions(kr) : (kr.own[v] <=> keyring.own[v]) /\ kr.wraps[v] = keyring.wraps[v]
 BY <1>4, <1>6, <1>7
<1>9. Travels(kr) BY <1>6, <1>8 DEF Travels
<1> QED BY <1>1, <1>2, <1>5, <1>9, SavesTravels

--------------------------------------------------
(* The abort of a rotation of a workspace: the current version governs     *)
(* again.  Its password route may stay although no password is sealed, so  *)
(* the scope is one of those whose flags need not match (L).               *)

\* What abort_rotation gives to its pass over every scope.
LEMMA AbortedKeyring ==
  ASSUME NEW L \in SUBSET Workspaces, IInv(L), HoldInv, Travels(keyring),
         NEW s \in L, Rotating(keyring, s), NEW new, new = Staged(keyring, s),
         NEW kr \in Keyrings, kr.cur = keyring.cur,
         kr.staged = [keyring.staged EXCEPT ![s] = None],
         kr.own = [v \in Slots |-> v \notin {new} /\ keyring.own[v]],
         kr.wraps = [v \in Slots |-> IF v \in {new} THEN {} ELSE keyring.wraps[v]]
  PROVE  Shape(kr) /\ FlagsMatch(kr, L) /\ Travels(kr) /\ Distinct(kr)
<1>1. /\ keyring \in Keyrings /\ Shape(keyring) /\ FlagsMatch(keyring, L)
      /\ Distinct(keyring) /\ s \in Scopes /\ s # App /\ App \in Scopes
 BY KeyringConstants DEF IInv, TypeOK, Sound, HoldInv, Scopes
<1>2. new = <<s, keyring.staged[s]>> /\ keyring.staged[s] # None
      /\ keyring.cur[s] # keyring.staged[s] /\ Exists(keyring, s)
 BY <1>1 DEF Staged, Rotating, Distinct, Shape
<1>3. \A t \in Scopes : /\ Exists(kr, t) <=> Exists(keyring, t)
                        /\ kr.staged[t] = IF t = s THEN None ELSE keyring.staged[t]
                        /\ Governing(kr, t) = IF t = s THEN Current(keyring, t)
                                              ELSE Governing(keyring, t)
 BY <1>1 DEF Keyrings, Exists, Governing, Rotating, Staged, Current
<1>4. Shape(kr) /\ Distinct(kr) BY <1>1, <1>3 DEF Shape, Distinct, Rotating
<1>5. \A v \in AllVersions(kr) : v \in AllVersions(keyring) /\ v # new
 <2> SUFFICES ASSUME NEW t \in Scopes, NEW v \in Versions(kr, t)
              PROVE  v \in AllVersions(keyring) /\ v # new
  BY DEF AllVersions
 <2>1. v \in Versions(keyring, t) BY <1>3 DEF Versions
 <2>2. CASE t = s BY <1>2, <1>3, <2>2 DEF Versions, AllVersions
 <2>3. CASE t # s BY <1>2, <2>1, <2>3 DEF Versions, AllVersions
 <2> QED BY <2>2, <2>3
<1>6. AllVersions(keyring) \subseteq Slots BY <1>1, VersionsAreSlots
<1>7. \A v \in Slots : v # new => /\ kr.own[v] <=> keyring.own[v]
                                  /\ kr.wraps[v] = keyring.wraps[v]
 OBVIOUS
<1>8. \A v \in AllVersions(kr) : (kr.own[v] <=> keyring.own[v]) /\ kr.wraps[v] = keyring.wraps[v]
 BY <1>5, <1>6, <1>7
<1>9. Travels(kr) BY <1>5, <1>8 DEF Travels
<1>10. FlagsMatch(kr, L)
 <2> SUFFICES ASSUME NEW t \in Scopes, Exists(kr, t)
              PROVE  FlagMatches(kr, t, L)
  BY DEF FlagsMatch
 <2>1. CASE t = s
  <3>1. Governing(kr, t) \in AllVersions(kr) BY GoverningIsVersion
  <3> QED BY <1>9, <2>1, <3>1 DEF Travels, FlagMatches
 <2>2. CASE t # s
  <3>1. Exists(keyring, t) /\ Governing(kr, t) = Governing(keyring, t) BY <1>3, <2>2
  <3>2. Governing(keyring, t) \in Slots /\ Governing(keyring, t)[1] = t
   BY <1>1, <3>1, GoverningIsVersion
  <3>3. Governing(keyring, t) # new BY <1>2, <2>2, <3>2
  <3>4. FlagMatches(keyring, t, L) BY <1>1, <3>1 DEF FlagsMatch
  <3> QED BY <1>7, <3>1, <3>2, <3>3, <3>4 DEF FlagMatches
 <2> QED BY <2>1, <2>2
<1> QED BY <1>4, <1>9, <1>10

\* abort_rotation
LEMMA AbortRotationKeeps ==
  ASSUME NEW L \in SUBSET Workspaces, IInv(L), HoldInv, Travels(keyring), MayFinish,
         NEW s \in L, AbortRotation(s)
  PROVE  IInv(L)' /\ HoldInv' /\ Travels(keyring')
<1> DEFINE new == Staged(keyring, s)
           kr == [Without(keyring, {new}) EXCEPT !.staged[s] = None]
           ks == keys \ {new}
           R  == Reconcile(kr, devices, Known, Scopes, lost)
<1>1. /\ lost \in BOOLEAN /\ Known \in SUBSET Slots /\ Scopes \in SUBSET Scopes
      /\ keys \in SUBSET Slots /\ fieldKeys \in SUBSET Scopes /\ reveal \in SUBSET Scopes
 BY SnapshotType DEF IInv, TypeOK
<1>2. Rotating(keyring, s) /\ Saves(R, ks, fieldKeys, reveal, {}) BY DEF AbortRotation
<1>3. /\ kr \in Keyrings /\ kr.cur = keyring.cur
      /\ Shape(kr) /\ FlagsMatch(kr, L) /\ Travels(kr) /\ Distinct(kr)
 <2>1. keyring \in Keyrings BY DEF IInv, TypeOK
 <2>2. /\ kr.cur = keyring.cur
       /\ kr.staged = [keyring.staged EXCEPT ![s] = None]
       /\ kr.own = [v \in Slots |-> v \notin {new} /\ keyring.own[v]]
       /\ kr.wraps = [v \in Slots |-> IF v \in {new} THEN {} ELSE keyring.wraps[v]]
  BY <2>1 DEF Without, Keyrings
 <2>3. Without(keyring, {new}) \in Keyrings BY <2>1 DEF Without, Keyrings
 <2>4. kr \in Keyrings BY <2>3 DEF Keyrings
 <2> HIDE DEF kr
 <2> QED BY <1>2, <2>2, <2>4, AbortedKeyring
<1>4. ks \in SUBSET Slots /\ ks \subseteq keys BY <1>1
<1> HIDE DEF kr, ks
<1>5. IInv(L)' BY <1>1, <1>2, <1>3, <1>4, SavesAllKeeps
<1>6. Travels(keyring') BY <1>1, <1>2, <1>3, SavesTravels
<1>7. R.ok /\ Finish(R.keyring, ks, fieldKeys, reveal, R.lost, {}) BY <1>2 DEF Saves
<1>8. /\ R.keyring.cur = kr.cur /\ R.keyring.staged = kr.staged /\ R.keyring.own = kr.own
 BY <1>1, <1>3, <1>7, ReconcileVersions
<1> HIDE DEF R
<1>9. HoldInv'
 <2> DEFINE T == {}
 <2>1. Distinct(R.keyring) /\ \A v \in ks : Exists(R.keyring, v[1])
  BY <1>3, <1>4, <1>8 DEF Distinct, Rotating, Exists, HoldInv, KeysHaveScopes
 <2>2. /\ \A v \in ks : v \in keys \/ v[1] \in T
       /\ fieldKeys \subseteq fieldKeys \cup T /\ T \cap locked \subseteq {}
  BY <1>4
 <2> HIDE DEF T
 <2> QED BY <1>7, <2>1, <2>2, FinishHolds
<1> QED BY <1>5, <1>6, <1>9

--------------------------------------------------
(* Every step. *)

FullInv(L) == IInv(L) /\ HoldInv /\ Travels(keyring)

\* An operation that aborts nothing keeps the routes of passwords.
LEMMA OperationTravels ==
  ASSUME NEW L \in SUBSET Workspaces, IInv(L), HoldInv, Travels(keyring),
         Operation,
         \A s \in Scopes : ~ AbortRotation(s)
  PROVE  Travels(keyring')
<1>1. CASE \E s \in Scopes : OpenReveal(s) BY <1>1 DEF OpenReveal
<1>2. CASE \E s \in Scopes : ChangePassword(s) \/ RemovePassword(s)
 BY <1>2, PasswordChangesTravel
<1>3. CASE \E s \in Scopes : SetPassword(s) BY <1>3, SetPasswordTravels
<1>4. CASE \E s \in Scopes : CommitRotation(s) BY <1>4, CommitRotationTravels DEF HoldInv
<1>5. CASE \E s \in Scopes : EnablePresence(s) \/ DisablePresence(s) BY <1>5, PresenceTravels
<1>6. CASE \E s \in Scopes : DeleteScope(s) \/ \E p \in BOOLEAN : CreateScope(s, p)
 BY <1>6, ScopesTravel
<1> QED
 BY <1>1, <1>2, <1>3, <1>4, <1>5, <1>6, FirstRunTravels, UnlocksTravel
    DEF Operation

\* One step of the keystore in which only rotations of the scopes L are aborted.
LEMMA StepKept ==
  ASSUME NEW L \in SUBSET Workspaces, FullInv(L),
         \/ UNCHANGED vars
         \/ Next /\ \A s \in Scopes : AbortRotation(s) => s \in L
  PROVE  FullInv(L)' /\ (L = {} => [Promise!KeystoreNext]_(Promise!keystore))
<1>1. CASE Next /\ MayFinish /\ \E s \in Scopes : AbortRotation(s) /\ s \in L
 BY <1>1, AbortRotationKeeps DEF FullInv
<1>2. CASE MayFinish /\ Operation /\ ~ \E s \in Scopes : AbortRotation(s)
 BY <1>2, OperationKeeps, OperationKept, OperationTravels DEF FullInv
<1>3. CASE UNCHANGED vars \/ (Next /\ ~ (MayFinish /\ Operation))
 <2>1. IInv(L)' /\ HoldInv' /\ (L = {} => [Promise!KeystoreNext]_(Promise!keystore))
  BY <1>3, MemoryStepsKeep, MemoryStepsKept DEF Next, FullInv
 <2>2. keyring' = keyring
  BY <1>3 DEF Next, BeginOp, EndWithError, DeleteRetired, OpenScopeFails, LockScope,
              RevealExpires, LockProtected, CloseReveal, Restart, vars
 <2> QED BY <2>1, <2>2 DEF FullInv
<1> QED BY <1>1, <1>2, <1>3

--------------------------------------------------
(* What the invariant says. *)

\* A sound keyring opens no version of a protected scope with the quiet key alone.
LEMMA SoundNeverQuiet ==
  ASSUME NEW L, IInv(L)
  PROVE  ProtectedNeverQuiet
<1> SUFFICES ASSUME NEW v \in OpensQuietly(keyring, {keyring.quiet})
             PROVE  ~ Protected(keyring, v[1])
 BY DEF ProtectedNeverQuiet
<1>1. /\ keyring \in Keyrings
      /\ \A u \in AllVersions(keyring) : u \in Slots /\ u[1] \in Scopes
      /\ \A u \in AllVersions(keyring) : RoutesSound(keyring, u)
 BY VersionsAreSlots DEF IInv, TypeOK, Sound
<1>2. \A u \in AllVersions(keyring) :
         Device(keyring.quiet) \in keyring.wraps[u] => ~ Protected(keyring, u[1])
 <2> SUFFICES ASSUME NEW u \in AllVersions(keyring),
                     Device(keyring.quiet) \in keyring.wraps[u]
              PROVE  ~ Protected(keyring, u[1])
  OBVIOUS
 <2>1. Device(keyring.quiet) \in Wraps BY <1>1 DEF Keyrings
 <2>2. keyring.quiet \in DeviceIds
  BY <2>1 DEF Wraps, Device, Password, Presence, Parent, Recovery
 <2> QED BY <1>1, <2>2, KeyringConstants DEF RoutesSound
<1>3. CASE v \in AllVersions(keyring) /\ Device(keyring.quiet) \in keyring.wraps[v]
 BY <1>2, <1>3
<1>4. CASE /\ v \in AllVersions(keyring)
           /\ \E a \in AllVersions(keyring) :
                 /\ Device(keyring.quiet) \in keyring.wraps[a]
                 /\ a[1] = App /\ Parent(a[2]) \in keyring.wraps[v]
 <2>1. PICK a \in AllVersions(keyring) :
           /\ Device(keyring.quiet) \in keyring.wraps[a]
           /\ a[1] = App /\ Parent(a[2]) \in keyring.wraps[v]
  BY <1>4
 <2>2. a[2] \in Serials BY <1>1 DEF Slots
 <2>3. keyring.own[Governing(keyring, App)] BY <1>1, <1>4, <2>1, <2>2 DEF RoutesSound
 <2>4. ~ Protected(keyring, App) BY <1>2, <2>1
 <2> QED BY <2>3, <2>4 DEF Protected
<1> QED BY <1>3, <1>4 DEF OpensQuietly

\* The properties it implies.
LEMMA FullInvImplies ==
  ASSUME NEW L, FullInv(L)
  PROVE  /\ TypeOK /\ ProtectedNeverQuiet /\ ParentsNeedMaster /\ LockHolds /\ PasswordTravels
         /\ L = {} => FlagMatchesRoute
<1>1. IInv(L) /\ HoldInv /\ Travels(keyring) BY DEF FullInv
<1>2. TypeOK /\ ProtectedNeverQuiet /\ LockHolds BY <1>1, SoundNeverQuiet DEF IInv, HoldInv
<1>3. ParentsNeedMaster BY <1>1 DEF IInv, Sound, RoutesSound, ParentsNeedMaster
<1>4. PasswordTravels BY <1>1 DEF Travels, PasswordTravels
<1>5. L = {} => FlagMatchesRoute
 BY <1>1 DEF IInv, Sound, FlagsMatch, FlagMatches, FlagMatchesRoute
<1> QED BY <1>2, <1>3, <1>4, <1>5

\* The first state has it.
LEMMA FullInvInit ==
  ASSUME NEW L, Init
  PROVE  FullInv(L) /\ Promise!KeystoreInit
<1>1. Travels(keyring) BY DEF Init, Empty, Travels, AllVersions, Versions
<1> QED BY <1>1, InitEstablishes, InitKept DEF FullInv

--------------------------------------------------
(* The theorems.  The app's own rotation is never aborted: with that, the  *)
(* properties below do not hold, and no code of the application does it.   *)

\* The workspaces whose rotation may be aborted.
Loose == MayAbort \cap Workspaces

\* The invariant holds in every reachable state.
THEOREM KeystoreInvariant ==
  ASSUME App \notin MayAbort
  PROVE  Spec => []FullInv(Loose)
<1>1. Init => FullInv(Loose) BY FullInvInit
<1>2. FullInv(Loose) /\ [Next]_vars => FullInv(Loose)'
 <2>1. Loose \in SUBSET Workspaces BY DEF Loose
 <2>2. \A s \in Scopes : AbortRotation(s) => s \in Loose BY DEF AbortRotation, Loose, Scopes
 <2> QED BY <2>1, <2>2, StepKept
<1> QED BY <1>1, <1>2, PTL DEF Spec

\* Every variable keeps its type; in particular no route ever names a key that is none.
THEOREM KeystoreTypes ==
  ASSUME App \notin MayAbort
  PROVE  Spec => []TypeOK
<1>1. FullInv(Loose) => TypeOK BY FullInvImplies
<1> QED BY <1>1, KeystoreInvariant, PTL

\* No saved keyring lets the quiet device key open a version of a protected scope,
\* directly or through the app's key (store.rs, reconcile and is_quiet).
THEOREM KeystoreNeverQuiet ==
  ASSUME App \notin MayAbort
  PROVE  Spec => []ProtectedNeverQuiet
<1>1. FullInv(Loose) => ProtectedNeverQuiet BY FullInvImplies
<1> QED BY <1>1, KeystoreInvariant, PTL

\* No version of any workspace keeps a route through the app's key unless a master
\* password is set (store.rs, verdict and apply_policy).
THEOREM KeystoreParents ==
  ASSUME App \notin MayAbort
  PROVE  Spec => []ParentsNeedMaster
<1>1. FullInv(Loose) => ParentsNeedMaster BY FullInvImplies
<1> QED BY <1>1, KeystoreInvariant, PTL

\* Once a protected scope is locked, none of its keys is in memory until an operation
\* that began after the lock opens it (store.rs, finish and lock_protected).
THEOREM KeystoreLockHolds ==
  ASSUME App \notin MayAbort
  PROVE  Spec => []LockHolds
<1>1. FullInv(Loose) => LockHolds BY FullInvImplies
<1> QED BY <1>1, KeystoreInvariant, PTL

\* A version sealed with its own password opens with that password, and a route through
\* the app's key leads to a version of it that is sealed like that (store.rs, reconcile
\* and the password operations).
THEOREM KeystorePasswordTravels ==
  ASSUME App \notin MayAbort
  PROVE  Spec => []PasswordTravels
<1>1. FullInv(Loose) => PasswordTravels BY FullInvImplies
<1> QED BY <1>1, KeystoreInvariant, PTL

--------------------------------------------------
(* The stories of the model-checked instance: those without aborted        *)
(* rotations, and the one with aborts of a workspace's rotation.           *)

\* A story is a behaviour of the keystore: what is proved of Spec holds of StorySpec.
THEOREM StoriesAreBehaviours == StorySpec => Spec
<1>1. StoryInit => Init BY DEF StoryInit
<1>2. [StoryNext]_storyVars => [Next]_vars BY DEF StoryNext, storyVars
<1> QED BY <1>1, <1>2, PTL DEF StorySpec, Spec

\* A story without aborts has the invariant with all flags matching.
LEMMA StoryInvariant ==
  /\ StorySpec => [](story # "abort" => FullInv({}))
  /\ StorySpec => ImplementsRotation
<1> DEFINE J == story # "abort" => FullInv({})
<1>1. StoryInit => J /\ Promise!KeystoreInit BY FullInvInit DEF StoryInit
<1>2. J /\ [StoryNext]_storyVars
         => J' /\ [story # "abort" => Promise!KeystoreNext]_(Promise!keystore)
 <2> SUFFICES ASSUME J, [StoryNext]_storyVars
              PROVE  /\ J'
                     /\ [story # "abort" => Promise!KeystoreNext]_(Promise!keystore)
  OBVIOUS
 <2>1. story' = story /\ [Next]_vars BY DEF StoryNext, storyVars
 <2>2. CASE story = "abort" BY <2>1, <2>2
 <2>3. CASE story # "abort" /\ StoryNext
  <3>1. \A s \in MayAbort : ~ AbortRotation(s) BY <2>3 DEF StoryNext, Aborts
  <3>2. \A s \in Scopes : AbortRotation(s) => s \in {} BY <3>1 DEF AbortRotation
  <3>3. {} \in SUBSET Workspaces OBVIOUS
  <3>4. FullInv({}) BY <2>3
  <3>5. FullInv({})' /\ [Promise!KeystoreNext]_(Promise!keystore)
   BY <2>3, <3>2, <3>3, <3>4, StepKept DEF StoryNext
  <3> QED BY <2>1, <3>5
 <2>4. CASE story # "abort" /\ UNCHANGED storyVars
  <3>1. UNCHANGED vars BY <2>4 DEF storyVars
  <3>2. FullInv({})' /\ [Promise!KeystoreNext]_(Promise!keystore) BY <2>4, <3>1, StepKept
  <3> QED BY <2>1, <3>2
 <2> QED BY <2>2, <2>3, <2>4
<1> QED BY <1>1, <1>2, PTL DEF StorySpec, ImplementsRotation

\* Where no rotation is aborted, the sealed flag of the version that governs a scope
\* and its password route agree, so that a locked scope is treated like an unlocked one
\* (store.rs, Policy::build and reconcile).
THEOREM KeystoreFlags == StorySpec => []FlagsAgree
<1>1. (story # "abort" => FullInv({})) => FlagsAgree BY FullInvImplies DEF FlagsAgree
<1> QED BY <1>1, StoryInvariant, PTL

\* Where no rotation is aborted, every step of the keystore is one of module Rotation or
\* leaves what the store sees of it alone: versions are staged, committed, opened and
\* forgotten whole, and a lock closes exactly what is protected.
THEOREM KeystoreImplementsRotation == StorySpec => ImplementsRotation
BY StoryInvariant

\* Without any aborts, whatever the application calls: the same of Spec, where codes,
\* moves and device keys combine freely.
THEOREM KeystoreKeepsPromise ==
  ASSUME MayAbort = {}
  PROVE  Spec => []FlagMatchesRoute /\ Promise!KeystorePromise
<1>1. Init => FullInv({}) /\ Promise!KeystoreInit BY FullInvInit
<1>2. FullInv({}) /\ [Next]_vars
         => FullInv({})' /\ [Promise!KeystoreNext]_(Promise!keystore)
 <2>1. {} \in SUBSET Workspaces OBVIOUS
 <2>2. \A s \in Scopes : AbortRotation(s) => s \in {} BY DEF AbortRotation
 <2> QED BY <2>1, <2>2, StepKept
<1>3. FullInv({}) => FlagMatchesRoute BY FullInvImplies
<1> QED BY <1>1, <1>2, <1>3, PTL DEF Spec, Promise!KeystorePromise

--------------------------------------------------
(***************************************************************************)
(* No lockout.  On the machine the keys were made on, whoever has the      *)
(* passwords opens every version.  Two things make it so: a pass obtains   *)
(* what it needs without a prompt where the quiet key is there, so that it *)
(* leaves no version with less than the policy wants; and a rotation gives *)
(* the version that goes the password of the one that comes.               *)
(***************************************************************************)

\* What the user opens version v by, with the passwords and this machine.
Usable(kr, v) ==
    \/ Password \in kr.wraps[v]
    \/ HasQuiet(kr, v)
    \/ /\ v[1] # App
       /\ \E a \in Versions(kr, App) : kr.own[a] /\ Parent(a[2]) \in kr.wraps[v]

\* A rotation under way: the password of the staged version opens the current one too, a
\* staged version has a password route only if it is sealed so, and one of the two versions
\* of the app is sealed with the master password.
Rotations(kr) == \A s \in Scopes : Rotating(kr, s) =>
    /\ kr.own[Staged(kr, s)] => Password \in kr.wraps[Current(kr, s)]
    /\ Password \in kr.wraps[Staged(kr, s)] => kr.own[Staged(kr, s)]
    /\ s = App => (kr.own[Staged(kr, s)] <=> ~ kr.own[Current(kr, s)])

\* Password routes without a meaning are only left by an abort, and then no code is made.
Meant(kr, L) == \A v \in AllVersions(kr) :
    Password \in kr.wraps[v] => kr.own[v] \/ kr.own[Governing(kr, v[1])] \/ v[1] \in L
NoCodes(kr) ==
    /\ kr.recovery = NoRecovery
    /\ \A v \in AllVersions(kr) : \A r \in RecoveryIds : Recovery(r) \notin kr.wraps[v]
Leftovers(kr, L) == Meant(kr, L) /\ (L # {} => NoCodes(kr))

\* A keyring as an operation hands it to a pass: a version is usable, or new and its key known;
\* the app version that a workspace opens through governs, or its key is known; a quiet route
\* of a workspace is from a time without a master password.
Ready(kr, known, ids) == \A v \in AllVersions(kr) :
    /\ \/ Usable(kr, v)
       \/ /\ v = Governing(kr, v[1]) /\ v \in known /\ v[1] \in ids
          /\ ~ kr.own[v] /\ kr.wraps[v] = {}
    /\ v[1] # App =>
          /\ \A a \in Versions(kr, App) : kr.own[a] /\ Parent(a[2]) \in kr.wraps[v]
                => a = Governing(kr, App) \/ a \in known
          /\ HasQuiet(kr, v) => (kr.own[Governing(kr, App)] => Governing(kr, App) \in known)
          /\ HasQuiet(kr, v) => \A u \in AllVersions(kr) : \A n \in Serials :
                u[1] = v[1] => Parent(n) \notin kr.wraps[u]

\* What is obtained without a prompt where the quiet key is on the machine.
Obtainable(kr, known, v) ==
    \/ HasQuiet(kr, v)
    \/ \E a \in Versions(kr, App) \cap known : kr.own[a] /\ Parent(a[2]) \in kr.wraps[v]

\* Result R of such a pass: first the app's keys are obtained, then those of the versions that
\* need work, and the policy is applied; a quiet key is only made where there was none.
Passes(R, kr, devs, known, ids, k1, k2, d) ==
    /\ known \subseteq k1 /\ k1 \subseteq k2
    /\ \A v \in Versions(kr, App) : HasQuiet(kr, v) => v \in k1
    /\ \A v \in LiveIn(kr, ids) :
          Obtainable(kr, known, v) /\ v \notin k2 => ~ NeedsWork(kr, Policy(kr, k1), k1, v)
    /\ R.keyring = ApplyPolicy([kr EXCEPT !.quiet = d], Policy(kr, k2), k2, ids)
    /\ d = kr.quiet \/ (kr.quiet = None /\ d \in DeviceIds /\ d \notin devs /\ d \notin DeviceKeys(kr))
    /\ ids \cap Policy(kr, k2).open # {} => d # None
    /\ R.lost = FALSE
    /\ \A v \in LiveIn(kr, ids) : R.keyring.wraps[v] # {}

\* A pass where the quiet key, if there is one, is on this machine is one of these.
LEMMA ReconcilePasses ==
  ASSUME NEW kr \in Keyrings, NEW devs, kr.quiet # None => kr.quiet \in devs,
         NEW known \in SUBSET Slots, NEW ids \in SUBSET Scopes,
         Reconcile(kr, devs, known, ids, FALSE).ok
  PROVE  \E k1 \in SUBSET Slots, k2 \in SUBSET Slots, d \in DeviceIds \cup {None} :
            Passes(Reconcile(kr, devs, known, ids, FALSE), kr, devs, known, ids, k1, k2, d)
<1> DEFINE R == Reconcile(kr, devs, known, ids, FALSE)
           k1 == WithAppKeys(kr, devs, known, FALSE)
           work == WorkVersions(kr, k1, ids)
           k2 == k1 \cup {v \in work : Obtains(kr, devs, k1, FALSE, v)}
           l == FindsLost(kr, devs, k1, FALSE, Versions(kr, App) \cup work)
           pol == Policy(kr, k2)
           adds == \E v \in LiveIn(kr, ids) : QuietAllowed(kr, pol, v) /\ ~ HasQuiet(kr, v)
           repl == /\ ids \cap pol.open # {}
                   /\ kr.quiet = None \/ l \/ (adds /\ kr.quiet \notin devs)
           new == UnusedDevices(kr, devs)
           q == IF repl THEN [kr EXCEPT !.quiet = Fresh(new)] ELSE kr
<1>1. /\ R.keyring = ApplyPolicy(q, pol, k2, ids)
      /\ R.lost = (l /\ ~ repl)
      /\ repl => new # {}
      /\ \A v \in LiveIn(q, ids) : R.keyring.wraps[v] # {}
 BY DEF Reconcile, Obtaining, Outcome
<1>2. ~ l BY DEF FindsLost, AsksDevice, HasQuiet
<1>3. repl => kr.quiet = None BY <1>2
<1>4. k1 \in SUBSET Slots /\ k2 \in SUBSET Slots
 <2>1. k1 \subseteq Slots BY VersionsAreSlots DEF WithAppKeys, Scopes
 <2>2. work \subseteq Slots BY VersionsAreSlots DEF WorkVersions, LiveIn
 <2> QED BY <2>1, <2>2
<1>5. LiveIn(q, ids) = LiveIn(kr, ids) BY DEF LiveIn, Versions, Keyrings
<1>6. known \subseteq k1 /\ k1 \subseteq k2 BY DEF WithAppKeys
<1>7. \A v \in Versions(kr, App) : HasQuiet(kr, v) => v \in k1
 BY DEF WithAppKeys, Obtains, HasQuiet
<1>8. ASSUME NEW v \in LiveIn(kr, ids), Obtainable(kr, known, v), v \notin k2
      PROVE  ~ NeedsWork(kr, Policy(kr, k1), k1, v)
 <2>1. Obtains(kr, devs, k1, FALSE, v)
  BY <1>6, <1>8 DEF Obtainable, Obtains, ThroughMemory, HasQuiet
 <2>2. v \notin work BY <1>8, <2>1
 <2>3. v \notin k1 BY <1>6, <1>8
 <2> HIDE DEF k1, k2
 <2> QED BY <1>8, <2>2, <2>3 DEF WorkVersions
<1>9. PICK d \in DeviceIds \cup {None} :
         /\ q = [kr EXCEPT !.quiet = d]
         /\ d = kr.quiet \/ (kr.quiet = None /\ d \in DeviceIds /\ d \notin devs
                               /\ d \notin DeviceKeys(kr))
         /\ ids \cap pol.open # {} => d # None
 <2>1. CASE repl
  <3>1. Fresh(new) \in DeviceIds /\ Fresh(new) \in new BY <1>1, <2>1 DEF Fresh, UnusedDevices
  <3>2. Fresh(new) \notin devs /\ Fresh(new) \notin DeviceKeys(kr) BY <3>1 DEF UnusedDevices
  <3>3. q = [kr EXCEPT !.quiet = Fresh(new)] BY <2>1
  <3> QED BY <1>3, <2>1, <3>1, <3>2, <3>3, KeyringConstants
 <2>2. CASE ~ repl
  <3>1. q = [kr EXCEPT !.quiet = kr.quiet] /\ kr.quiet \in DeviceIds \cup {None}
   BY <2>2 DEF Keyrings
  <3>2. ids \cap pol.open # {} => kr.quiet # None BY <2>2
  <3> QED BY <3>1, <3>2
 <2> QED BY <2>1, <2>2
<1>10. R.lost = FALSE BY <1>1, <1>2
<1> HIDE DEF R, k1, work, l, adds, repl, new, q, k2
<1>11. Passes(R, kr, devs, known, ids, k1, k2, d)
 BY <1>1, <1>5, <1>6, <1>7, <1>8, <1>9, <1>10 DEF Passes
<1> QED BY <1>4, <1>11 DEF R

--------------------------------------------------
\* Such a pass leaves every version usable.
LEMMA PassOpens ==
  ASSUME NEW L \in SUBSET Workspaces,
         NEW kr \in Keyrings, Shape(kr), FlagsMatch(kr, L), Travels(kr),
         Rotations(kr), Leftovers(kr, L),
         NEW devs, NEW known \in SUBSET Slots, NEW ids \in SUBSET Scopes,
         Ready(kr, known, ids), NEW R,
         NEW k1 \in SUBSET Slots, NEW k2 \in SUBSET Slots, NEW d \in DeviceIds \cup {None},
         Passes(R, kr, devs, known, ids, k1, k2, d)
  PROVE  \A v \in AllVersions(R.keyring) : Usable(R.keyring, v)
<1> DEFINE q == [kr EXCEPT !.quiet = d]
           p1 == Policy(kr, k1)
           p2 == Policy(kr, k2)
           r == R.keyring
           app == Governing(kr, App)
           gov(v) == Governing(kr, v[1])
<1>1. /\ q.cur = kr.cur /\ q.staged = kr.staged /\ q.own = kr.own
      /\ q.wraps = kr.wraps /\ q.quiet = d /\ q.recovery = kr.recovery
 BY DEF Keyrings
<1>2. LiveIn(q, ids) = LiveIn(kr, ids) BY <1>1 DEF LiveIn, Versions
<1>3. /\ r.cur = kr.cur /\ r.staged = kr.staged /\ r.own = kr.own /\ r.quiet = d
      /\ r.wraps = [v \in Slots |-> IF v \in LiveIn(kr, ids) THEN Applied(q, p2, k2, v)
                                    ELSE kr.wraps[v]]
 <2>1. r = ApplyPolicy(q, p2, k2, ids) BY DEF Passes
 <2> HIDE DEF r, p2
 <2> QED BY <1>1, <1>2, <2>1 DEF ApplyPolicy, Keyrings
<1> HIDE DEF q, p1, p2, r
<1>4. /\ \A s \in Scopes : Versions(r, s) = Versions(kr, s) /\ Governing(q, s) = Governing(kr, s)
      /\ AllVersions(r) = AllVersions(kr)
      /\ \A s : Versions(q, s) = Versions(kr, s)
      /\ \A v : Versions(r, App) = Versions(kr, App)
 BY <1>1, <1>3 DEF AllVersions, Versions, Governing, Rotating, Staged, Current
<1>5. \A v \in AllVersions(kr) :
         /\ v \in Slots /\ v[1] \in Scopes /\ Exists(kr, v[1])
         /\ gov(v) \in Slots /\ gov(v) \in AllVersions(kr) /\ gov(v)[1] = v[1]
         /\ v \in LiveIn(kr, ids) <=> v[1] \in ids
 <2>1. ASSUME NEW v \in AllVersions(kr)
       PROVE  v \in Slots /\ v[1] \in Scopes /\ Exists(kr, v[1])
  BY VersionsAreSlots DEF Shape, Versions, Exists, Rotating
 <2>2. \A v \in AllVersions(kr) : v \in LiveIn(kr, ids) <=> v[1] \in ids
  BY DEF AllVersions, LiveIn, Versions
 <2> QED BY <2>1, <2>2, GoverningIsVersion
<1>6. ASSUME NEW v \in AllVersions(kr)
      PROVE  /\ App \in Scopes /\ Exists(kr, App) /\ App \notin L
             /\ app \in AllVersions(kr) /\ app \in Versions(kr, App) /\ app \in Slots /\ app[1] = App
             /\ p1.own[App] = kr.own[app] /\ p2.own[App] = kr.own[app]
 <2>1. App \in Scopes /\ Exists(kr, App) /\ App \notin L
  BY <1>5, KeyringConstants DEF Shape, Scopes
 <2> QED BY <2>1, GoverningIsVersion, PolicyIsTrue DEF p1, p2
<1>7. ASSUME NEW v \in AllVersions(kr)
      PROVE  /\ kr.own[gov(v)] => p2.own[v[1]]
             /\ p2.own[v[1]] => p1.own[v[1]]
             /\ gov(v) \in k2 => p2.own[v[1]] = kr.own[gov(v)]
 <2>1. FlagMatches(kr, v[1], L) /\ kr.own[gov(v)] \in BOOLEAN BY <1>5 DEF FlagsMatch, Keyrings
 <2>2. \A k : Policy(kr, k).own[v[1]] =
          IF gov(v) \in k THEN kr.own[gov(v)] ELSE Password \in kr.wraps[gov(v)]
  BY <1>5 DEF Policy
 <2>3. k1 \subseteq k2 BY DEF Passes
 <2> QED BY <2>1, <2>2, <2>3 DEF FlagMatches, p1, p2
<1>8. /\ known \subseteq k2 /\ k1 \subseteq k2
      /\ \A v \in LiveIn(kr, ids) : r.wraps[v] # {}
      /\ d = kr.quiet \/ kr.quiet = None
      /\ ids \cap p2.open # {} => d # None
 BY DEF Passes, r, p2
<1>9. ASSUME NEW v \in AllVersions(kr), v[1] \in ids, NEW w \in kr.wraps[v],
             ~ Forbidden(q, p2, k2, v, w), ~ Stale(q, k2, v, w)
      PROVE  w \in r.wraps[v]
 <2>1. w \in Kept(q, p2, k2, v) BY <1>1, <1>9 DEF Kept, Allowed
 <2> QED BY <1>3, <1>5, <1>9, <2>1 DEF Applied
<1>10. ASSUME NEW v \in AllVersions(kr), v[1] \in ids, Password \in kr.wraps[v],
              ~ ({v, gov(v)} \subseteq k2 /\ ~ kr.own[v] /\ ~ kr.own[gov(v)])
       PROVE  Usable(r, v)
 <2>1. ~ Forbidden(q, p2, k2, v, Password) BY DEF Forbidden, Password
 <2>2. ~ Stale(q, k2, v, Password) BY <1>1, <1>4, <1>5, <1>10 DEF Stale, Password
 <2> QED BY <1>9, <1>10, <2>1, <2>2 DEF Usable
<1>11. ASSUME NEW v \in AllVersions(kr), v[1] \in ids, HasQuiet(kr, v),
              ~ IsProtected(p2, v[1])
       PROVE  Usable(r, v)
 <2>1. kr.quiet = d /\ d # None /\ Device(d) \in kr.wraps[v] BY <1>8, <1>11 DEF HasQuiet
 <2>2. ~ Forbidden(q, p2, k2, v, Device(d)) /\ ~ Stale(q, k2, v, Device(d))
  BY <1>1, <1>11 DEF Forbidden, Stale, Device
 <2>3. Device(d) \in r.wraps[v] BY <1>9, <1>11, <2>1, <2>2
 <2> QED BY <1>3, <2>1, <2>3 DEF Usable, HasQuiet
<1>12. ASSUME NEW v \in AllVersions(kr), v[1] \in ids, v[1] # App, kr.own[app],
              NEW a \in Versions(kr, App), kr.own[a], Parent(a[2]) \in kr.wraps[v]
       PROVE  Usable(r, v)
 <2>1. a = <<App, a[2]>> /\ <<App, a[2]>> \in Versions(q, App) BY <1>4 DEF Versions
 <2>2. ~ Forbidden(q, p2, k2, v, Parent(a[2]))
  BY <1>1, <1>6, <1>12, <2>1 DEF Forbidden, ForbiddenParent, Parent
 <2>3. ~ Stale(q, k2, v, Parent(a[2])) BY <2>1 DEF Stale, Parent
 <2>4. Parent(a[2]) \in r.wraps[v] BY <1>9, <1>12, <2>2, <2>3
 <2> QED BY <1>3, <1>4, <1>12, <2>4 DEF Usable
<1>13. ASSUME NEW v \in AllVersions(kr), v[1] \in ids, v \in k2
       PROVE  Wanted(q, p2, v) \subseteq r.wraps[v]
 BY <1>3, <1>5, <1>13 DEF Applied
<1>14. ASSUME NEW v \in AllVersions(kr), v[1] \in ids, v \in k2,
              v[1] \in p2.open, v[1] = App => v = app
       PROVE  Usable(r, v)
 <2>1. QuietAllowed(q, p2, v) BY <1>4, <1>6, <1>14 DEF QuietAllowed
 <2>2. Device(d) \in r.wraps[v] /\ d # None BY <1>1, <1>8, <1>13, <1>14, <2>1 DEF Wanted
 <2> QED BY <1>3, <2>2 DEF Usable, HasQuiet
<1>15. ASSUME NEW v \in AllVersions(kr), v[1] \in ids, v \in k2, v[1] # App,
              app \in k2, kr.own[app]
       PROVE  Usable(r, v)
 <2>1. app[2] \in p2.parents BY <1>6, <1>15 DEF Policy, p2
 <2>2. Parent(app[2]) \in r.wraps[v] BY <1>13, <1>15, <2>1 DEF Wanted
 <2> QED BY <1>3, <1>4, <1>6, <1>15, <2>2 DEF Usable
<1>16. ASSUME NEW v \in AllVersions(kr), ~ kr.own[app]
       PROVE  app \in k2 /\ ~ p2.own[App] /\ ~ p1.own[App]
 <2>1. app \in AllVersions(kr) /\ app[1] = App /\ app \in Versions(kr, App) BY <1>6
 <2>2. Usable(kr, app) \/ app \in known BY <2>1 DEF Ready
 <2>3. Password \notin kr.wraps[app] BY <1>6, <1>16 DEF FlagsMatch, FlagMatches
 <2>4. HasQuiet(kr, app) \/ app \in known BY <2>1, <2>2, <2>3 DEF Usable
 <2> QED BY <1>6, <1>8, <1>16, <2>1, <2>4 DEF Passes
<1>17. ASSUME NEW v \in AllVersions(kr), v[1] \in ids, v \notin k2, Obtainable(kr, known, v)
       PROVE  /\ HasQuiet(kr, v) => ~ IsProtected(p2, v[1])
              /\ v[1] # App => \A n : Parent(n) \in kr.wraps[v] => kr.own[app]
 <2>1. Kept(kr, p1, k1, v) = kr.wraps[v] BY <1>5, <1>17 DEF Passes, NeedsWork, p1
 <2>2. \A w \in kr.wraps[v] : ~ Forbidden(kr, p1, k1, v, w) BY <2>1 DEF Kept, Allowed
 <2>3. HasQuiet(kr, v) => ~ IsProtected(p1, v[1]) BY <2>2 DEF HasQuiet, Forbidden, Device
 <2>4. HasQuiet(kr, v) => ~ IsProtected(p2, v[1]) BY <1>6, <1>7, <2>3 DEF IsProtected
 <2>5. \A n : Parent(n) \in kr.wraps[v] => p1.own[App]
  BY <2>2 DEF Forbidden, ForbiddenParent, Parent
 <2> QED BY <1>6, <2>4, <2>5
<1>18. ASSUME NEW v \in AllVersions(kr), v[1] \notin ids
       PROVE  Usable(r, v)
 <2>1. r.wraps[v] = kr.wraps[v] /\ Usable(kr, v) BY <1>3, <1>5, <1>18 DEF Ready
 <2>2. HasQuiet(kr, v) => HasQuiet(r, v) BY <1>3, <1>8, <2>1 DEF HasQuiet
 <2> QED BY <1>3, <1>4, <2>1, <2>2 DEF Usable
<1>19. ASSUME NEW v \in AllVersions(kr), v[1] \in ids, v \notin k2
       PROVE  Usable(r, v)
 <2>1. Usable(kr, v) BY <1>8, <1>19 DEF Ready
 <2>2. CASE Password \in kr.wraps[v] BY <1>10, <1>19, <2>2
 <2>3. CASE HasQuiet(kr, v) BY <1>11, <1>17, <1>19, <2>3 DEF Obtainable
 <2>4. ASSUME v[1] # App,
              NEW a \in Versions(kr, App), kr.own[a], Parent(a[2]) \in kr.wraps[v]
       PROVE  Usable(r, v)
  <3>1. a = app \/ a \in known BY <2>4 DEF Ready
  <3>2. kr.own[app] BY <1>17, <1>19, <2>4, <3>1 DEF Obtainable
  <3> QED BY <1>12, <1>19, <2>4, <3>2
 <2> QED BY <2>1, <2>2, <2>3, <2>4 DEF Usable
<1>20. ASSUME NEW v \in AllVersions(kr), v # gov(v)
       PROVE  v = Current(kr, v[1]) /\ gov(v) = Staged(kr, v[1]) /\ Rotating(kr, v[1])
 <2>1. v \in Versions(kr, v[1]) BY VersionsAreSlots
 <2> QED BY <1>20, <2>1 DEF Versions, Governing, Rotating, Current, Staged
<1>21. ASSUME NEW v \in AllVersions(kr), v[1] \in ids, kr.own[v] \/ kr.own[gov(v)]
       PROVE  Usable(r, v)
 <2>1. Password \in kr.wraps[v] BY <1>5, <1>20, <1>21 DEF Travels, Rotations
 <2> QED BY <1>10, <1>21, <2>1
<1>22. ASSUME NEW v \in AllVersions(kr), v[1] \in ids, v \in k2, v[1] = App
       PROVE  Usable(r, v)
 <2>1. CASE kr.own[v] \/ kr.own[app] BY <1>21, <1>22, <2>1
 <2>2. CASE ~ (kr.own[v] \/ kr.own[app])
  <3>1. v = app BY <1>5, <1>20, <1>22, <2>2 DEF Rotations
  <3>2. App \in p2.open BY <1>6, <1>16, <1>22, <2>2 DEF p2, Policy
  <3> QED BY <1>14, <1>22, <3>1, <3>2
 <2> QED BY <2>1, <2>2
<1>23. ASSUME NEW v \in AllVersions(kr), v[1] \in ids, v \in k2, v[1] # App, kr.own[app]
       PROVE  Usable(r, v)
 <2>1. CASE kr.own[v] \/ kr.own[gov(v)] BY <1>21, <1>23, <2>1
 <2>2. CASE app \in k2 BY <1>15, <1>23, <2>2
 <2>3. CASE ~ kr.own[v] /\ ~ kr.own[gov(v)] /\ app \notin k2
  <3>1. p2.open = {} /\ p2.parents = {} /\ p2.covered = {} BY <2>3 DEF p2, Policy, Covered
  <3>2. Wanted(q, p2, v) = {} BY <1>23, <3>1 DEF Wanted, QuietAllowed
  <3>3. r.wraps[v] = Kept(q, p2, k2, v) BY <1>3, <1>5, <1>23, <3>2 DEF Applied
  <3>4. PICK w \in r.wraps[v] : TRUE BY <1>5, <1>8, <1>23
  <3>5. /\ w \in kr.wraps[v] /\ ~ Forbidden(q, p2, k2, v, w) /\ ~ Stale(q, k2, v, w)
        /\ w \in Wraps
   <4>1. w \in q.wraps[v] /\ ~ Forbidden(q, p2, k2, v, w) /\ ~ Stale(q, k2, v, w)
    BY <3>3, <3>4 DEF Kept, Allowed
   <4>2. kr.wraps[v] \in SUBSET Wraps BY <1>5 DEF Keyrings
   <4> QED BY <1>1, <4>1, <4>2
  <3>6. CASE w = Password BY <3>4, <3>6 DEF Usable
  <3>7. ASSUME NEW e \in DeviceIds, w = Device(e)
        PROVE  Usable(r, v)
   <4>1. e = d /\ e # None BY <1>1, <3>5, <3>7, KeyringConstants DEF Stale, Device
   <4> QED BY <1>3, <3>4, <3>7, <4>1 DEF Usable, HasQuiet
  <3>8. ASSUME NEW e \in DeviceIds, w = Presence(e)
        PROVE  FALSE
   <4>1. p2.own[v[1]] BY <1>1, <2>3, <3>5, <3>8 DEF Forbidden, Presence
   <4>2. gov(v) \notin k2 BY <1>7, <2>3, <4>1
   <4>3. v # gov(v) /\ ~ gov(v) \in k2 BY <1>23, <4>2
   <4>4. Password \in kr.wraps[gov(v)] BY <1>5, <4>1, <4>2 DEF p2, Policy
   <4> QED BY <1>5, <1>20, <2>3, <4>3, <4>4 DEF Rotations
  <3>9. ASSUME NEW n \in Serials, w = Parent(n)
        PROVE  Usable(r, v)
   <4>1. <<App, n>> \in Versions(kr, App) BY <1>4, <3>5, <3>9 DEF Stale, Parent
   <4>2. <<App, n>> \in AllVersions(kr) BY <1>6, <4>1 DEF AllVersions
   <4>3. kr.own[<<App, n>>] BY <3>5, <3>9, <4>2 DEF Travels
   <4> QED BY <1>3, <1>4, <1>23, <3>4, <3>9, <4>1, <4>3 DEF Usable
  <3>10. ASSUME NEW c \in RecoveryIds, w = Recovery(c)
         PROVE  Usable(r, v)
   <4>1. Meant(kr, {}) BY <1>23, <3>5, <3>10 DEF Leftovers, NoCodes
   <4>2. Password \notin kr.wraps[v] BY <2>3, <4>1 DEF Meant
   <4>3. ~ HasQuiet(kr, v) BY <1>8, <1>23, <2>3 DEF Ready
   <4>4. PICK a \in Versions(kr, App) : kr.own[a] /\ Parent(a[2]) \in kr.wraps[v]
    BY <3>5, <4>2, <4>3 DEF Ready, Usable
   <4> QED BY <1>12, <1>23, <4>4
  <3> QED BY <3>5, <3>6, <3>7, <3>8, <3>9, <3>10 DEF Wraps
 <2> QED BY <2>1, <2>2, <2>3
<1>24. ASSUME NEW v \in AllVersions(kr), v[1] \in ids, v \in k2, v[1] # App, ~ kr.own[app]
       PROVE  Usable(r, v)
 <2>1. app \in k2 /\ ~ p2.own[App] /\ Exists(kr, App) /\ App \in Scopes BY <1>6, <1>16, <1>24
 <2>2. CASE kr.own[gov(v)] \/ (Password \in kr.wraps[v] /\ gov(v) \notin k2)
  BY <1>10, <1>21, <1>24, <2>2
 <2>3. CASE ~ kr.own[gov(v)] /\ gov(v) \in k2
  <3>1. v[1] \in p2.open
   <4>1. ~ p2.own[v[1]] BY <1>7, <2>3
   <4> QED BY <1>5, <2>1, <2>3, <4>1 DEF p2, Policy
  <3> QED BY <1>14, <1>24, <3>1
 <2>4. CASE ~ kr.own[gov(v)] /\ Password \notin kr.wraps[v] /\ gov(v) \notin k2
  <3> DEFINE u == gov(v)
  <3>1. /\ u \in AllVersions(kr) /\ u[1] = v[1] /\ v # u
        /\ u = Staged(kr, v[1]) /\ Rotating(kr, v[1])
   BY <1>5, <1>20, <1>24, <2>4
  <3>2. Password \notin kr.wraps[u] BY <1>5, <2>4, <3>1 DEF Rotations
  <3>3. Usable(kr, u) BY <1>8, <2>4, <3>1 DEF Ready
  <3>4. Usable(kr, v) BY <3>1 DEF Ready
  <3> HIDE DEF u
  <3>5. ASSUME NEW a \in Versions(kr, App), kr.own[a], Parent(a[2]) \in kr.wraps[u]
        PROVE  FALSE
   <4>1. a \in known BY <1>24, <3>1, <3>5 DEF Ready
   <4>2. Obtainable(kr, known, u) /\ u \notin k2 BY <2>4, <3>5, <4>1 DEF Obtainable, u
   <4> QED BY <1>17, <1>24, <3>1, <3>5, <4>2
  <3>6. HasQuiet(kr, u) BY <3>2, <3>3, <3>5 DEF Usable
  <3>7. ~ IsProtected(p2, v[1]) BY <1>17, <1>24, <2>4, <3>1, <3>6 DEF Obtainable, u
  <3>8. ASSUME NEW a \in Versions(kr, App), Parent(a[2]) \in kr.wraps[v]
        PROVE  FALSE
   <4>1. a[2] \in Serials BY <3>8, VersionsAreSlots DEF Scopes, Slots
   <4> QED BY <1>24, <3>1, <3>6, <3>8, <4>1 DEF Ready
  <3>9. HasQuiet(kr, v) BY <2>4, <3>4, <3>8 DEF Usable
  <3> QED BY <1>11, <1>24, <3>7, <3>9
 <2> QED BY <2>2, <2>3, <2>4
<1> QED BY <1>4, <1>18, <1>19, <1>22, <1>23, <1>24 DEF r

\* The device routes of r are those of kr, and of a new quiet key.
DeviceRoutes(r, kr) ==
    \A v \in Slots : \A e \in DeviceIds :
        /\ Device(e) \in r.wraps[v] => Device(e) \in kr.wraps[v] \/ e = r.quiet
        /\ Presence(e) \in r.wraps[v] => Presence(e) \in kr.wraps[v]

\* What such a pass leaves and adds on a version, other than the routes through the app's key.
LEMMA PassRoutes ==
  ASSUME NEW L \in SUBSET Workspaces, NEW kr \in Keyrings, Shape(kr), Rotations(kr), Leftovers(kr, L),
         NEW devs, NEW known, NEW ids \in SUBSET Scopes, NEW R,
         NEW k1, NEW k, NEW d \in DeviceIds \cup {None},
         Passes(R, kr, devs, known, ids, k1, k, d)
  PROVE  /\ Rotations(R.keyring) /\ Leftovers(R.keyring, L) /\ R.keyring.quiet = d
         /\ DeviceRoutes(R.keyring, kr)
<1> DEFINE q == [kr EXCEPT !.quiet = d]
           pol == Policy(kr, k)
           r == R.keyring
<1>1. /\ q.cur = kr.cur /\ q.staged = kr.staged /\ q.own = kr.own
      /\ q.wraps = kr.wraps /\ q.quiet = d /\ q.recovery = kr.recovery
 BY DEF Keyrings
<1>2. /\ r.cur = kr.cur /\ r.staged = kr.staged /\ r.own = kr.own /\ r.quiet = d
      /\ r.recovery = kr.recovery
      /\ r.wraps = [v \in Slots |-> IF v \in LiveIn(q, ids) THEN Applied(q, pol, k, v)
                                    ELSE kr.wraps[v]]
 <2>1. r = ApplyPolicy(q, pol, k, ids) BY DEF Passes
 <2> HIDE DEF pol, r
 <2> QED BY <1>1, <2>1 DEF ApplyPolicy, Keyrings
<1>3. pol.covered \subseteq Scopes /\ (kr.recovery = NoRecovery => pol.covered = {})
 BY DEF Policy, Covered
<1> HIDE DEF q, pol, r
<1>4. /\ \A s \in Scopes :
            /\ Rotating(r, s) <=> Rotating(kr, s)
            /\ Staged(r, s) = Staged(kr, s) /\ Current(r, s) = Current(kr, s)
            /\ Governing(r, s) = Governing(kr, s)
            /\ Governing(q, s) = Governing(kr, s)
      /\ AllVersions(r) = AllVersions(kr)
 BY <1>1, <1>2 DEF AllVersions, Versions, Governing, Rotating, Staged, Current
<1>5. ASSUME NEW v \in Slots, NEW w \in r.wraps[v]
      PROVE  w \in kr.wraps[v] \/ w \in Wanted(q, pol, v)
 BY <1>1, <1>2, <1>5 DEF Applied, Kept, Allowed
<1>6. \A v \in Slots : Password \in r.wraps[v] => Password \in kr.wraps[v] BY <1>5, WantedRoutes
<1>7. ASSUME NEW s \in Scopes, Rotating(kr, s), kr.own[Staged(kr, s)]
      PROVE  Password \in r.wraps[Current(kr, s)]
 <2> DEFINE v == Current(kr, s)
 <2>1. Password \in kr.wraps[v] /\ v[1] = s BY <1>7 DEF Rotations, Current
 <2>2. Governing(q, s) = Staged(kr, s) BY <1>4, <1>7 DEF Governing
 <2> HIDE DEF v
 <2>3. ~ Forbidden(q, pol, k, v, Password) /\ ~ Stale(q, k, v, Password)
  BY <1>1, <1>7, <2>1, <2>2 DEF Forbidden, Stale, Password
 <2>4. Password \in Applied(q, pol, k, v) BY <1>1, <2>1, <2>3 DEF Applied, Kept, Allowed
 <2>5. v \in Slots BY <1>7, <2>1 DEF Shape, Exists, v, Current, Slots, Keyrings
 <2>6. r.wraps[v] = IF v \in LiveIn(q, ids) THEN Applied(q, pol, k, v) ELSE kr.wraps[v]
  BY <1>2, <2>5
 <2> QED BY <2>1, <2>4, <2>6 DEF v
<1>8. Rotations(r)
 <2> SUFFICES ASSUME NEW s \in Scopes, Rotating(r, s)
              PROVE  /\ r.own[Staged(r, s)] => Password \in r.wraps[Current(r, s)]
                     /\ Password \in r.wraps[Staged(r, s)] => r.own[Staged(r, s)]
                     /\ s = App => (r.own[Staged(r, s)] <=> ~ r.own[Current(r, s)])
  BY DEF Rotations
 <2>1. Rotating(kr, s) /\ Staged(r, s) = Staged(kr, s) /\ Current(r, s) = Current(kr, s) BY <1>4
 <2>2. Staged(kr, s) \in Slots BY <2>1 DEF Rotating, Staged, Slots, Keyrings
 <2> QED BY <1>2, <1>6, <1>7, <2>1, <2>2 DEF Rotations
<1>9. Leftovers(r, L)
 <2>1. AllVersions(kr) \subseteq Slots BY VersionsAreSlots
 <2>2. \A v \in AllVersions(r) :
          /\ v \in AllVersions(kr) /\ v[1] \in Scopes
          /\ Password \in r.wraps[v] => Password \in kr.wraps[v]
  BY <1>4, <1>6, <2>1, VersionsAreSlots
 <2>3. ASSUME NEW v \in AllVersions(r), Password \in r.wraps[v]
       PROVE  r.own[v] \/ r.own[Governing(r, v[1])] \/ v[1] \in L
  <3>1. v \in AllVersions(kr) /\ v[1] \in Scopes /\ Password \in kr.wraps[v] BY <2>2, <2>3
  <3>2. Governing(r, v[1]) = Governing(kr, v[1]) BY <1>4, <3>1
  <3> QED BY <1>2, <3>1, <3>2 DEF Leftovers, Meant
 <2>4. ASSUME L # {}
       PROVE  NoCodes(r)
  <3>1. NoCodes(kr) BY <2>4 DEF Leftovers
  <3>2. ASSUME NEW v \in AllVersions(kr), NEW c \in RecoveryIds, Recovery(c) \in r.wraps[v]
        PROVE  FALSE
   <4>1. Recovery(c) \in Wanted(q, pol, v) BY <1>5, <2>1, <3>1, <3>2 DEF NoCodes
   <4> QED BY <1>3, <3>1, <4>1 DEF NoCodes, Wanted, Recovery, Device, Parent
  <3> QED BY <1>2, <1>4, <3>1, <3>2 DEF NoCodes
 <2> QED BY <2>3, <2>4 DEF Leftovers, Meant
<1>10. ASSUME NEW v \in Slots, NEW e \in DeviceIds
       PROVE  /\ Device(e) \in r.wraps[v] => Device(e) \in kr.wraps[v] \/ e = d
              /\ Presence(e) \in r.wraps[v] => Presence(e) \in kr.wraps[v]
 <2>1. Presence(e) \notin Wanted(q, pol, v) BY DEF Wanted, Presence, Device, Parent, Recovery
 <2>2. Device(e) \in Wanted(q, pol, v) => e = d BY <1>1 DEF Wanted, Device, Parent, Recovery
 <2> QED BY <1>5, <2>1, <2>2
<1> QED BY <1>2, <1>8, <1>9, <1>10 DEF DeviceRoutes, r

--------------------------------------------------
\* The device keys the keyring names are on this machine, and those of Touch ID routes are
\* not used otherwise; what is about to be deleted is not named any more.
KeysHere ==
    /\ ~ lost
    /\ DeviceKeys(keyring) \subseteq devices
    /\ \A e \in PresenceKeys(keyring) :
          e # keyring.quiet /\ \A v \in Slots : Device(e) \notin keyring.wraps[v]
    /\ snap.phase = "retiring" => snap.retired \cap DeviceKeys(keyring) = {}

\* What holds on the machine the keys were made on.
Home(L) ==
    /\ KeysHere
    /\ Rotations(keyring) /\ Leftovers(keyring, L)
    /\ \A v \in AllVersions(keyring) : Usable(keyring, v)

\* A keyring an operation made of the saved one.
Prepared(L, kr, known, ids) ==
    /\ kr \in Keyrings /\ Shape(kr) /\ FlagsMatch(kr, L) /\ Travels(kr)
    /\ Rotations(kr) /\ Leftovers(kr, L) /\ Ready(kr, known, ids)
    /\ kr.quiet = keyring.quiet
    /\ \A v \in Slots : kr.wraps[v] \subseteq keyring.wraps[v] \cup {Password}

\* Saving a keyring with routes of known device keys and of new ones.
LEMMA FinishKeysHere ==
  ASSUME TypeOK, KeysHere, NEW kr \in Keyrings,
         \/ kr.quiet = keyring.quiet
         \/ keyring.quiet = None /\ kr.quiet \notin devices,
         \A v \in Slots : \A e \in DeviceIds :
            /\ Device(e) \in kr.wraps[v] => Device(e) \in keyring.wraps[v] \/ e = kr.quiet
            /\ Presence(e) \in kr.wraps[v] =>
                  \/ Presence(e) \in keyring.wraps[v]
                  \/ e \notin devices /\ kr.quiet = keyring.quiet,
         NEW ks, NEW fs, NEW rv, NEW U, Finish(kr, ks, fs, rv, FALSE, U)
  PROVE  KeysHere' /\ keyring' = kr
<1>1. /\ keyring' = kr /\ lost' = FALSE
      /\ devices' = devices \cup (DeviceKeys(kr) \ DeviceKeys(keyring))
      /\ LET gone == Retired(keyring, kr) IN
         snap' = IF gone = {} THEN Idle ELSE Retiring(gone)
 BY DEF Finish
<1>2. /\ \A e \in PresenceKeys(kr) : e \in DeviceIds /\ \E v \in Slots : Presence(e) \in kr.wraps[v]
      /\ \A e \in DeviceIds : \A v \in Slots :
            Presence(e) \in keyring.wraps[v] => e \in PresenceKeys(keyring)
      /\ \A e \in DeviceIds : \A v \in Slots :
            Device(e) \in keyring.wraps[v] => e \in DeviceKeys(keyring)
      /\ PresenceKeys(keyring) \subseteq DeviceKeys(keyring)
      /\ keyring.quiet \in DeviceIds => keyring.quiet \in DeviceKeys(keyring)
      /\ kr.quiet \in DeviceIds \cup {None}
 BY DEF PresenceKeys, DeviceKeys, Keyrings
<1>3. DeviceKeys(keyring) \subseteq devices BY DEF KeysHere
<1>4. DeviceKeys(kr) \subseteq devices' BY <1>1, <1>3
<1>5. ASSUME NEW e \in PresenceKeys(kr)
      PROVE  e \in PresenceKeys(keyring) \/ (e \notin devices /\ kr.quiet = keyring.quiet)
 BY <1>2, <1>5
<1>6. ASSUME NEW e \in PresenceKeys(kr)
      PROVE  e # kr.quiet /\ \A v \in Slots : Device(e) \notin kr.wraps[v]
 <2>1. CASE e \in PresenceKeys(keyring)
  <3>1. e # kr.quiet BY <1>2, <1>3, <2>1 DEF KeysHere
  <3> QED BY <1>2, <1>6, <2>1, <3>1 DEF KeysHere
 <2>2. CASE e \notin devices /\ kr.quiet = keyring.quiet
  <3>1. e # kr.quiet BY <1>2, <1>3, <1>6, <2>2
  <3> QED BY <1>2, <1>3, <1>6, <2>2, <3>1
 <2> QED BY <1>5, <2>1, <2>2
<1>7. Retired(keyring, kr) \cap DeviceKeys(kr) = {}
 <2> SUFFICES ASSUME NEW e \in Retired(keyring, kr), e \in DeviceKeys(kr)
              PROVE  FALSE
  OBVIOUS
 <2>1. e \notin PresenceKeys(kr) => e = kr.quiet \/ \E v \in Slots : Device(e) \in kr.wraps[v]
  BY DEF DeviceKeys
 <2>2. e \in DeviceIds BY DEF DeviceKeys, PresenceKeys
 <2>3. e \in PresenceKeys(keyring) /\ e \notin PresenceKeys(kr)
  BY <1>2, KeyringConstants DEF Retired
 <2>4. e # kr.quiet BY <1>2, <1>3, <2>3 DEF KeysHere
 <2> QED BY <2>1, <2>2, <2>3, <2>4 DEF KeysHere
<1>8. snap'.phase = "retiring" => snap'.retired = Retired(keyring, kr)
 BY <1>1 DEF Idle, Retiring
<1> QED BY <1>1, <1>4, <1>6, <1>7, <1>8 DEF KeysHere

\* At home no pass finds the quiet key lost.
LEMMA NothingLost ==
  ASSUME KeysHere, keyring \in Keyrings, NEW kr, kr.quiet = keyring.quiet,
         NEW k, NEW V
  PROVE  /\ lost = FALSE
         /\ kr.quiet # None => kr.quiet \in devices
         /\ FindsLost(kr, devices, k, lost, V) = FALSE
<1>1. keyring.quiet # None => keyring.quiet \in devices BY DEF KeysHere, DeviceKeys, Keyrings
<1>2. FindsLost(kr, devices, k, lost, V) = FALSE
 BY <1>1 DEF FindsLost, AsksDevice, HasQuiet, KeysHere
<1> QED BY <1>1, <1>2 DEF KeysHere

\* Nor does it say so if it fails.
LEMMA PassNotLost ==
  ASSUME NEW kr, NEW devs, kr.quiet # None => kr.quiet \in devs, NEW known, NEW ids
  PROVE  Reconcile(kr, devs, known, ids, FALSE).lost = FALSE
<1>1. \A k, V : ~ FindsLost(kr, devs, k, FALSE, V) BY DEF FindsLost, AsksDevice, HasQuiet
<1> DEFINE k1 == WithAppKeys(kr, devs, known, FALSE)
           work == WorkVersions(kr, k1, ids)
           l == FindsLost(kr, devs, k1, FALSE, Versions(kr, App) \cup work)
<1>2. \E b : Reconcile(kr, devs, known, ids, FALSE).lost = (l /\ b)
 BY DEF Reconcile, Obtaining, Outcome
<1> HIDE DEF l
<1> QED BY <1>1, <1>2 DEF l

\* A pass over such a keyring, and the save.
LEMMA PassHome ==
  ASSUME NEW L \in SUBSET Workspaces, TypeOK, Home(L),
         NEW kr, NEW known \in SUBSET Slots, NEW ids \in SUBSET Scopes,
         Prepared(L, kr, known, ids), NEW R, R = Reconcile(kr, devices, known, ids, FALSE),
         NEW ks, NEW fs, NEW rv, NEW U, R.ok, Finish(R.keyring, ks, fs, rv, R.lost, U)
  PROVE  Home(L)'
<1>1. /\ kr \in Keyrings /\ Shape(kr) /\ FlagsMatch(kr, L) /\ Travels(kr)
      /\ Rotations(kr) /\ Leftovers(kr, L) /\ Ready(kr, known, ids)
      /\ kr.quiet = keyring.quiet /\ KeysHere /\ keyring \in Keyrings
 BY DEF Prepared, Home, TypeOK
<1>2. kr.quiet # None => kr.quiet \in devices BY <1>1, NothingLost
<1>3. PICK k1 \in SUBSET Slots, k2 \in SUBSET Slots, d \in DeviceIds \cup {None} :
         Passes(R, kr, devices, known, ids, k1, k2, d)
 BY <1>1, <1>2, ReconcilePasses
<1> DEFINE r == R.keyring
<1>4. \A v \in AllVersions(r) : Usable(r, v) BY <1>1, <1>3, PassOpens
<1>5. /\ r = ApplyPolicy([kr EXCEPT !.quiet = d], Policy(kr, k2), k2, ids)
      /\ d = kr.quiet \/ (kr.quiet = None /\ d \notin devices)
      /\ R.lost = FALSE /\ (ids \cap Policy(kr, k2).open # {} => d # None)
 BY <1>3 DEF Passes
<1> HIDE DEF r
<1>6. /\ Rotations(r) /\ Leftovers(r, L) /\ r.quiet = d
      /\ DeviceRoutes(r, kr)
 <2>1. /\ L \in SUBSET Workspaces /\ kr \in Keyrings /\ Shape(kr) /\ Rotations(kr)
       /\ Leftovers(kr, L) /\ ids \in SUBSET Scopes /\ d \in DeviceIds \cup {None}
       /\ Passes(R, kr, devices, known, ids, k1, k2, d)
  BY <1>1, <1>3
 <2> QED BY <2>1, PassRoutes DEF r
<1>7. r \in Keyrings BY <1>1, <1>5, ApplyPolicyType
<1>8. \A v \in Slots : \A e \in DeviceIds :
         /\ Device(e) \in r.wraps[v] => Device(e) \in keyring.wraps[v] \/ e = r.quiet
         /\ Presence(e) \in r.wraps[v] => Presence(e) \in keyring.wraps[v]
 <2>1. \A e : Device(e) # Password /\ Presence(e) # Password BY DEF Device, Presence, Password
 <2> QED BY <1>6, <2>1 DEF Prepared, DeviceRoutes
<1>9. Finish(r, ks, fs, rv, FALSE, U) BY <1>5 DEF r
<1>10. KeysHere' /\ keyring' = r BY <1>1, <1>5, <1>6, <1>7, <1>8, <1>9, FinishKeysHere
<1> QED BY <1>4, <1>6, <1>10 DEF Home

\* Of the app's versions only the governing one is sealed, if it is.
LEMMA OneMaster ==
  ASSUME NEW kr \in Keyrings, Rotations(kr), NEW a \in Versions(kr, App),
         kr.own[a], kr.own[Governing(kr, App)]
  PROVE  a = Governing(kr, App)
<1>1. App \in Scopes BY DEF Scopes
<1> QED BY <1>1 DEF Rotations, Versions, Governing, Rotating, Staged, Current

\* Versions may go and come, as long as the workspaces' routes still lead somewhere.
LEMMA ReadyFrom ==
  ASSUME NEW L \in SUBSET Workspaces, IInv(L), Home(L),
         NEW kr \in Keyrings, kr.quiet = keyring.quiet, NEW known, NEW ids, NEW N,
         \A v \in AllVersions(kr) : v \notin N =>
            /\ v \in AllVersions(keyring) /\ keyring.wraps[v] \subseteq kr.wraps[v]
            /\ kr.wraps[v] \subseteq keyring.wraps[v] \cup {Password},
         \A v \in AllVersions(kr) : v \in N =>
            /\ kr.wraps[v] \subseteq {Password}
            /\ \/ Password \in kr.wraps[v]
               \/ v = Governing(kr, v[1]) /\ v \in known /\ v[1] \in ids /\ ~ kr.own[v],
         \A a \in Versions(keyring, App) :
            keyring.own[a] /\ keyring.own[Governing(keyring, App)]
               => a \in Versions(kr, App) /\ kr.own[a],
         \A a \in Versions(kr, App) : kr.own[a] /\ keyring.own[Governing(keyring, App)]
            => a = Governing(kr, App) \/ a \in known,
         kr.own[Governing(kr, App)]
            => keyring.own[Governing(keyring, App)] \/ Governing(kr, App) \in known
  PROVE  Ready(kr, known, ids)
<1> DEFINE master == keyring.own[Governing(keyring, App)]
<1>1. \A e, n : Device(e) # Password /\ Parent(n) # Password BY DEF Device, Parent, Password
<1>2. ASSUME NEW v \in AllVersions(kr)
      PROVE  /\ \A e : Device(e) \in kr.wraps[v] =>
                   v \in AllVersions(keyring) /\ Device(e) \in keyring.wraps[v]
             /\ \A n : Parent(n) \in kr.wraps[v] =>
                   v \in AllVersions(keyring) /\ Parent(n) \in keyring.wraps[v]
 BY <1>1
<1>3. \A v \in AllVersions(keyring) : RoutesSound(keyring, v) /\ Usable(keyring, v)
 BY DEF IInv, Sound, Home
<1>4. ASSUME NEW v \in AllVersions(kr), HasQuiet(kr, v)
      PROVE  ~ master
 BY <1>2, <1>3, <1>4 DEF HasQuiet, RoutesSound, Protected
<1>5. ASSUME NEW v \in AllVersions(kr), NEW n \in Serials, Parent(n) \in kr.wraps[v]
      PROVE  master
 BY <1>2, <1>3, <1>5 DEF RoutesSound
<1>6. \A a : a \in Versions(kr, App) \/ a \in Versions(keyring, App) => a[2] \in Serials
 <2>1. keyring \in Keyrings /\ App \in Scopes BY DEF IInv, TypeOK, Scopes
 <2> QED BY <2>1, VersionsAreSlots DEF Slots
<1> HIDE DEF master
<1>7. ASSUME NEW v \in AllVersions(kr), v \notin N
      PROVE  Usable(kr, v)
 <2>1. v \in AllVersions(keyring) /\ keyring.wraps[v] \subseteq kr.wraps[v] /\ Usable(keyring, v)
  BY <1>3, <1>7
 <2>2. ASSUME NEW a \in Versions(keyring, App), keyring.own[a],
              Parent(a[2]) \in keyring.wraps[v], v[1] # App
       PROVE  Usable(kr, v)
  <3>1. master BY <1>5, <1>6, <2>1, <2>2
  <3> QED BY <2>1, <2>2, <3>1 DEF Usable, master
 <2> QED BY <2>1, <2>2 DEF Usable, HasQuiet
<1>8. ASSUME NEW v \in AllVersions(kr)
      PROVE  /\ \A a \in Versions(kr, App) : kr.own[a] /\ Parent(a[2]) \in kr.wraps[v]
                   => a = Governing(kr, App) \/ a \in known
             /\ HasQuiet(kr, v) => (kr.own[Governing(kr, App)] => Governing(kr, App) \in known)
             /\ HasQuiet(kr, v) => \A u \in AllVersions(kr) : \A n \in Serials :
                   u[1] = v[1] => Parent(n) \notin kr.wraps[u]
 BY <1>4, <1>5, <1>6 DEF master
<1>9. ASSUME NEW v \in AllVersions(kr), v \in N
      PROVE  \/ Usable(kr, v)
             \/ /\ v = Governing(kr, v[1]) /\ v \in known /\ v[1] \in ids
                /\ ~ kr.own[v] /\ kr.wraps[v] = {}
 BY <1>9 DEF Usable
<1> QED BY <1>7, <1>8, <1>9 DEF Ready

\* The saved keyring is ready for any pass.
LEMMA KeyringPrepared ==
  ASSUME NEW L \in SUBSET Workspaces, IInv(L), Home(L), Travels(keyring), NEW known, NEW ids
  PROVE  Prepared(L, keyring, known, ids)
<1>1. /\ keyring \in Keyrings /\ Shape(keyring) /\ FlagsMatch(keyring, L)
      /\ Rotations(keyring) /\ Leftovers(keyring, L)
 BY DEF IInv, TypeOK, Sound, Home
<1>2. Ready(keyring, known, ids)
 <2> DEFINE N == {}
 <2>1. \A v \in AllVersions(keyring) : v \notin N OBVIOUS
 <2> HIDE DEF N
 <2> QED BY <1>1, <2>1, OneMaster, ReadyFrom
<1> QED BY <1>1, <1>2 DEF Prepared

\* What an operation does to the versions of keyring k: N are new, the others are as they
\* were but for a further password route.
Changed(k, kr, N, known, ids) ==
    /\ kr \in Keyrings /\ Shape(kr) /\ kr.quiet = k.quiet
    /\ \A v \in AllVersions(kr) : v \notin N =>
          /\ v \in AllVersions(k) /\ kr.own[v] = k.own[v]
          /\ k.wraps[v] \subseteq kr.wraps[v] /\ kr.wraps[v] \subseteq k.wraps[v] \cup {Password}
    /\ \A v \in AllVersions(kr) : v \in N =>
          /\ kr.wraps[v] = IF kr.own[v] THEN {Password} ELSE {}
          /\ kr.own[v] \/ (v = Governing(kr, v[1]) /\ v \in known /\ v[1] \in ids)
    /\ \A a \in Versions(kr, App) : a \in N =>
          \A v \in AllVersions(k) : Parent(a[2]) \notin k.wraps[v]
    /\ \A v \in Slots : kr.wraps[v] \subseteq k.wraps[v] \cup {Password}
    /\ k.recovery = NoRecovery => kr.recovery = NoRecovery

\* The app's versions change so that workspaces that opened through one still do, and that
\* no new master password is one nobody has.
AppChanged(k, kr, N, known) ==
    /\ \A a \in Versions(k, App) : k.own[a] /\ a = Governing(k, App)
          => a \in Versions(kr, App) /\ a \notin N
    /\ \A a \in Versions(kr, App) : kr.own[a] /\ k.own[Governing(k, App)]
          => a = Governing(kr, App) \/ a \in known
    /\ kr.own[Governing(kr, App)] => k.own[Governing(k, App)] \/ Governing(kr, App) \in known

\* A keyring changed like that can be given to a pass.
LEMMA ChangePrepared ==
  ASSUME NEW L \in SUBSET Workspaces, IInv(L), Home(L), Travels(keyring),
         NEW kr, NEW N, NEW known, NEW ids,
         Changed(keyring, kr, N, known, ids), AppChanged(keyring, kr, N, known),
         Rotations(kr), Meant(kr, L)
  PROVE  Prepared(L, kr, known, ids)
<1>1. /\ kr \in Keyrings /\ Shape(kr) /\ kr.quiet = keyring.quiet /\ keyring \in Keyrings
      /\ \A v \in Slots : kr.wraps[v] \subseteq keyring.wraps[v] \cup {Password}
      /\ Rotations(keyring) /\ Leftovers(keyring, L) /\ App \notin L
 BY KeyringConstants DEF Changed, IInv, TypeOK, Home
<1>2. \A v \in AllVersions(kr) : v \notin N =>
        /\ v \in AllVersions(keyring) /\ kr.own[v] = keyring.own[v]
        /\ keyring.wraps[v] \subseteq kr.wraps[v]
        /\ kr.wraps[v] \subseteq keyring.wraps[v] \cup {Password}
 BY DEF Changed
<1>3. \A v \in AllVersions(kr) : v \in N =>
        /\ kr.wraps[v] = IF kr.own[v] THEN {Password} ELSE {}
        /\ kr.own[v] \/ (v = Governing(kr, v[1]) /\ v \in known /\ v[1] \in ids)
 BY DEF Changed
<1>4. \A n : Parent(n) # Password /\ Recovery(n) # Password BY DEF Parent, Password, Recovery
<1>5. /\ Versions(kr, App) \subseteq AllVersions(kr)
      /\ \A n : <<App, n>> \in AllVersions(kr) => <<App, n>> \in Versions(kr, App)
      /\ \A n : <<App, n>> \in AllVersions(keyring) => <<App, n>> \in Versions(keyring, App)
 BY <1>1, VersionsAreSlots DEF AllVersions, Scopes
<1>6. Ready(kr, known, ids)
 <2>1. \A a \in Versions(keyring, App) :
          keyring.own[a] /\ keyring.own[Governing(keyring, App)]
             => a \in Versions(kr, App) /\ kr.own[a]
  BY <1>1, <1>2, <1>5, OneMaster DEF AppChanged
 <2>2. \A v \in AllVersions(kr) : v \in N =>
          /\ kr.wraps[v] \subseteq {Password}
          /\ \/ Password \in kr.wraps[v]
             \/ v = Governing(kr, v[1]) /\ v \in known /\ v[1] \in ids /\ ~ kr.own[v]
  BY <1>3
 <2>3. /\ \A a \in Versions(kr, App) : kr.own[a] /\ keyring.own[Governing(keyring, App)]
            => a = Governing(kr, App) \/ a \in known
       /\ kr.own[Governing(kr, App)]
            => keyring.own[Governing(keyring, App)] \/ Governing(kr, App) \in known
  BY DEF AppChanged
 <2>4. \A v \in AllVersions(kr) : v \notin N =>
          /\ v \in AllVersions(keyring) /\ keyring.wraps[v] \subseteq kr.wraps[v]
          /\ kr.wraps[v] \subseteq keyring.wraps[v] \cup {Password}
  BY <1>2
 <2> QED BY <1>1, <2>1, <2>2, <2>3, <2>4, ReadyFrom
<1>7. Travels(kr)
 <2>1. \A v \in AllVersions(kr) : kr.own[v] => Password \in kr.wraps[v]
  BY <1>2, <1>3 DEF Travels
 <2>2. ASSUME NEW v \in AllVersions(kr), NEW n \in Serials, Parent(n) \in kr.wraps[v],
              <<App, n>> \in AllVersions(kr)
       PROVE  kr.own[<<App, n>>]
  <3>1. v \in AllVersions(keyring) /\ Parent(n) \in keyring.wraps[v] BY <1>2, <1>3, <1>4, <2>2
  <3>2. <<App, n>> \in Versions(kr, App) /\ <<App, n>>[2] = n BY <1>5, <2>2
  <3>3. <<App, n>> \notin N BY <3>1, <3>2 DEF Changed
  <3> QED BY <1>2, <2>2, <3>1, <3>3 DEF Travels
 <2> QED BY <2>1, <2>2 DEF Travels
<1>8. Leftovers(kr, L)
 <2>1. ASSUME L # {} PROVE NoCodes(kr)
  <3>1. NoCodes(keyring) BY <1>1, <2>1 DEF Leftovers
  <3>2. kr.recovery = NoRecovery BY <3>1 DEF Changed, NoCodes
  <3> QED BY <1>2, <1>3, <1>4, <3>1, <3>2 DEF NoCodes
 <2> QED BY <2>1 DEF Leftovers
<1>9. FlagsMatch(kr, L)
 <2> SUFFICES ASSUME NEW s \in Scopes, Exists(kr, s)
              PROVE  FlagMatches(kr, s, L)
  BY DEF FlagsMatch
 <2>1. Governing(kr, s) \in AllVersions(kr) /\ Governing(kr, s)[1] = s
  BY <1>1, GoverningIsVersion
 <2> QED BY <1>7, <2>1 DEF Travels, Meant, FlagMatches
<1> QED BY <1>1, <1>6, <1>7, <1>8, <1>9 DEF Prepared

\* A pass over a prepared keyring that ends in a save.
LEMMA SavesHome ==
  ASSUME NEW L \in SUBSET Workspaces, IInv(L), Home(L),
         NEW kr, NEW known \in SUBSET Slots, NEW ids \in SUBSET Scopes,
         Prepared(L, kr, known, ids), NEW l, l = FALSE, NEW ks, NEW fs, NEW rv, NEW U,
         Saves(Reconcile(kr, devices, known, ids, l), ks, fs, rv, U)
  PROVE  Home(L)'
<1> DEFINE R == Reconcile(kr, devices, known, ids, FALSE)
<1>1. TypeOK /\ R.ok /\ Finish(R.keyring, ks, fs, rv, R.lost, U) BY DEF Saves, IInv
<1> HIDE DEF R
<1> QED BY <1>1, PassHome DEF R

\* The same at the end of a change of protection.
LEMMA ProtectionChangeHome ==
  ASSUME NEW L \in SUBSET Workspaces, IInv(L), Home(L),
         NEW kr, NEW known \in SUBSET Slots, Prepared(L, kr, known, Scopes),
         NEW l, l = FALSE, NEW T,
         FinishProtectionChange(Reconcile(kr, devices, known, Scopes, l), T)
  PROVE  Home(L)'
<1> DEFINE R == Reconcile(kr, devices, known, Scopes, l)
           ks == keys \cup {v \in R.known \cap AllVersions(R.keyring) : v[1] \in T}
           fs == fieldKeys \cup {s \in T : Current(R.keyring, s) \in R.known}
           rv == {}
           U == {}
<1>1. Saves(R, ks, fs, rv, U) BY DEF FinishProtectionChange
<1> HIDE DEF ks, fs, rv, U
<1> QED BY <1>1, SavesHome

\* initialize
LEMMA InitializeHome ==
  ASSUME NEW L \in SUBSET Workspaces, IInv(L), Home(L), Travels(keyring), Initialize
  PROVE  Home(L)'
<1> DEFINE n == Fresh(FreshSerials(keyring, App))
           kr == [NewVersion(keyring, App, n, FALSE, {}) EXCEPT !.cur[App] = n]
           K == {<<App, n>>}
           I == {App}
           rv == reveal
           U == {}
<1>1. keyring \in Keyrings /\ Shape(keyring) /\ ~ Exists(keyring, App) /\ App \in Scopes
 BY DEF IInv, TypeOK, Sound, Initialize, Scopes
<1>2. n \in Serials /\ <<App, n>> \in Slots BY <1>1 DEF Initialize, Fresh, FreshSerials, Slots
<1>3. Saves(Reconcile(kr, devices, K, I, FALSE), K, I, rv, U) BY DEF Initialize
<1> HIDE DEF n
<1>4. /\ kr.cur = [keyring.cur EXCEPT ![App] = n] /\ kr.staged = keyring.staged
      /\ kr.own = [keyring.own EXCEPT ![<<App, n>>] = FALSE]
      /\ kr.wraps = [keyring.wraps EXCEPT ![<<App, n>>] = {}]
      /\ kr.quiet = keyring.quiet /\ kr.recovery = keyring.recovery
 BY <1>1 DEF NewVersion, Keyrings
<1>5. kr \in Keyrings BY <1>1, <1>2 DEF NewVersion, Keyrings
<1> HIDE DEF kr
<1>6. \A s \in Scopes : /\ Exists(kr, s) => s = App
                        /\ ~ Rotating(kr, s) /\ ~ Exists(keyring, s) /\ ~ Rotating(keyring, s)
 BY <1>1, <1>4 DEF Shape, Exists, Rotating, Keyrings
<1>7. Exists(kr, App) /\ Governing(kr, App) = <<App, n>>
 BY <1>1, <1>2, <1>4, <1>6, KeyringConstants DEF Exists, Governing, Current, Keyrings
<1>8. Shape(kr) BY <1>6, <1>7 DEF Shape
<1>9. /\ AllVersions(kr) \subseteq K /\ Versions(kr, App) \subseteq K
      /\ AllVersions(keyring) = {} /\ Versions(keyring, App) = {}
 <2>1. \A s \in Scopes : Versions(keyring, s) = {} /\ Versions(kr, s) \subseteq K
  BY <1>1, <1>4, <1>6 DEF Versions, Exists, Rotating, Keyrings
 <2> QED BY <1>1, <2>1 DEF AllVersions
<1>10. ~ kr.own[<<App, n>>] /\ kr.wraps[<<App, n>>] = {} BY <1>1, <1>2, <1>4 DEF Keyrings
<1>11. Changed(keyring, kr, K, K, I)
 <2>1. \A v \in Slots : kr.wraps[v] \subseteq keyring.wraps[v] \cup {Password}
  BY <1>1, <1>4 DEF Keyrings
 <2> QED BY SMTT(30), <1>4, <1>5, <1>7, <1>8, <1>9, <1>10, <2>1 DEF Changed
<1>12. AppChanged(keyring, kr, K, K) BY <1>7, <1>9 DEF AppChanged
<1>13. Rotations(kr) /\ Meant(kr, L) BY <1>6, <1>9, <1>10 DEF Rotations, Meant
<1>14. Prepared(L, kr, K, I) BY <1>11, <1>12, <1>13, ChangePrepared
<1>15. K \in SUBSET Slots /\ I \in SUBSET Scopes BY <1>1, <1>2
<1> HIDE DEF K, I, rv, U
<1> QED BY <1>3, <1>14, <1>15, SavesHome

\* initialize_from_export
LEMMA InitializeFromExportHome ==
  ASSUME NEW L \in SUBSET Workspaces, IInv(L), Home(L), Travels(keyring),
         NEW ids \in SUBSET Workspaces, NEW P \in SUBSET (ids \cup {App}),
         InitializeFromExport(ids, P)
  PROVE  Home(L)'
<1> DEFINE n == Fresh(Serials)
           all == ids \cup {App}
           cur == [s \in Scopes |-> IF s \in all THEN n ELSE None]
           own == [v \in Slots |-> v[2] = n /\ v[1] \in P]
           wraps == [v \in Slots |-> IF v[2] = n /\ v[1] \in P THEN {Password} ELSE {}]
           kr == [keyring EXCEPT !.cur = cur, !.own = own, !.wraps = wraps]
           K == all \X {n}
           R == Reconcile(kr, devices, K, all, FALSE)
           ks == R.known
           rv == reveal
           U == {}
<1>1. keyring \in Keyrings /\ Shape(keyring) /\ ~ Exists(keyring, App) /\ App \in Scopes
 BY DEF IInv, TypeOK, Sound, InitializeFromExport, Scopes
<1>2. n \in Serials /\ n # None BY KeyringConstants DEF Fresh
<1>3. Saves(R, ks, all, rv, U) BY DEF InitializeFromExport
<1> HIDE DEF n
<1>4. all \in SUBSET Scopes /\ App \in all /\ P \subseteq all BY DEF Scopes
<1>5. K \in SUBSET Slots BY <1>2, <1>4 DEF Slots
<1>6. /\ cur \in [Scopes -> Serials \cup {None}]
      /\ own \in [Slots -> BOOLEAN]
      /\ wraps \in [Slots -> SUBSET Wraps]
 BY <1>2 DEF Wraps
<1>7. /\ kr \in Keyrings
      /\ kr.cur = cur /\ kr.staged = keyring.staged /\ kr.own = own /\ kr.wraps = wraps
      /\ kr.quiet = keyring.quiet /\ kr.recovery = keyring.recovery
 <2> HIDE DEF cur, own, wraps
 <2> QED BY <1>1, <1>6 DEF Keyrings
<1> HIDE DEF kr
<1>8. \A s \in Scopes : /\ ~ Rotating(kr, s) /\ (Exists(kr, s) <=> s \in all)
                        /\ ~ Exists(keyring, s) /\ ~ Rotating(keyring, s)
 BY <1>1, <1>2, <1>7 DEF Shape, Exists, Rotating
<1>9. Shape(kr) BY <1>4, <1>8 DEF Shape
<1>10. \A v \in Slots : wraps[v] = IF own[v] THEN {Password} ELSE {} OBVIOUS
<1>11. \A s \in Scopes : Versions(kr, s) = IF s \in all THEN {<<s, n>>} ELSE {}
 BY <1>2, <1>7, <1>8 DEF Versions, Rotating
<1> HIDE DEF cur, own, wraps
<1>12. /\ \A v \in AllVersions(kr) : v \in K /\ v \in Slots /\ v = Governing(kr, v[1]) /\ v[1] \in all
       /\ AllVersions(keyring) = {} /\ Versions(keyring, App) = {}
       /\ \A v \in Versions(kr, App) : v \in K
 <2>1. \A s \in Scopes : Versions(keyring, s) = {} BY <1>8 DEF Versions, Exists, Rotating
 <2>2. ASSUME NEW v \in AllVersions(kr)
       PROVE  v \in K /\ v \in Slots /\ v = Governing(kr, v[1]) /\ v[1] \in all
  <3>1. PICK s \in Scopes : v \in Versions(kr, s) BY <2>2 DEF AllVersions
  <3>2. v = <<s, n>> /\ s \in all BY <1>11, <3>1
  <3>3. Governing(kr, s) = <<s, kr.cur[s]>> /\ kr.cur[s] = n
   BY <1>7, <1>8, <3>1, <3>2 DEF Governing, Current, cur
  <3> QED BY <1>2, <3>1, <3>2, <3>3 DEF Slots
 <2> QED BY <1>1, <1>4, <1>11, <2>1, <2>2 DEF AllVersions
<1> HIDE DEF K, all
<1>13. Changed(keyring, kr, K, K, all)
 <2>1. \A v \in Slots : kr.wraps[v] \subseteq keyring.wraps[v] \cup {Password} BY <1>7, <1>10
 <2> QED BY <1>7, <1>9, <1>10, <1>12, <2>1 DEF Changed
<1>14. AppChanged(keyring, kr, K, K)
 <2>1. Governing(kr, App) \in AllVersions(kr) BY <1>1, <1>4, <1>7, <1>8, GoverningIsVersion
 <2> QED BY <1>12, <2>1 DEF AppChanged
<1>15. Rotations(kr) /\ Meant(kr, L) BY <1>7, <1>8, <1>10, <1>12 DEF Rotations, Meant
<1>16. Prepared(L, kr, K, all) BY <1>13, <1>14, <1>15, ChangePrepared
<1> HIDE DEF ks, rv, U
<1> QED BY <1>3, <1>4, <1>5, <1>16, SavesHome DEF R

\* Saving the keyring as it is, and changes of it that end without a pass.
LEMMA FinishHome ==
  ASSUME NEW L \in SUBSET Workspaces, IInv(L), Home(L),
         NEW kr \in Keyrings, kr.quiet = keyring.quiet,
         \A v \in Slots : \A e \in DeviceIds :
            /\ Device(e) \in kr.wraps[v] => Device(e) \in keyring.wraps[v]
            /\ Presence(e) \in kr.wraps[v]
                  => Presence(e) \in keyring.wraps[v] \/ e \notin devices,
         Rotations(kr), Leftovers(kr, L), \A v \in AllVersions(kr) : Usable(kr, v),
         NEW ks, NEW fs, NEW rv, NEW l, l = FALSE, NEW U, Finish(kr, ks, fs, rv, l, U)
  PROVE  Home(L)'
<1>1. TypeOK /\ KeysHere /\ Finish(kr, ks, fs, rv, FALSE, U) BY DEF IInv, Home
<1>2. \A v \in Slots : \A e \in DeviceIds :
         /\ Device(e) \in kr.wraps[v] => Device(e) \in keyring.wraps[v] \/ e = kr.quiet
         /\ Presence(e) \in kr.wraps[v] =>
               \/ Presence(e) \in keyring.wraps[v]
               \/ e \notin devices /\ kr.quiet = keyring.quiet
 OBVIOUS
<1>3. KeysHere' /\ keyring' = kr BY <1>1, <1>2, FinishKeysHere
<1> QED BY <1>3 DEF Home

\* An unlock, with its repair pass or without.
LEMMA RepairsHome ==
  ASSUME NEW L \in SUBSET Workspaces, IInv(L), Home(L), Travels(keyring),
         NEW known \in SUBSET Slots, NEW ids \in SUBSET Scopes, NEW l, l = FALSE,
         NEW ks, NEW fs, NEW U,
         Repairs(Reconcile(keyring, devices, known, ids, l), ks, fs, l, U)
  PROVE  Home(L)'
<1> DEFINE R == Reconcile(keyring, devices, known, ids, FALSE)
<1>1. KeysHere /\ keyring \in Keyrings /\ TypeOK BY DEF Home, IInv, TypeOK
<1>2. R.lost = FALSE BY <1>1, NothingLost, PassNotLost
<1>3. \/ R.ok /\ Finish(R.keyring, ks, fs, reveal, R.lost, U)
      \/ \E k \in {l, R.lost} : Finish(keyring, ks, fs, reveal, k, U)
 BY DEF Repairs
<1> HIDE DEF R
<1>4. CASE R.ok /\ Finish(R.keyring, ks, fs, reveal, R.lost, U)
 BY <1>1, <1>4, KeyringPrepared, PassHome DEF R
<1>5. CASE \E k \in {l, R.lost} : Finish(keyring, ks, fs, reveal, k, U)
 <2>1. Finish(keyring, ks, fs, reveal, l, U) BY <1>2, <1>5
 <2>2. /\ Rotations(keyring) /\ Leftovers(keyring, L)
       /\ \A v \in AllVersions(keyring) : Usable(keyring, v)
  BY DEF Home
 <2> QED BY <1>1, <2>1, <2>2, FinishHome
<1> QED BY <1>3, <1>4, <1>5

\* open_scope, unlock_with_password, unlock_with_presence
LEMMA CompleteUnlockHome ==
  ASSUME NEW L \in SUBSET Workspaces, IInv(L), Home(L), Travels(keyring),
         NEW s \in Scopes, NEW found \in SUBSET Versions(keyring, s),
         CompleteUnlock(s, found)
  PROVE  Home(L)'
<1> DEFINE k1 == Known \cup found
           l1 == FindsLost(keyring, devices, k1, lost, Versions(keyring, s))
           k2 == k1 \cup {v \in Versions(keyring, s) :
                             Obtains(keyring, devices, k1, lost, v)}
           ks == keys \cup found \cup (k2 \cap Versions(keyring, s))
           fs == fieldKeys \cup {s}
           I == {s}
<1>1. Repairs(Reconcile(keyring, devices, k2, I, l1), ks, fs, l1, I) BY DEF CompleteUnlock
<1>2. k2 \in SUBSET Slots /\ I \in SUBSET Scopes
 BY VersionsAreSlots, SnapshotType DEF IInv, TypeOK
<1>3. l1 = FALSE BY NothingLost DEF Home, IInv, TypeOK
<1> HIDE DEF k1, l1, k2, ks, fs, I
<1> QED BY <1>1, <1>2, <1>3, RepairsHome

\* open_scope, unlock_with_password and unlock_with_presence
LEMMA UnlocksHome ==
  ASSUME NEW L \in SUBSET Workspaces, IInv(L), Home(L), Travels(keyring), NEW s \in Scopes,
         OpenScope(s) \/ UnlockWithPassword(s) \/ UnlockWithPresence(s)
  PROVE  Home(L)'
<1>1. CASE OpenScope(s) BY <1>1, CompleteUnlockHome DEF OpenScope
<1>2. CASE UnlockWithPassword(s) BY <1>2, CompleteUnlockHome DEF UnlockWithPassword
<1>3. CASE UnlockWithPresence(s) BY <1>3, CompleteUnlockHome DEF UnlockWithPresence
<1> QED BY <1>1, <1>2, <1>3

\* unlock_with_recovery
LEMMA UnlockWithRecoveryHome ==
  ASSUME NEW L \in SUBSET Workspaces, IInv(L), Home(L), Travels(keyring),
         NEW r, UnlockWithRecovery(r)
  PROVE  Home(L)'
<1> DEFINE found == {v \in AllVersions(keyring) : Recovery(r) \in keyring.wraps[v]}
           opened == {s \in Scopes : Current(keyring, s) \in found}
           l1 == lost \/ (keyring.quiet # None /\ keyring.quiet \notin devices)
           k  == Known \cup found
           ks == keys \cup found
           fs == fieldKeys \cup opened
           U  == {v[1] : v \in found}
           I  == Scopes
<1>1. Repairs(Reconcile(keyring, devices, k, I, l1), ks, fs, l1, U) BY DEF UnlockWithRecovery
<1>2. k \in SUBSET Slots /\ I \in SUBSET Scopes
 BY VersionsAreSlots, SnapshotType DEF IInv, TypeOK
<1>3. l1 = FALSE BY NothingLost DEF Home, IInv, TypeOK
<1> HIDE DEF l1, k, ks, fs, U, I
<1> QED BY <1>1, <1>2, <1>3, RepairsHome

\* setup_recovery and remove_recovery
LEMMA RecoveryHome ==
  ASSUME NEW L \in SUBSET Workspaces, IInv(L), Home(L), Travels(keyring),
         (L = {} /\ SetupRecovery) \/ RemoveRecovery
  PROVE  Home(L)'
<1>1. /\ keyring \in Keyrings /\ Shape(keyring) /\ Rotations(keyring) /\ Leftovers(keyring, L)
      /\ Prepared(L, keyring, Known, Scopes) /\ Known \in SUBSET Slots /\ lost = FALSE
 BY KeyringPrepared, SnapshotType DEF Home, KeysHere, IInv, TypeOK, Sound
<1>2. ASSUME NEW e \in {NoRecovery} \cup [id : RecoveryIds, mac : Serials, held : BOOLEAN],
             L # {} => e = NoRecovery,
             NEW kr, kr = [keyring EXCEPT !.recovery = e],
             Saves(Reconcile(kr, devices, Known, Scopes, lost), keys, fieldKeys, reveal, {})
      PROVE  Home(L)'
 <2>1. /\ kr.cur = keyring.cur /\ kr.staged = keyring.staged /\ kr.own = keyring.own
       /\ kr.wraps = keyring.wraps /\ kr.quiet = keyring.quiet /\ kr.recovery = e
       /\ kr \in Keyrings
  BY <1>1, <1>2 DEF Keyrings
 <2>2. kr \in Keyrings /\ Shape(kr) /\ FlagsMatch(kr, L)
  BY <1>1, <1>2, WithRecovery DEF Prepared
 <2>3. /\ \A s : /\ Versions(kr, s) = Versions(keyring, s)
                 /\ Governing(kr, s) = Governing(keyring, s)
                 /\ Rotating(kr, s) <=> Rotating(keyring, s)
                 /\ Staged(kr, s) = Staged(keyring, s)
                 /\ Current(kr, s) = Current(keyring, s)
       /\ AllVersions(kr) = AllVersions(keyring)
  BY <2>1 DEF Versions, AllVersions, Governing, Rotating, Staged, Current
 <2>4. Travels(kr) /\ Rotations(kr) BY <1>1, <2>1, <2>3 DEF Travels, Rotations, Prepared
 <2>5. Leftovers(kr, L) BY <1>1, <1>2, <2>1, <2>3 DEF Leftovers, Meant, NoCodes
 <2>6. Ready(kr, Known, Scopes)
  <3>1. Ready(keyring, Known, Scopes) BY <1>1 DEF Prepared
  <3>2. \A v : /\ Usable(kr, v) <=> Usable(keyring, v)
               /\ HasQuiet(kr, v) <=> HasQuiet(keyring, v)
   BY <2>1, <2>3 DEF Usable, HasQuiet
  <3> QED BY <2>1, <2>3, <3>1, <3>2 DEF Ready
 <2>7. Prepared(L, kr, Known, Scopes) BY <2>1, <2>2, <2>4, <2>5, <2>6 DEF Prepared
 <2> DEFINE U == {}
            I == Scopes
 <2>8. Saves(Reconcile(kr, devices, Known, I, lost), keys, fieldKeys, reveal, U) BY <1>2
 <2> HIDE DEF U, I
 <2> QED BY <1>1, <2>7, <2>8, SavesHome DEF I
<1>3. CASE L = {} /\ SetupRecovery
 <2> DEFINE gov == Governing(keyring, App)
            new == RecoveryIds \ UsedCodes(keyring)
            e == [id |-> Fresh(new), mac |-> gov[2], held |-> keyring.own[gov]]
 <2>1. gov \in Slots BY <1>1, <1>3 DEF SetupRecovery
 <2>2. gov[2] \in Serials /\ keyring.own[gov] \in BOOLEAN BY <1>1, <2>1 DEF Slots, Keyrings
 <2>3. Fresh(new) \in RecoveryIds BY <1>3 DEF SetupRecovery, Fresh
 <2>4. e \in [id : RecoveryIds, mac : Serials, held : BOOLEAN] BY <2>2, <2>3
 <2>5. Saves(Reconcile([keyring EXCEPT !.recovery = e], devices, Known, Scopes, lost),
             keys, fieldKeys, reveal, {})
  BY <1>3 DEF SetupRecovery
 <2> HIDE DEF e
 <2> QED BY <1>2, <1>3, <2>4, <2>5
<1>4. CASE RemoveRecovery BY <1>2, <1>4 DEF RemoveRecovery
<1> QED BY <1>3, <1>4

\* enable_presence and disable_presence
LEMMA PresenceHome ==
  ASSUME NEW L \in SUBSET Workspaces, IInv(L), Home(L), Travels(keyring),
         NEW s \in Scopes, EnablePresence(s) \/ DisablePresence(s)
  PROVE  Home(L)'
<1>1. /\ keyring \in Keyrings /\ Sound(keyring, L) /\ lost = FALSE
      /\ Rotations(keyring) /\ Leftovers(keyring, L)
      /\ \A v \in AllVersions(keyring) : Usable(keyring, v)
 BY DEF IInv, TypeOK, Home, KeysHere
<1>2. PICK W \in SUBSET Wraps :
         /\ \A w \in W : w.kind = "presence" /\ \A e \in devices : w # Presence(e)
         /\ Finish(WithPresence(keyring, s, W), keys, fieldKeys, reveal, lost, {})
 <2>1. CASE EnablePresence(s)
  <3> DEFINE d == Fresh(UnusedDevices(keyring, devices))
  <3>1. Finish(WithPresence(keyring, s, {Presence(d)}), keys, fieldKeys, reveal, lost, {})
   BY <2>1 DEF EnablePresence
  <3>2. d \in DeviceIds /\ d \notin devices BY <2>1 DEF EnablePresence, UnusedDevices, Fresh
  <3>3. {Presence(d)} \in SUBSET Wraps /\ \A w \in {Presence(d)} : w.kind = "presence"
   BY <3>2 DEF Wraps, Presence
  <3>4. \A e \in devices : Presence(d) # Presence(e) BY <3>2 DEF Presence
  <3> QED BY <3>1, <3>3, <3>4
 <2>2. CASE DisablePresence(s) BY <2>2 DEF DisablePresence
 <2> QED BY <2>1, <2>2
<1> DEFINE r == WithPresence(keyring, s, W)
           U == {}
<1>3. r \in Keyrings BY <1>1, <1>2, WithPresenceKeeps
<1>4. /\ r.cur = keyring.cur /\ r.staged = keyring.staged /\ r.own = keyring.own
      /\ r.quiet = keyring.quiet /\ r.recovery = keyring.recovery
      /\ r.wraps = [v \in Slots |->
            IF v \in Versions(keyring, s) THEN {w \in keyring.wraps[v] : w.kind # "presence"} \cup W
                                          ELSE keyring.wraps[v]]
 BY <1>1 DEF WithPresence, Keyrings
<1>5. Finish(r, keys, fieldKeys, reveal, lost, U) BY <1>2
<1> HIDE DEF r, U
<1>6. \A v \in Slots : \A w : w.kind # "presence" => (w \in r.wraps[v] <=> w \in keyring.wraps[v])
 BY <1>2, <1>4
<1>7. \A e : /\ Password.kind # "presence" /\ Device(e).kind # "presence"
             /\ Parent(e).kind # "presence" /\ Recovery(e).kind # "presence"
 BY DEF Password, Device, Parent, Recovery
<1>8. \A v \in Slots : \A e :
         /\ Password \in r.wraps[v] <=> Password \in keyring.wraps[v]
         /\ Device(e) \in r.wraps[v] <=> Device(e) \in keyring.wraps[v]
         /\ Parent(e) \in r.wraps[v] <=> Parent(e) \in keyring.wraps[v]
         /\ Recovery(e) \in r.wraps[v] <=> Recovery(e) \in keyring.wraps[v]
 BY <1>6, <1>7
<1>9. \A v \in Slots : \A e \in DeviceIds :
         /\ Device(e) \in r.wraps[v] => Device(e) \in keyring.wraps[v]
         /\ Presence(e) \in r.wraps[v] => Presence(e) \in keyring.wraps[v] \/ e \notin devices
 <2> SUFFICES ASSUME NEW v \in Slots, NEW e \in DeviceIds, Presence(e) \in r.wraps[v],
                     e \in devices
              PROVE  Presence(e) \in keyring.wraps[v]
  BY <1>8
 <2>1. Presence(e) \notin W BY <1>2
 <2> QED BY <1>4, <2>1
<1>10. /\ \A t : /\ Versions(r, t) = Versions(keyring, t)
                 /\ Governing(r, t) = Governing(keyring, t)
                 /\ Rotating(r, t) <=> Rotating(keyring, t)
                 /\ Staged(r, t) = Staged(keyring, t)
                 /\ Current(r, t) = Current(keyring, t)
       /\ AllVersions(r) = AllVersions(keyring) /\ AllVersions(keyring) \subseteq Slots
 BY <1>1, <1>4, VersionsAreSlots DEF Versions, AllVersions, Governing, Rotating, Staged, Current
<1>11. \A v \in AllVersions(r) : Usable(r, v) BY <1>1, <1>4, <1>8, <1>10 DEF Usable, HasQuiet
<1>12. Rotations(r)
 <2>1. \A t \in Scopes : Rotating(keyring, t) =>
          Staged(keyring, t) \in Slots /\ Current(keyring, t) \in Slots
  BY <1>1 DEF Sound, Shape, Exists, Rotating, Staged, Current, Slots, Keyrings
 <2> QED BY <1>1, <1>4, <1>8, <1>10, <2>1 DEF Rotations
<1>13. Leftovers(r, L) BY <1>1, <1>4, <1>8, <1>10 DEF Leftovers, Meant, NoCodes
<1> QED BY <1>1, <1>3, <1>4, <1>5, <1>9, <1>11, <1>12, <1>13, FinishHome

\* A change of the versions of scope s leaves what holds of the others.
LEMMA OtherScopesKeep ==
  ASSUME NEW L \in SUBSET Workspaces, NEW k \in Keyrings, Shape(k), Rotations(k), Meant(k, L),
         NEW kr \in Keyrings, NEW s \in Scopes,
         \A t \in Scopes \ {s} : kr.cur[t] = k.cur[t] /\ kr.staged[t] = k.staged[t],
         \A v \in Slots : v[1] # s => kr.own[v] = k.own[v] /\ kr.wraps[v] = k.wraps[v]
  PROVE  /\ \A t \in Scopes \ {s} :
               /\ Versions(kr, t) = Versions(k, t) /\ Governing(kr, t) = Governing(k, t)
               /\ Rotating(kr, t) <=> Rotating(k, t)
               /\ Exists(kr, t) <=> Exists(k, t)
         /\ \A v \in AllVersions(kr) : /\ v \in Slots /\ v[1] \in Scopes /\ v \in Versions(kr, v[1])
                                       /\ v[1] # s => v \in AllVersions(k)
         /\ (Rotating(kr, s) =>
               /\ kr.own[Staged(kr, s)] => Password \in kr.wraps[Current(kr, s)]
               /\ Password \in kr.wraps[Staged(kr, s)] => kr.own[Staged(kr, s)]
               /\ s = App => (kr.own[Staged(kr, s)] <=> ~ kr.own[Current(kr, s)]))
            => Rotations(kr)
         /\ (\A v \in Versions(kr, s) : Password \in kr.wraps[v] =>
               kr.own[v] \/ kr.own[Governing(kr, s)] \/ s \in L)
            => Meant(kr, L)
<1>1. \A t \in Scopes \ {s} :
         /\ Versions(kr, t) = Versions(k, t) /\ Governing(kr, t) = Governing(k, t)
         /\ Rotating(kr, t) <=> Rotating(k, t)
         /\ Exists(kr, t) <=> Exists(k, t)
         /\ Staged(kr, t) = Staged(k, t) /\ Current(kr, t) = Current(k, t)
 BY DEF Versions, Governing, Rotating, Staged, Current, Exists
<1>2. \A v \in AllVersions(kr) : /\ v \in Slots /\ v[1] \in Scopes /\ v \in Versions(kr, v[1])
                                 /\ v[1] # s => v \in AllVersions(k)
 <2>1. \A v \in AllVersions(kr) : v \in Slots /\ v[1] \in Scopes /\ v \in Versions(kr, v[1])
  BY VersionsAreSlots
 <2> QED BY <1>1, <2>1 DEF AllVersions
<1>3. ASSUME NEW t \in Scopes \ {s}, Rotating(kr, t)
      PROVE  /\ kr.own[Staged(kr, t)] => Password \in kr.wraps[Current(kr, t)]
             /\ Password \in kr.wraps[Staged(kr, t)] => kr.own[Staged(kr, t)]
             /\ t = App => (kr.own[Staged(kr, t)] <=> ~ kr.own[Current(kr, t)])
 <2>1. /\ Staged(k, t) \in Slots /\ Current(k, t) \in Slots
       /\ Staged(k, t)[1] = t /\ Current(k, t)[1] = t /\ Rotating(k, t)
  BY <1>1, <1>3 DEF Shape, Exists, Rotating, Staged, Current, Slots, Keyrings
 <2> QED BY <1>1, <2>1 DEF Rotations
<1>4. ASSUME NEW v \in AllVersions(kr), v[1] # s, Password \in kr.wraps[v]
      PROVE  kr.own[v] \/ kr.own[Governing(kr, v[1])] \/ v[1] \in L
 <2>1. v \in AllVersions(k) /\ v \in Slots /\ v[1] \in Scopes /\ v \in Versions(k, v[1])
  BY <1>1, <1>2, <1>4
 <2>2. Exists(k, v[1]) BY <2>1 DEF Versions, Exists, Shape, Rotating
 <2>3. Governing(k, v[1]) \in Slots /\ Governing(k, v[1])[1] = v[1]
  BY <2>1, <2>2, GoverningIsVersion
 <2> QED BY <1>1, <1>4, <2>1, <2>3 DEF Meant
<1>5. ASSUME \A v \in Versions(kr, s) : Password \in kr.wraps[v] =>
                kr.own[v] \/ kr.own[Governing(kr, s)] \/ s \in L
      PROVE  Meant(kr, L)
 BY <1>2, <1>4, <1>5 DEF Meant
<1>6. ASSUME Rotating(kr, s) =>
                /\ kr.own[Staged(kr, s)] => Password \in kr.wraps[Current(kr, s)]
                /\ Password \in kr.wraps[Staged(kr, s)] => kr.own[Staged(kr, s)]
                /\ s = App => (kr.own[Staged(kr, s)] <=> ~ kr.own[Current(kr, s)])
      PROVE  Rotations(kr)
 BY <1>3, <1>6 DEF Rotations
<1> QED BY <1>1, <1>2, <1>5, <1>6

\* delete_scope
LEMMA DeleteScopeHome ==
  ASSUME NEW L \in SUBSET Workspaces, IInv(L), Home(L), Travels(keyring),
         NEW s \in Scopes, DeleteScope(s)
  PROVE  Home(L)'
<1> DEFINE V == Versions(keyring, s)
           r == [Without(keyring, V) EXCEPT !.cur[s] = None, !.staged[s] = None]
           ks == {v \in keys : v[1] # s}
           fs == fieldKeys \ {s}
           rv == reveal \ {s}
           U == {s}
<1>1. /\ keyring \in Keyrings /\ Shape(keyring) /\ lost = FALSE /\ s # App /\ App \in Scopes
      /\ Rotations(keyring) /\ Leftovers(keyring, L)
      /\ \A v \in AllVersions(keyring) : Usable(keyring, v)
 BY DEF IInv, TypeOK, Sound, Home, KeysHere, DeleteScope, Scopes
<1>2. /\ r.cur = [keyring.cur EXCEPT ![s] = None]
      /\ r.staged = [keyring.staged EXCEPT ![s] = None]
      /\ r.own = [v \in Slots |-> v \notin V /\ keyring.own[v]]
      /\ r.wraps = [v \in Slots |-> IF v \in V THEN {} ELSE keyring.wraps[v]]
      /\ r.quiet = keyring.quiet /\ r.recovery = keyring.recovery
 BY <1>1 DEF Without, Keyrings
<1>3. r \in Keyrings
 <2>1. Without(keyring, V) \in Keyrings BY <1>1 DEF Without, Keyrings
 <2> QED BY <2>1 DEF Keyrings
<1>4. Finish(r, ks, fs, rv, lost, U) BY DEF DeleteScope
<1> HIDE DEF r, ks, fs, rv, U
<1>5. \A t \in Scopes \ {s} : r.cur[t] = keyring.cur[t] /\ r.staged[t] = keyring.staged[t]
 BY <1>1, <1>2 DEF Keyrings
<1>6. Versions(r, s) = {} /\ ~ Rotating(r, s) BY <1>1, <1>2 DEF Versions, Rotating, Keyrings
<1>7. \A v \in Slots : v[1] # s => r.own[v] = keyring.own[v] /\ r.wraps[v] = keyring.wraps[v]
 <2>1. \A v \in V : v[1] = s BY DEF Versions
 <2>2. \A v \in Slots : keyring.own[v] \in BOOLEAN BY <1>1 DEF Keyrings
 <2> HIDE DEF V
 <2> QED BY <1>2, <2>1, <2>2
<1>8. /\ Versions(r, App) = Versions(keyring, App) /\ Rotations(r) /\ Meant(r, L)
      /\ \A v \in AllVersions(r) : v \in Slots /\ v[1] # s /\ v \in AllVersions(keyring)
 <2>1. Meant(keyring, L) BY <1>1 DEF Leftovers
 <2> QED BY SMTT(30), <1>1, <1>3, <1>5, <1>6, <1>7, <2>1, OtherScopesKeep
<1>9. \A v \in AllVersions(r) : Usable(r, v)
 <2>1. \A a \in Versions(keyring, App) : a \in Versions(r, App) /\ a \in Slots /\ a[1] # s
  BY <1>1, <1>8, VersionsAreSlots DEF Versions
 <2> QED BY ZenonT(60), <1>1, <1>2, <1>7, <1>8, <2>1 DEF Usable, HasQuiet
<1>10. Leftovers(r, L) BY <1>1, <1>2, <1>7, <1>8 DEF Leftovers, NoCodes
<1>11. \A v \in Slots : \A e \in DeviceIds :
          /\ Device(e) \in r.wraps[v] => Device(e) \in keyring.wraps[v]
          /\ Presence(e) \in r.wraps[v] => Presence(e) \in keyring.wraps[v] \/ e \notin devices
 BY <1>2
<1> QED BY <1>1, <1>2, <1>3, <1>4, <1>8, <1>9, <1>10, <1>11, FinishHome

\* create_scope
LEMMA CreateScopeHome ==
  ASSUME NEW L \in SUBSET Workspaces, IInv(L), Home(L), Travels(keyring),
         NEW s \in Scopes, NEW p \in BOOLEAN, CreateScope(s, p)
  PROVE  Home(L)'
<1> DEFINE n == Fresh(FreshSerials(keyring, s))
           new == <<s, n>>
           W == IF p THEN {Password} ELSE {}
           kr == [NewVersion(keyring, s, n, p, W) EXCEPT !.cur[s] = n]
           k == Known \cup {new}
           ks == keys \cup {new}
           fs == fieldKeys \cup {s}
           I == {s}
           N == {new}
<1>1. /\ keyring \in Keyrings /\ Shape(keyring) /\ lost = FALSE /\ s # App /\ App \in Scopes
      /\ Rotations(keyring) /\ Leftovers(keyring, L)
      /\ ~ Exists(keyring, s) /\ Exists(keyring, App) /\ ~ Rotating(keyring, s)
 BY DEF IInv, TypeOK, Sound, Shape, Home, KeysHere, CreateScope, Scopes
<1>2. n \in Serials /\ new \in Slots BY DEF CreateScope, Fresh, FreshSerials, Slots
<1>3. Saves(Reconcile(kr, devices, k, I, lost), ks, fs, reveal, I) BY DEF CreateScope
<1> HIDE DEF n
<1>4. k \in SUBSET Slots /\ I \in SUBSET Scopes BY <1>2, SnapshotType DEF IInv, TypeOK
<1>5. W \in SUBSET Wraps /\ W = IF p THEN {Password} ELSE {} BY DEF Wraps
<1> HIDE DEF W
<1>6. /\ kr.cur = [keyring.cur EXCEPT ![s] = n] /\ kr.staged = keyring.staged
      /\ kr.own = [keyring.own EXCEPT ![new] = p]
      /\ kr.wraps = [keyring.wraps EXCEPT ![new] = W]
      /\ kr.quiet = keyring.quiet /\ kr.recovery = keyring.recovery
 BY <1>1 DEF NewVersion, Keyrings
<1>7. kr \in Keyrings BY <1>1, <1>2, <1>5 DEF NewVersion, Keyrings
<1> HIDE DEF kr, ks, fs
<1>8. \A t \in Scopes \ {s} : kr.cur[t] = keyring.cur[t] /\ kr.staged[t] = keyring.staged[t]
 BY <1>1, <1>6 DEF Keyrings
<1>9. Versions(kr, s) = N /\ Governing(kr, s) = new /\ ~ Rotating(kr, s)
 BY <1>1, <1>2, <1>6, KeyringConstants DEF Versions, Governing, Rotating, Current, Keyrings
<1>10. /\ \A v \in Slots : v[1] # s => kr.own[v] = keyring.own[v] /\ kr.wraps[v] = keyring.wraps[v]
       /\ kr.own[new] = p /\ kr.wraps[new] = W
 BY <1>1, <1>2, <1>6 DEF Keyrings
<1>11. new[1] = s /\ new \in k OBVIOUS
<1> HIDE DEF new, k
<1>12. /\ \A t \in Scopes \ {s} :
             /\ Versions(kr, t) = Versions(keyring, t) /\ Governing(kr, t) = Governing(keyring, t)
             /\ Rotating(kr, t) <=> Rotating(keyring, t)
             /\ Exists(kr, t) <=> Exists(keyring, t)
       /\ \A v \in AllVersions(kr) : /\ v \in Slots /\ v[1] \in Scopes /\ v \in Versions(kr, v[1])
                                     /\ v[1] # s => v \in AllVersions(keyring)
       /\ Rotations(kr) /\ Meant(kr, L)
 <2>1. Meant(keyring, L) BY <1>1 DEF Leftovers
 <2>2. \A v \in Versions(kr, s) : Password \in kr.wraps[v] =>
          kr.own[v] \/ kr.own[Governing(kr, s)] \/ s \in L
  BY <1>5, <1>9, <1>10
 <2> QED BY <1>1, <1>7, <1>8, <1>9, <1>10, <2>1, <2>2, OtherScopesKeep
<1>13. Shape(kr) BY <1>1, <1>9, <1>12 DEF Shape
<1>14. Changed(keyring, kr, N, k, I)
 <2>1. \A v \in Slots : kr.wraps[v] \subseteq keyring.wraps[v] \cup {Password}
  BY <1>1, <1>5, <1>6 DEF Keyrings
 <2>2. \A a \in Versions(kr, App) : a \notin N BY <1>1, <1>11 DEF Versions
 <2> QED BY <1>5, <1>6, <1>7, <1>9, <1>10, <1>11, <1>12, <1>13, <2>1, <2>2 DEF Changed
<1>15. AppChanged(keyring, kr, N, k)
 <2>1. /\ Versions(kr, App) = Versions(keyring, App)
       /\ Governing(kr, App) = Governing(keyring, App)
       /\ Governing(kr, App)[1] = App /\ Governing(kr, App) \in Slots
  BY <1>1, <1>12, GoverningIsVersion
 <2>2. \A a \in Versions(kr, App) : a \in Slots /\ a[1] = App
  BY <1>1, <1>7, VersionsAreSlots DEF Versions
 <2> QED BY <1>1, <1>10, <1>11, <2>1, <2>2, OneMaster DEF AppChanged
<1>16. Prepared(L, kr, k, I) BY <1>12, <1>14, <1>15, ChangePrepared
<1> HIDE DEF I
<1> QED BY <1>1, <1>3, <1>4, <1>16, SavesHome

\* What set_password and remove_password stage: a version of s with the other protection,
\* and under a new master password one without a password of each workspace of T.
StagesFor(s, T, b, kr) ==
    LET A == {s} \cup T
        N == {Staged(kr, t) : t \in A} IN
    /\ kr \in Keyrings /\ kr.cur = keyring.cur /\ kr.quiet = keyring.quiet
    /\ keyring.recovery = NoRecovery => kr.recovery = NoRecovery
    /\ \A t \in Scopes \ A : kr.staged[t] = keyring.staged[t]
    /\ \A t \in A : /\ Exists(keyring, t) /\ ~ Rotating(keyring, t)
                    /\ kr.staged[t] \in Serials /\ kr.staged[t] # keyring.cur[t]
    /\ s = App => \A v \in AllVersions(keyring) : Parent(kr.staged[App]) \notin keyring.wraps[v]
    /\ kr.own[Staged(kr, s)] = b /\ kr.wraps[Staged(kr, s)] = IF b THEN {Password} ELSE {}
    /\ \A t \in T : ~ kr.own[Staged(kr, t)] /\ kr.wraps[Staged(kr, t)] = {}
    /\ \A v \in Slots \ N : /\ kr.own[v] = keyring.own[v]
                            /\ v # Current(keyring, s) => kr.wraps[v] = keyring.wraps[v]
    /\ kr.wraps[Current(keyring, s)] = keyring.wraps[Current(keyring, s)]
                                          \cup (IF b THEN {Password} ELSE {})

\* A keyring staged like that can be given to a pass.
LEMMA StagedPrepared ==
  ASSUME NEW L \in SUBSET Workspaces, IInv(L), Home(L), Travels(keyring),
         NEW s \in Scopes, NEW T \in SUBSET (Workspaces \ {s}), NEW b \in BOOLEAN,
         NEW kr, StagesFor(s, T, b, kr), keyring.own[Current(keyring, s)] # b,
         NEW known, StagedKeys(kr, {s} \cup T) \subseteq known
  PROVE  Prepared(L, kr, known, Scopes)
<1> DEFINE A == {s} \cup T
           N == {Staged(kr, t) : t \in A}
<1>1. /\ keyring \in Keyrings /\ Shape(keyring) /\ Rotations(keyring) /\ Meant(keyring, L)
      /\ App \in Scopes /\ App \notin Workspaces /\ A \subseteq Scopes /\ s \in A
      /\ Workspaces \subseteq Scopes
 BY KeyringConstants DEF IInv, TypeOK, Sound, Home, Leftovers, Scopes
<1>2. /\ kr \in Keyrings /\ kr.cur = keyring.cur /\ kr.quiet = keyring.quiet
      /\ keyring.recovery = NoRecovery => kr.recovery = NoRecovery
      /\ \A t \in Scopes \ A : kr.staged[t] = keyring.staged[t]
      /\ \A t \in A : /\ Exists(keyring, t) /\ ~ Rotating(keyring, t)
                      /\ kr.staged[t] \in Serials /\ kr.staged[t] # keyring.cur[t]
      /\ s = App => \A v \in AllVersions(keyring) : Parent(kr.staged[App]) \notin keyring.wraps[v]
 BY DEF StagesFor
<1>3. /\ kr.own[Staged(kr, s)] = b /\ kr.wraps[Staged(kr, s)] = IF b THEN {Password} ELSE {}
      /\ \A t \in T : ~ kr.own[Staged(kr, t)] /\ kr.wraps[Staged(kr, t)] = {}
      /\ \A v \in Slots \ N : /\ kr.own[v] = keyring.own[v]
                              /\ v # Current(keyring, s) => kr.wraps[v] = keyring.wraps[v]
      /\ kr.wraps[Current(keyring, s)] = keyring.wraps[Current(keyring, s)]
                                            \cup (IF b THEN {Password} ELSE {})
 BY DEF StagesFor
<1>4. /\ \A t \in A : /\ Rotating(kr, t) /\ Governing(kr, t) = Staged(kr, t)
                      /\ Staged(kr, t)[1] = t /\ Staged(kr, t) \in N /\ Staged(kr, t) \in Slots
                      /\ Current(keyring, t) \in Slots /\ Current(keyring, t)[1] = t
                      /\ Versions(keyring, t) = {Current(keyring, t)}
                      /\ Governing(keyring, t) = Current(keyring, t)
                      /\ Versions(kr, t) = {Current(keyring, t), Staged(kr, t)}
                      /\ Current(keyring, t) \notin N /\ Current(kr, t) = Current(keyring, t)
 <2> SUFFICES ASSUME NEW t \in A
              PROVE  /\ Rotating(kr, t) /\ Governing(kr, t) = Staged(kr, t)
                     /\ Staged(kr, t)[1] = t /\ Staged(kr, t) \in N /\ Staged(kr, t) \in Slots
                     /\ Current(keyring, t) \in Slots /\ Current(keyring, t)[1] = t
                     /\ Versions(keyring, t) = {Current(keyring, t)}
                     /\ Governing(keyring, t) = Current(keyring, t)
                     /\ Versions(kr, t) = {Current(keyring, t), Staged(kr, t)}
                     /\ Current(keyring, t) \notin N /\ Current(kr, t) = Current(keyring, t)
  OBVIOUS
 <2>1. /\ kr.staged[t] \in Serials /\ kr.staged[t] # None /\ keyring.staged[t] = None
       /\ keyring.cur[t] \in Serials /\ keyring.cur[t] # None /\ kr.staged[t] # keyring.cur[t]
       /\ t \in Scopes
  BY <1>1, <1>2, KeyringConstants DEF Rotating, Exists, Keyrings
 <2>2. /\ Rotating(kr, t) /\ Governing(kr, t) = Staged(kr, t) /\ Staged(kr, t) = <<t, kr.staged[t]>>
       /\ Staged(kr, t)[1] = t /\ Staged(kr, t) \in Slots
       /\ Current(keyring, t) \in Slots /\ Current(keyring, t)[1] = t
       /\ Current(keyring, t) = <<t, keyring.cur[t]>> /\ Current(kr, t) = Current(keyring, t)
       /\ Governing(keyring, t) = Current(keyring, t)
  BY <1>2, <2>1 DEF Rotating, Governing, Staged, Current, Slots
 <2>3. Versions(keyring, t) = {Current(keyring, t)} BY <2>1, <2>2 DEF Versions
 <2>4. Versions(kr, t) = {Current(keyring, t), Staged(kr, t)} BY <1>2, <2>1, <2>2 DEF Versions
 <2>5. Current(keyring, t) \notin N
  <3> SUFFICES ASSUME NEW u \in A, Current(keyring, t) = Staged(kr, u)
               PROVE  FALSE
   OBVIOUS
  <3>1. t = u /\ keyring.cur[t] = kr.staged[u] BY <2>2 DEF Staged
  <3> QED BY <2>1, <3>1
 <2> QED BY <2>2, <2>3, <2>4, <2>5
<1>5. \A t \in Scopes \ A :
         /\ Versions(kr, t) = Versions(keyring, t) /\ Governing(kr, t) = Governing(keyring, t)
         /\ Rotating(kr, t) <=> Rotating(keyring, t)
         /\ Staged(kr, t) = Staged(keyring, t) /\ Current(kr, t) = Current(keyring, t)
 BY <1>2 DEF Versions, Governing, Rotating, Staged, Current
<1>6. \A v \in N : \E t \in A : v = Staged(kr, t) /\ v[1] = t BY <1>4
<1>7. \A v \in Slots : v \notin N => /\ keyring.wraps[v] \subseteq kr.wraps[v]
                                     /\ kr.wraps[v] \subseteq keyring.wraps[v] \cup {Password}
 BY <1>3
<1>8. \A v \in N : kr.wraps[v] = IF kr.own[v] THEN {Password} ELSE {} BY <1>3
<1> HIDE DEF A, N
<1>9. ASSUME NEW v \in AllVersions(kr)
      PROVE  /\ v \in Slots /\ v[1] \in Scopes /\ v \in Versions(kr, v[1])
             /\ v \notin N => v \in AllVersions(keyring) /\ v \in Versions(keyring, v[1])
 <2>1. v \in Slots /\ v[1] \in Scopes /\ v \in Versions(kr, v[1]) BY <1>2, VersionsAreSlots
 <2>2. v \notin N => v \in Versions(keyring, v[1]) BY <1>4, <1>5, <2>1
 <2> QED BY <2>1, <2>2 DEF AllVersions
<1>10. Shape(kr) BY <1>1, <1>2, <1>5 DEF Shape, Exists
<1>11. \A v \in N : v \in known /\ v = Governing(kr, v[1]) BY <1>4, <1>6 DEF StagedKeys, A
<1>12. Changed(keyring, kr, N, known, Scopes)
 <2>1. \A v \in Slots : kr.wraps[v] \subseteq keyring.wraps[v] \cup {Password} BY <1>7, <1>8
 <2>2. ASSUME NEW a \in Versions(kr, App), a \in N, NEW v \in AllVersions(keyring)
       PROVE  Parent(a[2]) \notin keyring.wraps[v]
  <3>1. PICK t \in A : a = Staged(kr, t) /\ a[1] = t BY <1>6, <2>2
  <3>2. t = App /\ a[2] = kr.staged[App] BY <2>2, <3>1 DEF Versions, Staged
  <3>3. s = App BY <1>1, <3>1, <3>2 DEF A
  <3> QED BY <1>2, <2>2, <3>2, <3>3
 <2>3. \A v \in AllVersions(kr) : v \notin N =>
          /\ v \in AllVersions(keyring) /\ kr.own[v] = keyring.own[v]
          /\ keyring.wraps[v] \subseteq kr.wraps[v]
          /\ kr.wraps[v] \subseteq keyring.wraps[v] \cup {Password}
  BY <1>3, <1>7, <1>9
 <2>4. \A v \in AllVersions(kr) : v \in N =>
          /\ kr.wraps[v] = IF kr.own[v] THEN {Password} ELSE {}
          /\ kr.own[v] \/ (v = Governing(kr, v[1]) /\ v \in known /\ v[1] \in Scopes)
  BY <1>8, <1>9, <1>11
 <2> QED BY <1>2, <1>10, <2>1, <2>2, <2>3, <2>4 DEF Changed
<1>13. AppChanged(keyring, kr, N, known)
 <2>1. CASE s = App
  <3>1. /\ Versions(kr, App) \subseteq known
        /\ Versions(keyring, App) \subseteq Versions(kr, App) /\ Governing(kr, App) \in known
        /\ \A a \in Versions(keyring, App) : a \notin N
   BY <1>1, <1>4, <2>1 DEF StagedKeys, A
  <3> QED BY <3>1 DEF AppChanged
 <2>2. CASE s # App
  <3>1. App \in Scopes \ A /\ App \notin A BY <1>1, <2>2 DEF A
  <3>2. Versions(kr, App) = Versions(keyring, App) /\ Governing(kr, App) = Governing(keyring, App)
   BY <1>5, <3>1
  <3>3. \A a \in Slots : a[1] = App => a \notin N /\ kr.own[a] = keyring.own[a]
   BY <1>3, <1>6, <3>1
  <3>4. \A a \in Versions(kr, App) : a \in Slots /\ a[1] = App
   BY <1>1, <1>2, VersionsAreSlots DEF Versions
  <3>5. Exists(keyring, App) BY <1>1, <1>2 DEF Shape, A
  <3>6. Governing(keyring, App) \in Versions(keyring, App) BY <1>1, <3>5, GoverningIsVersion
  <3> QED BY <1>1, <3>2, <3>3, <3>4, <3>6, OneMaster DEF AppChanged
 <2> QED BY <2>1, <2>2
<1>14. Rotations(kr)
 <2> SUFFICES ASSUME NEW t \in Scopes, Rotating(kr, t)
              PROVE  /\ kr.own[Staged(kr, t)] => Password \in kr.wraps[Current(kr, t)]
                     /\ Password \in kr.wraps[Staged(kr, t)] => kr.own[Staged(kr, t)]
                     /\ t = App => (kr.own[Staged(kr, t)] <=> ~ kr.own[Current(kr, t)])
  BY DEF Rotations
 <2>1. CASE t \notin A
  <3>1. /\ Staged(kr, t) \in Slots /\ Current(kr, t) \in Slots
        /\ Staged(kr, t)[1] = t /\ Current(kr, t)[1] = t /\ Rotating(keyring, t)
        /\ Staged(kr, t) = Staged(keyring, t) /\ Current(kr, t) = Current(keyring, t)
   BY <1>1, <1>5, <2>1 DEF Shape, Exists, Rotating, Staged, Current, Slots, Keyrings
  <3>2. Staged(kr, t) \notin N /\ Current(kr, t) \notin N BY <1>6, <2>1, <3>1
  <3>3. Current(kr, t) # Current(keyring, s) BY <1>1, <1>4, <2>1, <3>1
  <3>4. Staged(kr, t) # Current(keyring, s) BY <1>1, <1>4, <2>1, <3>1
  <3> QED BY <1>1, <1>3, <2>1, <3>1, <3>2, <3>3, <3>4 DEF Rotations
 <2>2. CASE t \in T BY <1>1, <1>3, <2>2 DEF Password
 <2>3. CASE t = s
  <3>1. /\ Current(kr, s) = Current(keyring, s) /\ Current(kr, s) \notin N
        /\ Current(kr, s) \in Slots
   BY <1>1, <1>4
  <3>2. kr.own[Current(kr, s)] = keyring.own[Current(keyring, s)] BY <1>3, <3>1
  <3>3. keyring.own[Current(keyring, s)] \in BOOLEAN BY <1>1, <3>1 DEF Keyrings
  <3> QED BY <1>3, <2>3, <3>1, <3>2, <3>3
 <2> QED BY <2>1, <2>2, <2>3 DEF A
<1>15. Meant(kr, L)
 <2> SUFFICES ASSUME NEW v \in AllVersions(kr), Password \in kr.wraps[v]
              PROVE  kr.own[v] \/ kr.own[Governing(kr, v[1])] \/ v[1] \in L
  BY DEF Meant
 <2>1. CASE v \in N BY <1>8, <2>1
 <2>2. CASE v \notin N /\ v = Current(keyring, s)
  <3>1. Governing(kr, v[1]) = Staged(kr, s) /\ keyring.own[v] \in BOOLEAN
   BY <1>1, <1>4, <1>9, <2>2 DEF Keyrings
  <3> QED BY <1>3, <1>9, <2>2, <3>1
 <2>3. CASE v \notin N /\ v # Current(keyring, s)
  <3>1. /\ v \in AllVersions(keyring) /\ v \in Versions(keyring, v[1])
        /\ Password \in keyring.wraps[v] /\ kr.own[v] = keyring.own[v]
   BY <1>3, <1>9, <2>3
  <3>2. keyring.own[v] \/ keyring.own[Governing(keyring, v[1])] \/ v[1] \in L
   BY <1>1, <3>1 DEF Meant
  <3>3. CASE v[1] \in A BY <1>4, <3>1, <3>2, <3>3
  <3>4. CASE v[1] \notin A
   <4>1. Governing(kr, v[1]) = Governing(keyring, v[1]) /\ Exists(keyring, v[1])
    BY <1>1, <1>5, <1>9, <3>1, <3>4 DEF Versions, Exists, Shape, Rotating
   <4>2. /\ Governing(keyring, v[1]) \in Slots /\ Governing(keyring, v[1])[1] = v[1]
    BY <1>1, <1>9, <4>1, GoverningIsVersion
   <4>3. Governing(keyring, v[1]) \notin N BY <1>6, <3>4, <4>2
   <4> QED BY <1>3, <3>1, <3>2, <4>1, <4>2, <4>3
  <3> QED BY <3>3, <3>4
 <2> QED BY <2>1, <2>2, <2>3
<1> QED BY <1>12, <1>13, <1>14, <1>15, ChangePrepared

\* change_password
LEMMA ChangePasswordHome ==
  ASSUME NEW L \in SUBSET Workspaces, IInv(L), Home(L), Travels(keyring),
         NEW s \in Scopes, ChangePassword(s)
  PROVE  Home(L)'
<1> DEFINE c  == Current(keyring, s)
           kr == [keyring EXCEPT !.wraps[c] = @ \cup {Password}]
           k  == WithAppKeys(keyring, devices, Known, lost)
           l  == FindsLost(keyring, devices, Known, lost, Versions(keyring, App))
           T  == {s}
<1>1. /\ TypeOK /\ KeysHere /\ keyring \in Keyrings
      /\ k \in SUBSET Slots
 BY SnapshotType DEF IInv, Home
<1>2. /\ Exists(keyring, s) /\ ~ Rotating(keyring, s) /\ keyring.own[c]
      /\ FinishProtectionChange(Reconcile(kr, devices, k, Scopes, l), T)
 BY DEF ChangePassword
<1>3. l = FALSE BY <1>1, NothingLost
<1>4. c \in AllVersions(keyring) /\ c \in Slots BY <1>1, <1>2, GoverningIsVersion DEF Governing
<1>5. Password \in keyring.wraps[c] BY <1>2, <1>4 DEF Travels
<1> HIDE DEF c, l, T
<1>6. kr = keyring BY <1>1, <1>4, <1>5 DEF Keyrings
<1>7. Prepared(L, kr, k, Scopes) BY <1>6, KeyringPrepared
<1> HIDE DEF kr, k
<1> QED BY <1>1, <1>2, <1>3, <1>7, ProtectionChangeHome

\* Keyring r gives every scope of T a version with the routes W, and leaves the others alone.
Stages(r, kr, T, own, W) ==
    LET N == {Staged(r, t) : t \in T} IN
    /\ r.cur = kr.cur /\ r.quiet = kr.quiet /\ r.recovery = kr.recovery
    /\ \A t \in T : /\ r.staged[t] \in Serials /\ r.staged[t] # kr.cur[t]
                    /\ r.staged[t] # kr.staged[t]
    /\ App \in T => /\ r.staged[App] # kr.recovery.mac
                   /\ \A v \in AllVersions(kr) : Parent(r.staged[App]) \notin kr.wraps[v]
    /\ \A t \in Scopes \ T : r.staged[t] = kr.staged[t]
    /\ \A v \in N : r.own[v] = own /\ r.wraps[v] = W
    /\ \A v \in Slots \ N : r.own[v] = kr.own[v] /\ r.wraps[v] = kr.wraps[v]

\* stage_version does so.
LEMMA StagingStages ==
  ASSUME NEW kr \in Keyrings, NEW T \in SUBSET Scopes,
         \A s \in T : Exists(kr, s) /\ FreshSerials(kr, s) # {},
         NEW own, NEW W
  PROVE  Stages(StageVersions(kr, T, own, W), kr, T, own, W)
<1> DEFINE r == StageVersions(kr, T, own, W)
           N == {Staged(r, t) : t \in T}
<1> DEFINE n(s) == Fresh(FreshSerials(kr, s))
<1>1. \A s \in T : n(s) \in Serials /\ n(s) # kr.cur[s] /\ n(s) # kr.staged[s]
 BY DEF Fresh, FreshSerials, UsedSerials
<1>2. App \in T => /\ n(App) # kr.recovery.mac
                  /\ \A v \in AllVersions(kr) : Parent(n(App)) \notin kr.wraps[v]
 BY DEF Fresh, FreshSerials, UsedSerials
<1> HIDE DEF n
<1>3. /\ r.cur = kr.cur /\ r.quiet = kr.quiet /\ r.recovery = kr.recovery
      /\ r.staged = [s \in Scopes |-> IF s \in T THEN n(s) ELSE kr.staged[s]]
      /\ r.own = [v \in Slots |-> IF v[1] \in T /\ v = <<v[1], n(v[1])>> THEN own
                                   ELSE kr.own[v]]
      /\ r.wraps = [v \in Slots |-> IF v[1] \in T /\ v = <<v[1], n(v[1])>> THEN W
                                     ELSE kr.wraps[v]]
 BY DEF StageVersions, Keyrings, n
<1> HIDE DEF r
<1>4. \A t \in T : Staged(r, t) = <<t, n(t)>> /\ <<t, n(t)>> \in Slots
 BY <1>1, <1>3 DEF Staged, Slots
<1>5. /\ \A v \in N : v \in Slots /\ v[1] \in T /\ v = <<v[1], n(v[1])>>
      /\ \A v \in Slots : v[1] \in T /\ v = <<v[1], n(v[1])>> => v \in N
 <2>1. \A t \in T : <<t, n(t)>>[1] = t OBVIOUS
 <2>2. ASSUME NEW v \in N
       PROVE  v \in Slots /\ v[1] \in T /\ v = <<v[1], n(v[1])>>
  <3>1. PICK t \in T : v = <<t, n(t)>> /\ v \in Slots BY <1>4
  <3> QED BY <3>1
 <2>3. ASSUME NEW v \in Slots, v[1] \in T, v = <<v[1], n(v[1])>>
       PROVE  v \in N
  BY <1>4, <2>3
 <2> QED BY <2>2, <2>3
<1>6. \A v \in N : r.own[v] = own /\ r.wraps[v] = W BY <1>3, <1>5
<1>7. \A v \in Slots \ N : r.own[v] = kr.own[v] /\ r.wraps[v] = kr.wraps[v] BY <1>3, <1>5
<1> QED BY <1>1, <1>2, <1>3, <1>6, <1>7 DEF Stages, r

\* What set_password and remove_password hand to a pass, that has the keys k.
StagedBy(s, T, b, kr, k) ==
    /\ StagesFor(s, T, b, kr) /\ StagedKeys(kr, {s} \cup T) \subseteq k
    /\ keyring.own[Current(keyring, s)] = ~ b
    /\ kr.recovery = IF s = App /\ b THEN NoRecovery ELSE keyring.recovery
    /\ s = App /\ ~ b => kr.staged[App] # keyring.recovery.mac
    /\ FinishProtectionChange(
          Reconcile(kr, devices, k, Scopes,
                    FindsLost(keyring, devices, Known, lost, Versions(keyring, App))),
          {s} \cup T)

\* remove_password does so with one version.
LEMMA RemovePasswordStages ==
  ASSUME NEW L \in SUBSET Workspaces, IInv(L), NEW s \in Scopes, RemovePassword(s)
  PROVE  \E kr \in Keyrings, k \in SUBSET Slots : StagedBy(s, {}, FALSE, kr, k)
<1> DEFINE k  == WithAppKeys(keyring, devices, Known, lost)
           l  == FindsLost(keyring, devices, Known, lost, Versions(keyring, App))
           S  == {s}
           f  == FALSE
           W  == {}
           T  == {}
           kr == StageVersions(keyring, S, f, W)
           k2 == k \cup StagedKeys(kr, S)
           N  == {Staged(kr, t) : t \in S}
<1>1. /\ keyring \in Keyrings /\ Shape(keyring) /\ FlagsMatch(keyring, L)
      /\ k \in SUBSET Slots
 BY SnapshotType DEF IInv, Sound
<1>2. /\ Exists(keyring, s) /\ ~ Rotating(keyring, s) /\ keyring.own[Current(keyring, s)]
      /\ FinishProtectionChange(Reconcile(kr, devices, k2, Scopes, l), S)
 BY DEF RemovePassword
<1>3. \A t \in S : Exists(keyring, t) /\ FreshSerials(keyring, t) # {}
 BY DEF RemovePassword, CanStage
<1>4. \A t \in Scopes \ S : Exists(keyring, t) => FlagMatches(keyring, t, L)
 BY <1>1 DEF FlagsMatch
<1>5. /\ S \in SUBSET Scopes /\ f \in BOOLEAN /\ W \in SUBSET Wraps /\ (f <=> Password \in W)
      /\ T \in SUBSET (Workspaces \ {s}) /\ S \cup T = {s} \cup T
      /\ W = IF f THEN {Password} ELSE {}
 OBVIOUS
<1>7. ~ f /\ (\A t : t \notin T) /\ s \in S /\ \A t \in S : t = s OBVIOUS
<1> HIDE DEF f, W, S, T
<1>8. /\ kr \in Keyrings
      /\ \A t \in S : Staged(kr, t) \in Slots /\ Current(kr, t) \in Slots
 BY <1>1, <1>3, <1>4, <1>5, StagingKeeps
<1>9. /\ kr.cur = keyring.cur /\ kr.quiet = keyring.quiet /\ kr.recovery = keyring.recovery
      /\ \A t \in S : /\ kr.staged[t] \in Serials /\ kr.staged[t] # keyring.cur[t]
                      /\ kr.staged[t] # keyring.staged[t]
      /\ App \in S => /\ kr.staged[App] # keyring.recovery.mac
                     /\ \A v \in AllVersions(keyring) : Parent(kr.staged[App]) \notin keyring.wraps[v]
      /\ \A t \in Scopes \ S : kr.staged[t] = keyring.staged[t]
      /\ \A v \in N : kr.own[v] = f /\ kr.wraps[v] = W
      /\ \A v \in Slots \ N : kr.own[v] = keyring.own[v] /\ kr.wraps[v] = keyring.wraps[v]
 <2>1. Stages(kr, keyring, S, f, W) BY <1>1, <1>3, <1>5, StagingStages
 <2> HIDE DEF kr
 <2> QED BY <2>1 DEF Stages
<1> HIDE DEF kr, k
<1>10. k2 \in SUBSET Slots /\ StagedKeys(kr, S) \subseteq k2 BY <1>1, <1>8 DEF StagedKeys
<1> HIDE DEF k2
<1>11. StagesFor(s, T, f, kr)
 <2>1. {Staged(kr, t) : t \in {s} \cup T} = N /\ Staged(kr, s) \in N /\ {s} \cup T = S
  BY <1>5, <1>7
 <2>2. Current(keyring, s) \in Slots /\ Current(keyring, s) \notin N
  <3>1. Current(keyring, s) \in Slots BY <1>1, <1>2, GoverningIsVersion DEF Governing
  <3>2. \A t \in S : Current(keyring, s) # Staged(kr, t) BY <1>7, <1>9 DEF Current, Staged
  <3> QED BY <3>1, <3>2
 <2> HIDE DEF N
 <2> QED BY <1>2, <1>5, <1>7, <1>8, <1>9, <2>1, <2>2 DEF StagesFor
<1>12. StagedBy(s, T, f, kr, k2)
 <2>1. StagedKeys(kr, {s} \cup T) \subseteq k2 /\ keyring.own[Current(keyring, s)] = ~ f
  BY <1>2, <1>5, <1>7, <1>10
 <2>2. FinishProtectionChange(Reconcile(kr, devices, k2, Scopes, l), {s} \cup T)
  <3>1. {s} \cup T = S BY <1>5, <1>7
  <3> QED BY <1>2, <3>1
 <2> QED BY <1>7, <1>9, <1>11, <2>1, <2>2 DEF StagedBy
<1> QED BY <1>8, <1>10, <1>12 DEF T, f

\* set_password does so with a version of each scope whose protection it changes.
LEMMA SetPasswordStages ==
  ASSUME NEW L \in SUBSET Workspaces, IInv(L), NEW s \in Scopes, SetPassword(s)
  PROVE  \E T \in SUBSET (Workspaces \ {s}), kr \in Keyrings, k \in SUBSET Slots :
            StagedBy(s, T, TRUE, kr, k)
<1> DEFINE k   == WithAppKeys(keyring, devices, Known, lost)
           l   == FindsLost(keyring, devices, Known, lost, Versions(keyring, App))
           c   == Current(keyring, s)
           kr1 == [keyring EXCEPT !.wraps[c] = @ \cup {Password}]
           S   == {s}
           y   == TRUE
           P   == {Password}
           st  == StageVersions(kr1, S, y, P)
           kr2 == [st EXCEPT !.recovery = IF s = App THEN NoRecovery ELSE @]
           k2  == k \cup StagedKeys(kr2, S)
           T   == IF s = App THEN Transitioning(keyring, kr2, k2) ELSE {}
           f   == FALSE
           W   == {}
           kr3 == StageVersions(kr2, T, f, W)
           k3  == k2 \cup StagedKeys(kr3, T)
           A   == S \cup T
<1>1. /\ keyring \in Keyrings /\ Shape(keyring) /\ FlagsMatch(keyring, L)
      /\ k \in SUBSET Slots
 BY SnapshotType DEF IInv, Sound
<1>2. /\ Exists(keyring, s) /\ ~ Rotating(keyring, s) /\ ~ keyring.own[c]
      /\ FreshSerials(kr1, s) # {}
      /\ \A t \in T : FreshSerials(kr2, t) # {}
      /\ FinishProtectionChange(Reconcile(kr3, devices, k3, Scopes, l), A)
 BY DEF SetPassword, CanStage
<1>4. /\ S \in SUBSET Scopes /\ y \in BOOLEAN /\ P \in SUBSET Wraps /\ (y <=> Password \in P)
      /\ f \in BOOLEAN /\ W \in SUBSET Wraps /\ (f <=> Password \in W)
      /\ y = TRUE /\ ~ f /\ P = {Password} /\ W = {} /\ s \in S /\ \A t \in S : t = s
 BY DEF Wraps
<1>5. c \in Slots /\ c[1] = s BY <1>1, <1>2, GoverningIsVersion DEF Governing
<1>6. /\ kr1 \in Keyrings /\ Shape(kr1) /\ kr1.cur = keyring.cur
      /\ \A t \in Scopes \ S : Exists(kr1, t) => FlagMatches(kr1, t, L)
 BY <1>1, WithPasswordRoute
<1>7. /\ kr1.staged = keyring.staged /\ kr1.own = keyring.own /\ kr1.quiet = keyring.quiet
      /\ kr1.recovery = keyring.recovery
      /\ \A v \in Slots : v # c => kr1.wraps[v] = keyring.wraps[v]
      /\ kr1.wraps[c] = keyring.wraps[c] \cup {Password}
 BY <1>1, <1>5 DEF Keyrings
<1>8. \A t \in S : Exists(kr1, t) /\ FreshSerials(kr1, t) # {}
 <2> HIDE DEF kr1
 <2> QED BY <1>2, <1>6 DEF Exists
<1> HIDE DEF kr1, k, c, S, y, P, f, W
<1>9. /\ st \in Keyrings /\ Shape(st) /\ FlagsMatch(st, L) /\ st.cur = kr1.cur
      /\ \A t \in S : Staged(st, t) \in Slots /\ Current(st, t) \in Slots
 <2>1. kr1 \in Keyrings /\ Shape(kr1) /\ S \in SUBSET Scopes BY <1>4, <1>6
 <2>2. \A t \in Scopes \ S : Exists(kr1, t) => FlagMatches(kr1, t, L) BY <1>6
 <2>3. y \in BOOLEAN /\ P \in SUBSET Wraps /\ (y <=> Password \in P) BY <1>4
 <2>4. st \in Keyrings /\ Shape(st) /\ FlagsMatch(st, L) BY <1>8, <2>1, <2>2, <2>3, StagingKeeps
 <2>5. \A t \in S : Staged(st, t) \in Slots BY <1>8, <2>1, <2>2, <2>3, StagingKeeps
 <2>6. \A t \in S : Current(st, t) \in Slots BY <1>8, <2>1, <2>2, <2>3, StagingKeeps
 <2>7. st.cur = kr1.cur BY <2>1 DEF StageVersions, Keyrings
 <2> QED BY <2>4, <2>5, <2>6, <2>7
<1>10. Stages(st, kr1, S, y, P) BY <1>4, <1>6, <1>8, StagingStages
<1> HIDE DEF st
<1>11. /\ kr2 \in Keyrings /\ Shape(kr2) /\ FlagsMatch(kr2, L)
       /\ kr2.cur = st.cur /\ kr2.staged = st.staged
       /\ kr2.own = st.own /\ kr2.wraps = st.wraps /\ kr2.quiet = st.quiet
       /\ kr2.recovery = IF s = App THEN NoRecovery ELSE st.recovery
 <2> DEFINE e == IF s = App THEN NoRecovery ELSE st.recovery
 <2>1. e \in {NoRecovery} \cup [id : RecoveryIds, mac : Serials, held : BOOLEAN]
  BY <1>9 DEF Keyrings
 <2>2. kr2 = [st EXCEPT !.recovery = e] OBVIOUS
 <2>3. /\ kr2.own = st.own /\ kr2.wraps = st.wraps /\ kr2.quiet = st.quiet
       /\ kr2.recovery = e
  BY <1>9 DEF Keyrings
 <2> HIDE DEF e
 <2> QED BY <1>9, <2>1, <2>2, <2>3, WithRecovery
<1> HIDE DEF kr2
<1>12. k2 \in SUBSET Slots /\ StagedKeys(kr2, S) \subseteq k2
 BY <1>1, <1>9, <1>11 DEF StagedKeys, Staged, Current
<1> HIDE DEF k2
<1>13. /\ T \in SUBSET (Workspaces \ {s}) /\ T \in SUBSET Scopes
       /\ \A t \in T : /\ Exists(kr2, t) /\ FreshSerials(kr2, t) # {}
                       /\ Exists(keyring, t) /\ ~ Rotating(kr2, t)
 BY <1>2, <1>6, <1>9, <1>11, KeyringConstants DEF Transitioning, Scopes, Exists
<1> HIDE DEF T
<1>14. \A t \in Scopes \ T : Exists(kr2, t) => FlagMatches(kr2, t, L) BY <1>11 DEF FlagsMatch
<1>15. /\ kr3 \in Keyrings
       /\ \A t \in T : Staged(kr3, t) \in Slots /\ Current(kr3, t) \in Slots
 BY <1>4, <1>11, <1>13, <1>14, StagingKeeps
<1>16. Stages(kr3, kr2, T, f, W) BY <1>11, <1>13, StagingStages
<1> HIDE DEF kr3
<1>17. k3 \in SUBSET Slots /\ StagedKeys(kr3, T) \subseteq k3 /\ StagedKeys(kr2, S) \subseteq k3
 BY <1>12, <1>15 DEF StagedKeys
<1> HIDE DEF k3
<1>18. /\ kr3.cur = keyring.cur /\ kr3.quiet = keyring.quiet
       /\ kr3.recovery = IF s = App THEN NoRecovery ELSE keyring.recovery
       /\ \A t \in T : kr3.staged[t] \in Serials /\ kr3.staged[t] # keyring.cur[t]
       /\ kr3.staged[s] \in Serials /\ kr3.staged[s] # keyring.cur[s]
       /\ kr3.staged[s] = st.staged[s] /\ kr2.staged[s] = st.staged[s]
       /\ \A t \in Scopes \ A : kr3.staged[t] = keyring.staged[t]
       /\ \A t \in T : ~ Rotating(keyring, t)
 <2>1. /\ kr3.cur = kr2.cur /\ kr3.quiet = kr2.quiet /\ kr3.recovery = kr2.recovery
       /\ \A t \in T : kr3.staged[t] \in Serials /\ kr3.staged[t] # kr2.cur[t]
       /\ \A t \in Scopes \ T : kr3.staged[t] = kr2.staged[t]
  BY <1>16 DEF Stages
 <2>2. /\ st.cur = kr1.cur /\ st.quiet = kr1.quiet /\ st.recovery = kr1.recovery
       /\ \A t \in S : st.staged[t] \in Serials /\ st.staged[t] # kr1.cur[t]
       /\ \A t \in Scopes \ S : st.staged[t] = kr1.staged[t]
  BY <1>10 DEF Stages
 <2>3. s \notin T /\ \A t \in T : t \notin S /\ t \in Scopes BY <1>4, <1>13
 <2> QED BY <1>4, <1>6, <1>7, <1>11, <1>13, <2>1, <2>2, <2>3 DEF Rotating
<1> DEFINE NS == {Staged(st, t) : t \in S}
           NT == {Staged(kr3, t) : t \in T}
           N  == {Staged(kr3, t) : t \in {s} \cup T}
<1>19. /\ Staged(st, s) = Staged(kr3, s) /\ NS = {Staged(kr3, s)} /\ N = NS \cup NT
       /\ Staged(kr3, s) \in NS /\ Staged(kr3, s) \notin NT /\ Staged(kr3, s) \in Slots
       /\ c \notin NT /\ c \notin NS /\ \A t \in T : Staged(kr3, t) \in NT
 <2>1. Staged(st, s) = Staged(kr3, s) /\ NS = {Staged(kr3, s)} /\ N = NS \cup NT
  BY <1>4, <1>18 DEF Staged
 <2>2. \A t \in T : Staged(kr3, t)[1] = t /\ t # s BY <1>13 DEF Staged
 <2>3. Staged(kr3, s)[1] = s /\ Staged(kr3, s) \in Slots /\ c # Staged(kr3, s)
  BY <1>18 DEF Staged, Slots, c, Current
 <2> QED BY <1>5, <2>1, <2>2, <2>3
<1>20. /\ \A v \in NS : st.own[v] = y /\ st.wraps[v] = P
       /\ \A v \in Slots \ NS : st.own[v] = kr1.own[v] /\ st.wraps[v] = kr1.wraps[v]
       /\ \A v \in NT : kr3.own[v] = f /\ kr3.wraps[v] = W
       /\ \A v \in Slots \ NT : kr3.own[v] = kr2.own[v] /\ kr3.wraps[v] = kr2.wraps[v]
 BY <1>10, <1>16 DEF Stages
<1>21. s = App => \A v \in AllVersions(keyring) : Parent(kr3.staged[App]) \notin keyring.wraps[v]
 <2> SUFFICES ASSUME s = App, NEW v \in AllVersions(keyring)
              PROVE  Parent(kr3.staged[App]) \notin keyring.wraps[v]
  OBVIOUS
 <2>1. v \in AllVersions(kr1) /\ v \in Slots
  BY <1>1, <1>6, <1>7, VersionsAreSlots DEF AllVersions, Versions
 <2>2. Parent(kr3.staged[App]) \notin kr1.wraps[v] BY <1>4, <1>10, <1>18, <2>1 DEF Stages
 <2> QED BY <1>7, <2>1, <2>2
<1> HIDE DEF NS, NT, N
<1>22. /\ kr3.own[Staged(kr3, s)] = y /\ kr3.wraps[Staged(kr3, s)] = P
       /\ \A t \in T : ~ kr3.own[Staged(kr3, t)] /\ kr3.wraps[Staged(kr3, t)] = {}
       /\ \A v \in Slots \ N : /\ kr3.own[v] = keyring.own[v]
                               /\ v # c => kr3.wraps[v] = keyring.wraps[v]
       /\ kr3.wraps[c] = keyring.wraps[c] \cup {Password}
 <2>1. kr3.own[Staged(kr3, s)] = y /\ kr3.wraps[Staged(kr3, s)] = P BY <1>11, <1>19, <1>20
 <2>2. \A t \in T : ~ kr3.own[Staged(kr3, t)] /\ kr3.wraps[Staged(kr3, t)] = {}
  BY <1>4, <1>19, <1>20
 <2>3. ASSUME NEW v \in Slots, v \notin N
       PROVE  kr3.own[v] = keyring.own[v] /\ (v # c => kr3.wraps[v] = keyring.wraps[v])
  <3>1. v \notin NS /\ v \notin NT BY <1>19, <2>3
  <3>2. kr3.own[v] = kr1.own[v] /\ kr3.wraps[v] = kr1.wraps[v] BY <1>11, <1>20, <3>1
  <3> QED BY <1>7, <3>2
 <2>4. kr3.wraps[c] = keyring.wraps[c] \cup {Password}
  <3>1. kr3.wraps[c] = kr1.wraps[c] BY <1>5, <1>11, <1>19, <1>20
  <3> QED BY <1>7, <3>1
 <2> QED BY <2>1, <2>2, <2>3, <2>4
<1>23. StagesFor(s, T, y, kr3)
 BY <1>2, <1>4, <1>13, <1>15, <1>18, <1>21, <1>22 DEF StagesFor, A, N, c
<1>24. StagedBy(s, T, y, kr3, k3)
 <2>1. StagedKeys(kr3, {s} \cup T) \subseteq k3
  <3>1. Staged(kr3, s) = Staged(kr2, s) /\ Current(kr3, s) = Current(kr2, s)
   BY <1>6, <1>9, <1>11, <1>18 DEF Staged, Current
  <3> QED BY <1>4, <1>17, <3>1 DEF StagedKeys
 <2>2. keyring.own[Current(keyring, s)] = ~ y BY <1>2, <1>4, <1>5, <1>1 DEF c, Keyrings
 <2>3. FinishProtectionChange(Reconcile(kr3, devices, k3, Scopes, l), {s} \cup T)
  BY <1>2 DEF A, S
 <2> QED BY <1>4, <1>18, <1>23, <2>1, <2>2, <2>3 DEF StagedBy
<1> QED BY <1>13, <1>15, <1>17, <1>24 DEF y

\* Both stay at home.
LEMMA StagedHome ==
  ASSUME NEW L \in SUBSET Workspaces, IInv(L), Home(L), Travels(keyring),
         NEW s \in Scopes, NEW T \in SUBSET (Workspaces \ {s}), NEW b \in BOOLEAN,
         NEW kr \in Keyrings, NEW k \in SUBSET Slots, StagedBy(s, T, b, kr, k)
  PROVE  Home(L)'
<1> DEFINE l == FindsLost(keyring, devices, Known, lost, Versions(keyring, App))
           A == {s} \cup T
<1>1. l = FALSE
 <2>1. keyring \in Keyrings /\ KeysHere BY DEF IInv, TypeOK, Home
 <2> QED BY <2>1, NothingLost
<1>2. FinishProtectionChange(Reconcile(kr, devices, k, Scopes, l), A) BY DEF StagedBy
<1>3. Prepared(L, kr, k, Scopes)
 <2>1. /\ StagesFor(s, T, b, kr) /\ StagedKeys(kr, {s} \cup T) \subseteq k
       /\ keyring.own[Current(keyring, s)] # b
  BY DEF StagedBy
 <2> QED BY <2>1, StagedPrepared
<1> HIDE DEF l, A
<1> QED BY <1>1, <1>2, <1>3, ProtectionChangeHome

\* remove_password and set_password
LEMMA PasswordsHome ==
  ASSUME NEW L \in SUBSET Workspaces, IInv(L), Home(L), Travels(keyring),
         NEW s \in Scopes, RemovePassword(s) \/ SetPassword(s)
  PROVE  Home(L)'
<1>1. CASE RemovePassword(s)
 <2> DEFINE T == {}
            b == FALSE
 <2>1. \E kr \in Keyrings, k \in SUBSET Slots : StagedBy(s, T, b, kr, k)
  BY <1>1, RemovePasswordStages
 <2>2. T \in SUBSET (Workspaces \ {s}) /\ b \in BOOLEAN OBVIOUS
 <2> HIDE DEF T, b
 <2> QED BY <2>1, <2>2, StagedHome
<1>2. CASE SetPassword(s)
 <2> DEFINE b == TRUE
 <2>1. \E T \in SUBSET (Workspaces \ {s}), kr \in Keyrings, k \in SUBSET Slots :
          StagedBy(s, T, b, kr, k)
  BY <1>2, SetPasswordStages
 <2>2. b \in BOOLEAN OBVIOUS
 <2> HIDE DEF b
 <2> QED BY <2>1, <2>2, StagedHome
<1> QED BY <1>1, <1>2

\* The end of a rotation of s: the version `kept` is the only one left.
LEMMA EndedPrepared ==
  ASSUME NEW L \in SUBSET Workspaces, IInv(L), Home(L), Travels(keyring),
         NEW s \in Scopes, Rotating(keyring, s), NEW kept,
         kept = Staged(keyring, s) \/ (kept = Current(keyring, s) /\ s \in L),
         NEW kr \in Keyrings, kr.quiet = keyring.quiet, kr.recovery = keyring.recovery,
         kr.cur[s] = kept[2], kr.staged[s] = None,
         \A t \in Scopes \ {s} : kr.cur[t] = keyring.cur[t] /\ kr.staged[t] = keyring.staged[t],
         \A v \in Slots : v = kept \/ v[1] # s =>
            kr.own[v] = keyring.own[v] /\ kr.wraps[v] = keyring.wraps[v],
         \A v \in Slots : kr.wraps[v] \subseteq keyring.wraps[v],
         NEW known
  PROVE  Prepared(L, kr, known, Scopes)
<1> DEFINE N == {}
<1>1. /\ keyring \in Keyrings /\ Shape(keyring) /\ Rotations(keyring) /\ Meant(keyring, L)
      /\ App \in Scopes /\ App \notin L
 BY KeyringConstants DEF IInv, TypeOK, Sound, Home, Leftovers, Scopes
<1>2. /\ kept \in Slots /\ kept[1] = s /\ kept = <<s, kept[2]>> /\ kept[2] # None
      /\ kept \in Versions(keyring, s) /\ kept \in AllVersions(keyring)
 BY <1>1, KeyringConstants
    DEF Versions, AllVersions, Rotating, Staged, Current, Slots, Keyrings, Shape, Exists
<1>3. Versions(kr, s) = {kept} /\ Governing(kr, s) = kept /\ ~ Rotating(kr, s) /\ Exists(kr, s)
 BY <1>2 DEF Versions, Governing, Rotating, Current, Exists
<1>4. /\ \A t \in Scopes \ {s} :
             /\ Versions(kr, t) = Versions(keyring, t) /\ Governing(kr, t) = Governing(keyring, t)
             /\ Rotating(kr, t) <=> Rotating(keyring, t)
             /\ Exists(kr, t) <=> Exists(keyring, t)
      /\ \A v \in AllVersions(kr) : /\ v \in Slots /\ v[1] \in Scopes /\ v \in Versions(kr, v[1])
                                    /\ v[1] # s => v \in AllVersions(keyring)
      /\ Rotations(kr) /\ Meant(kr, L)
 <2>1. \A v \in Versions(kr, s) : Password \in kr.wraps[v] =>
          kr.own[v] \/ kr.own[Governing(kr, s)] \/ s \in L
  BY <1>1, <1>2, <1>3 DEF Rotations
 <2>2. \A v \in Slots : v[1] # s => kr.own[v] = keyring.own[v] /\ kr.wraps[v] = keyring.wraps[v]
  OBVIOUS
 <2> QED BY SMTT(30), <1>1, <1>3, <2>1, <2>2, OtherScopesKeep
<1>5. Shape(kr) BY <1>1, <1>3, <1>4 DEF Shape
<1>6. \A v \in AllVersions(kr) : /\ v \in AllVersions(keyring) /\ kr.own[v] = keyring.own[v]
                                 /\ kr.wraps[v] = keyring.wraps[v]
 <2> SUFFICES ASSUME NEW v \in AllVersions(kr)
              PROVE  v \in AllVersions(keyring) /\ (v = kept \/ v[1] # s) /\ v \in Slots
  OBVIOUS
 <2>1. v[1] = s => v = kept BY <1>3, <1>4
 <2> QED BY <1>2, <1>4, <2>1
<1> HIDE DEF N
<1>7. \A v : v \notin N BY DEF N
<1>8. Changed(keyring, kr, N, known, Scopes) BY <1>5, <1>6, <1>7 DEF Changed
<1>9. AppChanged(keyring, kr, N, known)
 <2>1. Governing(kr, App) = Governing(keyring, App)
  <3>1. CASE s = App BY <1>1, <1>3, <3>1 DEF Governing
  <3>2. CASE s # App BY <1>1, <1>4, <3>2
  <3> QED BY <3>1, <3>2
 <2>2. Exists(kr, App) BY <1>3, <1>5 DEF Shape
 <2>3. Governing(kr, App) \in Versions(kr, App) /\ Governing(kr, App) \in AllVersions(kr)
  BY <1>1, <2>2, GoverningIsVersion
 <2>4. Versions(kr, App) \subseteq AllVersions(kr) BY <1>1 DEF AllVersions
 <2>5. ASSUME NEW a \in Versions(kr, App), kr.own[a], keyring.own[Governing(keyring, App)]
       PROVE  a = Governing(kr, App)
  BY <1>1, <1>4, <1>6, <2>1, <2>3, <2>4, <2>5, OneMaster
 <2> QED BY <1>6, <1>7, <2>1, <2>3, <2>5 DEF AppChanged
<1> QED BY <1>4, <1>8, <1>9, ChangePrepared

\* commit_rotation and abort_rotation
LEMMA RotationEndHome ==
  ASSUME NEW L \in SUBSET Workspaces, IInv(L), Home(L), Travels(keyring), Distinct(keyring),
         NEW s \in Scopes, CommitRotation(s) \/ (s \in L /\ AbortRotation(s))
  PROVE  Home(L)'
<1> DEFINE new == Staged(keyring, s)
           old == Current(keyring, s)
           U == {}
           I == Scopes
<1>1. /\ keyring \in Keyrings /\ Shape(keyring) /\ lost = FALSE /\ Known \in SUBSET Slots
      /\ I \in SUBSET Scopes
 BY SnapshotType DEF IInv, TypeOK, Sound, Home, KeysHere
<1>2. Rotating(keyring, s) BY DEF CommitRotation, AbortRotation
<1>3. /\ new \in Slots /\ old \in Slots /\ new # old /\ new[1] = s /\ old[1] = s
      /\ new[2] = keyring.staged[s] /\ old[2] = keyring.cur[s]
      /\ new[2] \in Serials
 BY <1>1, <1>2 DEF Staged, Current, Slots, Distinct, Rotating, Shape, Exists, Keyrings
<1>4. \A v \in Slots : keyring.own[v] \in BOOLEAN BY <1>1 DEF Keyrings
<1>5. ASSUME NEW v0 \in {old, new}
      PROVE  /\ Without(keyring, {v0}) \in Keyrings
             /\ \A v \in Slots : v # v0 =>
                   /\ Without(keyring, {v0}).own[v] = keyring.own[v]
                   /\ Without(keyring, {v0}).wraps[v] = keyring.wraps[v]
             /\ \A v \in Slots : Without(keyring, {v0}).wraps[v] \subseteq keyring.wraps[v]
             /\ Without(keyring, {v0}).cur = keyring.cur
             /\ Without(keyring, {v0}).staged = keyring.staged
             /\ Without(keyring, {v0}).quiet = keyring.quiet
             /\ Without(keyring, {v0}).recovery = keyring.recovery
 BY <1>1, <1>4 DEF Without, Keyrings
<1>6. CASE CommitRotation(s)
 <2> DEFINE w  == Without(keyring, {old})
            kr == [w EXCEPT !.cur[s] = new[2], !.staged[s] = None]
            ks == (keys \ {old}) \cup {new}
            fs == fieldKeys \cup {s}
 <2>1. Saves(Reconcile(kr, devices, Known, I, lost), ks, fs, reveal, U)
  BY <1>6 DEF CommitRotation
 <2>2. /\ w \in Keyrings /\ w.cur = keyring.cur /\ w.staged = keyring.staged
       /\ w.quiet = keyring.quiet /\ w.recovery = keyring.recovery
       /\ \A v \in Slots : v # old => w.own[v] = keyring.own[v] /\ w.wraps[v] = keyring.wraps[v]
       /\ \A v \in Slots : w.wraps[v] \subseteq keyring.wraps[v]
  BY <1>5
 <2> HIDE DEF w, new, old, ks, fs, U
 <2>3. /\ kr \in Keyrings /\ kr.quiet = keyring.quiet /\ kr.recovery = keyring.recovery
       /\ kr.cur[s] = new[2] /\ kr.staged[s] = None
       /\ \A t \in Scopes \ {s} : kr.cur[t] = keyring.cur[t] /\ kr.staged[t] = keyring.staged[t]
       /\ kr.own = w.own /\ kr.wraps = w.wraps
  BY <1>3, <2>2 DEF Keyrings
 <2> HIDE DEF kr
 <2>4. Prepared(L, kr, Known, Scopes)
  <3>1. /\ \A v \in Slots : v = new \/ v[1] # s =>
              kr.own[v] = keyring.own[v] /\ kr.wraps[v] = keyring.wraps[v]
        /\ \A v \in Slots : kr.wraps[v] \subseteq keyring.wraps[v]
   BY <1>3, <2>2, <2>3
  <3>2. new = Staged(keyring, s) BY DEF new
  <3> QED BY <1>2, <2>3, <3>1, <3>2, EndedPrepared
 <2> HIDE DEF I
 <2> QED BY <1>1, <2>1, <2>4, SavesHome DEF I
<1>7. CASE s \in L /\ AbortRotation(s)
 <2> DEFINE w  == Without(keyring, {new})
            kr == [w EXCEPT !.staged[s] = None]
            ks == keys \ {new}
 <2>1. Saves(Reconcile(kr, devices, Known, I, lost), ks, fieldKeys, reveal, U)
  BY <1>7 DEF AbortRotation
 <2>2. /\ w \in Keyrings /\ w.cur = keyring.cur /\ w.staged = keyring.staged
       /\ w.quiet = keyring.quiet /\ w.recovery = keyring.recovery
       /\ \A v \in Slots : v # new => w.own[v] = keyring.own[v] /\ w.wraps[v] = keyring.wraps[v]
       /\ \A v \in Slots : w.wraps[v] \subseteq keyring.wraps[v]
  BY <1>5
 <2> HIDE DEF w, new, old, ks, U
 <2>3. /\ kr \in Keyrings /\ kr.quiet = keyring.quiet /\ kr.recovery = keyring.recovery
       /\ kr.cur[s] = old[2] /\ kr.staged[s] = None
       /\ \A t \in Scopes \ {s} : kr.cur[t] = keyring.cur[t] /\ kr.staged[t] = keyring.staged[t]
       /\ kr.own = w.own /\ kr.wraps = w.wraps
  BY <1>3, <2>2 DEF Keyrings
 <2> HIDE DEF kr
 <2>4. Prepared(L, kr, Known, Scopes)
  <3>1. /\ \A v \in Slots : v = old \/ v[1] # s =>
              kr.own[v] = keyring.own[v] /\ kr.wraps[v] = keyring.wraps[v]
        /\ \A v \in Slots : kr.wraps[v] \subseteq keyring.wraps[v]
   BY <1>3, <2>2, <2>3
  <3>2. old = Current(keyring, s) BY DEF old
  <3> QED BY <1>2, <1>7, <2>3, <3>1, <3>2, EndedPrepared
 <2> HIDE DEF I
 <2> QED BY <1>1, <2>1, <2>4, SavesHome DEF I
<1> QED BY <1>6, <1>7

--------------------------------------------------
(* Every step. *)

\* No operation takes the data anywhere.
LEMMA OperationStays ==
  ASSUME Operation
  PROVE  moved' = moved
<1>1. ASSUME NEW kr, NEW ks, NEW fs, NEW rv, NEW l, NEW U, Finish(kr, ks, fs, rv, l, U)
      PROVE  moved' = moved
 BY <1>1 DEF Finish
<1>2. ASSUME NEW R, NEW ks, NEW fs, NEW rv, NEW U, Saves(R, ks, fs, rv, U)
      PROVE  moved' = moved
 BY <1>1, <1>2 DEF Saves
<1>3. ASSUME NEW R, NEW T, FinishProtectionChange(R, T)
      PROVE  moved' = moved
 BY <1>2, <1>3 DEF FinishProtectionChange
<1>4. ASSUME NEW R, NEW ks, NEW fs, NEW l, NEW U, Repairs(R, ks, fs, l, U)
      PROVE  moved' = moved
 BY <1>1, <1>4 DEF Repairs
<1>5. ASSUME NEW s, NEW found, CompleteUnlock(s, found)
      PROVE  moved' = moved
 BY <1>4, <1>5 DEF CompleteUnlock
<1>6. Initialize => moved' = moved BY <1>2 DEF Initialize
<1>7. \A ids, P : InitializeFromExport(ids, P) => moved' = moved
 BY <1>2 DEF InitializeFromExport
<1>8. ASSUME NEW s
      PROVE  OpenScope(s) \/ UnlockWithPassword(s) \/ UnlockWithPresence(s) => moved' = moved
 BY <1>5 DEF OpenScope, UnlockWithPassword, UnlockWithPresence
<1>9. ASSUME NEW s, NEW p PROVE CreateScope(s, p) => moved' = moved
 BY <1>2 DEF CreateScope
<1>10. ASSUME NEW s PROVE DeleteScope(s) => moved' = moved
 BY <1>1 DEF DeleteScope
<1>11. ASSUME NEW s PROVE ChangePassword(s) \/ RemovePassword(s) => moved' = moved
 BY <1>3 DEF ChangePassword, RemovePassword
<1>12. ASSUME NEW s PROVE SetPassword(s) => moved' = moved
 BY <1>3 DEF SetPassword
<1>13. ASSUME NEW s PROVE EnablePresence(s) \/ DisablePresence(s) => moved' = moved
 BY <1>1 DEF EnablePresence, DisablePresence
<1>14. ASSUME NEW s PROVE CommitRotation(s) \/ AbortRotation(s) => moved' = moved
 BY <1>2 DEF CommitRotation, AbortRotation
<1>15. ASSUME NEW s PROVE OpenReveal(s) => moved' = moved
 BY DEF OpenReveal
<1>16. ASSUME NEW r PROVE UnlockWithRecovery(r) => moved' = moved
 BY <1>4 DEF UnlockWithRecovery
<1>17. SetupRecovery \/ RemoveRecovery => moved' = moved
 BY <1>2 DEF SetupRecovery, RemoveRecovery
<1> QED
 BY <1>6, <1>7, <1>8, <1>9, <1>10, <1>11, <1>12, <1>13, <1>14, <1>15, <1>16, <1>17
    DEF Operation

\* Every operation stays at home; no code is made where a rotation may be aborted.
LEMMA OperationHome ==
  ASSUME NEW L \in SUBSET Workspaces, IInv(L), Home(L), Travels(keyring), Distinct(keyring),
         Operation, \A s \in Scopes : AbortRotation(s) => s \in L,
         SetupRecovery => L = {}
  PROVE  Home(L)'
<1>1. ASSUME NEW s \in Scopes, OpenReveal(s) PROVE Home(L)'
 <2>1. /\ keyring' = keyring /\ devices' = devices /\ lost' = lost /\ snap' = Idle
  BY <1>1 DEF OpenReveal
 <2> QED BY <2>1 DEF Home, KeysHere, Idle
<1>2. ASSUME NEW ids \in SUBSET Workspaces, NEW P \in SUBSET (ids \cup {App}),
             InitializeFromExport(ids, P)
      PROVE  Home(L)'
 BY <1>2, InitializeFromExportHome
<1>3. CASE Initialize \/ \E r \in RecoveryIds : UnlockWithRecovery(r)
 BY <1>3, InitializeHome, UnlockWithRecoveryHome
<1>4. ASSUME NEW s \in Scopes,
             OpenScope(s) \/ UnlockWithPassword(s) \/ UnlockWithPresence(s)
      PROVE  Home(L)'
 BY <1>4, UnlocksHome
<1>5. ASSUME NEW s \in Scopes, DeleteScope(s) \/ \E p \in BOOLEAN : CreateScope(s, p)
      PROVE  Home(L)'
 BY <1>5, DeleteScopeHome, CreateScopeHome
<1>6. ASSUME NEW s \in Scopes, ChangePassword(s) \/ SetPassword(s) \/ RemovePassword(s)
      PROVE  Home(L)'
 BY <1>6, ChangePasswordHome, PasswordsHome
<1>7. ASSUME NEW s \in Scopes, EnablePresence(s) \/ DisablePresence(s)
      PROVE  Home(L)'
 BY <1>7, PresenceHome
<1>8. ASSUME NEW s \in Scopes, CommitRotation(s) \/ AbortRotation(s)
      PROVE  Home(L)'
 BY <1>8, RotationEndHome
<1>9. CASE SetupRecovery \/ RemoveRecovery BY <1>9, RecoveryHome
<1> QED BY <1>1, <1>2, <1>3, <1>4, <1>5, <1>6, <1>7, <1>8, <1>9 DEF Operation

\* The other steps change no keyring; a device key is only deleted when nothing names it.
LEMMA MemoryStepsHome ==
  ASSUME NEW L, IInv(L), Home(L), ~ moved',
         \/ BeginOp \/ EndWithError \/ DeleteRetired
         \/ \E s \in Scopes : OpenScopeFails(s) \/ LockScope(s) \/ RevealExpires(s)
         \/ LockProtected \/ CloseReveal \/ Restart \/ UNCHANGED vars
  PROVE  Home(L)'
<1>1. KeysHere /\ keyring \in Keyrings BY DEF Home, IInv, TypeOK
<1>2. keyring' = keyring
 BY DEF BeginOp, EndWithError, DeleteRetired, OpenScopeFails, LockScope, RevealExpires,
        LockProtected, CloseReveal, Restart, vars
<1>3. KeysHere'
 <2>1. CASE BeginOp \/ EndWithError
  BY <1>1, <1>2, <2>1 DEF KeysHere, BeginOp, EndWithError, Busy, Idle
 <2>2. CASE DeleteRetired BY <1>1, <1>2, <2>2 DEF KeysHere, DeleteRetired, Idle
 <2>3. ASSUME NEW s \in Scopes, OpenScopeFails(s)
       PROVE  KeysHere'
  <3> DEFINE l == FindsLost(keyring, devices, Known, lost, {Current(keyring, s)})
  <3>1. l = FALSE BY <1>1, NothingLost
  <3>2. lost' = l /\ snap' = Idle /\ devices' = devices BY <2>3 DEF OpenScopeFails
  <3> HIDE DEF l
  <3> QED BY <1>1, <1>2, <3>1, <3>2 DEF KeysHere, Idle
 <2>4. CASE LockProtected \/ \E s \in Scopes : LockScope(s)
  <3>1. /\ lost' = lost /\ devices' = devices
        /\ snap' = snap \/ (snap.phase = "busy" /\ snap' = [snap EXCEPT !.fresh = FALSE])
   BY <2>4 DEF LockProtected, LockScope, MovesEpoch
  <3>2. snap.phase = "busy" /\ snap' = [snap EXCEPT !.fresh = FALSE] => snap'.phase = "busy"
   BY DEF IInv, TypeOK
  <3> QED BY <1>1, <1>2, <3>1, <3>2 DEF KeysHere
 <2>5. CASE \/ CloseReveal \/ UNCHANGED vars
            \/ \E s \in Scopes : RevealExpires(s)
  BY <1>1, <1>2, <2>5 DEF KeysHere, CloseReveal, RevealExpires, vars
 <2>6. CASE Restart BY <1>1, <1>2, <2>6 DEF KeysHere, Restart, Idle
 <2> QED BY <2>1, <2>2, <2>3, <2>4, <2>5, <2>6
<1> QED BY <1>2, <1>3 DEF Home

\* The invariant: on the machine the keys were made on, nothing is shut.
HomeInv(L) == FullInv(L) /\ (~ moved => Home(L))

\* One step in which only rotations of the scopes L are aborted.
LEMMA StepHome ==
  ASSUME NEW L \in SUBSET Workspaces, HomeInv(L),
         \/ UNCHANGED vars
         \/ /\ Next /\ \A s \in Scopes : AbortRotation(s) => s \in L
            /\ SetupRecovery => L = {}
  PROVE  HomeInv(L)'
<1>1. FullInv(L) /\ IInv(L) /\ Travels(keyring) /\ Distinct(keyring)
 BY DEF HomeInv, FullInv, HoldInv
<1>2. FullInv(L)' BY <1>1, StepKept
<1>3. ASSUME ~ moved' PROVE Home(L)'
 <2>1. CASE MayFinish /\ Operation /\ ~ UNCHANGED vars
  <3>1. ~ moved BY <1>3, <2>1, OperationStays
  <3> QED BY <1>1, <2>1, <3>1, OperationHome DEF HomeInv
 <2>2. CASE UNCHANGED vars \/ (Next /\ ~ (MayFinish /\ Operation))
  <3>1. \/ BeginOp \/ EndWithError \/ DeleteRetired
        \/ \E s \in Scopes : OpenScopeFails(s) \/ LockScope(s) \/ RevealExpires(s)
        \/ LockProtected \/ CloseReveal \/ Restart \/ UNCHANGED vars
   BY <2>2 DEF Next
  <3>2. ~ moved
   BY <1>3, <3>1 DEF BeginOp, EndWithError, DeleteRetired, OpenScopeFails, LockScope,
                     RevealExpires, LockProtected, CloseReveal, Restart, vars
  <3> QED BY <1>1, <1>3, <3>1, <3>2, MemoryStepsHome DEF HomeInv
 <2> QED BY <2>1, <2>2
<1> QED BY <1>2, <1>3 DEF HomeInv

\* The first state has it.
LEMMA InitHome ==
  ASSUME NEW L, Init
  PROVE  HomeInv(L)
<1>1. /\ keyring = Empty /\ lost = FALSE /\ snap = Idle BY DEF Init
<1>2. DeviceKeys(Empty) = {} /\ PresenceKeys(Empty) = {}
 BY KeyringConstants DEF DeviceKeys, PresenceKeys, Empty
<1>3. AllVersions(Empty) = {} /\ Empty.recovery = NoRecovery BY DEF AllVersions, Versions, Empty
<1>4. Rotations(Empty) BY DEF Rotations, Rotating, Empty
<1>5. Home(L) BY <1>1, <1>2, <1>3, <1>4 DEF Home, KeysHere, Leftovers, Meant, NoCodes, Idle
<1> QED BY <1>5, FullInvInit DEF HomeInv

\* What it says.
LEMMA HomeInvImplies ==
  ASSUME NEW L, HomeInv(L)
  PROVE  NoLockout
<1> SUFFICES ASSUME ~ moved
             PROVE  /\ \A v \in AllVersions(keyring) : OpensForUser(v)
                    /\ PresenceKeys(keyring) \subseteq devices
 BY DEF NoLockout
<1>1. Home(L) /\ KeysHere /\ Travels(keyring) /\ keyring \in Keyrings
 BY DEF HomeInv, FullInv, IInv, TypeOK, Home
<1>2. PresenceKeys(keyring) \subseteq devices /\ (keyring.quiet # None => keyring.quiet \in devices)
 BY <1>1 DEF KeysHere, DeviceKeys, Keyrings
<1>3. ASSUME NEW v \in AllVersions(keyring) PROVE OpensForUser(v)
 <2>1. Usable(keyring, v) BY <1>1 DEF Home
 <2>2. \A a \in Versions(keyring, App) : keyring.own[a] => Password \in keyring.wraps[a]
  BY <1>1 DEF Travels, AllVersions, Scopes
 <2> QED BY <1>2, <2>1, <2>2 DEF Usable, OpensForUser, HasQuiet
<1> QED BY <1>2, <1>3

\* On the machine the keys were made on, every live version of every scope opens for the
\* user with the passwords, and no Touch ID route points at a deleted device key, whatever
\* interleaves, where rotations are aborted or codes are made but not both (store.rs,
\* reconcile, finish and the protection changes).
THEOREM KeystoreNoLockout ==
  ASSUME App \notin MayAbort
  PROVE  StorySpec => []NoLockout
<1> DEFINE K == IF story = "abort" THEN HomeInv(Loose) ELSE HomeInv({})
<1>1. StoryInit => K BY InitHome DEF StoryInit
<1>2. K /\ [StoryNext]_storyVars => K'
 <2> SUFFICES ASSUME K, [StoryNext]_storyVars PROVE K'
  OBVIOUS
 <2>1. story' = story BY DEF StoryNext, storyVars
 <2>2. UNCHANGED vars \/ Next BY DEF StoryNext, storyVars
 <2>3. Loose \in SUBSET Workspaces /\ {} \in SUBSET Workspaces BY DEF Loose
 <2>4. CASE story = "abort"
  <3>1. \A s \in Scopes : AbortRotation(s) => s \in Loose BY DEF AbortRotation, Loose, Scopes
  <3>2. Next /\ ~ UNCHANGED vars => ~ SetupRecovery BY <2>4 DEF StoryNext, storyVars
  <3>3. HomeInv(Loose) BY <2>4
  <3>4. HomeInv(Loose)' BY <2>2, <2>3, <3>1, <3>2, <3>3, StepHome
  <3> QED BY <2>1, <2>4, <3>4
 <2>5. CASE story # "abort"
  <3>1. ~ UNCHANGED vars => \A s \in Scopes : AbortRotation(s) => s \in {}
   BY <2>5 DEF StoryNext, storyVars, Aborts, AbortRotation
  <3>2. HomeInv({}) BY <2>5
  <3>3. HomeInv({})' BY <2>2, <2>3, <3>1, <3>2, StepHome
  <3> QED BY <2>1, <2>5, <3>3
 <2> QED BY <2>4, <2>5
<1>3. K => NoLockout BY HomeInvImplies
<1> QED BY <1>1, <1>2, <1>3, PTL DEF StorySpec

\* The same of Spec, where codes, moves and device keys combine freely, without any aborts.
THEOREM KeystoreOpens ==
  ASSUME MayAbort = {}
  PROVE  Spec => []NoLockout
<1>1. Init => HomeInv({}) BY InitHome
<1>2. HomeInv({}) /\ [Next]_vars => HomeInv({})'
 <2>1. {} \in SUBSET Workspaces OBVIOUS
 <2>2. \A s \in Scopes : AbortRotation(s) => s \in {} BY DEF AbortRotation
 <2> QED BY <2>1, <2>2, StepHome
<1>3. HomeInv({}) => NoLockout BY HomeInvImplies
<1> QED BY <1>1, <1>2, <1>3, PTL DEF Spec

--------------------------------------------------
(***************************************************************************)
(* Secrets stay with their holders.  A version sealed with a password      *)
(* never had a route of a device key while it governed, a recovery code    *)
(* covers what is protected only if it was made under the master password, *)
(* and a reveal session of a workspace's own ends with what it was for.    *)
(* Every change of versions replaces those that govern by new ones, and    *)
(* every pass adds device routes only where the seals it knows allow it.   *)
(***************************************************************************)

\* A version with a seal and a device route is one of a workspace, on its way out.
SealedShut(kr) == \A v \in AllVersions(kr) : \A d \in DeviceIds :
    kr.own[v] /\ Device(d) \in kr.wraps[v] => v[1] # App /\ v # Governing(kr, v[1])

\* The entry of the recovery code tells the truth about the version its tag was made with,
\* and the code opens what is protected only if it was made under a master password.
CodeHeld(kr) ==
    /\ ~ Exists(kr, App) => kr.recovery = NoRecovery
    /\ kr.recovery # NoRecovery /\ <<App, kr.recovery.mac>> \in Versions(kr, App)
          => (kr.recovery.held <=> kr.own[<<App, kr.recovery.mac>>])
    /\ \A s \in Scopes :
          /\ Exists(kr, s) /\ Protected(kr, s) /\ kr.recovery # NoRecovery
          /\ Recovery(kr.recovery.id) \in kr.wraps[Governing(kr, s)]
          => kr.recovery.held

\* What was exposed has no seal in kr, or is on its way out.
StaySealed(kr) == \A v \in exposed \cap AllVersions(kr) :
    kr.own[v] => v[1] # App /\ v # Governing(kr, v[1])

\* Sessions of workspaces that have a password of their own and no master password.
RevealsOwn(kr, rv) == \A s \in rv \ {App} :
    Exists(kr, s) /\ kr.own[Governing(kr, s)] /\ ~ kr.own[Governing(kr, App)]

Guarded(kr, rv) == SealedShut(kr) /\ CodeHeld(kr) /\ StaySealed(kr) /\ RevealsOwn(kr, rv)

SecretInv == exposed \subseteq AllVersions(keyring) /\ Guarded(keyring, reveal)

--------------------------------------------------
\* What the policy knows of scopes whose keys are in memory: a scope it takes for open is
\* unprotected, and a code covers what is protected only if its tag is the master's.
LEMMA PolicyOpens ==
  ASSUME NEW kr, NEW known, NEW s \in Scopes
  PROVE  /\ s \in Policy(kr, known).open => ~ Protected(kr, s) /\ ~ kr.own[Governing(kr, App)]
         /\ s \in Policy(kr, known).covered /\ s \notin Policy(kr, known).open =>
               /\ kr.recovery # NoRecovery /\ Exists(kr, App)
               /\ kr.recovery.mac = Governing(kr, App)[2] /\ kr.own[Governing(kr, App)]
<1> DEFINE pol == Policy(kr, known)
           verified(t) == Exists(kr, t) /\ Governing(kr, t) \in known
           master == verified(App) /\ pol.own[App]
<1>1. \A t \in Scopes : verified(t) => pol.own[t] = kr.own[Governing(kr, t)] BY DEF Policy
<1>2. /\ pol.open = {t \in Scopes : verified(t) /\ verified(App) /\ ~ pol.own[t] /\ ~ pol.own[App]}
      /\ pol.covered = Covered(kr, pol.open, master)
 BY DEF Policy
<1>3. App \in Scopes BY DEF Scopes
<1> HIDE DEF pol
<1>4. s \in pol.open => ~ Protected(kr, s) /\ ~ kr.own[Governing(kr, App)]
 BY <1>1, <1>2, <1>3 DEF Protected
<1>5. ASSUME s \in pol.covered, s \notin pol.open
      PROVE  /\ kr.recovery # NoRecovery /\ Exists(kr, App)
             /\ kr.recovery.mac = Governing(kr, App)[2] /\ kr.own[Governing(kr, App)]
 <2>1. kr.recovery # NoRecovery /\ master /\ kr.recovery.mac = Governing(kr, App)[2]
  BY <1>2, <1>5 DEF Covered
 <2> QED BY <1>1, <1>3, <2>1
<1> QED BY <1>4, <1>5 DEF pol

\* A pass keeps a keyring guarded, whatever keys are in memory.
LEMMA ReconcileGuards ==
  ASSUME NEW kr \in Keyrings, NEW rv, Guarded(kr, rv),
         NEW devs, NEW known, NEW ids \in SUBSET Scopes, NEW l
  PROVE  Guarded(Reconcile(kr, devs, known, ids, l).keyring, rv)
<1> DEFINE k1 == WithAppKeys(kr, devs, known, l)
           work == WorkVersions(kr, k1, ids)
           k == k1 \cup {v \in work : Obtains(kr, devs, k1, l, v)}
           r == Reconcile(kr, devs, known, ids, l).keyring
           pol == Policy(kr, k)
<1>1. \E d : r = ApplyPolicy([kr EXCEPT !.quiet = d], pol, k, ids)
 <2> DEFINE m == FindsLost(kr, devs, k1, l, Versions(kr, App) \cup work)
            a == \E v \in Versions(kr, App) \cup work : AsksDevice(kr, known, l, v)
            adds == \E v \in LiveIn(kr, ids) : QuietAllowed(kr, pol, v) /\ ~ HasQuiet(kr, v)
            repl == /\ ids \cap pol.open # {}
                    /\ kr.quiet = None \/ m \/ (adds /\ kr.quiet \notin devs)
            q == IF repl THEN [kr EXCEPT !.quiet = Fresh(UnusedDevices(kr, devs))] ELSE kr
 <2>1. r = Outcome(kr, devs, ids, k, m, a, pol).keyring BY DEF Reconcile, Obtaining
 <2>2. Outcome(kr, devs, ids, k, m, a, pol).keyring = ApplyPolicy(q, pol, k, ids) BY DEF Outcome
 <2>3. \E d : q = [kr EXCEPT !.quiet = d]
  <3>1. kr = [kr EXCEPT !.quiet = kr.quiet] BY DEF Keyrings
  <3> QED BY <3>1
 <2> HIDE DEF r, q, k, pol, m, a
 <2> QED BY <2>1, <2>2, <2>3
<1>2. PICK d : r = ApplyPolicy([kr EXCEPT !.quiet = d], pol, k, ids) BY <1>1
<1> DEFINE q == [kr EXCEPT !.quiet = d]
<1>3. /\ q.cur = kr.cur /\ q.staged = kr.staged /\ q.own = kr.own
      /\ q.wraps = kr.wraps /\ q.recovery = kr.recovery
 BY DEF Keyrings
<1> HIDE DEF r, k
<1>4. /\ r.cur = kr.cur /\ r.staged = kr.staged /\ r.own = kr.own /\ r.recovery = kr.recovery
      /\ r.wraps = [v \in Slots |-> IF v \in LiveIn(q, ids) THEN Applied(q, pol, k, v)
                                    ELSE kr.wraps[v]]
 <2> HIDE DEF pol
 <2> QED BY <1>2, <1>3 DEF ApplyPolicy, Keyrings
<1>5. /\ \A t \in Scopes : /\ Exists(r, t) = Exists(kr, t)
                           /\ Governing(r, t) = Governing(kr, t)
                           /\ Governing(q, t) = Governing(kr, t)
                           /\ Versions(r, t) = Versions(kr, t)
                           /\ Protected(r, t) = Protected(kr, t)
      /\ AllVersions(r) = AllVersions(kr) /\ App \in Scopes
 BY <1>3, <1>4 DEF Exists, Rotating, Governing, Staged, Current, Versions, AllVersions,
                   Protected, Scopes
<1>6. \A v \in AllVersions(kr) : v \in Slots /\ v[1] \in Scopes BY VersionsAreSlots
<1> HIDE DEF q, pol
<1>7. ASSUME NEW v \in Slots, NEW w \in r.wraps[v]
      PROVE  w \in kr.wraps[v] \/ w \in Wanted(q, pol, v)
 BY <1>3, <1>4, <1>7 DEF Applied, Kept, Allowed
<1>8. SealedShut(r)
 <2> SUFFICES ASSUME NEW v \in AllVersions(kr), NEW e \in DeviceIds,
                     kr.own[v], Device(e) \in r.wraps[v]
              PROVE  v[1] # App /\ v # Governing(kr, v[1])
  BY <1>4, <1>5, <1>6 DEF SealedShut
 <2>1. v \in Slots /\ v[1] \in Scopes BY <1>6
 <2>2. CASE Device(e) \in kr.wraps[v] BY <2>2 DEF Guarded, SealedShut
 <2>3. CASE Device(e) \in Wanted(q, pol, v)
  <3>1. QuietAllowed(q, pol, v) BY <2>3 DEF Wanted, Device, Parent, Recovery
  <3>2. v[1] \in pol.open /\ (v[1] = App => v = Governing(kr, App))
   BY <1>5, <3>1 DEF QuietAllowed
  <3>3. ~ kr.own[Governing(kr, v[1])] BY <2>1, <3>2, PolicyOpens DEF pol, Protected
  <3> QED BY <3>2, <3>3
 <2> QED BY <1>7, <2>1, <2>2, <2>3
<1>9. CodeHeld(r)
 <2>1. ~ Exists(r, App) => r.recovery = NoRecovery BY <1>4, <1>5 DEF Guarded, CodeHeld
 <2>2. r.recovery # NoRecovery /\ <<App, r.recovery.mac>> \in Versions(r, App)
          => (r.recovery.held <=> r.own[<<App, r.recovery.mac>>])
  BY <1>4, <1>5 DEF Guarded, CodeHeld
 <2>3. ASSUME NEW s \in Scopes, Exists(kr, s), Protected(kr, s), kr.recovery # NoRecovery,
              Recovery(kr.recovery.id) \in r.wraps[Governing(kr, s)]
       PROVE  kr.recovery.held
  <3> DEFINE v == Governing(kr, s)
  <3>1. v \in Slots /\ v[1] = s BY <2>3, GoverningIsVersion
  <3>2. CASE Recovery(kr.recovery.id) \in kr.wraps[v] BY <2>3, <3>2 DEF Guarded, CodeHeld
  <3>3. CASE Recovery(kr.recovery.id) \in Wanted(q, pol, v)
   <4> HIDE DEF v
   <4>1. s \in pol.covered BY <3>1, <3>3 DEF Wanted, Device, Parent, Recovery
   <4>2. s \notin pol.open BY <2>3, PolicyOpens DEF pol
   <4>3. /\ Exists(kr, App) /\ kr.recovery.mac = Governing(kr, App)[2]
         /\ kr.own[Governing(kr, App)]
    BY <4>1, <4>2, PolicyOpens DEF pol
   <4>4. Governing(kr, App) \in Versions(kr, App) /\ Governing(kr, App) \in Slots
         /\ Governing(kr, App)[1] = App
    BY <1>5, <4>3, GoverningIsVersion
   <4>5. Governing(kr, App) = <<App, kr.recovery.mac>> BY <4>3, <4>4 DEF Slots
   <4> QED BY <2>3, <4>3, <4>4, <4>5 DEF Guarded, CodeHeld
  <3> QED BY <1>7, <2>3, <3>1, <3>2, <3>3
 <2> QED BY <1>4, <1>5, <2>1, <2>2, <2>3 DEF CodeHeld
<1>10. StaySealed(r) /\ RevealsOwn(r, rv)
 <2>1. StaySealed(r) BY <1>4, <1>5, <1>6 DEF Guarded, StaySealed
 <2>2. RevealsOwn(r, rv)
  <3> SUFFICES ASSUME NEW s \in rv \ {App}
               PROVE  Exists(r, s) /\ r.own[Governing(r, s)] /\ ~ r.own[Governing(r, App)]
   BY DEF RevealsOwn
  <3>1. Exists(kr, s) /\ kr.own[Governing(kr, s)] /\ ~ kr.own[Governing(kr, App)]
   BY DEF Guarded, RevealsOwn
  <3>2. Exists(r, s) /\ Governing(r, s) = Governing(kr, s)
   BY <1>4, <3>1 DEF Exists, Governing, Rotating, Staged, Current
  <3> QED BY <1>4, <1>5, <3>1, <3>2
 <2> QED BY <2>1, <2>2
<1> QED BY <1>8, <1>9, <1>10 DEF Guarded, r

\* Saving a guarded keyring: it exposes only what has no seal or is on its way out.
LEMMA FinishGuards ==
  ASSUME NEW kr \in Keyrings, Travels(kr), NEW ks, NEW fs, NEW rv, NEW l, NEW U,
         Guarded(kr, rv), Finish(kr, ks, fs, rv, l, U)
  PROVE  SecretInv'
<1>1. /\ keyring' = kr /\ reveal' = rv
      /\ exposed' = (exposed \cup OpensQuietly(kr, DeviceIds)) \cap AllVersions(kr)
 BY DEF Finish
<1>2. \A v \in AllVersions(kr) : v \in Slots /\ v[1] \in Scopes BY VersionsAreSlots
<1>3. ASSUME NEW v \in OpensQuietly(kr, DeviceIds), kr.own[v]
      PROVE  v[1] # App /\ v # Governing(kr, v[1])
 <2>1. CASE v \in AllVersions(kr) /\ \E d \in DeviceIds : Device(d) \in kr.wraps[v]
  BY <1>3, <2>1 DEF Guarded, SealedShut
 <2>2. CASE /\ v \in AllVersions(kr)
            /\ \E a \in AllVersions(kr) : /\ \E d \in DeviceIds : Device(d) \in kr.wraps[a]
                                          /\ a[1] = App /\ Parent(a[2]) \in kr.wraps[v]
  <3>1. PICK a \in AllVersions(kr) : /\ \E d \in DeviceIds : Device(d) \in kr.wraps[a]
                                     /\ a[1] = App /\ Parent(a[2]) \in kr.wraps[v]
   BY <2>2
  <3>2. a = <<App, a[2]>> /\ a[2] \in Serials BY <1>2, <3>1 DEF Slots
  <3>3. kr.own[a] BY <2>2, <3>1, <3>2 DEF Travels
  <3> QED BY <3>1, <3>3 DEF Guarded, SealedShut
 <2> QED BY <2>1, <2>2 DEF OpensQuietly
<1>4. \A v \in exposed' : kr.own[v] => v[1] # App /\ v # Governing(kr, v[1])
 BY <1>1, <1>3 DEF Guarded, StaySealed
<1>5. exposed' \subseteq AllVersions(keyring') BY <1>1
<1>6. StaySealed(keyring)' BY <1>1, <1>4 DEF StaySealed
<1>7. SealedShut(keyring') /\ CodeHeld(keyring') /\ RevealsOwn(keyring', reveal')
 BY <1>1 DEF Guarded
<1> QED BY <1>5, <1>6, <1>7 DEF SecretInv, Guarded, SealedShut, CodeHeld, RevealsOwn

\* Saving the outcome of a pass over such a keyring.
LEMMA SavesGuard ==
  ASSUME NEW kr \in Keyrings, NEW rv, Guarded(kr, rv), Travels(keyring'), keyring' \in Keyrings,
         NEW known, NEW ids \in SUBSET Scopes, NEW l, NEW ks, NEW fs, NEW U,
         Saves(Reconcile(kr, devices, known, ids, l), ks, fs, rv, U)
  PROVE  SecretInv'
<1> DEFINE R == Reconcile(kr, devices, known, ids, l)
<1>1. Finish(R.keyring, ks, fs, rv, R.lost, U) BY DEF Saves
<1>2. Guarded(R.keyring, rv) BY ReconcileGuards
<1>3. keyring' = R.keyring BY <1>1 DEF Finish
<1>4. R.keyring \in Keyrings /\ Travels(R.keyring) BY <1>3
<1> HIDE DEF R
<1> QED BY <1>1, <1>2, <1>4, FinishGuards

--------------------------------------------------
\* Keyring kr follows the saved one: versions keep their seals and gain no device or recovery
\* route, new versions have none, and a scope's governing version stays or is a new one.
Follows(kr) ==
    /\ kr \in Keyrings
    /\ \A v \in AllVersions(kr) :
          IF v \in AllVersions(keyring)
          THEN /\ kr.own[v] = keyring.own[v]
               /\ \A w \in kr.wraps[v] : w.kind \in {"device", "recovery"} => w \in keyring.wraps[v]
          ELSE \A w \in kr.wraps[v] : w.kind \notin {"device", "recovery"}
    /\ \A v \in AllVersions(kr) : \/ Governing(kr, v[1]) = Governing(keyring, v[1])
                                  \/ Governing(kr, v[1]) \notin AllVersions(keyring)

\* Its recovery code is gone or the old one, and then no master password is new and no new
\* version of the app has the name the code's tag was made with.
CodeFollows(kr) ==
    /\ ~ Exists(kr, App) => kr.recovery = NoRecovery
    /\ kr.recovery # NoRecovery =>
          /\ kr.recovery = keyring.recovery
          /\ kr.own[Governing(kr, App)] => keyring.own[Governing(keyring, App)]
          /\ \A v \in Versions(kr, App) \ AllVersions(keyring) : v[2] # kr.recovery.mac

\* Such a keyring is guarded if its reveal sessions are those of workspaces of their own.
LEMMA FollowingGuarded ==
  ASSUME NEW L, IInv(L), SecretInv, NEW kr, Follows(kr), CodeFollows(kr),
         NEW rv, RevealsOwn(kr, rv)
  PROVE  Guarded(kr, rv)
<1>1. /\ keyring \in Keyrings /\ Shape(keyring) /\ kr \in Keyrings
      /\ exposed \subseteq AllVersions(keyring)
      /\ SealedShut(keyring) /\ CodeHeld(keyring) /\ StaySealed(keyring)
 BY DEF IInv, TypeOK, Sound, Follows, SecretInv, Guarded
<1>2. \A v \in AllVersions(kr) : v \in Slots /\ v[1] \in Scopes BY <1>1, VersionsAreSlots
<1>3. ASSUME NEW v \in AllVersions(kr), v \in AllVersions(keyring),
             v # Governing(keyring, v[1])
      PROVE  v # Governing(kr, v[1])
 BY <1>3 DEF Follows
<1>4. SealedShut(kr)
 <2> SUFFICES ASSUME NEW v \in AllVersions(kr), NEW d \in DeviceIds,
                     kr.own[v], Device(d) \in kr.wraps[v]
              PROVE  v[1] # App /\ v # Governing(kr, v[1])
  BY DEF SealedShut
 <2>1. Device(d).kind = "device" BY DEF Device
 <2>2. /\ v \in AllVersions(keyring) /\ keyring.own[v] /\ Device(d) \in keyring.wraps[v]
  BY <2>1 DEF Follows
 <2> QED BY <1>1, <1>3, <2>2 DEF SealedShut
<1>5. StaySealed(kr)
 <2> SUFFICES ASSUME NEW v \in exposed, v \in AllVersions(kr), kr.own[v]
              PROVE  v[1] # App /\ v # Governing(kr, v[1])
  BY DEF StaySealed
 <2>1. v \in AllVersions(keyring) /\ keyring.own[v] BY <1>1 DEF Follows
 <2> QED BY <1>1, <1>3, <2>1 DEF StaySealed
<1>6. CodeHeld(kr)
 <2>1. CASE kr.recovery = NoRecovery BY <2>1 DEF CodeHeld
 <2>2. CASE kr.recovery # NoRecovery
  <3>1. /\ kr.recovery = keyring.recovery /\ Exists(kr, App)
        /\ kr.own[Governing(kr, App)] => keyring.own[Governing(keyring, App)]
        /\ \A v \in Versions(kr, App) \ AllVersions(keyring) : v[2] # kr.recovery.mac
   BY <2>2 DEF CodeFollows
  <3>2. ASSUME <<App, kr.recovery.mac>> \in Versions(kr, App)
        PROVE  kr.recovery.held <=> kr.own[<<App, kr.recovery.mac>>]
   <4> DEFINE v == <<App, kr.recovery.mac>>
   <4>1. v \in AllVersions(keyring) /\ v \in AllVersions(kr) /\ v[1] = App
    BY <3>1, <3>2 DEF AllVersions, Scopes
   <4>2. v \in Versions(keyring, App) /\ kr.own[v] = keyring.own[v]
    BY <1>1, <4>1, VersionsAreSlots DEF Follows
   <4> HIDE DEF v
   <4>3. keyring.recovery.held <=> keyring.own[v] BY <1>1, <2>2, <3>1, <4>2 DEF CodeHeld, v
   <4> QED BY <3>1, <4>2, <4>3 DEF v
  <3>3. ASSUME NEW s \in Scopes, Exists(kr, s), Protected(kr, s),
               Recovery(kr.recovery.id) \in kr.wraps[Governing(kr, s)]
        PROVE  kr.recovery.held
   <4> DEFINE v == Governing(kr, s)
   <4>1. v \in AllVersions(kr) /\ v[1] = s BY <1>1, <3>3, GoverningIsVersion
   <4>2. Recovery(kr.recovery.id).kind = "recovery" BY DEF Recovery
   <4> HIDE DEF v
   <4>3. /\ v \in AllVersions(keyring) /\ kr.own[v] = keyring.own[v]
         /\ Recovery(kr.recovery.id) \in keyring.wraps[v]
    BY <3>3, <4>1, <4>2 DEF Follows, v
   <4>4. v = Governing(keyring, s) BY <4>1, <4>3 DEF Follows, v
   <4>5. Exists(keyring, s)
    BY <1>1, <4>1, <4>3, VersionsAreSlots DEF Shape, Versions, Exists, Rotating
   <4>6. Protected(keyring, s) BY <3>1, <3>3, <4>3, <4>4 DEF Protected, v
   <4> QED BY <1>1, <2>2, <3>1, <4>3, <4>4, <4>5, <4>6 DEF CodeHeld
  <3> QED BY <3>1, <3>2, <3>3 DEF CodeHeld
 <2> QED BY <2>1, <2>2
<1> QED BY <1>4, <1>5, <1>6 DEF Guarded

\* Reveal sessions stay right where the scopes they are for keep their seals.
LEMMA RevealsFollow ==
  ASSUME NEW L, IInv(L), SecretInv, NEW kr, NEW rv, rv \subseteq reveal,
         \A s \in (rv \ {App}) \cup {App} : Exists(keyring, s) =>
            Exists(kr, s) /\ kr.own[Governing(kr, s)] = keyring.own[Governing(keyring, s)]
  PROVE  RevealsOwn(kr, rv)
<1> SUFFICES ASSUME NEW s \in rv \ {App}
             PROVE  Exists(kr, s) /\ kr.own[Governing(kr, s)] /\ ~ kr.own[Governing(kr, App)]
 BY DEF RevealsOwn
<1>1. /\ Exists(keyring, s) /\ keyring.own[Governing(keyring, s)]
      /\ ~ keyring.own[Governing(keyring, App)] /\ s \in Scopes
 BY DEF SecretInv, Guarded, RevealsOwn, IInv, TypeOK
<1>2. Exists(keyring, App) BY <1>1 DEF IInv, Sound, Shape
<1> QED BY <1>1, <1>2

\* A pass over the keyring of a first run, whose versions have password routes only.
LEMMA FirstRunGuards ==
  ASSUME NEW L, IInv(L), SecretInv, keyring' \in Keyrings, Travels(keyring'),
         \/ Initialize
         \/ \E ids \in SUBSET Workspaces : \E P \in SUBSET (ids \cup {App}) :
               InitializeFromExport(ids, P)
  PROVE  SecretInv'
<1>1. /\ keyring \in Keyrings /\ Shape(keyring) /\ App \in Scopes /\ ~ Exists(keyring, App)
 BY DEF IInv, TypeOK, Sound, Scopes, Initialize, InitializeFromExport
<1>2. \A s \in Scopes : ~ Exists(keyring, s) /\ ~ Rotating(keyring, s) BY <1>1 DEF Shape
<1>3. AllVersions(keyring) = {} /\ keyring.recovery = NoRecovery
 BY <1>1, <1>2 DEF AllVersions, Versions, Exists, Rotating, SecretInv, Guarded, CodeHeld
<1>4. ASSUME NEW kr \in Keyrings, kr.recovery = keyring.recovery,
             \A v \in AllVersions(kr) : \A w \in kr.wraps[v] : w = Password,
             NEW K, NEW I \in SUBSET Scopes, NEW ks, NEW fs,
             Saves(Reconcile(kr, devices, K, I, FALSE), ks, fs, reveal, {})
      PROVE  SecretInv'
 <2>1. Follows(kr) BY <1>3, <1>4 DEF Follows, Password
 <2>2. CodeFollows(kr) BY <1>3, <1>4 DEF CodeFollows
 <2>3. RevealsOwn(kr, reveal)
  <3>1. \A s \in (reveal \ {App}) \cup {App} : s \in Scopes BY <1>1 DEF IInv, TypeOK
  <3>2. reveal \subseteq reveal OBVIOUS
  <3> QED BY <1>2, <3>1, <3>2, RevealsFollow
 <2>4. Guarded(kr, reveal) BY <2>1, <2>2, <2>3, FollowingGuarded
 <2> QED BY <1>4, <2>4, SavesGuard
<1>5. CASE Initialize
 <2> DEFINE n == Fresh(FreshSerials(keyring, App))
            kr == [NewVersion(keyring, App, n, FALSE, {}) EXCEPT !.cur[App] = n]
            K == {<<App, n>>}
            I == {App}
 <2>1. n \in Serials /\ I \in SUBSET Scopes BY <1>1, <1>5 DEF Initialize, Fresh, FreshSerials
 <2>2. Saves(Reconcile(kr, devices, K, I, FALSE), K, I, reveal, {}) BY <1>5 DEF Initialize
 <2> HIDE DEF n
 <2>3. kr \in Keyrings BY <1>1, <2>1 DEF NewVersion, Keyrings
 <2>4. /\ kr.cur = [keyring.cur EXCEPT ![App] = n] /\ kr.staged = keyring.staged
       /\ kr.wraps = [keyring.wraps EXCEPT ![<<App, n>>] = {}]
       /\ kr.recovery = keyring.recovery
  BY <1>1 DEF NewVersion, Keyrings
 <2> HIDE DEF kr
 <2>5. \A v \in AllVersions(kr) : v = <<App, n>> /\ v \in Slots
  BY <1>1, <1>2, <2>1, <2>4 DEF AllVersions, Versions, Exists, Rotating, Keyrings, Slots
 <2>6. \A v \in AllVersions(kr) : \A w \in kr.wraps[v] : w = Password
  BY <1>1, <2>4, <2>5 DEF Keyrings
 <2> HIDE DEF K, I
 <2> QED BY <1>4, <2>1, <2>2, <2>3, <2>4, <2>6
<1>6. ASSUME NEW ids \in SUBSET Workspaces, NEW P \in SUBSET (ids \cup {App}),
             InitializeFromExport(ids, P)
      PROVE  SecretInv'
 <2> DEFINE n == Fresh(Serials)
            all == ids \cup {App}
            cur == [s \in Scopes |-> IF s \in all THEN n ELSE None]
            own == [v \in Slots |-> v[2] = n /\ v[1] \in P]
            wraps == [v \in Slots |-> IF v[2] = n /\ v[1] \in P THEN {Password} ELSE {}]
            kr == [keyring EXCEPT !.cur = cur, !.own = own, !.wraps = wraps]
            K == all \X {n}
            R == Reconcile(kr, devices, K, all, FALSE)
 <2>1. n \in Serials BY KeyringConstants DEF Fresh
 <2>2. Saves(R, R.known, all, reveal, {}) BY <1>6 DEF InitializeFromExport
 <2> HIDE DEF n
 <2>3. all \in SUBSET Scopes BY DEF Scopes
 <2>4. /\ cur \in [Scopes -> Serials \cup {None}]
       /\ own \in [Slots -> BOOLEAN]
       /\ wraps \in [Slots -> SUBSET Wraps]
  BY <2>1 DEF Wraps
 <2>5. \A v \in Slots : \A w \in wraps[v] : w = Password OBVIOUS
 <2> HIDE DEF cur, own, wraps
 <2>6. kr \in Keyrings /\ kr.wraps = wraps /\ kr.recovery = keyring.recovery
  BY <1>1, <2>4 DEF Keyrings
 <2> HIDE DEF kr, all, K
 <2>7. \A v \in AllVersions(kr) : \A w \in kr.wraps[v] : w = Password
  BY <2>5, <2>6, VersionsAreSlots
 <2> QED BY <1>4, <2>2, <2>3, <2>6, <2>7
<1> QED BY <1>5, <1>6

\* Unlocks: the pass starts from the saved keyring.
LEMMA UnlocksGuard ==
  ASSUME NEW L, IInv(L), SecretInv, keyring' \in Keyrings, Travels(keyring), Travels(keyring'),
         \/ \E s \in Scopes : OpenScope(s) \/ UnlockWithPassword(s) \/ UnlockWithPresence(s)
         \/ \E r \in RecoveryIds : UnlockWithRecovery(r)
  PROVE  SecretInv'
<1>1. keyring \in Keyrings /\ Guarded(keyring, reveal) BY DEF IInv, TypeOK, SecretInv
<1>2. ASSUME NEW k, NEW ids \in SUBSET Scopes, NEW l, NEW ks, NEW fs, NEW U,
             Repairs(Reconcile(keyring, devices, k, ids, l), ks, fs, l, U)
      PROVE  SecretInv'
 <2> DEFINE R == Reconcile(keyring, devices, k, ids, l)
 <2>1. CASE R.ok /\ Finish(R.keyring, ks, fs, reveal, R.lost, U)
  <3>1. Saves(R, ks, fs, reveal, U) BY <2>1 DEF Saves
  <3> QED BY <1>1, <3>1, SavesGuard
 <2>2. CASE \E x \in {l, R.lost} : Finish(keyring, ks, fs, reveal, x, U)
  BY <1>1, <2>2, FinishGuards
 <2> QED BY <1>2, <2>1, <2>2 DEF Repairs
<1>3. ASSUME NEW s \in Scopes, NEW found, CompleteUnlock(s, found)
      PROVE  SecretInv'
 <2> DEFINE k1 == Known \cup found
            l1 == FindsLost(keyring, devices, k1, lost, Versions(keyring, s))
            k2 == k1 \cup {v \in Versions(keyring, s) :
                              Obtains(keyring, devices, k1, lost, v)}
            ks == keys \cup found \cup (k2 \cap Versions(keyring, s))
            I == {s}
 <2>1. Repairs(Reconcile(keyring, devices, k2, I, l1), ks, fieldKeys \cup I, l1, I)
  BY <1>3 DEF CompleteUnlock
 <2>2. I \in SUBSET Scopes OBVIOUS
 <2> HIDE DEF k2, l1, I, ks
 <2> QED BY <1>2, <2>1, <2>2
<1>4. CASE \E s \in Scopes : OpenScope(s) \/ UnlockWithPassword(s) \/ UnlockWithPresence(s)
 <2>1. \E s \in Scopes : \E found : CompleteUnlock(s, found)
  BY <1>4 DEF OpenScope, UnlockWithPassword, UnlockWithPresence
 <2> QED BY <1>3, <2>1
<1>5. ASSUME NEW r \in RecoveryIds, UnlockWithRecovery(r) PROVE SecretInv'
 <2> DEFINE found == {v \in AllVersions(keyring) : Recovery(r) \in keyring.wraps[v]}
            opened == {s \in Scopes : Current(keyring, s) \in found}
            l1 == lost \/ (keyring.quiet # None /\ keyring.quiet \notin devices)
            k == Known \cup found
            I == Scopes
 <2>1. Repairs(Reconcile(keyring, devices, k, I, l1), keys \cup found,
               fieldKeys \cup opened, l1, {v[1] : v \in found})
  BY <1>5 DEF UnlockWithRecovery
 <2>2. I \in SUBSET Scopes OBVIOUS
 <2> HIDE DEF k, l1, I
 <2> QED BY <1>2, <2>1, <2>2
<1> QED BY <1>4, <1>5

\* A new recovery code tells the truth and opens nothing yet; without one there is nothing
\* to tell.
LEMMA RecoveryGuards ==
  ASSUME NEW L, IInv(L), SecretInv, keyring' \in Keyrings, Travels(keyring'),
         SetupRecovery \/ RemoveRecovery
  PROVE  SecretInv'
<1>1. keyring \in Keyrings /\ Shape(keyring) /\ Guarded(keyring, reveal) /\ App \in Scopes
 BY DEF IInv, TypeOK, Sound, SecretInv, Scopes
<1> DEFINE with(e) == [keyring EXCEPT !.recovery = e]
<1>2. ASSUME NEW e, e \in {NoRecovery} \cup [id : RecoveryIds, mac : Serials, held : BOOLEAN],
             CodeHeld(with(e)),
             Saves(Reconcile(with(e), devices, Known, Scopes, lost), keys, fieldKeys, reveal, {})
      PROVE  SecretInv'
 <2> DEFINE q == with(e)
 <2>1. /\ q \in Keyrings /\ q.cur = keyring.cur /\ q.staged = keyring.staged
       /\ q.own = keyring.own /\ q.wraps = keyring.wraps /\ CodeHeld(q)
  BY <1>1, <1>2 DEF Keyrings
 <2>2. Saves(Reconcile(q, devices, Known, Scopes, lost), keys, fieldKeys, reveal, {}) BY <1>2
 <2> HIDE DEF q, with
 <2>3. /\ \A s : Exists(q, s) = Exists(keyring, s) /\ Governing(q, s) = Governing(keyring, s)
       /\ AllVersions(q) = AllVersions(keyring)
  BY <2>1 DEF AllVersions, Versions, Exists, Governing, Rotating, Staged, Current
 <2>4. Guarded(q, reveal) BY <1>1, <2>1, <2>3 DEF Guarded, SealedShut, StaySealed, RevealsOwn
 <2> QED BY <2>1, <2>2, <2>4, SavesGuard
<1>3. CASE SetupRecovery
 <2> DEFINE gov == Governing(keyring, App)
            new == RecoveryIds \ UsedCodes(keyring)
            e == [id |-> Fresh(new), mac |-> gov[2], held |-> keyring.own[gov]]
            q == with(e)
 <2>1. gov \in Slots /\ Fresh(new) \in new BY <1>3, SnapshotType DEF SetupRecovery, Fresh, IInv
 <2>2. gov[2] \in Serials /\ keyring.own[gov] \in BOOLEAN BY <1>1, <2>1 DEF Slots, Keyrings
 <2>3. e \in [id : RecoveryIds, mac : Serials, held : BOOLEAN] BY <2>1, <2>2
 <2>4. Saves(Reconcile(with(e), devices, Known, Scopes, lost), keys, fieldKeys, reveal, {})
  BY <1>3 DEF SetupRecovery
 <2>5. /\ q.cur = keyring.cur /\ q.staged = keyring.staged /\ q.own = keyring.own
       /\ q.wraps = keyring.wraps /\ q.recovery = e
  BY <1>1 DEF Keyrings
 <2>6. Exists(keyring, App) /\ gov = <<App, gov[2]>>
  BY <1>1, <2>1, KeyringConstants
     DEF Governing, Rotating, Current, Staged, Exists, Shape, Slots
 <2>7. e.id = Fresh(new) /\ e.mac = gov[2] /\ e.held = keyring.own[gov] OBVIOUS
 <2> HIDE DEF gov, e, q
 <2>8. \A s : Exists(q, s) = Exists(keyring, s) /\ Governing(q, s) = Governing(keyring, s)
  BY <2>5 DEF Exists, Governing, Rotating, Staged, Current
 <2>9. \A s \in Scopes : Exists(q, s) => Recovery(e.id) \notin q.wraps[Governing(q, s)]
  <3> SUFFICES ASSUME NEW s \in Scopes, Exists(keyring, s)
               PROVE  Recovery(e.id) \notin keyring.wraps[Governing(keyring, s)]
   BY <2>5, <2>8
  <3>1. Governing(keyring, s) \in Slots BY <1>1, GoverningIsVersion
  <3> QED BY <2>1, <2>7, <3>1 DEF UsedCodes
 <2>10. CodeHeld(q) BY <2>5, <2>6, <2>7, <2>8, <2>9 DEF CodeHeld
 <2> QED BY <1>2, <2>3, <2>4, <2>10 DEF q
<1>4. CASE RemoveRecovery
 <2>1. with(NoRecovery).recovery = NoRecovery BY <1>1 DEF Keyrings
 <2>2. CodeHeld(with(NoRecovery))
  <3> HIDE DEF with
  <3> QED BY <2>1 DEF CodeHeld
 <2> QED BY <1>2, <1>4, <2>2 DEF RemoveRecovery
<1> QED BY <1>3, <1>4

\* enable_presence and disable_presence
LEMMA PresenceGuards ==
  ASSUME NEW L, IInv(L), SecretInv, keyring' \in Keyrings, Travels(keyring'),
         NEW s \in Scopes, EnablePresence(s) \/ DisablePresence(s)
  PROVE  SecretInv'
<1>1. keyring \in Keyrings /\ SecretInv BY DEF IInv, TypeOK
<1>2. PICK W : /\ \A w \in W : w.kind = "presence"
               /\ Finish(WithPresence(keyring, s, W), keys, fieldKeys, reveal, lost, {})
 <2>1. CASE EnablePresence(s)
  <3> DEFINE d == Fresh(UnusedDevices(keyring, devices))
  <3>1. Finish(WithPresence(keyring, s, {Presence(d)}), keys, fieldKeys, reveal, lost, {})
   BY <2>1 DEF EnablePresence
  <3>2. \A w \in {Presence(d)} : w.kind = "presence" BY DEF Presence
  <3> QED BY <3>1, <3>2
 <2>2. CASE DisablePresence(s)
  <3>1. Finish(WithPresence(keyring, s, {}), keys, fieldKeys, reveal, lost, {})
   BY <2>2 DEF DisablePresence
  <3> QED BY <3>1
 <2> QED BY <2>1, <2>2
<1> DEFINE kr == WithPresence(keyring, s, W)
<1>3. /\ kr.cur = keyring.cur /\ kr.staged = keyring.staged /\ kr.own = keyring.own
      /\ kr.recovery = keyring.recovery
      /\ kr.wraps = [v \in Slots |->
            IF v \in Versions(keyring, s)
            THEN {w \in keyring.wraps[v] : w.kind # "presence"} \cup W ELSE keyring.wraps[v]]
 BY <1>1 DEF WithPresence, Keyrings
<1>4. kr = keyring' /\ Finish(kr, keys, fieldKeys, reveal, lost, {}) BY <1>2 DEF Finish
<1> HIDE DEF kr
<1>5. /\ \A t : Exists(kr, t) = Exists(keyring, t) /\ Governing(kr, t) = Governing(keyring, t)
      /\ AllVersions(kr) = AllVersions(keyring) /\ Versions(kr, App) = Versions(keyring, App)
      /\ AllVersions(kr) \subseteq Slots
 BY <1>1, <1>3, VersionsAreSlots
    DEF AllVersions, Versions, Exists, Governing, Rotating, Staged, Current
<1>6. \A v \in Slots : \A w \in kr.wraps[v] :
         w.kind \in {"device", "recovery"} => w \in keyring.wraps[v]
 BY <1>2, <1>3
<1>7. Follows(kr) BY <1>3, <1>4, <1>5, <1>6 DEF Follows
<1>8. CodeFollows(kr)
 BY <1>3, <1>5 DEF CodeFollows, SecretInv, Guarded, CodeHeld, AllVersions, Scopes
<1>9. RevealsOwn(kr, reveal) BY <1>3, <1>5 DEF RevealsOwn, SecretInv, Guarded
<1>10. Guarded(kr, reveal) BY <1>7, <1>8, <1>9, FollowingGuarded
<1> QED BY <1>4, <1>10, FinishGuards

\* Versions of a workspace come and go: what holds of the other scopes stays.
LEMMA WorkspaceFollows ==
  ASSUME NEW L, IInv(L), SecretInv, NEW kr \in Keyrings, NEW s \in Scopes, s # App,
         kr.recovery = keyring.recovery,
         \A t \in Scopes \ {s} : kr.cur[t] = keyring.cur[t] /\ kr.staged[t] = keyring.staged[t],
         \A v \in Slots : v[1] # s => kr.own[v] = keyring.own[v] /\ kr.wraps[v] = keyring.wraps[v],
         \A v \in Versions(kr, s) : /\ v \notin AllVersions(keyring)
                                    /\ \A w \in kr.wraps[v] : w = Password,
         NEW rv, rv \subseteq reveal, s \in rv => ~ Exists(keyring, s)
  PROVE  Guarded(kr, rv)
<1>1. /\ keyring \in Keyrings /\ App \in Scopes /\ CodeHeld(keyring) /\ Shape(keyring)
 BY DEF IInv, TypeOK, Sound, Scopes, SecretInv, Guarded
<1>2. \A t \in Scopes \ {s} : /\ Exists(kr, t) = Exists(keyring, t)
                              /\ Governing(kr, t) = Governing(keyring, t)
                              /\ Versions(kr, t) = Versions(keyring, t)
 BY DEF Exists, Governing, Rotating, Staged, Current, Versions
<1>3. \A v \in AllVersions(kr) : /\ v \in Slots /\ v[1] \in Scopes /\ v \in Versions(kr, v[1])
                                 /\ v[1] # s => v \in AllVersions(keyring)
 <2>1. \A v \in AllVersions(kr) : v \in Slots /\ v[1] \in Scopes /\ v \in Versions(kr, v[1])
  BY VersionsAreSlots
 <2> QED BY <1>2, <2>1 DEF AllVersions
<1>4. ASSUME NEW v \in AllVersions(kr), v[1] = s
      PROVE  v \notin AllVersions(keyring) /\ Governing(kr, s) \notin AllVersions(keyring)
 <2>1. v \in Versions(kr, s) BY <1>3, <1>4
 <2>2. CASE Rotating(kr, s)
  <3>1. Governing(kr, s) \in Versions(kr, s) BY <2>2 DEF Governing, Rotating, Staged, Versions
  <3> QED BY <2>1, <3>1
 <2>3. CASE ~ Rotating(kr, s)
  <3>1. v = Governing(kr, s) BY <2>1, <2>3 DEF Governing, Rotating, Current, Versions
  <3> QED BY <2>1, <3>1
 <2> QED BY <2>1, <2>2, <2>3
<1>5. Follows(kr)
 <2>1. ASSUME NEW v \in AllVersions(kr)
       PROVE  IF v \in AllVersions(keyring)
              THEN /\ kr.own[v] = keyring.own[v]
                   /\ \A w \in kr.wraps[v] : w.kind \in {"device", "recovery"} => w \in keyring.wraps[v]
              ELSE \A w \in kr.wraps[v] : w.kind \notin {"device", "recovery"}
  <3>1. CASE v[1] = s BY <1>3, <1>4, <3>1 DEF Password
  <3>2. CASE v[1] # s BY <1>3, <3>2
  <3> QED BY <3>1, <3>2
 <2>2. \A v \in AllVersions(kr) : \/ Governing(kr, v[1]) = Governing(keyring, v[1])
                                  \/ Governing(kr, v[1]) \notin AllVersions(keyring)
  BY <1>2, <1>3, <1>4
 <2> QED BY <2>1, <2>2 DEF Follows
<1>6. Exists(keyring, App) => Governing(keyring, App) \in Slots /\ Governing(keyring, App)[1] = App
 BY <1>1, GoverningIsVersion
<1>7. CodeFollows(kr)
 <2>1. ~ Exists(kr, App) => kr.recovery = NoRecovery BY <1>1, <1>2 DEF CodeHeld
 <2>2. Exists(keyring, App) => kr.own[Governing(kr, App)] = keyring.own[Governing(keyring, App)]
  BY <1>1, <1>2, <1>6
 <2>3. Versions(kr, App) \subseteq AllVersions(keyring) BY <1>1, <1>2 DEF AllVersions
 <2> QED BY <1>1, <1>2, <2>1, <2>2, <2>3 DEF CodeFollows
<1>8. RevealsOwn(kr, rv)
 <2>1. ASSUME NEW t \in (rv \ {App}) \cup {App}, Exists(keyring, t)
       PROVE  Exists(kr, t) /\ kr.own[Governing(kr, t)] = keyring.own[Governing(keyring, t)]
  <3>1. t \in Scopes \ {s} BY <1>1, <2>1 DEF IInv, TypeOK
  <3>2. Governing(keyring, t) \in Slots /\ Governing(keyring, t)[1] = t
   BY <1>1, <2>1, <3>1, GoverningIsVersion
  <3> QED BY <1>2, <2>1, <3>1, <3>2
 <2> QED BY <2>1, RevealsFollow
<1> QED BY <1>5, <1>7, <1>8, FollowingGuarded

\* create_scope and delete_scope
LEMMA ScopesGuard ==
  ASSUME NEW L, IInv(L), SecretInv, keyring' \in Keyrings, Travels(keyring'),
         NEW s \in Scopes, DeleteScope(s) \/ \E p \in BOOLEAN : CreateScope(s, p)
  PROVE  SecretInv'
<1>1. keyring \in Keyrings /\ Shape(keyring) /\ s # App
 BY DEF IInv, TypeOK, Sound, DeleteScope, CreateScope
<1>2. ASSUME NEW p \in BOOLEAN, CreateScope(s, p) PROVE SecretInv'
 <2> DEFINE n == Fresh(FreshSerials(keyring, s))
            W == IF p THEN {Password} ELSE {}
            kr == [NewVersion(keyring, s, n, p, W) EXCEPT !.cur[s] = n]
            k == Known \cup {<<s, n>>}
            I == {s}
 <2>1. ~ Exists(keyring, s) /\ ~ Rotating(keyring, s) BY <1>1, <1>2 DEF CreateScope, Shape
 <2>2. n \in Serials /\ <<s, n>> \in Slots BY <1>2 DEF CreateScope, Fresh, FreshSerials, Slots
 <2>3. Saves(Reconcile(kr, devices, k, I, lost), keys \cup {<<s, n>>}, fieldKeys \cup I, reveal, I)
  BY <1>2 DEF CreateScope
 <2> HIDE DEF n
 <2>4. W \in SUBSET Wraps /\ (\A w \in W : w = Password) /\ I \in SUBSET Scopes BY DEF Wraps
 <2> HIDE DEF W, k, I
 <2>5. /\ kr.cur = [keyring.cur EXCEPT ![s] = n] /\ kr.staged = keyring.staged
       /\ kr.own = [keyring.own EXCEPT ![<<s, n>>] = p]
       /\ kr.wraps = [keyring.wraps EXCEPT ![<<s, n>>] = W]
       /\ kr.recovery = keyring.recovery
  BY <1>1 DEF NewVersion, Keyrings
 <2>6. kr \in Keyrings BY <1>1, <1>2, <2>2, <2>4 DEF NewVersion, Keyrings
 <2> HIDE DEF kr
 <2>7. \A t \in Scopes \ {s} : kr.cur[t] = keyring.cur[t] /\ kr.staged[t] = keyring.staged[t]
  BY <1>1, <2>5 DEF Keyrings
 <2>8. \A v \in Slots : v[1] # s => kr.own[v] = keyring.own[v] /\ kr.wraps[v] = keyring.wraps[v]
  BY <1>1, <2>5 DEF Keyrings
 <2>9. Versions(keyring, s) = {} BY <2>1 DEF Versions, Exists, Rotating
 <2>10. \A v \in Versions(kr, s) : v = <<s, n>> /\ kr.wraps[v] = W /\ v \notin AllVersions(keyring)
  <3>1. \A v \in Versions(kr, s) : v = <<s, n>>
   BY <1>1, <2>1, <2>5 DEF Versions, Exists, Rotating, Keyrings
  <3>2. kr.wraps[<<s, n>>] = W BY <1>1, <2>2, <2>5 DEF Keyrings
  <3>3. <<s, n>> \notin AllVersions(keyring) BY <1>1, <2>9, VersionsAreSlots
  <3> QED BY <3>1, <3>2, <3>3
 <2>11. Guarded(kr, reveal)
  <3>1. \A v \in Versions(kr, s) : /\ v \notin AllVersions(keyring)
                                   /\ \A w \in kr.wraps[v] : w = Password
   BY <2>4, <2>10
  <3>2. reveal \subseteq reveal /\ (s \in reveal => ~ Exists(keyring, s)) BY <2>1
  <3> QED BY <1>1, <2>5, <2>6, <2>7, <2>8, <3>1, <3>2, WorkspaceFollows
 <2> QED BY <2>3, <2>4, <2>6, <2>11, SavesGuard
<1>3. CASE DeleteScope(s)
 <2> DEFINE V == Versions(keyring, s)
            r == [Without(keyring, V) EXCEPT !.cur[s] = None, !.staged[s] = None]
            rv == reveal \ {s}
 <2>1. /\ r.cur = [keyring.cur EXCEPT ![s] = None]
       /\ r.staged = [keyring.staged EXCEPT ![s] = None]
       /\ r.own = [v \in Slots |-> v \notin V /\ keyring.own[v]]
       /\ r.wraps = [v \in Slots |-> IF v \in V THEN {} ELSE keyring.wraps[v]]
       /\ r.recovery = keyring.recovery
  BY <1>1 DEF Without, Keyrings
 <2>2. Finish(r, {v \in keys : v[1] # s}, fieldKeys \ {s}, rv, lost, {s}) /\ r = keyring'
  BY <1>3 DEF DeleteScope, Finish
 <2> HIDE DEF r
 <2>3. \A v \in V : v[1] = s BY DEF Versions
 <2>4. \A v \in Slots : v[1] # s => r.own[v] = keyring.own[v] /\ r.wraps[v] = keyring.wraps[v]
  BY <1>1, <2>1, <2>3 DEF Keyrings
 <2>5. \A t \in Scopes \ {s} : r.cur[t] = keyring.cur[t] /\ r.staged[t] = keyring.staged[t]
  BY <1>1, <2>1 DEF Keyrings
 <2>6. Versions(r, s) = {} BY <1>1, <2>1 DEF Versions, Keyrings
 <2>7. rv \subseteq reveal /\ s \notin rv OBVIOUS
 <2> HIDE DEF rv, V
 <2>8. Guarded(r, rv)
  <3>1. \A v \in Versions(r, s) : /\ v \notin AllVersions(keyring)
                                  /\ \A w \in r.wraps[v] : w = Password
   BY <2>6
  <3> QED BY <1>1, <2>1, <2>2, <2>4, <2>5, <2>7, <3>1, WorkspaceFollows
 <2> QED BY <2>2, <2>8, FinishGuards
<1> QED BY <1>2, <1>3

\* commit_rotation: the version that governs stays the one that governs.
LEMMA CommitRotationGuards ==
  ASSUME NEW L, IInv(L), SecretInv, Distinct(keyring), keyring' \in Keyrings, Travels(keyring'),
         NEW s \in Scopes, CommitRotation(s)
  PROVE  SecretInv'
<1> DEFINE new == Staged(keyring, s)
           old == Current(keyring, s)
           kr  == [Without(keyring, {old}) EXCEPT !.cur[s] = new[2], !.staged[s] = None]
           I   == Scopes
<1>1. keyring \in Keyrings /\ Shape(keyring) /\ CodeHeld(keyring) /\ App \in Scopes
 BY DEF IInv, TypeOK, Sound, Scopes, SecretInv, Guarded
<1>2. /\ Rotating(keyring, s) /\ Exists(keyring, s) /\ I \in SUBSET Scopes
      /\ Saves(Reconcile(kr, devices, Known, I, lost),
               (keys \ {old}) \cup {new}, fieldKeys \cup {s}, reveal, {})
 BY <1>1 DEF CommitRotation, Shape
<1> HIDE DEF I
<1>3. /\ new = <<s, keyring.staged[s]>> /\ new[2] = keyring.staged[s] /\ new[2] \in Serials
      /\ old = <<s, keyring.cur[s]>> /\ keyring.cur[s] # keyring.staged[s]
 BY <1>1, <1>2 DEF Staged, Current, Slots, Distinct, CommitRotation, Rotating, Keyrings
<1>4. /\ kr.cur = [keyring.cur EXCEPT ![s] = new[2]]
      /\ kr.staged = [keyring.staged EXCEPT ![s] = None]
      /\ kr.own = [v \in Slots |-> v \notin {old} /\ keyring.own[v]]
      /\ kr.wraps = [v \in Slots |-> IF v \in {old} THEN {} ELSE keyring.wraps[v]]
      /\ kr.recovery = keyring.recovery
 BY <1>1 DEF Without, Keyrings
<1>5. kr \in Keyrings
 <2>1. Without(keyring, {old}) \in Keyrings BY <1>1 DEF Without, Keyrings
 <2> QED BY <1>3, <2>1 DEF Keyrings
<1> HIDE DEF kr
<1>6. \A t \in Scopes : /\ Exists(kr, t) <=> Exists(keyring, t)
                        /\ Governing(kr, t) = Governing(keyring, t)
 BY <1>1, <1>2, <1>3, <1>4, KeyringConstants
    DEF Keyrings, Exists, Governing, Rotating, Staged, Current
<1>7. \A v \in AllVersions(kr) : v \in AllVersions(keyring) /\ v # old
 <2> SUFFICES ASSUME NEW t \in Scopes, NEW v \in Versions(kr, t)
              PROVE  v \in AllVersions(keyring) /\ v # old
  BY DEF AllVersions
 <2>1. CASE t = s
  <3>1. v = <<s, keyring.staged[s]>> BY <1>1, <1>3, <1>4, <2>1 DEF Versions, Keyrings
  <3> QED BY <1>2, <1>3, <3>1 DEF AllVersions, Versions, Rotating
 <2>2. CASE t # s
  <3>1. v \in Versions(keyring, t) BY <1>1, <1>4, <2>2 DEF Versions, Keyrings
  <3> QED BY <1>3, <2>2, <3>1 DEF AllVersions, Versions
 <2> QED BY <2>1, <2>2
<1>8. AllVersions(keyring) \subseteq Slots BY <1>1, VersionsAreSlots
<1>9. \A t \in Scopes : Exists(keyring, t) =>
         Governing(kr, t) \in Slots /\ Governing(kr, t) # old
 <2> SUFFICES ASSUME NEW t \in Scopes, Exists(keyring, t)
              PROVE  Governing(kr, t) \in Slots /\ Governing(kr, t) # old
  OBVIOUS
 <2>1. Governing(keyring, t) \in Slots /\ Governing(keyring, t)[1] = t
  BY <1>1, GoverningIsVersion
 <2>2. t = s => Governing(keyring, t) = new /\ new # old BY <1>2, <1>3 DEF Governing
 <2>3. old[1] = s BY <1>3
 <2> HIDE DEF old, new
 <2> QED BY <1>6, <2>1, <2>2, <2>3
<1> HIDE DEF old, new
<1>10. \A v \in Slots : v # old => kr.own[v] = keyring.own[v] /\ kr.wraps[v] = keyring.wraps[v]
 BY <1>1, <1>4 DEF Keyrings
<1>11. Follows(kr)
 <2>1. \A v \in AllVersions(kr) :
          kr.own[v] = keyring.own[v] /\ kr.wraps[v] = keyring.wraps[v] /\ v[1] \in Scopes
  BY <1>5, <1>7, <1>8, <1>10, VersionsAreSlots
 <2> QED BY <1>5, <1>6, <1>7, <2>1 DEF Follows
<1>12. \A t \in Scopes : Exists(keyring, t) =>
          Exists(kr, t) /\ kr.own[Governing(kr, t)] = keyring.own[Governing(keyring, t)]
 BY <1>6, <1>9, <1>10
<1>13. CodeFollows(kr)
 <2>1. Versions(kr, App) \subseteq AllVersions(kr) BY <1>1 DEF AllVersions
 <2> QED BY <1>1, <1>4, <1>6, <1>7, <1>12, <2>1 DEF CodeFollows, CodeHeld
<1>14. RevealsOwn(kr, reveal)
 <2>1. \A t \in (reveal \ {App}) \cup {App} : t \in Scopes BY <1>1 DEF IInv, TypeOK
 <2>2. reveal \subseteq reveal OBVIOUS
 <2> QED BY <1>12, <2>1, <2>2, RevealsFollow
<1>15. Guarded(kr, reveal) BY <1>11, <1>13, <1>14, FollowingGuarded
<1> QED BY <1>2, <1>5, <1>15, SavesGuard

\* The end of a protection change: no reveal session survives it.
LEMMA ProtectionChangeGuards ==
  ASSUME keyring' \in Keyrings, Travels(keyring'), NEW kr \in Keyrings, Guarded(kr, {}),
         NEW known, NEW l, NEW T,
         FinishProtectionChange(Reconcile(kr, devices, known, Scopes, l), T)
  PROVE  SecretInv'
<1> DEFINE I == Scopes
           R == Reconcile(kr, devices, known, I, l)
           ks == keys \cup {v \in R.known \cap AllVersions(R.keyring) : v[1] \in T}
           fs == fieldKeys \cup {s \in T : Current(R.keyring, s) \in R.known}
           rv == {}
           U == {}
<1>1. Saves(R, ks, fs, rv, U) /\ I \in SUBSET Scopes /\ Guarded(kr, rv)
 BY DEF FinishProtectionChange
<1> HIDE DEF I, ks, fs, rv, U
<1> QED BY <1>1, SavesGuard

\* change_password
LEMMA ChangePasswordGuards ==
  ASSUME NEW L, IInv(L), SecretInv, keyring' \in Keyrings, Travels(keyring'),
         NEW s \in Scopes, ChangePassword(s)
  PROVE  SecretInv'
<1> DEFINE c  == Current(keyring, s)
           kr == [keyring EXCEPT !.wraps[c] = @ \cup {Password}]
           k  == WithAppKeys(keyring, devices, Known, lost)
           l  == FindsLost(keyring, devices, Known, lost, Versions(keyring, App))
           T  == {s}
<1>1. keyring \in Keyrings /\ CodeHeld(keyring) /\ App \in Scopes
 BY DEF IInv, TypeOK, SecretInv, Guarded, Scopes
<1>2. /\ Exists(keyring, s) /\ ~ Rotating(keyring, s)
      /\ FinishProtectionChange(Reconcile(kr, devices, k, Scopes, l), T)
 BY DEF ChangePassword
<1>3. c \in Slots BY <1>1, <1>2, GoverningIsVersion DEF Governing
<1> HIDE DEF c, k, l, T
<1>4. /\ kr \in Keyrings /\ kr.cur = keyring.cur /\ kr.staged = keyring.staged
      /\ kr.own = keyring.own /\ kr.recovery = keyring.recovery
      /\ \A v \in Slots : \A w \in kr.wraps[v] : w \in keyring.wraps[v] \/ w = Password
 BY <1>1, <1>3 DEF Keyrings, Wraps
<1> HIDE DEF kr
<1>5. /\ \A t : Exists(kr, t) = Exists(keyring, t) /\ Governing(kr, t) = Governing(keyring, t)
      /\ AllVersions(kr) = AllVersions(keyring) /\ Versions(kr, App) = Versions(keyring, App)
      /\ AllVersions(kr) \subseteq Slots
 BY <1>1, <1>4, VersionsAreSlots
    DEF AllVersions, Versions, Exists, Governing, Rotating, Staged, Current
<1>6. Follows(kr)
 <2>1. Password.kind \notin {"device", "recovery"} BY DEF Password
 <2> QED BY <1>4, <1>5, <2>1 DEF Follows
<1>7. CodeFollows(kr) BY <1>1, <1>4, <1>5 DEF CodeFollows, CodeHeld, AllVersions
<1>8. RevealsOwn(kr, {}) BY DEF RevealsOwn
<1>9. Guarded(kr, {}) BY <1>6, <1>7, <1>8, FollowingGuarded
<1> QED BY <1>2, <1>4, <1>9, ProtectionChangeGuards

\* Staged versions are new, so that nobody held a secret of theirs, and the code does not
\* cover what a new master password protects.
LEMMA StagedGuarded ==
  ASSUME NEW L, IInv(L), SecretInv,
         NEW s \in Scopes, NEW T \in SUBSET (Workspaces \ {s}), NEW b \in BOOLEAN,
         NEW kr \in Keyrings, NEW k, StagedBy(s, T, b, kr, k)
  PROVE  Guarded(kr, {})
<1> DEFINE A == {s} \cup T
           N == {Staged(kr, t) : t \in A}
<1>1. /\ keyring \in Keyrings /\ CodeHeld(keyring) /\ App \in Scopes /\ A \subseteq Scopes
      /\ s # App => App \notin A
 BY KeyringConstants DEF IInv, TypeOK, SecretInv, Guarded, Scopes
<1>2. /\ kr.cur = keyring.cur
      /\ \A t \in Scopes \ A : kr.staged[t] = keyring.staged[t]
      /\ \A t \in A : /\ Exists(keyring, t) /\ ~ Rotating(keyring, t)
                      /\ kr.staged[t] \in Serials /\ kr.staged[t] # keyring.cur[t]
 BY DEF StagedBy, StagesFor
<1>3. /\ kr.own[Staged(kr, s)] = b /\ kr.wraps[Staged(kr, s)] = IF b THEN {Password} ELSE {}
      /\ \A t \in T : kr.wraps[Staged(kr, t)] = {}
      /\ \A v \in Slots \ N : /\ kr.own[v] = keyring.own[v]
                              /\ v # Current(keyring, s) => kr.wraps[v] = keyring.wraps[v]
      /\ kr.wraps[Current(keyring, s)] = keyring.wraps[Current(keyring, s)]
                                            \cup (IF b THEN {Password} ELSE {})
 BY DEF StagedBy, StagesFor
<1>4. /\ kr.recovery = IF s = App /\ b THEN NoRecovery ELSE keyring.recovery
      /\ s = App /\ ~ b => kr.staged[App] # keyring.recovery.mac
 BY DEF StagedBy
<1>5. /\ \A v \in N : \A w \in kr.wraps[v] : w = Password
      /\ \A v \in Slots \ N : \A w \in kr.wraps[v] : w \in keyring.wraps[v] \/ w = Password
 BY <1>3
<1> HIDE DEF A
<1>6. ASSUME NEW t \in A
      PROVE  /\ Governing(kr, t) = Staged(kr, t) /\ Staged(kr, t) = <<t, kr.staged[t]>>
             /\ Staged(kr, t) \notin AllVersions(keyring)
 <2>1. kr.staged[t] # None /\ t \in Scopes BY <1>1, <1>2, <1>6, KeyringConstants
 <2>2. \A v \in Versions(keyring, t) : v = <<t, keyring.cur[t]>>
  BY <1>2, <1>6 DEF Versions, Rotating
 <2>3. <<t, kr.staged[t]>> \notin Versions(keyring, t) BY <1>2, <1>6, <2>2
 <2>4. <<t, kr.staged[t]>> \notin AllVersions(keyring) BY <1>1, <2>3, VersionsAreSlots
 <2> QED BY <2>1, <2>4 DEF Governing, Rotating, Staged
<1>7. \A t \in Scopes \ A : /\ Governing(kr, t) = Governing(keyring, t)
                            /\ Versions(kr, t) = Versions(keyring, t)
 BY <1>2 DEF Governing, Rotating, Staged, Current, Versions
<1>8. \A t \in Scopes : Exists(kr, t) = Exists(keyring, t) BY <1>2 DEF Exists
<1>9. ASSUME NEW v \in AllVersions(kr)
      PROVE  v \in N \/ (v \in AllVersions(keyring) /\ v \in Slots \ N)
 <2>1. v \in Slots /\ v[1] \in Scopes /\ v \in Versions(kr, v[1]) BY VersionsAreSlots
 <2>2. v \notin N => v \in AllVersions(keyring)
  <3>1. CASE v[1] \notin A BY <1>7, <2>1, <3>1 DEF AllVersions
  <3>2. CASE v[1] \in A BY <1>2, <2>1, <3>2 DEF AllVersions, Versions, Staged
  <3> QED BY <3>1, <3>2
 <2> QED BY <2>1, <2>2
<1>10. \A v \in N : v \notin AllVersions(keyring) BY <1>6
<1> HIDE DEF N
<1>11. Follows(kr)
 <2>1. Password.kind \notin {"device", "recovery"} BY DEF Password
 <2>2. ASSUME NEW v \in AllVersions(kr)
       PROVE  IF v \in AllVersions(keyring)
              THEN /\ kr.own[v] = keyring.own[v]
                   /\ \A w \in kr.wraps[v] : w.kind \in {"device", "recovery"} => w \in keyring.wraps[v]
              ELSE \A w \in kr.wraps[v] : w.kind \notin {"device", "recovery"}
  BY <1>3, <1>5, <1>9, <1>10, <2>1
 <2>3. ASSUME NEW v \in AllVersions(kr)
       PROVE  \/ Governing(kr, v[1]) = Governing(keyring, v[1])
              \/ Governing(kr, v[1]) \notin AllVersions(keyring)
  BY <1>6, <1>7, VersionsAreSlots
 <2> QED BY <2>2, <2>3 DEF Follows
<1>12. CodeFollows(kr)
 <2>1. ~ Exists(kr, App) => kr.recovery = NoRecovery BY <1>1, <1>4, <1>8 DEF CodeHeld
 <2>2. ASSUME kr.recovery # NoRecovery
       PROVE  /\ kr.recovery = keyring.recovery
              /\ kr.own[Governing(kr, App)] => keyring.own[Governing(keyring, App)]
              /\ \A v \in Versions(kr, App) \ AllVersions(keyring) : v[2] # kr.recovery.mac
  <3>1. kr.recovery = keyring.recovery /\ ~ (s = App /\ b) /\ Exists(keyring, App)
   BY <1>1, <1>4, <2>2 DEF CodeHeld
  <3>2. CASE s = App
   <4>1. App \in A /\ b = FALSE BY <3>1, <3>2 DEF A
   <4>2. ~ kr.own[Governing(kr, App)] BY <1>3, <1>6, <3>2, <4>1
   <4>3. \A v \in Versions(kr, App) \ AllVersions(keyring) : v[2] = kr.staged[App]
    BY <1>1, <1>2, <3>1 DEF Versions, AllVersions, Exists
   <4> QED BY <1>4, <3>1, <3>2, <4>1, <4>2, <4>3
  <3>3. CASE s # App
   <4>1. App \in Scopes \ A BY <1>1, <3>3
   <4>2. Governing(keyring, App) \in Slots /\ Governing(keyring, App) \in AllVersions(keyring)
    BY <1>1, <3>1, GoverningIsVersion
   <4>3. Governing(keyring, App) \notin N BY <1>10, <4>2
   <4>4. kr.own[Governing(kr, App)] = keyring.own[Governing(keyring, App)]
    BY <1>3, <1>7, <4>1, <4>2, <4>3
   <4>5. Versions(kr, App) \subseteq AllVersions(keyring) BY <1>7, <4>1 DEF AllVersions
   <4> QED BY <3>1, <4>4, <4>5
  <3> QED BY <3>2, <3>3
 <2> QED BY <2>1, <2>2 DEF CodeFollows
<1>13. RevealsOwn(kr, {}) BY DEF RevealsOwn
<1> QED BY <1>11, <1>12, <1>13, FollowingGuarded

\* set_password and remove_password
LEMMA PasswordsGuard ==
  ASSUME NEW L \in SUBSET Workspaces, IInv(L), SecretInv, Travels(keyring),
         keyring' \in Keyrings, Travels(keyring'),
         NEW s \in Scopes, RemovePassword(s) \/ SetPassword(s)
  PROVE  SecretInv'
<1>1. ASSUME NEW T \in SUBSET (Workspaces \ {s}), NEW b \in BOOLEAN,
             NEW kr \in Keyrings, NEW k, StagedBy(s, T, b, kr, k)
      PROVE  SecretInv'
 <2> DEFINE l == FindsLost(keyring, devices, Known, lost, Versions(keyring, App))
            A == {s} \cup T
 <2>1. FinishProtectionChange(Reconcile(kr, devices, k, Scopes, l), A) BY <1>1 DEF StagedBy
 <2>2. Guarded(kr, {}) BY <1>1, StagedGuarded
 <2> HIDE DEF l, A
 <2> QED BY <2>1, <2>2, ProtectionChangeGuards
<1>2. CASE RemovePassword(s)
 <2> DEFINE T == {}
            b == FALSE
 <2>1. \E kr \in Keyrings, k \in SUBSET Slots : StagedBy(s, T, b, kr, k)
  BY <1>2, RemovePasswordStages
 <2>2. T \in SUBSET (Workspaces \ {s}) /\ b \in BOOLEAN OBVIOUS
 <2> HIDE DEF T, b
 <2> QED BY <1>1, <2>1, <2>2
<1>3. CASE SetPassword(s)
 <2> DEFINE b == TRUE
 <2>1. \E T \in SUBSET (Workspaces \ {s}), kr \in Keyrings, k \in SUBSET Slots :
          StagedBy(s, T, b, kr, k)
  BY <1>3, SetPasswordStages
 <2>2. b \in BOOLEAN OBVIOUS
 <2> HIDE DEF b
 <2> QED BY <1>1, <2>1, <2>2
<1> QED BY <1>2, <1>3

\* A reveal session of a workspace's own begins only where its own password protects it.
LEMMA RevealGuards ==
  ASSUME NEW L \in SUBSET Workspaces, L = {}, IInv(L), SecretInv,
         NEW s \in Scopes, OpenReveal(s)
  PROVE  SecretInv'
<1> DEFINE pol == Policy(keyring, Known)
           d == RevealDomain(pol, s)
<1>1. /\ keyring' = keyring /\ exposed' = exposed /\ reveal' = reveal \cup {d}
      /\ Exists(keyring, s)
 BY DEF OpenReveal
<1>2. /\ keyring \in Keyrings /\ Shape(keyring) /\ FlagsMatch(keyring, L)
 BY DEF IInv, TypeOK, Sound
<1>3. /\ pol.own[s] = keyring.own[Governing(keyring, s)]
      /\ pol.own[App] = keyring.own[Governing(keyring, App)]
 BY <1>1, <1>2, PolicyIsTrue
<1>4. d # App => /\ d = s /\ keyring.own[Governing(keyring, s)]
                 /\ ~ keyring.own[Governing(keyring, App)]
 BY <1>3 DEF RevealDomain
<1> HIDE DEF d
<1>5. RevealsOwn(keyring, reveal \cup {d}) BY <1>1, <1>4 DEF RevealsOwn, SecretInv, Guarded
<1> QED BY <1>1, <1>5 DEF SecretInv, Guarded, SealedShut, CodeHeld, StaySealed, RevealsOwn

\* The steps that change no keyring expose nothing and begin no reveal session.
LEMMA MemoryStepsGuard ==
  ASSUME SecretInv,
         \/ BeginOp \/ EndWithError \/ DeleteRetired
         \/ \E s \in Scopes : OpenScopeFails(s) \/ LockScope(s) \/ RevealExpires(s)
         \/ LockProtected \/ CloseReveal \/ Restart \/ UNCHANGED vars
  PROVE  SecretInv'
<1>1. keyring' = keyring /\ exposed' = exposed
 BY DEF BeginOp, EndWithError, DeleteRetired, OpenScopeFails, LockScope, RevealExpires,
        LockProtected, CloseReveal, Restart, vars
<1>2. reveal' \subseteq reveal
 <2>1. CASE BeginOp \/ EndWithError \/ DeleteRetired \/ LockProtected
  BY <2>1 DEF BeginOp, EndWithError, DeleteRetired, LockProtected
 <2>2. CASE \E s \in Scopes : OpenScopeFails(s) \/ LockScope(s) \/ RevealExpires(s)
  BY <2>2 DEF OpenScopeFails, LockScope, RevealExpires
 <2>3. CASE CloseReveal \/ Restart \/ UNCHANGED vars BY <2>3 DEF CloseReveal, Restart, vars
 <2> QED BY <2>1, <2>2, <2>3
<1>3. RevealsOwn(keyring, reveal') BY <1>2 DEF SecretInv, Guarded, RevealsOwn
<1> QED BY <1>1, <1>3 DEF SecretInv, Guarded, SealedShut, CodeHeld, StaySealed, RevealsOwn

--------------------------------------------------
\* Every operation keeps the secrets where no rotation is aborted.
LEMMA OperationGuards ==
  ASSUME NEW L \in SUBSET Workspaces, L = {}, FullInv(L), FullInv(L)', SecretInv,
         Operation, \A s \in Scopes : ~ AbortRotation(s)
  PROVE  SecretInv'
<1>1. /\ IInv(L) /\ Travels(keyring) /\ Distinct(keyring)
      /\ keyring' \in Keyrings /\ Travels(keyring')
 BY DEF FullInv, HoldInv, IInv, TypeOK
<1>2. CASE \E s \in Scopes : OpenReveal(s) BY <1>1, <1>2, RevealGuards
<1>3. CASE \/ Initialize
           \/ \E ids \in SUBSET Workspaces : \E P \in SUBSET (ids \cup {App}) :
                 InitializeFromExport(ids, P)
 BY <1>1, <1>3, FirstRunGuards
<1>4. CASE \/ \E s \in Scopes : OpenScope(s) \/ UnlockWithPassword(s) \/ UnlockWithPresence(s)
           \/ \E r \in RecoveryIds : UnlockWithRecovery(r)
 BY <1>1, <1>4, UnlocksGuard
<1>5. CASE \E s \in Scopes : DeleteScope(s) \/ \E p \in BOOLEAN : CreateScope(s, p)
 BY <1>1, <1>5, ScopesGuard
<1>6. CASE \E s \in Scopes : ChangePassword(s) BY <1>1, <1>6, ChangePasswordGuards
<1>7. CASE \E s \in Scopes : RemovePassword(s) \/ SetPassword(s) BY <1>1, <1>7, PasswordsGuard
<1>8. CASE \E s \in Scopes : EnablePresence(s) \/ DisablePresence(s)
 BY <1>1, <1>8, PresenceGuards
<1>9. CASE \E s \in Scopes : CommitRotation(s) BY <1>1, <1>9, CommitRotationGuards
<1>10. CASE SetupRecovery \/ RemoveRecovery BY <1>1, <1>10, RecoveryGuards
<1> QED BY <1>2, <1>3, <1>4, <1>5, <1>6, <1>7, <1>8, <1>9, <1>10 DEF Operation

\* The invariant.
HeldInv == FullInv({}) /\ SecretInv

\* One step in which nothing is aborted.
LEMMA StepHeld ==
  ASSUME HeldInv,
         UNCHANGED vars \/ (Next /\ \A s \in Scopes : ~ AbortRotation(s))
  PROVE  HeldInv'
<1> DEFINE L == {}
<1>1. L \in SUBSET Workspaces /\ L = {} /\ FullInv(L) /\ SecretInv BY DEF HeldInv
<1> HIDE DEF L
<1>2. UNCHANGED vars \/ (Next /\ \A s \in Scopes : AbortRotation(s) => s \in L) OBVIOUS
<1>3. FullInv(L)' BY <1>1, <1>2, StepKept
<1>4. CASE MayFinish /\ Operation /\ ~ UNCHANGED vars
 <2>1. SecretInv' BY <1>1, <1>3, <1>4, OperationGuards
 <2> QED BY <1>3, <2>1 DEF HeldInv, L
<1>5. CASE UNCHANGED vars \/ (Next /\ ~ (MayFinish /\ Operation))
 <2>1. SecretInv' BY <1>1, <1>5, MemoryStepsGuard DEF Next
 <2> QED BY <1>3, <2>1 DEF HeldInv, L
<1> QED BY <1>4, <1>5

\* The first state has it.
LEMMA InitHeld ==
  ASSUME Init
  PROVE  HeldInv
<1>1. keyring = Empty /\ exposed = {} /\ reveal = {} BY DEF Init
<1>2. AllVersions(Empty) = {} /\ Empty.recovery = NoRecovery BY DEF AllVersions, Versions, Empty
<1>3. SecretInv
 BY <1>1, <1>2 DEF SecretInv, Guarded, SealedShut, CodeHeld, StaySealed, RevealsOwn
<1> QED BY <1>3, FullInvInit DEF HeldInv

\* What it says.
LEMMA HeldInvImplies ==
  ASSUME HeldInv
  PROVE  SecretsKept
<1>1. keyring \in Keyrings /\ exposed \subseteq AllVersions(keyring) /\ Guarded(keyring, reveal)
 BY DEF HeldInv, FullInv, IInv, TypeOK, SecretInv
<1>2. ASSUME NEW v \in exposed, keyring.own[v]
      PROVE  v[1] # App /\ Rotating(keyring, v[1])
 <2>1. v[1] # App /\ v # Governing(keyring, v[1]) BY <1>1, <1>2 DEF Guarded, StaySealed
 <2>2. v[1] \in Scopes /\ v \in Versions(keyring, v[1]) BY <1>1, VersionsAreSlots
 <2>3. Rotating(keyring, v[1]) BY <2>1, <2>2 DEF Versions, Governing, Rotating, Current
 <2> QED BY <2>1, <2>3
<1> QED BY <1>1, <1>2 DEF SecretsKept, Guarded, CodeHeld, RevealsOwn

\* What a secret sealed stays with its holder where no rotation is aborted: a version
\* sealed with a password was never open without one before its password was being removed,
\* the recovery code covers what is protected only if it was made under a master password,
\* and a reveal session of a workspace's own ends with that protection (store.rs, reconcile,
\* the password operations, setup_recovery and reveal_domain).
THEOREM KeystoreSecrets == StorySpec => []SecretsStay
<1> DEFINE J == story # "abort" => HeldInv
<1>1. StoryInit => J BY InitHeld DEF StoryInit
<1>2. J /\ [StoryNext]_storyVars => J'
 <2> SUFFICES ASSUME J, [StoryNext]_storyVars, story # "abort" PROVE HeldInv'
  BY DEF StoryNext, storyVars
 <2>1. HeldInv OBVIOUS
 <2>2. UNCHANGED vars \/ (Next /\ \A s \in Scopes : ~ AbortRotation(s))
  BY DEF StoryNext, storyVars, Aborts, AbortRotation
 <2> QED BY <2>1, <2>2, StepHeld
<1>3. J => SecretsStay BY HeldInvImplies DEF SecretsStay
<1> QED BY <1>1, <1>2, <1>3, PTL DEF StorySpec

\* The same of Spec, where codes, moves and device keys combine freely, without any aborts.
THEOREM KeystoreSecretsKept ==
  ASSUME MayAbort = {}
  PROVE  Spec => []SecretsKept
<1>1. Init => HeldInv BY InitHeld
<1>2. HeldInv /\ [Next]_vars => HeldInv'
 <2>1. \A s \in Scopes : ~ AbortRotation(s) BY DEF AbortRotation
 <2> QED BY <2>1, StepHeld
<1>3. HeldInv => SecretsKept BY HeldInvImplies
<1> QED BY <1>1, <1>2, <1>3, PTL DEF Spec
=============================================================================
