--------------------------- MODULE AppLockProofs ---------------------------
(* For any number of unlock requests, callers and changes of the master       *)
(* password, with the store's threads at any point: the store's unlock runs   *)
(* for one request at a time, nothing stays open behind the lock screen of an *)
(* app with a master password, and 'ready' never overtakes a lock.            *)

EXTENDS AppLock, FiniteSetTheorems, TLAPS

Active == {u \in Unlocks : request[u] # Idle}

(* The requests stand in a line: pos numbers them from k on without a gap,    *)
(* each is one behind the request it waits for, and unlocking is the last.    *)
Chained(pos, k) ==
  /\ \A u, v \in Active : pos[u] = pos[v] => u = v
  /\ \A u \in Active :
       /\ k <= pos[u]
       /\ previous[u] = None => pos[u] = k
       /\ previous[u] # None => previous[u] \in Active /\ pos[u] = pos[previous[u]] + 1
  /\ Active = {} => unlocking = None
  /\ Active # {} => unlocking \in Active /\ \A u \in Active : pos[u] <= pos[unlocking]

Chain == \E pos \in [Unlocks -> Nat], k \in Nat : Chained(pos, k)

(* Who has begun stands at the head. *)
Headed == \A u \in Unlocks : request[u] \notin {Idle, "queued"} => previous[u] = None

(* What a phase says of the start, the requests, the store and a change of    *)
(* the master password under way.                                             *)
PhaseInv ==
  /\ starting # "done" => phase = "starting" /\ locking = "no"
  /\ phase \in {"starting", "error"} => \A u \in Unlocks : request[u] \in {Idle, "queued"}
  /\ locking \in {"asked", "plain"} => phase = "ready"
  /\ starting \in {"store", "failed"} \/ phase = "error" => ~open
  /\ phase # "ready" \/ locking = "protected" => master \/ job # "set"

(* A lock that is owed is not forgotten. *)
OwedInv ==
  /\ phase \in {"starting", "error"} /\ owed => open
  /\ phase # "ready" /\ locking = "no" /\ owed /\ master => lockRequested

LockInv ==
  /\ TypeOK /\ Chain /\ Headed
  /\ PhaseInv /\ NothingOpenBehind /\ OwedInv

--------------------------------------------------
(* The line *)

(* With somebody in line there is a last one. *)
LEMMA LastOne ==
  ASSUME TypeOK, Chain PROVE unlocking = None <=> Active = {}
BY AppLockConstants DEF Chain, Chained, TypeOK, Active

(* A request that joins comes to stand behind the last one. *)
LEMMA JoinsBehind ==
  ASSUME TypeOK, Chain, NEW u \in Unlocks, Unlock(u) PROVE Chain'
<1>1. PICK pos \in [Unlocks -> Nat], k \in Nat : Chained(pos, k) BY DEF Chain
<1>2. u \notin Active /\ Active' = Active \union {u} /\ u # None
 BY AppLockConstants DEF Unlock, Active, TypeOK, Idle
<1>3. unlocking' = u /\ previous' = [previous EXCEPT ![u] = unlocking] BY DEF Unlock
<1>4. previous \in [Unlocks -> Unlocks \union {None}] BY DEF TypeOK
<1>5. /\ Active \subseteq Unlocks
      /\ unlocking # None => unlocking \in Active
 BY <1>1, LastOne DEF Active, Chained
<1>6. PICK last \in Nat : /\ IF Active = {} THEN last = k ELSE last = pos[unlocking] + 1
                          /\ k <= last /\ \A v \in Active : pos[v] < last
 <2>1. CASE Active = {} BY <2>1
 <2>2. CASE Active # {}
  <3>1. unlocking \in Active /\ k <= pos[unlocking] /\ \A v \in Active : pos[v] <= pos[unlocking]
   BY <2>2, <1>1 DEF Chained
  <3> QED BY <2>2, <3>1, <1>5
 <2> QED BY <2>1, <2>2
<1>7. PICK new \in [Unlocks -> Nat] : new = [pos EXCEPT ![u] = last] OBVIOUS
<1>a. new[u] = last /\ \A v \in Active : new[v] = pos[v] /\ v # u BY <1>2, <1>5, <1>7
<1>8. Chained(new, k)'
 <2>1. \A v, w \in Active' : new[v] = new[w] => v = w BY <1>1, <1>2, <1>a, <1>6 DEF Chained
 <2>2. ASSUME NEW v \in Active'
       PROVE  /\ k <= new[v]
              /\ previous'[v] = None => new[v] = k
              /\ previous'[v] # None => previous'[v] \in Active' /\ new[v] = new[previous'[v]] + 1
  <3>1. CASE v = u
   <4>1. previous'[u] = unlocking BY <1>3, <1>4
   <4>2. CASE Active = {} BY <4>1, <4>2, <3>1, <1>6, <1>a, LastOne
   <4>3. CASE Active # {} BY <4>1, <4>3, <3>1, <1>2, <1>5, <1>a, <1>6, LastOne
   <4> QED BY <4>2, <4>3
  <3>2. CASE v # u
   <4>1. v \in Active /\ previous'[v] = previous[v] /\ new[v] = pos[v]
    BY <3>2, <1>2, <1>3, <1>4, <1>a
   <4>2. /\ k <= pos[v]
         /\ previous[v] = None => pos[v] = k
         /\ previous[v] # None => previous[v] \in Active /\ pos[v] = pos[previous[v]] + 1
    BY <4>1, <1>1 DEF Chained
   <4> QED BY <4>1, <4>2, <1>2, <1>a
  <3> QED BY <3>1, <3>2
 <2>3. unlocking' \in Active' /\ \A v \in Active' : new[v] <= new[unlocking']
  <3>1. new[unlocking'] = last /\ unlocking' \in Active' BY <1>2, <1>3, <1>a
  <3>2. ASSUME NEW v \in Active' PROVE new[v] <= last
   <4>1. CASE v = u BY <4>1, <1>a
   <4>2. CASE v # u
    <5>1. v \in Active /\ new[v] = pos[v] /\ pos[v] < last /\ pos[v] \in Nat
     BY <4>2, <1>2, <1>5, <1>6, <1>a
    <5> QED BY <5>1
   <4> QED BY <4>1, <4>2
  <3> QED BY <3>1, <3>2
 <2> QED BY <2>1, <2>2, <2>3 DEF Chained
<1> QED BY <1>8 DEF Chain

(* The head leaves: the one behind it, if any, is the head from then on. *)
LEMMA HeadLeaves ==
  ASSUME TypeOK, Chain, NEW u \in Unlocks, request[u] # Idle, previous[u] = None, Return(u)
  PROVE  Chain'
<1>1. PICK pos \in [Unlocks -> Nat], k \in Nat : Chained(pos, k) BY DEF Chain
<1>2. u \in Active /\ Active \subseteq Unlocks /\ Active' = Active \ {u} /\ None \notin Unlocks
 BY AppLockConstants DEF Return, Active, TypeOK, Idle
<1>3. \A v \in Unlocks : previous'[v] = IF previous[v] = u \/ v = u THEN None ELSE previous[v]
 BY DEF Return
<1>4. unlocking' = IF unlocking = u THEN None ELSE unlocking BY DEF Return
<1>5. pos[u] = k /\ \A v \in Active : k <= pos[v] /\ pos[v] \in Nat /\ (pos[v] = k => v = u)
 BY <1>1, <1>2 DEF Chained
<1>6. Chained(pos, k + 1)'
 <2>1. \A v, w \in Active' : pos[v] = pos[w] => v = w BY <1>1, <1>2 DEF Chained
 <2>2. ASSUME NEW v \in Active'
       PROVE  /\ k + 1 <= pos[v]
              /\ previous'[v] = None => pos[v] = k + 1
              /\ previous'[v] # None => previous'[v] \in Active' /\ pos[v] = pos[previous'[v]] + 1
  <3>1. v \in Active /\ v \in Unlocks /\ v # u BY <1>2
  <3>2. k + 1 <= pos[v] BY <3>1, <1>5
  <3>3. /\ previous[v] # None
        /\ previous[v] \in Active /\ pos[v] = pos[previous[v]] + 1
   BY <3>1, <1>1, <1>5 DEF Chained
  <3>4. CASE previous[v] = u
   <4>1. previous'[v] = None BY <3>1, <3>4, <1>3
   <4> QED BY <3>2, <3>3, <3>4, <4>1, <1>5
  <3>5. CASE previous[v] # u
   <4>1. previous'[v] = previous[v] BY <3>1, <3>5, <1>3
   <4> QED BY <3>2, <3>3, <3>5, <4>1, <1>2
  <3> QED BY <3>4, <3>5
 <2>3. unlocking \in Active /\ \A v \in Active : pos[v] <= pos[unlocking]
  BY <1>1, <1>2 DEF Chained
 <2>4. CASE unlocking = u
  <3>1. Active' = {} BY <2>3, <2>4, <1>2, <1>5
  <3> QED BY <2>1, <2>2, <2>4, <3>1, <1>4 DEF Chained
 <2>5. CASE unlocking # u BY <2>1, <2>2, <2>3, <2>5, <1>2, <1>4 DEF Chained
 <2> QED BY <2>4, <2>5
<1> QED BY <1>1, <1>6 DEF Chain

(* A step that leaves the line alone. *)
LEMMA LineKept ==
  ASSUME Chain, UNCHANGED <<previous, unlocking>>,
         \A u \in Unlocks : request'[u] = Idle <=> request[u] = Idle
  PROVE  Chain'
<1>1. Active' = Active BY DEF Active
<1> QED BY <1>1 DEF Chain, Chained

(* Only one request can be at the head. *)
LEMMA OneHead ==
  ASSUME TypeOK, Chain, NEW u \in Unlocks, NEW v \in Unlocks,
         request[u] # Idle, request[v] # Idle, previous[u] = None, previous[v] = None
  PROVE  u = v
BY DEF Chain, Chained, Active

LEMMA OneBegun ==
  ASSUME TypeOK, Chain, Headed PROVE OneAtATime
<1> DEFINE Begun == {u \in Unlocks : request[u] \notin {Idle, "queued"}}
<1>1. \A u, v \in Begun : u = v BY OneHead DEF Headed
<1>2. CASE Begun = {} BY <1>2, FS_EmptySet DEF OneAtATime
<1>3. CASE Begun # {}
 <2>1. PICK u \in Begun : Begun = {u} BY <1>1, <1>3
 <2>2. Cardinality(Begun) = 1 BY <2>1, FS_Singleton
 <2> QED BY <2>2 DEF OneAtATime
<1> QED BY <1>2, <1>3

--------------------------------------------------
(* One step *)

(* Steps that leave every request where it is. *)
Aside == UNCHANGED <<request, previous, unlocking>>

(* Each step is one of those, or one request moves. *)
LEMMA Moves ==
  ASSUME Next
  PROVE  \/ Aside
         \/ \E u \in Unlocks : \/ Unlock(u) \/ UnlockOnce(u) \/ StoreOpens(u) \/ StoreRefuses(u)
                               \/ StoreAnswers(u) \/ UnlockResumes(u) \/ UnlockEnds(u)
BY DEF Next, Thread, Resume, Aside, ImportEnds, StartResumes, StartEnds, LockAsked, LockReads,
       LockCloses, WhenOpen, ChangeBegins, ChangeApplies, StoreStarts

LEMMA LineNext == ASSUME LockInv, Next PROVE Chain' /\ Headed'
<1> USE DEF LockInv
<1>t. /\ request \in [Unlocks -> Stages] /\ previous \in [Unlocks -> Unlocks \union {None}]
 BY DEF TypeOK
<1>1. CASE Aside BY <1>1, LineKept DEF Aside, Headed
<1>2. ASSUME NEW u \in Unlocks, Unlock(u) PROVE Chain' /\ Headed'
 <2>1. Chain' BY <1>2, JoinsBehind
 <2>2. Headed' BY <1>2, <1>t DEF Unlock, Headed
 <2> QED BY <2>1, <2>2
<1>3. ASSUME NEW u \in Unlocks, UnlockOnce(u) PROVE Chain' /\ Headed'
 <2>1. CASE MayAsk
  <3>1. /\ request' = [request EXCEPT ![u] = "asking"] /\ UNCHANGED <<previous, unlocking>>
        /\ request[u] = "queued" /\ previous[u] = None
   BY <1>3, <2>1 DEF UnlockOnce
  <3>2. \A v \in Unlocks : request'[v] = Idle <=> request[v] = Idle BY <3>1, <1>t DEF Idle
  <3> QED BY <3>1, <3>2, <1>t, LineKept DEF Headed
 <2>2. CASE ~MayAsk
  <3>1. Return(u) /\ request[u] = "queued" /\ previous[u] = None BY <1>3, <2>2 DEF UnlockOnce
  <3>2. Chain' BY <3>1, HeadLeaves DEF Idle
  <3> QED BY <3>1, <3>2, <1>t DEF Return, Headed
 <2> QED BY <2>1, <2>2
<1>4. ASSUME NEW u \in Unlocks, StoreOpens(u) \/ StoreRefuses(u) \/ StoreAnswers(u)
      PROVE  Chain' /\ Headed'
 <2>1. /\ request[u] \in {"asking", "opening"} /\ UNCHANGED <<previous, unlocking>>
       /\ \E answer \in {"opening", "opened", "refused"} : request' = [request EXCEPT ![u] = answer]
  BY <1>4 DEF StoreOpens, StoreRefuses, StoreAnswers
 <2>2. \A v \in Unlocks : request'[v] = Idle <=> request[v] = Idle BY <2>1, <1>t DEF Idle
 <2> QED BY <2>1, <2>2, <1>t, LineKept DEF Headed, Idle
<1>5. ASSUME NEW u \in Unlocks, UnlockResumes(u) PROVE Chain' /\ Headed'
 <2>1. request[u] \in {"opened", "refused"} /\ previous[u] = None
  BY <1>5 DEF UnlockResumes, Headed, Idle
 <2>2. CASE Return(u)
  <3>1. Chain' BY <2>1, <2>2, HeadLeaves DEF Idle
  <3> QED BY <2>2, <3>1, <1>t DEF Return, Headed
 <2>3. CASE ~Return(u)
  <3>1. /\ request' = [request EXCEPT ![u] = "importing"] /\ UNCHANGED <<previous, unlocking>>
   BY <1>5, <2>3 DEF UnlockResumes
  <3>2. \A v \in Unlocks : request'[v] = Idle <=> request[v] = Idle BY <2>1, <3>1, <1>t DEF Idle
  <3> QED BY <2>1, <3>1, <3>2, <1>t, LineKept DEF Headed
 <2> QED BY <2>2, <2>3
<1>6. ASSUME NEW u \in Unlocks, UnlockEnds(u) PROVE Chain' /\ Headed'
 <2>1. Return(u) /\ request[u] = "importing" /\ previous[u] = None
  BY <1>6 DEF UnlockEnds, Headed, Idle
 <2>2. Chain' BY <2>1, HeadLeaves DEF Idle
 <2> QED BY <2>1, <2>2, <1>t DEF Return, Headed
<1> QED BY <1>1, <1>2, <1>3, <1>4, <1>5, <1>6, Moves

(* The values of the variables, one by one. *)
Typed ==
  /\ phase \in Phases /\ starting \in {"store", "answered", "failed", "importing", "done"}
  /\ v2Import \in {"no", "running", "done"} /\ locking \in {"no", "asked", "protected", "plain"}
  /\ request \in [Unlocks -> Stages] /\ previous \in [Unlocks -> Unlocks \union {None}]
  /\ unlocking \in Unlocks \union {None} /\ waiting \subseteq Waiters
  /\ job \in {Idle, "set", "remove"}
  /\ {lockRequested, master, open, deviceLost, owed} \subseteq BOOLEAN

LEMMA ValuesNext == ASSUME LockInv, Next PROVE Typed'
<1> USE DEF LockInv, TypeOK, Typed, Phases, Stages, Idle
<1>1. CASE StoreStarts BY <1>1 DEF StoreStarts, store
<1>2. CASE ChangeApplies BY <1>2 DEF ChangeApplies
<1>3. CASE ImportEnds BY <1>3 DEF ImportEnds, store
<1>4. CASE StartResumes BY <1>4 DEF StartResumes, SetPhase, Settles, AwaitImport, store
<1>5. CASE StartEnds BY <1>5 DEF StartEnds, BecomeReady, store
<1>6. CASE LockAsked BY <1>6 DEF LockAsked, Keeps, store
<1>7. CASE LockReads BY <1>7 DEF LockReads, store
<1>8. CASE LockCloses BY <1>8 DEF LockCloses, SetPhase, Settles, LockApp
<1>9. ASSUME NEW u \in Unlocks, StoreOpens(u) PROVE Typed'
 BY <1>9 DEF StoreOpens
<1>10. ASSUME NEW u \in Unlocks, StoreRefuses(u) PROVE Typed'
 BY <1>10 DEF StoreRefuses, store
<1>11. ASSUME NEW u \in Unlocks, StoreAnswers(u) PROVE Typed'
 BY <1>11 DEF StoreAnswers, LockApp
<1>12. ASSUME NEW u \in Unlocks, Unlock(u) PROVE Typed'
 BY <1>12 DEF Unlock, store
<1>13. ASSUME NEW u \in Unlocks, UnlockOnce(u) PROVE Typed'
 BY <1>13 DEF UnlockOnce, MayAsk, Return, store
<1>14. ASSUME NEW u \in Unlocks, UnlockResumes(u) PROVE Typed'
 BY ZenonT(60), <1>14 DEF UnlockResumes, AwaitImport, DropLockRequest, LockApp, Return
<1>15. ASSUME NEW u \in Unlocks, UnlockEnds(u) PROVE Typed'
 BY <1>15 DEF UnlockEnds, Return, BecomeReady, store
<1>16. ASSUME NEW w \in Waiters, WhenOpen(w) PROVE Typed'
 BY <1>16 DEF WhenOpen, store
<1>17. ASSUME NEW j \in Jobs, ChangeBegins(j) PROVE Typed'
 BY <1>17, AppLockConstants DEF ChangeBegins
<1> QED BY <1>1, <1>2, <1>3, <1>4, <1>5, <1>6, <1>7, <1>8, <1>9, <1>10, <1>11, <1>12, <1>13, <1>14, <1>15, <1>16, <1>17 DEF Next, Thread, Resume

LEMMA TypesNext == ASSUME LockInv, Next PROVE TypeOK'
<1>1. Typed' /\ Chain' BY ValuesNext, LineNext
<1>2. unlocking' = None <=> Active' = {} BY <1>1, AppLockConstants DEF Chain, Chained, Active
<1> QED BY <1>1, <1>2 DEF Typed, TypeOK, Active

(* Start, lock and unlock meet here: what is open, and the lock that is owed. *)
Covered == PhaseInv /\ NothingOpenBehind /\ OwedInv

LEMMA CoveredNext == ASSUME LockInv, Next PROVE Covered'
<1> USE DEF LockInv, TypeOK, Covered, PhaseInv, NothingOpenBehind, OwedInv, Turn
<1>1. CASE StoreStarts BY <1>1 DEF StoreStarts, store, Idle
<1>2. CASE ChangeApplies BY <1>2 DEF ChangeApplies, Idle
<1>3. CASE ImportEnds BY <1>3 DEF ImportEnds, store, Idle
<1>4. CASE StartResumes BY <1>4 DEF StartResumes, SetPhase, Settles, AwaitImport, store, Idle
<1>5. CASE StartEnds BY <1>5 DEF StartEnds, BecomeReady, store, Idle
<1>6. CASE LockAsked
 <2>1. phase # "ready" /\ open /\ master => Keeps
   (* Somebody unlocks: nothing is open behind the lock screen otherwise. *)
  BY <1>6 DEF LockAsked, Keeps, Phases, Idle
 <2> QED BY <1>6, <2>1 DEF LockAsked, Keeps, store, Idle
<1>7. CASE LockReads BY <1>7 DEF LockReads, store, Idle
<1>8. CASE LockCloses BY <1>8 DEF LockCloses, SetPhase, Settles, LockApp, Idle
<1>9. ASSUME NEW u \in Unlocks, StoreOpens(u) PROVE Covered'
 BY <1>9 DEF StoreOpens, Idle
<1>10. ASSUME NEW u \in Unlocks, StoreRefuses(u) PROVE Covered'
 BY <1>10 DEF StoreRefuses, store, Idle
<1>11. ASSUME NEW u \in Unlocks, StoreAnswers(u) PROVE Covered'
 <2>1. phase = "locked" \/ phase = "ready" BY <1>11 DEF StoreAnswers, Phases, Idle
 <2>2. CASE request'[u] = "refused"
  <3>1. LockApp /\ UNCHANGED <<phase, lockRequested, starting, locking, master, job>>
   BY <1>11, <2>2 DEF StoreAnswers, Idle, Stages
  <3> QED BY <2>1, <3>1 DEF LockApp
 <2>3. CASE request'[u] # "refused"
  <3>1. /\ request' = [request EXCEPT ![u] = "opened"] /\ request[u] = "opening"
        /\ UNCHANGED <<phase, lockRequested, starting, locking, master, open, job, owed>>
   BY <1>11, <2>3 DEF StoreAnswers
  <3> QED BY <2>1, <3>1
 <2> QED BY <2>2, <2>3
<1>12. ASSUME NEW u \in Unlocks, Unlock(u) PROVE Covered'
 BY <1>12 DEF Unlock, store, Idle
<1>13. ASSUME NEW u \in Unlocks, UnlockOnce(u) PROVE Covered'
 BY <1>13 DEF UnlockOnce, MayAsk, Return, store, Idle
<1>14. ASSUME NEW u \in Unlocks, UnlockResumes(u) PROVE Covered'
 BY <1>14 DEF UnlockResumes, AwaitImport, DropLockRequest, LockApp, Return, Idle
<1>15. ASSUME NEW u \in Unlocks, UnlockEnds(u) PROVE Covered'
 BY <1>15 DEF UnlockEnds, Return, BecomeReady, store, Idle
<1>16. ASSUME NEW w \in Waiters, WhenOpen(w) PROVE Covered'
 BY <1>16 DEF WhenOpen, store, Idle
<1>17. ASSUME NEW j \in Jobs, ChangeBegins(j) PROVE Covered'
 BY <1>17 DEF ChangeBegins, Idle
<1> QED BY <1>1, <1>2, <1>3, <1>4, <1>5, <1>6, <1>7, <1>8, <1>9, <1>10, <1>11, <1>12, <1>13, <1>14, <1>15, <1>16, <1>17 DEF Next, Thread, Resume

LEMMA LockInitInv == Init => LockInv
<1> SUFFICES ASSUME Init PROVE LockInv
 OBVIOUS
<1>1. TypeOK /\ Headed /\ PhaseInv /\ NothingOpenBehind /\ OwedInv
 BY DEF Init, TypeOK, Phases, Stages, Headed, PhaseInv, NothingOpenBehind, OwedInv, Idle
<1>2. Chain
 <2>1. Active = {} /\ unlocking = None BY DEF Init, Active
 <2>2. \A pos \in [Unlocks -> Nat] : Chained(pos, 0) BY <2>1 DEF Chained
 <2>3. PICK pos \in [Unlocks -> Nat] : pos = [u \in Unlocks |-> 0] OBVIOUS
 <2> QED BY <2>2, <2>3 DEF Chain
<1> QED BY <1>1, <1>2 DEF LockInv

LEMMA LockNextInv == LockInv /\ [Next]_vars => LockInv'
<1>1. ASSUME LockInv, Next PROVE LockInv'
 BY <1>1, LineNext, TypesNext, CoveredNext DEF LockInv, Covered
<1>2. ASSUME LockInv, UNCHANGED vars PROVE LockInv'
 <2>1. Chain' BY <1>2 DEF vars, LockInv, Chain, Chained, Active
 <2> QED BY <1>2, <2>1 DEF vars, store, LockInv, TypeOK, Headed, PhaseInv, NothingOpenBehind, OwedInv
<1> QED BY <1>1, <1>2

--------------------------------------------------
(* Theorems *)

(* appLock.ts: for any number of windows asking, the invariant above holds,   *)
(* and with it every variable keeps its type.                                 *)
THEOREM LockInvariant == Spec => []LockInv
BY LockInitInv, LockNextInv, PTL DEF Spec

(* unlock: the store's unlock (Argon2, a prompt) never runs next to another,  *)
(* however many requests stand in line.                                       *)
THEOREM LockOneAtATime == Spec => []OneAtATime
<1>1. LockInv => OneAtATime BY OneBegun DEF LockInv
<1> QED BY <1>1, LockInvariant, PTL

(* Behind the lock screen of an app with a master password nothing is open    *)
(* but what an unlock is about to finish with, wherever a start, an unlock, a *)
(* lock or a change of the master password meet.                              *)
THEOREM LockNothingOpenBehind == Spec => []NothingOpenBehind
<1>1. LockInv => NothingOpenBehind BY DEF LockInv
<1> QED BY <1>1, LockInvariant, PTL

(* A lock asked for once the data is open is never overtaken by 'ready'. *)
THEOREM LockNeverOvertaken == Spec => NeverReadyBehindALock
<1> DEFINE Overtakes == phase' = "ready" /\ phase # "ready" /\ owed /\ master
<1>1. LockInv /\ [Next]_vars => ~Overtakes
 <2> SUFFICES ASSUME LockInv, Next, phase' = "ready", phase # "ready" PROVE ~(owed /\ master)
  BY DEF vars
 <2>1. locking = "no" /\ ~(lockRequested /\ master)
  BY DEF Next, Thread, Resume, ImportEnds, StartResumes, StartEnds, LockAsked, LockReads,
         LockCloses, WhenOpen, ChangeBegins, ChangeApplies, StoreStarts, Unlock, UnlockOnce,
         StoreOpens, StoreRefuses, StoreAnswers, UnlockResumes, UnlockEnds, SetPhase, BecomeReady, Turn
 <2> QED BY <2>1 DEF LockInv, OwedInv
<1> QED BY <1>1, LockInvariant, PTL DEF Spec, NeverReadyBehindALock
=============================================================================
