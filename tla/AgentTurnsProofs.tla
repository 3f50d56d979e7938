------------------------- MODULE AgentTurnsProofs -------------------------
(* For any requests, limits and bounds: active counts the callers that hold a *)
(* slot and nobody waits while the slots are free; a slot is held only while  *)
(* a stream runs; the window never sees a turn twice, and a history never     *)
(* goes out with an unanswered tool call.                                     *)

EXTENDS AgentTurns, FiniteSetTheorems, SequenceTheorems, TLAPS

--------------------------------------------------
(* The semaphore, for any set of callers, finite or not. *)

(* The inductive invariant: finitely many hold a slot, which Cardinality needs. *)
SlotsInv ==
  /\ SlotsTypeOK
  /\ QueueIsWaiting
  /\ IsFiniteSet(Holders) /\ ActiveIsHolders
  /\ WithinALimit
  /\ NoIdleSlot

--------------------------------------------------
(* A limit that is in force is a positive number. *)
LEMMA EffectiveType == \A n \in Limits : Effective(n) \in Nat /\ Effective(n) > 0
BY ConcurrencyConstants DEF Effective

(* The queue without one of its elements: its other elements, each as often. *)
LEMMA WithoutOne ==
  ASSUME NEW q \in Seq(Callers), NEW i \in DOMAIN q
  PROVE  /\ RemoveAt(q, i) \in Seq(Callers)
         /\ Len(RemoveAt(q, i)) = Len(q) - 1
         /\ \A j \in DOMAIN RemoveAt(q, i) :
              RemoveAt(q, i)[j] = IF j < i THEN q[j] ELSE q[j + 1]
<1>1. i \in 1..Len(q) /\ Len(q) \in Nat OBVIOUS
<1>2. /\ SubSeq(q, 1, i - 1) \in Seq(Callers)
      /\ Len(SubSeq(q, 1, i - 1)) = i - 1
      /\ \A j \in 1..(i - 1) : SubSeq(q, 1, i - 1)[j] = q[j]
 BY <1>1
<1>3. /\ SubSeq(q, i + 1, Len(q)) \in Seq(Callers)
      /\ Len(SubSeq(q, i + 1, Len(q))) = Len(q) - i
      /\ \A j \in 1..(Len(q) - i) : SubSeq(q, i + 1, Len(q))[j] = q[j + i]
 BY <1>1
<1> DEFINE a == SubSeq(q, 1, i - 1)
           b == SubSeq(q, i + 1, Len(q))
<1>4. RemoveAt(q, i) = a \o b BY DEF RemoveAt
<1>5. /\ a \in Seq(Callers) /\ b \in Seq(Callers)
      /\ Len(a) = i - 1 /\ Len(b) = Len(q) - i
      /\ \A j \in 1..(i - 1) : a[j] = q[j]
      /\ \A j \in 1..(Len(q) - i) : b[j] = q[j + i]
 BY <1>2, <1>3
<1> HIDE DEF a, b
<1>6. /\ a \o b \in Seq(Callers) /\ Len(a \o b) = Len(a) + Len(b)
      /\ \A j \in 1..(Len(a) + Len(b)) : (a \o b)[j] = IF j <= Len(a) THEN a[j] ELSE b[j - Len(a)]
 BY <1>5, ConcatProperties
<1>7. Len(RemoveAt(q, i)) = Len(q) - 1 /\ RemoveAt(q, i) \in Seq(Callers)
 BY <1>1, <1>4, <1>5, <1>6
<1>8. ASSUME NEW j \in DOMAIN RemoveAt(q, i)
      PROVE  RemoveAt(q, i)[j] = IF j < i THEN q[j] ELSE q[j + 1]
 <2>1. j \in 1..(Len(q) - 1) BY <1>7
 <2>2. CASE j < i
  <3>1. j \in 1..(i - 1) /\ j \in 1..(Len(a) + Len(b)) /\ j <= Len(a) BY <1>1, <1>5, <2>1, <2>2
  <3> QED BY <1>4, <1>5, <1>6, <2>2, <3>1
 <2>3. CASE ~(j < i)
  <3>1. /\ j \in 1..(Len(a) + Len(b)) /\ ~(j <= Len(a))
        /\ j - Len(a) \in 1..(Len(q) - i) /\ (j - Len(a)) + i = j + 1
   BY SMTT(30), <1>1, <1>5, <2>1, <2>3
  <3>2. RemoveAt(q, i)[j] = b[j - Len(a)] BY <1>4, <1>6, <3>1
  <3> QED BY <1>5, <2>3, <3>1, <3>2
 <2> QED BY <2>2, <2>3
<1> QED BY <1>7, <1>8

--------------------------------------------------
(* Nobody holds a slot at first. *)
LEMMA SlotsInitInv == SlotsInit => SlotsInv
<1> SUFFICES ASSUME SlotsInit PROVE SlotsInv
 OBVIOUS
<1> USE DEF SlotsInit
<1>1. SlotsTypeOK BY DEF SlotsTypeOK
<1>2. QueueIsWaiting BY DEF QueueIsWaiting, Waiting
<1>3. Holders = {} BY DEF Holders
<1>4. IsFiniteSet(Holders) /\ ActiveIsHolders BY <1>3, FS_EmptySet DEF ActiveIsHolders
<1>5. WithinALimit BY EffectiveType DEF WithinALimit
<1>6. NoIdleSlot BY DEF NoIdleSlot
<1>7. QED BY <1>1, <1>2, <1>4, <1>5, <1>6 DEF SlotsInv

(* acquire keeps the invariant: a free slot is taken, or the queue grows. *)
LEMMA AcquireInv == ASSUME SlotsInv, NEW c \in Callers, Acquire(c) PROVE SlotsInv'
<1> USE DEF SlotsInv
<1>1. CASE active < Effective(limit)
 <2>1. /\ active' = active + 1 /\ queue' = queue /\ limit' = limit
       /\ place[c] = "out" /\ place' = [place EXCEPT ![c] = "in"]
  BY <1>1, EffectiveType DEF Acquire, SlotsTypeOK
 <2>2. SlotsTypeOK' BY <2>1 DEF SlotsTypeOK
 <2>3. QueueIsWaiting' BY <2>1 DEF QueueIsWaiting, Waiting, SlotsTypeOK
 <2>4. Holders' = Holders \union {c} /\ c \notin Holders BY <2>1 DEF Holders, SlotsTypeOK
 <2>5. IsFiniteSet(Holders') /\ ActiveIsHolders'
  BY <2>1, <2>4, FS_AddElement DEF ActiveIsHolders
 <2>6. WithinALimit' BY <1>1, <2>1, EffectiveType DEF WithinALimit, SlotsTypeOK
 <2>7. NoIdleSlot'
  <3> SUFFICES ASSUME queue # <<>> PROVE \E n \in Limits : active' >= Effective(n)
   BY <2>1 DEF NoIdleSlot
  <3>1. PICK n \in Limits : active >= Effective(n) BY DEF NoIdleSlot
  <3>2. active' >= Effective(n) BY <2>1, <3>1, EffectiveType DEF SlotsTypeOK
  <3> QED BY <3>2
 <2> QED BY <2>2, <2>3, <2>5, <2>6, <2>7
<1>2. CASE ~(active < Effective(limit))
 <2>1. /\ active' = active /\ queue' = Append(queue, c) /\ limit' = limit
       /\ place[c] = "out" /\ place' = [place EXCEPT ![c] = "queued"]
       /\ active >= Effective(limit)
  BY <1>2, EffectiveType DEF Acquire, SlotsTypeOK
 <2>2. SlotsTypeOK' BY <2>1 DEF SlotsTypeOK
 <2>3. /\ Len(queue') = Len(queue) + 1 /\ queue'[Len(queue) + 1] = c
       /\ \A i \in 1..Len(queue) : queue'[i] = queue[i]
       /\ DOMAIN queue = 1..Len(queue) /\ DOMAIN queue' = 1..(Len(queue) + 1)
       /\ Len(queue) \in Nat
  BY <2>1 DEF SlotsTypeOK
 <2>4. \A i \in DOMAIN queue : queue[i] # c BY <2>1 DEF QueueIsWaiting
 <2>5. QueueIsWaiting'
  <3>1. \A i \in DOMAIN queue' : place'[queue'[i]] = "queued"
   <4> SUFFICES ASSUME NEW i \in DOMAIN queue' PROVE place'[queue'[i]] = "queued"
    OBVIOUS
   <4>1. CASE i \in DOMAIN queue
    <5>1. queue[i] \in Callers /\ place[queue[i]] = "queued" /\ queue'[i] = queue[i]
     BY <2>3, <4>1 DEF QueueIsWaiting, SlotsTypeOK
    <5> QED BY <2>1, <5>1 DEF SlotsTypeOK
   <4>2. CASE i = Len(queue) + 1 BY <2>1, <2>3, <4>2 DEF SlotsTypeOK
   <4> QED BY <2>3, <4>1, <4>2
  <3>2. \A d \in Waiting' : \E i \in DOMAIN queue' : queue'[i] = d
   <4> SUFFICES ASSUME NEW d \in Waiting' PROVE \E i \in DOMAIN queue' : queue'[i] = d
    OBVIOUS
   <4>1. CASE d = c BY <2>3, <4>1
   <4>2. CASE d # c
    <5>1. d \in Waiting BY <2>1, <4>2 DEF Waiting, SlotsTypeOK
    <5>2. PICK i \in DOMAIN queue : queue[i] = d BY <5>1 DEF QueueIsWaiting
    <5> QED BY <2>3, <5>2
   <4> QED BY <4>1, <4>2
  <3>3. \A i, j \in DOMAIN queue' : queue'[i] = queue'[j] => i = j
   BY <2>3, <2>4 DEF QueueIsWaiting
  <3> QED BY <3>1, <3>2, <3>3 DEF QueueIsWaiting
 <2>6. Holders' = Holders BY <2>1 DEF Holders, SlotsTypeOK
 <2>7. IsFiniteSet(Holders') /\ ActiveIsHolders' BY <2>1, <2>6 DEF ActiveIsHolders
 <2>8. WithinALimit' /\ NoIdleSlot' BY <2>1 DEF WithinALimit, NoIdleSlot, SlotsTypeOK
 <2> QED BY <2>2, <2>5, <2>7, <2>8
<1> QED BY <1>1, <1>2

(* release keeps it: the slot goes to the head of the queue or becomes free. *)
LEMMA ReleaseInv == ASSUME SlotsInv, NEW c \in Callers, Release(c) PROVE SlotsInv'
<1> USE DEF SlotsInv
<1>1. /\ c \in Holders /\ limit' = limit
      /\ IsFiniteSet(Holders \ {c}) /\ Cardinality(Holders \ {c}) = active - 1
      /\ active > 0
 <2>1. c \in Holders /\ limit' = limit BY DEF Release, Holders
 <2>2. /\ IsFiniteSet(Holders \ {c})
       /\ Cardinality(Holders \ {c}) = Cardinality(Holders) - 1
  BY <2>1, FS_RemoveElement
 <2>3. Cardinality(Holders \ {c}) \in Nat /\ active \in Nat
  BY <2>2, FS_CardinalityType DEF SlotsTypeOK
 <2> QED BY <2>1, <2>2, <2>3 DEF ActiveIsHolders
<1>2. CASE queue # <<>>
 <2> DEFINE h == Head(queue)
 <2>1. /\ active' = active /\ queue' = Tail(queue)
       /\ place' = [place EXCEPT ![c] = "out", ![h] = "in"]
  BY <1>2 DEF Release
 <2>2. /\ h \in Callers /\ h = queue[1] /\ 1 \in DOMAIN queue
       /\ queue' \in Seq(Callers) /\ Len(queue) \in Nat
       /\ DOMAIN queue' = 1..(Len(queue) - 1) /\ DOMAIN queue = 1..Len(queue)
       /\ \A i \in 1..(Len(queue) - 1) : queue'[i] = queue[i + 1]
  BY <1>2, <2>1 DEF SlotsTypeOK
 <2>3. place[h] = "queued" /\ h # c BY <1>1, <2>2 DEF QueueIsWaiting, Holders
 <2>4. SlotsTypeOK' BY <1>1, <2>1, <2>2 DEF SlotsTypeOK
 <2>5. QueueIsWaiting'
  <3>1. \A i \in DOMAIN queue' :
          queue'[i] \in Callers /\ queue'[i] # h /\ queue'[i] # c /\ place[queue'[i]] = "queued"
   <4> SUFFICES ASSUME NEW i \in DOMAIN queue'
                PROVE  queue'[i] \in Callers /\ queue'[i] # h /\ queue'[i] # c /\ place[queue'[i]] = "queued"
    OBVIOUS
   <4>1. i + 1 \in DOMAIN queue /\ i + 1 # 1 /\ queue'[i] = queue[i + 1] BY <2>2
   <4>2. place[queue[i + 1]] = "queued" /\ queue[i + 1] # queue[1]
    BY <2>2, <4>1 DEF QueueIsWaiting
   <4>3. queue[i + 1] \in Callers BY <4>1 DEF SlotsTypeOK
   <4> QED BY <1>1, <2>2, <4>1, <4>2, <4>3 DEF Holders
  <3>2. \A i \in DOMAIN queue' : place'[queue'[i]] = "queued" BY <2>1, <3>1 DEF SlotsTypeOK
  <3>3. \A d \in Waiting' : \E i \in DOMAIN queue' : queue'[i] = d
   <4> SUFFICES ASSUME NEW d \in Waiting' PROVE \E i \in DOMAIN queue' : queue'[i] = d
    OBVIOUS
   <4>1. d \in Waiting /\ d # h BY <2>1, <2>2 DEF Waiting, SlotsTypeOK
   <4>2. PICK i \in DOMAIN queue : queue[i] = d BY <4>1 DEF QueueIsWaiting
   <4>3. i # 1 /\ i - 1 \in DOMAIN queue' BY <2>2, <4>1, <4>2
   <4>4. queue'[i - 1] = d BY <2>2, <4>2, <4>3
   <4> QED BY <4>3, <4>4
  <3>4. \A i, j \in DOMAIN queue' : queue'[i] = queue'[j] => i = j
   BY SMTT(30), <2>2 DEF QueueIsWaiting
  <3> QED BY <3>2, <3>3, <3>4 DEF QueueIsWaiting
 <2>6. Holders' = (Holders \ {c}) \union {h} /\ h \notin Holders \ {c}
  BY <1>1, <2>1, <2>2, <2>3 DEF Holders, SlotsTypeOK
 <2>7. IsFiniteSet(Holders') /\ ActiveIsHolders'
  <3>1. /\ IsFiniteSet(Holders')
        /\ Cardinality(Holders') = Cardinality(Holders \ {c}) + 1
   BY <1>1, <2>6, FS_AddElement
  <3> QED BY <1>1, <2>1, <3>1 DEF ActiveIsHolders, SlotsTypeOK
 <2>8. WithinALimit' BY <1>1, <2>1 DEF WithinALimit
 <2>9. NoIdleSlot' BY <1>2, <2>1 DEF NoIdleSlot
 <2> QED BY <2>4, <2>5, <2>7, <2>8, <2>9
<1>3. CASE queue = <<>>
 <2>1. /\ active' = active - 1 /\ queue' = queue /\ place[c] = "in"
       /\ place' = [place EXCEPT ![c] = "out"]
  BY <1>1, <1>3 DEF Release, SlotsTypeOK
 <2>2. SlotsTypeOK' BY <1>1, <2>1 DEF SlotsTypeOK
 <2>3. QueueIsWaiting' BY <2>1 DEF QueueIsWaiting, Waiting, SlotsTypeOK
 <2>4. Holders' = Holders \ {c} BY <2>1 DEF Holders, SlotsTypeOK
 <2>5. IsFiniteSet(Holders') /\ ActiveIsHolders' BY <1>1, <2>1, <2>4 DEF ActiveIsHolders
 <2>6. WithinALimit'
  <3>1. PICK n \in Limits : active <= Effective(n) BY DEF WithinALimit
  <3>2. active' <= Effective(n) BY <2>1, <3>1, EffectiveType DEF SlotsTypeOK
  <3> QED BY <3>2 DEF WithinALimit
 <2>7. NoIdleSlot' BY <1>3, <2>1 DEF NoIdleSlot
 <2> QED BY <2>2, <2>3, <2>5, <2>6, <2>7
<1> QED BY <1>2, <1>3

(* An abort takes one caller out of the queue and leaves the slots alone. *)
LEMMA AbortInv == ASSUME SlotsInv, NEW c \in Callers, Abort(c) PROVE SlotsInv'
<1> USE DEF SlotsInv
<1>1. PICK k \in DOMAIN queue : queue[k] = c /\ queue' = RemoveAt(queue, k) BY DEF Abort
<1>2. /\ active' = active /\ limit' = limit /\ place[c] = "queued"
      /\ place' = [place EXCEPT ![c] = "out"]
 BY DEF Abort
<1>3. /\ queue' \in Seq(Callers) /\ Len(queue') = Len(queue) - 1
      /\ \A j \in DOMAIN queue' : queue'[j] = IF j < k THEN queue[j] ELSE queue[j + 1]
 BY <1>1, WithoutOne DEF SlotsTypeOK
<1>4. /\ DOMAIN queue = 1..Len(queue) /\ DOMAIN queue' = 1..(Len(queue) - 1)
      /\ Len(queue) \in Nat
 BY <1>3 DEF SlotsTypeOK
<1>5. SlotsTypeOK' BY <1>2, <1>3 DEF SlotsTypeOK
<1>6. QueueIsWaiting'
 <2>1. \A j \in DOMAIN queue' :
         queue'[j] \in Callers /\ queue'[j] # c /\ place[queue'[j]] = "queued"
  BY <1>1, <1>3, <1>4 DEF QueueIsWaiting, SlotsTypeOK
 <2>2. \A j \in DOMAIN queue' : place'[queue'[j]] = "queued" BY <1>2, <2>1 DEF SlotsTypeOK
 <2>3. \A d \in Waiting' : \E j \in DOMAIN queue' : queue'[j] = d
  <3> SUFFICES ASSUME NEW d \in Waiting' PROVE \E j \in DOMAIN queue' : queue'[j] = d
   OBVIOUS
  <3>1. d \in Waiting /\ d # c BY <1>2 DEF Waiting, SlotsTypeOK
  <3>2. PICK i \in DOMAIN queue : queue[i] = d BY <3>1 DEF QueueIsWaiting
  <3>3. CASE i < k
   <4>1. i \in DOMAIN queue' /\ queue'[i] = d BY <1>1, <1>3, <1>4, <3>2, <3>3
   <4> QED BY <4>1
  <3>4. CASE i > k
   <4>1. i - 1 \in DOMAIN queue' /\ ~(i - 1 < k) /\ (i - 1) + 1 = i BY <1>1, <1>4, <3>2, <3>4
   <4>2. queue'[i - 1] = d BY <1>3, <3>2, <4>1
   <4> QED BY <4>1, <4>2
  <3> QED BY <1>1, <1>4, <3>1, <3>2, <3>3, <3>4
 <2>4. \A i, j \in DOMAIN queue' : queue'[i] = queue'[j] => i = j
  BY SMTT(30), <1>1, <1>3, <1>4 DEF QueueIsWaiting
 <2> QED BY <2>2, <2>3, <2>4 DEF QueueIsWaiting
<1>7. Holders' = Holders BY <1>2 DEF Holders, SlotsTypeOK
<1>8. IsFiniteSet(Holders') /\ ActiveIsHolders' /\ WithinALimit'
 BY <1>2, <1>7 DEF ActiveIsHolders, WithinALimit
<1>9. NoIdleSlot'
 <2>1. queue # <<>> BY <1>1
 <2> QED BY <1>2, <2>1 DEF NoIdleSlot
<1> QED BY <1>5, <1>6, <1>8, <1>9

(* A new limit changes none of this: it wakes nobody and takes nothing back. *)
LEMMA SetLimitInv == ASSUME SlotsInv, NEW n \in Limits, SetLimit(n) PROVE SlotsInv'
<1>1. /\ active' = active /\ queue' = queue /\ place' = place /\ limit' = n BY DEF SetLimit
<1>2. Holders' = Holders /\ Waiting' = Waiting BY <1>1 DEF Holders, Waiting
<1> QED
 BY <1>1, <1>2 DEF SlotsInv, SlotsTypeOK, QueueIsWaiting, ActiveIsHolders, WithinALimit, NoIdleSlot

(* Every operation keeps the invariant. *)
LEMMA SlotsStepInv == SlotsInv /\ [SlotsNext]_slots => SlotsInv'
<1> SUFFICES ASSUME SlotsInv, [SlotsNext]_slots PROVE SlotsInv'
 OBVIOUS
<1>1. ASSUME NEW c \in Callers, Acquire(c) \/ Release(c) \/ Abort(c) PROVE SlotsInv'
 BY <1>1, AcquireInv, ReleaseInv, AbortInv
<1>2. ASSUME NEW n \in Limits, SetLimit(n) PROVE SlotsInv'
 BY <1>2, SetLimitInv
<1>3. CASE UNCHANGED slots
 <2>1. Holders' = Holders /\ Waiting' = Waiting BY <1>3 DEF Holders, Waiting, slots
 <2> QED
  BY <1>3, <2>1 DEF slots, SlotsInv, SlotsTypeOK, QueueIsWaiting, ActiveIsHolders, WithinALimit, NoIdleSlot
<1> QED BY <1>1, <1>2, <1>3 DEF SlotsNext

(* The semaphore of ConcurrencyManager.ts: for any callers and limits, slots  *)
(* are neither leaked nor given back twice, never more are taken than a limit *)
(* allows, and nobody waits while they are free.                              *)
THEOREM SlotsCorrect ==
  SlotsSpec => [](SlotsTypeOK /\ QueueIsWaiting /\ SlotsSound)
<1>1. SlotsInv => SlotsTypeOK /\ QueueIsWaiting /\ SlotsSound BY DEF SlotsInv, SlotsSound
<1> QED BY SlotsInitInv, SlotsStepInv, <1>1, PTL DEF SlotsSpec

--------------------------------------------------
(* The agent's requests over it. *)

(* What an attempt showed: before a retry, nothing. A stream belongs to an    *)
(* attempt that is counted.                                                   *)
ShowInv(r) ==
  /\ showed[r] \subseteq {attempt[r]}
  /\ stage[r] \in {"attempt", "backoff"} => showed[r] = {} /\ attempt[r] <= MaxRetries
  /\ stage[r] = "stream" => attempt[r] > 0
  /\ stage[r] = "stream" /\ ~emitted[r] => showed[r] = {}

(* Calls without a result are there only while they are executed. *)
PairInv(r) ==
  /\ stage[r] = "tools" => unpaired[r] = calls[r] /\ calls[r] > 0
  /\ stage[r] # "tools" => unpaired[r] = 0

AgentInv ==
  /\ SlotsInv
  /\ TypeOK
  /\ SlotOnlyForStream
  /\ \A r \in Callers : ShowInv(r) /\ PairInv(r)

--------------------------------------------------
(* The slots move only as the semaphore moves them. *)
LEMMA SlotsKept ==
  ASSUME AgentInv, Next PROVE SlotsInv'
<1>1. [SlotsNext]_slots
 BY DEF Next, Begin, Chunk, Aborted, Step, RunTurn, Attempt, Ends, Answer, Fail, Backoff, Tool,
        SlotsNext
<1> QED BY <1>1, SlotsStepInv DEF AgentInv

(* Releasing changes the place of this caller, and of one that waits. *)
LEMMA ReleasePlaces ==
  ASSUME AgentInv, NEW r \in Callers, Release(r)
  PROVE  /\ place' \in [Callers -> {"out", "queued", "in"}]
         /\ place'[r] = "out"
         /\ \A c \in Callers \ {r} : place'[c] # "out" <=> place[c] # "out"
<1> USE DEF AgentInv, SlotsInv, SlotsTypeOK
<1>1. CASE queue # <<>>
 <2>1. /\ Head(queue) \in Callers /\ Head(queue) = queue[1] /\ 1 \in DOMAIN queue BY <1>1
 <2>2. place[Head(queue)] = "queued" /\ place[r] = "in" BY <2>1 DEF QueueIsWaiting, Release
 <2>3. place' = [place EXCEPT ![r] = "out", ![Head(queue)] = "in"] BY <1>1 DEF Release
 <2> QED BY <2>1, <2>2, <2>3
<1>2. CASE queue = <<>> BY <1>2 DEF Release
<1> QED BY <1>1, <1>2

--------------------------------------------------
LEMMA AgentInitInv == Init => AgentInv
<1> SUFFICES ASSUME Init PROVE AgentInv
 OBVIOUS
<1>1. SlotsInv BY SlotsInitInv DEF Init
<1>2. TypeOK /\ SlotOnlyForStream
 BY <1>1, AgentConstants DEF Init, SlotsInit, TypeOK, SlotsInv, SlotOnlyForStream, Stages
<1>3. \A r \in Callers : ShowInv(r) /\ PairInv(r) BY DEF Init, ShowInv, PairInv
<1> QED BY <1>1, <1>2, <1>3 DEF AgentInv

(* A step of one request keeps what is said of it, and of the others. *)
LEMMA AgentNextInv == ASSUME AgentInv, Next PROVE AgentInv'
<1> USE DEF AgentInv
<1>0. SlotsInv' /\ SlotsTypeOK' BY SlotsKept DEF SlotsInv
<1>t. /\ stage \in [Callers -> Stages] /\ place \in [Callers -> {"out", "queued", "in"}]
      /\ loops \in [Callers -> 0..MaxLoops] /\ attempt \in [Callers -> 0..MaxRetries + 1]
      /\ emitted \in [Callers -> BOOLEAN] /\ showed \in [Callers -> SUBSET (1..MaxRetries + 1)]
      /\ calls \in [Callers -> 0..MaxCalls] /\ unpaired \in [Callers -> 0..MaxCalls]
      /\ MaxLoops \in Nat /\ MaxRetries \in Nat /\ MaxCalls \in Nat
 BY AgentConstants DEF TypeOK, SlotsTypeOK
<1>1. ASSUME NEW r \in Callers, Begin(r) PROVE AgentInv'
 <2>1. TypeOK' BY <1>0, <1>1, <1>t DEF Begin, Goes, TypeOK, Stages
 <2>2. SlotOnlyForStream' BY <1>1, <1>t DEF Begin, Goes, SlotOnlyForStream, slots
 <2>3. \A c \in Callers : ShowInv(c)' /\ PairInv(c)'
  BY <1>1, <1>t DEF Begin, Goes, ShowInv, PairInv
 <2> QED BY <1>0, <2>1, <2>2, <2>3
<1>2. ASSUME NEW r \in Callers, RunTurn(r) PROVE AgentInv'
 <2>1. TypeOK' BY SMTT(30), <1>0, <1>2, <1>t DEF RunTurn, Goes, TypeOK, Stages
 <2>2. SlotOnlyForStream' BY <1>2, <1>t DEF RunTurn, Goes, SlotOnlyForStream, slots
 <2>3. \A c \in Callers : ShowInv(c)' /\ PairInv(c)'
  BY <1>2, <1>t DEF RunTurn, Goes, ShowInv, PairInv
 <2> QED BY <1>0, <2>1, <2>2, <2>3
<1>3. ASSUME NEW r \in Callers, Attempt(r) PROVE AgentInv'
 <2>0. attempt[r] <= MaxRetries /\ showed[r] = {} BY <1>3 DEF Attempt, ShowInv
 <2>1. TypeOK' BY <1>0, <1>3, <1>t, <2>0 DEF Attempt, Goes, TypeOK, Stages
 <2>2. SlotOnlyForStream' BY <1>3, <1>t DEF Attempt, Acquire, Goes, SlotOnlyForStream
 <2>3. \A c \in Callers : ShowInv(c)' /\ PairInv(c)'
  BY <1>3, <1>t, <2>0 DEF Attempt, Goes, ShowInv, PairInv
 <2> QED BY <1>0, <2>1, <2>2, <2>3
<1>4. ASSUME NEW r \in Callers, Chunk(r) PROVE AgentInv'
 <2>1. attempt[r] \in 1..MaxRetries + 1 BY <1>4, <1>t DEF Chunk, Streaming, ShowInv
 <2>2. TypeOK' BY <1>0, <1>4, <1>t, <2>1 DEF Chunk, TypeOK
 <2>3. SlotOnlyForStream' BY <1>4 DEF Chunk, SlotOnlyForStream, slots
 <2>4. \A c \in Callers : ShowInv(c)' /\ PairInv(c)'
  BY <1>4, <1>t DEF Chunk, Streaming, ShowInv, PairInv
 <2> QED BY <1>0, <2>2, <2>3, <2>4
<1>5. ASSUME NEW r \in Callers, Answer(r) PROVE AgentInv'
 <2>1. TypeOK' BY <1>0, <1>5, <1>t DEF Answer, Streaming, Goes, TypeOK, Stages, PairInv
 <2>2. SlotOnlyForStream' BY <1>5, <1>t, ReleasePlaces DEF Answer, Goes, SlotOnlyForStream
 <2>3. \A c \in Callers : ShowInv(c)' /\ PairInv(c)'
  BY <1>5, <1>t DEF Answer, Streaming, Goes, ShowInv, PairInv
 <2> QED BY <1>0, <2>1, <2>2, <2>3
<1>6. ASSUME NEW r \in Callers, Fail(r) PROVE AgentInv'
 <2>1. TypeOK' BY <1>0, <1>6, <1>t DEF Fail, Goes, TypeOK, Stages
 <2>2. SlotOnlyForStream' BY <1>6, <1>t, ReleasePlaces DEF Fail, Goes, SlotOnlyForStream
 <2>3. \A c \in Callers : ShowInv(c)' /\ PairInv(c)'
  BY <1>6, <1>t DEF Fail, Streaming, MayRetry, Goes, ShowInv, PairInv
 <2> QED BY <1>0, <2>1, <2>2, <2>3
<1>7. ASSUME NEW r \in Callers, Backoff(r) PROVE AgentInv'
 <2>1. TypeOK' BY <1>0, <1>7, <1>t DEF Backoff, Goes, TypeOK, Stages
 <2>2. SlotOnlyForStream' BY <1>7, <1>t DEF Backoff, Goes, SlotOnlyForStream, slots
 <2>3. \A c \in Callers : ShowInv(c)' /\ PairInv(c)'
  BY <1>7, <1>t DEF Backoff, Goes, ShowInv, PairInv
 <2> QED BY <1>0, <2>1, <2>2, <2>3
<1>8. ASSUME NEW r \in Callers, Tool(r) PROVE AgentInv'
 <2>0. PICK n \in {1, calls[r]} : /\ calls' = [calls EXCEPT ![r] = @ - n]
                                  /\ unpaired' = [unpaired EXCEPT ![r] = @ - n]
  BY <1>8 DEF Tool
 <2>1. unpaired[r] = calls[r] /\ calls[r] > 0 /\ calls[r] - n \in 0..MaxCalls
  BY <1>8, <1>t, <2>0 DEF Tool, PairInv
 <2>2. TypeOK' BY <1>0, <1>8, <1>t, <2>0, <2>1 DEF Tool, Goes, TypeOK, Stages
 <2>3. SlotOnlyForStream' BY <1>8, <1>t DEF Tool, Goes, SlotOnlyForStream, slots
 <2>4. \A c \in Callers : ShowInv(c)' /\ PairInv(c)'
  BY <1>8, <1>t, <2>0, <2>1 DEF Tool, Goes, ShowInv, PairInv
 <2> QED BY <1>0, <2>2, <2>3, <2>4
<1>9. ASSUME NEW r \in Callers, Aborted(r) PROVE AgentInv'
 <2>1. TypeOK' BY <1>0, <1>9, <1>t DEF Aborted, Goes, TypeOK, Stages
 <2>2. SlotOnlyForStream' BY <1>9, <1>t DEF Aborted, Abort, Goes, SlotOnlyForStream
 <2>3. \A c \in Callers : ShowInv(c)' /\ PairInv(c)'
  BY <1>9, <1>t DEF Aborted, Goes, ShowInv, PairInv
 <2> QED BY <1>0, <2>1, <2>2, <2>3
<1>10. ASSUME NEW n \in Limits, SetLimit(n), UNCHANGED agent PROVE AgentInv'
 <2>1. TypeOK' /\ SlotOnlyForStream'
  BY <1>0, <1>10 DEF SetLimit, agent, TypeOK, SlotOnlyForStream
 <2>2. \A c \in Callers : ShowInv(c)' /\ PairInv(c)' BY <1>10 DEF agent, ShowInv, PairInv
 <2> QED BY <1>0, <2>1, <2>2
<1> QED BY <1>1, <1>2, <1>3, <1>4, <1>5, <1>6, <1>7, <1>8, <1>9, <1>10 DEF Next, Step, Ends

LEMMA AgentStepInv == AgentInv /\ [Next]_vars => AgentInv'
<1> SUFFICES ASSUME AgentInv, [Next]_vars PROVE AgentInv'
 OBVIOUS
<1>1. CASE Next BY <1>1, AgentNextInv
<1>2. CASE UNCHANGED vars
 <2>1. SlotsInv' BY <1>2, SlotsStepInv DEF vars, AgentInv
 <2>2. TypeOK' /\ SlotOnlyForStream'
  BY <1>2, <2>1 DEF vars, slots, agent, AgentInv, SlotsInv, TypeOK, SlotOnlyForStream
 <2>3. \A r \in Callers : ShowInv(r)' /\ PairInv(r)'
  BY <1>2 DEF vars, agent, AgentInv, ShowInv, PairInv
 <2> QED BY <2>1, <2>2, <2>3 DEF AgentInv
<1> QED BY <1>1, <1>2

(* The invariant says what the properties say. *)
LEMMA AgentInvImplies == AgentInv => TypeOK /\ SlotOnlyForStream /\ ShownOnce /\ Paired
<1> SUFFICES ASSUME AgentInv PROVE ShownOnce /\ Paired
 BY DEF AgentInv
<1>1. ShownOnce
 <2> SUFFICES ASSUME NEW r \in Callers PROVE Cardinality(showed[r]) <= 1
  BY DEF ShownOnce
 <2>1. showed[r] = {} \/ showed[r] = {attempt[r]} BY DEF AgentInv, ShowInv
 <2>2. Cardinality(showed[r]) = 0 \/ Cardinality(showed[r]) = 1
  BY <2>1, FS_EmptySet, FS_Singleton, Zenon
 <2> QED BY <2>2
<1>2. Paired BY DEF AgentInv, PairInv, Paired
<1> QED BY <1>1, <1>2

(* The agent's requests over the gateway and the semaphore, for any number of *)
(* requests, turns, retries and calls: the invariant above holds.             *)
THEOREM AgentInvariant == Spec => []AgentInv
BY AgentInitInv, AgentStepInv, PTL DEF Spec

(* Every variable keeps its type: the turns of a request and the retries of a *)
(* turn never go over their limits.                                           *)
THEOREM AgentTypes == Spec => []TypeOK
BY AgentInvariant, AgentInvImplies, PTL

(* AgentEngine.ts, LlmGateway.ts: what waits for a user, a tool or a timer    *)
(* never keeps a slot of the provider.                                        *)
THEOREM AgentSlotOnlyForStream == Spec => []SlotOnlyForStream
BY AgentInvariant, AgentInvImplies, PTL

(* LlmGateway.ts: the window never sees a turn twice, whatever was retried. *)
THEOREM AgentShownOnce == Spec => []ShownOnce
BY AgentInvariant, AgentInvImplies, PTL

(* AgentEngine.ts: a history that goes out has a result for each of its calls.*)
THEOREM AgentPaired == Spec => []Paired
BY AgentInvariant, AgentInvImplies, PTL

(* The semaphore keeps its promises under the agent's use of it. *)
THEOREM AgentSlotsCorrect == Spec => []SlotsSound
<1>1. AgentInv => SlotsSound BY DEF AgentInv, SlotsInv, SlotsSound
<1> QED BY AgentInvariant, <1>1, PTL
=============================================================================
