------------------------ MODULE ConcurrencyManager ------------------------
(* The semaphore in front of one AI provider (services/ai/                    *)
(* ConcurrencyManager.ts): at most `limit` requests at a time, the others in  *)
(* a queue that a released slot is handed to.                                 *)

EXTENDS Naturals, Sequences, FiniteSets, SequencesExt

CONSTANTS
  Callers,     \* the requests that may want a slot
  Limits,      \* what setLimit may be given
  Default      \* the limit that stands in for none (10)

ASSUME ConcurrencyConstants ==
  /\ Limits \subseteq Nat /\ Limits # {}
  /\ Default \in Nat \ {0}

VARIABLES
  active,      \* activeRequests
  limit,       \* limits
  queue,       \* queues: the callers waiting, first come first
  place        \* where each caller is: "out", "queued" or "in"

slots == <<active, limit, queue, place>>

(* limits.get(key) || 10: a limit of 0 is no limit of its own. *)
Effective(n) == IF n = 0 THEN Default ELSE n

Holders == {c \in Callers : place[c] = "in"}
Waiting == {c \in Callers : place[c] = "queued"}

SlotsInit ==
  /\ active = 0 /\ limit \in Limits /\ queue = <<>>
  /\ place = [c \in Callers |-> "out"]

(* acquire without an abort: a slot at once, or the end of the queue. *)
Acquire(c) ==
  /\ place[c] = "out"
  /\ \/ /\ active < Effective(limit)
        /\ active' = active + 1
        /\ place' = [place EXCEPT ![c] = "in"]
        /\ UNCHANGED queue
     \/ /\ active >= Effective(limit)
        /\ queue' = Append(queue, c)
        /\ place' = [place EXCEPT ![c] = "queued"]
        /\ UNCHANGED active
  /\ UNCHANGED limit

(* A slip: the slot is given back and nobody is woken. *)
ReleaseOnly(c) ==
  /\ place[c] = "in"
  /\ active' = active - 1
  /\ place' = [place EXCEPT ![c] = "out"]
  /\ UNCHANGED <<queue, limit>>

(* A slip: the head of the queue is woken and the slot counted free as well. *)
ReleaseTwice(c) ==
  /\ place[c] = "in"
  /\ active' = active - 1
  /\ \/ /\ queue # <<>> /\ queue' = Tail(queue)
        /\ place' = [place EXCEPT ![c] = "out", ![Head(queue)] = "in"]
     \/ /\ queue = <<>> /\ UNCHANGED queue
        /\ place' = [place EXCEPT ![c] = "out"]
  /\ UNCHANGED limit

(* release: the head of the queue takes the slot over, or it becomes free. *)
Release(c) ==
  /\ place[c] = "in"
  /\ \/ /\ queue # <<>> /\ queue' = Tail(queue)
        /\ place' = [place EXCEPT ![c] = "out", ![Head(queue)] = "in"]
        /\ UNCHANGED active
     \/ /\ queue = <<>> /\ UNCHANGED queue
        /\ active' = IF active = 0 THEN 0 ELSE active - 1
        /\ place' = [place EXCEPT ![c] = "out"]
  /\ UNCHANGED limit

(* The signal of a waiting caller aborts: it leaves the queue. A signal that  *)
(* aborts later finds it gone.                                                *)
Abort(c) ==
  /\ place[c] = "queued"
  /\ \E i \in DOMAIN queue : queue[i] = c /\ queue' = RemoveAt(queue, i)
  /\ place' = [place EXCEPT ![c] = "out"]
  /\ UNCHANGED <<active, limit>>

(* setLimit changes the limit for those who come; it wakes nobody. *)
SetLimit(n) ==
  /\ limit' = n
  /\ UNCHANGED <<active, queue, place>>

SlotsNext ==
  \/ \E c \in Callers : Acquire(c) \/ Release(c) \/ Abort(c)
  \/ \E n \in Limits : SetLimit(n)

SlotsSpec == SlotsInit /\ [][SlotsNext]_slots

--------------------------------------------------
(* Properties *)

(* The state keeps its shape, and the queue holds exactly the callers that    *)
(* wait, each once.                                                           *)
SlotsTypeOK ==
  /\ active \in Nat /\ limit \in Limits
  /\ queue \in Seq(Callers)
  /\ place \in [Callers -> {"out", "queued", "in"}]

QueueIsWaiting ==
  /\ \A i \in DOMAIN queue : place[queue[i]] = "queued"
  /\ \A c \in Waiting : \E i \in DOMAIN queue : queue[i] = c
  /\ \A i, j \in DOMAIN queue : queue[i] = queue[j] => i = j

(* active counts the callers that hold a slot: none leaks, and none is given  *)
(* back twice, through queueing, handing over and aborting.                   *)
ActiveIsHolders == active = Cardinality(Holders)

(* Never more at a time than some limit set so far allows. *)
WithinALimit == \E n \in Limits : active <= Effective(n)

(* Nobody waits while the slots are free by every limit: release hands a slot *)
(* on instead of freeing it. (setLimit, raising the limit, wakes nobody.)     *)
NoIdleSlot == queue # <<>> => \E n \in Limits : active >= Effective(n)

(* The three together: no slot leaks, is handed out beyond every limit, or is *)
(* kept from a caller that waits.                                             *)
SlotsSound == ActiveIsHolders /\ WithinALimit /\ NoIdleSlot
=============================================================================
