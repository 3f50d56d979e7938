---------------------------- MODULE AgentTurns ----------------------------
(* An agent's requests to an AI provider: the loop of turns and tool calls    *)
(* (services/AgentEngine.ts), the retries of a turn (services/ai/             *)
(* LlmGateway.ts) and the provider's slots (ConcurrencyManager). Several      *)
(* requests run at a time; each await lets the others go on.                  *)
(* onDone runs before the adapter releases its slot, and a turn that only     *)
(* continues ('pause_turn') asks for the next slot before it gives back this  *)
(* one. The queue is the same either way, so Answer releases first; another   *)
(* request may then come in between, which only adds behaviours.              *)

EXTENDS ConcurrencyManager

CONSTANTS
  MaxLoops,    \* MAX_LOOPS (15): turns of one request
  MaxRetries,  \* MAX_RETRIES (3): retries of one turn
  MaxCalls     \* bound: tool calls in one answer

ASSUME AgentConstants == {MaxLoops, MaxRetries, MaxCalls} \subseteq Nat \ {0}

VARIABLES
  stage,       \* what each request is doing
  loops,       \* loopCount
  attempt,     \* attempt: of the turn
  emitted,     \* emitted: this attempt has shown something
  showed,      \* history: the attempts of this turn that showed something
  calls,       \* tool calls of the last answer still to be executed
  unpaired     \* tool calls in the history without a result in it

agent == <<stage, loops, attempt, emitted, showed, calls, unpaired>>
vars == <<slots, agent>>

Stages == {"idle", "turn", "attempt", "stream", "backoff", "tools"}

Init ==
  /\ SlotsInit
  /\ stage = [r \in Callers |-> "idle"]
  /\ loops = [r \in Callers |-> 0]
  /\ attempt = [r \in Callers |-> 0]
  /\ emitted = [r \in Callers |-> FALSE]
  /\ showed = [r \in Callers |-> {}]
  /\ calls = [r \in Callers |-> 0]
  /\ unpaired = [r \in Callers |-> 0]

Goes(r, s) == stage' = [stage EXCEPT ![r] = s]

(* runAgentLoop: a fresh history and the first turn. *)
Begin(r) ==
  /\ stage[r] = "idle" /\ Goes(r, "turn")
  /\ loops' = [loops EXCEPT ![r] = 0]
  /\ unpaired' = [unpaired EXCEPT ![r] = 0]
  /\ UNCHANGED <<slots, attempt, emitted, showed, calls>>

(* runTurn: the last of MAX_LOOPS turns ends the request; otherwise the       *)
(* history goes out, with no attempt made yet.                                *)
RunTurn(r) ==
  /\ stage[r] = "turn"
  /\ \/ loops[r] >= MaxLoops /\ Goes(r, "idle") /\ UNCHANGED <<loops, attempt, showed>>
     \/ /\ loops[r] < MaxLoops /\ Goes(r, "attempt")
        /\ loops' = [loops EXCEPT ![r] = @ + 1]
        /\ attempt' = [attempt EXCEPT ![r] = 0]
        /\ showed' = [showed EXCEPT ![r] = {}]
  /\ UNCHANGED <<slots, emitted, calls, unpaired>>

(* One round of the retry loop: a new attempt asks for a slot. *)
Attempt(r) ==
  /\ stage[r] = "attempt" /\ Goes(r, "stream")
  /\ attempt' = [attempt EXCEPT ![r] = @ + 1]
  /\ emitted' = [emitted EXCEPT ![r] = FALSE]
  /\ Acquire(r)
  /\ UNCHANGED <<loops, showed, calls, unpaired>>

Streaming(r) == stage[r] = "stream" /\ place[r] = "in"

(* A chunk, thought or block reaches the window. *)
Chunk(r) ==
  /\ Streaming(r)
  /\ emitted' = [emitted EXCEPT ![r] = TRUE]
  /\ showed' = [showed EXCEPT ![r] = @ \union {attempt[r]}]
  /\ UNCHANGED <<slots, stage, loops, attempt, calls, unpaired>>

(* The stream is complete: its calls go into the history and are executed, or *)
(* the turn continues (pause_turn, an <ACTION> in the text whose result goes  *)
(* into the history as text), or the request is done.                         *)
Answer(r) ==
  /\ Streaming(r) /\ Release(r)
  /\ \/ \E n \in 1..MaxCalls :
          /\ calls' = [calls EXCEPT ![r] = n]
          /\ unpaired' = [unpaired EXCEPT ![r] = @ + n]
          /\ Goes(r, "tools")
     \/ Goes(r, "turn") /\ UNCHANGED <<calls, unpaired>>
     \/ Goes(r, "idle") /\ UNCHANGED <<calls, unpaired>>
  /\ UNCHANGED <<loops, attempt, emitted, showed>>

(* A slip: a turn is retried although part of it was shown. *)
MayRetryShown(r) == attempt[r] <= MaxRetries

(* A slip: one retry too many. *)
MayRetryOver(r) == attempt[r] <= MaxRetries + 1 /\ ~emitted[r]

(* A turn is retried only while the window has seen nothing of it. *)
MayRetry(r) == attempt[r] <= MaxRetries /\ ~emitted[r]

(* A slip: a failed attempt keeps its slot through the backoff. *)
FailHolding(r) ==
  /\ Streaming(r)
  /\ \/ /\ MayRetry(r) /\ Goes(r, "backoff") /\ UNCHANGED slots
     \/ Goes(r, "idle") /\ Release(r)
  /\ UNCHANGED <<loops, attempt, emitted, showed, calls, unpaired>>

(* The adapter throws: the finally block gives the slot back; the gateway     *)
(* tries again after a backoff (a retryable error), at once (a 400 that       *)
(* taught it a quirk of the model), or reports the error.                     *)
Fail(r) ==
  /\ Streaming(r) /\ Release(r)
  /\ \/ MayRetry(r) /\ \E s \in {"backoff", "attempt"} : Goes(r, s)
     \/ Goes(r, "idle")
  /\ UNCHANGED <<loops, attempt, emitted, showed, calls, unpaired>>

(* A request that waits for a slot is aborted: acquire throws, and the turn   *)
(* is not retried. (No request of this version carries a signal yet.)         *)
Aborted(r) ==
  /\ stage[r] = "stream" /\ Abort(r) /\ Goes(r, "idle")
  /\ UNCHANGED <<loops, attempt, emitted, showed, calls, unpaired>>

Backoff(r) ==
  /\ stage[r] = "backoff" /\ Goes(r, "attempt")
  /\ UNCHANGED <<slots, loops, attempt, emitted, showed, calls, unpaired>>

(* A slip: after the failure of a critical tool the rest goes unanswered. *)
ToolDropping(r) ==
  /\ stage[r] = "tools"
  /\ \E skip \in BOOLEAN :
       /\ calls' = [calls EXCEPT ![r] = IF skip THEN 0 ELSE @ - 1]
       /\ unpaired' = [unpaired EXCEPT ![r] = @ - 1]
       /\ Goes(r, IF calls'[r] = 0 THEN "turn" ELSE "tools")
  /\ UNCHANGED <<slots, loops, attempt, emitted, showed>>

(* The next tool call ends, well or badly; a critical failure answers the     *)
(* remaining calls unexecuted. With the last result the turn goes on.         *)
Tool(r) ==
  /\ stage[r] = "tools"
  /\ \E answered \in {1, calls[r]} :
       /\ calls' = [calls EXCEPT ![r] = @ - answered]
       /\ unpaired' = [unpaired EXCEPT ![r] = @ - answered]
  /\ Goes(r, IF calls'[r] = 0 THEN "turn" ELSE "tools")
  /\ UNCHANGED <<slots, loops, attempt, emitted, showed>>

Ends(r) == Answer(r) \/ Fail(r)

Step(r) == RunTurn(r) \/ Attempt(r) \/ Ends(r) \/ Backoff(r) \/ Tool(r)

Next ==
  \/ \E r \in Callers : Begin(r) \/ Chunk(r) \/ Aborted(r) \/ Step(r)
  \/ \E n \in Limits : SetLimit(n) /\ UNCHANGED agent

Spec == Init /\ [][Next]_vars

(* Streams end (a timeout of 300 s), tools end and timers fire. *)
FairSpec == Spec /\ \A r \in Callers : WF_vars(Step(r))

--------------------------------------------------
(* Properties *)

(* Every variable keeps to the values the code gives it; a request waits or   *)
(* holds a slot only in the middle of an attempt.                             *)
TypeOK ==
  /\ SlotsTypeOK
  /\ stage \in [Callers -> Stages]
  /\ loops \in [Callers -> 0..MaxLoops] /\ attempt \in [Callers -> 0..MaxRetries + 1]
  /\ emitted \in [Callers -> BOOLEAN]
  /\ showed \in [Callers -> SUBSET (1..MaxRetries + 1)]
  /\ calls \in [Callers -> 0..MaxCalls] /\ unpaired \in [Callers -> 0..MaxCalls]

(* Nothing that waits for a user, a tool or a timer keeps a provider's slot. *)
SlotOnlyForStream == \A r \in Callers : place[r] # "out" <=> stage[r] = "stream"

(* The window never sees a turn twice: at most one attempt of it showed       *)
(* anything, whatever failed and was retried.                                 *)
ShownOnce == \A r \in Callers : Cardinality(showed[r]) <= 1

(* Every tool call in a history that goes out has its result in it: a         *)
(* provider answers 400 otherwise.                                            *)
Paired == \A r \in Callers : stage[r] \in {"attempt", "stream"} => unpaired[r] = 0

(* Every request ends: retries and turns run out and the queue forgets nobody.*)
Finishes == \A r \in Callers : stage[r] # "idle" ~> stage[r] = "idle"
=============================================================================
