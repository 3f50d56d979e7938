-------------------------------- MODULE Calls --------------------------------
(* What a client of a process promises its callers: a call is settled once,   *)
(* by an answer of the process it was made to, by a failure or by its timer;  *)
(* a connection that is lost takes all of its calls with it in the same step; *)
(* and no call is left open. PluginHosts and McpServers implement it.         *)

CONSTANTS
  Requests,  \* the calls
  Peers      \* the processes they are made to

VARIABLES
  call,      \* each call: [stage, host]
  up         \* the processes that can be written to

calling == <<call, up>>

CallsInit == up \subseteq Peers /\ \A r \in Requests : call[r].stage = "idle"

(* A call of a process that is up waits for it; of another it fails at once. *)
Make(r, p) ==
  /\ call[r].stage = "idle"
  /\ call' = [call EXCEPT ![r] = [stage |-> IF p \in up THEN "open" ELSE "failed", host |-> p]]
  /\ UNCHANGED up

Settle(r) ==
  /\ call[r].stage = "open"
  /\ \E end \in {"answered", "failed"} : call' = [call EXCEPT ![r].stage = end]
  /\ UNCHANGED up

(* Connections come and go; the calls of those that went fail, all of them. *)
Change ==
  \E lost \in SUBSET Peers :
    /\ up' \subseteq Peers /\ up \ up' \subseteq lost
    /\ call' = [r \in Requests |->
         IF call[r].stage = "open" /\ call[r].host \in lost THEN [call[r] EXCEPT !.stage = "failed"] ELSE call[r]]

CallsNext == Change \/ \E r \in Requests : Settle(r) \/ \E p \in Peers : Make(r, p)

CallsSafe == CallsInit /\ [][CallsNext]_calling

CallsSpec ==
  /\ CallsSafe
  /\ WF_calling(\E r \in Requests : Settle(r))
=============================================================================
