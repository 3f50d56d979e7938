-------------------------- MODULE AgentCommands --------------------------
(* The commands an agent runs in a terminal (ExecuteTerminalTool.ts) and the  *)
(* user's approval of each (askApproval in aiHandler.ts). Several requests of *)
(* one window run at a time. The window's answers are messages: they arrive   *)
(* late, twice, or when nobody waits any more.                                *)

EXTENDS Naturals, Sequences

CONSTANTS
  Commands,  \* execute_terminal calls of a window's requests, in agent_semi mode
  MaxChat,   \* MAX_CHAT_OUTPUT_CHARS, in pieces of output
  MaxOutput  \* bound: pieces of output of the terminal while a command listens

ASSUME CommandsConstants == MaxChat \in Nat /\ MaxOutput \in Nat

VARIABLES
  cmd,     \* per command: see Unasked
  replies, \* answers of the window on their way: <<approval, approved>>
  clicked, \* history: the approvals the user has given
  window,  \* the window is there
  term     \* the terminal session takes writes

agentCommands == <<cmd, replies, clicked, window, term>>

Unasked == [
  stage |-> "none",   \* "asking", "answered", "collecting", "waiting" for the user, "done", "failed"
  approved |-> FALSE,
  settle |-> FALSE,   \* settleTimer
  received |-> 0,     \* pieces its data listener has got
  pending |-> <<>>,   \* ChatOutput.pending
  forwarded |-> <<>>, \* what the chat has been sent
  truncated |-> FALSE]

Notice == 0
Listening(c) == cmd[c].stage \in {"collecting", "waiting"}
Becomes(c, r) == cmd' = [cmd EXCEPT ![c] = r]

CommandsInit ==
  /\ cmd = [c \in Commands |-> Unasked]
  /\ replies = {} /\ clicked = {} /\ window = TRUE /\ term = TRUE

--------------------------------------------------
(* Approval *)

(* finish: the promise resolves, listeners and timer are gone. *)
Finished(r, yes) == [r EXCEPT !.stage = "answered", !.approved = yes]

(* execute, up to the answer; a window that is gone refuses at once. *)
Propose(c) ==
  /\ cmd[c].stage = "none"
  /\ Becomes(c, IF window THEN [Unasked EXCEPT !.stage = "asking"] ELSE Finished(Unasked, FALSE))
  /\ UNCHANGED <<replies, clicked, window, term>>

(* The user answers the card of a command, at any time after it was shown. *)
Click(c, yes) ==
  /\ window /\ cmd[c].stage # "none" /\ <<c, yes>> \notin replies
  /\ replies' = replies \cup {<<c, yes>>}
  /\ clicked' = IF yes THEN clicked \cup {c} ELSE clicked
  /\ UNCHANGED <<cmd, window, term>>

(* ai-agent-approve: only the approval with that id takes it, once. *)
Reply(m) ==
  /\ replies' = replies \ {m}
  /\ cmd' = [cmd EXCEPT ![m[1]] = IF @.stage = "asking" THEN Finished(@, m[2]) ELSE @]
  /\ UNCHANGED <<clicked, window, term>>

(* A slip: the card is left to the user for good. *)
ApprovalForgotten(c) == FALSE /\ UNCHANGED agentCommands

ApprovalTimesOut(c) ==
  /\ cmd[c].stage = "asking" /\ Becomes(c, Finished(cmd[c], FALSE))
  /\ UNCHANGED <<replies, clicked, window, term>>

(* The window closes or its page goes: every open approval is refused. *)
WindowGoes ==
  /\ window /\ window' = FALSE /\ replies' = {}
  /\ cmd' = [c \in Commands |-> IF cmd[c].stage = "asking" THEN Finished(cmd[c], FALSE) ELSE cmd[c]]
  /\ UNCHANGED <<clicked, term>>

--------------------------------------------------
(* Running *)

SessionEnds == term /\ term' = FALSE /\ UNCHANGED <<cmd, replies, clicked, window>>

(* After the approval: the command is written, which a closed session         *)
(* refuses, and its output is collected from the next piece on.               *)
Run(c) ==
  /\ cmd[c].stage = "answered"
  /\ Becomes(c, IF cmd[c].approved /\ term
                THEN [cmd[c] EXCEPT !.stage = "collecting", !.settle = TRUE]
                ELSE [cmd[c] EXCEPT !.stage = "failed"])
  /\ UNCHANGED <<replies, clicked, window, term>>

Flushed(r) == [r EXCEPT !.forwarded = @ \o r.pending, !.pending = <<>>]

(* A slip: the room does not count what is pending. *)
PushedUncounted(r, piece) ==
  CASE r.truncated -> r
    [] ~r.truncated /\ Len(r.forwarded) < MaxChat -> [r EXCEPT !.pending = Append(@, piece)]
    [] OTHER -> Flushed([r EXCEPT !.pending = Append(@, Notice), !.truncated = TRUE])

(* ChatOutput.push: at the limit a notice, and nothing after it. *)
Pushed(r, piece) ==
  CASE r.truncated -> r
    [] ~r.truncated /\ Len(r.forwarded) + Len(r.pending) < MaxChat -> [r EXCEPT !.pending = Append(@, piece)]
    [] OTHER -> Flushed([r EXCEPT !.pending = Append(@, Notice), !.truncated = TRUE])

(* The terminal prints: every listener takes the piece and its settle timer   *)
(* starts again.                                                              *)
Output ==
  /\ term /\ \E c \in Commands : Listening(c)
  /\ \A c \in Commands : cmd[c].received < MaxOutput
  /\ cmd' = [c \in Commands |->
       IF Listening(c)
       THEN Pushed([cmd[c] EXCEPT !.received = @ + 1, !.settle = TRUE], cmd[c].received + 1)
       ELSE cmd[c]]
  /\ UNCHANGED <<replies, clicked, window, term>>

(* CHAT_FLUSH_MS. *)
Flush(c) ==
  /\ cmd[c].pending # <<>> /\ Becomes(c, Flushed(cmd[c]))
  /\ UNCHANGED <<replies, clicked, window, term>>

EndsWith(c, to) == Becomes(c, Flushed([cmd[c] EXCEPT !.stage = to, !.settle = FALSE]))

(* collectOutput: quiet for 800 ms, or 15 s in all. What was printed may ask  *)
(* for input; then the tool waits for the user.                               *)
Collected(c) ==
  /\ cmd[c].stage = "collecting"
  /\ \E to \in {"done", "waiting"} : (to = "waiting" => cmd[c].received > 0) /\ EndsWith(c, to)
  /\ UNCHANGED <<replies, clicked, window, term>>

(* waitForUserTerminalInput: quiet again after some output, or 60 s. *)
UserWaited(c) ==
  /\ cmd[c].stage = "waiting" /\ EndsWith(c, "done")
  /\ UNCHANGED <<replies, clicked, window, term>>

CommandsNext ==
  \/ WindowGoes \/ SessionEnds \/ Output
  \/ \E m \in replies : Reply(m)
  \/ \E c \in Commands :
       \/ Propose(c) \/ ApprovalTimesOut(c) \/ Run(c) \/ Flush(c) \/ Collected(c) \/ UserWaited(c)
       \/ \E yes \in BOOLEAN : Click(c, yes)

(* The timers fire and a resolved promise runs on. *)
CommandsFairness ==
  WF_agentCommands(\E c \in Commands : ApprovalTimesOut(c) \/ Run(c) \/ Collected(c) \/ UserWaited(c))

CommandsSpec == CommandsInit /\ [][CommandsNext]_agentCommands /\ CommandsFairness

--------------------------------------------------
(* Properties *)

CommandsTypeOK ==
  /\ window \in BOOLEAN /\ term \in BOOLEAN /\ replies \subseteq Commands \X BOOLEAN
  /\ \A c \in Commands :
       /\ cmd[c].stage \in {"none", "asking", "answered", "collecting", "waiting", "done", "failed"}
       /\ Listening(c) => cmd[c].received \in 0..MaxOutput

(* A command is written only if the user approved that very command: no late, *)
(* repeated or other answer, no timeout and no closed window runs it.         *)
CommandsAsked == \A c \in Commands : cmd[c].stage \in {"collecting", "waiting", "done"} => c \in clicked

(* The chat gets a command's output in order and without gaps up to the       *)
(* limit, then one notice and nothing more; when the command ends, all of it. *)
OutputShown ==
  \A c \in Commands :
    LET r == cmd[c]
        out == r.forwarded \o r.pending
        n == IF r.received <= MaxChat THEN r.received ELSE MaxChat IN
      /\ SubSeq(out, 1, n) = [i \in 1..n |-> i]
      /\ Len(out) = n + (IF r.truncated THEN 1 ELSE 0)
      /\ r.truncated <=> r.received > MaxChat
      /\ r.truncated => out[n + 1] = Notice
      /\ r.stage = "done" => r.pending = <<>>

(* Every command ends, whether the user answers, the window stays or the      *)
(* terminal says anything. (A command runs once, so each ends when again and  *)
(* again none is under way.)                                                  *)
CommandsEnd == []<>(\A c \in Commands : cmd[c].stage \in {"none", "done", "failed"})
=============================================================================
