----------------------------- MODULE Messages -----------------------------
(* The history of an agent's request (AgentEngine.ts) and the messages each   *)
(* adapter makes of it. A turn has a role and blocks; a block has a kind and  *)
(* an id: the round of the answer and a number, shared by a call and its      *)
(* result. A message on the wire is a turn, its blocks in the order sent.     *)

EXTENDS Naturals, SequencesExt

CONSTANTS
  Wires,      \* the wire formats: names in Wire
  MaxRounds,  \* bound: answers with tool calls, or that pause, in one request
  MaxCalls    \* bound: calls in one answer

ASSUME MessagesConstants ==
  /\ Wires \subseteq {"openai", "anthropic", "gemini", "ollama", "deepseek", "zhipu", "kimi", "minimax",
                      "minimaxChat", "qwen"}
  /\ {MaxRounds, MaxCalls} \subseteq Nat \ {0}

VARIABLES
  wire,     \* the provider's format
  history,
  round,    \* answers so far
  pending,  \* blocks of the last answer while its calls are executed, and the results so far
  executed  \* calls that were carried out

messages == <<wire, history, round, pending, executed>>

Turn(role, blocks) == [role |-> role, blocks |-> blocks]
Block(kind, id) == [kind |-> kind, id |-> id]
NoCalls == [blocks |-> <<>>, results |-> <<>>]

OfKind(blocks, kind) ==
  FlattenSeq([i \in DOMAIN blocks |-> IF blocks[i].kind = kind THEN <<blocks[i]>> ELSE <<>>])

--------------------------------------------------
(* AgentEngine *)

MessagesInit ==
  /\ wire \in Wires /\ round = 0 /\ pending = NoCalls /\ executed = {}
  /\ history = <<Turn("user", <<Block("text", <<0, 0>>)>>)>>

(* The blocks of an answer with n calls: thoughts come first, and text before *)
(* or after the calls.                                                        *)
AnswersWith(n) ==
  LET thought == <<Block("thought", <<round + 1, 0>>)>>
      text == <<Block("text", <<round + 1, 0>>)>>
      calls == [i \in 1..n |-> Block("call", <<round + 1, i>>)] IN
    {before \o calls : before \in {<<>>, thought, thought \o text}} \cup {thought \o calls \o text}

(* An answer with tool calls: it goes into the history as it came. *)
CallsTools ==
  /\ pending = NoCalls /\ round < MaxRounds /\ round' = round + 1
  /\ \E n \in 1..MaxCalls : \E blocks \in AnswersWith(n) :
       /\ history' = Append(history, Turn("assistant", blocks))
       /\ pending' = [blocks |-> OfKind(blocks, "call"), results |-> <<>>]
  /\ UNCHANGED <<wire, executed>>

Unanswered == SubSeq(pending.blocks, Len(pending.results) + 1, Len(pending.blocks))
ResultsOf(calls) == [i \in DOMAIN calls |-> Block("result", calls[i].id)]

(* A slip: after a critical failure the calls left get no result. *)
ExecutesDropping ==
  /\ Unanswered # <<>>
  /\ executed' = executed \cup {Head(Unanswered).id}
  /\ \E failed \in BOOLEAN :
       pending' = IF failed THEN [pending EXCEPT !.blocks = SubSeq(@, 1, Len(pending.results) + 1),
                                                 !.results = @ \o ResultsOf(<<Head(Unanswered)>>)]
                  ELSE [pending EXCEPT !.results = @ \o ResultsOf(<<Head(Unanswered)>>)]
  /\ UNCHANGED <<wire, history, round>>

(* The next call is executed; when a critical tool fails, those left get a    *)
(* result without being executed.                                             *)
Executes ==
  /\ Unanswered # <<>>
  /\ executed' = executed \cup {Head(Unanswered).id}
  /\ \E failed \in BOOLEAN :
       pending' = [pending EXCEPT !.results =
                     @ \o ResultsOf(IF failed THEN Unanswered ELSE <<Head(Unanswered)>>)]
  /\ UNCHANGED <<wire, history, round>>

(* All of them are answered: the next turn sends the history. *)
Continues ==
  /\ pending # NoCalls /\ Unanswered = <<>> /\ pending' = NoCalls
  /\ history' = Append(history, Turn("user", pending.results))
  /\ UNCHANGED <<wire, round, executed>>

(* pause_turn, or an <ACTION> in the text whose result goes back as text. *)
TextRound ==
  /\ pending = NoCalls /\ round < MaxRounds /\ round' = round + 1
  /\ \E blocks \in AnswersWith(0) :
       history' = history \o <<Turn("assistant", blocks), Turn("user", <<Block("text", <<round + 1, 0>>)>>)>>
  /\ UNCHANGED <<wire, pending, executed>>

MessagesNext == CallsTools \/ Executes \/ Continues \/ TextRound

--------------------------------------------------
(* normalizeTurns and the adapters *)

Message(role, parts) == IF parts = <<>> THEN <<>> ELSE <<Turn(role, parts)>>
Each(role, parts) == [i \in DOMAIN parts |-> Turn(role, <<parts[i]>>)]
Texts(t) == OfKind(t.blocks, "text")
ToolCallsOf(t) == OfKind(t.blocks, "call")
Results(t) == OfKind(t.blocks, "result")
Thoughts(t) == OfKind(t.blocks, "thought")

(* Responses API: items; reasoning goes back encrypted. *)
OpenAiTurn(t) ==
  IF t.role = "user" THEN Each("user", Texts(t)) \o Each("tool", Results(t))
  ELSE Each("assistant", Thoughts(t) \o ToolCallsOf(t) \o Texts(t))

AnthropicTurn(t) ==
  IF t.role = "user" THEN Message("user", Texts(t) \o Results(t))
  ELSE Message("assistant", Thoughts(t) \o Texts(t) \o ToolCallsOf(t))

(* Interactions: steps. *)
GeminiTurn(t) ==
  IF t.role = "user" THEN Each("user", Texts(t)) \o Each("tool", Results(t))
  ELSE Each("assistant", Thoughts(t) \o Texts(t) \o ToolCallsOf(t))

(* Chat completions: an assistant message, then one message per result. *)
OllamaTurn(t) ==
  IF t.role = "user" THEN Message("user", Texts(t)) \o Each("tool", Results(t))
  ELSE <<Turn("assistant", Texts(t) \o ToolCallsOf(t))>>

DeepSeekTurn(t) ==
  IF t.role = "user" THEN Message("user", Texts(t)) \o Each("tool", Results(t))
  ELSE <<Turn("assistant", Texts(t) \o ToolCallsOf(t) \o Thoughts(t))>>

ZhipuTurn(t) ==
  IF t.role = "user" THEN Message("user", Texts(t)) \o Each("tool", Results(t))
  ELSE <<Turn("assistant", Texts(t) \o ToolCallsOf(t) \o Thoughts(t))>>

KimiTurn(t) ==
  IF t.role = "user" THEN Message("user", Texts(t)) \o Each("tool", Results(t))
  ELSE <<Turn("assistant", Texts(t) \o ToolCallsOf(t) \o Thoughts(t))>>

MiniMaxTurn(t) ==
  IF t.role = "user" THEN Message("user", Texts(t) \o Results(t))
  ELSE Message("assistant", Thoughts(t) \o Texts(t) \o ToolCallsOf(t))

MiniMaxChatTurn(t) ==
  IF t.role = "user" THEN Message("user", Texts(t)) \o Each("tool", Results(t))
  ELSE <<Turn("assistant", Texts(t) \o ToolCallsOf(t) \o Thoughts(t))>>

QwenTurn(t) ==
  IF t.role = "user" THEN Message("user", Texts(t)) \o Each("tool", Results(t))
  ELSE <<Turn("assistant", Texts(t) \o ToolCallsOf(t) \o Thoughts(t))>>

WireTurn(t) ==
  CASE wire = "openai" -> OpenAiTurn(t)
    [] wire = "anthropic" -> AnthropicTurn(t)
    [] wire = "gemini" -> GeminiTurn(t)
    [] wire = "ollama" -> OllamaTurn(t)
    [] wire = "deepseek" -> DeepSeekTurn(t)
    [] wire = "zhipu" -> ZhipuTurn(t)
    [] wire = "kimi" -> KimiTurn(t)
    [] wire = "minimax" -> MiniMaxTurn(t)
    [] wire = "minimaxChat" -> MiniMaxChatTurn(t)
    [] wire = "qwen" -> QwenTurn(t)

Sent == FlattenSeq([i \in DOMAIN history |-> WireTurn(history[i])])

--------------------------------------------------
(* Properties *)

MessagesTypeOK ==
  /\ wire \in Wires /\ round \in 0..MaxRounds
  /\ Len(pending.results) <= Len(pending.blocks)
  /\ \A i \in DOMAIN history : history[i].role \in {"user", "assistant"}

PartsOf(w) == FlattenSeq([i \in DOMAIN w |-> w[i].blocks])

Ids(parts) == [i \in DOMAIN parts |-> parts[i].id]

(* Whatever the tools did, and in every provider's format: a request that     *)
(* goes out answers each call it carries once and in order, with nothing but  *)
(* parts of the same answer between the calls and their results, and every    *)
(* call that was executed is among them. Providers refuse the request         *)
(* otherwise.                                                                 *)
AnsweredOnTheWire ==
  pending = NoCalls =>
    LET parts == PartsOf(Sent) IN
      /\ Ids(OfKind(parts, "call")) = Ids(OfKind(parts, "result"))
      /\ \A i, j \in DOMAIN parts :
           parts[i].kind = "call" /\ parts[j].kind = "result" /\ parts[i].id = parts[j].id =>
             \A k \in i + 1..j - 1 : parts[k].id[1] = parts[i].id[1]
      /\ executed \subseteq {parts[i].id : i \in DOMAIN parts}

(* The thoughts behind a call go back with it, in the same order of rounds:   *)
(* without them a provider refuses the request or loses its train of thought. *)
(* Ollama has no field for them.                                              *)
ThoughtsGoBack ==
  wire # "ollama" =>
    Ids(OfKind(PartsOf(Sent), "thought")) = Ids(OfKind(PartsOf(history), "thought"))
=============================================================================
