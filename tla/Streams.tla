------------------------------ MODULE Streams ------------------------------
(* One turn sent to an AI provider: LlmGateway.streamTurn with its retries    *)
(* and placeholders, and the adapter that reads the provider's stream. What   *)
(* the server sends is external: pieces of text and thought, a tool call that *)
(* may be cut off, an event that ends the answer in the provider's own words, *)
(* an optional sentinel, and the end of the connection at any point.          *)

EXTENDS Naturals, Sequences

CONSTANTS
  Providers,   \* the adapters: names in EndsOf
  MaxRetries,  \* MAX_RETRIES (3)
  MaxPieces,   \* bound: pieces of text, and of thought, in one attempt
  Quirks       \* what a 400 may teach about the model (ModelCapabilities)

ASSUME StreamsConstants == MaxRetries \in Nat /\ MaxPieces \in Nat \ {0}

VARIABLES
  provider,
  stage,    \* "asking", "fetching", "streaming", "backoff", "done" or "failed"
  attempt,
  said,     \* what the server has sent in this attempt
  heard,    \* what the adapter has made of it
  held,     \* per kind, the pieces a rehydrator holds back: half a placeholder
  shown,    \* per kind, the pieces the window has been given in this turn
  answer,   \* the response's stop reason, or "none"
  learned   \* quirks of the model

streams == <<provider, stage, attempt, said, heard, held, shown, answer, learned>>

Kinds == {"text", "thought"}
Silence == [text |-> 0, thought |-> 0, call |-> "none", end |-> "none", updated |-> FALSE]
Nothing == [text |-> <<>>, thought |-> <<>>, call |-> "none", stop |-> "end_turn",
            terminal |-> FALSE, broken |-> "no"]
Empty == [k \in Kinds |-> <<>>]

(* The events that end an answer, per provider (external). *)
EndsOf == [
  openai |-> {"completed", "incomplete", "failed", "error"},
  anthropic |-> {"stop", "tool_use", "max_tokens", "pause_turn", "refusal", "model_context_window_exceeded", "error"},
  gemini |-> {"completed", "requires_action", "budget_exceeded", "failed", "cancelled", "incomplete"},
  ollama |-> {"stop", "tool_calls", "length"},
  deepseek |-> {"stop", "tool_calls", "length", "content_filter", "insufficient_system_resource"},
  zhipu |-> {"stop", "tool_calls", "length", "model_context_window_exceeded", "sensitive", "network_error"},
  kimi |-> {"stop", "tool_calls", "length"},
  minimax |-> {"stop", "tool_use", "max_tokens", "pause_turn", "refusal", "error", "invalid_request_error"},
  minimaxChat |-> {"stop", "tool_calls", "length", "content_filter", "busy", "balance"},
  qwen |-> {"stop", "tool_calls", "length", "Throttling", "InvalidParameter"}]

(* Gemini reports the status of an interaction also while it runs. *)
Statuses == EndsOf.gemini \cup {"queued", "in_progress"}

ASSUME StreamsProviders == Providers \subseteq DOMAIN EndsOf

Truncating == {"incomplete", "max_tokens", "budget_exceeded", "length", "content_filter", "refusal",
               "model_context_window_exceeded"}
Failing == {"failed", "cancelled", "error", "insufficient_system_resource", "sensitive", "network_error",
            "invalid_request_error", "busy", "balance", "Throttling", "InvalidParameter"}

(* What follows the end; message_stop in Anthropic's protocol. *)
Sentinel == "[DONE]"
Sends(p) == p # "qwen"

--------------------------------------------------
(* The adapters' stream handlers, one event at a time. Deltas of text and     *)
(* thought and the parts of a call are gathered alike.                        *)

Gather(h, e) == [h EXCEPT ![e[1]] = IF e[1] = "call" THEN e[2] ELSE Append(@, e[2])]
Content == Kinds \cup {"call"}
Ended(h) == [h EXCEPT !.terminal = TRUE]
StopsFor(h, reason) == [Ended(h) EXCEPT !.stop = reason]
Breaks(h, how) == [h EXCEPT !.broken = how]

OpenAiHears(h, e) ==
  CASE e[1] \in Content -> Gather(h, e)
    [] e[1] \in {"completed", Sentinel} -> Ended(h)
    [] e[1] = "incomplete" -> StopsFor(h, "max_tokens")
    [] e[1] \in {"failed", "error"} -> Breaks(h, "retry")

AnthropicHears(h, e) ==
  CASE e[1] \in Content -> Gather(h, e)
    [] e[1] = Sentinel -> Ended(h)
    [] e[1] = "stop" -> StopsFor(h, "end_turn")
    [] e[1] = "error" -> Breaks(h, "retry")
    [] OTHER -> StopsFor(h, e[1])

(* An exceeded budget stays the reason. *)
GeminiStop(reason, status) ==
  IF "budget_exceeded" \in {reason, status} THEN "budget_exceeded"
  ELSE CASE status = "requires_action" -> "tool_use" [] status = "completed" -> "end_turn" [] OTHER -> reason

(* A status of any kind counts as an end. *)
GeminiHears(h, e) ==
  IF e[1] \in Content THEN Gather(h, e) ELSE StopsFor(h, GeminiStop(h.stop, e[1]))

(* No event of Ollama's ends the answer. *)
OllamaHears(h, e) ==
  CASE e[1] \in Content -> Gather(h, e)
    [] e[1] = "tool_calls" -> [h EXCEPT !.stop = "tool_use"]
    [] OTHER -> h

DeepSeekHears(h, e) ==
  CASE e[1] \in Content -> Gather(h, e)
    [] e[1] = Sentinel -> Ended(h)
    [] e[1] = "tool_calls" -> StopsFor(h, "tool_use")
    [] e[1] = "length" -> StopsFor(h, "max_tokens")
    [] e[1] = "insufficient_system_resource" -> Breaks(Ended(h), "retry")
    [] OTHER -> StopsFor(h, "end_turn")

ZhipuHears(h, e) ==
  CASE e[1] \in Content -> Gather(h, e)
    [] e[1] = Sentinel -> Ended(h)
    [] e[1] = "tool_calls" -> StopsFor(h, "tool_use")
    [] e[1] = "length" -> StopsFor(h, "max_tokens")
    [] e[1] = "sensitive" -> Breaks(Ended(h), "final")
    [] e[1] = "network_error" -> Breaks(Ended(h), "retry")
    [] OTHER -> StopsFor(h, "end_turn")

KimiHears(h, e) ==
  CASE e[1] \in Content -> Gather(h, e)
    [] e[1] = Sentinel -> Ended(h)
    [] e[1] = "tool_calls" -> StopsFor(h, "tool_use")
    [] e[1] = "length" -> StopsFor(h, "max_tokens")
    [] OTHER -> StopsFor(h, "end_turn")

MiniMaxHears(h, e) ==
  CASE e[1] \in Content -> Gather(h, e)
    [] e[1] = Sentinel -> Ended(h)
    [] e[1] \in {"tool_use", "max_tokens", "pause_turn", "refusal"} -> StopsFor(h, e[1])
    [] e[1] = "error" -> Breaks(h, "retry")
    [] e[1] = "invalid_request_error" -> Breaks(h, "final")
    [] OTHER -> StopsFor(h, "end_turn")

(* base_resp reports the trouble in a chunk of its own. *)
MiniMaxChatHears(h, e) ==
  CASE e[1] \in Content -> Gather(h, e)
    [] e[1] = Sentinel -> Ended(h)
    [] e[1] = "busy" -> Breaks(h, "retry")
    [] e[1] = "balance" -> Breaks(h, "final")
    [] e[1] = "tool_calls" -> StopsFor(h, "tool_use")
    [] e[1] = "length" -> StopsFor(h, "max_tokens")
    [] e[1] = "content_filter" -> StopsFor(h, "refusal")
    [] OTHER -> StopsFor(h, "end_turn")

QwenHears(h, e) ==
  CASE e[1] \in Content -> Gather(h, e)
    [] e[1] = "Throttling" -> Breaks(h, "retry")
    [] e[1] = "InvalidParameter" -> Breaks(h, "final")
    [] e[1] = "tool_calls" -> StopsFor(h, "tool_use")
    [] e[1] = "length" -> StopsFor(h, "max_tokens")
    [] OTHER -> StopsFor(h, "end_turn")

Hears(h, e) ==
  CASE provider = "openai" -> OpenAiHears(h, e)
    [] provider = "anthropic" -> AnthropicHears(h, e)
    [] provider = "gemini" -> GeminiHears(h, e)
    [] provider = "ollama" -> OllamaHears(h, e)
    [] provider = "deepseek" -> DeepSeekHears(h, e)
    [] provider = "zhipu" -> ZhipuHears(h, e)
    [] provider = "kimi" -> KimiHears(h, e)
    [] provider = "minimax" -> MiniMaxHears(h, e)
    [] provider = "minimaxChat" -> MiniMaxChatHears(h, e)
    [] provider = "qwen" -> QwenHears(h, e)

--------------------------------------------------
(* The adapters once the stream has ended: an error to throw ("retry",        *)
(* "final"), or the stop reason of the response.                              *)

(* A slip: a connection that is cut counts as an answer. *)
CheckedLoosely(h, reason) == IF h.broken # "no" THEN h.broken ELSE reason

(* Broken, cut off before an event that ends the answer, or answered. *)
Checked(h, reason) ==
  CASE h.broken # "no" -> h.broken
    [] h.broken = "no" /\ ~h.terminal -> "retry"
    [] OTHER -> reason

OpenAiAnswers(h) ==
  Checked(h, IF h.call # "none" /\ h.stop # "max_tokens" THEN "tool_use" ELSE h.stop)

AnthropicAnswers(h) == Checked(h, h.stop)

GeminiAnswers(h) ==
  Checked(h, IF h.call # "none" /\ h.stop # "budget_exceeded" THEN "tool_use" ELSE h.stop)

OllamaAnswers(h) == IF h.call # "none" THEN "tool_use" ELSE h.stop

DeepSeekAnswers(h) == Checked(h, IF h.call # "none" THEN "tool_use" ELSE h.stop)
ZhipuAnswers(h) == Checked(h, IF h.call # "none" THEN "tool_use" ELSE h.stop)
KimiAnswers(h) == Checked(h, IF h.call # "none" THEN "tool_use" ELSE h.stop)

MiniMaxAnswers(h) ==
  Checked(h, IF h.call # "none" /\ h.stop # "max_tokens" THEN "tool_use" ELSE h.stop)

MiniMaxChatAnswers(h) ==
  Checked(h, IF h.call # "none" /\ h.stop # "max_tokens" THEN "tool_use" ELSE h.stop)

QwenAnswers(h) ==
  Checked(h, IF h.call # "none" /\ h.stop # "max_tokens" THEN "tool_use" ELSE h.stop)

Answers(h) ==
  CASE provider = "openai" -> OpenAiAnswers(h)
    [] provider = "anthropic" -> AnthropicAnswers(h)
    [] provider = "gemini" -> GeminiAnswers(h)
    [] provider = "ollama" -> OllamaAnswers(h)
    [] provider = "deepseek" -> DeepSeekAnswers(h)
    [] provider = "zhipu" -> ZhipuAnswers(h)
    [] provider = "kimi" -> KimiAnswers(h)
    [] provider = "minimax" -> MiniMaxAnswers(h)
    [] provider = "minimaxChat" -> MiniMaxChatAnswers(h)
    [] provider = "qwen" -> QwenAnswers(h)

--------------------------------------------------
(* Requests the server refuses: "quota" is a 429 about the balance, "gateway" *)
(* an HTML error page, "throttled" and "busy" the provider's own codes on     *)
(* another status, "json" a JSON body where a stream was expected.            *)

Refusals == {"429", "5xx", "400", "denied", "quota", "gateway", "throttled", "busy", "json"}

OpenAiRetries == {"429", "5xx"}
AnthropicRetries == {"429", "5xx"}
GeminiRetries == {"429", "5xx"}
DeepSeekRetries == {"429", "5xx"}
ZhipuRetries == {"429", "5xx"}
KimiRetries == {"429", "5xx", "gateway"}
MiniMaxRetries == {"429", "5xx", "busy"}
QwenRetries == {"429", "5xx", "throttled"}

(* Ollama throws a plain Error. *)
OllamaRetries == {}

Retries(f) ==
  f \in CASE provider = "openai" -> OpenAiRetries
          [] provider = "anthropic" -> AnthropicRetries
          [] provider = "gemini" -> GeminiRetries
          [] provider = "ollama" -> OllamaRetries
          [] provider = "deepseek" -> DeepSeekRetries
          [] provider = "zhipu" -> ZhipuRetries
          [] provider = "kimi" -> KimiRetries
          [] provider \in {"minimax", "minimaxChat"} -> MiniMaxRetries
          [] provider = "qwen" -> QwenRetries

(* The message of an LlmError that learnFromError reads: one of a 400, or one *)
(* that carries no status and quotes the server.                              *)
Teaches(f) == f = "400" /\ provider # "ollama"
TeachesStreaming == provider \in {"minimax", "minimaxChat", "qwen"}

--------------------------------------------------
(* The gateway *)

StreamsInit ==
  /\ provider \in Providers /\ stage = "asking" /\ attempt = 0
  /\ said = Silence /\ heard = Nothing /\ held = Empty /\ shown = Empty
  /\ answer = "none" /\ learned = {}

(* An attempt has its own rehydrators and adapter state. *)
Ask ==
  /\ stage = "asking" /\ stage' = "fetching"
  /\ attempt' = attempt + 1
  /\ said' = Silence /\ heard' = Nothing /\ held' = Empty
  /\ UNCHANGED <<provider, shown, answer, learned>>

Opens ==
  /\ stage = "fetching" /\ stage' = "streaming"
  /\ UNCHANGED <<provider, attempt, said, heard, held, shown, answer, learned>>

(* Something of this attempt has reached the window. *)
Emitted == \E k \in Kinds : shown[k] # <<>>

(* A slip: a turn is asked again although part of it was shown. *)
MayAskShown == attempt <= MaxRetries

(* A slip: one retry too many. *)
MayAskOver == attempt <= MaxRetries + 1 /\ ~Emitted

MayAsk == attempt <= MaxRetries /\ ~Emitted

(* The catch block: learn and ask again at once, wait and ask again, or give  *)
(* the error to the caller.                                                   *)
Catch(retryable, teaches) ==
  /\ \/ /\ MayAsk /\ teaches /\ stage' = "asking"
        /\ \E q \in Quirks \ learned : learned' = learned \cup {q}
     \/ /\ UNCHANGED learned
        /\ stage' = IF retryable /\ MayAsk THEN "backoff" ELSE "failed"
  /\ UNCHANGED <<provider, attempt, said, heard, held, shown, answer>>

Refused(f) == stage = "fetching" /\ Catch(Retries(f), Teaches(f))

(* fetch or a read fails: a TypeError is retried, a timeout is not. *)
NetworkFails == stage \in {"fetching", "streaming"} /\ Catch(TRUE, FALSE)

(* A slip: the time runs only until the headers are there. *)
HeadersTimeOut == stage = "fetching" /\ Catch(FALSE, FALSE)

StreamTimesOut == stage \in {"fetching", "streaming"} /\ Catch(FALSE, FALSE)

BackoffEnds ==
  /\ stage = "backoff" /\ stage' = "asking"
  /\ UNCHANGED <<provider, attempt, said, heard, held, shown, answer, learned>>

(* What processChunk gives out at once of what it held and the new piece: all *)
(* of it, what came before the piece if that ends in half a placeholder, or   *)
(* nothing while the placeholder is still open.                               *)
Piece(k) ==
  LET piece == <<attempt, said[k] + 1>>
      buffer == Append(held[k], piece) IN
    /\ stage = "streaming" /\ said.end = "none" /\ said[k] < MaxPieces
    /\ said' = [said EXCEPT ![k] = @ + 1]
    /\ heard' = Hears(heard, <<k, piece>>)
    /\ \E n \in {0, Len(held[k]), Len(buffer)} :
         /\ shown' = [shown EXCEPT ![k] = @ \o SubSeq(buffer, 1, n)]
         /\ held' = [held EXCEPT ![k] = SubSeq(buffer, n + 1, Len(buffer))]
    /\ UNCHANGED <<provider, stage, attempt, answer, learned>>

(* A tool call begins, or has all of its arguments. *)
Call ==
  /\ stage = "streaming" /\ said.end = "none" /\ said.call # "whole"
  /\ LET c == IF said.call = "none" THEN "open" ELSE "whole" IN
       said' = [said EXCEPT !.call = c] /\ heard' = Hears(heard, <<"call", c>>)
  /\ UNCHANGED <<provider, stage, attempt, held, shown, answer, learned>>

End(e) ==
  /\ stage = "streaming" /\ said.end = "none"
  /\ said' = [said EXCEPT !.end = e] /\ heard' = Hears(heard, <<e>>)
  /\ UNCHANGED <<provider, stage, attempt, held, shown, answer, learned>>

(* interaction.status_update: what is said may go on after it. *)
StatusUpdate(status) ==
  /\ stage = "streaming" /\ provider = "gemini" /\ said.end = "none"
  /\ said' = [said EXCEPT !.updated = TRUE] /\ heard' = Hears(heard, <<status>>)
  /\ UNCHANGED <<provider, stage, attempt, held, shown, answer, learned>>

(* The sentinel follows an end; without one it is the end ("finished"). *)
Done ==
  /\ stage = "streaming" /\ Sends(provider)
  /\ said' = [said EXCEPT !.end = IF @ = "none" THEN "finished" ELSE @]
  /\ heard' = Hears(heard, <<Sentinel>>)
  /\ UNCHANGED <<provider, stage, attempt, held, shown, answer, learned>>

(* onDone: what the rehydrators hold goes out, then the response. *)
Answer(reason) ==
  /\ stage' = "done" /\ answer' = reason /\ held' = Empty
  /\ shown' = [k \in Kinds |-> shown[k] \o held[k]]
  /\ UNCHANGED <<provider, attempt, said, heard, learned>>

(* The connection ends, with the answer whole or not. *)
Closes ==
  /\ stage = "streaming"
  /\ LET result == Answers(heard) IN
       IF result \in {"retry", "final"}
       THEN Catch(result = "retry", heard.broken # "no" /\ TeachesStreaming)
       ELSE Answer(result)

StreamsNext ==
  \/ Ask \/ Opens \/ NetworkFails \/ StreamTimesOut \/ BackoffEnds \/ Call \/ Done \/ Closes
  \/ \E f \in Refusals : Refused(f)
  \/ \E k \in Kinds : Piece(k)
  \/ \E e \in EndsOf[provider] : End(e)
  \/ \E status \in Statuses : StatusUpdate(status)

(* A request goes out, a backoff ends and AbortSignal.timeout fires. *)
StreamsFairness == WF_streams(Ask \/ BackoffEnds \/ StreamTimesOut)

StreamsSpec == StreamsInit /\ [][StreamsNext]_streams /\ StreamsFairness

--------------------------------------------------
(* Properties *)

StreamsTypeOK ==
  /\ provider \in Providers /\ learned \subseteq Quirks /\ attempt \in 0..MaxRetries + 1
  /\ stage \in {"asking", "fetching", "streaming", "backoff", "done", "failed"}
  /\ said.call \in {"none", "open", "whole"} /\ \A k \in Kinds : said[k] \in 0..MaxPieces
  /\ said.end \in {"none", "finished"} \cup EndsOf[provider] /\ said.updated \in BOOLEAN

(* The window is told one attempt of a turn, in order and nothing twice: what *)
(* it was shown, with what is held back, is what this attempt's stream said,  *)
(* also after attempts that failed while text of theirs was held back. With   *)
(* the answer everything is out.                                              *)
ToldOnce ==
  \A k \in Kinds :
    /\ stage \in {"fetching", "streaming", "done"} => shown[k] \o held[k] = heard[k]
    /\ stage = "done" => shown[k] = [n \in 1..said[k] |-> <<attempt, n>>]
    /\ stage \in {"asking", "backoff"} => shown[k] = <<>>

(* Ends that an adapter takes for normal ones although the interface rules in *)
(* docs say that they are not.                                                *)
Misread(p) ==
  CASE p = "gemini" -> {"failed", "cancelled", "incomplete"}
    [] p = "deepseek" -> {"content_filter"}
    [] p = "zhipu" -> {"model_context_window_exceeded"}
    [] OTHER -> {}

(* An answer is taken for finished only after the server ended it, or, with   *)
(* Gemini, after it has sent a status of any kind. But for the ends that are  *)
(* misread, no trouble that the server reported is an answer, and one that    *)
(* was cut at its length or withheld, without a tool call, is not reported as *)
(* a normal end.                                                              *)
Complete(p) ==
  stage = "done" /\ provider = p =>
    /\ said.end # "none" \/ said.updated
    /\ said.end \notin Failing \ Misread(p)
    /\ said.end \in Truncating \ Misread(p) /\ said.call = "none" => answer # "end_turn"

(* Ollama's adapter is the exception: NeverCut below. *)
WholeAnswers == \A p \in Providers \ {"ollama"} : Complete(p)

(* Every turn ends, whatever the server leaves undone. *)
TurnEnds == <>(stage \in {"done", "failed"})

(* docs, interface rules: a connection that ends before the event that ends   *)
(* the answer is a failure that may be retried, never a normal end.           *)
NeverCut == stage = "done" => said.end # "none"
=============================================================================
