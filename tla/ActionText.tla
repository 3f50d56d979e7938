---------------------------- MODULE ActionText ----------------------------
(* The text an agent's model answers with (AgentEngine.ts, onChunk): an       *)
(* action written between <ACTION> and </ACTION> is kept from the window and  *)
(* executed, whatever chunks the text arrives in. A tag is two symbols here,  *)
(* so that a chunk can end in the middle of one.                              *)

EXTENDS Naturals, SequencesExt

CONSTANTS
  MaxText,  \* bound: symbols of an answer
  MaxChunk  \* bound: symbols of a chunk

ASSUME ActionTextConstants == {MaxText, MaxChunk} \subseteq Nat \ {0}

VARIABLES
  arrived,     \* what has arrived of the answer
  textBuffer,  \* received and not shown: it may be the beginning of a tag
  executing,   \* isExecutingLegacyAction
  action,      \* legacyActionStr
  displayed,   \* what the window has been given
  ended

actionText == <<arrived, textBuffer, executing, action, displayed, ended>>

Symbols == {"x", "<", "A", "/"}
startTag == <<"<", "A">>
endTag == <<"<", "/">>

(* indexOf, 0 if there is none. *)
IndexOf(tag, s) ==
  LET at == {i \in 1..Len(s) - 1 : SubSeq(s, i, i + 1) = tag} IN
    IF at = {} THEN 0 ELSE CHOOSE i \in at : \A j \in at : i <= j

Before(s, i) == SubSeq(s, 1, i - 1)
After(s, i) == SubSeq(s, i + 2, Len(s))

ActionTextInit ==
  /\ arrived = <<>> /\ textBuffer = <<>> /\ action = <<>> /\ displayed = <<>>
  /\ executing = FALSE /\ ended = FALSE

(* A slip: nothing is held back. *)
HeldNothing(s) == 0

(* The length of the longest end of the buffer that may begin a tag. *)
Held(s) == IF s # <<>> /\ Last(s) = "<" THEN 1 ELSE 0

(* onChunk. What follows the end of an action in its last chunk is dropped. *)
Chunk(c) ==
  LET buffer == textBuffer \o c
      start == IndexOf(startTag, buffer)
      rest == After(buffer, start)
      out == Len(buffer) - Held(buffer) IN
    /\ ~ended /\ arrived' = arrived \o c
    /\ \/ /\ executing
          /\ action' = action \o c
          /\ executing' = (IndexOf(endTag, action') = 0)
          /\ UNCHANGED <<textBuffer, displayed>>
       \/ /\ ~executing /\ start # 0
          /\ displayed' = displayed \o Before(buffer, start)
          /\ action' = rest /\ textBuffer' = <<>>
          /\ executing' = (IndexOf(endTag, rest) = 0)
       \/ /\ ~executing /\ start = 0
          /\ displayed' = displayed \o SubSeq(buffer, 1, out)
          /\ textBuffer' = SubSeq(buffer, out + 1, Len(buffer))
          /\ UNCHANGED <<executing, action>>
    /\ UNCHANGED ended

(* onDone: what is held back begins no tag after all. *)
Ends ==
  /\ ~ended /\ ended' = TRUE
  /\ IF executing THEN UNCHANGED <<displayed, textBuffer>>
                  ELSE displayed' = displayed \o textBuffer /\ textBuffer' = <<>>
  /\ UNCHANGED <<arrived, executing, action>>

ActionTextNext ==
  \/ Ends
  \/ \E n \in 1..MaxChunk : \E c \in [1..n -> Symbols] : Len(arrived) + n <= MaxText /\ Chunk(c)

(* finalLegacyCommand: an action without an end is one too. *)
Command ==
  LET end == IndexOf(endTag, action) IN IF end = 0 THEN action ELSE Before(action, end)

--------------------------------------------------
(* Properties *)

ActionTextTypeOK ==
  /\ Len(arrived) <= MaxText /\ executing \in BOOLEAN /\ ended \in BOOLEAN
  /\ Len(displayed) + Len(textBuffer) <= Len(arrived)

StartOfAction == IndexOf(startTag, arrived)

(* However the answer is cut into chunks: the text in front of an action is   *)
(* shown whole and no part of the action is; an answer without an action is   *)
(* shown as it is; and an answer with one action executes what stands between *)
(* its tags.                                                                  *)
ActionKept ==
  ended =>
    /\ StartOfAction = 0 => displayed = arrived /\ action = <<>>
    /\ StartOfAction # 0 =>
         LET rest == After(arrived, StartOfAction)
             end == IndexOf(endTag, rest)
             tail == IF end = 0 THEN <<>> ELSE After(rest, end) IN
           /\ IsPrefix(Before(arrived, StartOfAction), displayed)
           /\ IndexOf(startTag, tail) = 0 =>
                /\ Command = IF end = 0 THEN rest ELSE Before(rest, end)
                /\ IsSuffix(SubSeq(displayed, StartOfAction, Len(displayed)), tail)
=============================================================================
