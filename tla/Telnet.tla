------------------------------- MODULE Telnet -------------------------------
(* The Telnet client of ptyHandler.ts: processTelnetData takes the packets of *)
(* one connection apart, wherever TCP cuts them, and answers the server's     *)
(* option negotiation. The server is external: it prints, asks for options,   *)
(* and answers what it hears as its kind does.                                *)

EXTENDS Naturals, Sequences, SequencesExt

CONSTANTS
  MaxSends,  \* bound: what the server says of its own accord
  MaxPacket  \* bound: bytes of one packet

ASSUME TelnetConstants == MaxSends \in Nat /\ MaxPacket \in Nat \ {0}

VARIABLES
  kind,      \* the server: "silent" after an answer, "acks" each one, or "insists"
  sends,     \* what it said of its own accord so far
  wire,      \* its bytes on their way
  printed,   \* the bytes of text it sent
  text,      \* the bytes of text the terminal got
  carry,     \* streamState.pending
  local,     \* our options as agreed: none, TRUE or FALSE
  remote,    \* the server's options as agreed
  refusals,  \* refusals sent, per side and option
  answers,   \* our answers on their way
  belief     \* what the server last heard of each of our options

telnet == <<kind, sends, wire, printed, text, carry, local, remote, refusals, answers, belief>>

Options == {"TERMINAL", "SGA", "ECHO", "OTHER"}
Ours == {"TERMINAL", "SGA"}
MaxRefusals == 3
Unset == "unset"
NoSides == [o \in Options |-> 0]

(* The connection is up: the client has announced SGA. *)
TelnetInit ==
  /\ kind \in {"silent", "acks", "insists"}
  /\ sends = 0 /\ wire = <<>> /\ printed = <<>> /\ text = <<>> /\ carry = <<>>
  /\ local = [o \in Options |-> IF o = "SGA" THEN "on" ELSE Unset]
  /\ remote = [o \in Options |-> Unset]
  /\ refusals = [ours |-> NoSides, theirs |-> NoSides]
  /\ answers = << <<"WILL", "SGA">> >>
  /\ belief = [o \in Options |-> Unset]

--------------------------------------------------
(* What the client makes of the bytes; s is the state it works on. *)

Says(s, cmd, o) == [s EXCEPT !.out = Append(@, <<cmd, o>>)]

(* A slip: an answer is given whether or not it changes anything. *)
AgreeAlways(s, side, o, value, cmd) == Says([s EXCEPT ![side][o] = value], cmd, o)

(* agree: an answer that was given already is not given again. *)
Agree(s, side, o, value, cmd) ==
  IF s[side][o] = value THEN s ELSE Says([s EXCEPT ![side][o] = value], cmd, o)

(* disable: answered only when the option is on. *)
Disable(s, side, o, cmd) ==
  IF s[side][o] = "on" THEN Agree(s, side, o, "off", cmd) ELSE [s EXCEPT ![side][o] = "off"]

(* refuse: three times for one option, then the server gets no more answers. *)
Refuse(s, side, count, o, cmd) ==
  LET off == [s EXCEPT ![side][o] = "off"] IN
    IF s.refusals[count][o] >= MaxRefusals THEN off
    ELSE Says([off EXCEPT !.refusals[count][o] = @ + 1], cmd, o)

TerminalType(s) == [s EXCEPT !.out = Append(@, <<"SB", "TERMINAL">>)]

Negotiate(s, cmd, o) ==
  CASE cmd = "DO" /\ o = "TERMINAL" ->
         IF s.local[o] = "on" THEN s ELSE TerminalType(Agree(s, "local", o, "on", "WILL"))
    [] cmd = "DO" /\ o = "SGA" -> Agree(s, "local", o, "on", "WILL")
    [] cmd = "DO" /\ o \notin Ours -> Refuse(s, "local", "ours", o, "WONT")
    [] cmd = "DONT" -> Disable(s, "local", o, "WONT")
    [] cmd = "WILL" /\ o = "ECHO" -> Agree(s, "remote", o, "on", "DO")
    [] cmd = "WILL" /\ o # "ECHO" -> Refuse(s, "remote", "theirs", o, "DONT")
    [] OTHER -> Disable(s, "remote", o, "DONT")

(* Whether the bytes since the last sequence are a whole one. *)
Ends(seq) ==
  LET n == Len(seq) IN
    \/ seq[1] # "IAC"
    \/ n = 2 /\ seq[2] \notin {"DO", "DONT", "WILL", "WONT", "SB"}
    \/ n = 3 /\ seq[2] \in {"DO", "DONT", "WILL", "WONT"}
    \/ n > 3 /\ seq[2] = "SB" /\ seq[n - 1] = "IAC" /\ seq[n] = "SE"

Understood(seq, s) ==
  CASE seq[1] # "IAC" -> [s EXCEPT !.text = Append(@, seq[1])]
    [] seq[1] = "IAC" /\ seq[2] = "IAC" -> [s EXCEPT !.text = Append(@, "IAC")]
    [] seq[1] = "IAC" /\ seq[2] \in {"DO", "DONT", "WILL", "WONT"} -> Negotiate(s, seq[2], seq[3])
    [] seq[1] = "IAC" /\ seq[2] = "SB" ->
         IF seq[3] = "TERMINAL" /\ seq[4] = "SEND" /\ s.local["TERMINAL"] = "on"
         THEN TerminalType(s) ELSE s
    [] OTHER -> s

Byte(s, b) ==
  LET seq == Append(s.rest, b) IN
    IF Ends(seq) THEN Understood(seq, [s EXCEPT !.rest = <<>>]) ELSE [s EXCEPT !.rest = seq]

(* The bytes of a packet, one after the other. *)
Taken(packet, s) ==
  LET after[n \in 0..Len(packet)] == IF n = 0 THEN s ELSE Byte(after[n - 1], packet[n]) IN
    after[Len(packet)]

(* A slip: an incomplete sequence is dropped with its packet. *)
ParseForgetting(packet, s) == [Taken(packet, s) EXCEPT !.rest = <<>>]

(* A sequence cut at the end of the packet is carried over. *)
Parse(packet, s) == Taken(packet, s)

(* processTelnetData: what was carried over and one packet. *)
Receive ==
  /\ \E n \in 1..(IF Len(wire) < MaxPacket THEN Len(wire) ELSE MaxPacket) :
       LET s == Parse(SubSeq(wire, 1, n),
                      [text |-> text, local |-> local, remote |-> remote, refusals |-> refusals,
                       out |-> answers, rest |-> carry]) IN
         /\ text' = s.text /\ local' = s.local /\ remote' = s.remote /\ refusals' = s.refusals
         /\ answers' = s.out /\ carry' = s.rest
         /\ wire' = SubSeq(wire, n + 1, Len(wire))
  /\ UNCHANGED <<kind, sends, printed, belief>>

--------------------------------------------------
(* The server *)

Sends(bytes) == wire' = wire \o bytes

Prints ==
  \E c \in {"a", "IAC"} :
    printed' = Append(printed, c) /\ Sends(IF c = "IAC" THEN <<"IAC", "IAC">> ELSE <<c>>)

(* A server has one request about an option under way at a time (RFC 1143). *)
UnderWay(o) == o \in ToSet(carry \o wire) \/ \E i \in DOMAIN answers : answers[i][2] = o

Asks ==
  /\ \/ \E cmd \in {"DO", "DONT", "WILL", "WONT"}, o \in {x \in Options : ~UnderWay(x)} :
          Sends(<<"IAC", cmd, o>>)
     \/ Sends(<<"IAC", "SB", "TERMINAL", "SEND", "IAC", "SE">>)
     \/ Sends(<<"IAC", "NOP">>)
  /\ UNCHANGED printed

ServerSpeaks ==
  /\ sends < MaxSends /\ sends' = sends + 1
  /\ Prints \/ Asks
  /\ UNCHANGED <<kind, text, carry, local, remote, refusals, answers, belief>>

Reaction(cmd) ==
  CASE kind = "silent" -> {}
    [] kind = "acks" -> {[WILL |-> "DO", WONT |-> "DONT", DO |-> "WILL", DONT |-> "WONT"][cmd]}
    [] kind = "insists" -> {[WILL |-> "DO", WONT |-> "DO", DO |-> "WILL", DONT |-> "WILL"][cmd]}

ServerHears ==
  /\ answers # <<>> /\ answers' = Tail(answers)
  /\ LET cmd == answers[1][1]
         o == answers[1][2] IN
       /\ belief' = IF cmd \in {"WILL", "WONT"} THEN [belief EXCEPT ![o] = cmd] ELSE belief
       /\ IF cmd = "SB" \/ Reaction(cmd) = {} THEN UNCHANGED wire
          ELSE \E r \in Reaction(cmd) : Sends(<<"IAC", r, o>>)
  /\ UNCHANGED <<kind, sends, printed, text, carry, local, remote, refusals>>

TelnetNext == Receive \/ ServerSpeaks \/ ServerHears

(* The connection delivers both ways. *)
TelnetFairness == WF_telnet(Receive \/ ServerHears)

TelnetSpec == TelnetInit /\ [][TelnetNext]_telnet /\ TelnetFairness

--------------------------------------------------
(* Properties *)

TelnetTypeOK ==
  /\ local \in [Options -> {Unset, "on", "off"}] /\ remote \in [Options -> {Unset, "on", "off"}]
  /\ refusals \in [ours : [Options -> 0..MaxRefusals], theirs : [Options -> 0..MaxRefusals]]
  /\ sends \in 0..MaxSends

(* Wherever the packets are cut, the terminal gets the server's text and no   *)
(* byte of the negotiation, in order and, once everything is here, all of it. *)
TextIntact ==
  /\ IsPrefix(text, printed)
  /\ wire = <<>> => text = printed /\ carry = <<>>

(* The negotiation ends, also with a server that acknowledges every answer or *)
(* asks again for what was refused, and both ends then agree on what is on.   *)
Calm == wire = <<>> /\ answers = <<>>
Negotiated ==
  /\ []<>Calm
  /\ [](Calm => \A o \in Ours : belief[o] = "WILL" <=> local[o] = "on")
=============================================================================
