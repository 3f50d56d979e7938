----------------------------- MODULE Scrollback -----------------------------
(* The output of one session on its way to the screens: the ring of the main  *)
(* process (SessionOutputBuffer.ts), which sends every chunk to every window  *)
(* and keeps the latest ones, and the terminals of the windows (Terminal.tsx),*)
(* which mount, catch up from where they were, and unmount. A character is    *)
(* its offset; a chunk is the offsets it covers.                              *)

EXTENDS Naturals, Sequences

CONSTANTS
  Views,     \* the cached terminals of the session, one per window
  MaxChars,  \* what the ring may hold
  MaxOutput, \* bound: the characters the session prints
  MaxMounts, \* bound: how often a terminal is mounted
  Fresh      \* no offset yet

ASSUME ScrollbackConstants == {MaxChars, MaxOutput, MaxMounts} \subseteq Nat /\ Fresh \notin Nat

VARIABLES
  ring,      \* the offsets [start, end] the ring holds
  dropped,   \* droppedSessions has the session
  channel,   \* the chunks sent to each window and not delivered yet
  reply,     \* the answer to each view's readScrollback under way, or none
  view,      \* [mounted, caughtUp, pending, last]: the mount and its entry
  screen,    \* the characters each terminal shows
  mounts     \* how often each was mounted

scrollback == <<ring, dropped, channel, reply, view, screen, mounts>>

NoReply == [data |-> <<>>, end |-> 0, reset |-> FALSE, there |-> FALSE]
Chars(from, to) == [i \in 1..(to - from) |-> from + i]

ScrollbackInit ==
  /\ ring = [start |-> 0, end |-> 0] /\ dropped = FALSE
  /\ channel = [v \in Views |-> <<>>]
  /\ reply = [v \in Views |-> NoReply]
  /\ view = [v \in Views |-> [mounted |-> FALSE, caughtUp |-> FALSE, pending |-> <<>>, last |-> Fresh]]
  /\ screen = [v \in Views |-> <<>>]
  /\ mounts = [v \in Views |-> 0]

--------------------------------------------------
(* The main process *)

(* trim: whole chunks go from the front until the ring is small enough; where *)
(* they end depends on how the output came.                                   *)
Trimmed(start, end) ==
  IF end - start <= MaxChars THEN {start} ELSE {s \in start..end : end - s <= MaxChars}

(* emitSessionData: into the ring and to every window; output of a session    *)
(* that was dropped is ignored.                                               *)
Emit ==
  /\ ~dropped
  /\ \E n \in 1..2 :
       /\ ring.end + n <= MaxOutput
       /\ \E s \in Trimmed(ring.start, ring.end + n) : ring' = [start |-> s, end |-> ring.end + n]
       /\ channel' = [v \in Views |-> Append(channel[v], Chars(ring.end, ring.end + n))]
  /\ UNCHANGED <<dropped, reply, view, screen, mounts>>

(* dropSession: the session was disconnected. *)
Drop ==
  /\ ~dropped /\ dropped' = TRUE /\ ring' = [start |-> 0, end |-> 0]
  /\ UNCHANGED <<channel, reply, view, screen, mounts>>

(* A slip: an offset the ring no longer reaches back to is continued from. *)
ReadFromAnywhere(from) ==
  IF from # Fresh /\ from <= ring.end
  THEN [data |-> Chars(IF from < ring.start THEN ring.start ELSE from, ring.end),
        end |-> ring.end, reset |-> FALSE, there |-> TRUE]
  ELSE [data |-> Chars(ring.start, ring.end), end |-> ring.end, reset |-> TRUE, there |-> TRUE]

(* readScrollback: what came after an offset, or the whole ring where it      *)
(* cannot be continued from. Both answers of a session without a ring are     *)
(* empty, at offset 0.                                                        *)
ReadScrollback(from) ==
  IF from # Fresh /\ from >= ring.start /\ from <= ring.end
  THEN [data |-> Chars(from, ring.end), end |-> ring.end, reset |-> FALSE, there |-> TRUE]
  ELSE [data |-> Chars(ring.start, ring.end), end |-> ring.end, reset |-> TRUE, there |-> TRUE]

(* ssh-get-scrollback of a terminal that mounts: it is subscribed already, so *)
(* what is sent from here on is delivered to it.                              *)
Mount(v) ==
  /\ ~view[v].mounted /\ mounts[v] < MaxMounts /\ ~reply[v].there
  /\ mounts' = [mounts EXCEPT ![v] = @ + 1]
  /\ view' = [view EXCEPT ![v] = [@ EXCEPT !.mounted = TRUE, !.caughtUp = FALSE, !.pending = <<>>]]
  /\ UNCHANGED <<ring, dropped, channel, reply, screen>>

AnswerScrollback(v) ==
  /\ view[v].mounted /\ ~view[v].caughtUp /\ ~reply[v].there
  /\ reply' = [reply EXCEPT ![v] = ReadScrollback(view[v].last)]
  /\ UNCHANGED <<ring, dropped, channel, view, screen, mounts>>

--------------------------------------------------
(* A terminal *)

(* writeFrom: what is on screen already is left out. *)
Written(s, chunk) ==
  LET end == chunk[Len(chunk)] IN
    IF s.last # Fresh /\ end <= s.last THEN s
    ELSE [text |-> s.text \o (IF s.last # Fresh /\ end - s.last < Len(chunk)
                              THEN SubSeq(chunk, Len(chunk) - (end - s.last) + 1, Len(chunk)) ELSE chunk),
          last |-> end]

(* A chunk arrives: written, kept until the terminal has caught up, or for    *)
(* nobody (no terminal is mounted in the window).                             *)
Deliver(v) ==
  /\ channel[v] # <<>>
  /\ channel' = [channel EXCEPT ![v] = Tail(@)]
  /\ IF ~view[v].mounted THEN UNCHANGED <<view, screen>>
     ELSE IF view[v].caughtUp
     THEN LET s == Written([text |-> screen[v], last |-> view[v].last], Head(channel[v])) IN
            /\ screen' = [screen EXCEPT ![v] = s.text]
            /\ view' = [view EXCEPT ![v].last = s.last]
     ELSE /\ view' = [view EXCEPT ![v].pending = Append(@, Head(channel[v]))]
          /\ UNCHANGED screen
  /\ UNCHANGED <<ring, dropped, reply, mounts>>

(* The main process no longer has the session: the screen stays as it is. *)
SessionGone(r) == r.reset /\ r.data = <<>> /\ r.end = 0

(* flushPending: the chunks kept, one after the other. *)
Flushed(chunks, s) ==
  LET after[n \in 0..Len(chunks)] == IF n = 0 THEN s ELSE Written(after[n - 1], chunks[n]) IN
    after[Len(chunks)]

(* The answer arrives, before or after chunks that were sent before it: the   *)
(* screen is continued or replaced, then the chunks kept are written.         *)
CatchUp(v) ==
  /\ view[v].mounted /\ ~view[v].caughtUp /\ reply[v].there
  /\ LET r == reply[v]
         caught == IF SessionGone(r) THEN [text |-> screen[v], last |-> view[v].last]
                   ELSE [text |-> (IF r.reset THEN <<>> ELSE screen[v]) \o r.data, last |-> r.end]
         s == Flushed(view[v].pending, caught) IN
       /\ screen' = [screen EXCEPT ![v] = s.text]
       /\ view' = [view EXCEPT ![v] = [@ EXCEPT !.caughtUp = TRUE, !.pending = <<>>, !.last = s.last]]
  /\ reply' = [reply EXCEPT ![v] = NoReply]
  /\ UNCHANGED <<ring, dropped, channel, mounts>>

(* The pane goes (another workspace, another window); the terminal is kept,   *)
(* an answer under way is not used.                                           *)
Unmount(v) ==
  /\ view[v].mounted
  /\ view' = [view EXCEPT ![v] = [@ EXCEPT !.mounted = FALSE, !.caughtUp = FALSE, !.pending = <<>>]]
  /\ reply' = [reply EXCEPT ![v] = NoReply]
  /\ UNCHANGED <<ring, dropped, channel, screen, mounts>>

ScrollbackNext ==
  \/ Emit \/ Drop
  \/ \E v \in Views : Mount(v) \/ AnswerScrollback(v) \/ Deliver(v) \/ CatchUp(v) \/ Unmount(v)

(* IPC delivers. *)
ScrollbackFairness ==
  \A v \in Views : WF_scrollback(Deliver(v) \/ AnswerScrollback(v) \/ CatchUp(v))

ScrollbackSpec == ScrollbackInit /\ [][ScrollbackNext]_scrollback /\ ScrollbackFairness

--------------------------------------------------
(* Properties *)

ScrollbackTypeOK ==
  /\ ring \in [start : 0..MaxOutput, end : 0..MaxOutput] /\ ring.end - ring.start <= MaxChars
  /\ dropped \in BOOLEAN /\ mounts \in [Views -> 0..MaxMounts]
  /\ \A v \in Views : /\ view[v].mounted \in BOOLEAN /\ view[v].caughtUp \in BOOLEAN
                      /\ view[v].last \in 0..MaxOutput \union {Fresh}

(* Whatever was mounted, moved to another window or trimmed in between, a     *)
(* screen shows no character twice or out of order, up to the offset its      *)
(* entry has, and leaves no hole while the session is there. (A terminal that *)
(* mounts again just as its session is dropped has nothing to catch up from.) *)
Lossless ==
  \A v \in Views :
    /\ \A i \in 1..(Len(screen[v]) - 1) :
         screen[v][i + 1] >= screen[v][i] + 1 /\ (~dropped => screen[v][i + 1] = screen[v][i] + 1)
    /\ screen[v] # <<>> => view[v].last = screen[v][Len(screen[v])]

(* A terminal that stays mounted comes to show all that the session printed,  *)
(* unless the session is dropped first.                                       *)
ShowsAll ==
  \A v \in Views : (view[v].mounted /\ ring.end = MaxOutput)
                     ~> (view[v].last = MaxOutput \/ ~view[v].mounted \/ dropped)
=============================================================================
