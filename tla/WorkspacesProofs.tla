-------------------------- MODULE WorkspacesProofs --------------------------
(* For any workspaces and chats, and any number of switches, edits, saves,    *)
(* unlockings and failures at once: a workspace's list holds its own servers  *)
(* and loses none, and at rest the window and the main process agree on the   *)
(* workspace; and, unless a switch failed late or overlapped another, a chat  *)
(* is stored whole in the workspace it was asked in and shown there only.     *)

EXTENDS Workspaces, FiniteSetTheorems, SequenceTheorems, TLAPS

--------------------------------------------------
(* Calls and answers on their way, in the order they were sent. *)
On(q, c) == {i \in DOMAIN q : q[i].kind = c}
Alone(S) == \A x, y \in S : x = y

LEMMA SentLast ==
  ASSUME NEW M, NEW q \in Seq(M), NEW m \in M
  PROVE  /\ Append(q, m) \in Seq(M) /\ Len(q) \in Nat
         /\ DOMAIN q = 1..Len(q) /\ DOMAIN Append(q, m) = 1..Len(q) + 1
         /\ \A i \in 1..Len(q) : Append(q, m)[i] = q[i]
         /\ Append(q, m)[Len(q) + 1] = m
         /\ ToSet(q) \subseteq M /\ ToSet(Append(q, m)) = ToSet(q) \union {m}
<1>1. /\ Append(q, m) \in Seq(M) /\ Len(q) \in Nat
      /\ DOMAIN q = 1..Len(q) /\ DOMAIN Append(q, m) = 1..Len(q) + 1
      /\ \A i \in 1..Len(q) : Append(q, m)[i] = q[i]
      /\ Append(q, m)[Len(q) + 1] = m
 <2>1. /\ Append(q, m) \in Seq(M) /\ Len(Append(q, m)) = Len(q) + 1
       /\ \A i \in 1..Len(q) : Append(q, m)[i] = q[i]
       /\ Append(q, m)[Len(q) + 1] = m
  BY AppendProperties
 <2>2. Len(q) \in Nat /\ DOMAIN q = 1..Len(q) /\ DOMAIN Append(q, m) = 1..Len(Append(q, m))
  BY <2>1, LenProperties
 <2> QED BY <2>1, <2>2
<1> DEFINE a == Append(q, m)
<1> HIDE DEF a
<1>2. ToSet(q) \subseteq M BY <1>1 DEF ToSet
<1>3. \A i \in DOMAIN a : i \in DOMAIN q \/ i = Len(q) + 1 BY <1>1 DEF a
<1>4. ToSet(a) = ToSet(q) \union {m} BY <1>1, <1>3 DEF ToSet, a
<1> QED BY <1>1, <1>2, <1>4 DEF a

LEMMA Got ==
  ASSUME NEW M, NEW q \in Seq(M), q # <<>>
  PROVE  /\ Tail(q) \in Seq(M) /\ Len(q) \in Nat /\ Len(q) > 0 /\ Head(q) = q[1] /\ Head(q) \in M
         /\ DOMAIN q = 1..Len(q) /\ DOMAIN Tail(q) = 1..Len(q) - 1
         /\ \A i \in 1..Len(q) - 1 : Tail(q)[i] = q[i + 1]
         /\ ToSet(q) \subseteq M /\ ToSet(q) = {Head(q)} \union ToSet(Tail(q))
<1>1. /\ Tail(q) \in Seq(M) /\ Len(q) \in Nat /\ Len(q) > 0 /\ Head(q) = q[1] /\ Head(q) \in M
      /\ DOMAIN q = 1..Len(q) /\ DOMAIN Tail(q) = 1..Len(q) - 1
      /\ \A i \in 1..Len(q) - 1 : Tail(q)[i] = q[i + 1]
 BY EmptySeq
<1> DEFINE a == Tail(q)
<1> HIDE DEF a
<1>2. ToSet(q) \subseteq M BY <1>1 DEF ToSet
<1>3. \A i \in DOMAIN q : i = 1 \/ (i - 1 \in DOMAIN a /\ q[i] = a[i - 1])
 <2>1. ASSUME NEW i \in DOMAIN q, i # 1 PROVE i - 1 \in 1..Len(q) - 1 /\ (i - 1) + 1 = i
  BY <1>1, <2>1
 <2> QED BY <1>1, <2>1 DEF a
<1>4. \A i \in DOMAIN a : i + 1 \in DOMAIN q /\ a[i] = q[i + 1] BY <1>1 DEF a
<1>5. ToSet(q) = {q[1]} \union ToSet(a) BY <1>1, <1>3, <1>4 DEF ToSet
<1> QED BY <1>1, <1>2, <1>5 DEF a

(* What is sent last. *)
LEMMA OnSent ==
  ASSUME NEW M, NEW q \in Seq(M), NEW m \in M, NEW c
  PROVE  /\ m.kind # c => On(Append(q, m), c) = On(q, c)
         /\ m.kind = c => On(Append(q, m), c) = On(q, c) \union {Len(q) + 1}
         /\ On(q, c) \subseteq 1..Len(q) /\ Len(q) + 1 \notin On(q, c)
<1> DEFINE a == Append(q, m)
<1> HIDE DEF a
<1>1. /\ Len(q) \in Nat /\ DOMAIN q = 1..Len(q) /\ DOMAIN a = 1..Len(q) + 1
      /\ \A i \in 1..Len(q) : a[i] = q[i]
      /\ a[Len(q) + 1] = m
 BY SentLast DEF a
<1>2. DOMAIN a = DOMAIN q \union {Len(q) + 1} BY <1>1
<1>3. On(q, c) \subseteq 1..Len(q) /\ Len(q) + 1 \notin 1..Len(q) /\ Len(q) + 1 \in 1..Len(q) + 1
 BY <1>1 DEF On
<1>4. m.kind # c => On(a, c) = On(q, c) BY <1>1, <1>2 DEF On
<1>5. m.kind = c => On(a, c) = On(q, c) \union {Len(q) + 1} BY <1>1, <1>2 DEF On
<1> QED BY <1>3, <1>4, <1>5 DEF a

(* What was sent first is gone. *)
LEMMA OnGot ==
  ASSUME NEW M, NEW q \in Seq(M), q # <<>>, NEW c
  PROVE  /\ \A i \in On(Tail(q), c) : i + 1 \in On(q, c) /\ Tail(q)[i] = q[i + 1]
         /\ \A i \in On(q, c) : i = 1 \/ i - 1 \in On(Tail(q), c)
         /\ Alone(On(q, c)) => Alone(On(Tail(q), c))
         /\ Head(q).kind # c => (On(q, c) = {} <=> On(Tail(q), c) = {})
         /\ Head(q).kind = c => On(q, c) # {} /\ (Alone(On(q, c)) => On(Tail(q), c) = {})
<1>1. /\ Len(q) \in Nat /\ Len(q) > 0 /\ Head(q) = q[1]
      /\ DOMAIN q = 1..Len(q) /\ DOMAIN Tail(q) = 1..Len(q) - 1
      /\ \A i \in 1..Len(q) - 1 : Tail(q)[i] = q[i + 1]
 BY Got
<1>2. \A i \in On(Tail(q), c) : i + 1 \in On(q, c) /\ Tail(q)[i] = q[i + 1] BY <1>1 DEF On
<1>3. ASSUME NEW i \in On(q, c), i # 1 PROVE i - 1 \in On(Tail(q), c)
 <2>1. i - 1 \in 1..Len(q) - 1 /\ (i - 1) + 1 = i /\ q[i].kind = c BY <1>1, <1>3 DEF On
 <2> QED BY <1>1, <2>1 DEF On
<1>4. On(q, c) \subseteq Nat /\ On(Tail(q), c) \subseteq Nat /\ 0 \notin On(Tail(q), c)
 BY <1>1 DEF On
<1>5. Alone(On(q, c)) => Alone(On(Tail(q), c))
 <2>1. ASSUME Alone(On(q, c)), NEW i \in On(Tail(q), c), NEW j \in On(Tail(q), c) PROVE i = j
  <3>1. i + 1 = j + 1 /\ i \in Nat /\ j \in Nat BY <1>2, <1>4, <2>1 DEF Alone
  <3> QED BY <3>1
 <2> QED BY <2>1 DEF Alone
<1>6. Head(q).kind = c <=> 1 \in On(q, c) BY <1>1 DEF On
<1>7. ASSUME Alone(On(q, c)), 1 \in On(q, c) PROVE On(Tail(q), c) = {}
 <2>1. \A i \in On(Tail(q), c) : i + 1 = 1 /\ i \in Nat /\ i # 0 BY <1>2, <1>4, <1>7 DEF Alone
 <2> QED BY <2>1
<1> QED BY <1>2, <1>3, <1>5, <1>6, <1>7

LEMMA CallSent ==
  ASSUME NEW M, NEW q \in Seq(M), NEW m \in M
  PROVE  /\ ToSet(Append(q, m)) = ToSet(q) \union {m}
         /\ \A c : m.kind # c => On(Append(q, m), c) = On(q, c)
<1>1. ToSet(Append(q, m)) = ToSet(q) \union {m} BY SentLast
<1>2. ASSUME NEW c, m.kind # c PROVE On(Append(q, m), c) = On(q, c)
 BY <1>2, OnSent
<1> QED BY <1>1, <1>2

LEMMA CallTaken ==
  ASSUME NEW M, NEW q \in Seq(M), q # <<>>
  PROVE  ToSet(q) = {Head(q)} \union ToSet(Tail(q))
BY Got

--------------------------------------------------
(* The values of the variables *)

OwnServers == Spaces \X {"old", "new"}

MainCalls ==
  [kind : {"switch"}, to : Spaces, id : Nat]
    \union [kind : {"save"}, space : Spaces, list : SUBSET OwnServers]
    \union [kind : {"chat"}, reply : Replies, text : Nat, new : BOOLEAN]
    \union [kind : {"list"}, epoch : Nat, got : SUBSET Replies, page : {1, 2}]
    \union [kind : {"unlock"}, rev : Nat]

WindowAnswers ==
  [kind : {"switched"}, to : Spaces, ok : BOOLEAN, locked : BOOLEAN, list : SUBSET OwnServers]
    \union [kind : {"listed"}, epoch : Nat, got : SUBSET Replies, page : {1, 2}]
    \union [kind : {"unlocked"}, ok : BOOLEAN, rev : Nat, list : SUBSET OwnServers]

Tasks ==
  [id : Nat, to : Spaces, from : Spaces, at : {"folder", "moved", "left", "loaded"},
   locked : BOOLEAN, list : SUBSET OwnServers]

Hubs ==
  [active : Spaces, chat : Spaces, tasks : SUBSET Tasks, closed : SUBSET Guarded,
   saving : SUBSET [space : Spaces, list : SUBSET OwnServers],
   opening : SUBSET [space : Spaces, rev : Nat, open : BOOLEAN],
   lists : [Spaces -> SUBSET OwnServers], chats : [Spaces -> [Replies -> Seq(Nat)]]]

ReplyTexts == [state : {"no", "live", "over"}, text : Nat, queued : Nat]

Views ==
  [shown : Spaces, switching : BOOLEAN, timers : Nat, listOf : Spaces \union {NoSpace},
   list : SUBSET OwnServers, vault : BOOLEAN, unlocking : BOOLEAN, left : BOOLEAN, listed : SUBSET Replies,
   reply : [Replies -> ReplyTexts], epoch : Nat, rev : Nat]

Pasts ==
  [switches : Nat, edits : Nat, removed : SUBSET OwnServers, torn : BOOLEAN,
   asked : [Replies -> Spaces \union {NoSpace}], sealed : SUBSET Replies]

Typed ==
  hub \in Hubs /\ view \in Views /\ past \in Pasts /\ toMain \in Seq(MainCalls) /\ toWindow \in Seq(WindowAnswers)

(* What the two queues hold after one more message. *)
LEMMA MainSent ==
  ASSUME NEW q \in Seq(MainCalls)
  PROVE  \A m \in MainCalls : /\ Append(q, m) \in Seq(MainCalls) /\ ToSet(Append(q, m)) = ToSet(q) \union {m}
                              /\ \A c : m.kind # c => On(Append(q, m), c) = On(q, c)
BY CallSent, SentLast

LEMMA WindowSent ==
  ASSUME NEW a \in Seq(WindowAnswers)
  PROVE  \A m \in WindowAnswers : /\ Append(a, m) \in Seq(WindowAnswers)
                                  /\ ToSet(Append(a, m)) = ToSet(a) \union {m}
                                  /\ \A c : m.kind # c => On(Append(a, m), c) = On(a, c)
BY CallSent, SentLast

LEMMA TypedInit == WorkspacesInit => Typed
<1> SUFFICES ASSUME WorkspacesInit PROVE Typed
 OBVIOUS
<1> USE WorkspacesConstants
<1>1. hub \in Hubs BY DEF WorkspacesInit, Hubs, OldServer, OwnServers, NotSaved
<1>2. view \in Views BY DEF WorkspacesInit, Views, OldServer, OwnServers, ReplyTexts
<1>3. past \in Pasts BY DEF WorkspacesInit, Pasts
<1> QED BY <1>1, <1>2, <1>3 DEF WorkspacesInit, Typed

(* The fields of the window an operation leaves alone: of the workspace and   *)
(* its list, of the chats, of the veil.                                       *)
SameList(v) ==
  /\ v.shown = view.shown /\ v.listOf = view.listOf /\ v.list = view.list
  /\ v.vault = view.vault /\ v.left = view.left /\ v.rev = view.rev
SameChats(v) == v.listed = view.listed /\ v.reply = view.reply /\ v.epoch = view.epoch
SameVeil(v) == v.switching = view.switching /\ v.timers = view.timers

(* What each operation does to the window and the main process: the lemmas    *)
(* below say once what the invariants then need of every step.                *)
LEMMA EditListDoes ==
  ASSUME Typed, EditList
  PROVE  /\ Typed' /\ hub' = hub /\ toWindow' = toWindow
         /\ SameChats(view') /\ SameVeil(view') /\ view'.unlocking = view.unlocking
         /\ view'.shown = view.shown /\ view'.listOf = view.listOf /\ view'.vault = view.vault
         /\ view'.left = view.left /\ view'.rev = view.rev
         /\ view'.list \subseteq view.list \union {NewServer(view.shown)}
         /\ view.vault => view'.list \subseteq view.list
         /\ past.removed \subseteq past'.removed /\ view.list \ view'.list \subseteq past'.removed
         /\ past'.torn = past.torn /\ past'.asked = past.asked /\ past'.sealed = past.sealed
         /\ \/ toMain' = toMain
            \/ \E m \in MainCalls : /\ toMain' = Append(toMain, m) /\ m.kind = "save" /\ view.listOf = view.shown
                                    /\ m.space = view.shown /\ m.list = view'.list
<1> USE WorkspacesConstants
<1>1. PICK list \in Added \union {view.list} \union {view.list \ {s} : s \in view.list} :
       /\ view' = [view EXCEPT !.list = list]
       /\ past' = [past EXCEPT !.edits = @ + 1, !.removed = @ \union (view.list \ list)]
       /\ toMain' = IF MaySave THEN Append(toMain, [kind |-> "save", space |-> view.shown, list |-> list]) ELSE toMain
 BY DEF EditList
<1>2. /\ list \subseteq OwnServers /\ list \subseteq view.list \union {NewServer(view.shown)}
      /\ view.vault => list \subseteq view.list
 BY <1>1 DEF Typed, Views, Added, NewServer, OwnServers
<1>3. /\ view' \in Views /\ view'.list = list
      /\ SameChats(view') /\ SameVeil(view') /\ view'.unlocking = view.unlocking
      /\ view'.shown = view.shown /\ view'.listOf = view.listOf /\ view'.vault = view.vault
      /\ view'.left = view.left /\ view'.rev = view.rev
 BY <1>1, <1>2 DEF Typed, Views, SameChats, SameVeil
<1>4. /\ past' \in Pasts /\ past'.removed = past.removed \union (view.list \ list)
      /\ past'.torn = past.torn /\ past'.asked = past.asked /\ past'.sealed = past.sealed
 <2>1. past.removed \union (view.list \ list) \in SUBSET OwnServers BY DEF Typed, Views, Pasts
 <2>2. PICK p : p = [past EXCEPT !.edits = @ + 1] OBVIOUS
 <2>3. p \in Pasts /\ p.torn = past.torn /\ p.asked = past.asked /\ p.sealed = past.sealed
  BY SMTT(30), <2>2 DEF Typed, Pasts
 <2>4. past' = [p EXCEPT !.removed = past.removed \union (view.list \ list)] BY <1>1, <2>2
 <2> QED BY <2>1, <2>3, <2>4 DEF Pasts
<1>5. PICK m : m = [kind |-> "save", space |-> view.shown, list |-> list] OBVIOUS
<1>6. m \in MainCalls /\ m.kind = "save" /\ m.space = view.shown /\ m.list = list
 BY <1>2, <1>5 DEF Typed, Views, MainCalls
<1>7. toMain' = toMain \/ (toMain' = Append(toMain, m) /\ view.listOf = view.shown)
 BY <1>1, <1>5 DEF MaySave
<1>8. toMain' \in Seq(MainCalls) BY <1>6, <1>7, SentLast DEF Typed
<1>9. hub' = hub /\ toWindow' = toWindow BY DEF EditList
<1> QED BY <1>2, <1>3, <1>4, <1>6, <1>7, <1>8, <1>9 DEF Typed

(* The replies: asked, a token come, shown, over. *)
LEMMA AskReplyDoes ==
  ASSUME Typed, NEW r \in Replies, AskReply(r)
  PROVE  /\ Typed' /\ hub' = hub /\ toWindow' = toWindow
         /\ SameList(view') /\ SameVeil(view') /\ view'.unlocking = view.unlocking /\ view'.epoch = view.epoch
         /\ ~view.switching /\ Live = {} /\ view.reply[r].state = "no"
         /\ view'.reply[r].state = "live" /\ \A s \in Replies \ {r} : view'.reply[s] = view.reply[s]
         /\ view'.listed = view.listed \union {r}
         /\ past'.asked[r] = view.shown /\ \A s \in Replies \ {r} : past'.asked[s] = past.asked[s]
         /\ past.sealed \subseteq past'.sealed /\ past'.sealed \subseteq past.sealed \union {r}
         /\ view.vault => r \in past'.sealed
         /\ past'.torn = past.torn /\ past'.removed = past.removed
         /\ \E m \in MainCalls : /\ toMain' = Append(toMain, m) /\ m.kind = "chat" /\ m.reply = r /\ m.new
<1> USE WorkspacesConstants
<1> r \in Replies /\ view.reply[r] \in ReplyTexts BY DEF Typed, Views
<1>1. PICK a : a = [view.reply[r] EXCEPT !.state = "live"] OBVIOUS
<1>2. a \in ReplyTexts /\ a.state = "live" BY <1>1 DEF ReplyTexts
<1>3. PICK b : b = [view.reply EXCEPT ![r] = a] OBVIOUS
<1>4. b \in [Replies -> ReplyTexts] /\ b[r] = a /\ \A s \in Replies \ {r} : b[s] = view.reply[s]
 BY <1>2, <1>3 DEF Typed, Views
<1>5. view' = [[view EXCEPT !.reply = b] EXCEPT !.listed = view.listed \union {r}]
 BY <1>1, <1>3 DEF AskReply
<1>6. /\ view' \in Views /\ view'.reply = b /\ view'.listed = view.listed \union {r}
      /\ SameList(view') /\ SameVeil(view') /\ view'.unlocking = view.unlocking /\ view'.epoch = view.epoch
 BY <1>4, <1>5 DEF Typed, Views, SameList, SameVeil
<1>7. PICK p : p = [past.asked EXCEPT ![r] = view.shown] OBVIOUS
<1>8. /\ p \in [Replies -> Spaces \union {NoSpace}] /\ p[r] = view.shown
      /\ \A s \in Replies \ {r} : p[s] = past.asked[s]
 BY <1>7 DEF Typed, Views, Pasts
<1>9. PICK s : s = IF view.vault THEN past.sealed \union {r} ELSE past.sealed OBVIOUS
<1>10. s \subseteq Replies /\ past.sealed \subseteq s /\ s \subseteq past.sealed \union {r} /\ (view.vault => r \in s)
 BY <1>9 DEF Typed, Pasts
<1>11. past' = [[past EXCEPT !.asked = p] EXCEPT !.sealed = s] BY <1>7, <1>9 DEF AskReply
<1>12. past' \in Pasts /\ past'.asked = p /\ past'.sealed = s /\ past'.torn = past.torn /\ past'.removed = past.removed
 BY <1>8, <1>10, <1>11 DEF Typed, Pasts
<1>13. PICK m : m = SaveChat(r, 0, TRUE) OBVIOUS
<1>14. m \in MainCalls /\ m.kind = "chat" /\ m.reply = r /\ m.new
 BY <1>13 DEF SaveChat, MainCalls
<1>15. toMain' = Append(toMain, m) BY <1>13 DEF AskReply
<1>16. toMain' \in Seq(MainCalls) BY <1>14, <1>15, SentLast DEF Typed
<1>17. /\ hub' = hub /\ toWindow' = toWindow /\ ~view.switching /\ Live = {} /\ view.reply[r].state = "no"
 BY DEF AskReply
<1> QED BY <1>2, <1>4, <1>6, <1>8, <1>10, <1>12, <1>14, <1>15, <1>16, <1>17 DEF Typed

LEMMA TokenDoes ==
  ASSUME Typed, NEW r \in Replies, Token(r) \/ Frame(r)
  PROVE  /\ Typed' /\ hub' = hub /\ toWindow' = toWindow /\ toMain' = toMain /\ past' = past
         /\ SameList(view') /\ SameVeil(view') /\ view'.unlocking = view.unlocking /\ view'.epoch = view.epoch
         /\ view'.listed = view.listed
         /\ view.reply[r].state = "live" /\ view'.reply[r].state = "live"
         /\ \A s \in Replies \ {r} : view'.reply[s] = view.reply[s]
<1> r \in Replies /\ view.reply[r] \in ReplyTexts BY DEF Typed, Views
<1>1. \E a \in ReplyTexts : /\ a.state = view.reply[r].state
                            /\ view' = [view EXCEPT !.reply = [view.reply EXCEPT ![r] = a]]
 <2>1. CASE Token(r)
  <3>1. PICK a : a = [view.reply[r] EXCEPT !.queued = @ + 1] OBVIOUS
  <3>2. a \in ReplyTexts /\ a.state = view.reply[r].state BY <3>1 DEF ReplyTexts
  <3>3. view' = [view EXCEPT !.reply = [view.reply EXCEPT ![r] = a]] BY <2>1, <3>1 DEF Token
  <3> QED BY <3>2, <3>3
 <2>2. CASE Frame(r)
  <3>1. PICK a : a = [view.reply[r] EXCEPT !.text = @ + view.reply[r].queued] OBVIOUS
  <3>2. a \in ReplyTexts /\ a.state = view.reply[r].state BY <3>1 DEF ReplyTexts
  <3>3. PICK b : b = [view.reply EXCEPT ![r] = a] OBVIOUS
  <3>4. b \in [Replies -> ReplyTexts] /\ b[r] = a BY <3>2, <3>3 DEF Typed, Views
  <3>5. PICK c : c = [a EXCEPT !.queued = 0] OBVIOUS
  <3>6. c \in ReplyTexts /\ c.state = view.reply[r].state BY <3>2, <3>5 DEF ReplyTexts
  <3>7. PICK d : d = [b EXCEPT ![r] = c] OBVIOUS
  <3>8. d = [view.reply EXCEPT ![r] = c] BY <3>3, <3>7
  <3>9. view' = [[view EXCEPT !.reply = b] EXCEPT !.reply = d]
   BY <2>2, <3>1, <3>3, <3>4, <3>5, <3>7 DEF Frame
  <3>10. view' = [view EXCEPT !.reply = d] BY <3>9
  <3> QED BY <3>6, <3>8, <3>10
 <2> QED BY <2>1, <2>2
<1>2. PICK a \in ReplyTexts : /\ a.state = view.reply[r].state
                              /\ view' = [view EXCEPT !.reply = [view.reply EXCEPT ![r] = a]]
 BY <1>1
<1>3. PICK b : b = [view.reply EXCEPT ![r] = a] OBVIOUS
<1>4. b \in [Replies -> ReplyTexts] /\ b[r] = a /\ \A s \in Replies \ {r} : b[s] = view.reply[s]
 BY <1>2, <1>3 DEF Typed, Views
<1>5. /\ view' \in Views /\ view'.reply = b /\ view'.listed = view.listed
      /\ SameList(view') /\ SameVeil(view') /\ view'.unlocking = view.unlocking /\ view'.epoch = view.epoch
 BY <1>2, <1>3, <1>4 DEF Typed, Views, SameList, SameVeil
<1>6. hub' = hub /\ toWindow' = toWindow /\ toMain' = toMain /\ past' = past /\ view.reply[r].state = "live"
 BY DEF Token, Frame, Live
<1> QED BY <1>2, <1>4, <1>5, <1>6 DEF Typed

LEMMA FinishDoes ==
  ASSUME Typed, NEW r \in Replies, Finish(r)
  PROVE  /\ Typed' /\ hub' = hub /\ toWindow' = toWindow /\ past' = past
         /\ SameList(view') /\ SameVeil(view') /\ view'.unlocking = view.unlocking /\ view'.epoch = view.epoch
         /\ view'.listed = view.listed
         /\ view.reply[r].state = "live" /\ view'.reply[r].state = "over"
         /\ \A s \in Replies \ {r} : view'.reply[s] = view.reply[s]
         /\ \E m \in MainCalls : /\ toMain' = Append(toMain, m) /\ m.kind = "chat" /\ m.reply = r
                                 /\ m.text = view'.reply[r].text
<1> r \in Replies /\ view.reply[r] \in ReplyTexts BY DEF Typed, Views
<1>1. PICK a : a = Stopped(r) OBVIOUS
<1>2. a \in ReplyTexts /\ a.state = "over" BY <1>1 DEF Stopped, ReplyTexts
<1>3. PICK b : b = [view.reply EXCEPT ![r] = a] OBVIOUS
<1>4. b \in [Replies -> ReplyTexts] /\ b[r] = a /\ \A s \in Replies \ {r} : b[s] = view.reply[s]
 BY <1>2, <1>3 DEF Typed, Views
<1>5. view' = [view EXCEPT !.reply = b] BY <1>1, <1>3 DEF Finish
<1>6. /\ view' \in Views /\ view'.reply = b /\ view'.listed = view.listed
      /\ SameList(view') /\ SameVeil(view') /\ view'.unlocking = view.unlocking /\ view'.epoch = view.epoch
 BY <1>4, <1>5 DEF Typed, Views, SameList, SameVeil
<1>7. PICK m : m = SaveChat(r, a.text, FALSE) OBVIOUS
<1>8. m \in MainCalls /\ m.kind = "chat" /\ m.reply = r /\ m.text = a.text
 BY <1>2, <1>7 DEF SaveChat, MainCalls, ReplyTexts
<1>9. toMain' = Append(toMain, m) BY <1>1, <1>7 DEF Finish
<1>10. toMain' \in Seq(MainCalls) BY <1>8, <1>9, SentLast DEF Typed
<1>11. hub' = hub /\ toWindow' = toWindow /\ past' = past /\ view.reply[r].state = "live"
 BY DEF Finish, Live
<1> QED BY <1>2, <1>4, <1>6, <1>8, <1>9, <1>10, <1>11 DEF Typed

LEMMA LoadChatsDoes ==
  ASSUME Typed, LoadChats
  PROVE  /\ Typed' /\ hub' = hub /\ toWindow' = toWindow /\ past' = past /\ view' = view
         /\ \E m \in MainCalls : /\ toMain' = Append(toMain, m) /\ m.kind = "list" /\ m.got = {}
                                 /\ m.epoch = view.epoch
<1>1. PICK m : m = ListCall(view.epoch, {}, 1) OBVIOUS
<1>2. m \in MainCalls /\ m.kind = "list" /\ m.got = {} /\ m.epoch = view.epoch
 BY <1>1 DEF ListCall, MainCalls, Typed, Views
<1>3. toMain' = Append(toMain, m) /\ hub' = hub /\ toWindow' = toWindow /\ past' = past /\ view' = view
 BY <1>1 DEF LoadChats
<1>4. toMain' \in Seq(MainCalls) BY <1>2, <1>3, SentLast DEF Typed
<1> QED BY <1>2, <1>3, <1>4 DEF Typed

LEMMA UnlockDoes ==
  ASSUME Typed, Unlock
  PROVE  /\ Typed' /\ hub' = hub /\ toWindow' = toWindow /\ past' = past
         /\ SameChats(view') /\ SameVeil(view')
         /\ view'.shown = view.shown /\ view'.listOf = view.listOf /\ view'.list = view.list
         /\ view'.vault = view.vault /\ view'.rev = view.rev
         /\ ~view'.left /\ ~view.unlocking /\ view'.unlocking
         /\ \E m \in MainCalls : toMain' = Append(toMain, m) /\ m.kind = "unlock" /\ m.rev = view.rev
<1>1. PICK v : v = [view EXCEPT !.unlocking = TRUE] OBVIOUS
<1>2. /\ v \in Views /\ SameChats(v) /\ SameVeil(v) /\ SameList(v) /\ v.unlocking
 BY <1>1 DEF Typed, Views, SameChats, SameVeil, SameList
<1>3. view' = [v EXCEPT !.left = FALSE] BY <1>1 DEF Unlock
<1>4. /\ view' \in Views /\ SameChats(view') /\ SameVeil(view') /\ view'.unlocking /\ ~view'.left
      /\ view'.shown = view.shown /\ view'.listOf = view.listOf /\ view'.list = view.list
      /\ view'.vault = view.vault /\ view'.rev = view.rev
 BY <1>2, <1>3 DEF Views, SameChats, SameVeil, SameList
<1>5. PICK m : m = [kind |-> "unlock", rev |-> view.rev] OBVIOUS
<1>6. m \in MainCalls /\ m.kind = "unlock" /\ m.rev = view.rev
 BY <1>5 DEF MainCalls, Typed, Views
<1>7. toMain' = Append(toMain, m) /\ hub' = hub /\ toWindow' = toWindow /\ past' = past /\ ~view.unlocking
 BY <1>5 DEF Unlock
<1>8. toMain' \in Seq(MainCalls) BY <1>6, <1>7, SentLast DEF Typed
<1> QED BY <1>4, <1>6, <1>7, <1>8 DEF Typed

LEMMA TimerDoes ==
  ASSUME Typed, Timer
  PROVE  /\ Typed' /\ hub' = hub /\ toWindow' = toWindow /\ past' = past /\ toMain' = toMain
         /\ SameChats(view') /\ SameList(view') /\ view'.unlocking = view.unlocking
         /\ ~view'.switching /\ view.timers > 0 /\ view'.timers = view.timers - 1
<1>1. PICK v : v = [view EXCEPT !.timers = @ - 1] OBVIOUS
<1>2. view.timers > 0 /\ view.timers \in Nat BY DEF Timer, Typed, Views
<1> DEFINE n == view.timers - 1
<1> n \in Nat BY <1>2
<1> HIDE DEF n
<1>3. v \in Views /\ SameChats(v) /\ SameList(v) /\ v.unlocking = view.unlocking /\ v.timers = n
 <2>1. v = [view EXCEPT !.timers = n] BY <1>1 DEF n
 <2> QED BY <2>1 DEF Typed, Views, SameChats, SameList
<1>4. view' = [v EXCEPT !.switching = FALSE] BY <1>1 DEF Timer
<1>5. /\ view' \in Views /\ SameChats(view') /\ SameList(view') /\ view'.unlocking = view.unlocking
      /\ view'.timers = n /\ ~view'.switching
 BY <1>3, <1>4 DEF Views, SameChats, SameList
<1>6. hub' = hub /\ toWindow' = toWindow /\ past' = past /\ toMain' = toMain BY DEF Timer
<1> QED BY <1>2, <1>5, <1>6 DEF Typed, n

(* At most one reply is live, so a switch saves one chat or none. *)
LEMMA OneAsSeq ==
  /\ SetToSeq({}) = <<>>
  /\ \A x : SetToSeq({x}) = <<x>>
<1>1. SetToSeq({}) = <<>>
 <2>1. Cardinality({}) = 0 BY FS_EmptySet
 <2>2. \A f \in [1..0 -> {}] : f = <<>> OBVIOUS
 <2>3. <<>> \in [1..0 -> {}] /\ IsInjective(<<>>) BY DEF IsInjective
 <2> QED BY <2>1, <2>2, <2>3 DEF SetToSeq
<1>2. ASSUME NEW x PROVE SetToSeq({x}) = <<x>>
 <2>1. Cardinality({x}) = 1 BY FS_Singleton
 <2>2. \A f \in [1..1 -> {x}] : f = <<x>> OBVIOUS
 <2>3. <<x>> \in [1..1 -> {x}] /\ IsInjective(<<x>>) BY DEF IsInjective
 <2> QED BY <2>1, <2>2, <2>3 DEF SetToSeq
<1> QED BY <1>1, <1>2

LEMMA StartSwitchDoes ==
  ASSUME Typed, StartSwitch, \A r, s \in Live : r = s
  PROVE  /\ Typed' /\ hub' = hub /\ toWindow' = toWindow
         /\ view'.shown = view.shown /\ view'.listOf = NoSpace /\ view'.list = {} /\ view'.vault = view.vault
         /\ view'.left = (view.left \/ ~view.switching) /\ view'.rev = view.rev + 1
         /\ view'.unlocking = view.unlocking /\ view'.switching /\ view'.timers = view.timers
         /\ view'.listed = view.listed
         /\ view'.epoch >= view.epoch /\ (~view.switching => view'.epoch > view.epoch)
         /\ \A r \in Replies : \/ r \notin Live /\ view'.reply[r] = view.reply[r]
                               \/ r \in Live /\ view'.reply[r].state = "over"
         /\ past'.torn = (past.torn \/ SwitchUnderWay \/ view.switching)
         /\ past'.removed = past.removed /\ past'.asked = past.asked /\ past'.sealed = past.sealed
         /\ \E m \in MainCalls :
              /\ m.kind = "switch" /\ m.to # view.shown
              /\ \/ Live = {} /\ toMain' = Append(toMain, m)
                 \/ \E r \in Live, c \in MainCalls :
                      /\ Live = {r} /\ toMain' = Append(Append(toMain, c), m)
                      /\ c.kind = "chat" /\ c.reply = r /\ c.text = view'.reply[r].text
<1>1. PICK reply : reply = [r \in Replies |-> IF r \in Live THEN Stopped(r) ELSE view.reply[r]]
 OBVIOUS
<1>2. \A r \in Replies : Stopped(r) \in ReplyTexts /\ Stopped(r).state = "over"
 BY DEF Stopped, ReplyTexts, Typed, Views
<1>3. /\ reply \in [Replies -> ReplyTexts]
      /\ \A r \in Replies : \/ r \notin Live /\ reply[r] = view.reply[r]
                            \/ r \in Live /\ reply[r] = Stopped(r) /\ reply[r].state = "over"
 BY <1>1, <1>2 DEF Typed, Views
<1>4. PICK left \in BOOLEAN : left = (view.left \/ ~view.switching) OBVIOUS
<1>5. PICK epoch \in Nat : /\ epoch = IF view.switching THEN view.epoch ELSE view.epoch + 1
                           /\ epoch >= view.epoch /\ (~view.switching => epoch > view.epoch)
 BY DEF Typed, Views
<1>6. PICK rev \in Nat : rev = view.rev + 1 BY DEF Typed, Views
<1>7. view' = [view EXCEPT !.switching = TRUE, !.list = {}, !.listOf = NoSpace, !.rev = rev, !.epoch = epoch,
                !.left = left, !.reply = reply]
 BY <1>1, <1>4, <1>5, <1>6 DEF StartSwitch
<1>8. /\ view' \in Views /\ view'.shown = view.shown /\ view'.listOf = NoSpace /\ view'.list = {}
      /\ view'.vault = view.vault /\ view'.left = left /\ view'.rev = rev /\ view'.epoch = epoch
      /\ view'.reply = reply /\ view'.switching /\ view'.timers = view.timers
      /\ view'.unlocking = view.unlocking /\ view'.listed = view.listed
 BY <1>3, <1>7 DEF Typed, Views
<1>9. PICK torn \in BOOLEAN : torn = (past.torn \/ SwitchUnderWay \/ view.switching) OBVIOUS
<1>10. PICK n \in Nat : n = past.switches + 1 BY DEF Typed, Pasts
<1>11. past' = [past EXCEPT !.switches = n, !.torn = torn] BY <1>9, <1>10 DEF StartSwitch
<1>12. /\ past' \in Pasts /\ past'.torn = torn
       /\ past'.removed = past.removed /\ past'.asked = past.asked /\ past'.sealed = past.sealed
 BY <1>11 DEF Typed, Pasts
<1>13. PICK to \in Spaces \ {view.shown} : toMain' = toMain \o StartCalls(to) BY DEF StartSwitch
<1>14. PICK m : m = [kind |-> "switch", to |-> to, id |-> past.switches] OBVIOUS
<1>15. m \in MainCalls /\ m.kind = "switch" /\ m.to # view.shown
 BY <1>14 DEF MainCalls, Typed, Pasts
<1>16. /\ toMain' \in Seq(MainCalls)
       /\ \/ Live = {} /\ toMain' = Append(toMain, m)
          \/ \E r \in Live, c \in MainCalls :
               /\ Live = {r} /\ toMain' = Append(Append(toMain, c), m)
               /\ c.kind = "chat" /\ c.reply = r /\ c.text = reply[r].text
 <2>1. CASE Live = {}
  <3>1. {SaveChat(r, Stopped(r).text, FALSE) : r \in Live} = {} BY <2>1
  <3>2. StartCalls(to) = <<>> \o <<m>> BY <3>1, <1>14, OneAsSeq DEF StartCalls
  <3>3. toMain' = Append(toMain, m)
   <4>1. toMain \in Seq(MainCalls) /\ m \in MainCalls BY <1>15 DEF Typed
   <4>2. <<>> \o <<m>> = <<m>> /\ toMain \o <<m>> = Append(toMain, m) BY ONLY <4>1
   <4> QED BY <1>13, <3>2, <4>2
  <3> QED BY <2>1, <3>3, <1>15, SentLast DEF Typed
 <2>2. CASE Live # {}
  <3>1. PICK r \in Live : Live = {r} BY <2>2
  <3>2. PICK c : c = SaveChat(r, Stopped(r).text, FALSE) OBVIOUS
  <3>3. r \in Replies /\ reply[r] = Stopped(r) BY <3>1, <1>3 DEF Live
  <3>4. c \in MainCalls /\ c.kind = "chat" /\ c.reply = r /\ c.text = reply[r].text
   BY <3>2, <3>3, <1>2 DEF SaveChat, MainCalls, ReplyTexts
  <3>5. {SaveChat(s, Stopped(s).text, FALSE) : s \in Live} = {c} BY <3>1, <3>2
  <3>6. StartCalls(to) = <<c>> \o <<m>> BY <3>5, <1>14, OneAsSeq DEF StartCalls
  <3>7. /\ toMain' = Append(Append(toMain, c), m) /\ Append(Append(toMain, c), m) \in Seq(MainCalls)
   <4>1. toMain \in Seq(MainCalls) /\ m \in MainCalls /\ c \in MainCalls
    BY <1>15, <3>4 DEF Typed
   <4>2. /\ toMain \o (<<c>> \o <<m>>) = Append(Append(toMain, c), m)
         /\ Append(Append(toMain, c), m) \in Seq(MainCalls)
    BY ONLY <4>1
   <4> QED BY <1>13, <3>6, <4>2
  <3> QED BY <3>1, <3>4, <3>7
 <2> QED BY <2>1, <2>2
<1>17. hub' = hub /\ toWindow' = toWindow BY DEF StartSwitch
<1> QED BY ZenonT(60), <1>3, <1>4, <1>5, <1>6, <1>8, <1>9, <1>12, <1>15, <1>16, <1>17 DEF Typed

LEMMA HearSwitchDoes ==
  ASSUME Typed, NEW m \in WindowAnswers, m.kind = "switched", HearSwitch(m)
  PROVE  /\ view' \in Views /\ toMain' = toMain
         /\ view'.timers = view.timers + 1 /\ view'.switching = view.switching
         /\ view'.unlocking = view.unlocking
         /\ ~m.ok => SameList(view') /\ SameChats(view')
         /\ m.ok =>
              /\ view'.shown = m.to
              /\ view.shown = m.to => SameChats(view')
              /\ view.shown # m.to =>
                   /\ view'.left /\ view'.listed = {} /\ view'.epoch > view.epoch
                   /\ \A r \in Replies : \/ r \notin Live /\ view'.reply[r] = view.reply[r]
                                         \/ r \in Live /\ view'.reply[r].state = "over"
              /\ m.locked => /\ view'.vault /\ view'.listOf = view.listOf /\ view'.list = view.list
                             /\ view'.rev = view.rev
                             /\ view.shown = m.to => (view'.left <=> view.left \/ ~view.vault)
              /\ ~m.locked => /\ ~view'.vault /\ view'.listOf = m.to /\ view'.list = m.list
                              /\ view'.rev = view.rev + 1
                              /\ view.shown = m.to => view'.left = view.left
<1>1. /\ m.ok \in BOOLEAN /\ m.locked \in BOOLEAN /\ m.to \in Spaces /\ m.list \subseteq OwnServers
      /\ view \in Views
 BY DEF WindowAnswers, Typed
<1>2. PICK timers \in Nat : timers = view.timers + 1 BY <1>1 DEF Views
<1>3. PICK rev \in Nat : rev = view.rev + 1 BY <1>1 DEF Views
<1>4. toMain' = toMain BY DEF HearSwitch
<1>5. CASE ~m.ok
 <2>1. view' = [view EXCEPT !.timers = timers] BY <1>2, <1>5 DEF HearSwitch
 <2>2. /\ view' \in Views /\ view'.timers = timers /\ view'.switching = view.switching
       /\ view'.unlocking = view.unlocking /\ SameList(view') /\ SameChats(view')
  BY <1>1, <2>1 DEF Views, SameList, SameChats
 <2> QED BY <1>2, <1>4, <1>5, <2>2
<1>6. CASE m.ok
 <2>1. PICK v : v = Entered(view, m.to) OBVIOUS
 <2>2. /\ v \in Views /\ v.shown = m.to /\ v.timers = view.timers /\ v.switching = view.switching
       /\ v.unlocking = view.unlocking /\ v.vault = view.vault
       /\ v.listOf = view.listOf /\ v.list = view.list /\ v.rev = view.rev
       /\ view.shown = m.to => SameChats(v) /\ v.left = view.left
       /\ view.shown # m.to =>
            /\ v.left /\ v.listed = {} /\ v.epoch > view.epoch
            /\ \A r \in Replies : \/ r \notin Live /\ v.reply[r] = view.reply[r]
                                  \/ r \in Live /\ v.reply[r].state = "over"
  <3>1. CASE view.shown = m.to
   <4>1. v = view BY <2>1, <3>1 DEF Entered
   <4> QED BY <1>1, <3>1, <4>1 DEF SameChats
  <3>2. CASE view.shown # m.to
   <4>1. PICK reply : reply = [r \in Replies |-> IF view.reply[r].state = "live"
                                                 THEN [view.reply[r] EXCEPT !.state = "over"] ELSE view.reply[r]]
    OBVIOUS
   <4>2. \A r \in Replies : /\ [view.reply[r] EXCEPT !.state = "over"] \in ReplyTexts
                            /\ [view.reply[r] EXCEPT !.state = "over"].state = "over"
    BY <1>1 DEF Views, ReplyTexts
   <4>3. /\ reply \in [Replies -> ReplyTexts]
         /\ \A r \in Replies : \/ r \notin Live /\ reply[r] = view.reply[r]
                               \/ r \in Live /\ reply[r].state = "over"
    BY <1>1, <4>1, <4>2 DEF Views, Live
   <4>4. PICK epoch \in Nat : epoch = view.epoch + 1 /\ epoch > view.epoch BY <1>1 DEF Views
   <4>5. v = [view EXCEPT !.shown = m.to, !.epoch = epoch, !.left = TRUE, !.listed = {}, !.reply = reply]
    BY <2>1, <3>2, <4>1, <4>4 DEF Entered
   <4>6. /\ v \in Views /\ v.shown = m.to /\ v.timers = view.timers /\ v.switching = view.switching
         /\ v.unlocking = view.unlocking /\ v.vault = view.vault
         /\ v.listOf = view.listOf /\ v.list = view.list /\ v.rev = view.rev
         /\ v.left /\ v.listed = {} /\ v.epoch = epoch /\ v.reply = reply
    BY <1>1, <4>3, <4>5 DEF Views
   <4> QED BY <3>2, <4>3, <4>4, <4>6
  <3> QED BY <3>1, <3>2
 <2>3. CASE m.locked
  <3>1. PICK left \in BOOLEAN : left = (v.left \/ ~v.vault) OBVIOUS
  <3>2. view' = [v EXCEPT !.timers = timers, !.vault = TRUE, !.left = left]
   BY <1>2, <1>6, <2>1, <2>2, <2>3, <3>1 DEF HearSwitch
  <3>3. /\ view' \in Views /\ view'.shown = m.to /\ view'.timers = timers /\ view'.switching = view.switching
        /\ view'.unlocking = view.unlocking /\ view'.vault /\ view'.left = left
        /\ view'.listOf = view.listOf /\ view'.list = view.list /\ view'.rev = view.rev
        /\ view'.listed = v.listed /\ view'.epoch = v.epoch /\ view'.reply = v.reply
   BY <2>2, <3>2 DEF Views
  <3> QED BY <1>2, <1>4, <1>6, <2>2, <2>3, <3>1, <3>3 DEF SameChats
 <2>4. CASE ~m.locked
  <3>1. view' = [v EXCEPT !.timers = timers, !.vault = FALSE, !.list = m.list, !.listOf = m.to, !.rev = rev]
   BY <1>2, <1>3, <1>6, <2>1, <2>2, <2>4 DEF HearSwitch
  <3>2. /\ view' \in Views /\ view'.shown = m.to /\ view'.timers = timers /\ view'.switching = view.switching
        /\ view'.unlocking = view.unlocking /\ ~view'.vault /\ view'.left = v.left
        /\ view'.listOf = m.to /\ view'.list = m.list /\ view'.rev = rev
        /\ view'.listed = v.listed /\ view'.epoch = v.epoch /\ view'.reply = v.reply
   BY <1>1, <2>2, <3>1 DEF Views
  <3> QED BY <1>2, <1>3, <1>4, <1>6, <2>2, <2>4, <3>2 DEF SameChats
 <2> QED BY <2>3, <2>4
<1> QED BY <1>5, <1>6

LEMMA HearChatsDoes ==
  ASSUME Typed, NEW m \in WindowAnswers, m.kind = "listed", HearChats(m)
  PROVE  /\ view' \in Views /\ toMain' \in Seq(MainCalls)
         /\ SameList(view') /\ SameVeil(view') /\ view'.unlocking = view.unlocking
         /\ view'.epoch = view.epoch /\ view'.reply = view.reply
         /\ \/ /\ view' = view
               /\ \E c \in MainCalls : /\ toMain' = Append(toMain, c) /\ c.kind = "list"
                                       /\ c.got = m.got /\ c.epoch = m.epoch
            \/ /\ toMain' = toMain
               /\ \/ view' = view
                  \/ m.epoch = view.epoch /\ view'.listed = view.listed \union m.got
<1>1. m.got \subseteq Replies /\ m.epoch \in Nat /\ view \in Views BY DEF WindowAnswers, Typed
<1>2. CASE m.page = 1
 <2>1. PICK c : c = ListCall(m.epoch, m.got, 2) OBVIOUS
 <2>2. c \in MainCalls /\ c.kind = "list" /\ c.got = m.got /\ c.epoch = m.epoch
  BY <1>1, <2>1 DEF ListCall, MainCalls
 <2>3. view' = view /\ toMain' = Append(toMain, c) BY <1>2, <2>1 DEF HearChats
 <2>4. toMain' \in Seq(MainCalls) BY <2>2, <2>3, SentLast DEF Typed
 <2> QED BY <1>1, <2>2, <2>3, <2>4 DEF SameList, SameVeil
<1>3. CASE m.page # 1 /\ m.epoch = view.epoch
 <2>1. view' = [view EXCEPT !.listed = @ \union m.got] /\ toMain' = toMain
  BY <1>3 DEF HearChats, SameEpoch
 <2>2. view' \in Views BY <1>1, <2>1 DEF Views
 <2> QED BY <1>1, <1>3, <2>1, <2>2 DEF SameList, SameVeil, Typed, Views
<1>4. CASE m.page # 1 /\ m.epoch # view.epoch
 <2>1. view' = view /\ toMain' = toMain BY <1>4 DEF HearChats, SameEpoch
 <2> QED BY <1>1, <2>1 DEF SameList, SameVeil, Typed
<1> QED BY <1>2, <1>3, <1>4

LEMMA HearUnlockedDoes ==
  ASSUME Typed, NEW m \in WindowAnswers, m.kind = "unlocked", HearUnlocked(m)
  PROVE  /\ view' \in Views /\ toMain' = toMain
         /\ SameChats(view') /\ SameVeil(view') /\ ~view'.unlocking
         /\ view'.shown = view.shown /\ view'.left = view.left
         /\ \/ SameList(view')
            \/ /\ ~view.left /\ ~view'.vault
               /\ \/ m.ok /\ m.rev # view.rev
                  \/ ~m.ok /\ m.rev # view.rev /\ view.listOf = view.shown
               /\ view'.listOf = view.listOf /\ view'.list = view.list /\ view'.rev = view.rev
            \/ /\ ~view.left /\ ~view'.vault /\ m.ok
               /\ view'.listOf = view.shown /\ view'.list = m.list /\ view'.rev = view.rev + 1
<1>1. m.ok \in BOOLEAN /\ m.rev \in Nat /\ m.list \subseteq OwnServers /\ view \in Views
 BY DEF WindowAnswers, Typed
<1>2. toMain' = toMain BY DEF HearUnlocked
<1>3. PICK v : v = [view EXCEPT !.unlocking = FALSE] OBVIOUS
<1>4. v \in Views /\ SameChats(v) /\ SameVeil(v) /\ SameList(v) /\ ~v.unlocking
 BY <1>1, <1>3 DEF Views, SameChats, SameVeil, SameList
<1>5. CASE view.left \/ (~m.ok /\ (m.rev = view.rev \/ view.listOf # view.shown))
 <2>1. view' = v BY <1>3, <1>5 DEF HearUnlocked
 <2> QED BY <1>2, <1>4, <2>1 DEF SameList
<1>6. CASE ~view.left /\ ~(~m.ok /\ (m.rev = view.rev \/ view.listOf # view.shown)) /\ (~m.ok \/ m.rev # view.rev)
 <2>1. view' = [v EXCEPT !.vault = FALSE] BY <1>3, <1>6 DEF HearUnlocked
 <2>2. /\ view' \in Views /\ SameChats(view') /\ SameVeil(view') /\ ~view'.unlocking /\ ~view'.vault
       /\ view'.shown = view.shown /\ view'.left = view.left
       /\ view'.listOf = view.listOf /\ view'.list = view.list /\ view'.rev = view.rev
  BY <1>4, <2>1 DEF Views, SameChats, SameVeil, SameList
 <2> QED BY <1>2, <1>6, <2>2
<1>7. CASE ~view.left /\ m.ok /\ m.rev = view.rev
 <2>1. PICK rev \in Nat : rev = view.rev + 1 BY <1>1 DEF Views
 <2>2. view' = [v EXCEPT !.vault = FALSE, !.list = m.list, !.listOf = view.shown, !.rev = rev]
  BY <1>3, <1>7, <2>1 DEF HearUnlocked
 <2>3. /\ view' \in Views /\ SameChats(view') /\ SameVeil(view') /\ ~view'.unlocking /\ ~view'.vault
       /\ view'.shown = view.shown /\ view'.left = view.left
       /\ view'.listOf = view.shown /\ view'.list = m.list /\ view'.rev = rev
  BY <1>1, <1>4, <2>2 DEF Views, SameChats, SameVeil, SameList
 <2> QED BY <1>2, <1>7, <2>1, <2>3
<1> QED BY <1>1, <1>5, <1>6, <1>7

(* The fields of the main process an operation leaves alone. *)
SameTasks(h) == h.active = hub.active /\ h.chat = hub.chat /\ h.tasks = hub.tasks
SameData(h) == h.closed = hub.closed /\ h.saving = hub.saving /\ h.opening = hub.opening /\ h.lists = hub.lists

LEMMA BeginDoes ==
  ASSUME Typed, NEW m \in MainCalls, m.kind = "switch", Begin(m)
  PROVE  /\ hub' \in Hubs /\ toWindow' = toWindow
         /\ SameData(hub') /\ hub'.chats = hub.chats /\ hub'.active = hub.active
         /\ \E t \in Tasks : /\ hub'.tasks = hub.tasks \union {t} /\ t.to = m.to /\ t.from = hub.active
                             /\ \/ t.at = "folder" /\ hub'.chat = hub.chat
                                \/ t.at = "moved" /\ hub'.chat = t.to
<1>1. m.to \in Spaces /\ m.id \in Nat /\ hub \in Hubs BY DEF MainCalls, Typed
<1>2. PICK at \in {"folder", "moved"} :
       hub' = [hub EXCEPT !.tasks = @ \union {[id |-> m.id, to |-> m.to, from |-> hub.active, at |-> at,
                                               locked |-> FALSE, list |-> {}]},
                          !.chat = IF at = "moved" THEN m.to ELSE @]
 BY DEF Begin
<1>3. PICK t : t = [id |-> m.id, to |-> m.to, from |-> hub.active, at |-> at, locked |-> FALSE, list |-> {}]
 OBVIOUS
<1>4. t \in Tasks /\ t.to = m.to /\ t.from = hub.active /\ t.at = at
 BY <1>1, <1>3 DEF Tasks, Hubs
<1>5. PICK chat \in Spaces : chat = IF at = "moved" THEN m.to ELSE hub.chat BY <1>1 DEF Hubs
<1>6. hub' = [hub EXCEPT !.tasks = hub.tasks \union {t}, !.chat = chat] BY <1>2, <1>3, <1>5
<1>7. /\ hub' \in Hubs /\ SameData(hub') /\ hub'.chats = hub.chats /\ hub'.active = hub.active
      /\ hub'.tasks = hub.tasks \union {t} /\ hub'.chat = chat
 BY <1>1, <1>4, <1>6 DEF Hubs, SameData
<1>8. toWindow' = toWindow BY DEF Begin
<1> QED BY <1>4, <1>5, <1>7, <1>8

LEMMA BeginSaveDoes ==
  ASSUME Typed, NEW m \in MainCalls, m.kind = "save", BeginSave(m)
  PROVE  /\ hub' \in Hubs /\ toWindow' = toWindow
         /\ SameTasks(hub') /\ hub'.chats = hub.chats /\ hub'.closed = hub.closed
         /\ hub'.opening = hub.opening /\ hub'.lists = hub.lists
         /\ \A s \in hub'.saving : s \in hub.saving \/ (s.space = m.space /\ s.list = m.list)
<1>1. m.space \in Spaces /\ m.list \subseteq OwnServers /\ hub \in Hubs BY DEF MainCalls, Typed
<1>2. toWindow' = toWindow BY DEF BeginSave
<1>3. CASE SaveTaken(m)
 <2>1. PICK s : s = [space |-> hub.active, list |-> m.list] OBVIOUS
 <2>2. s \in [space : Spaces, list : SUBSET OwnServers] /\ s.space = m.space /\ s.list = m.list
  BY <1>1, <1>3, <2>1 DEF Hubs, SaveTaken
 <2>3. hub' = [hub EXCEPT !.saving = @ \union {s}] BY <1>3, <2>1 DEF BeginSave
 <2>4. /\ hub' \in Hubs /\ SameTasks(hub') /\ hub'.chats = hub.chats /\ hub'.closed = hub.closed
       /\ hub'.opening = hub.opening /\ hub'.lists = hub.lists /\ hub'.saving = hub.saving \union {s}
  BY <1>1, <2>2, <2>3 DEF Hubs, SameTasks
 <2> QED BY <1>2, <2>2, <2>4
<1>4. CASE ~SaveTaken(m)
 <2>1. hub' = hub BY <1>4 DEF BeginSave
 <2> QED BY <1>1, <1>2, <2>1 DEF SameTasks
<1> QED BY <1>3, <1>4

LEMMA WriteChatDoes ==
  ASSUME Typed, NEW m \in MainCalls, m.kind = "chat", WriteChat(m)
  PROVE  /\ hub' \in Hubs /\ toWindow' = toWindow
         /\ SameTasks(hub') /\ SameData(hub')
         /\ m.reply \in Replies /\ m.new \in BOOLEAN /\ m.text \in Nat
         /\ \A w \in Spaces, r \in Replies : (w # hub.chat \/ r # m.reply) => hub'.chats[w][r] = hub.chats[w][r]
         /\ \/ hub'.chats[hub.chat][m.reply] = <<m.text>>
            \/ /\ hub' = hub
               /\ hub.chat \in hub.closed \/ (~m.new /\ hub.chats[hub.chat][m.reply] = NotSaved)
<1>1. m.reply \in Replies /\ m.text \in Nat /\ m.new \in BOOLEAN /\ hub \in Hubs
 BY DEF MainCalls, Typed
<1>2. toWindow' = toWindow BY DEF WriteChat
<1>3. CASE hub.chat \in hub.closed \/ (~m.new /\ hub.chats[hub.chat][m.reply] = NotSaved)
 <2>1. hub' = hub BY <1>3 DEF WriteChat
 <2> QED BY <1>1, <1>2, <1>3, <2>1 DEF SameTasks, SameData
<1>4. CASE ~(hub.chat \in hub.closed \/ (~m.new /\ hub.chats[hub.chat][m.reply] = NotSaved))
 <2>1. PICK a : a = [hub.chats[hub.chat] EXCEPT ![m.reply] = <<m.text>>] OBVIOUS
 <2>2. <<m.text>> \in Seq(Nat) BY <1>1
 <2>3. /\ a \in [Replies -> Seq(Nat)] /\ a[m.reply] = <<m.text>>
       /\ \A r \in Replies \ {m.reply} : a[r] = hub.chats[hub.chat][r]
  BY <1>1, <2>1, <2>2 DEF Hubs
 <2>4. PICK b : b = [hub.chats EXCEPT ![hub.chat] = a] OBVIOUS
 <2>5. b \in [Spaces -> [Replies -> Seq(Nat)]] /\ b[hub.chat] = a /\ \A w \in Spaces \ {hub.chat} : b[w] = hub.chats[w]
  BY <1>1, <2>3, <2>4 DEF Hubs
 <2>6. hub' = [hub EXCEPT !.chats = b] BY <1>4, <2>1, <2>4 DEF WriteChat
 <2>7. hub' \in Hubs /\ SameTasks(hub') /\ SameData(hub') /\ hub'.chats = b
  BY <1>1, <2>5, <2>6 DEF Hubs, SameTasks, SameData
 <2> QED BY <1>1, <1>2, <2>3, <2>5, <2>7
<1> QED BY <1>3, <1>4

LEMMA ReadChatsDoes ==
  ASSUME Typed, NEW m \in MainCalls, m.kind = "list", ReadChats(m)
  PROVE  /\ hub' = hub /\ toWindow' \in Seq(WindowAnswers)
         /\ \E a \in WindowAnswers :
              /\ toWindow' = Append(toWindow, a) /\ a.kind = "listed" /\ a.epoch = m.epoch
              /\ \A r \in a.got : r \in m.got \/ hub.chats[hub.chat][r] # NotSaved
<1>1. /\ m.got \subseteq Replies /\ m.epoch \in Nat /\ m.page \in {1, 2}
      /\ m \in [kind : {"list"}, epoch : Nat, got : SUBSET Replies, page : {1, 2}]
 BY DEF MainCalls
<1>2. PICK page \in SUBSET {r \in Replies : hub.chats[hub.chat][r] # NotSaved} :
        toWindow' = Append(toWindow, [m EXCEPT !.kind = "listed", !.got = @ \union page])
 BY DEF ReadChats
<1>3. PICK got : got = m.got \union page OBVIOUS
<1>4. PICK a : a = [m EXCEPT !.kind = "listed", !.got = got] OBVIOUS
<1>5. /\ a \in [kind : {"listed"}, epoch : Nat, got : SUBSET Replies, page : {1, 2}]
      /\ a.epoch = m.epoch /\ a.got = got /\ a.kind = "listed"
 BY <1>1, <1>2, <1>3, <1>4
<1>6. a \in WindowAnswers BY <1>5 DEF WindowAnswers
<1>7. toWindow' = Append(toWindow, a) BY <1>2, <1>3, <1>4
<1>8. toWindow' \in Seq(WindowAnswers) BY <1>6, <1>7, SentLast DEF Typed
<1>9. hub' = hub BY DEF ReadChats
<1> QED BY <1>2, <1>3, <1>5, <1>6, <1>7, <1>8, <1>9

LEMMA OpenWithPasswordDoes ==
  ASSUME Typed, NEW m \in MainCalls, m.kind = "unlock", OpenWithPassword(m)
  PROVE  /\ hub' \in Hubs /\ toWindow' = toWindow
         /\ SameTasks(hub') /\ hub'.chats = hub.chats /\ hub'.closed = hub.closed
         /\ hub'.saving = hub.saving /\ hub'.lists = hub.lists
         /\ \E o : hub'.opening = hub.opening \union {o} /\ o.space = hub.active /\ o.rev = m.rev
<1>1. m.rev \in Nat /\ hub \in Hubs BY DEF MainCalls, Typed
<1>2. PICK o : o = [space |-> hub.active, rev |-> m.rev, open |-> FALSE] OBVIOUS
<1>3. o \in [space : Spaces, rev : Nat, open : BOOLEAN] /\ o.space = hub.active /\ o.rev = m.rev
 BY <1>1, <1>2 DEF Hubs
<1>4. hub' = [hub EXCEPT !.opening = @ \union {o}] BY <1>2 DEF OpenWithPassword
<1>5. /\ hub' \in Hubs /\ SameTasks(hub') /\ hub'.chats = hub.chats /\ hub'.closed = hub.closed
      /\ hub'.saving = hub.saving /\ hub'.lists = hub.lists /\ hub'.opening = hub.opening \union {o}
 BY <1>1, <1>3, <1>4 DEF Hubs, SameTasks
<1>6. toWindow' = toWindow BY DEF OpenWithPassword
<1> QED BY <1>3, <1>5, <1>6

LEMMA WriteListDoes ==
  ASSUME Typed, WriteList
  PROVE  /\ Typed' /\ view' = view /\ toMain' = toMain /\ toWindow' = toWindow /\ past' = past
         /\ SameTasks(hub') /\ hub'.chats = hub.chats /\ hub'.closed = hub.closed
         /\ hub'.opening = hub.opening /\ hub'.saving \subseteq hub.saving
         /\ \A w \in Spaces : \/ hub'.lists[w] = hub.lists[w]
                              \/ \E s \in hub.saving : w = s.space /\ hub'.lists[w] = s.list
<1>1. PICK s \in hub.saving :
       hub' = [hub EXCEPT !.saving = @ \ {s}, !.lists[s.space] = IF s.space \in hub.closed THEN @ ELSE s.list]
 BY DEF WriteList
<1>2. s.space \in Spaces /\ s.list \in SUBSET OwnServers /\ hub \in Hubs BY DEF Typed, Hubs
<1>3. PICK list : list = IF s.space \in hub.closed THEN hub.lists[s.space] ELSE s.list OBVIOUS
<1>4. list \in SUBSET OwnServers /\ (list = hub.lists[s.space] \/ list = s.list)
 BY <1>2, <1>3 DEF Hubs
<1>5. PICK lists : lists = [hub.lists EXCEPT ![s.space] = list] OBVIOUS
<1>6. /\ lists \in [Spaces -> SUBSET OwnServers] /\ lists[s.space] = list
      /\ \A w \in Spaces \ {s.space} : lists[w] = hub.lists[w]
 BY <1>2, <1>4, <1>5 DEF Hubs
<1>7. hub' = [hub EXCEPT !.saving = @ \ {s}, !.lists = lists] BY <1>1, <1>3, <1>5
<1>8. /\ hub' \in Hubs /\ SameTasks(hub') /\ hub'.chats = hub.chats /\ hub'.closed = hub.closed
      /\ hub'.opening = hub.opening /\ hub'.saving = hub.saving \ {s} /\ hub'.lists = lists
 BY <1>2, <1>6, <1>7 DEF Hubs, SameTasks
<1>9. view' = view /\ toMain' = toMain /\ toWindow' = toWindow /\ past' = past BY DEF WriteList
<1> QED BY <1>4, <1>6, <1>8, <1>9 DEF Typed

LEMMA OpeningDoes ==
  ASSUME Typed, Opening
  PROVE  /\ Typed' /\ view' = view /\ toMain' = toMain /\ past' = past
         /\ SameTasks(hub') /\ hub'.chats = hub.chats /\ hub'.saving = hub.saving
         /\ hub'.lists = hub.lists /\ hub'.closed \subseteq hub.closed
         /\ \E o \in hub.opening :
              \/ /\ toWindow' = toWindow
                 /\ \E p : hub'.opening = (hub.opening \ {o}) \union {p} /\ p.space = o.space /\ p.rev = o.rev
              \/ /\ hub'.opening = hub.opening \ {o} /\ hub'.closed = hub.closed
                 /\ \E a \in WindowAnswers :
                      /\ toWindow' = Append(toWindow, a) /\ a.kind = "unlocked" /\ a.rev = o.rev
                      /\ a.ok => o.space \notin hub.closed
                      /\ o.space \in Spaces /\ a.list = hub.lists[o.space]
<1>1. PICK o \in hub.opening :
       IF ~o.open
       THEN /\ hub' = [hub EXCEPT !.opening = (@ \ {o}) \union {[o EXCEPT !.open = TRUE]}, !.closed = @ \ {o.space}]
            /\ UNCHANGED toWindow
       ELSE /\ hub' = [hub EXCEPT !.opening = @ \ {o}]
            /\ toWindow' = Append(toWindow, [kind |-> "unlocked", ok |-> o.space \notin hub.closed,
                                            rev |-> o.rev, list |-> hub.lists[o.space]])
 BY DEF Opening
<1>2. o \in [space : Spaces, rev : Nat, open : BOOLEAN] /\ hub \in Hubs BY DEF Typed, Hubs
<1>3. view' = view /\ toMain' = toMain /\ past' = past BY DEF Opening
<1>4. CASE ~o.open
 <2>1. PICK p : p = [o EXCEPT !.open = TRUE] OBVIOUS
 <2>2. p \in [space : Spaces, rev : Nat, open : BOOLEAN] /\ p.space = o.space /\ p.rev = o.rev
  BY <1>2, <2>1
 <2>3. hub' = [hub EXCEPT !.opening = (@ \ {o}) \union {p}, !.closed = @ \ {o.space}] /\ toWindow' = toWindow
  BY <1>1, <1>4, <2>1
 <2>4. /\ hub' \in Hubs /\ SameTasks(hub') /\ hub'.chats = hub.chats /\ hub'.saving = hub.saving
       /\ hub'.lists = hub.lists /\ hub'.closed \subseteq hub.closed
       /\ hub'.opening = (hub.opening \ {o}) \union {p}
  BY <1>2, <2>2, <2>3 DEF Hubs, SameTasks
 <2> QED BY <1>3, <2>2, <2>3, <2>4 DEF Typed
<1>5. CASE o.open
 <2>1. PICK ok \in BOOLEAN : ok = (o.space \notin hub.closed) OBVIOUS
 <2>2. PICK a : a = [kind |-> "unlocked", ok |-> ok, rev |-> o.rev, list |-> hub.lists[o.space]]
  OBVIOUS
 <2>3. /\ a \in WindowAnswers /\ a.kind = "unlocked" /\ a.rev = o.rev /\ a.ok = ok
       /\ o.space \in Spaces /\ a.list = hub.lists[o.space]
  <3>1. /\ a \in [kind : {"unlocked"}, ok : BOOLEAN, rev : Nat, list : SUBSET OwnServers]
        /\ a.kind = "unlocked" /\ a.rev = o.rev /\ a.ok = ok
        /\ o.space \in Spaces /\ a.list = hub.lists[o.space]
   BY <1>2, <2>1, <2>2 DEF Hubs
  <3> QED BY <3>1 DEF WindowAnswers
 <2>4. hub' = [hub EXCEPT !.opening = @ \ {o}] /\ toWindow' = Append(toWindow, a)
  BY <1>1, <1>5, <2>1, <2>2
 <2>5. /\ hub' \in Hubs /\ SameTasks(hub') /\ hub'.chats = hub.chats /\ hub'.saving = hub.saving
       /\ hub'.lists = hub.lists /\ hub'.closed = hub.closed /\ hub'.opening = hub.opening \ {o}
  BY <1>2, <2>4 DEF Hubs, SameTasks
 <2>6. toWindow' \in Seq(WindowAnswers) BY <2>3, <2>4, SentLast DEF Typed
 <2> QED BY <1>3, <2>1, <2>3, <2>4, <2>5, <2>6 DEF Typed
<1> QED BY <1>4, <1>5

LEMMA MakeFolderDoes ==
  ASSUME Typed, NEW t \in hub.tasks, MakeFolder(t)
  PROVE  /\ hub' \in Hubs /\ toWindow' = toWindow /\ past' = past
         /\ SameData(hub') /\ hub'.chats = hub.chats /\ hub'.active = hub.active
         /\ t.at = "folder" /\ hub'.chat = t.to
         /\ \E u \in Tasks : /\ hub'.tasks = (hub.tasks \ {t}) \union {u}
                             /\ u.to = t.to /\ u.from = t.from /\ u.at = "moved"
<1>1. t \in Tasks /\ hub \in Hubs BY DEF Typed, Hubs
<1>2. PICK u : u = [t EXCEPT !.at = "moved"] OBVIOUS
<1>3. u \in Tasks /\ u.to = t.to /\ u.from = t.from /\ u.at = "moved" /\ t.to \in Spaces
 BY <1>1, <1>2 DEF Tasks
<1>4. hub' = [hub EXCEPT !.tasks = (@ \ {t}) \union {u}, !.chat = t.to] BY <1>2 DEF MakeFolder
<1>5. /\ hub' \in Hubs /\ SameData(hub') /\ hub'.chats = hub.chats /\ hub'.active = hub.active
      /\ hub'.chat = t.to /\ hub'.tasks = (hub.tasks \ {t}) \union {u}
 BY <1>1, <1>3, <1>4 DEF Hubs, SameData
<1>6. toWindow' = toWindow /\ past' = past /\ t.at = "folder" BY DEF MakeFolder
<1> QED BY <1>3, <1>5, <1>6

LEMMA LeaveDoes ==
  ASSUME Typed, NEW t \in hub.tasks, Leave(t)
  PROVE  /\ hub' \in Hubs /\ toWindow' = toWindow /\ past' = past
         /\ hub'.saving = hub.saving /\ hub'.opening = hub.opening /\ hub'.lists = hub.lists
         /\ hub'.chats = hub.chats /\ hub'.active = hub.active /\ hub'.chat = hub.chat
         /\ t.at = "moved" /\ hub'.closed \subseteq hub.closed \union {t.from}
         /\ \E u \in Tasks : /\ hub'.tasks = (hub.tasks \ {t}) \union {u}
                             /\ u.to = t.to /\ u.from = t.from /\ u.at = "left"
<1>1. t \in Tasks /\ hub \in Hubs BY DEF Typed, Hubs
<1>2. PICK u : u = [t EXCEPT !.at = "left"] OBVIOUS
<1>3. u \in Tasks /\ u.to = t.to /\ u.from = t.from /\ u.at = "left" /\ t.to \in Spaces
 BY <1>1, <1>2 DEF Tasks
<1>4. PICK closed : closed = IF t.from = t.to THEN hub.closed ELSE hub.closed \union ({t.from} \cap Guarded)
 OBVIOUS
<1>5. closed \subseteq Guarded /\ closed \subseteq hub.closed \union {t.from}
 BY <1>1, <1>4 DEF Hubs
<1>6. hub' = [hub EXCEPT !.tasks = (@ \ {t}) \union {u}, !.closed = closed]
 BY <1>2, <1>4 DEF Leave
<1>7. /\ hub' \in Hubs /\ hub'.saving = hub.saving /\ hub'.opening = hub.opening /\ hub'.lists = hub.lists
      /\ hub'.chats = hub.chats /\ hub'.active = hub.active /\ hub'.chat = hub.chat
      /\ hub'.tasks = (hub.tasks \ {t}) \union {u} /\ hub'.closed = closed
 BY <1>1, <1>3, <1>5, <1>6 DEF Hubs
<1>8. toWindow' = toWindow /\ past' = past /\ t.at = "moved" BY DEF Leave
<1> QED BY <1>3, <1>5, <1>7, <1>8

LEMMA LoadDoes ==
  ASSUME Typed, NEW t \in hub.tasks, Load(t)
  PROVE  /\ hub' \in Hubs /\ toWindow' = toWindow /\ past' = past
         /\ SameData(hub') /\ hub'.chats = hub.chats /\ hub'.active = hub.active /\ hub'.chat = hub.chat
         /\ t.at = "left"
         /\ \E u \in Tasks : /\ hub'.tasks = (hub.tasks \ {t}) \union {u}
                             /\ u.to = t.to /\ u.from = t.from /\ u.at = "loaded"
                             /\ t.to \in hub.closed => u.locked
                             /\ ~u.locked => u.list = hub.lists[t.to]
<1>1. t \in Tasks /\ hub \in Hubs BY DEF Typed, Hubs
<1>2. PICK locked \in BOOLEAN : locked = (t.to \in hub.closed)
 <2>1. (t.to \in hub.closed) \in BOOLEAN OBVIOUS
 <2> QED BY <2>1
<1>3. PICK list : list = IF t.to \in hub.closed THEN {} ELSE hub.lists[t.to] OBVIOUS
<1>4. list \in SUBSET OwnServers /\ (~locked => list = hub.lists[t.to])
 BY <1>1, <1>2, <1>3 DEF Hubs, Tasks
<1>5. PICK u : u = [t EXCEPT !.at = "loaded", !.locked = locked, !.list = list] OBVIOUS
<1>6. /\ u \in Tasks /\ u.to = t.to /\ u.from = t.from /\ u.at = "loaded" /\ u.locked = locked /\ u.list = list
 BY <1>1, <1>4, <1>5 DEF Tasks
<1>7. hub' = [hub EXCEPT !.tasks = (@ \ {t}) \union {u}] BY <1>2, <1>3, <1>5 DEF Load, Goes
<1>8. /\ hub' \in Hubs /\ SameData(hub') /\ hub'.chats = hub.chats /\ hub'.active = hub.active
      /\ hub'.chat = hub.chat /\ hub'.tasks = (hub.tasks \ {t}) \union {u}
 BY <1>1, <1>6, <1>7 DEF Hubs, SameData
<1>9. toWindow' = toWindow /\ past' = past /\ t.at = "left" BY DEF Load
<1> QED BY <1>2, <1>4, <1>6, <1>8, <1>9

LEMMA CommitDoes ==
  ASSUME Typed, NEW t \in hub.tasks, Commit(t)
  PROVE  /\ hub' \in Hubs /\ toWindow' \in Seq(WindowAnswers) /\ past' = past
         /\ SameData(hub') /\ hub'.chats = hub.chats /\ hub'.chat = hub.chat
         /\ t.at = "loaded" /\ hub'.active = t.to /\ hub'.tasks = hub.tasks \ {t}
         /\ \E a \in WindowAnswers :
              /\ toWindow' = Append(toWindow, a) /\ a.kind = "switched" /\ a.ok /\ a.to = t.to
              /\ a.locked = t.locked /\ a.list = t.list
<1>1. t \in Tasks /\ hub \in Hubs BY DEF Typed, Hubs
<1>2. PICK a : a = SwitchAnswer(t, TRUE) OBVIOUS
<1>3. /\ a \in [kind : {"switched"}, to : Spaces, ok : BOOLEAN, locked : BOOLEAN, list : SUBSET OwnServers]
      /\ a.kind = "switched" /\ a.ok /\ a.to = t.to /\ a.locked = t.locked /\ a.list = t.list
 BY <1>1, <1>2 DEF SwitchAnswer, Tasks
<1>4. a \in WindowAnswers BY <1>3 DEF WindowAnswers
<1>5. hub' = [hub EXCEPT !.tasks = @ \ {t}, !.active = t.to] BY DEF Commit
<1>6. /\ hub' \in Hubs /\ SameData(hub') /\ hub'.chats = hub.chats /\ hub'.chat = hub.chat
      /\ hub'.active = t.to /\ hub'.tasks = hub.tasks \ {t}
 BY <1>1, <1>5 DEF Hubs, Tasks, SameData
<1>7. toWindow' = Append(toWindow, a) /\ past' = past /\ t.at = "loaded" BY <1>2 DEF Commit
<1>8. toWindow' \in Seq(WindowAnswers) BY <1>4, <1>7, SentLast DEF Typed
<1> QED BY <1>3, <1>4, <1>6, <1>7, <1>8

LEMMA FailDoes ==
  ASSUME Typed, NEW t \in hub.tasks, Fail(t)
  PROVE  /\ hub' \in Hubs /\ toWindow' \in Seq(WindowAnswers) /\ past' \in Pasts
         /\ SameData(hub') /\ hub'.chats = hub.chats /\ hub'.chat = hub.chat /\ hub'.active = hub.active
         /\ hub'.tasks = hub.tasks \ {t}
         /\ past'.torn = (past.torn \/ t.at # "folder")
         /\ past'.removed = past.removed /\ past'.asked = past.asked /\ past'.sealed = past.sealed
         /\ \E a \in WindowAnswers : toWindow' = Append(toWindow, a) /\ a.kind = "switched" /\ ~a.ok
<1>1. t \in Tasks /\ hub \in Hubs /\ past \in Pasts BY DEF Typed, Hubs
<1>2. PICK a : a = SwitchAnswer(t, FALSE) OBVIOUS
<1>3. /\ a \in [kind : {"switched"}, to : Spaces, ok : BOOLEAN, locked : BOOLEAN, list : SUBSET OwnServers]
      /\ a.kind = "switched" /\ ~a.ok
 BY <1>1, <1>2 DEF SwitchAnswer, Tasks
<1>4. a \in WindowAnswers BY <1>3 DEF WindowAnswers
<1>5. hub' = [hub EXCEPT !.tasks = @ \ {t}] BY DEF Fail
<1>6. /\ hub' \in Hubs /\ SameData(hub') /\ hub'.chats = hub.chats /\ hub'.chat = hub.chat
      /\ hub'.active = hub.active /\ hub'.tasks = hub.tasks \ {t}
 BY <1>1, <1>5 DEF Hubs, SameData
<1>7. PICK torn \in BOOLEAN : torn = (past.torn \/ t.at # "folder") OBVIOUS
<1>8. past' = [past EXCEPT !.torn = torn] BY <1>7 DEF Fail
<1>9. /\ past' \in Pasts /\ past'.torn = torn
      /\ past'.removed = past.removed /\ past'.asked = past.asked /\ past'.sealed = past.sealed
 BY <1>1, <1>8 DEF Pasts
<1>10. toWindow' = Append(toWindow, a) BY <1>2 DEF Fail, FailHeard
<1>11. toWindow' \in Seq(WindowAnswers) BY <1>4, <1>10, SentLast DEF Typed
<1> QED BY <1>3, <1>4, <1>6, <1>7, <1>9, <1>10, <1>11

LEMMA HearMainDoes ==
  ASSUME Typed, HearMain
  PROVE  /\ hub' = hub /\ past' = past /\ toWindow # <<>> /\ toWindow' = Tail(toWindow)
         /\ Typed'
         /\ \E m \in WindowAnswers :
              /\ m = Head(toWindow)
              /\ \/ m.kind = "switched" /\ HearSwitch(m)
                 \/ m.kind = "listed" /\ HearChats(m)
                 \/ m.kind = "unlocked" /\ HearUnlocked(m)
<1>1. hub' = hub /\ past' = past /\ toWindow # <<>> /\ toWindow' = Tail(toWindow)
 BY DEF HearMain
<1>2. toWindow \in Seq(WindowAnswers) BY DEF Typed
<1>3. Head(toWindow) \in WindowAnswers /\ Tail(toWindow) \in Seq(WindowAnswers)
 BY <1>1, <1>2, Got
<1>4. PICK m \in WindowAnswers : m = Head(toWindow) BY <1>3
<1>5. m.kind \in {"switched", "listed", "unlocked"} BY DEF WindowAnswers
<1>6. \/ m.kind = "switched" /\ HearSwitch(m)
      \/ m.kind = "listed" /\ HearChats(m)
      \/ m.kind = "unlocked" /\ HearUnlocked(m)
 BY <1>4, <1>5 DEF HearMain
<1>7. view' \in Views /\ toMain' \in Seq(MainCalls)
 <2>1. CASE m.kind = "switched" /\ HearSwitch(m) BY <2>1, HearSwitchDoes DEF Typed
 <2>2. CASE m.kind = "listed" /\ HearChats(m) BY <2>2, HearChatsDoes
 <2>3. CASE m.kind = "unlocked" /\ HearUnlocked(m) BY <2>3, HearUnlockedDoes DEF Typed
 <2> QED BY <1>6, <2>1, <2>2, <2>3
<1> QED BY <1>1, <1>3, <1>4, <1>6, <1>7 DEF Typed

LEMMA HubAnswersDoes ==
  ASSUME Typed, HubAnswers
  PROVE  /\ view' = view /\ past' = past /\ toMain # <<>> /\ toMain' = Tail(toMain)
         /\ Typed'
         /\ \E m \in MainCalls :
              /\ m = Head(toMain)
              /\ \/ m.kind = "switch" /\ Begin(m)
                 \/ m.kind = "save" /\ BeginSave(m)
                 \/ m.kind = "chat" /\ WriteChat(m)
                 \/ m.kind = "list" /\ ReadChats(m)
                 \/ m.kind = "unlock" /\ OpenWithPassword(m)
<1>1. view' = view /\ past' = past /\ toMain # <<>> /\ toMain' = Tail(toMain) BY DEF HubAnswers
<1>2. toMain \in Seq(MainCalls) BY DEF Typed
<1>3. Head(toMain) \in MainCalls /\ Tail(toMain) \in Seq(MainCalls) BY <1>1, <1>2, Got
<1>4. PICK m \in MainCalls : m = Head(toMain) BY <1>3
<1>5. m.kind \in {"switch", "save", "chat", "list", "unlock"} BY DEF MainCalls
<1>6. \/ m.kind = "switch" /\ Begin(m)
      \/ m.kind = "save" /\ BeginSave(m)
      \/ m.kind = "chat" /\ WriteChat(m)
      \/ m.kind = "list" /\ ReadChats(m)
      \/ m.kind = "unlock" /\ OpenWithPassword(m)
 BY <1>4, <1>5 DEF HubAnswers
<1>7. hub' \in Hubs /\ toWindow' \in Seq(WindowAnswers)
 <2>1. CASE m.kind = "switch" /\ Begin(m) BY <2>1, BeginDoes DEF Typed
 <2>2. CASE m.kind = "save" /\ BeginSave(m) BY <2>2, BeginSaveDoes DEF Typed
 <2>3. CASE m.kind = "chat" /\ WriteChat(m) BY <2>3, WriteChatDoes DEF Typed
 <2>4. CASE m.kind = "list" /\ ReadChats(m) BY <2>4, ReadChatsDoes DEF Typed
 <2>5. CASE m.kind = "unlock" /\ OpenWithPassword(m) BY <2>5, OpenWithPasswordDoes DEF Typed
 <2> QED BY <1>6, <2>1, <2>2, <2>3, <2>4, <2>5
<1> QED BY <1>1, <1>3, <1>4, <1>6, <1>7 DEF Typed

--------------------------------------------------
(* Answers on their way, and the workspace the window will show *)

(* The answers that will take the window to a workspace. *)
Entries(a) == {i \in DOMAIN a : a[i].kind = "switched" /\ a[i].ok}

LEMMA EntriesSent ==
  ASSUME NEW a \in Seq(WindowAnswers), NEW m \in WindowAnswers
  PROVE  /\ Entries(a) \subseteq 1..Len(a) /\ Len(a) \in Nat
         /\ ~(m.kind = "switched" /\ m.ok) => Entries(Append(a, m)) = Entries(a)
         /\ m.kind = "switched" /\ m.ok => Entries(Append(a, m)) = Entries(a) \union {Len(a) + 1}
         /\ \A i \in 1..Len(a) : Append(a, m)[i] = a[i]
         /\ Append(a, m)[Len(a) + 1] = m
<1> DEFINE b == Append(a, m)
<1> HIDE DEF b
<1>1. /\ Len(a) \in Nat /\ DOMAIN a = 1..Len(a) /\ DOMAIN b = 1..Len(a) + 1
      /\ \A i \in 1..Len(a) : b[i] = a[i]
      /\ b[Len(a) + 1] = m
 BY SentLast DEF b
<1>2. DOMAIN b = DOMAIN a \union {Len(a) + 1} BY <1>1
<1>3. Entries(a) \subseteq 1..Len(a) BY <1>1 DEF Entries
<1>4. ~(m.kind = "switched" /\ m.ok) => Entries(b) = Entries(a) BY <1>1, <1>2 DEF Entries
<1>5. m.kind = "switched" /\ m.ok => Entries(b) = Entries(a) \union {Len(a) + 1}
 BY <1>1, <1>2 DEF Entries
<1> QED BY <1>1, <1>3, <1>4, <1>5 DEF b

LEMMA EntriesGot ==
  ASSUME NEW a \in Seq(WindowAnswers), a # <<>>
  PROVE  /\ \A i \in Entries(Tail(a)) : i \in Nat /\ i + 1 \in Entries(a) /\ Tail(a)[i] = a[i + 1]
         /\ \A i \in Entries(a) : /\ i \in Nat
                                  /\ i = 1 \/ (i - 1 \in Entries(Tail(a)) /\ Tail(a)[i - 1] = a[i])
         /\ 1 \in Entries(a) <=> Head(a).kind = "switched" /\ Head(a).ok
         /\ Head(a) = a[1]
<1>1. /\ Len(a) \in Nat /\ Len(a) > 0 /\ Head(a) = a[1]
      /\ DOMAIN a = 1..Len(a) /\ DOMAIN Tail(a) = 1..Len(a) - 1
      /\ \A i \in 1..Len(a) - 1 : Tail(a)[i] = a[i + 1]
 BY Got
<1>2. \A i \in Entries(Tail(a)) : i \in Nat /\ i + 1 \in Entries(a) /\ Tail(a)[i] = a[i + 1]
 BY <1>1 DEF Entries
<1>3. ASSUME NEW i \in Entries(a), i # 1 PROVE i - 1 \in Entries(Tail(a)) /\ Tail(a)[i - 1] = a[i]
 <2>1. i - 1 \in 1..Len(a) - 1 /\ (i - 1) + 1 = i /\ a[i].kind = "switched" /\ a[i].ok
  BY <1>1, <1>3 DEF Entries
 <2> QED BY <1>1, <2>1 DEF Entries
<1>4. 1 \in Entries(a) <=> Head(a).kind = "switched" /\ Head(a).ok BY <1>1 DEF Entries
<1>5. \A i \in Entries(a) : i \in Nat BY <1>1 DEF Entries
<1> QED BY <1>1, <1>2, <1>3, <1>4, <1>5

(* The window shows the active workspace, or its last answer will take it there. *)
EndsUpIn(a, s, w) ==
  \/ \E i \in Entries(a) : a[i].to = w /\ \A j \in Entries(a) : j <= i
  \/ s = w /\ Entries(a) = {}

LEMMA EndsUpSent ==
  ASSUME NEW a \in Seq(WindowAnswers), NEW m \in WindowAnswers, NEW s, NEW w, EndsUpIn(a, s, w)
  PROVE  /\ ~(m.kind = "switched" /\ m.ok) => EndsUpIn(Append(a, m), s, w)
         /\ m.kind = "switched" /\ m.ok => EndsUpIn(Append(a, m), s, m.to)
<1> DEFINE b == Append(a, m)
<1> HIDE DEF b
<1>1. /\ Entries(a) \subseteq 1..Len(a) /\ Len(a) \in Nat
      /\ ~(m.kind = "switched" /\ m.ok) => Entries(b) = Entries(a)
      /\ m.kind = "switched" /\ m.ok => Entries(b) = Entries(a) \union {Len(a) + 1}
      /\ \A i \in 1..Len(a) : b[i] = a[i]
      /\ b[Len(a) + 1] = m
 BY EntriesSent DEF b
<1>2. CASE ~(m.kind = "switched" /\ m.ok) BY <1>1, <1>2 DEF EndsUpIn, b
<1>3. CASE m.kind = "switched" /\ m.ok
 <2>1. \A j \in Entries(b) : j <= Len(a) + 1 BY <1>1, <1>3
 <2> QED BY <1>1, <1>3, <2>1 DEF EndsUpIn, b
<1> QED BY <1>2, <1>3

LEMMA EndsUpGot ==
  ASSUME NEW a \in Seq(WindowAnswers), a # <<>>, NEW s, NEW w, EndsUpIn(a, s, w)
  PROVE  /\ ~(Head(a).kind = "switched" /\ Head(a).ok) => EndsUpIn(Tail(a), s, w)
         /\ Head(a).kind = "switched" /\ Head(a).ok => EndsUpIn(Tail(a), Head(a).to, w)
<1> DEFINE b == Tail(a)
<1> HIDE DEF b
<1>1. /\ \A i \in Entries(b) : i \in Nat /\ i + 1 \in Entries(a) /\ b[i] = a[i + 1]
      /\ \A i \in Entries(a) : i \in Nat /\ (i = 1 \/ (i - 1 \in Entries(b) /\ b[i - 1] = a[i]))
      /\ 1 \in Entries(a) <=> Head(a).kind = "switched" /\ Head(a).ok
      /\ Head(a) = a[1]
 BY EntriesGot DEF b
<1>2. CASE \E i \in Entries(a) : a[i].to = w /\ \A j \in Entries(a) : j <= i
 <2>1. PICK i \in Entries(a) : a[i].to = w /\ \A j \in Entries(a) : j <= i BY <1>2
 <2>2. CASE i = 1
  <3>1. \A j \in Entries(b) : FALSE
   <4>1. ASSUME NEW j \in Entries(b) PROVE FALSE
    <5>1. j \in Nat /\ j + 1 <= 1 /\ j + 1 \in Entries(a) BY <1>1, <2>1, <2>2
    <5>2. j = 0 BY <5>1
    <5> QED BY <5>2, Got DEF Entries, b
   <4> QED BY <4>1
  <3> QED BY <1>1, <2>1, <2>2, <3>1 DEF EndsUpIn, b
 <2>3. CASE i # 1
  <3>1. i - 1 \in Entries(b) /\ b[i - 1].to = w BY <1>1, <2>1, <2>3
  <3>2. \A j \in Entries(b) : j <= i - 1
   <4>1. ASSUME NEW j \in Entries(b) PROVE j <= i - 1
    <5>1. j \in Nat /\ j + 1 <= i /\ i \in Nat BY <1>1, <2>1
    <5> QED BY <5>1
   <4> QED BY <4>1
  <3> QED BY <3>1, <3>2 DEF EndsUpIn, b
 <2> QED BY <2>2, <2>3
<1>3. CASE s = w /\ Entries(a) = {}
 <2>1. Entries(b) = {} BY <1>1, <1>3
 <2> QED BY <1>1, <1>3, <2>1 DEF EndsUpIn, b
<1> QED BY <1>2, <1>3 DEF EndsUpIn

--------------------------------------------------
(* One call at a time: sent, then at work in the main process, then answered *)

Travels(q, c, S, a, d, busy) ==
  /\ Alone(On(q, c)) /\ Alone(S) /\ Alone(On(a, d))
  /\ On(q, c) # {} => S = {} /\ On(a, d) = {}
  /\ S # {} => On(a, d) = {}
  /\ busy <=> (On(q, c) # {} \/ S # {} \/ On(a, d) # {})

(* It is sent, taken up, moves on and is answered and heard. *)
LEMMA TravelsSent ==
  ASSUME NEW q \in Seq(MainCalls), NEW m \in MainCalls, NEW c, NEW S, NEW a, NEW d
  PROVE  /\ m.kind = c /\ Travels(q, c, S, a, d, FALSE) => Travels(Append(q, m), c, S, a, d, TRUE)
         /\ m.kind # c => On(Append(q, m), c) = On(q, c)
<1>1. m.kind # c => On(Append(q, m), c) = On(q, c) BY OnSent
<1>2. ASSUME m.kind = c, Travels(q, c, S, a, d, FALSE) PROVE Travels(Append(q, m), c, S, a, d, TRUE)
 <2>1. On(Append(q, m), c) = On(q, c) \union {Len(q) + 1} BY <1>2, OnSent
 <2>2. On(q, c) = {} /\ S = {} /\ On(a, d) = {} BY <1>2 DEF Travels
 <2> QED BY <2>1, <2>2 DEF Travels, Alone
<1> QED BY <1>1, <1>2

LEMMA TravelsTaken ==
  ASSUME NEW q \in Seq(MainCalls), q # <<>>, NEW c, NEW S, NEW a, NEW d, NEW b, Travels(q, c, S, a, d, b)
  PROVE  /\ Head(q).kind # c => Travels(Tail(q), c, S, a, d, b)
         /\ Head(q).kind = c => /\ b /\ S = {} /\ On(a, d) = {} /\ On(Tail(q), c) = {}
                                /\ \A x : Travels(Tail(q), c, {x}, a, d, b)
<1>1. /\ Alone(On(Tail(q), c))
      /\ Head(q).kind # c => (On(q, c) = {} <=> On(Tail(q), c) = {})
      /\ Head(q).kind = c => On(q, c) # {} /\ On(Tail(q), c) = {}
 BY OnGot DEF Travels
<1>2. ASSUME Head(q).kind # c PROVE Travels(Tail(q), c, S, a, d, b)
 BY <1>1, <1>2 DEF Travels
<1>3. ASSUME Head(q).kind = c
      PROVE  /\ b /\ S = {} /\ On(a, d) = {} /\ On(Tail(q), c) = {}
             /\ \A x : Travels(Tail(q), c, {x}, a, d, b)
 BY <1>1, <1>3 DEF Travels, Alone
<1> QED BY <1>2, <1>3

LEMMA TravelsAnswered ==
  ASSUME NEW a \in Seq(WindowAnswers), NEW m \in WindowAnswers, NEW q, NEW c, NEW S, NEW d, NEW b,
         Travels(q, c, S, a, d, b)
  PROVE  /\ m.kind # d => Travels(q, c, S, Append(a, m), d, b)
         /\ \A x \in S : /\ S = {x} /\ b /\ On(q, c) = {} /\ On(a, d) = {}
                         /\ \A y : Travels(q, c, (S \ {x}) \union {y}, a, d, b)
                         /\ m.kind = d => Travels(q, c, S \ {x}, Append(a, m), d, b)
<1>1. /\ m.kind # d => On(Append(a, m), d) = On(a, d)
      /\ m.kind = d => On(Append(a, m), d) = On(a, d) \union {Len(a) + 1}
 BY OnSent
<1>2. ASSUME m.kind # d PROVE Travels(q, c, S, Append(a, m), d, b)
 BY <1>1, <1>2 DEF Travels
<1>3. ASSUME NEW x \in S
      PROVE  /\ S = {x} /\ b /\ On(q, c) = {} /\ On(a, d) = {}
             /\ \A y : Travels(q, c, (S \ {x}) \union {y}, a, d, b)
             /\ m.kind = d => Travels(q, c, S \ {x}, Append(a, m), d, b)
 <2>1. S = {x} /\ b /\ On(q, c) = {} /\ On(a, d) = {} BY <1>3 DEF Travels, Alone
 <2>2. \A y : Travels(q, c, {y}, a, d, b) BY <1>3, <2>1 DEF Travels, Alone
 <2>3. m.kind = d => Travels(q, c, {}, Append(a, m), d, b) BY <1>1, <2>1 DEF Travels, Alone
 <2> QED BY <2>1, <2>2, <2>3
<1> QED BY <1>2, <1>3

LEMMA TravelsHeard ==
  ASSUME NEW a \in Seq(WindowAnswers), a # <<>>, NEW q, NEW c, NEW S, NEW d, NEW b, Travels(q, c, S, a, d, b)
  PROVE  /\ Head(a).kind # d => Travels(q, c, S, Tail(a), d, b)
         /\ Head(a).kind = d => /\ b /\ S = {} /\ On(q, c) = {} /\ On(Tail(a), d) = {}
                                /\ Travels(q, c, S, Tail(a), d, FALSE)
<1>1. /\ Alone(On(Tail(a), d))
      /\ Head(a).kind # d => (On(a, d) = {} <=> On(Tail(a), d) = {})
      /\ Head(a).kind = d => On(a, d) # {} /\ On(Tail(a), d) = {}
 BY OnGot DEF Travels
<1>2. ASSUME Head(a).kind # d PROVE Travels(q, c, S, Tail(a), d, b)
 BY <1>1, <1>2 DEF Travels
<1>3. ASSUME Head(a).kind = d
      PROVE  /\ b /\ S = {} /\ On(q, c) = {} /\ On(Tail(a), d) = {}
             /\ Travels(q, c, S, Tail(a), d, FALSE)
 BY <1>1, <1>3 DEF Travels, Alone
<1> QED BY <1>2, <1>3

--------------------------------------------------
(* A list that is a workspace's own, and none of its servers lost *)

Good(w, list, removed) == list \subseteq ServersOf(w) /\ {OldServer(w)} \ removed \subseteq list

(* The window is on its way to another workspace than the one it shows. *)
Leads(a, s) == \E i \in Entries(a) : a[i].to # s

(* What an unlocking gives is the list of the workspace shown, or the window *)
(* will have left that one before it hears it.                               *)
RightList(a, s, removed) ==
  \A k \in On(a, "unlocked") :
    a[k].ok => Good(s, a[k].list, removed) \/ \E i \in Entries(a) : i < k /\ a[i].to # s

LEMMA LeadsSent ==
  ASSUME NEW a \in Seq(WindowAnswers), NEW m \in WindowAnswers, NEW s, NEW removed
  PROVE  /\ Leads(a, s) => Leads(Append(a, m), s)
         /\ m.kind # "unlocked" /\ RightList(a, s, removed) => RightList(Append(a, m), s, removed)
         /\ On(a, "unlocked") = {} /\ (m.ok => Good(s, m.list, removed) \/ Leads(a, s)) =>
              RightList(Append(a, m), s, removed)
<1> DEFINE b == Append(a, m)
<1> HIDE DEF b
<1>1. /\ Entries(a) \subseteq 1..Len(a) /\ Len(a) \in Nat
      /\ Entries(a) \subseteq Entries(b)
      /\ \A i \in 1..Len(a) : b[i] = a[i]
      /\ b[Len(a) + 1] = m
 BY EntriesSent DEF b
<1>2. /\ m.kind # "unlocked" => On(b, "unlocked") = On(a, "unlocked")
      /\ On(b, "unlocked") \subseteq On(a, "unlocked") \union {Len(a) + 1}
      /\ On(a, "unlocked") \subseteq 1..Len(a)
 BY OnSent DEF b
<1>3. Leads(a, s) => Leads(b, s) BY <1>1 DEF Leads
<1>4. m.kind # "unlocked" /\ RightList(a, s, removed) => RightList(b, s, removed)
 BY <1>1, <1>2 DEF RightList
<1>5. ASSUME On(a, "unlocked") = {}, m.ok => Good(s, m.list, removed) \/ Leads(a, s)
      PROVE  RightList(b, s, removed)
 <2>1. \A k \in On(b, "unlocked") : k = Len(a) + 1 /\ b[k] = m BY <1>1, <1>2, <1>5
 <2>2. \A i \in Entries(a) : i < Len(a) + 1 /\ i \in Entries(b) /\ b[i] = a[i] BY <1>1
 <2> QED BY <1>5, <2>1, <2>2 DEF RightList, Leads
<1> QED BY <1>3, <1>4, <1>5 DEF b

LEMMA LeadsGot ==
  ASSUME NEW a \in Seq(WindowAnswers), a # <<>>, NEW s, NEW removed
  PROVE  /\ Leads(a, s) /\ ~(Head(a).kind = "switched" /\ Head(a).ok /\ Head(a).to # s) => Leads(Tail(a), s)
         /\ RightList(a, s, removed) /\ ~(Head(a).kind = "switched" /\ Head(a).ok /\ Head(a).to # s) =>
              /\ RightList(Tail(a), s, removed)
              /\ Head(a).kind = "unlocked" /\ Head(a).ok => Good(s, Head(a).list, removed)
<1> DEFINE b == Tail(a)
<1> HIDE DEF b
<1>1. /\ \A i \in Entries(a) : i \in Nat /\ (i = 1 \/ (i - 1 \in Entries(b) /\ b[i - 1] = a[i]))
      /\ 1 \in Entries(a) <=> Head(a).kind = "switched" /\ Head(a).ok
      /\ Head(a) = a[1]
 BY EntriesGot DEF b
<1>2. Len(a) \in Nat /\ Len(a) > 0 /\ DOMAIN a = 1..Len(a) /\ DOMAIN b = 1..Len(a) - 1
 BY Got DEF b
<1>3. \A k \in On(b, "unlocked") : k + 1 \in On(a, "unlocked") /\ b[k] = a[k + 1] /\ k \in Nat
 BY <1>2, OnGot DEF b, On
<1>4. ASSUME Leads(a, s), ~(Head(a).kind = "switched" /\ Head(a).ok /\ Head(a).to # s)
      PROVE  Leads(b, s)
 <2>1. PICK i \in Entries(a) : a[i].to # s BY <1>4 DEF Leads
 <2>2. i # 1 BY <1>1, <1>4, <2>1
 <2> QED BY <1>1, <2>1, <2>2 DEF Leads
<1>5. ASSUME RightList(a, s, removed), ~(Head(a).kind = "switched" /\ Head(a).ok /\ Head(a).to # s)
      PROVE  RightList(b, s, removed)
 <2>1. SUFFICES ASSUME NEW k \in On(b, "unlocked"), b[k].ok
                PROVE  Good(s, b[k].list, removed) \/ \E i \in Entries(b) : i < k /\ b[i].to # s
  BY DEF RightList
 <2>2. \/ Good(s, b[k].list, removed)
       \/ \E i \in Entries(a) : i < k + 1 /\ a[i].to # s
  BY <1>3, <1>5, <2>1 DEF RightList
 <2>3. ASSUME NEW i \in Entries(a), i < k + 1, a[i].to # s
       PROVE  \E j \in Entries(b) : j < k /\ b[j].to # s
  <3>1. i # 1 BY <1>1, <1>5, <2>3
  <3>2. i - 1 \in Entries(b) /\ b[i - 1] = a[i] /\ i \in Nat /\ k \in Nat
   BY <1>1, <1>3, <2>1, <3>1
  <3>3. i - 1 < k BY <2>3, <3>2
  <3> QED BY <2>3, <3>2, <3>3
 <2> QED BY <2>2, <2>3
<1>6. ASSUME RightList(a, s, removed), Head(a).kind = "unlocked", Head(a).ok
      PROVE  Good(s, Head(a).list, removed)
 <2>1. 1 \in On(a, "unlocked") /\ a[1] = Head(a) BY <1>1, <1>2, <1>6 DEF On
 <2>2. ~ \E i \in Entries(a) : i < 1 BY <1>2 DEF Entries
 <2> QED BY <1>6, <2>1, <2>2 DEF RightList
<1> QED BY <1>4, <1>5, <1>6 DEF b

--------------------------------------------------
(* The server lists: an invariant that holds whatever overlaps *)

(* An unlocking asked for at revision n may still be answered. *)
Pending(n) ==
  \/ \E m \in ToSet(toMain) : m.kind = "unlock" /\ m.rev = n
  \/ \E o \in hub.opening : o.rev = n
  \/ \E m \in ToSet(toWindow) : m.kind = "unlocked" /\ m.rev = n

(* The window has not taken up another list since, or only the shown one's. *)
Since(n) ==
  /\ n \in Nat /\ n <= view.rev
  /\ ~view.left /\ n # view.rev => view.listOf \in {NoSpace, view.shown}

RightSpace ==
  ~view.left =>
    /\ \A o \in hub.opening : o.space = view.shown \/ Leads(toWindow, view.shown)
    /\ RightList(toWindow, view.shown, past.removed)

ListsGood ==
  /\ \A w \in Spaces : Good(w, hub.lists[w], past.removed)
  /\ view.listOf # NoSpace => Good(view.listOf, view.list, past.removed)
  /\ view.vault \/ view.listOf \in {NoSpace, view.shown}
  /\ \A s \in hub.saving : Good(s.space, s.list, past.removed)
  /\ \A m \in ToSet(toMain) : m.kind = "save" => Good(m.space, m.list, past.removed)
  /\ \A t \in hub.tasks : t.at = "loaded" /\ ~t.locked => Good(t.to, t.list, past.removed)
  /\ \A m \in ToSet(toWindow) : m.kind = "switched" /\ m.ok /\ ~m.locked => Good(m.to, m.list, past.removed)

OneLive == \A r, s \in Live : r = s

ListsInv ==
  /\ Typed /\ OneLive
  /\ EndsUpIn(toWindow, view.shown, hub.active)
  /\ Travels(toMain, "unlock", hub.opening, toWindow, "unlocked", view.unlocking)
  /\ \A n : Pending(n) => Since(n)
  /\ RightSpace /\ ListsGood

LEMMA GoodStays ==
  ASSUME NEW R, NEW Q, R \subseteq Q
  PROVE  \A w, list : Good(w, list, R) => Good(w, list, Q)
BY DEF Good

LEMMA ListsAfterEdit == ListsInv /\ EditList => ListsInv'
<1> SUFFICES ASSUME ListsInv, EditList PROVE ListsInv'
 OBVIOUS
<1>1. /\ Typed' /\ hub' = hub /\ toWindow' = toWindow
      /\ view'.reply = view.reply /\ view'.unlocking = view.unlocking
      /\ view'.shown = view.shown /\ view'.listOf = view.listOf /\ view'.vault = view.vault
      /\ view'.left = view.left /\ view'.rev = view.rev
      /\ view'.list \subseteq view.list \union {NewServer(view.shown)}
      /\ view.vault => view'.list \subseteq view.list
      /\ past.removed \subseteq past'.removed /\ view.list \ view'.list \subseteq past'.removed
 BY EditListDoes DEF ListsInv, SameChats
<1>2. \/ toMain' = toMain
      \/ \E m \in MainCalls : /\ toMain' = Append(toMain, m) /\ m.kind = "save" /\ view.listOf = view.shown
                              /\ m.space = view.shown /\ m.list = view'.list
 BY EditListDoes DEF ListsInv
<1>3. /\ On(toMain', "unlock") = On(toMain, "unlock")
      /\ \A m \in ToSet(toMain') : \/ m \in ToSet(toMain)
                                   \/ /\ m.kind = "save" /\ view.listOf = view.shown
                                      /\ m.space = view.shown /\ m.list = view'.list
 <2>1. CASE toMain' = toMain BY <2>1
 <2>2. ASSUME NEW m \in MainCalls, toMain' = Append(toMain, m), m.kind = "save", view.listOf = view.shown,
              m.space = view.shown, m.list = view'.list
       PROVE  /\ On(toMain', "unlock") = On(toMain, "unlock")
              /\ \A c \in ToSet(toMain') : c \in ToSet(toMain) \/ c = m
  <3>1. toMain \in Seq(MainCalls) /\ m.kind # "unlock" BY <2>2 DEF ListsInv, Typed
  <3>2. On(Append(toMain, m), "unlock") = On(toMain, "unlock") BY <3>1, OnSent
  <3>3. ToSet(Append(toMain, m)) = ToSet(toMain) \union {m} BY <3>1, SentLast
  <3> QED BY <2>2, <3>2, <3>3
 <2> QED BY <1>2, <2>1, <2>2
<1>4. OneLive' /\ EndsUpIn(toWindow', view'.shown, hub'.active)
 BY <1>1 DEF ListsInv, OneLive, Live
<1>5. Travels(toMain', "unlock", hub'.opening, toWindow', "unlocked", view'.unlocking)
 BY <1>1, <1>3 DEF ListsInv, Travels
<1>6. ASSUME NEW n, Pending(n)' PROVE Since(n)'
 <2>1. Pending(n) BY <1>1, <1>3, <1>6 DEF Pending
 <2> QED BY <1>1, <2>1 DEF ListsInv, Since
<1>7. \A w, list : Good(w, list, past.removed) => Good(w, list, past'.removed)
 BY <1>1, GoodStays
<1>8. RightSpace' BY <1>1, <1>7 DEF ListsInv, RightSpace, RightList
<1>9. view'.listOf # NoSpace => Good(view'.listOf, view'.list, past'.removed)
 <2>1. ASSUME view.listOf # NoSpace PROVE Good(view.listOf, view'.list, past'.removed)
  <3>1. view.listOf = view.shown => NewServer(view.shown) \in ServersOf(view.listOf)
   BY DEF ServersOf
  <3>2. Good(view.listOf, view.list, past.removed) BY <2>1 DEF ListsInv, ListsGood
  <3>3. view'.list \subseteq ServersOf(view.listOf)
   <4>1. view.vault \/ view.listOf = view.shown BY <2>1 DEF ListsInv, ListsGood
   <4> QED BY <1>1, <3>1, <3>2, <4>1 DEF Good
  <3>4. {OldServer(view.listOf)} \ past'.removed \subseteq view'.list BY <1>1, <3>2 DEF Good
  <3> QED BY <3>3, <3>4 DEF Good
 <2> QED BY <1>1, <2>1
<1>10. ListsGood'
 <2>1. \A m \in ToSet(toMain') : m.kind = "save" => Good(m.space, m.list, past'.removed)
  <3>1. NoSpace # view.shown BY WorkspacesConstants DEF ListsInv, Typed, Views
  <3> QED BY <1>1, <1>3, <1>7, <1>9, <3>1 DEF ListsInv, ListsGood
 <2> QED BY <1>1, <1>7, <1>9, <2>1 DEF ListsInv, ListsGood
<1> QED BY <1>1, <1>4, <1>5, <1>6, <1>8, <1>10 DEF ListsInv

(* A step that leaves the lists, the workspace shown and the unlocking alone. *)
LEMMA ListsAside ==
  ASSUME ListsInv, Typed', OneLive', SameList(view'), past'.removed = past.removed,
         hub'.lists = hub.lists, hub'.saving = hub.saving, hub'.opening = hub.opening,
         EndsUpIn(toWindow, view.shown, hub.active)',
         Travels(toMain, "unlock", hub.opening, toWindow, "unlocked", view.unlocking)', RightSpace',
         \A m \in ToSet(toMain') : m \in ToSet(toMain) \/ m.kind \notin {"save", "unlock"},
         \A t \in hub'.tasks : t \in hub.tasks \/ (t.at = "loaded" /\ ~t.locked => Good(t.to, t.list, past.removed)),
         \A m \in ToSet(toWindow') : \/ m \in ToSet(toWindow)
                                     \/ /\ m.kind # "unlocked"
                                        /\ m.kind = "switched" /\ m.ok /\ ~m.locked => Good(m.to, m.list, past.removed)
  PROVE  ListsInv'
<1>1. \A n : Pending(n)' => Since(n)'
 <2>1. ASSUME NEW n, Pending(n)' PROVE Since(n)'
  <3>1. Pending(n) BY <2>1 DEF Pending
  <3> QED BY <3>1 DEF ListsInv, Since, SameList
 <2> QED BY <2>1
<1>2. ListsGood' BY DEF ListsInv, ListsGood, SameList
<1> QED BY <1>1, <1>2 DEF ListsInv

LEMMA ListsAfterReplies ==
  ASSUME ListsInv, NEW r \in Replies, AskReply(r) \/ Token(r) \/ Frame(r) \/ Finish(r)
  PROVE  ListsInv'
<1>1. /\ Typed' /\ hub' = hub /\ toWindow' = toWindow /\ past'.removed = past.removed
      /\ SameList(view') /\ view'.unlocking = view.unlocking
 BY AskReplyDoes, TokenDoes, FinishDoes DEF ListsInv
<1>2. OneLive'
 <2>1. \A s \in Replies : s \in Live <=> view.reply[s].state = "live" BY DEF Live
 <2>2. \A s \in Replies : (s \in Live)' <=> view'.reply[s].state = "live" BY DEF Live
 <2>3. CASE AskReply(r)
  <3>1. Live = {} /\ \A s \in Replies \ {r} : view'.reply[s] = view.reply[s]
   BY <2>3, AskReplyDoes DEF ListsInv
  <3> QED BY <2>1, <2>2, <3>1 DEF OneLive, Live
 <2>4. CASE Token(r) \/ Frame(r)
  <3>1. /\ view.reply[r].state = "live" /\ view'.reply[r].state = "live"
        /\ \A s \in Replies \ {r} : view'.reply[s] = view.reply[s]
   BY <2>4, TokenDoes DEF ListsInv
  <3> QED BY <2>1, <2>2, <3>1 DEF ListsInv, OneLive, Live
 <2>5. CASE Finish(r)
  <3>1. /\ view'.reply[r].state = "over"
        /\ \A s \in Replies \ {r} : view'.reply[s] = view.reply[s]
   BY <2>5, FinishDoes DEF ListsInv
  <3> QED BY <2>1, <2>2, <3>1 DEF ListsInv, OneLive, Live
 <2> QED BY <2>3, <2>4, <2>5
<1>3. toMain' = toMain \/ \E m \in MainCalls : toMain' = Append(toMain, m) /\ m.kind = "chat"
 BY AskReplyDoes, TokenDoes, FinishDoes DEF ListsInv
<1>4. /\ On(toMain', "unlock") = On(toMain, "unlock")
      /\ \A m \in ToSet(toMain') : m \in ToSet(toMain) \/ m.kind \notin {"save", "unlock"}
 <2>1. toMain \in Seq(MainCalls) BY DEF ListsInv, Typed
 <2>2. ASSUME NEW m \in MainCalls, toMain' = Append(toMain, m), m.kind = "chat"
       PROVE  On(toMain', "unlock") = On(toMain, "unlock") /\ ToSet(toMain') = ToSet(toMain) \union {m}
  BY <2>1, <2>2, MainSent
 <2>3. CASE toMain' = toMain BY <2>3
 <2> QED BY <1>3, <2>2, <2>3
<1>5. Travels(toMain, "unlock", hub.opening, toWindow, "unlocked", view.unlocking)'
 BY <1>1, <1>4 DEF ListsInv, Travels
<1>6. RightSpace' /\ EndsUpIn(toWindow, view.shown, hub.active)'
 BY <1>1 DEF ListsInv, RightSpace, SameList
<1> QED BY <1>1, <1>2, <1>4, <1>5, <1>6, ListsAside

LEMMA ListsAfterLoad ==
  ASSUME ListsInv, LoadChats \/ Timer
  PROVE  ListsInv'
<1>1. /\ Typed' /\ hub' = hub /\ toWindow' = toWindow /\ past' = past
      /\ SameList(view') /\ view'.unlocking = view.unlocking /\ view'.reply = view.reply
      /\ toMain' = toMain \/ \E m \in MainCalls : toMain' = Append(toMain, m) /\ m.kind = "list"
 BY LoadChatsDoes, TimerDoes DEF ListsInv, SameChats, SameList
<1>2. OneLive' BY <1>1 DEF ListsInv, OneLive, Live
<1>4. /\ On(toMain', "unlock") = On(toMain, "unlock")
      /\ \A m \in ToSet(toMain') : m \in ToSet(toMain) \/ m.kind \notin {"save", "unlock"}
 <2>1. toMain \in Seq(MainCalls) BY DEF ListsInv, Typed
 <2>2. ASSUME NEW m \in MainCalls, toMain' = Append(toMain, m), m.kind = "list"
       PROVE  On(toMain', "unlock") = On(toMain, "unlock") /\ ToSet(toMain') = ToSet(toMain) \union {m}
  BY <2>1, <2>2, MainSent
 <2>3. CASE toMain' = toMain BY <2>3
 <2> QED BY <1>1, <2>2, <2>3
<1>5. Travels(toMain, "unlock", hub.opening, toWindow, "unlocked", view.unlocking)'
 BY <1>1, <1>4 DEF ListsInv, Travels
<1>6. RightSpace' /\ EndsUpIn(toWindow, view.shown, hub.active)'
 BY <1>1 DEF ListsInv, RightSpace, SameList
<1> QED BY <1>1, <1>2, <1>4, <1>5, <1>6, ListsAside

LEMMA ListsAfterUnlock == ASSUME ListsInv, Unlock PROVE ListsInv'
<1>1. /\ Typed' /\ hub' = hub /\ toWindow' = toWindow /\ past' = past /\ view'.reply = view.reply
      /\ view'.shown = view.shown /\ view'.listOf = view.listOf /\ view'.list = view.list
      /\ view'.vault = view.vault /\ view'.rev = view.rev /\ ~view.unlocking /\ view'.unlocking
 BY UnlockDoes DEF ListsInv, SameChats
<1>2. PICK m \in MainCalls : toMain' = Append(toMain, m) /\ m.kind = "unlock" /\ m.rev = view.rev
 BY UnlockDoes DEF ListsInv
<1>3. OneLive' BY <1>1 DEF ListsInv, OneLive, Live
<1>4. On(toMain, "unlock") = {} /\ hub.opening = {} /\ On(toWindow, "unlocked") = {}
 BY <1>1 DEF ListsInv, Travels
<1>5. /\ toMain \in Seq(MainCalls) /\ toWindow \in Seq(WindowAnswers) /\ view.rev \in Nat
 BY DEF ListsInv, Typed, Views
<1>6. Travels(toMain, "unlock", hub.opening, toWindow, "unlocked", view.unlocking)'
 <2>1. Travels(toMain, "unlock", hub.opening, toWindow, "unlocked", FALSE)
  BY <1>1 DEF ListsInv, Travels
 <2>2. Travels(Append(toMain, m), "unlock", hub.opening, toWindow, "unlocked", TRUE)
  BY <1>2, <1>5, <2>1, TravelsSent
 <2> QED BY <1>1, <1>2, <2>2 DEF Travels
<1>7. ToSet(toMain') = ToSet(toMain) \union {m} BY <1>2, <1>5, CallSent
<1>8. ASSUME NEW n, Pending(n)' PROVE Since(n)'
 <2>1. /\ ~ \E c \in ToSet(toMain) : c.kind = "unlock"
       /\ ~ \E c \in ToSet(toWindow) : c.kind = "unlocked"
  BY <1>4 DEF On, ToSet
 <2>2. n = view.rev BY <1>1, <1>2, <1>4, <1>7, <1>8, <2>1 DEF Pending
 <2> QED BY <1>1, <1>5, <2>2 DEF Since
<1>9. RightSpace' BY <1>1, <1>4 DEF RightSpace, RightList
<1>10. ListsGood' BY <1>1, <1>2, <1>7 DEF ListsInv, ListsGood
<1>11. EndsUpIn(toWindow, view.shown, hub.active)' BY <1>1 DEF ListsInv
<1> QED BY <1>1, <1>3, <1>6, <1>8, <1>9, <1>10, <1>11 DEF ListsInv

LEMMA ListsAfterStart == ASSUME ListsInv, StartSwitch PROVE ListsInv'
<1>1. /\ Typed' /\ hub' = hub /\ toWindow' = toWindow
      /\ view'.shown = view.shown /\ view'.listOf = NoSpace /\ view'.list = {} /\ view'.vault = view.vault
      /\ view'.left = (view.left \/ ~view.switching) /\ view'.rev = view.rev + 1
      /\ view'.unlocking = view.unlocking /\ past'.removed = past.removed
      /\ \A r \in Replies : \/ r \notin Live /\ view'.reply[r] = view.reply[r]
                            \/ r \in Live /\ view'.reply[r].state = "over"
 BY StartSwitchDoes DEF ListsInv, OneLive
<1>2. PICK m \in MainCalls :
        /\ m.kind = "switch"
        /\ \/ toMain' = Append(toMain, m)
           \/ \E c \in MainCalls : toMain' = Append(Append(toMain, c), m) /\ c.kind = "chat"
 BY StartSwitchDoes DEF ListsInv, OneLive
<1>3. /\ On(toMain', "unlock") = On(toMain, "unlock")
      /\ \A c \in ToSet(toMain') : c \in ToSet(toMain) \/ c.kind \in {"switch", "chat"}
 <2>1. toMain \in Seq(MainCalls) BY DEF ListsInv, Typed
 <2>2. CASE toMain' = Append(toMain, m) BY <1>2, <2>1, <2>2, CallSent
 <2>3. ASSUME NEW c \in MainCalls, toMain' = Append(Append(toMain, c), m), c.kind = "chat"
       PROVE  /\ On(toMain', "unlock") = On(toMain, "unlock")
              /\ \A x \in ToSet(toMain') : x \in ToSet(toMain) \/ x.kind \in {"switch", "chat"}
  <3>1. PICK q \in Seq(MainCalls) : q = Append(toMain, c) BY <2>1, SentLast
  <3>2. On(q, "unlock") = On(toMain, "unlock") /\ ToSet(q) = ToSet(toMain) \union {c}
   BY <2>1, <2>3, <3>1, CallSent
  <3>3. On(Append(q, m), "unlock") = On(q, "unlock") /\ ToSet(Append(q, m)) = ToSet(q) \union {m}
   BY ZenonT(60), <1>2, <3>1, MainSent
  <3> QED BY <1>2, <2>3, <3>1, <3>2, <3>3
 <2> QED BY <1>2, <2>2, <2>3
<1>4. OneLive' BY <1>1 DEF OneLive, Live
<1>5. Travels(toMain, "unlock", hub.opening, toWindow, "unlocked", view.unlocking)'
 BY <1>1, <1>3 DEF ListsInv, Travels
<1>6. ASSUME NEW n, Pending(n)' PROVE Since(n)'
 <2>1. Pending(n) BY <1>1, <1>3, <1>6 DEF Pending
 <2>2. n \in Nat /\ n <= view.rev /\ view.rev \in Nat BY <2>1 DEF ListsInv, Since, Typed, Views
 <2>3. n <= view.rev + 1 BY <2>2
 <2> QED BY <1>1, <2>2, <2>3 DEF Since
<1>7. RightSpace' BY <1>1 DEF ListsInv, RightSpace
<1>8. ListsGood' BY <1>1, <1>3 DEF ListsInv, ListsGood
<1>9. EndsUpIn(toWindow, view.shown, hub.active)' BY <1>1 DEF ListsInv
<1> QED BY <1>1, <1>4, <1>5, <1>6, <1>7, <1>8, <1>9 DEF ListsInv

LEMMA ListsAfterHearing == ASSUME ListsInv, HearMain PROVE ListsInv'
<1>1. /\ hub' = hub /\ past' = past /\ toWindow # <<>> /\ toWindow' = Tail(toWindow) /\ Typed'
 BY HearMainDoes DEF ListsInv
<1>2. PICK m \in WindowAnswers :
        /\ m = Head(toWindow)
        /\ \/ m.kind = "switched" /\ HearSwitch(m)
           \/ m.kind = "listed" /\ HearChats(m)
           \/ m.kind = "unlocked" /\ HearUnlocked(m)
 BY HearMainDoes DEF ListsInv
<1>3. /\ toWindow \in Seq(WindowAnswers) /\ toMain \in Seq(MainCalls) /\ view.rev \in Nat /\ Typed
 BY DEF ListsInv, Typed, Views
<1>4. ToSet(toWindow) = {m} \union ToSet(toWindow') BY <1>1, <1>2, <1>3, CallTaken
<1>5. /\ ~(m.kind = "switched" /\ m.ok) => EndsUpIn(toWindow', view.shown, hub.active)
      /\ m.kind = "switched" /\ m.ok => EndsUpIn(toWindow', m.to, hub.active)
 BY <1>1, <1>2, <1>3, EndsUpGot DEF ListsInv
<1>6. ~(m.kind = "switched" /\ m.ok /\ m.to # view.shown) =>
        /\ Leads(toWindow, view.shown) => Leads(toWindow', view.shown)
        /\ RightList(toWindow, view.shown, past.removed) =>
             /\ RightList(toWindow', view.shown, past.removed)
             /\ m.kind = "unlocked" /\ m.ok => Good(view.shown, m.list, past.removed)
 BY <1>1, <1>2, <1>3, LeadsGot
<1>7. /\ m.kind # "unlocked" => Travels(toMain, "unlock", hub.opening, toWindow', "unlocked", view.unlocking)
      /\ m.kind = "unlocked" =>
           /\ hub.opening = {} /\ On(toMain, "unlock") = {} /\ On(toWindow', "unlocked") = {}
           /\ Travels(toMain, "unlock", hub.opening, toWindow', "unlocked", FALSE)
 BY ZenonT(60), <1>1, <1>2, <1>3, TravelsHeard DEF ListsInv
<1>8. CASE m.kind = "switched" /\ HearSwitch(m)
 <2>1. /\ toMain' = toMain /\ view'.unlocking = view.unlocking
       /\ ~m.ok => SameList(view') /\ SameChats(view')
       /\ m.ok =>
            /\ view'.shown = m.to
            /\ view.shown = m.to => SameChats(view')
            /\ view.shown # m.to =>
                 /\ view'.left
                 /\ \A r \in Replies : \/ r \notin Live /\ view'.reply[r] = view.reply[r]
                                       \/ r \in Live /\ view'.reply[r].state = "over"
            /\ m.locked => /\ view'.vault /\ view'.listOf = view.listOf /\ view'.list = view.list
                           /\ view'.rev = view.rev
                           /\ view.shown = m.to => (view'.left <=> view.left \/ ~view.vault)
            /\ ~m.locked => /\ ~view'.vault /\ view'.listOf = m.to /\ view'.list = m.list
                            /\ view'.rev = view.rev + 1
                            /\ view.shown = m.to => view'.left = view.left
  BY <1>3, <1>8, HearSwitchDoes
 <2>2. OneLive'
  <3>1. CASE SameChats(view') BY <3>1 DEF SameChats, ListsInv, OneLive, Live
  <3>2. CASE ~SameChats(view')
   <4>1. \A r \in Replies : \/ r \notin Live /\ view'.reply[r] = view.reply[r]
                            \/ r \in Live /\ view'.reply[r].state = "over"
    BY <2>1, <3>2
   <4> QED BY <4>1 DEF OneLive, Live
  <3> QED BY <3>1, <3>2
 <2>3. EndsUpIn(toWindow, view.shown, hub.active)' BY <1>1, <1>5, <1>8, <2>1 DEF SameList
 <2>4. Travels(toMain, "unlock", hub.opening, toWindow, "unlocked", view.unlocking)'
  BY <1>1, <1>7, <1>8, <2>1 DEF Travels
 <2>5. ASSUME NEW n, Pending(n)' PROVE Since(n)'
  <3>1. Pending(n) BY <1>1, <1>4, <2>1, <2>5 DEF Pending
  <3>2. n \in Nat /\ n <= view.rev /\ (~view.left /\ n # view.rev => view.listOf \in {NoSpace, view.shown})
   BY <3>1 DEF ListsInv, Since
  <3>3. n <= view.rev + 1 BY <1>3, <3>2
  <3>4. CASE ~m.ok BY <2>1, <3>2, <3>4 DEF Since, SameList
  <3>5. CASE m.ok /\ m.locked BY <2>1, <3>2, <3>5 DEF Since
  <3>6. CASE m.ok /\ ~m.locked BY <2>1, <3>2, <3>3, <3>6 DEF Since
  <3> QED BY <3>4, <3>5, <3>6
 <2>6. RightSpace'
  <3>1. CASE ~m.ok BY <1>1, <1>6, <2>1, <3>1 DEF ListsInv, RightSpace, SameList
  <3>2. CASE m.ok /\ view.shown # m.to BY <2>1, <3>2 DEF RightSpace
  <3>3. CASE m.ok /\ view.shown = m.to
   <4>1. view'.shown = view.shown /\ (view.left => view'.left) BY <2>1, <3>3
   <4> QED BY <1>1, <1>6, <3>3, <4>1 DEF ListsInv, RightSpace
  <3> QED BY <3>1, <3>2, <3>3
 <2>7. ListsGood'
  <3>1. m.ok /\ ~m.locked => Good(m.to, m.list, past.removed)
   BY <1>4, <1>8 DEF ListsInv, ListsGood
  <3>2. /\ view'.listOf # NoSpace => Good(view'.listOf, view'.list, past.removed)
        /\ view'.vault \/ view'.listOf \in {NoSpace, view'.shown}
   <4>1. CASE ~m.ok BY <2>1, <4>1 DEF ListsInv, ListsGood, SameList
   <4>2. CASE m.ok /\ m.locked BY <2>1, <4>2 DEF ListsInv, ListsGood
   <4>3. CASE m.ok /\ ~m.locked BY <2>1, <3>1, <4>3
   <4> QED BY <4>1, <4>2, <4>3
  <3> QED BY <1>1, <1>4, <2>1, <3>2 DEF ListsInv, ListsGood
 <2> QED BY <1>1, <2>2, <2>3, <2>4, <2>5, <2>6, <2>7 DEF ListsInv
<1>9. CASE m.kind = "listed" /\ HearChats(m)
 <2>1. /\ SameList(view') /\ view'.unlocking = view.unlocking /\ view'.reply = view.reply
       /\ toMain' = toMain \/ \E c \in MainCalls : toMain' = Append(toMain, c) /\ c.kind = "list"
  BY <1>3, <1>9, HearChatsDoes
 <2>2. OneLive' BY <2>1 DEF ListsInv, OneLive, Live
 <2>3. /\ On(toMain', "unlock") = On(toMain, "unlock")
       /\ \A c \in ToSet(toMain') : c \in ToSet(toMain) \/ c.kind \notin {"save", "unlock"}
  <3>1. ASSUME NEW c \in MainCalls, toMain' = Append(toMain, c), c.kind = "list"
        PROVE  On(toMain', "unlock") = On(toMain, "unlock") /\ ToSet(toMain') = ToSet(toMain) \union {c}
   BY <1>3, <3>1, MainSent
  <3>2. CASE toMain' = toMain BY <3>2
  <3> QED BY <2>1, <3>1, <3>2
 <2>4. Travels(toMain, "unlock", hub.opening, toWindow, "unlocked", view.unlocking)'
  BY <1>1, <1>7, <1>9, <2>1, <2>3 DEF Travels
 <2>5. EndsUpIn(toWindow, view.shown, hub.active)' /\ RightSpace'
  BY <1>1, <1>5, <1>6, <1>9, <2>1 DEF SameList, ListsInv, RightSpace
 <2> QED BY <1>1, <1>4, <2>1, <2>2, <2>3, <2>4, <2>5, ListsAside
<1>10. CASE m.kind = "unlocked" /\ HearUnlocked(m)
 <2>1. /\ toMain' = toMain /\ view'.reply = view.reply /\ ~view'.unlocking
       /\ view'.shown = view.shown /\ view'.left = view.left
       /\ \/ SameList(view')
          \/ /\ ~view.left /\ ~view'.vault
             /\ \/ m.ok /\ m.rev # view.rev
                \/ ~m.ok /\ m.rev # view.rev /\ view.listOf = view.shown
             /\ view'.listOf = view.listOf /\ view'.list = view.list /\ view'.rev = view.rev
          \/ /\ ~view.left /\ ~view'.vault /\ m.ok
             /\ view'.listOf = view.shown /\ view'.list = m.list /\ view'.rev = view.rev + 1
  BY <1>3, <1>10, HearUnlockedDoes DEF SameChats
 <2>2. OneLive' BY <2>1 DEF ListsInv, OneLive, Live
 <2>3. EndsUpIn(toWindow, view.shown, hub.active)' BY <1>1, <1>5, <1>10, <2>1
 <2>4. Travels(toMain, "unlock", hub.opening, toWindow, "unlocked", view.unlocking)'
  BY <1>1, <1>7, <1>10, <2>1 DEF Travels
 <2>5. ASSUME NEW n, Pending(n)' PROVE FALSE
  <3>1. On(toMain', "unlock") = {} /\ hub'.opening = {} /\ On(toWindow', "unlocked") = {}
   BY <1>1, <1>7, <1>10, <2>1
  <3> QED BY <2>5, <3>1 DEF Pending, On, ToSet
 <2>6. RightSpace' BY <1>1, <1>7, <1>10 DEF RightSpace, RightList
 <2>7. ListsGood'
  <3>1. /\ view'.listOf # NoSpace => Good(view'.listOf, view'.list, past.removed)
        /\ view'.vault \/ view'.listOf \in {NoSpace, view'.shown}
   <4>1. CASE SameList(view') BY <4>1 DEF ListsInv, ListsGood, SameList
   <4>2. CASE /\ ~view.left /\ ~view'.vault /\ m.rev # view.rev
              /\ view'.listOf = view.listOf /\ view'.list = view.list /\ view'.rev = view.rev
    <5>1. Pending(m.rev) BY <1>4, <1>10 DEF Pending
    <5>2. view.listOf \in {NoSpace, view.shown} BY <4>2, <5>1 DEF ListsInv, Since
    <5> QED BY <2>1, <4>2, <5>2 DEF ListsInv, ListsGood
   <4>3. CASE ~view.left /\ m.ok /\ view'.listOf = view.shown /\ view'.list = m.list
    <5>1. Good(view.shown, m.list, past.removed) BY <1>6, <1>10, <4>3 DEF ListsInv, RightSpace
    <5> QED BY <2>1, <4>3, <5>1
   <4> QED BY <2>1, <4>1, <4>2, <4>3
  <3> QED BY <1>1, <1>4, <2>1, <3>1 DEF ListsInv, ListsGood
 <2> QED BY <1>1, <2>2, <2>3, <2>4, <2>5, <2>6, <2>7 DEF ListsInv
<1> QED BY <1>2, <1>8, <1>9, <1>10

LEMMA ListsAfterAnswering == ASSUME ListsInv, HubAnswers PROVE ListsInv'
<1>1. /\ view' = view /\ past' = past /\ toMain # <<>> /\ toMain' = Tail(toMain) /\ Typed'
 BY HubAnswersDoes DEF ListsInv
<1>2. PICK m \in MainCalls :
        /\ m = Head(toMain)
        /\ \/ m.kind = "switch" /\ Begin(m)
           \/ m.kind = "save" /\ BeginSave(m)
           \/ m.kind = "chat" /\ WriteChat(m)
           \/ m.kind = "list" /\ ReadChats(m)
           \/ m.kind = "unlock" /\ OpenWithPassword(m)
 BY HubAnswersDoes DEF ListsInv
<1>3. toWindow \in Seq(WindowAnswers) /\ toMain \in Seq(MainCalls) /\ Typed
 BY DEF ListsInv, Typed
<1>4. ToSet(toMain) = {m} \union ToSet(toMain') BY <1>1, <1>2, <1>3, CallTaken
<1>5. /\ m.kind # "unlock" => Travels(toMain', "unlock", hub.opening, toWindow, "unlocked", view.unlocking)
      /\ m.kind = "unlock" =>
           /\ hub.opening = {} /\ On(toWindow, "unlocked") = {}
           /\ \A o : Travels(toMain', "unlock", {o}, toWindow, "unlocked", view.unlocking)
 BY <1>1, <1>2, <1>3, TravelsTaken DEF ListsInv
<1>6. OneLive' /\ SameList(view') BY <1>1 DEF ListsInv, OneLive, Live, SameList
<1>7. \A c \in ToSet(toMain') : c \in ToSet(toMain) BY <1>4
<1>8. CASE m.kind = "switch" /\ Begin(m)
 <2>1. /\ toWindow' = toWindow /\ hub'.active = hub.active /\ hub'.lists = hub.lists
       /\ hub'.saving = hub.saving /\ hub'.opening = hub.opening
       /\ \E t \in Tasks : hub'.tasks = hub.tasks \union {t} /\ t.at # "loaded"
  BY <1>3, <1>8, BeginDoes DEF SameData
 <2>2. Travels(toMain, "unlock", hub.opening, toWindow, "unlocked", view.unlocking)'
  BY <1>1, <1>5, <1>8, <2>1 DEF Travels
 <2>3. EndsUpIn(toWindow, view.shown, hub.active)' /\ RightSpace'
  BY <1>1, <2>1 DEF ListsInv, RightSpace
 <2> QED BY <1>1, <1>6, <1>7, <2>1, <2>2, <2>3, ListsAside
<1>9. CASE m.kind = "chat" /\ WriteChat(m)
 <2>1. /\ toWindow' = toWindow /\ hub'.active = hub.active /\ hub'.lists = hub.lists
       /\ hub'.saving = hub.saving /\ hub'.opening = hub.opening /\ hub'.tasks = hub.tasks
  BY <1>3, <1>9, WriteChatDoes DEF SameData, SameTasks
 <2>2. Travels(toMain, "unlock", hub.opening, toWindow, "unlocked", view.unlocking)'
  BY <1>1, <1>5, <1>9, <2>1 DEF Travels
 <2>3. EndsUpIn(toWindow, view.shown, hub.active)' /\ RightSpace'
  BY <1>1, <2>1 DEF ListsInv, RightSpace
 <2> QED BY <1>1, <1>6, <1>7, <2>1, <2>2, <2>3, ListsAside
<1>10. CASE m.kind = "list" /\ ReadChats(m)
 <2>1. PICK a \in WindowAnswers : hub' = hub /\ toWindow' = Append(toWindow, a) /\ a.kind = "listed"
  BY <1>3, <1>10, ReadChatsDoes
 <2>2. ToSet(toWindow') = ToSet(toWindow) \union {a} /\ On(toWindow', "unlocked") = On(toWindow, "unlocked")
  BY <1>3, <2>1, WindowSent
 <2>3. Travels(toMain, "unlock", hub.opening, toWindow, "unlocked", view.unlocking)'
  BY <1>1, <1>5, <1>10, <2>1, <2>2 DEF Travels
 <2>4. EndsUpIn(toWindow, view.shown, hub.active)' BY <1>1, <1>3, <2>1, EndsUpSent DEF ListsInv
 <2>5. RightSpace'
  <3>1. /\ Leads(toWindow, view.shown) => Leads(toWindow', view.shown)
        /\ RightList(toWindow, view.shown, past.removed) => RightList(toWindow', view.shown, past.removed)
   BY <1>3, <2>1, LeadsSent
  <3> QED BY <1>1, <2>1, <3>1 DEF ListsInv, RightSpace
 <2> QED BY <1>1, <1>6, <1>7, <2>1, <2>2, <2>3, <2>4, <2>5, ListsAside
<1>11. CASE m.kind = "save" /\ BeginSave(m)
 <2>1. /\ toWindow' = toWindow /\ hub'.active = hub.active /\ hub'.lists = hub.lists
       /\ hub'.opening = hub.opening /\ hub'.tasks = hub.tasks
       /\ \A s \in hub'.saving : s \in hub.saving \/ (s.space = m.space /\ s.list = m.list)
  BY <1>3, <1>11, BeginSaveDoes DEF SameTasks
 <2>2. Travels(toMain, "unlock", hub.opening, toWindow, "unlocked", view.unlocking)'
  BY <1>1, <1>5, <1>11, <2>1 DEF Travels
 <2>3. EndsUpIn(toWindow, view.shown, hub.active)' /\ RightSpace'
  BY <1>1, <2>1 DEF ListsInv, RightSpace
 <2>4. \A n : Pending(n)' => Since(n)' BY <1>1, <1>7, <2>1 DEF ListsInv, Pending, Since
 <2>5. Good(m.space, m.list, past.removed) BY <1>4, <1>11 DEF ListsInv, ListsGood
 <2>6. ListsGood' BY <1>1, <1>7, <2>1, <2>5 DEF ListsInv, ListsGood
 <2> QED BY <1>1, <1>6, <2>2, <2>3, <2>4, <2>6 DEF ListsInv
<1>12. CASE m.kind = "unlock" /\ OpenWithPassword(m)
 <2>1. PICK o : /\ toWindow' = toWindow /\ hub'.active = hub.active /\ hub'.lists = hub.lists
                /\ hub'.saving = hub.saving /\ hub'.tasks = hub.tasks
                /\ hub'.opening = hub.opening \union {o} /\ o.space = hub.active /\ o.rev = m.rev
  BY <1>3, <1>12, OpenWithPasswordDoes DEF SameTasks
 <2>2. hub'.opening = {o} /\ On(toWindow', "unlocked") = {} BY <1>5, <1>12, <2>1
 <2>3. Travels(toMain, "unlock", hub.opening, toWindow, "unlocked", view.unlocking)'
  BY <1>1, <1>5, <1>12, <2>1, <2>2 DEF Travels
 <2>4. EndsUpIn(toWindow, view.shown, hub.active)' BY <1>1, <2>1 DEF ListsInv
 <2>5. hub.active = view.shown \/ Leads(toWindow, view.shown) BY DEF ListsInv, EndsUpIn, Leads
 <2>6. RightSpace' BY <1>1, <2>1, <2>2, <2>5 DEF RightSpace, RightList
 <2>7. \A n : Pending(n)' => Pending(n) BY <1>1, <1>4, <1>12, <2>1, <2>2 DEF Pending
 <2>8. \A n : Pending(n)' => Since(n)' BY <1>1, <2>7 DEF ListsInv, Since
 <2>9. ListsGood' BY <1>1, <1>7, <2>1 DEF ListsInv, ListsGood
 <2> QED BY <1>1, <1>6, <2>3, <2>4, <2>6, <2>8, <2>9 DEF ListsInv
<1> QED BY <1>2, <1>8, <1>9, <1>10, <1>11, <1>12

LEMMA ListsAfterWriting == ASSUME ListsInv, WriteList PROVE ListsInv'
<1>1. /\ Typed' /\ view' = view /\ toMain' = toMain /\ toWindow' = toWindow /\ past' = past
      /\ hub'.active = hub.active /\ hub'.tasks = hub.tasks /\ hub'.opening = hub.opening
      /\ hub'.saving \subseteq hub.saving
      /\ \A w \in Spaces : \/ hub'.lists[w] = hub.lists[w]
                           \/ \E s \in hub.saving : w = s.space /\ hub'.lists[w] = s.list
 BY WriteListDoes DEF ListsInv, SameTasks
<1>2. OneLive' /\ RightSpace' /\ EndsUpIn(toWindow, view.shown, hub.active)'
 BY <1>1 DEF ListsInv, OneLive, Live, RightSpace
<1>3. Travels(toMain, "unlock", hub.opening, toWindow, "unlocked", view.unlocking)'
 BY <1>1 DEF ListsInv, Travels
<1>4. \A n : Pending(n)' => Since(n)' BY <1>1 DEF ListsInv, Pending, Since
<1>5. ListsGood' BY <1>1 DEF ListsInv, ListsGood
<1> QED BY <1>1, <1>2, <1>3, <1>4, <1>5 DEF ListsInv

LEMMA ListsAfterOpening == ASSUME ListsInv, Opening PROVE ListsInv'
<1>1. /\ Typed' /\ view' = view /\ toMain' = toMain /\ past' = past
      /\ hub'.active = hub.active /\ hub'.tasks = hub.tasks /\ hub'.saving = hub.saving /\ hub'.lists = hub.lists
 BY OpeningDoes DEF ListsInv, SameTasks
<1>2. PICK o \in hub.opening :
        \/ /\ toWindow' = toWindow
           /\ \E p : hub'.opening = (hub.opening \ {o}) \union {p} /\ p.space = o.space /\ p.rev = o.rev
        \/ /\ hub'.opening = hub.opening \ {o}
           /\ \E a \in WindowAnswers :
                /\ toWindow' = Append(toWindow, a) /\ a.kind = "unlocked" /\ a.rev = o.rev
                /\ o.space \in Spaces /\ a.list = hub.lists[o.space]
 BY OpeningDoes DEF ListsInv
<1>3. toWindow \in Seq(WindowAnswers) /\ toMain \in Seq(MainCalls) /\ OneLive'
 BY <1>1 DEF ListsInv, Typed, OneLive, Live
<1>4. CASE /\ toWindow' = toWindow
           /\ \E p : hub'.opening = (hub.opening \ {o}) \union {p} /\ p.space = o.space /\ p.rev = o.rev
 <2>1. PICK p : hub'.opening = (hub.opening \ {o}) \union {p} /\ p.space = o.space /\ p.rev = o.rev
  BY <1>4
 <2>2. Travels(toMain, "unlock", hub.opening, toWindow, "unlocked", view.unlocking)'
  <3>1. Alone(hub'.opening) BY <2>1 DEF ListsInv, Travels, Alone
  <3>2. hub'.opening # {} /\ hub.opening # {} BY <2>1
  <3> QED BY <1>1, <1>4, <3>1, <3>2 DEF ListsInv, Travels
 <2>3. \A n : Pending(n)' => Since(n)' BY <1>1, <1>4, <2>1 DEF ListsInv, Pending, Since
 <2>4. RightSpace' /\ EndsUpIn(toWindow, view.shown, hub.active)'
  BY <1>1, <1>4, <2>1 DEF ListsInv, RightSpace
 <2>5. ListsGood' BY <1>1, <1>4 DEF ListsInv, ListsGood
 <2> QED BY <1>1, <1>3, <2>2, <2>3, <2>4, <2>5 DEF ListsInv
<1>5. ASSUME hub'.opening = hub.opening \ {o}, NEW a \in WindowAnswers,
             toWindow' = Append(toWindow, a), a.kind = "unlocked", a.rev = o.rev,
             o.space \in Spaces, a.list = hub.lists[o.space]
      PROVE  ListsInv'
 <2>1. ToSet(toWindow') = ToSet(toWindow) \union {a} BY <1>3, <1>5, WindowSent
 <2>2. Travels(toMain, "unlock", hub.opening \ {o}, toWindow', "unlocked", view.unlocking)
  BY <1>3, <1>5, TravelsAnswered DEF ListsInv
 <2>3. Travels(toMain, "unlock", hub.opening, toWindow, "unlocked", view.unlocking)'
  BY <1>1, <1>5, <2>2 DEF Travels
 <2>4. \A n : Pending(n)' => Pending(n) BY <1>1, <1>5, <2>1 DEF Pending
 <2>5. \A n : Pending(n)' => Since(n)' BY <1>1, <2>4 DEF ListsInv, Since
 <2>6. EndsUpIn(toWindow, view.shown, hub.active)' BY <1>1, <1>3, <1>5, EndsUpSent DEF ListsInv
 <2>7. RightSpace'
  <3>1. hub'.opening = {} /\ On(toWindow, "unlocked") = {} BY <1>5 DEF ListsInv, Travels, Alone
  <3>2. ASSUME ~view.left PROVE RightList(toWindow', view.shown, past.removed)
   <4>1. o.space = view.shown \/ Leads(toWindow, view.shown) BY <3>2 DEF ListsInv, RightSpace
   <4>2. Good(o.space, a.list, past.removed) BY <1>5 DEF ListsInv, ListsGood
   <4>3. Good(view.shown, a.list, past.removed) \/ Leads(toWindow, view.shown) BY <4>1, <4>2
   <4> QED BY <1>3, <1>5, <3>1, <4>3, LeadsSent
  <3> QED BY <1>1, <3>1, <3>2 DEF RightSpace
 <2>8. ListsGood' BY <1>1, <1>5, <2>1 DEF ListsInv, ListsGood
 <2> QED BY <1>1, <1>3, <2>3, <2>5, <2>6, <2>7, <2>8 DEF ListsInv
<1> QED BY <1>2, <1>4, <1>5

LEMMA ListsAfterSwitching == ASSUME ListsInv, Switching PROVE ListsInv'
<1>1. PICK t \in hub.tasks : MakeFolder(t) \/ Leave(t) \/ Load(t) \/ Commit(t) \/ Fail(t)
 BY DEF Switching
<1>2. view' = view /\ toMain' = toMain /\ Typed BY DEF Switching, ListsInv
<1>3. toWindow \in Seq(WindowAnswers) /\ OneLive' /\ SameList(view')
 BY <1>2 DEF ListsInv, Typed, OneLive, Live, SameList
<1>4. CASE MakeFolder(t) \/ Leave(t) \/ Load(t)
 <2>1. /\ hub' \in Hubs /\ toWindow' = toWindow /\ past' = past
       /\ hub'.active = hub.active /\ hub'.lists = hub.lists
       /\ hub'.saving = hub.saving /\ hub'.opening = hub.opening
  BY <1>2, <1>4, MakeFolderDoes, LeaveDoes, LoadDoes DEF SameData
 <2>2. \E u \in Tasks : /\ hub'.tasks = (hub.tasks \ {t}) \union {u}
                        /\ u.at = "loaded" /\ ~u.locked => u.to \in Spaces /\ u.list = hub.lists[u.to]
  <3>1. CASE MakeFolder(t) \/ Leave(t) BY <1>2, <3>1, MakeFolderDoes, LeaveDoes
  <3>2. CASE Load(t) BY <1>2, <3>2, LoadDoes DEF Tasks
  <3> QED BY <1>4, <3>1, <3>2
 <2>3. \A u \in hub'.tasks : u \in hub.tasks \/ (u.at = "loaded" /\ ~u.locked => Good(u.to, u.list, past.removed))
  BY <2>2 DEF ListsInv, ListsGood
 <2>4. Typed' BY <1>2, <2>1 DEF Typed
 <2>5. Travels(toMain, "unlock", hub.opening, toWindow, "unlocked", view.unlocking)'
  BY <1>2, <2>1 DEF ListsInv, Travels
 <2>6. EndsUpIn(toWindow, view.shown, hub.active)' /\ RightSpace'
  BY <1>2, <2>1 DEF ListsInv, RightSpace
 <2> QED BY <1>2, <1>3, <2>1, <2>3, <2>4, <2>5, <2>6, ListsAside
<1>5. CASE Commit(t) \/ Fail(t)
 <2>1. /\ hub' \in Hubs /\ toWindow' \in Seq(WindowAnswers) /\ past' \in Pasts
       /\ past'.removed = past.removed /\ hub'.lists = hub.lists
       /\ hub'.saving = hub.saving /\ hub'.opening = hub.opening /\ hub'.tasks \subseteq hub.tasks
  BY <1>2, <1>5, CommitDoes, FailDoes DEF SameData, Typed
 <2>2. PICK a \in WindowAnswers :
         /\ toWindow' = Append(toWindow, a) /\ a.kind = "switched"
         /\ \/ a.ok /\ a.to = hub'.active /\ t.at = "loaded" /\ a.to = t.to /\ a.locked = t.locked /\ a.list = t.list
            \/ ~a.ok /\ hub'.active = hub.active
  BY <1>2, <1>5, CommitDoes, FailDoes
 <2>3. ToSet(toWindow') = ToSet(toWindow) \union {a} /\ On(toWindow', "unlocked") = On(toWindow, "unlocked")
  BY <1>3, <2>2, WindowSent
 <2>4. a.ok /\ ~a.locked => Good(a.to, a.list, past.removed) BY <2>2 DEF ListsInv, ListsGood
 <2>5. Typed' BY <1>2, <2>1 DEF Typed
 <2>6. Travels(toMain, "unlock", hub.opening, toWindow, "unlocked", view.unlocking)'
  BY <1>2, <2>1, <2>3 DEF ListsInv, Travels
 <2>7. EndsUpIn(toWindow, view.shown, hub.active)' BY <1>2, <1>3, <2>2, EndsUpSent DEF ListsInv
 <2>8. RightSpace'
  <3>1. /\ Leads(toWindow, view.shown) => Leads(toWindow', view.shown)
        /\ RightList(toWindow, view.shown, past.removed) => RightList(toWindow', view.shown, past.removed)
   BY <1>3, <2>2, LeadsSent
  <3> QED BY <1>2, <2>1, <3>1 DEF ListsInv, RightSpace
 <2>9. \A u \in hub'.tasks : u \in hub.tasks BY <2>1
 <2>10. \A m \in ToSet(toWindow') : \/ m \in ToSet(toWindow)
                                    \/ /\ m.kind # "unlocked"
                                       /\ m.kind = "switched" /\ m.ok /\ ~m.locked => Good(m.to, m.list, past.removed)
  BY <2>2, <2>3, <2>4
 <2> QED BY <1>2, <1>3, <2>1, <2>5, <2>6, <2>7, <2>8, <2>9, <2>10, ListsAside
<1> QED BY <1>1, <1>4, <1>5

LEMMA ListsInit == WorkspacesInit => ListsInv
<1> SUFFICES ASSUME WorkspacesInit PROVE ListsInv
 OBVIOUS
<1>1. Typed BY TypedInit
<1>2. toMain = <<>> /\ toWindow = <<>> /\ hub.opening = {} /\ hub.saving = {} /\ hub.tasks = {}
      /\ hub.lists = [w \in Spaces |-> {OldServer(w)}] /\ hub.active = FirstSpace
      /\ view.shown = FirstSpace /\ view.listOf = FirstSpace /\ view.list = {OldServer(FirstSpace)}
      /\ past.removed = {} /\ view.reply = [r \in Replies |-> [state |-> "no", text |-> 0, queued |-> 0]]
 BY DEF WorkspacesInit
<1>3. ~view.unlocking BY DEF WorkspacesInit
<1>4. OneLive BY <1>2 DEF OneLive, Live
<1>5. ToSet(toMain) = {} /\ ToSet(toWindow) = {} /\ On(toMain, "unlock") = {} /\ On(toWindow, "unlocked") = {}
      /\ Entries(toWindow) = {}
 BY <1>2 DEF ToSet, On, Entries
<1>6. EndsUpIn(toWindow, view.shown, hub.active) BY <1>2, <1>5 DEF EndsUpIn
<1>7. Travels(toMain, "unlock", hub.opening, toWindow, "unlocked", view.unlocking)
 BY <1>2, <1>3, <1>5 DEF Travels, Alone
<1>8. \A n : Pending(n) => Since(n) BY <1>2, <1>5 DEF Pending
<1>9. RightSpace BY <1>2, <1>5 DEF RightSpace, RightList
<1>10. ListsGood BY <1>2, <1>5, WorkspacesConstants DEF ListsGood, Good, ServersOf
<1> QED BY <1>1, <1>4, <1>6, <1>7, <1>8, <1>9, <1>10 DEF ListsInv

LEMMA ListsNext == ListsInv /\ [WorkspacesNext]_workspaces => ListsInv'
<1> SUFFICES ASSUME ListsInv, [WorkspacesNext]_workspaces PROVE ListsInv'
 OBVIOUS
<1>1. CASE StartSwitch BY <1>1, ListsAfterStart
<1>2. CASE EditList BY <1>2, ListsAfterEdit
<1>3. CASE LoadChats \/ Timer BY <1>3, ListsAfterLoad
<1>4. CASE Unlock BY <1>4, ListsAfterUnlock
<1>5. CASE HearMain BY <1>5, ListsAfterHearing
<1>6. CASE \E r \in Replies : AskReply(r) \/ Token(r) \/ Frame(r) \/ Finish(r)
 BY <1>6, ListsAfterReplies
<1>7. CASE HubAnswers BY <1>7, ListsAfterAnswering
<1>8. CASE WriteList BY <1>8, ListsAfterWriting
<1>9. CASE Opening BY <1>9, ListsAfterOpening
<1>10. CASE Switching BY <1>10, ListsAfterSwitching
<1>11. CASE UNCHANGED workspaces
 <2>1. hub' = hub /\ view' = view /\ toMain' = toMain /\ toWindow' = toWindow /\ past' = past
  BY <1>11 DEF workspaces
 <2>2. Typed' /\ OneLive' /\ EndsUpIn(toWindow, view.shown, hub.active)'
  BY <2>1 DEF ListsInv, Typed, OneLive, Live
 <2>3. Travels(toMain, "unlock", hub.opening, toWindow, "unlocked", view.unlocking)'
  BY <2>1 DEF ListsInv, Travels
 <2>4. \A n : Pending(n)' => Since(n)' BY <2>1 DEF ListsInv, Pending, Since
 <2>5. RightSpace' /\ ListsGood' BY <2>1 DEF ListsInv, RightSpace, ListsGood
 <2> QED BY <2>2, <2>3, <2>4, <2>5 DEF ListsInv
<1> QED BY <1>1, <1>2, <1>3, <1>4, <1>5, <1>6, <1>7, <1>8, <1>9, <1>10, <1>11 DEF WorkspacesNext

LEMMA ListsKeptThen == ListsInv => ListsKept
BY DEF ListsInv, ListsGood, Good, ListsKept

--------------------------------------------------
(* Switches, while none failed late or overlapped another *)

(* An answer on its way takes the window to another workspace. *)
Entering == \E m \in ToSet(toWindow) : m.kind = "switched" /\ m.ok

OneSwitch ==
  /\ Travels(toMain, "switch", hub.tasks, toWindow, "switched", view.switching /\ view.timers = 0)
  /\ view.timers \in {0, 1} /\ (view.timers = 1 => view.switching)
  /\ view.switching /\ view.timers = 0 => Live = {}

Places ==
  /\ \A m \in ToSet(toMain) : m.kind = "switch" => m.to # hub.active
  /\ \A t \in hub.tasks : /\ t.from = hub.active /\ t.to # hub.active
                          /\ hub.chat = IF t.at = "folder" THEN t.from ELSE t.to
  /\ hub.tasks = {} => hub.chat = hub.active
  /\ \A m \in ToSet(toWindow) : m.kind = "switched" /\ m.ok => m.to # view.shown

(* A locked workspace is shown only while the window is on its way out of it. *)
LeftOpen ==
  \/ view.shown \notin hub.closed
  \/ \E t \in hub.tasks : t.at \in {"left", "loaded"}
  \/ Entering

Veiled ==
  /\ LeftOpen \/ view.vault
  /\ \A t \in hub.tasks : t.at = "loaded" /\ t.to \in hub.closed => t.locked
  /\ \A m \in ToSet(toWindow) : m.kind = "switched" /\ m.ok /\ m.to \in hub.closed => m.locked
  /\ \A m \in ToSet(toWindow) : m.kind = "unlocked" /\ m.ok /\ ~view.left => LeftOpen

SwitchInv ==
  /\ OneSwitch /\ Places /\ Veiled
  /\ \A n : Pending(n) /\ ~view.left => n = view.rev

LEMMA NotEntering ==
  /\ On(toWindow, "switched") = {} => ~Entering
  /\ ~Entering <=> Entries(toWindow) = {}
BY DEF On, Entering, Entries, ToSet

SamePlace(v) == v.shown = view.shown /\ v.vault = view.vault /\ v.left = view.left /\ v.rev = view.rev

(* A step that leaves the switches, what is locked and what is shown alone. *)
LEMMA SwitchAside ==
  ASSUME SwitchInv, SamePlace(view'), SameVeil(view'),
         view.switching /\ view.timers = 0 => (Live = {})',
         hub'.tasks = hub.tasks, hub'.active = hub.active, hub'.chat = hub.chat, hub'.closed \subseteq hub.closed,
         On(toMain', "switch") = {} <=> On(toMain, "switch") = {}, Alone(On(toMain', "switch")),
         On(toWindow', "switched") = {} <=> On(toWindow, "switched") = {}, Alone(On(toWindow', "switched")),
         \A m \in ToSet(toMain') : m \in ToSet(toMain) \/ m.kind # "switch",
         \A m \in ToSet(toWindow) : m.kind = "switched" => m \in ToSet(toWindow'),
         \A m \in ToSet(toWindow') : \/ m \in ToSet(toWindow)
                                     \/ m.kind \notin {"switched", "unlocked"}
                                     \/ m.kind = "unlocked" /\ (m.ok /\ ~view.left => LeftOpen),
         \A n : Pending(n)' => Pending(n)
  PROVE  SwitchInv'
<1>1. Travels(toMain, "switch", hub.tasks, toWindow, "switched", view.switching /\ view.timers = 0)'
 BY DEF SwitchInv, OneSwitch, Travels, SameVeil
<1>2. OneSwitch' BY <1>1 DEF SwitchInv, OneSwitch, SameVeil
<1>3. Places' BY DEF SwitchInv, Places, SamePlace
<1>4. LeftOpen => LeftOpen' BY DEF LeftOpen, Entering, SamePlace
<1>5. Veiled' BY <1>4 DEF SwitchInv, Veiled, SamePlace
<1>6. (\A n : Pending(n) /\ ~view.left => n = view.rev)' BY DEF SwitchInv, SamePlace
<1> QED BY <1>2, <1>3, <1>5, <1>6 DEF SwitchInv

LEMMA SwitchAfterReplies ==
  ASSUME ListsInv, SwitchInv, NEW r \in Replies, AskReply(r) \/ Token(r) \/ Frame(r) \/ Finish(r)
  PROVE  SwitchInv'
<1>1. /\ hub' = hub /\ toWindow' = toWindow /\ SamePlace(view') /\ SameVeil(view') /\ Typed
 BY AskReplyDoes, TokenDoes, FinishDoes DEF ListsInv, SameList, SamePlace
<1>2. view.switching /\ view.timers = 0 => (Live = {})'
 <2>1. CASE AskReply(r) BY <1>1, <2>1, AskReplyDoes
 <2>2. CASE Token(r) \/ Frame(r) \/ Finish(r)
  <3>1. view.reply[r].state = "live" BY <1>1, <2>2, TokenDoes, FinishDoes
  <3> QED BY <3>1 DEF SwitchInv, OneSwitch, Live
 <2> QED BY <2>1, <2>2
<1>3. toMain' = toMain \/ \E m \in MainCalls : toMain' = Append(toMain, m) /\ m.kind = "chat"
 BY AskReplyDoes, TokenDoes, FinishDoes DEF ListsInv
<1>4. /\ On(toMain', "switch") = On(toMain, "switch")
      /\ \A m \in ToSet(toMain') : m \in ToSet(toMain) \/ m.kind = "chat"
 <2>1. toMain \in Seq(MainCalls) BY DEF ListsInv, Typed
 <2>2. ASSUME NEW m \in MainCalls, toMain' = Append(toMain, m), m.kind = "chat"
       PROVE  On(toMain', "switch") = On(toMain, "switch") /\ ToSet(toMain') = ToSet(toMain) \union {m}
  BY <2>1, <2>2, MainSent
 <2>3. CASE toMain' = toMain BY <2>3
 <2> QED BY <1>3, <2>2, <2>3
<1>5. Alone(On(toMain, "switch")) /\ Alone(On(toWindow, "switched"))
 BY DEF SwitchInv, OneSwitch, Travels
<1>6. \A n : Pending(n)' => Pending(n) BY <1>1, <1>4 DEF Pending
<1>7. /\ \A m \in ToSet(toMain') : m \in ToSet(toMain) \/ m.kind # "switch"
      /\ \A m \in ToSet(toWindow') : m \in ToSet(toWindow)
      /\ \A m \in ToSet(toWindow) : m \in ToSet(toWindow')
      /\ On(toWindow', "switched") = On(toWindow, "switched")
 BY <1>1, <1>4
<1> QED BY <1>1, <1>2, <1>4, <1>5, <1>6, <1>7, SwitchAside

LEMMA SwitchAfterEdit == ASSUME ListsInv, SwitchInv, EditList PROVE SwitchInv'
<1>1. /\ hub' = hub /\ toWindow' = toWindow /\ SamePlace(view') /\ SameVeil(view') /\ view'.reply = view.reply
      /\ toMain' = toMain \/ \E m \in MainCalls : toMain' = Append(toMain, m) /\ m.kind = "save"
 BY EditListDoes DEF ListsInv, SamePlace, SameChats
<1>2. view.switching /\ view.timers = 0 => (Live = {})' BY <1>1 DEF SwitchInv, OneSwitch, Live
<1>3. /\ On(toMain', "switch") = On(toMain, "switch")
      /\ \A m \in ToSet(toMain') : m \in ToSet(toMain) \/ m.kind = "save"
 <2>1. toMain \in Seq(MainCalls) BY DEF ListsInv, Typed
 <2>2. ASSUME NEW m \in MainCalls, toMain' = Append(toMain, m), m.kind = "save"
       PROVE  On(toMain', "switch") = On(toMain, "switch") /\ ToSet(toMain') = ToSet(toMain) \union {m}
  BY <2>1, <2>2, MainSent
 <2>3. CASE toMain' = toMain BY <2>3
 <2> QED BY <1>1, <2>2, <2>3
<1>4. Alone(On(toMain, "switch")) /\ Alone(On(toWindow, "switched"))
 BY DEF SwitchInv, OneSwitch, Travels
<1>5. \A n : Pending(n)' => Pending(n) BY <1>1, <1>3 DEF Pending
<1>6. /\ \A m \in ToSet(toMain') : m \in ToSet(toMain) \/ m.kind # "switch"
      /\ \A m \in ToSet(toWindow') : m \in ToSet(toWindow)
      /\ \A m \in ToSet(toWindow) : m \in ToSet(toWindow')
      /\ On(toWindow', "switched") = On(toWindow, "switched")
 BY <1>1, <1>3
<1> QED BY <1>1, <1>2, <1>3, <1>4, <1>5, <1>6, SwitchAside

LEMMA SwitchAfterLoad == ASSUME ListsInv, SwitchInv, LoadChats PROVE SwitchInv'
<1>1. /\ hub' = hub /\ toWindow' = toWindow /\ view' = view
      /\ \E m \in MainCalls : toMain' = Append(toMain, m) /\ m.kind = "list"
 BY LoadChatsDoes DEF ListsInv
<1>2. SamePlace(view') /\ SameVeil(view') /\ (view.switching /\ view.timers = 0 => (Live = {})')
 BY <1>1 DEF SwitchInv, OneSwitch, Live, SamePlace, SameVeil
<1>3. /\ On(toMain', "switch") = On(toMain, "switch")
      /\ \A m \in ToSet(toMain') : m \in ToSet(toMain) \/ m.kind = "list"
 <2>1. toMain \in Seq(MainCalls) BY DEF ListsInv, Typed
 <2> QED BY <1>1, <2>1, MainSent
<1>4. Alone(On(toMain, "switch")) /\ Alone(On(toWindow, "switched"))
 BY DEF SwitchInv, OneSwitch, Travels
<1>5. \A n : Pending(n)' => Pending(n) BY <1>1, <1>3 DEF Pending
<1>6. /\ \A m \in ToSet(toMain') : m \in ToSet(toMain) \/ m.kind # "switch"
      /\ \A m \in ToSet(toWindow') : m \in ToSet(toWindow)
      /\ \A m \in ToSet(toWindow) : m \in ToSet(toWindow')
      /\ On(toWindow', "switched") = On(toWindow, "switched")
 BY <1>1, <1>3
<1> QED BY <1>1, <1>2, <1>3, <1>4, <1>5, <1>6, SwitchAside

LEMMA SwitchAfterTimer == ASSUME ListsInv, SwitchInv, Timer PROVE SwitchInv'
<1>1. /\ hub' = hub /\ toWindow' = toWindow /\ toMain' = toMain
      /\ SamePlace(view') /\ view'.reply = view.reply
      /\ ~view'.switching /\ view.timers > 0 /\ view'.timers = view.timers - 1
 BY TimerDoes DEF ListsInv, SameList, SamePlace, SameChats
<1>2. view.timers = 1 /\ view'.timers = 0 BY <1>1 DEF SwitchInv, OneSwitch
<1>3. OneSwitch'
 <2>1. ~(view.switching /\ view.timers = 0) /\ ~(view'.switching /\ view'.timers = 0)
  BY <1>1, <1>2
 <2>2. Travels(toMain', "switch", hub'.tasks, toWindow', "switched", view'.switching /\ view'.timers = 0)
  BY <1>1, <2>1 DEF SwitchInv, OneSwitch, Travels
 <2> QED BY <1>1, <1>2, <2>2 DEF OneSwitch
<1>4. Places' /\ Veiled' BY <1>1 DEF SwitchInv, Places, Veiled, LeftOpen, Entering, SamePlace
<1>5. (\A n : Pending(n) /\ ~view.left => n = view.rev)'
 BY <1>1 DEF SwitchInv, Pending, SamePlace
<1> QED BY <1>3, <1>4, <1>5 DEF SwitchInv

LEMMA SwitchAfterUnlock == ASSUME ListsInv, SwitchInv, Unlock PROVE SwitchInv'
<1>1. /\ hub' = hub /\ toWindow' = toWindow /\ view'.shown = view.shown /\ view'.vault = view.vault
      /\ view'.reply = view.reply /\ SameVeil(view') /\ view'.rev = view.rev /\ ~view.unlocking
      /\ \E m \in MainCalls : toMain' = Append(toMain, m) /\ m.kind = "unlock" /\ m.rev = view.rev
 BY UnlockDoes DEF ListsInv, SameChats
<1>2. On(toMain, "unlock") = {} /\ hub.opening = {} /\ On(toWindow, "unlocked") = {}
 BY <1>1 DEF ListsInv, Travels
<1>3. /\ \A m \in ToSet(toMain) : m.kind # "unlock"
      /\ \A m \in ToSet(toWindow) : m.kind # "unlocked"
 BY <1>2 DEF On, ToSet
<1>4. PICK m \in MainCalls : toMain' = Append(toMain, m) /\ m.kind = "unlock" /\ m.rev = view.rev
 BY <1>1
<1>5. On(toMain', "switch") = On(toMain, "switch") /\ ToSet(toMain') = ToSet(toMain) \union {m}
 <2>1. toMain \in Seq(MainCalls) BY DEF ListsInv, Typed
 <2> QED BY <1>4, <2>1, MainSent
<1>6. OneSwitch' BY <1>1, <1>5 DEF SwitchInv, OneSwitch, Travels, SameVeil, Live
<1>7. Places' BY <1>1, <1>4, <1>5 DEF SwitchInv, Places
<1>8. Veiled' BY <1>1, <1>3 DEF SwitchInv, Veiled, LeftOpen, Entering
<1>9. (\A n : Pending(n) /\ ~view.left => n = view.rev)'
 BY <1>1, <1>2, <1>3, <1>4, <1>5 DEF Pending
<1> QED BY <1>6, <1>7, <1>8, <1>9 DEF SwitchInv

LEMMA SwitchAfterStart == ASSUME ListsInv, SwitchInv, StartSwitch, ~past'.torn PROVE SwitchInv'
<1>1. /\ hub' = hub /\ toWindow' = toWindow /\ view'.shown = view.shown /\ view'.vault = view.vault
      /\ view'.left = (view.left \/ ~view.switching) /\ view'.switching /\ view'.timers = view.timers
      /\ \A r \in Replies : \/ r \notin Live /\ view'.reply[r] = view.reply[r]
                            \/ r \in Live /\ view'.reply[r].state = "over"
      /\ past'.torn = (past.torn \/ SwitchUnderWay \/ view.switching)
 BY StartSwitchDoes DEF ListsInv, OneLive
<1>2. PICK m \in MainCalls :
        /\ m.kind = "switch" /\ m.to # view.shown
        /\ \/ toMain' = Append(toMain, m)
           \/ \E c \in MainCalls : toMain' = Append(Append(toMain, c), m) /\ c.kind = "chat"
 BY StartSwitchDoes DEF ListsInv, OneLive
<1>3. ~view.switching /\ view'.left /\ view'.timers = 0 BY <1>1 DEF SwitchInv, OneSwitch
<1>4. toMain \in Seq(MainCalls) BY DEF ListsInv, Typed
<1>5. Travels(toMain, "switch", hub.tasks, toWindow, "switched", FALSE)
 BY <1>3 DEF SwitchInv, OneSwitch, Travels
<1>6. /\ Travels(toMain', "switch", hub.tasks, toWindow, "switched", TRUE)
      /\ \A c \in ToSet(toMain') : c \in ToSet(toMain) \/ c = m \/ c.kind = "chat"
 <2>1. CASE toMain' = Append(toMain, m)
  <3>1. Travels(toMain', "switch", hub.tasks, toWindow, "switched", TRUE)
   BY <1>2, <1>4, <1>5, <2>1, TravelsSent
  <3>2. ToSet(toMain') = ToSet(toMain) \union {m} BY <1>4, <2>1, MainSent
  <3> QED BY <3>1, <3>2
 <2>2. ASSUME NEW c \in MainCalls, toMain' = Append(Append(toMain, c), m), c.kind = "chat"
       PROVE  /\ Travels(toMain', "switch", hub.tasks, toWindow, "switched", TRUE)
              /\ \A x \in ToSet(toMain') : x \in ToSet(toMain) \/ x = m \/ x.kind = "chat"
  <3>1. PICK q : q = Append(toMain, c) OBVIOUS
  <3>2. q \in Seq(MainCalls) /\ On(q, "switch") = On(toMain, "switch") /\ ToSet(q) = ToSet(toMain) \union {c}
   BY <1>4, <2>2, <3>1, MainSent
  <3>3. Travels(q, "switch", hub.tasks, toWindow, "switched", FALSE) BY <1>5, <3>2 DEF Travels
  <3>4. Travels(Append(q, m), "switch", hub.tasks, toWindow, "switched", TRUE)
   BY <1>2, <3>2, <3>3, TravelsSent
  <3>5. ToSet(Append(q, m)) = ToSet(q) \union {m} BY <3>2, MainSent
  <3> QED BY <2>2, <3>1, <3>2, <3>4, <3>5
 <2> QED BY <1>2, <2>1, <2>2
<1>7. OneSwitch'
 <2>1. (Live = {})' BY <1>1 DEF Live
 <2>2. Travels(toMain', "switch", hub'.tasks, toWindow', "switched", view'.switching /\ view'.timers = 0)
  BY <1>1, <1>3, <1>6 DEF Travels
 <2> QED BY <1>1, <1>3, <2>1, <2>2 DEF OneSwitch
<1>8. view.shown = hub.active
 <2>1. On(toWindow, "switched") = {} BY <1>5 DEF Travels
 <2> QED BY <2>1, NotEntering DEF ListsInv, EndsUpIn
<1>9. Places' BY <1>1, <1>2, <1>6, <1>8 DEF SwitchInv, Places
<1>10. Veiled' BY <1>1, <1>3 DEF SwitchInv, Veiled, LeftOpen, Entering
<1>11. (\A n : Pending(n) /\ ~view.left => n = view.rev)' BY <1>3
<1> QED BY <1>7, <1>9, <1>10, <1>11 DEF SwitchInv

LEMMA SwitchAfterHearing == ASSUME ListsInv, SwitchInv, HearMain PROVE SwitchInv'
<1>1. /\ hub' = hub /\ past' = past /\ toWindow # <<>> /\ toWindow' = Tail(toWindow)
 BY HearMainDoes DEF ListsInv
<1>2. PICK m \in WindowAnswers :
        /\ m = Head(toWindow)
        /\ \/ m.kind = "switched" /\ HearSwitch(m)
           \/ m.kind = "listed" /\ HearChats(m)
           \/ m.kind = "unlocked" /\ HearUnlocked(m)
 BY HearMainDoes DEF ListsInv
<1>3. toWindow \in Seq(WindowAnswers) /\ toMain \in Seq(MainCalls) /\ Typed
 BY DEF ListsInv, Typed
<1>4. ToSet(toWindow) = {m} \union ToSet(toWindow') BY <1>1, <1>2, <1>3, CallTaken
<1>5. /\ Alone(On(toWindow', "switched"))
      /\ m.kind # "switched" => (On(toWindow', "switched") = {} <=> On(toWindow, "switched") = {})
 BY <1>1, <1>2, <1>3, OnGot DEF SwitchInv, OneSwitch, Travels
<1>6. m.kind = "switched" =>
        /\ view.switching /\ view.timers = 0 /\ hub.tasks = {} /\ On(toMain, "switch") = {}
        /\ On(toWindow', "switched") = {}
 <2>1. m.kind = "switched" => On(toWindow, "switched") # {} /\ On(toWindow', "switched") = {}
  BY <1>1, <1>2, <1>3, OnGot DEF SwitchInv, OneSwitch, Travels
 <2> QED BY <2>1 DEF SwitchInv, OneSwitch, Travels
<1>7. Alone(On(toMain, "switch")) BY DEF SwitchInv, OneSwitch, Travels
<1>8. CASE m.kind = "switched" /\ HearSwitch(m)
 <2>1. /\ toMain' = toMain /\ view'.timers = view.timers + 1 /\ view'.switching = view.switching
       /\ ~m.ok => SamePlace(view')
       /\ m.ok => /\ view'.shown = m.to
                  /\ view.shown # m.to => view'.left
                  /\ m.locked => view'.vault
  BY <1>3, <1>8, HearSwitchDoes DEF SameList, SamePlace
 <2>2. view.switching /\ view'.switching /\ view'.timers = 1 BY <1>6, <1>8, <2>1
 <2>3. OneSwitch'
  <3>1. Travels(toMain', "switch", hub'.tasks, toWindow', "switched", view'.switching /\ view'.timers = 0)
   BY <1>1, <1>6, <1>8, <2>1, <2>2 DEF Travels, Alone
  <3> QED BY <2>2, <3>1 DEF OneSwitch
 <2>4. /\ \A x \in ToSet(toWindow') : x.kind # "switched"
       /\ \A x \in ToSet(toMain) : x.kind # "switch"
  BY <1>6, <1>8 DEF On, ToSet
 <2>5. Places' BY <1>1, <1>6, <1>8, <2>1, <2>4 DEF SwitchInv, Places
 <2>6. CASE m.ok
  <3>1. view'.left BY <1>4, <1>8, <2>1, <2>6 DEF SwitchInv, Places
  <3>2. m.to \in hub.closed => m.locked BY <1>4, <1>8, <2>6 DEF SwitchInv, Veiled
  <3>3. (LeftOpen \/ view.vault)' BY <1>1, <2>1, <2>6, <3>2 DEF LeftOpen
  <3>4. Veiled' BY <1>1, <1>6, <1>8, <2>4, <3>1, <3>3 DEF Veiled
  <3>5. (\A n : Pending(n) /\ ~view.left => n = view.rev)' BY <3>1
  <3> QED BY <2>3, <2>5, <3>4, <3>5 DEF SwitchInv
 <2>7. CASE ~m.ok
  <3>1. LeftOpen => LeftOpen'
   <4>1. ~Entering BY <1>4, <2>4, <2>7 DEF Entering
   <4> QED BY <1>1, <1>6, <1>8, <2>1, <2>7, <4>1 DEF LeftOpen, SamePlace
  <3>2. Veiled' BY <1>1, <1>4, <2>1, <2>7, <3>1 DEF SwitchInv, Veiled, SamePlace
  <3>3. (\A n : Pending(n) /\ ~view.left => n = view.rev)'
   BY <1>1, <1>4, <2>1, <2>7 DEF SwitchInv, Pending, SamePlace
  <3> QED BY <2>3, <2>5, <3>2, <3>3 DEF SwitchInv
 <2> QED BY <2>6, <2>7
<1>9. CASE m.kind = "listed" /\ HearChats(m)
 <2>1. /\ SamePlace(view') /\ SameVeil(view') /\ view'.reply = view.reply
       /\ toMain' = toMain \/ \E c \in MainCalls : toMain' = Append(toMain, c) /\ c.kind = "list"
  BY <1>3, <1>9, HearChatsDoes DEF SameList, SamePlace
 <2>2. view.switching /\ view.timers = 0 => (Live = {})' BY <2>1 DEF SwitchInv, OneSwitch, Live
 <2>3. /\ On(toMain', "switch") = On(toMain, "switch")
       /\ \A c \in ToSet(toMain') : c \in ToSet(toMain) \/ c.kind = "list"
  <3>1. ASSUME NEW c \in MainCalls, toMain' = Append(toMain, c), c.kind = "list"
        PROVE  On(toMain', "switch") = On(toMain, "switch") /\ ToSet(toMain') = ToSet(toMain) \union {c}
   BY <1>3, <3>1, MainSent
  <3>2. CASE toMain' = toMain BY <3>2
  <3> QED BY <2>1, <3>1, <3>2
 <2>4. \A n : Pending(n)' => Pending(n) BY <1>1, <1>4, <2>3 DEF Pending
 <2>5. /\ \A c \in ToSet(toMain') : c \in ToSet(toMain) \/ c.kind # "switch"
       /\ \A c \in ToSet(toWindow') : c \in ToSet(toWindow)
       /\ \A c \in ToSet(toWindow) : c.kind = "switched" => c \in ToSet(toWindow')
       /\ On(toWindow', "switched") = {} <=> On(toWindow, "switched") = {}
  BY <1>4, <1>5, <1>9, <2>3
 <2> QED BY <1>1, <1>5, <1>7, <2>1, <2>2, <2>3, <2>4, <2>5, SwitchAside
<1>10. CASE m.kind = "unlocked" /\ HearUnlocked(m)
 <2>1. /\ toMain' = toMain /\ view'.reply = view.reply /\ SameVeil(view')
       /\ view'.shown = view.shown /\ view'.left = view.left
       /\ \/ SameList(view')
          \/ ~view.left /\ m.rev # view.rev
          \/ ~view.left /\ m.ok
  BY <1>3, <1>10, HearUnlockedDoes DEF SameChats
 <2>2. /\ hub.opening = {} /\ On(toMain, "unlock") = {} /\ On(toWindow', "unlocked") = {}
  BY <1>1, <1>2, <1>3, <1>10, TravelsHeard DEF ListsInv
 <2>3. /\ \A x \in ToSet(toMain) : x.kind # "unlock"
       /\ \A x \in ToSet(toWindow') : x.kind # "unlocked"
  BY <2>2 DEF On, ToSet
 <2>4. OneSwitch'
  <3>1. Travels(toMain', "switch", hub'.tasks, toWindow', "switched", view'.switching /\ view'.timers = 0)
   BY <1>1, <1>5, <1>10, <2>1 DEF SwitchInv, OneSwitch, Travels, SameVeil
  <3> QED BY <2>1, <3>1 DEF SwitchInv, OneSwitch, SameVeil, Live
 <2>5. Places' BY <1>1, <1>4, <2>1 DEF SwitchInv, Places
 <2>6. LeftOpen => LeftOpen' BY <1>1, <1>4, <1>10, <2>1 DEF LeftOpen, Entering
 <2>7. (LeftOpen \/ view.vault)'
  <3>1. CASE SameList(view') BY <2>6, <3>1 DEF SwitchInv, Veiled, SameList
  <3>2. CASE ~view.left /\ m.rev # view.rev
   <4>1. Pending(m.rev) BY <1>4, <1>10 DEF Pending
   <4> QED BY <3>2, <4>1 DEF SwitchInv
  <3>3. CASE ~view.left /\ m.ok BY <1>4, <1>10, <2>6, <3>3 DEF SwitchInv, Veiled
  <3> QED BY <2>1, <3>1, <3>2, <3>3
 <2>8. Veiled' BY <1>1, <1>4, <2>3, <2>7 DEF SwitchInv, Veiled
 <2>9. (\A n : Pending(n) /\ ~view.left => n = view.rev)' BY <1>1, <2>1, <2>2, <2>3 DEF Pending
 <2> QED BY <2>4, <2>5, <2>8, <2>9 DEF SwitchInv
<1> QED BY <1>2, <1>8, <1>9, <1>10

LEMMA SwitchAfterAnswering == ASSUME ListsInv, SwitchInv, HubAnswers PROVE SwitchInv'
<1>1. /\ view' = view /\ past' = past /\ toMain # <<>> /\ toMain' = Tail(toMain)
 BY HubAnswersDoes DEF ListsInv
<1>2. PICK m \in MainCalls :
        /\ m = Head(toMain)
        /\ \/ m.kind = "switch" /\ Begin(m)
           \/ m.kind = "save" /\ BeginSave(m)
           \/ m.kind = "chat" /\ WriteChat(m)
           \/ m.kind = "list" /\ ReadChats(m)
           \/ m.kind = "unlock" /\ OpenWithPassword(m)
 BY HubAnswersDoes DEF ListsInv
<1>3. toWindow \in Seq(WindowAnswers) /\ toMain \in Seq(MainCalls) /\ Typed
 BY DEF ListsInv, Typed
<1>4. ToSet(toMain) = {m} \union ToSet(toMain') BY <1>1, <1>2, <1>3, CallTaken
<1>5. /\ Alone(On(toMain', "switch"))
      /\ m.kind # "switch" => (On(toMain', "switch") = {} <=> On(toMain, "switch") = {})
 BY <1>1, <1>2, <1>3, OnGot DEF SwitchInv, OneSwitch, Travels
<1>6. m.kind = "switch" =>
        /\ view.switching /\ view.timers = 0 /\ hub.tasks = {}
        /\ On(toMain', "switch") = {} /\ On(toWindow, "switched") = {}
        /\ \A t : Travels(toMain', "switch", {t}, toWindow, "switched", view.switching /\ view.timers = 0)
 BY <1>1, <1>2, <1>3, TravelsTaken DEF SwitchInv, OneSwitch
<1>7. SamePlace(view') /\ SameVeil(view') /\ (view.switching /\ view.timers = 0 => (Live = {})')
 BY <1>1 DEF SwitchInv, OneSwitch, Live, SamePlace, SameVeil
<1>8. Alone(On(toWindow, "switched")) BY DEF SwitchInv, OneSwitch, Travels
<1>9. CASE m.kind = "switch" /\ Begin(m)
 <2>1. PICK t \in Tasks :
         /\ toWindow' = toWindow /\ hub'.active = hub.active /\ hub'.closed = hub.closed /\ hub'.opening = hub.opening
         /\ hub'.tasks = hub.tasks \union {t} /\ t.to = m.to /\ t.from = hub.active
         /\ \/ t.at = "folder" /\ hub'.chat = hub.chat
            \/ t.at = "moved" /\ hub'.chat = t.to
  BY <1>3, <1>9, BeginDoes DEF SameData
 <2>2. hub'.tasks = {t} BY <1>6, <1>9, <2>1
 <2>3. OneSwitch'
  <3>1. Travels(toMain', "switch", {t}, toWindow, "switched", view.switching /\ view.timers = 0)
   BY <1>6, <1>9
  <3>2. Travels(toMain', "switch", hub'.tasks, toWindow', "switched", view'.switching /\ view'.timers = 0)
   BY <1>1, <2>1, <2>2, <3>1
  <3>3. /\ view'.timers \in {0, 1} /\ (view'.timers = 1 => view'.switching)
        /\ view'.switching /\ view'.timers = 0 => Live' = {}
   BY <1>1, <1>7 DEF SwitchInv, OneSwitch
  <3> QED BY <3>2, <3>3 DEF OneSwitch
 <2>4. t.to # hub.active /\ hub.chat = hub.active
  BY <1>4, <1>6, <1>9, <2>1 DEF SwitchInv, Places
 <2>5. Places' BY <1>1, <1>4, <2>1, <2>2, <2>4 DEF SwitchInv, Places
 <2>6. LeftOpen => LeftOpen' BY <1>1, <2>1 DEF LeftOpen, Entering
 <2>7. Veiled' BY <1>1, <2>1, <2>2, <2>6 DEF SwitchInv, Veiled
 <2>8. (\A n : Pending(n) /\ ~view.left => n = view.rev)'
  BY <1>1, <1>4, <2>1 DEF SwitchInv, Pending
 <2> QED BY <2>3, <2>5, <2>7, <2>8 DEF SwitchInv
<1>10. CASE (m.kind = "save" /\ BeginSave(m)) \/ (m.kind = "chat" /\ WriteChat(m)) \/ (m.kind = "list" /\ ReadChats(m))
 <2>1. /\ hub'.active = hub.active /\ hub'.chat = hub.chat /\ hub'.tasks = hub.tasks
       /\ hub'.closed = hub.closed /\ hub'.opening = hub.opening
       /\ toWindow' = toWindow \/ \E a \in WindowAnswers : toWindow' = Append(toWindow, a) /\ a.kind = "listed"
  BY <1>3, <1>10, BeginSaveDoes, WriteChatDoes, ReadChatsDoes DEF SameTasks, SameData
 <2>2. /\ On(toWindow', "switched") = On(toWindow, "switched")
       /\ \A a \in ToSet(toWindow) : a \in ToSet(toWindow')
       /\ \A a \in ToSet(toWindow') : a \in ToSet(toWindow) \/ a.kind = "listed"
  <3>1. ASSUME NEW a \in WindowAnswers, toWindow' = Append(toWindow, a), a.kind = "listed"
        PROVE  On(toWindow', "switched") = On(toWindow, "switched") /\ ToSet(toWindow') = ToSet(toWindow) \union {a}
   BY <1>3, <3>1, WindowSent
  <3>2. CASE toWindow' = toWindow BY <3>2
  <3> QED BY <2>1, <3>1, <3>2
 <2>3. \A n : Pending(n)' => Pending(n) BY <1>4, <2>1, <2>2 DEF Pending
 <2>4. /\ \A c \in ToSet(toMain') : c \in ToSet(toMain)
       /\ On(toMain', "switch") = {} <=> On(toMain, "switch") = {}
       /\ \A a \in ToSet(toWindow') : a \in ToSet(toWindow) \/ a.kind \notin {"switched", "unlocked"}
  BY <1>4, <1>5, <1>10, <2>2
 <2> QED BY <1>5, <1>7, <1>8, <2>1, <2>2, <2>3, <2>4, SwitchAside
<1>11. CASE m.kind = "unlock" /\ OpenWithPassword(m)
 <2>1. PICK o : /\ toWindow' = toWindow /\ hub'.active = hub.active /\ hub'.chat = hub.chat /\ hub'.tasks = hub.tasks
                /\ hub'.closed = hub.closed /\ hub'.opening = hub.opening \union {o} /\ o.rev = m.rev
  BY <1>3, <1>11, OpenWithPasswordDoes DEF SameTasks
 <2>2. \A n : Pending(n)' => Pending(n) BY <1>4, <1>11, <2>1 DEF Pending
 <2>3. /\ \A c \in ToSet(toMain') : c \in ToSet(toMain)
       /\ On(toMain', "switch") = {} <=> On(toMain, "switch") = {}
       /\ \A a \in ToSet(toWindow') : a \in ToSet(toWindow)
       /\ \A a \in ToSet(toWindow) : a \in ToSet(toWindow')
       /\ On(toWindow', "switched") = On(toWindow, "switched")
  BY <1>4, <1>5, <1>11, <2>1
 <2> QED BY <1>5, <1>7, <1>8, <2>1, <2>2, <2>3, SwitchAside
<1> QED BY <1>2, <1>9, <1>10, <1>11

LEMMA SwitchAfterWriting == ASSUME ListsInv, SwitchInv, WriteList \/ Opening PROVE SwitchInv'
<1>1. /\ view' = view /\ toMain' = toMain /\ past' = past
      /\ hub'.active = hub.active /\ hub'.chat = hub.chat /\ hub'.tasks = hub.tasks /\ hub'.closed \subseteq hub.closed
 BY WriteListDoes, OpeningDoes DEF ListsInv, SameTasks
<1>2. SamePlace(view') /\ SameVeil(view') /\ (view.switching /\ view.timers = 0 => (Live = {})')
 BY <1>1 DEF SwitchInv, OneSwitch, Live, SamePlace, SameVeil
<1>3. Alone(On(toMain, "switch")) /\ Alone(On(toWindow, "switched")) /\ toWindow \in Seq(WindowAnswers)
 BY DEF SwitchInv, OneSwitch, Travels, ListsInv, Typed
<1>4. CASE WriteList
 <2>1. hub'.opening = hub.opening /\ toWindow' = toWindow BY <1>4, WriteListDoes DEF ListsInv
 <2>2. \A n : Pending(n)' => Pending(n) BY <1>1, <2>1 DEF Pending
 <2> QED BY <1>1, <1>2, <1>3, <2>1, <2>2, SwitchAside
<1>5. CASE Opening
 <2>1. PICK o \in hub.opening :
         \/ /\ toWindow' = toWindow
            /\ \E p : hub'.opening = (hub.opening \ {o}) \union {p} /\ p.rev = o.rev
         \/ /\ hub'.opening = hub.opening \ {o}
            /\ \E a \in WindowAnswers :
                 /\ toWindow' = Append(toWindow, a) /\ a.kind = "unlocked" /\ a.rev = o.rev
                 /\ a.ok => o.space \notin hub.closed
  BY <1>5, OpeningDoes DEF ListsInv
 <2>2. CASE toWindow' = toWindow /\ \E p : hub'.opening = (hub.opening \ {o}) \union {p} /\ p.rev = o.rev
  <3>1. \A n : Pending(n)' => Pending(n) BY <1>1, <2>2 DEF Pending
  <3> QED BY <1>1, <1>2, <1>3, <2>2, <3>1, SwitchAside
 <2>3. ASSUME hub'.opening = hub.opening \ {o}, NEW a \in WindowAnswers,
              toWindow' = Append(toWindow, a), a.kind = "unlocked", a.rev = o.rev, a.ok => o.space \notin hub.closed
       PROVE  SwitchInv'
  <3>1. On(toWindow', "switched") = On(toWindow, "switched") /\ ToSet(toWindow') = ToSet(toWindow) \union {a}
   BY <1>3, <2>3, WindowSent
  <3>2. \A n : Pending(n)' => Pending(n) BY <1>1, <2>3, <3>1 DEF Pending
  <3>3. a.ok /\ ~view.left => LeftOpen
   <4>1. ASSUME ~view.left PROVE o.space = view.shown \/ Entering
    <5>1. Leads(toWindow, view.shown) => Entries(toWindow) # {} BY DEF Leads
    <5> QED BY <4>1, <5>1, NotEntering DEF ListsInv, RightSpace
   <4> QED BY <2>3, <4>1 DEF LeftOpen
  <3>4. /\ \A x \in ToSet(toWindow) : x \in ToSet(toWindow')
        /\ \A x \in ToSet(toWindow') : \/ x \in ToSet(toWindow)
                                       \/ x.kind = "unlocked" /\ (x.ok /\ ~view.left => LeftOpen)
   BY <2>3, <3>1, <3>3
  <3> QED BY <1>1, <1>2, <1>3, <3>1, <3>2, <3>4, SwitchAside
 <2> QED BY <2>1, <2>2, <2>3
<1> QED BY <1>4, <1>5

LEMMA SwitchAfterSwitching == ASSUME ListsInv, SwitchInv, Switching, ~past'.torn PROVE SwitchInv'
<1>1. view' = view /\ toMain' = toMain BY DEF Switching
<1>2. PICK t \in hub.tasks : MakeFolder(t) \/ Leave(t) \/ Load(t) \/ Commit(t) \/ Fail(t)
 BY DEF Switching
<1>3. toWindow \in Seq(WindowAnswers) /\ toMain \in Seq(MainCalls) /\ Typed
 BY DEF ListsInv, Typed
<1>4. /\ hub.tasks = {t} /\ view.switching /\ view.timers = 0
      /\ On(toMain, "switch") = {} /\ On(toWindow, "switched") = {}
 BY DEF SwitchInv, OneSwitch, Travels, Alone
<1>5. /\ t.from = hub.active /\ t.to # hub.active /\ view.shown = hub.active
      /\ hub.chat = IF t.at = "folder" THEN t.from ELSE t.to
      /\ ~Entering
 BY <1>4, NotEntering DEF SwitchInv, Places, ListsInv, EndsUpIn
<1>6. /\ \A m \in ToSet(toMain) : m.kind # "switch"
      /\ \A m \in ToSet(toWindow) : m.kind # "switched"
 BY <1>4 DEF On, ToSet
<1>7. Live' = {} BY <1>1, <1>4 DEF SwitchInv, OneSwitch, Live
<1>8. ASSUME NEW u, hub'.tasks = (hub.tasks \ {t}) \union {u}, toWindow' = toWindow,
             hub'.active = hub.active, hub'.opening = hub.opening, u.from = t.from, u.to = t.to, u.at # "folder",
             hub'.chat = t.to,
             hub'.closed = hub.closed \/ (u.at = "left" /\ hub'.closed \subseteq hub.closed \union {t.from}),
             t.at \in {"left", "loaded"} => u.at \in {"left", "loaded"},
             u.at = "loaded" /\ u.to \in hub.closed => u.locked
      PROVE  SwitchInv'
 <2>1. hub'.tasks = {u} BY <1>4, <1>8
 <2>2. Travels(toMain', "switch", hub'.tasks, toWindow', "switched", view'.switching /\ view'.timers = 0)
  BY <1>1, <1>4, <1>8, <2>1 DEF SwitchInv, OneSwitch, Travels, Alone
 <2>3. OneSwitch' BY <1>1, <1>7, <2>2 DEF SwitchInv, OneSwitch
 <2>4. Places' BY <1>1, <1>5, <1>6, <1>8, <2>1 DEF Places
 <2>5. u.at # "left" => hub'.closed = hub.closed BY <1>8
 <2>6. LeftOpen => LeftOpen'
  <3>1. CASE u.at \in {"left", "loaded"} BY <2>1, <3>1 DEF LeftOpen
  <3>2. CASE u.at \notin {"left", "loaded"} BY <1>1, <1>4, <1>5, <1>8, <3>2 DEF LeftOpen
  <3> QED BY <3>1, <3>2
 <2>7. \A x \in hub'.tasks : x.at = "loaded" /\ x.to \in hub'.closed => x.locked BY <1>8, <2>1
 <2>8. Veiled' BY <1>1, <1>6, <1>8, <2>6, <2>7 DEF SwitchInv, Veiled
 <2>9. (\A n : Pending(n) /\ ~view.left => n = view.rev)' BY <1>1, <1>8 DEF SwitchInv, Pending
 <2> QED BY <2>3, <2>4, <2>8, <2>9 DEF SwitchInv
<1>9. ASSUME NEW a \in WindowAnswers, hub'.tasks = hub.tasks \ {t}, toWindow' = Append(toWindow, a),
             a.kind = "switched", hub'.chat = hub.chat, hub'.opening = hub.opening, hub'.closed = hub.closed,
             \/ a.ok /\ t.at = "loaded" /\ a.to = t.to /\ a.locked = t.locked /\ hub'.active = t.to
             \/ ~a.ok /\ t.at = "folder" /\ hub'.active = hub.active
      PROVE  SwitchInv'
 <2>1. ToSet(toWindow') = ToSet(toWindow) \union {a} BY <1>3, <1>9, WindowSent
 <2>2. PICK b \in BOOLEAN : b = (view.switching /\ view.timers = 0) OBVIOUS
 <2>3. hub'.tasks = {} BY <1>4, <1>9
 <2>4. Travels(toMain', "switch", hub'.tasks, toWindow', "switched", view'.switching /\ view'.timers = 0)
  <3>1. Travels(toMain, "switch", hub.tasks, toWindow, "switched", b)
   BY <2>2 DEF SwitchInv, OneSwitch
  <3>2. Travels(toMain, "switch", hub.tasks \ {t}, Append(toWindow, a), "switched", b)
   BY <1>3, <1>9, <3>1, TravelsAnswered
  <3> QED BY <1>1, <1>9, <2>2, <3>2
 <2>5. OneSwitch' BY <1>1, <1>7, <2>4 DEF SwitchInv, OneSwitch
 <2>6. Places'
  <3>1. hub'.chat = hub'.active BY <1>5, <1>9
  <3>2. \A m \in ToSet(toWindow') : m.kind = "switched" /\ m.ok => m.to # view'.shown
   BY <1>1, <1>5, <1>6, <1>9, <2>1
  <3> QED BY <1>1, <1>6, <2>3, <3>1, <3>2 DEF Places
 <2>7. LeftOpen => LeftOpen'
  <3>1. CASE a.ok
   <4>1. Entering' BY <1>9, <2>1, <3>1 DEF Entering
   <4> QED BY <4>1 DEF LeftOpen
  <3>2. CASE ~a.ok BY <1>1, <1>4, <1>5, <1>9, <3>2 DEF LeftOpen
  <3> QED BY <3>1, <3>2
 <2>8. Veiled'
  <3>1. a.ok /\ a.to \in hub.closed => a.locked BY <1>9 DEF SwitchInv, Veiled
  <3>2. \A m \in ToSet(toWindow') : m.kind = "switched" /\ m.ok /\ m.to \in hub'.closed => m.locked
   BY <1>6, <1>9, <2>1, <3>1
  <3>3. \A m \in ToSet(toWindow') : m.kind = "unlocked" /\ m.ok /\ ~view'.left => LeftOpen'
   BY <1>1, <1>9, <2>1, <2>7 DEF SwitchInv, Veiled
  <3>4. LeftOpen' \/ view'.vault BY <1>1, <2>7 DEF SwitchInv, Veiled
  <3> QED BY <2>3, <3>2, <3>3, <3>4 DEF Veiled
 <2>9. (\A n : Pending(n) /\ ~view.left => n = view.rev)'
  BY <1>1, <1>9, <2>1 DEF SwitchInv, Pending
 <2> QED BY <2>5, <2>6, <2>8, <2>9 DEF SwitchInv
<1>10. CASE MakeFolder(t)
 <2>1. PICK u \in Tasks :
         /\ toWindow' = toWindow /\ SameData(hub') /\ hub'.active = hub.active /\ t.at = "folder" /\ hub'.chat = t.to
         /\ hub'.tasks = (hub.tasks \ {t}) \union {u} /\ u.to = t.to /\ u.from = t.from /\ u.at = "moved"
  BY <1>3, <1>10, MakeFolderDoes
 <2> QED BY <1>8, <2>1 DEF SameData
<1>11. CASE Leave(t)
 <2>1. PICK u \in Tasks :
         /\ toWindow' = toWindow /\ hub'.opening = hub.opening /\ hub'.active = hub.active /\ hub'.chat = hub.chat
         /\ t.at = "moved" /\ hub'.closed \subseteq hub.closed \union {t.from}
         /\ hub'.tasks = (hub.tasks \ {t}) \union {u} /\ u.to = t.to /\ u.from = t.from /\ u.at = "left"
  BY <1>3, <1>11, LeaveDoes
 <2>2. hub'.chat = t.to BY <1>5, <2>1
 <2> QED BY <1>8, <2>1, <2>2
<1>12. CASE Load(t)
 <2>1. PICK u \in Tasks :
         /\ toWindow' = toWindow /\ SameData(hub') /\ hub'.active = hub.active /\ hub'.chat = hub.chat
         /\ t.at = "left" /\ (t.to \in hub.closed => u.locked)
         /\ hub'.tasks = (hub.tasks \ {t}) \union {u} /\ u.to = t.to /\ u.from = t.from /\ u.at = "loaded"
  BY <1>3, <1>12, LoadDoes
 <2>2. hub'.chat = t.to BY <1>5, <2>1
 <2> QED BY <1>8, <2>1, <2>2 DEF SameData
<1>13. CASE Commit(t)
 <2>1. PICK a \in WindowAnswers :
         /\ SameData(hub') /\ hub'.chat = hub.chat /\ t.at = "loaded" /\ hub'.active = t.to
         /\ hub'.tasks = hub.tasks \ {t}
         /\ toWindow' = Append(toWindow, a) /\ a.kind = "switched" /\ a.ok /\ a.to = t.to /\ a.locked = t.locked
  BY <1>3, <1>13, CommitDoes
 <2> QED BY <1>9, <2>1 DEF SameData
<1>14. CASE Fail(t)
 <2>1. PICK a \in WindowAnswers :
         /\ SameData(hub') /\ hub'.chat = hub.chat /\ hub'.active = hub.active /\ hub'.tasks = hub.tasks \ {t}
         /\ past'.torn = (past.torn \/ t.at # "folder")
         /\ toWindow' = Append(toWindow, a) /\ a.kind = "switched" /\ ~a.ok
  BY <1>3, <1>14, FailDoes
 <2>2. t.at = "folder" BY <2>1
 <2> QED BY <1>9, <2>1, <2>2 DEF SameData
<1> QED BY <1>2, <1>10, <1>11, <1>12, <1>13, <1>14

LEMMA SwitchInit == WorkspacesInit => SwitchInv
<1> SUFFICES ASSUME WorkspacesInit PROVE SwitchInv
 OBVIOUS
<1>1. /\ toMain = <<>> /\ toWindow = <<>> /\ hub.tasks = {} /\ hub.opening = {} /\ view.timers = 0 /\ ~view.switching
      /\ hub.chat = hub.active /\ view.shown = hub.active /\ view.shown \notin hub.closed
 BY DEF WorkspacesInit
<1>2. On(toMain, "switch") = {} /\ On(toWindow, "switched") = {} /\ ToSet(toMain) = {} /\ ToSet(toWindow) = {}
 BY <1>1 DEF On, ToSet
<1>3. OneSwitch BY <1>1, <1>2 DEF OneSwitch, Travels, Alone
<1>4. Places BY <1>1, <1>2 DEF Places
<1>5. Veiled BY <1>1, <1>2 DEF Veiled, LeftOpen
<1>6. \A n : ~Pending(n) BY <1>1, <1>2 DEF Pending
<1> QED BY <1>3, <1>4, <1>5, <1>6 DEF SwitchInv

LEMMA SwitchNext == ASSUME ListsInv, SwitchInv, [WorkspacesNext]_workspaces, ~past'.torn PROVE SwitchInv'
<1>1. CASE StartSwitch BY <1>1, SwitchAfterStart
<1>2. CASE EditList BY <1>2, SwitchAfterEdit
<1>3. CASE LoadChats BY <1>3, SwitchAfterLoad
<1>4. CASE Timer BY <1>4, SwitchAfterTimer
<1>5. CASE Unlock BY <1>5, SwitchAfterUnlock
<1>6. CASE HearMain BY <1>6, SwitchAfterHearing
<1>7. CASE \E r \in Replies : AskReply(r) \/ Token(r) \/ Frame(r) \/ Finish(r)
 BY <1>7, SwitchAfterReplies
<1>8. CASE HubAnswers BY <1>8, SwitchAfterAnswering
<1>9. CASE WriteList \/ Opening BY <1>9, SwitchAfterWriting
<1>10. CASE Switching BY <1>10, SwitchAfterSwitching
<1>11. CASE UNCHANGED workspaces
 <2>1. hub' = hub /\ view' = view /\ toMain' = toMain /\ toWindow' = toWindow /\ past' = past
  BY <1>11 DEF workspaces
 <2>2. Travels(toMain, "switch", hub.tasks, toWindow, "switched", view.switching /\ view.timers = 0)'
  BY <2>1 DEF SwitchInv, OneSwitch, Travels
 <2>3. OneSwitch' BY <2>1, <2>2 DEF SwitchInv, OneSwitch, Live
 <2>4. Places' /\ Veiled' BY <2>1 DEF SwitchInv, Places, Veiled, LeftOpen, Entering
 <2>5. (\A n : Pending(n) /\ ~view.left => n = view.rev)' BY <2>1 DEF SwitchInv, Pending
 <2> QED BY <2>3, <2>4, <2>5 DEF SwitchInv
<1> QED BY <1>1, <1>2, <1>3, <1>4, <1>5, <1>6, <1>7, <1>8, <1>9, <1>10, <1>11 DEF WorkspacesNext

(* A failed or overlapping switch stays one. *)
LEMMA TornStays == ASSUME ListsInv, [WorkspacesNext]_workspaces, past.torn PROVE past'.torn
<1>1. Typed /\ \A r, s \in Live : r = s BY DEF ListsInv, OneLive
<1>2. CASE StartSwitch BY <1>1, <1>2, StartSwitchDoes
<1>3. CASE EditList BY <1>1, <1>3, EditListDoes
<1>4. CASE \E r \in Replies : AskReply(r) \/ Token(r) \/ Frame(r) \/ Finish(r)
 <2>1. PICK r \in Replies : AskReply(r) \/ Token(r) \/ Frame(r) \/ Finish(r) BY <1>4
 <2> QED BY <1>1, <2>1, AskReplyDoes, TokenDoes, FinishDoes
<1>5. CASE LoadChats \/ Unlock \/ Timer \/ HearMain
 BY <1>5 DEF LoadChats, Unlock, Timer, HearMain
<1>6. CASE HubAnswers \/ WriteList \/ Opening BY <1>6 DEF HubAnswers, WriteList, Opening
<1>7. CASE Switching
 <2>1. PICK t \in hub.tasks : MakeFolder(t) \/ Leave(t) \/ Load(t) \/ Commit(t) \/ Fail(t)
  BY <1>7 DEF Switching
 <2> QED BY <1>1, <2>1, FailDoes DEF MakeFolder, Leave, Load, Commit
<1>8. CASE UNCHANGED workspaces BY <1>8 DEF workspaces
<1> QED BY <1>2, <1>3, <1>4, <1>5, <1>6, <1>7, <1>8 DEF WorkspacesNext

(* At rest, the window and the main process agree. *)
LEMMA InStepThen == ASSUME ListsInv, ~past.torn => SwitchInv PROVE InStep
<1> SUFFICES ASSUME Still
             PROVE  /\ view.shown = hub.active /\ (view.vault \/ view.listOf \in {NoSpace, hub.active})
                    /\ ~past.torn => hub.chat = hub.active /\ (hub.active \in hub.closed => view.vault)
 BY DEF InStep
<1>1. toMain = <<>> /\ toWindow = <<>> /\ hub.tasks = {} BY DEF Still
<1>2. ToSet(toWindow) = {} /\ Entries(toWindow) = {} BY <1>1 DEF ToSet, Entries
<1>3. view.shown = hub.active BY <1>2 DEF ListsInv, EndsUpIn
<1>4. view.vault \/ view.listOf \in {NoSpace, hub.active} BY <1>3 DEF ListsInv, ListsGood
<1>5. ~past.torn => hub.chat = hub.active /\ (hub.active \in hub.closed => view.vault)
 BY <1>1, <1>2, <1>3 DEF SwitchInv, Places, Veiled, LeftOpen, Entering
<1> QED BY <1>3, <1>4, <1>5

--------------------------------------------------
(* The chats the window and the disk know of were asked for *)

Asked == {r \in Replies : view.reply[r].state # "no"}

Known ==
  /\ \A r \in Asked : past.asked[r] \in Spaces
  /\ \A w \in Spaces, r \in Replies : hub.chats[w][r] # NotSaved => r \in Asked
  /\ view.listed \subseteq Asked
  /\ \A m \in ToSet(toMain) : /\ m.kind = "chat" => m.reply \in Asked
                              /\ m.kind = "list" => m.got \subseteq Asked /\ m.epoch <= view.epoch
  /\ \A m \in ToSet(toWindow) : m.kind = "listed" => m.got \subseteq Asked /\ m.epoch <= view.epoch

LEMMA Epochs ==
  /\ \A m \in MainCalls : m.kind = "list" => m.epoch \in Nat /\ m.got \subseteq Replies
  /\ \A m \in MainCalls : m.kind = "chat" => m.reply \in Replies
  /\ \A m \in WindowAnswers : m.kind = "listed" => m.epoch \in Nat /\ m.got \subseteq Replies
BY DEF MainCalls, WindowAnswers

LEMMA KnownAside ==
  ASSUME Typed, Typed', Known, Asked \subseteq Asked', view'.epoch >= view.epoch,
         \A r \in Asked : past'.asked[r] = past.asked[r],
         \A r \in Asked' \ Asked : past'.asked[r] \in Spaces,
         \A w \in Spaces, r \in Replies :
           hub'.chats[w][r] = hub.chats[w][r] \/ r \in Asked,
         view'.listed \subseteq Asked',
         \A m \in ToSet(toMain') :
           \/ m \in ToSet(toMain)
           \/ /\ m.kind = "chat" => m.reply \in Asked'
              /\ m.kind = "list" => m.got \subseteq Asked /\ m.epoch <= view.epoch,
         \A m \in ToSet(toWindow') :
           \/ m \in ToSet(toWindow)
           \/ m.kind = "listed" => m.got \subseteq Asked /\ m.epoch <= view.epoch
  PROVE  Known'
<1>1. view.epoch \in Nat /\ view'.epoch \in Nat BY DEF Typed, Views
<1>2. ToSet(toMain') \subseteq MainCalls /\ ToSet(toWindow') \subseteq WindowAnswers
 BY DEF Typed, ToSet
<1>3. \A m \in ToSet(toMain') : /\ m.kind = "chat" => m.reply \in Asked'
                                /\ m.kind = "list" => m.got \subseteq Asked' /\ m.epoch <= view'.epoch
 <2>1. SUFFICES ASSUME NEW m \in ToSet(toMain')
                PROVE  /\ m.kind = "chat" => m.reply \in Asked'
                       /\ m.kind = "list" => m.got \subseteq Asked' /\ m.epoch <= view'.epoch
  OBVIOUS
 <2>2. m.kind = "chat" => m.reply \in Asked' BY DEF Known
 <2>3. m.kind = "list" => m.got \subseteq Asked /\ m.epoch <= view.epoch /\ m.epoch \in Nat
  BY <1>2, Epochs DEF Known
 <2> QED BY <1>1, <2>2, <2>3
<1>4. \A m \in ToSet(toWindow') : m.kind = "listed" => m.got \subseteq Asked' /\ m.epoch <= view'.epoch
 <2>1. SUFFICES ASSUME NEW m \in ToSet(toWindow'), m.kind = "listed"
                PROVE  m.got \subseteq Asked' /\ m.epoch <= view'.epoch
  OBVIOUS
 <2>2. m.got \subseteq Asked /\ m.epoch <= view.epoch /\ m.epoch \in Nat
  BY <1>2, <2>1, Epochs DEF Known
 <2> QED BY <1>1, <2>2
<1>5. \A r \in Asked' : past'.asked[r] \in Spaces BY DEF Known
<1>6. \A w \in Spaces, r \in Replies : hub'.chats[w][r] # NotSaved => r \in Asked' BY DEF Known
<1> QED BY <1>3, <1>4, <1>5, <1>6 DEF Known

LEMMA KnownInit == WorkspacesInit => Known
<1> SUFFICES ASSUME WorkspacesInit PROVE Known
 OBVIOUS
<1>1. Asked = {} /\ view.listed = {} /\ \A w \in Spaces, r \in Replies : hub.chats[w][r] = NotSaved
 BY DEF WorkspacesInit, Asked
<1>2. ToSet(toMain) = {} /\ ToSet(toWindow) = {} BY DEF WorkspacesInit, ToSet
<1> QED BY <1>1, <1>2 DEF Known

LEMMA KnownNext == ASSUME ListsInv, Known, [WorkspacesNext]_workspaces PROVE Known'
<1>1. /\ Typed /\ \A r, s \in Live : r = s
      /\ toMain \in Seq(MainCalls) /\ toWindow \in Seq(WindowAnswers) /\ view.epoch \in Nat
      /\ view.reply \in [Replies -> ReplyTexts]
 BY DEF ListsInv, OneLive, Typed, Views
<1>2. Typed' BY ListsNext DEF ListsInv
<1>3. view'.epoch \in Nat BY <1>2 DEF Typed, Views
<1>4. view.listed \subseteq Asked BY DEF Known
<1>5. CASE StartSwitch
 <2>1. /\ hub' = hub /\ toWindow' = toWindow /\ view'.listed = view.listed /\ view'.epoch >= view.epoch
       /\ past'.asked = past.asked
       /\ \A r \in Replies : view'.reply[r] = view.reply[r] \/ (r \in Live /\ view'.reply[r].state = "over")
  BY <1>1, <1>5, StartSwitchDoes
 <2>2. PICK m \in MainCalls :
         /\ m.kind = "switch"
         /\ \/ toMain' = Append(toMain, m)
            \/ \E r \in Live, c \in MainCalls :
                 toMain' = Append(Append(toMain, c), m) /\ c.kind = "chat" /\ c.reply = r
  BY <1>1, <1>5, StartSwitchDoes
 <2>3. Live \subseteq Asked /\ Asked' = Asked BY <2>1 DEF Asked, Live
 <2>4. \A c \in ToSet(toMain') : c \in ToSet(toMain) \/ c.kind = "switch" \/ (c.kind = "chat" /\ c.reply \in Asked)
  <3>1. CASE toMain' = Append(toMain, m)
   <4>1. ToSet(toMain') = ToSet(toMain) \union {m} BY <1>1, <3>1, MainSent
   <4> QED BY <2>2, <4>1
  <3>2. ASSUME NEW r \in Live, NEW c \in MainCalls,
               toMain' = Append(Append(toMain, c), m), c.kind = "chat", c.reply = r
        PROVE  \A x \in ToSet(toMain') : \/ x \in ToSet(toMain) \/ x.kind = "switch"
                                         \/ (x.kind = "chat" /\ x.reply \in Asked)
   <4>1. PICK q : q = Append(toMain, c) OBVIOUS
   <4>2. q \in Seq(MainCalls) /\ ToSet(q) = ToSet(toMain) \union {c} BY <1>1, <4>1, MainSent
   <4>3. ToSet(toMain') = ToSet(q) \union {m} BY <3>2, <4>1, <4>2, MainSent
   <4> QED BY <2>2, <2>3, <3>2, <4>2, <4>3
  <3> QED BY <2>2, <3>1, <3>2
 <2> QED BY <1>1, <1>2, <1>4, <2>1, <2>3, <2>4, KnownAside
<1>6. CASE EditList \/ LoadChats \/ Unlock
 <2>1. /\ hub' = hub /\ toWindow' = toWindow /\ view'.listed = view.listed /\ view'.epoch = view.epoch
       /\ view'.reply = view.reply /\ past'.asked = past.asked
       /\ \/ toMain' = toMain
          \/ \E m \in MainCalls : /\ toMain' = Append(toMain, m) /\ m.kind # "chat"
                                  /\ m.kind = "list" => m.got = {} /\ m.epoch = view.epoch
  BY <1>1, <1>6, EditListDoes, LoadChatsDoes, UnlockDoes DEF SameChats
 <2>2. Asked' = Asked BY <2>1 DEF Asked
 <2>3. ASSUME NEW m \in MainCalls, toMain' = Append(toMain, m) PROVE ToSet(toMain') = ToSet(toMain) \union {m}
  BY <1>1, <2>3, MainSent
 <2>4. \A m \in ToSet(toMain') :
         \/ m \in ToSet(toMain)
         \/ m.kind # "chat" /\ (m.kind = "list" => m.got = {} /\ m.epoch = view.epoch)
  BY <2>1, <2>3
 <2>5. view.epoch <= view.epoch /\ view'.epoch >= view.epoch BY <1>1, <2>1
 <2> QED BY <1>1, <1>2, <1>4, <2>1, <2>2, <2>4, <2>5, KnownAside
<1>7. CASE Timer \/ WriteList
 <2>1. /\ hub'.chats = hub.chats /\ toWindow' = toWindow /\ toMain' = toMain /\ past' = past
       /\ view'.listed = view.listed /\ view'.epoch = view.epoch /\ view'.reply = view.reply
  BY <1>1, <1>7, TimerDoes, WriteListDoes DEF SameChats
 <2>2. Asked' = Asked BY <2>1 DEF Asked
 <2> QED BY <2>1, <2>2 DEF Known
<1>8. CASE Opening
 <2>1. /\ hub'.chats = hub.chats /\ toMain' = toMain /\ past' = past /\ view' = view
       /\ \/ toWindow' = toWindow
          \/ \E a \in WindowAnswers : toWindow' = Append(toWindow, a) /\ a.kind = "unlocked"
  BY <1>1, <1>8, OpeningDoes
 <2>2. Asked' = Asked BY <2>1 DEF Asked
 <2>3. ASSUME NEW a \in WindowAnswers, toWindow' = Append(toWindow, a)
       PROVE  ToSet(toWindow') = ToSet(toWindow) \union {a}
  BY <1>1, <2>3, WindowSent
 <2>4. \A m \in ToSet(toWindow') : m \in ToSet(toWindow) \/ m.kind # "listed" BY <2>1, <2>3
 <2> QED BY <2>1, <2>2, <2>4 DEF Known
<1>9. CASE \E r \in Replies : AskReply(r) \/ Token(r) \/ Frame(r) \/ Finish(r)
 <2>1. PICK r \in Replies : AskReply(r) \/ Token(r) \/ Frame(r) \/ Finish(r) BY <1>9
 <2>2. CASE AskReply(r)
  <3>1. /\ hub' = hub /\ toWindow' = toWindow /\ view'.epoch = view.epoch
        /\ view.reply[r].state = "no" /\ view'.reply[r].state = "live"
        /\ \A s \in Replies \ {r} : view'.reply[s] = view.reply[s] /\ past'.asked[s] = past.asked[s]
        /\ view'.listed = view.listed \union {r} /\ past'.asked[r] = view.shown
        /\ \E m \in MainCalls : toMain' = Append(toMain, m) /\ m.kind = "chat" /\ m.reply = r
   BY <1>1, <2>2, AskReplyDoes
  <3>2. Asked' = Asked \union {r} /\ r \notin Asked /\ view.shown \in Spaces
   BY <1>1, <3>1 DEF Asked, Typed, Views
  <3>3. \A m \in ToSet(toMain') : m \in ToSet(toMain) \/ (m.kind = "chat" /\ m.reply = r)
   BY <1>1, <3>1, MainSent
  <3>4. view'.epoch >= view.epoch /\ view'.listed \subseteq Asked' /\ Asked \subseteq Replies
   BY <1>1, <1>4, <3>1, <3>2 DEF Asked
  <3> QED BY <1>1, <1>2, <3>1, <3>2, <3>3, <3>4, KnownAside
 <2>3. CASE Token(r) \/ Frame(r) \/ Finish(r)
  <3>1. /\ hub' = hub /\ toWindow' = toWindow /\ past' = past /\ view'.epoch = view.epoch
        /\ view'.listed = view.listed
        /\ view.reply[r].state = "live" /\ view'.reply[r].state # "no"
        /\ \A s \in Replies \ {r} : view'.reply[s] = view.reply[s]
        /\ \/ toMain' = toMain
           \/ \E m \in MainCalls : toMain' = Append(toMain, m) /\ m.kind = "chat" /\ m.reply = r
   BY <1>1, <2>3, TokenDoes, FinishDoes
  <3>2. Asked' = Asked /\ r \in Asked BY <1>1, <3>1 DEF Asked
  <3>3. \A m \in ToSet(toMain') : m \in ToSet(toMain) \/ (m.kind = "chat" /\ m.reply = r)
   BY <1>1, <3>1, MainSent
  <3> QED BY <3>1, <3>2, <3>3 DEF Known
 <2> QED BY <2>1, <2>2, <2>3
<1>10. CASE HearMain
 <2>1. hub' = hub /\ past' = past /\ toWindow # <<>> /\ toWindow' = Tail(toWindow)
  BY <1>1, <1>10, HearMainDoes
 <2>2. PICK m \in WindowAnswers :
         /\ m = Head(toWindow)
         /\ \/ m.kind = "switched" /\ HearSwitch(m)
            \/ m.kind = "listed" /\ HearChats(m)
            \/ m.kind = "unlocked" /\ HearUnlocked(m)
  BY <1>1, <1>10, HearMainDoes
 <2>3. ToSet(toWindow) = {m} \union ToSet(toWindow') BY <1>1, <2>1, <2>2, CallTaken
 <2>4. CASE m.kind = "switched" /\ HearSwitch(m)
  <3>1. /\ toMain' = toMain
        /\ \/ SameChats(view')
           \/ /\ view'.listed = {} /\ view'.epoch > view.epoch
              /\ \A r \in Replies : view'.reply[r] = view.reply[r] \/ (r \in Live /\ view'.reply[r].state = "over")
   BY <1>1, <2>4, HearSwitchDoes
  <3>2. Asked' = Asked BY <3>1 DEF Asked, SameChats, Live
  <3>3. view'.listed \subseteq Asked /\ view'.epoch >= view.epoch
   BY <1>1, <1>3, <1>4, <3>1 DEF SameChats
  <3> QED BY <1>1, <1>2, <2>1, <2>3, <3>1, <3>2, <3>3, KnownAside
 <2>5. CASE m.kind = "listed" /\ HearChats(m)
  <3>1. /\ view'.epoch = view.epoch /\ view'.reply = view.reply
        /\ \/ /\ view' = view
              /\ \E c \in MainCalls : /\ toMain' = Append(toMain, c) /\ c.kind = "list"
                                      /\ c.got = m.got /\ c.epoch = m.epoch
           \/ toMain' = toMain /\ (view' = view \/ view'.listed = view.listed \union m.got)
   BY <1>1, <2>5, HearChatsDoes
  <3>2. Asked' = Asked /\ m.got \subseteq Asked /\ m.epoch <= view.epoch
   BY <2>3, <2>5, <3>1 DEF Asked, Known
  <3>3. ASSUME NEW c \in MainCalls, toMain' = Append(toMain, c) PROVE ToSet(toMain') = ToSet(toMain) \union {c}
   BY <1>1, <3>3, MainSent
  <3>4. \A c \in ToSet(toMain') : \/ c \in ToSet(toMain)
                                  \/ c.kind = "list" /\ c.got = m.got /\ c.epoch = m.epoch
   BY <3>1, <3>3
  <3> QED BY <1>4, <2>1, <2>3, <3>1, <3>2, <3>4 DEF Known
 <2>6. CASE m.kind = "unlocked" /\ HearUnlocked(m)
  <3>1. toMain' = toMain /\ SameChats(view') BY <1>1, <2>6, HearUnlockedDoes
  <3>2. Asked' = Asked BY <3>1 DEF Asked, SameChats
  <3> QED BY <2>1, <2>3, <3>1, <3>2 DEF Known, SameChats
 <2> QED BY <2>2, <2>4, <2>5, <2>6
<1>11. CASE HubAnswers
 <2>1. view' = view /\ past' = past /\ toMain # <<>> /\ toMain' = Tail(toMain)
  BY <1>1, <1>11, HubAnswersDoes
 <2>2. PICK m \in MainCalls :
         /\ m = Head(toMain)
         /\ \/ m.kind = "switch" /\ Begin(m)
            \/ m.kind = "save" /\ BeginSave(m)
            \/ m.kind = "chat" /\ WriteChat(m)
            \/ m.kind = "list" /\ ReadChats(m)
            \/ m.kind = "unlock" /\ OpenWithPassword(m)
  BY <1>1, <1>11, HubAnswersDoes
 <2>3. ToSet(toMain) = {m} \union ToSet(toMain') BY <1>1, <2>1, <2>2, CallTaken
 <2>4. Asked' = Asked BY <2>1 DEF Asked
 <2>5. CASE ~(m.kind \in {"chat", "list"})
  <3>1. hub'.chats = hub.chats /\ toWindow' = toWindow
   BY <1>1, <2>2, <2>5, BeginDoes, BeginSaveDoes, OpenWithPasswordDoes
  <3> QED BY <2>1, <2>3, <2>4, <3>1 DEF Known
 <2>6. CASE m.kind = "chat" /\ WriteChat(m)
  <3>1. /\ toWindow' = toWindow
        /\ \A w \in Spaces, r \in Replies : r # m.reply => hub'.chats[w][r] = hub.chats[w][r]
   BY <1>1, <2>6, WriteChatDoes
  <3>2. m.reply \in Asked BY <2>3, <2>6 DEF Known
  <3> QED BY <2>1, <2>3, <2>4, <3>1, <3>2 DEF Known
 <2>7. CASE m.kind = "list" /\ ReadChats(m)
  <3>1. PICK a \in WindowAnswers :
          /\ hub' = hub /\ toWindow' = Append(toWindow, a) /\ a.kind = "listed" /\ a.epoch = m.epoch
          /\ \A r \in a.got : r \in m.got \/ hub.chats[hub.chat][r] # NotSaved
   BY <1>1, <2>7, ReadChatsDoes
  <3>2. ToSet(toWindow') = ToSet(toWindow) \union {a} BY <1>1, <3>1, WindowSent
  <3>3. a.got \subseteq Replies /\ hub.chat \in Spaces BY <1>1, <3>1, Epochs DEF Typed, Hubs
  <3>4. a.got \subseteq Asked /\ a.epoch <= view.epoch BY <2>3, <2>7, <3>1, <3>3 DEF Known
  <3> QED BY <2>1, <2>3, <2>4, <3>1, <3>2, <3>4 DEF Known
 <2> QED BY <2>2, <2>5, <2>6, <2>7
<1>12. CASE Switching
 <2>1. PICK t \in hub.tasks : MakeFolder(t) \/ Leave(t) \/ Load(t) \/ Commit(t) \/ Fail(t)
  BY <1>12 DEF Switching
 <2>2. view' = view /\ toMain' = toMain BY <1>12 DEF Switching
 <2>3. /\ hub'.chats = hub.chats /\ past'.asked = past.asked
       /\ \/ toWindow' = toWindow
          \/ \E a \in WindowAnswers : toWindow' = Append(toWindow, a) /\ a.kind = "switched"
  <3>1. CASE MakeFolder(t) \/ Leave(t) \/ Load(t)
   BY <1>1, <3>1, MakeFolderDoes, LeaveDoes, LoadDoes
  <3>2. CASE Commit(t) BY <1>1, <3>2, CommitDoes
  <3>3. CASE Fail(t) BY <1>1, <3>3, FailDoes
  <3> QED BY <2>1, <3>1, <3>2, <3>3
 <2>4. ASSUME NEW a \in WindowAnswers, toWindow' = Append(toWindow, a)
       PROVE  ToSet(toWindow') = ToSet(toWindow) \union {a}
  BY <1>1, <2>4, WindowSent
 <2>5. \A m \in ToSet(toWindow') : m \in ToSet(toWindow) \/ m.kind # "listed" BY <2>3, <2>4
 <2>6. Asked' = Asked BY <2>2 DEF Asked
 <2> QED BY <2>2, <2>3, <2>5, <2>6 DEF Known
<1>13. CASE UNCHANGED workspaces
 <2>1. hub' = hub /\ view' = view /\ toMain' = toMain /\ toWindow' = toWindow /\ past' = past
  BY <1>13 DEF workspaces
 <2>2. Asked' = Asked BY <2>1 DEF Asked
 <2> QED BY <2>1, <2>2 DEF Known
<1> QED BY <1>5, <1>6, <1>7, <1>8, <1>9, <1>10, <1>11, <1>12, <1>13 DEF WorkspacesNext

--------------------------------------------------
(* The calls that save a chat, in order *)

Ordered(q) == \A i \in On(q, "chat"), j \in On(q, "switch") : i < j

ChatCalls(q, r) == {i \in On(q, "chat") : q[i].reply = r}

(* The chat is stored, or the first call that saves it is the one of a new chat. *)
Kept(q, r, disk) ==
  \/ disk # NotSaved
  \/ \E i \in ChatCalls(q, r) : q[i].new /\ \A j \in ChatCalls(q, r) : i <= j

(* The last call that saves it has the whole text, or what is stored has. *)
WholeText(q, r, disk, text) ==
  /\ ChatCalls(q, r) = {} => disk = <<text>>
  /\ \A i \in ChatCalls(q, r) : (\A j \in ChatCalls(q, r) : j <= i) => q[i].text = text

LEMMA OrderedSent ==
  ASSUME NEW q \in Seq(MainCalls), NEW m \in MainCalls, Ordered(q)
  PROVE  (m.kind = "chat" => On(q, "switch") = {}) => Ordered(Append(q, m))
<1> DEFINE a == Append(q, m)
<1> HIDE DEF a
<1>1. /\ Len(q) \in Nat /\ On(q, "chat") \subseteq 1..Len(q) /\ On(q, "switch") \subseteq 1..Len(q)
      /\ On(a, "chat") \subseteq On(q, "chat") \union {Len(q) + 1}
      /\ m.kind # "chat" => On(a, "chat") = On(q, "chat")
      /\ On(a, "switch") \subseteq On(q, "switch") \union {Len(q) + 1}
      /\ m.kind # "switch" => On(a, "switch") = On(q, "switch")
 <2>1. Len(q) \in Nat BY SentLast
 <2>2. /\ m.kind # "chat" => On(a, "chat") = On(q, "chat")
       /\ m.kind = "chat" => On(a, "chat") = On(q, "chat") \union {Len(q) + 1}
       /\ On(q, "chat") \subseteq 1..Len(q)
  BY OnSent DEF a
 <2>3. /\ m.kind # "switch" => On(a, "switch") = On(q, "switch")
       /\ m.kind = "switch" => On(a, "switch") = On(q, "switch") \union {Len(q) + 1}
       /\ On(q, "switch") \subseteq 1..Len(q)
  BY OnSent DEF a
 <2> QED BY <2>1, <2>2, <2>3
<1>2. ASSUME m.kind = "chat" => On(q, "switch") = {}, NEW i \in On(a, "chat"), NEW j \in On(a, "switch")
      PROVE  i < j
 <2>1. CASE m.kind = "chat" BY <1>1, <1>2, <2>1
 <2>2. CASE m.kind # "chat"
  <3>1. i \in On(q, "chat") /\ i \in 1..Len(q) BY <1>1, <1>2, <2>2
  <3>2. CASE j \in On(q, "switch") BY <3>1, <3>2 DEF Ordered
  <3>3. CASE j = Len(q) + 1 BY <1>1, <3>1, <3>3
  <3> QED BY <1>1, <1>2, <3>2, <3>3
 <2> QED BY <2>1, <2>2
<1> QED BY <1>2 DEF Ordered, a

LEMMA OrderedGot ==
  ASSUME NEW q \in Seq(MainCalls), q # <<>>, Ordered(q)
  PROVE  /\ Ordered(Tail(q))
         /\ Head(q).kind = "switch" => On(q, "chat") = {} /\ On(Tail(q), "chat") = {}
<1> DEFINE a == Tail(q)
<1> HIDE DEF a
<1>1. /\ Len(q) \in Nat /\ Len(q) > 0 /\ Head(q) = q[1]
      /\ DOMAIN q = 1..Len(q) /\ DOMAIN a = 1..Len(q) - 1
 BY Got DEF a
<1>2. \A c : On(q, c) \subseteq Nat \ {0} /\ On(a, c) \subseteq Nat BY <1>1 DEF On
<1>3. \A c : \A i \in On(a, c) : i + 1 \in On(q, c) BY OnGot DEF a
<1>4. ASSUME NEW i \in On(a, "chat"), NEW j \in On(a, "switch") PROVE i < j
 <2>1. i \in Nat /\ j \in Nat /\ i + 1 < j + 1 BY <1>2, <1>3, <1>4 DEF Ordered
 <2> QED BY <2>1
<1>5. ASSUME Head(q).kind = "switch" PROVE On(q, "chat") = {} /\ On(a, "chat") = {}
 <2>1. 1 \in On(q, "switch") BY <1>1, <1>5 DEF On
 <2>2. ASSUME NEW i \in On(q, "chat") PROVE FALSE
  <3>1. i \in Nat \ {0} /\ i < 1 BY <1>2, <2>1, <2>2 DEF Ordered
  <3> QED BY <3>1
 <2>3. On(q, "chat") = {} BY <2>2
 <2> QED BY <1>3, <2>3
<1> QED BY <1>4, <1>5 DEF Ordered, a

LEMMA ChatSent ==
  ASSUME NEW q \in Seq(MainCalls), NEW m \in MainCalls, NEW r, NEW c, NEW text
  PROVE  /\ ~(m.kind = "chat" /\ m.reply = r) => /\ Kept(q, r, c) => Kept(Append(q, m), r, c)
                                                 /\ WholeText(q, r, c, text) => WholeText(Append(q, m), r, c, text)
         /\ m.kind = "chat" /\ m.reply = r =>
              /\ Kept(q, r, c) => Kept(Append(q, m), r, c)
              /\ m.new /\ ChatCalls(q, r) = {} => Kept(Append(q, m), r, c)
              /\ m.text = text => WholeText(Append(q, m), r, c, text)
<1> DEFINE a == Append(q, m)
           C == ChatCalls(q, r)
           D == ChatCalls(a, r)
<1> HIDE DEF a
<1>1. /\ Len(q) \in Nat /\ DOMAIN q = 1..Len(q)
      /\ \A i \in 1..Len(q) : a[i] = q[i]
      /\ a[Len(q) + 1] = m
 BY SentLast DEF a
<1>2. /\ m.kind # "chat" => On(a, "chat") = On(q, "chat")
      /\ m.kind = "chat" => On(a, "chat") = On(q, "chat") \union {Len(q) + 1}
      /\ On(q, "chat") \subseteq 1..Len(q)
 BY OnSent DEF a
<1>3. /\ C \subseteq 1..Len(q)
      /\ ~(m.kind = "chat" /\ m.reply = r) => D = C
      /\ m.kind = "chat" /\ m.reply = r => D = C \union {Len(q) + 1}
 BY <1>1, <1>2 DEF ChatCalls
<1> HIDE DEF C, D
<1>4. CASE ~(m.kind = "chat" /\ m.reply = r)
 <2>1. D = C /\ \A i \in C : a[i] = q[i] BY <1>1, <1>3, <1>4
 <2> QED BY <1>4, <2>1 DEF Kept, WholeText, C, D, a
<1>5. CASE m.kind = "chat" /\ m.reply = r
 <2>1. D = C \union {Len(q) + 1} /\ (\A i \in C : a[i] = q[i]) /\ \A i \in C : i \in Nat /\ i < Len(q) + 1
  BY <1>1, <1>3, <1>5
 <2>2. ASSUME Kept(q, r, c) PROVE Kept(a, r, c)
  <3>1. CASE c # NotSaved BY <3>1 DEF Kept
  <3>2. ASSUME NEW i \in C, q[i].new, \A j \in C : i <= j PROVE Kept(a, r, c)
   <4>1. i \in D /\ a[i].new BY <2>1, <3>2
   <4>2. \A j \in D : i <= j BY <1>1, <2>1, <3>2
   <4> QED BY <4>1, <4>2 DEF Kept, D
  <3> QED BY <2>2, <3>1, <3>2 DEF Kept, C
 <2>3. ASSUME m.new, C = {} PROVE Kept(a, r, c)
  <3>1. D = {Len(q) + 1} /\ a[Len(q) + 1].new BY <1>1, <2>1, <2>3
  <3>2. \A j \in D : Len(q) + 1 <= j BY <1>1, <3>1
  <3> QED BY <3>1, <3>2 DEF Kept, D
 <2>4. ASSUME m.text = text PROVE WholeText(a, r, c, text)
  <3>1. Len(q) + 1 \in D BY <2>1
  <3>2. ASSUME NEW i \in D, \A j \in D : j <= i PROVE a[i].text = text
   <4>1. Len(q) + 1 <= i BY <3>1, <3>2
   <4>2. i = Len(q) + 1 BY <1>1, <2>1, <4>1
   <4> QED BY <1>1, <2>4, <4>2
  <3>3. D # {} BY <3>1
  <3> QED BY <3>2, <3>3 DEF WholeText, D
 <2> QED BY <1>5, <2>2, <2>3, <2>4 DEF a, C
<1> QED BY <1>4, <1>5

LEMMA ChatGot ==
  ASSUME NEW q \in Seq(MainCalls), q # <<>>, NEW r, NEW c, NEW text
  PROVE  /\ ~(Head(q).kind = "chat" /\ Head(q).reply = r) =>
              /\ Kept(q, r, c) => Kept(Tail(q), r, c)
              /\ WholeText(q, r, c, text) => WholeText(Tail(q), r, c, text)
         /\ Head(q).kind = "chat" /\ Head(q).reply = r =>
              /\ Kept(q, r, c) => c # NotSaved \/ Head(q).new
              /\ WholeText(q, r, c, text) => WholeText(Tail(q), r, <<Head(q).text>>, text)
<1> DEFINE a == Tail(q)
           h == Head(q)
           C == ChatCalls(q, r)
           D == ChatCalls(a, r)
<1> HIDE DEF a, h
<1>1. /\ Len(q) \in Nat /\ Len(q) > 0 /\ h = q[1]
      /\ DOMAIN q = 1..Len(q) /\ DOMAIN a = 1..Len(q) - 1
      /\ \A i \in 1..Len(q) - 1 : a[i] = q[i + 1]
 BY Got DEF a, h
<1>2. /\ \A i \in On(a, "chat") : i + 1 \in On(q, "chat") /\ a[i] = q[i + 1]
      /\ \A i \in On(q, "chat") : i = 1 \/ i - 1 \in On(a, "chat")
 BY OnGot DEF a
<1>3. /\ \A i \in On(q, "chat") : i \in Nat /\ i >= 1
      /\ \A i \in On(a, "chat") : i \in Nat /\ i >= 1
 BY <1>1 DEF On
<1>4. \A i \in D : i \in Nat /\ i >= 1 /\ i + 1 \in C /\ a[i] = q[i + 1]
 BY <1>2, <1>3 DEF ChatCalls
<1>5. \A i \in C : i \in Nat /\ (i = 1 \/ (i - 1 \in D /\ a[i - 1] = q[i] /\ i - 1 >= 1))
 <2>1. SUFFICES ASSUME NEW i \in C, i # 1
                PROVE  i - 1 \in D /\ a[i - 1] = q[i] /\ i - 1 >= 1
  BY <1>3 DEF ChatCalls
 <2>2. i \in Nat /\ i - 1 \in On(a, "chat") /\ (i - 1) + 1 = i /\ q[i].reply = r
  BY <1>2, <1>3, <2>1 DEF ChatCalls
 <2>3. a[i - 1] = q[i] BY <1>2, <2>2
 <2> QED BY <1>3, <2>2, <2>3 DEF ChatCalls
<1>6. 1 \in C <=> h.kind = "chat" /\ h.reply = r BY <1>1 DEF ChatCalls, On
<1> HIDE DEF C, D
<1>7. ASSUME NEW d, WholeText(q, r, c, text), 1 \notin C \/ d = <<h.text>>, 1 \notin C => d = c
      PROVE  WholeText(a, r, d, text)
 <2>1. ASSUME D = {} PROVE d = <<text>>
  <3>1. C \subseteq {1} BY <1>5, <2>1
  <3>2. CASE C = {} BY <1>7, <3>2 DEF WholeText, C
  <3>3. CASE C = {1}
   <4>1. \A j \in C : j <= 1 BY <3>3
   <4>2. q[1].text = text BY <1>7, <3>3, <4>1 DEF WholeText, C
   <4> QED BY <1>1, <1>7, <3>3, <4>2
  <3> QED BY <3>1, <3>2, <3>3
 <2>2. ASSUME NEW i \in D, \A j \in D : j <= i PROVE a[i].text = text
  <3>1. \A j \in C : j <= i + 1
   <4>1. SUFFICES ASSUME NEW j \in C PROVE j <= i + 1
    OBVIOUS
   <4>2. i \in Nat /\ i >= 1 BY <1>4, <2>2
   <4>3. CASE j = 1 BY <4>2, <4>3
   <4>4. CASE j # 1
    <5>1. j \in Nat /\ j - 1 <= i BY <1>5, <2>2, <4>4
    <5> QED BY <4>2, <5>1
   <4> QED BY <4>3, <4>4
  <3>2. i + 1 \in C /\ a[i] = q[i + 1] BY <1>4, <2>2
  <3> QED BY <1>7, <3>1, <3>2 DEF WholeText, C
 <2> QED BY <2>1, <2>2 DEF WholeText, D
<1>8. CASE ~(h.kind = "chat" /\ h.reply = r)
 <2>1. ASSUME Kept(q, r, c) PROVE Kept(a, r, c)
  <3>1. CASE c # NotSaved BY <3>1 DEF Kept
  <3>2. ASSUME NEW i \in C, q[i].new, \A j \in C : i <= j PROVE Kept(a, r, c)
   <4>1. i # 1 BY <1>6, <1>8, <3>2
   <4>2. i \in Nat /\ i - 1 \in D /\ a[i - 1].new BY <1>5, <3>2, <4>1
   <4>3. ASSUME NEW j \in D PROVE i - 1 <= j
    <5>1. j \in Nat /\ i <= j + 1 BY <1>4, <3>2, <4>3
    <5> QED BY <4>2, <5>1
   <4> QED BY <4>2, <4>3 DEF Kept, D
  <3> QED BY <2>1, <3>1, <3>2 DEF Kept, C
 <2> QED BY <1>6, <1>7, <1>8, <2>1 DEF a, h
<1>9. CASE h.kind = "chat" /\ h.reply = r
 <2>1. ASSUME Kept(q, r, c) PROVE c # NotSaved \/ h.new
  <3>1. ASSUME NEW i \in C, q[i].new, \A j \in C : i <= j PROVE h.new
   <4>1. i \in Nat /\ i <= 1 /\ (i = 1 \/ i - 1 >= 1) BY <1>5, <1>6, <1>9, <3>1
   <4>2. i = 1 BY <4>1
   <4> QED BY <1>1, <3>1, <4>2
  <3> QED BY <2>1, <3>1 DEF Kept, C
 <2> QED BY <1>6, <1>7, <1>9, <2>1 DEF a, h
<1> QED BY <1>8, <1>9 DEF h

--------------------------------------------------
(* The chats, while no switch failed late or overlapped another *)

(* The main process, or the next answer, is at another workspace's chats. *)
Moved == Entering \/ \E t \in hub.tasks : t.at # "folder"

Here(S) == \A r \in S : past.asked[r] = view.shown

ChatsApart == \A w \in Spaces, r \in Replies : hub.chats[w][r] # NotSaved => past.asked[r] = w

CallsInOrder ==
  /\ Ordered(toMain)
  /\ On(toMain, "chat") # {} => hub.tasks = {} /\ On(toWindow, "switched") = {}
  /\ \A m \in ToSet(toMain) :
       m.kind = "chat" => /\ past.asked[m.reply] = hub.chat
                          /\ m.reply \notin past.sealed => hub.chat \notin hub.closed

LiveHere ==
  \A r \in Live : past.asked[r] = view.shown /\ (r \notin past.sealed => view.shown \notin hub.closed)

ListedHere ==
  ~Moved =>
    /\ Here(view.listed)
    /\ \A m \in ToSet(toMain) : m.kind = "list" /\ m.epoch = view.epoch => Here(m.got)
    /\ \A m \in ToSet(toWindow) : m.kind = "listed" /\ m.epoch = view.epoch => Here(m.got)

ChatSafe(r) ==
  /\ Kept(toMain, r, hub.chats[past.asked[r]][r])
  /\ view.reply[r].state = "over" => WholeText(toMain, r, hub.chats[past.asked[r]][r], view.reply[r].text)

ChatsInv ==
  /\ ChatsApart /\ CallsInOrder /\ LiveHere /\ ListedHere
  /\ \A r \in Asked \ past.sealed : ChatSafe(r)

(* A step that saves no chat and moves nothing but the lists of chats. *)
LEMMA ChatsAside ==
  ASSUME ChatsInv, ListedHere', hub'.chats = hub.chats, hub'.chat = hub.chat,
         view'.shown = view.shown, view'.reply = view.reply,
         past'.asked = past.asked, past'.sealed = past.sealed,
         hub'.closed \subseteq hub.closed \/ (Live = {} /\ On(toMain, "chat") = {}),
         Ordered(toMain'), On(toMain', "chat") # {} => On(toMain, "chat") # {},
         hub'.tasks = hub.tasks \/ On(toMain, "chat") = {},
         On(toWindow, "switched") = {} => On(toWindow', "switched") = {} \/ On(toMain, "chat") = {},
         \A m \in ToSet(toMain') : m \in ToSet(toMain) \/ m.kind # "chat",
         \A r \in Asked : \A text, c :
           /\ Kept(toMain, r, c) => Kept(toMain', r, c)
           /\ WholeText(toMain, r, c, text) => WholeText(toMain', r, c, text)
  PROVE  ChatsInv'
<1>1. ChatsApart' BY DEF ChatsInv, ChatsApart
<1>2. On(toMain, "chat") = {} => \A m \in ToSet(toMain) : m.kind # "chat" BY DEF On, ToSet
<1>3. CallsInOrder' BY <1>2 DEF ChatsInv, CallsInOrder
<1>4. LiveHere' BY DEF ChatsInv, LiveHere, Live
<1>5. Asked' = Asked BY DEF Asked
<1>6. (\A r \in Asked \ past.sealed : ChatSafe(r))' BY <1>5 DEF ChatsInv, ChatSafe
<1> QED BY <1>1, <1>3, <1>4, <1>6 DEF ChatsInv

(* The calls of a step that sends one which saves no chat. *)
LEMMA CallAside ==
  ASSUME NEW q \in Seq(MainCalls), NEW m \in MainCalls, m.kind # "chat"
  PROVE  /\ Ordered(q) => Ordered(Append(q, m))
         /\ On(Append(q, m), "chat") = On(q, "chat") /\ ToSet(Append(q, m)) = ToSet(q) \union {m}
         /\ \A r, text, c : /\ Kept(q, r, c) => Kept(Append(q, m), r, c)
                            /\ WholeText(q, r, c, text) => WholeText(Append(q, m), r, c, text)
<1>1. Ordered(q) => Ordered(Append(q, m)) BY OrderedSent
<1>2. On(Append(q, m), "chat") = On(q, "chat") /\ ToSet(Append(q, m)) = ToSet(q) \union {m}
 BY MainSent
<1>3. ASSUME NEW r, NEW text, NEW c
      PROVE  /\ Kept(q, r, c) => Kept(Append(q, m), r, c)
             /\ WholeText(q, r, c, text) => WholeText(Append(q, m), r, c, text)
 BY ChatSent
<1> QED BY <1>1, <1>2, <1>3

LEMMA CallTakenAside ==
  ASSUME NEW q \in Seq(MainCalls), q # <<>>, Head(q).kind # "chat", Ordered(q)
  PROVE  /\ Ordered(Tail(q))
         /\ On(Tail(q), "chat") # {} => On(q, "chat") # {}
         /\ \A r, text, c : /\ Kept(q, r, c) => Kept(Tail(q), r, c)
                            /\ WholeText(q, r, c, text) => WholeText(Tail(q), r, c, text)
<1>1. Ordered(Tail(q)) BY OrderedGot
<1>2. On(Tail(q), "chat") # {} => On(q, "chat") # {} BY OnGot
<1>3. ASSUME NEW r, NEW text, NEW c
      PROVE  /\ Kept(q, r, c) => Kept(Tail(q), r, c)
             /\ WholeText(q, r, c, text) => WholeText(Tail(q), r, c, text)
 BY ChatGot
<1> QED BY <1>1, <1>2, <1>3

(* While no switch is under way, the main process is where the window is. *)
LEMMA NotSwitching ==
  ASSUME ListsInv, SwitchInv, ~(view.switching /\ view.timers = 0)
  PROVE  /\ On(toMain, "switch") = {} /\ hub.tasks = {} /\ On(toWindow, "switched") = {} /\ ~Moved
         /\ view.shown = hub.active /\ hub.chat = view.shown
         /\ ~view.vault => view.shown \notin hub.closed
<1>1. On(toMain, "switch") = {} /\ hub.tasks = {} /\ On(toWindow, "switched") = {}
 BY DEF SwitchInv, OneSwitch, Travels
<1>2. ~Entering /\ Entries(toWindow) = {} BY <1>1, NotEntering
<1>3. view.shown = hub.active BY <1>2 DEF ListsInv, EndsUpIn
<1>4. hub.chat = hub.active BY <1>1 DEF SwitchInv, Places
<1>5. ~view.vault => view.shown \notin hub.closed BY <1>1, <1>2 DEF SwitchInv, Veiled, LeftOpen
<1> QED BY <1>1, <1>2, <1>3, <1>4, <1>5 DEF Moved

LEMMA ChatsAfterAsking ==
  ASSUME ListsInv, SwitchInv, Known, ChatsInv, NEW r \in Replies, AskReply(r)
  PROVE  ChatsInv'
<1>1. /\ hub' = hub /\ toWindow' = toWindow
      /\ view'.shown = view.shown /\ view'.epoch = view.epoch
      /\ ~view.switching /\ Live = {} /\ view.reply[r].state = "no"
      /\ view'.reply[r].state = "live" /\ \A s \in Replies \ {r} : view'.reply[s] = view.reply[s]
      /\ view'.listed = view.listed \union {r}
      /\ past'.asked[r] = view.shown /\ \A s \in Replies \ {r} : past'.asked[s] = past.asked[s]
      /\ past.sealed \subseteq past'.sealed /\ past'.sealed \subseteq past.sealed \union {r}
      /\ view.vault => r \in past'.sealed
 BY AskReplyDoes DEF ListsInv, SameList
<1>2. PICK m \in MainCalls : toMain' = Append(toMain, m) /\ m.kind = "chat" /\ m.reply = r /\ m.new
 BY AskReplyDoes DEF ListsInv
<1>3. toMain \in Seq(MainCalls) /\ view.shown \in Spaces BY DEF ListsInv, Typed, Views
<1>4. /\ On(toMain, "switch") = {} /\ hub.tasks = {} /\ On(toWindow, "switched") = {} /\ ~Moved
      /\ hub.chat = view.shown /\ (~view.vault => view.shown \notin hub.closed)
 BY <1>1, NotSwitching
<1>5. r \notin Asked /\ Asked' = Asked \union {r} /\ Asked \subseteq Replies BY <1>1 DEF Asked
<1>6. /\ ToSet(toMain') = ToSet(toMain) \union {m}
      /\ On(toMain', "switch") = On(toMain, "switch")
 BY <1>2, <1>3, MainSent
<1>7. \A w \in Spaces : hub.chats[w][r] = NotSaved BY <1>5 DEF Known
<1>8. ChatsApart' BY <1>1, <1>7 DEF ChatsInv, ChatsApart
<1>9. CallsInOrder'
 <2>1. Ordered(toMain') BY <1>2, <1>3, <1>4, OrderedSent DEF ChatsInv, CallsInOrder
 <2>2. ASSUME NEW c \in ToSet(toMain'), c.kind = "chat"
       PROVE  past'.asked[c.reply] = hub.chat /\ (c.reply \notin past'.sealed => hub.chat \notin hub.closed)
  <3>1. CASE c = m BY <1>1, <1>2, <1>4, <3>1
  <3>2. CASE c \in ToSet(toMain)
   <4>1. c.reply \in Asked BY <2>2, <3>2 DEF Known
   <4> QED BY <1>1, <1>5, <2>2, <3>2, <4>1 DEF ChatsInv, CallsInOrder
  <3> QED BY <1>6, <2>2, <3>1, <3>2
 <2> QED BY <1>1, <1>4, <2>1, <2>2 DEF CallsInOrder
<1>10. LiveHere'
 <2>1. Live' = {r} BY <1>1 DEF Live
 <2> QED BY <1>1, <1>4, <2>1 DEF LiveHere
<1>11. ListedHere'
 <2>1. \A S : S \subseteq Asked \union {r} /\ Here(S \ {r}) => Here(S)' BY <1>1, <1>5 DEF Here
 <2>2. Here(view.listed) /\ view.listed \subseteq Asked BY <1>4 DEF ChatsInv, ListedHere, Known
 <2>3. Here(view.listed)' BY <1>1, <1>5, <2>2 DEF Here
 <2>4. \A c \in ToSet(toMain') : c.kind = "list" /\ c.epoch = view.epoch => Here(c.got)'
  <3>1. SUFFICES ASSUME NEW c \in ToSet(toMain), c.kind = "list", c.epoch = view.epoch PROVE Here(c.got)'
   BY <1>2, <1>6
  <3>2. Here(c.got) /\ c.got \subseteq Asked BY <1>4, <3>1 DEF ChatsInv, ListedHere, Known
  <3> QED BY <1>1, <1>5, <3>2 DEF Here
 <2>5. \A c \in ToSet(toWindow) : c.kind = "listed" /\ c.epoch = view.epoch => Here(c.got)'
  <3>1. SUFFICES ASSUME NEW c \in ToSet(toWindow), c.kind = "listed", c.epoch = view.epoch PROVE Here(c.got)'
   OBVIOUS
  <3>2. Here(c.got) /\ c.got \subseteq Asked BY <1>4, <3>1 DEF ChatsInv, ListedHere, Known
  <3> QED BY <1>1, <1>5, <3>2 DEF Here
 <2> QED BY <1>1, <2>3, <2>4, <2>5 DEF ListedHere, Here
<1>12. ASSUME NEW s \in Asked' \ past'.sealed PROVE ChatSafe(s)'
 <2>1. CASE s = r
  <3>1. ChatCalls(toMain, r) = {}
   <4>1. \A c \in ToSet(toMain) : ~(c.kind = "chat" /\ c.reply = r) BY <1>5 DEF Known
   <4> QED BY <4>1 DEF ChatCalls, On, ToSet
  <3>2. \A c : Kept(toMain', r, c) BY <1>2, <1>3, <3>1, ChatSent
  <3> QED BY <1>1, <2>1, <3>2 DEF ChatSafe
 <2>2. CASE s # r
  <3>1. s \in Asked \ past.sealed /\ s \in Replies BY <1>1, <1>5, <1>12, <2>2
  <3>2. ChatSafe(s) BY <3>1 DEF ChatsInv
  <3>3. \A text, c : /\ Kept(toMain, s, c) => Kept(toMain', s, c)
                     /\ WholeText(toMain, s, c, text) => WholeText(toMain', s, c, text)
   BY <1>2, <1>3, <2>2, ChatSent
  <3>4. past'.asked[s] = past.asked[s] /\ view'.reply[s] = view.reply[s] BY <1>1, <2>2, <3>1
  <3> QED BY <1>1, <3>2, <3>3, <3>4 DEF ChatSafe
 <2> QED BY <2>1, <2>2
<1> QED BY <1>8, <1>9, <1>10, <1>11, <1>12 DEF ChatsInv

LEMMA ChatsAfterReplies ==
  ASSUME ListsInv, SwitchInv, Known, ChatsInv, NEW r \in Replies, Token(r) \/ Frame(r) \/ Finish(r)
  PROVE  ChatsInv'
<1>1. /\ hub' = hub /\ toWindow' = toWindow /\ past' = past
      /\ view'.shown = view.shown /\ view'.epoch = view.epoch /\ view'.listed = view.listed
      /\ view.reply[r].state = "live" /\ view'.reply[r].state # "no"
      /\ \A s \in Replies \ {r} : view'.reply[s] = view.reply[s]
 BY TokenDoes, FinishDoes DEF ListsInv, SameList
<1>2. toMain \in Seq(MainCalls) BY DEF ListsInv, Typed
<1>3. r \in Asked /\ Asked' = Asked /\ r \in Live /\ Live' \subseteq Live
 BY <1>1 DEF Asked, Live
<1>4. /\ On(toMain, "switch") = {} /\ hub.tasks = {} /\ On(toWindow, "switched") = {} /\ ~Moved
      /\ hub.chat = view.shown
 <2>1. ~(view.switching /\ view.timers = 0) BY <1>3 DEF SwitchInv, OneSwitch
 <2> QED BY <2>1, NotSwitching
<1>5. past.asked[r] = view.shown /\ (r \notin past.sealed => view.shown \notin hub.closed)
 BY <1>3 DEF ChatsInv, LiveHere
<1>6. ChatsApart' /\ LiveHere' BY <1>1, <1>3 DEF ChatsInv, ChatsApart, LiveHere
<1>7. CASE Token(r) \/ Frame(r)
 <2>1. toMain' = toMain /\ view'.reply[r].state = "live" BY <1>7, TokenDoes DEF ListsInv
 <2>2. CallsInOrder' /\ ListedHere'
  BY <1>1, <2>1 DEF ChatsInv, CallsInOrder, ListedHere, Here, Moved, Entering
 <2>3. ASSUME NEW s \in Asked \ past.sealed PROVE ChatSafe(s)'
  <3>1. ChatSafe(s) /\ s \in Replies BY DEF ChatsInv, Asked
  <3>2. s = r \/ view'.reply[s] = view.reply[s] BY <1>1, <3>1
  <3> QED BY <1>1, <2>1, <3>1, <3>2 DEF ChatSafe
 <2> QED BY <1>1, <1>3, <1>6, <2>2, <2>3 DEF ChatsInv
<1>8. CASE Finish(r)
 <2>1. PICK m \in MainCalls : /\ toMain' = Append(toMain, m) /\ m.kind = "chat" /\ m.reply = r
                              /\ m.text = view'.reply[r].text
  BY <1>8, FinishDoes DEF ListsInv
 <2>2. ToSet(toMain') = ToSet(toMain) \union {m} BY <1>2, <2>1, MainSent
 <2>3. Ordered(toMain') BY <1>2, <1>4, <2>1, OrderedSent DEF ChatsInv, CallsInOrder
 <2>4. CallsInOrder' BY <1>1, <1>4, <1>5, <2>1, <2>2, <2>3 DEF ChatsInv, CallsInOrder
 <2>5. ListedHere' BY <1>1, <1>4, <2>1, <2>2 DEF ChatsInv, ListedHere, Here
 <2>6. ASSUME NEW s \in Asked \ past.sealed PROVE ChatSafe(s)'
  <3>1. ChatSafe(s) /\ s \in Replies BY DEF ChatsInv, Asked
  <3>2. CASE s = r
   <4>1. \A c, text : /\ Kept(toMain, r, c) => Kept(toMain', r, c)
                      /\ m.text = text => WholeText(toMain', r, c, text)
    BY <1>2, <2>1, ChatSent
   <4> QED BY <1>1, <2>1, <3>1, <3>2, <4>1 DEF ChatSafe
  <3>3. CASE s # r
   <4>1. \A c, text : /\ Kept(toMain, s, c) => Kept(toMain', s, c)
                      /\ WholeText(toMain, s, c, text) => WholeText(toMain', s, c, text)
    BY <1>2, <2>1, <3>3, ChatSent
   <4> QED BY <1>1, <3>1, <3>3, <4>1 DEF ChatSafe
  <3> QED BY <3>2, <3>3
 <2> QED BY <1>1, <1>3, <1>6, <2>4, <2>5, <2>6 DEF ChatsInv
<1> QED BY <1>7, <1>8

(* Old lists of chats are those of an earlier epoch. *)
LEMMA EpochsOver ==
  ASSUME ListsInv, Known, NEW e \in Nat, e > view.epoch
  PROVE  /\ \A m \in ToSet(toMain) : m.kind = "list" => m.epoch # e
         /\ \A m \in ToSet(toWindow) : m.kind = "listed" => m.epoch # e
<1>1. ToSet(toMain) \subseteq MainCalls /\ ToSet(toWindow) \subseteq WindowAnswers /\ view.epoch \in Nat
 BY DEF ListsInv, Typed, Views, ToSet
<1>2. ASSUME NEW m \in ToSet(toMain), m.kind = "list" PROVE m.epoch # e
 BY <1>1, <1>2, Epochs DEF Known
<1>3. ASSUME NEW m \in ToSet(toWindow), m.kind = "listed" PROVE m.epoch # e
 BY <1>1, <1>3, Epochs DEF Known
<1> QED BY <1>2, <1>3

LEMMA ChatsAfterStart ==
  ASSUME ListsInv, SwitchInv, Known, ChatsInv, StartSwitch, ~past'.torn
  PROVE  ChatsInv'
<1>1. /\ hub' = hub /\ toWindow' = toWindow /\ view'.shown = view.shown
      /\ view'.listed = view.listed
      /\ past'.torn = (past.torn \/ SwitchUnderWay \/ view.switching)
      /\ past'.asked = past.asked /\ past'.sealed = past.sealed
      /\ \A r \in Replies : \/ r \notin Live /\ view'.reply[r] = view.reply[r]
                            \/ r \in Live /\ view'.reply[r].state = "over"
      /\ ~view.switching => view'.epoch > view.epoch
      /\ Typed'
 BY StartSwitchDoes DEF ListsInv, OneLive
<1>2. PICK m \in MainCalls :
        /\ m.kind = "switch"
        /\ \/ Live = {} /\ toMain' = Append(toMain, m)
           \/ \E r \in Live, c \in MainCalls :
                /\ Live = {r} /\ toMain' = Append(Append(toMain, c), m)
                /\ c.kind = "chat" /\ c.reply = r /\ c.text = view'.reply[r].text
 BY StartSwitchDoes DEF ListsInv, OneLive
<1>3. toMain \in Seq(MainCalls) /\ view'.epoch \in Nat BY <1>1 DEF ListsInv, Typed, Views
<1>4. ~view.switching /\ view'.epoch > view.epoch BY <1>1
<1>5. /\ On(toMain, "switch") = {} /\ hub.tasks = {} /\ On(toWindow, "switched") = {} /\ ~Moved
      /\ hub.chat = view.shown
 BY <1>4, NotSwitching
<1>6. ChatsApart' BY <1>1 DEF ChatsInv, ChatsApart
<1>7. LiveHere' BY <1>1 DEF LiveHere, Live
<1>8. Asked' = Asked /\ Live \subseteq Asked /\ Asked \subseteq Replies BY <1>1 DEF Asked, Live
<1>9. ASSUME \A c \in ToSet(toMain') : \/ c \in ToSet(toMain) \/ c.kind = "switch"
                                       \/ c.kind = "chat" /\ c.reply \in Live
      PROVE  ListedHere' /\ (Ordered(toMain') => CallsInOrder')
 <2>1. ListedHere' BY <1>1, <1>3, <1>4, <1>5, <1>9, EpochsOver DEF ChatsInv, ListedHere, Here
 <2>2. \A r \in Live : past.asked[r] = hub.chat /\ (r \notin past.sealed => hub.chat \notin hub.closed)
  BY <1>5 DEF ChatsInv, LiveHere
 <2> QED BY <1>1, <1>5, <1>9, <2>1, <2>2 DEF ChatsInv, CallsInOrder
<1>10. CASE Live = {} /\ toMain' = Append(toMain, m)
 <2>1. /\ Ordered(toMain') /\ ToSet(toMain') = ToSet(toMain) \union {m}
       /\ \A r, text, c : /\ Kept(toMain, r, c) => Kept(toMain', r, c)
                          /\ WholeText(toMain, r, c, text) => WholeText(toMain', r, c, text)
  BY <1>2, <1>3, <1>10, CallAside DEF ChatsInv, CallsInOrder
 <2>2. ListedHere' /\ CallsInOrder' BY <1>2, <1>9, <2>1
 <2>3. ASSUME NEW s \in Asked \ past.sealed PROVE ChatSafe(s)'
  <3>1. ChatSafe(s) /\ view'.reply[s] = view.reply[s] BY <1>1, <1>8, <1>10 DEF ChatsInv
  <3> QED BY <1>1, <2>1, <3>1 DEF ChatSafe
 <2> QED BY <1>1, <1>6, <1>7, <1>8, <2>2, <2>3 DEF ChatsInv
<1>11. ASSUME NEW r \in Live, NEW c \in MainCalls, Live = {r}, toMain' = Append(Append(toMain, c), m),
              c.kind = "chat", c.reply = r, c.text = view'.reply[r].text
       PROVE  ChatsInv'
 <2>1. PICK q : q = Append(toMain, c) OBVIOUS
 <2>2. q \in Seq(MainCalls) /\ ToSet(q) = ToSet(toMain) \union {c} BY <1>3, <2>1, MainSent
 <2>3. Ordered(q) BY <1>3, <1>5, <2>1, OrderedSent DEF ChatsInv, CallsInOrder
 <2>4. /\ Ordered(toMain') /\ ToSet(toMain') = ToSet(q) \union {m}
       /\ \A s, text, d : /\ Kept(q, s, d) => Kept(toMain', s, d)
                          /\ WholeText(q, s, d, text) => WholeText(toMain', s, d, text)
  <3>1. toMain' = Append(q, m) BY <1>11, <2>1
  <3> QED BY <1>2, <2>2, <2>3, <3>1, CallAside
 <2>5. ListedHere' /\ CallsInOrder' BY <1>2, <1>9, <1>11, <2>2, <2>4
 <2>6. ASSUME NEW s \in Asked \ past.sealed PROVE ChatSafe(s)'
  <3>1. ChatSafe(s) /\ s \in Replies BY <1>8 DEF ChatsInv
  <3>2. CASE s = r
   <4>1. \A d, text : /\ Kept(toMain, r, d) => Kept(q, r, d)
                      /\ c.text = text => WholeText(q, r, d, text)
    BY <1>3, <1>11, <2>1, ChatSent
   <4> QED BY <1>1, <1>11, <2>4, <3>1, <3>2, <4>1 DEF ChatSafe
  <3>3. CASE s # r
   <4>1. \A d, text : /\ Kept(toMain, s, d) => Kept(q, s, d)
                      /\ WholeText(toMain, s, d, text) => WholeText(q, s, d, text)
    BY <1>3, <1>11, <2>1, <3>3, ChatSent
   <4>2. view'.reply[s] = view.reply[s] BY <1>1, <1>11, <3>1, <3>3
   <4> QED BY <1>1, <2>4, <3>1, <4>1, <4>2 DEF ChatSafe
  <3> QED BY <3>2, <3>3
 <2> QED BY <1>1, <1>6, <1>7, <1>8, <2>5, <2>6 DEF ChatsInv
<1> QED BY <1>2, <1>10, <1>11

LEMMA ChatsAfterEdit ==
  ASSUME ListsInv, SwitchInv, Known, ChatsInv, EditList \/ LoadChats \/ Unlock \/ Timer
  PROVE  ChatsInv'
<1>1. /\ hub' = hub /\ toWindow' = toWindow /\ SameChats(view') /\ view'.shown = view.shown
      /\ past'.asked = past.asked /\ past'.sealed = past.sealed
      /\ \/ toMain' = toMain
         \/ \E m \in MainCalls : toMain' = Append(toMain, m) /\ m.kind # "chat" /\ (m.kind = "list" => m.got = {})
 BY EditListDoes, LoadChatsDoes, UnlockDoes, TimerDoes DEF ListsInv, SameChats, SameList
<1>2. toMain \in Seq(MainCalls) BY DEF ListsInv, Typed
<1>3. /\ Ordered(toMain') /\ On(toMain', "chat") = On(toMain, "chat")
      /\ \A m \in ToSet(toMain') : m \in ToSet(toMain) \/ (m.kind # "chat" /\ (m.kind = "list" => m.got = {}))
      /\ \A r, text, c : /\ Kept(toMain, r, c) => Kept(toMain', r, c)
                         /\ WholeText(toMain, r, c, text) => WholeText(toMain', r, c, text)
 <2>1. CASE toMain' = toMain BY <2>1 DEF ChatsInv, CallsInOrder
 <2>2. ASSUME NEW m \in MainCalls, toMain' = Append(toMain, m), m.kind # "chat", m.kind = "list" => m.got = {}
       PROVE  /\ Ordered(toMain') /\ On(toMain', "chat") = On(toMain, "chat")
              /\ \A x \in ToSet(toMain') : x \in ToSet(toMain) \/ (x.kind # "chat" /\ (x.kind = "list" => x.got = {}))
              /\ \A r, text, c : /\ Kept(toMain, r, c) => Kept(toMain', r, c)
                                 /\ WholeText(toMain, r, c, text) => WholeText(toMain', r, c, text)
  BY <1>2, <2>2, CallAside DEF ChatsInv, CallsInOrder
 <2> QED BY <1>1, <2>1, <2>2
<1>4. ListedHere' BY <1>1, <1>3 DEF ChatsInv, ListedHere, Here, Moved, Entering, SameChats
<1> QED BY <1>1, <1>3, <1>4, ChatsAside DEF SameChats

LEMMA ChatsAfterWriting ==
  ASSUME ListsInv, SwitchInv, Known, ChatsInv, WriteList \/ Opening
  PROVE  ChatsInv'
<1>1. /\ view' = view /\ toMain' = toMain /\ past' = past
      /\ hub'.chat = hub.chat /\ hub'.chats = hub.chats /\ hub'.tasks = hub.tasks /\ hub'.closed \subseteq hub.closed
      /\ \/ toWindow' = toWindow
         \/ \E a \in WindowAnswers : toWindow' = Append(toWindow, a) /\ a.kind = "unlocked"
 BY WriteListDoes, OpeningDoes DEF ListsInv, SameTasks
<1>2. toWindow \in Seq(WindowAnswers) BY DEF ListsInv, Typed
<1>3. /\ On(toWindow', "switched") = On(toWindow, "switched")
      /\ \A a \in ToSet(toWindow) : a \in ToSet(toWindow')
      /\ \A a \in ToSet(toWindow') : a \in ToSet(toWindow) \/ a.kind = "unlocked"
 <2>1. ASSUME NEW a \in WindowAnswers, toWindow' = Append(toWindow, a), a.kind = "unlocked"
       PROVE  On(toWindow', "switched") = On(toWindow, "switched") /\ ToSet(toWindow') = ToSet(toWindow) \union {a}
  BY <1>2, <2>1, WindowSent
 <2>2. CASE toWindow' = toWindow BY <2>2
 <2> QED BY <1>1, <2>1, <2>2
<1>4. Moved => Moved' BY <1>1, <1>3 DEF Moved, Entering
<1>5. ListedHere' BY <1>1, <1>3, <1>4 DEF ChatsInv, ListedHere, Here
<1>6. Ordered(toMain') BY <1>1 DEF ChatsInv, CallsInOrder
<1> QED BY <1>1, <1>3, <1>5, <1>6, ChatsAside

LEMMA ChatsAfterHearing ==
  ASSUME ListsInv, SwitchInv, Known, ChatsInv, HearMain
  PROVE  ChatsInv'
<1>1. /\ hub' = hub /\ past' = past /\ toWindow # <<>> /\ toWindow' = Tail(toWindow) /\ Typed'
 BY HearMainDoes DEF ListsInv
<1>2. PICK m \in WindowAnswers :
        /\ m = Head(toWindow)
        /\ \/ m.kind = "switched" /\ HearSwitch(m)
           \/ m.kind = "listed" /\ HearChats(m)
           \/ m.kind = "unlocked" /\ HearUnlocked(m)
 BY HearMainDoes DEF ListsInv
<1>3. toWindow \in Seq(WindowAnswers) /\ toMain \in Seq(MainCalls) /\ Typed /\ view'.epoch \in Nat
 BY <1>1 DEF ListsInv, Typed, Views
<1>4. ToSet(toWindow) = {m} \union ToSet(toWindow') BY <1>1, <1>2, <1>3, CallTaken
<1>5. On(toWindow, "switched") = {} => On(toWindow', "switched") = {}
 <2>1. \A i \in On(toWindow', "switched") : i + 1 \in On(toWindow, "switched")
  BY <1>1, <1>3, OnGot
 <2> QED BY <2>1
<1>6. ~(m.kind = "switched" /\ m.ok) /\ Moved => Moved' BY <1>1, <1>4 DEF Moved, Entering
<1>7. CASE m.kind = "switched" /\ HearSwitch(m) /\ m.ok
 <2>1. On(toWindow, "switched") # {} BY <1>1, <1>2, <1>3, <1>7, OnGot
 <2>2. Live = {} /\ hub.tasks = {} /\ On(toMain, "chat") = {}
  BY <2>1 DEF SwitchInv, OneSwitch, Travels, ChatsInv, CallsInOrder
 <2>3. view.shown # m.to BY <1>4, <1>7 DEF SwitchInv, Places
 <2>4. /\ toMain' = toMain /\ view'.listed = {} /\ view'.epoch > view.epoch
       /\ \A r \in Replies : view'.reply[r] = view.reply[r]
  BY <1>3, <1>7, <2>2, <2>3, HearSwitchDoes
 <2>5. ListedHere' BY <1>3, <1>4, <2>4, EpochsOver DEF ListedHere, Here
 <2>6. ChatsApart' /\ LiveHere' /\ Asked' = Asked /\ Asked \subseteq Replies
  BY <1>1, <2>2, <2>4 DEF ChatsInv, ChatsApart, LiveHere, Live, Asked
 <2>7. \A x \in ToSet(toMain) : x.kind # "chat" BY <2>2 DEF On, ToSet
 <2>8. CallsInOrder' BY <1>1, <2>2, <2>4, <2>7 DEF ChatsInv, CallsInOrder
 <2>9. ASSUME NEW s \in Asked \ past.sealed PROVE ChatSafe(s)'
  BY <1>1, <2>4, <2>6 DEF ChatsInv, ChatSafe
 <2> QED BY <1>1, <2>5, <2>6, <2>8, <2>9 DEF ChatsInv
<1>8. CASE (m.kind = "switched" /\ HearSwitch(m) /\ ~m.ok) \/ (m.kind = "unlocked" /\ HearUnlocked(m))
 <2>1. toMain' = toMain /\ SameChats(view') /\ view'.shown = view.shown
  BY <1>3, <1>8, HearSwitchDoes, HearUnlockedDoes DEF SameList
 <2>2. Ordered(toMain') BY <2>1 DEF ChatsInv, CallsInOrder
 <2>3. ListedHere' BY <1>1, <1>4, <1>6, <1>8, <2>1 DEF ChatsInv, ListedHere, Here, SameChats
 <2> QED BY <1>1, <1>5, <2>1, <2>2, <2>3, ChatsAside DEF SameChats
<1>9. CASE m.kind = "listed" /\ HearChats(m)
 <2>1. /\ view'.shown = view.shown /\ view'.epoch = view.epoch /\ view'.reply = view.reply
       /\ \/ /\ view' = view
             /\ \E c \in MainCalls : /\ toMain' = Append(toMain, c) /\ c.kind = "list"
                                     /\ c.got = m.got /\ c.epoch = m.epoch
          \/ /\ toMain' = toMain
             /\ \/ view' = view
                \/ m.epoch = view.epoch /\ view'.listed = view.listed \union m.got
  BY <1>3, <1>9, HearChatsDoes DEF SameList
 <2>2. ~Moved /\ m.epoch = view.epoch => Here(m.got) BY <1>4, <1>9 DEF ChatsInv, ListedHere
 <2>3. CASE toMain' = toMain
  <3>1. Ordered(toMain') BY <2>3 DEF ChatsInv, CallsInOrder
  <3>2. ~Moved => Here(view'.listed) BY <2>1, <2>2, <2>3 DEF ChatsInv, ListedHere, Here
  <3>3. ListedHere' BY <1>1, <1>4, <1>6, <1>9, <2>1, <2>3, <3>2 DEF ChatsInv, ListedHere, Here
  <3> QED BY <1>1, <1>5, <2>1, <2>3, <3>1, <3>3, ChatsAside
 <2>4. ASSUME view' = view, NEW c \in MainCalls, toMain' = Append(toMain, c), c.kind = "list",
              c.got = m.got, c.epoch = m.epoch
       PROVE  ChatsInv'
  <3>1. /\ Ordered(toMain') /\ On(toMain', "chat") = On(toMain, "chat")
        /\ ToSet(toMain') = ToSet(toMain) \union {c}
        /\ \A r, text, d : /\ Kept(toMain, r, d) => Kept(toMain', r, d)
                           /\ WholeText(toMain, r, d, text) => WholeText(toMain', r, d, text)
   BY <1>3, <2>4, CallAside DEF ChatsInv, CallsInOrder
  <3>2. ListedHere' BY <1>1, <1>4, <1>6, <1>9, <2>2, <2>4, <3>1 DEF ChatsInv, ListedHere, Here
  <3>3. \A x \in ToSet(toMain') : x \in ToSet(toMain) \/ x.kind # "chat" BY <2>4, <3>1
  <3> QED BY <1>1, <1>5, <2>4, <3>1, <3>2, <3>3, ChatsAside
 <2> QED BY <2>1, <2>3, <2>4
<1> QED BY <1>2, <1>7, <1>8, <1>9

LEMMA ChatsAfterAnswering ==
  ASSUME ListsInv, SwitchInv, Known, ChatsInv, HubAnswers
  PROVE  ChatsInv'
<1>1. /\ view' = view /\ past' = past /\ toMain # <<>> /\ toMain' = Tail(toMain)
 BY HubAnswersDoes DEF ListsInv
<1>2. PICK m \in MainCalls :
        /\ m = Head(toMain)
        /\ \/ m.kind = "switch" /\ Begin(m)
           \/ m.kind = "save" /\ BeginSave(m)
           \/ m.kind = "chat" /\ WriteChat(m)
           \/ m.kind = "list" /\ ReadChats(m)
           \/ m.kind = "unlock" /\ OpenWithPassword(m)
 BY HubAnswersDoes DEF ListsInv
<1>3. toWindow \in Seq(WindowAnswers) /\ toMain \in Seq(MainCalls) /\ Typed /\ hub.chat \in Spaces
 BY DEF ListsInv, Typed, Hubs
<1>4. ToSet(toMain) = {m} \union ToSet(toMain') BY <1>1, <1>2, <1>3, CallTaken
<1>5. Ordered(toMain) /\ Ordered(toMain') BY <1>1, <1>3, OrderedGot DEF ChatsInv, CallsInOrder
<1>6. m.kind # "chat" =>
        /\ On(toMain', "chat") # {} => On(toMain, "chat") # {}
        /\ \A r, text, c : /\ Kept(toMain, r, c) => Kept(toMain', r, c)
                           /\ WholeText(toMain, r, c, text) => WholeText(toMain', r, c, text)
 BY <1>1, <1>2, <1>3, <1>5, CallTakenAside
<1>7. Asked' = Asked /\ Asked \subseteq Replies /\ Live' = Live BY <1>1 DEF Asked, Live
<1>8. CASE m.kind = "switch" /\ Begin(m)
 <2>1. On(toMain', "chat") = {} BY <1>1, <1>2, <1>3, <1>5, <1>8, OrderedGot
 <2>2. toWindow' = toWindow /\ hub'.closed = hub.closed /\ hub'.chats = hub.chats /\ hub.tasks \subseteq hub'.tasks
  BY <1>3, <1>8, BeginDoes DEF SameData
 <2>3. \A x \in ToSet(toMain') : x.kind # "chat" BY <2>1 DEF On, ToSet
 <2>4. CallsInOrder' BY <1>5, <2>1, <2>3 DEF CallsInOrder
 <2>5. ChatsApart' /\ LiveHere' BY <1>1, <1>7, <2>2 DEF ChatsInv, ChatsApart, LiveHere
 <2>6. ListedHere' BY <1>1, <1>4, <2>2 DEF ChatsInv, ListedHere, Here, Moved, Entering
 <2>7. ASSUME NEW s \in Asked \ past.sealed PROVE ChatSafe(s)'
  BY <1>1, <1>6, <1>8, <2>2 DEF ChatsInv, ChatSafe
 <2> QED BY <1>1, <1>7, <2>4, <2>5, <2>6, <2>7 DEF ChatsInv
<1>9. CASE (m.kind = "save" /\ BeginSave(m)) \/ (m.kind = "unlock" /\ OpenWithPassword(m))
 <2>1. /\ toWindow' = toWindow /\ hub'.chat = hub.chat /\ hub'.tasks = hub.tasks /\ hub'.chats = hub.chats
       /\ hub'.closed = hub.closed
  BY <1>3, <1>9, BeginSaveDoes, OpenWithPasswordDoes DEF SameTasks
 <2>2. ListedHere' BY <1>1, <1>4, <2>1 DEF ChatsInv, ListedHere, Here, Moved, Entering
 <2> QED BY <1>1, <1>4, <1>5, <1>6, <1>9, <2>1, <2>2, ChatsAside
<1>10. CASE m.kind = "list" /\ ReadChats(m)
 <2>1. PICK a \in WindowAnswers :
         /\ hub' = hub /\ toWindow' = Append(toWindow, a) /\ a.kind = "listed" /\ a.epoch = m.epoch
         /\ \A r \in a.got : r \in m.got \/ hub.chats[hub.chat][r] # NotSaved
  BY <1>3, <1>10, ReadChatsDoes
 <2>2. ToSet(toWindow') = ToSet(toWindow) \union {a} /\ On(toWindow', "switched") = On(toWindow, "switched")
  BY <1>3, <2>1, WindowSent
 <2>3. ASSUME ~Moved PROVE hub.chat = view.shown
  <3>1. Entries(toWindow) = {} BY <2>3, NotEntering DEF Moved
  <3>2. view.shown = hub.active BY <3>1 DEF ListsInv, EndsUpIn
  <3>3. \A t \in hub.tasks : hub.chat = hub.active BY <2>3 DEF Moved, SwitchInv, Places
  <3> QED BY <3>2, <3>3 DEF SwitchInv, Places
 <2>4. ASSUME ~Moved, m.epoch = view.epoch PROVE Here(a.got)
  <3>1. Here(m.got) BY <1>4, <1>10, <2>4 DEF ChatsInv, ListedHere
  <3>2. a.got \subseteq Replies BY <2>1, Epochs
  <3>3. \A r \in a.got : hub.chats[hub.chat][r] # NotSaved => past.asked[r] = view.shown
   BY <1>3, <2>3, <2>4, <3>2 DEF ChatsInv, ChatsApart
  <3> QED BY <2>1, <3>1, <3>3 DEF Here
 <2>5. Moved => Moved' BY <2>1, <2>2 DEF Moved, Entering
 <2>6. ListedHere'
  <3>1. \A S : Here(S)' <=> Here(S) BY <1>1 DEF Here
  <3>2. ASSUME ~Moved, NEW x \in ToSet(toWindow'), x.kind = "listed", x.epoch = view.epoch PROVE Here(x.got)
   BY <2>1, <2>2, <2>4, <3>2 DEF ChatsInv, ListedHere
  <3>3. ASSUME ~Moved, NEW x \in ToSet(toMain'), x.kind = "list", x.epoch = view.epoch PROVE Here(x.got)
   BY <1>4, <3>3 DEF ChatsInv, ListedHere
  <3> QED BY <1>1, <2>5, <3>2, <3>3 DEF ChatsInv, ListedHere, Here
 <2> QED BY <1>1, <1>4, <1>5, <1>6, <1>10, <2>1, <2>2, <2>6, ChatsAside
<1>11. CASE m.kind = "chat" /\ WriteChat(m)
 <2>1. /\ toWindow' = toWindow /\ hub'.chat = hub.chat /\ hub'.tasks = hub.tasks /\ hub'.closed = hub.closed
       /\ m.reply \in Replies
       /\ \A w \in Spaces, r \in Replies : (w # hub.chat \/ r # m.reply) => hub'.chats[w][r] = hub.chats[w][r]
       /\ \/ hub'.chats[hub.chat][m.reply] = <<m.text>>
          \/ /\ hub' = hub
             /\ hub.chat \in hub.closed \/ (~m.new /\ hub.chats[hub.chat][m.reply] = NotSaved)
  BY <1>3, <1>11, WriteChatDoes DEF SameTasks, SameData
 <2>2. /\ m.reply \in Asked /\ past.asked[m.reply] = hub.chat
       /\ m.reply \notin past.sealed => hub.chat \notin hub.closed
       /\ hub.tasks = {} /\ On(toWindow, "switched") = {}
  <3>1. On(toMain, "chat") # {} BY <1>1, <1>2, <1>3, <1>11, OnGot
  <3> QED BY <1>4, <1>11, <3>1 DEF Known, ChatsInv, CallsInOrder
 <2>3. CallsInOrder' BY <1>1, <1>4, <1>5, <2>1, <2>2 DEF ChatsInv, CallsInOrder
 <2>4. ChatsApart' /\ LiveHere' BY <1>1, <1>7, <2>1, <2>2 DEF ChatsInv, ChatsApart, LiveHere
 <2>5. ListedHere' BY <1>1, <1>4, <2>1 DEF ChatsInv, ListedHere, Here, Moved, Entering
 <2>6. ASSUME NEW s \in Asked \ past.sealed PROVE ChatSafe(s)'
  <3>1. ChatSafe(s) /\ s \in Replies /\ past.asked[s] \in Spaces BY <1>7 DEF ChatsInv, Known
  <3>2. CASE s # m.reply
   <4>1. \A c, text : /\ Kept(toMain, s, c) => Kept(toMain', s, c)
                      /\ WholeText(toMain, s, c, text) => WholeText(toMain', s, c, text)
    BY <1>1, <1>2, <1>3, <3>2, ChatGot
   <4>2. hub'.chats[past.asked[s]][s] = hub.chats[past.asked[s]][s] BY <2>1, <3>1, <3>2
   <4> QED BY <1>1, <3>1, <4>1, <4>2 DEF ChatSafe
  <3>3. CASE s = m.reply
   <4>1. PICK d : d = hub.chats[hub.chat][s] OBVIOUS
   <4>2. /\ Kept(toMain, s, d) => d # NotSaved \/ m.new
         /\ \A text : WholeText(toMain, s, d, text) => WholeText(toMain', s, <<m.text>>, text)
    BY <1>1, <1>2, <1>3, <1>11, <3>3, ChatGot
   <4>3. past.asked[s] = hub.chat /\ Kept(toMain, s, d) BY <2>2, <3>1, <3>3, <4>1 DEF ChatSafe
   <4>4. hub'.chats[hub.chat][s] = <<m.text>> BY <2>1, <2>2, <2>6, <3>3, <4>1, <4>2, <4>3
   <4>5. Kept(toMain', s, <<m.text>>) BY DEF Kept, NotSaved
   <4>6. view.reply[s].state = "over" => WholeText(toMain, s, d, view.reply[s].text)
    BY <3>1, <4>1, <4>3 DEF ChatSafe
   <4> QED BY <1>1, <4>2, <4>3, <4>4, <4>5, <4>6 DEF ChatSafe
  <3> QED BY <3>2, <3>3
 <2> QED BY <1>1, <1>7, <2>3, <2>4, <2>5, <2>6 DEF ChatsInv
<1> QED BY <1>2, <1>8, <1>9, <1>10, <1>11

LEMMA ChatsAfterSwitching ==
  ASSUME ListsInv, SwitchInv, Known, ChatsInv, Switching, ~past'.torn
  PROVE  ChatsInv'
<1>1. view' = view /\ toMain' = toMain BY DEF Switching
<1>2. PICK t \in hub.tasks : MakeFolder(t) \/ Leave(t) \/ Load(t) \/ Commit(t) \/ Fail(t)
 BY DEF Switching
<1>3. toWindow \in Seq(WindowAnswers) /\ toMain \in Seq(MainCalls) /\ Typed
 BY DEF ListsInv, Typed
<1>4. /\ hub.tasks = {t} /\ Live = {} /\ On(toMain, "chat") = {} /\ On(toWindow, "switched") = {} /\ ~Entering
 <2>1. hub.tasks = {t} /\ On(toWindow, "switched") = {}
  BY DEF SwitchInv, OneSwitch, Travels, Alone
 <2> QED BY <2>1, NotEntering DEF SwitchInv, OneSwitch, Travels, ChatsInv, CallsInOrder
<1>5. \A x \in ToSet(toMain) : x.kind # "chat" BY <1>4 DEF On, ToSet
<1>6. ASSUME ListedHere', hub'.chats = hub.chats, past'.asked = past.asked, past'.sealed = past.sealed PROVE ChatsInv'
 <2>1. ChatsApart' /\ LiveHere' /\ CallsInOrder'
  BY <1>1, <1>4, <1>5, <1>6 DEF ChatsInv, ChatsApart, LiveHere, Live, CallsInOrder
 <2>2. Asked' = Asked BY <1>1 DEF Asked
 <2>3. (\A r \in Asked \ past.sealed : ChatSafe(r))' BY <1>1, <1>6, <2>2 DEF ChatsInv, ChatSafe
 <2> QED BY <1>6, <2>1, <2>3 DEF ChatsInv
<1>7. CASE MakeFolder(t) \/ Leave(t) \/ Load(t)
 <2>1. /\ hub'.chats = hub.chats /\ past' = past
       /\ \E u : hub'.tasks = (hub.tasks \ {t}) \union {u} /\ u.at # "folder"
  BY <1>3, <1>7, MakeFolderDoes, LeaveDoes, LoadDoes
 <2>2. ListedHere' BY <2>1 DEF ListedHere, Moved
 <2> QED BY <1>6, <2>1, <2>2
<1>8. CASE Commit(t)
 <2>1. PICK a \in WindowAnswers :
         hub'.chats = hub.chats /\ past' = past /\ toWindow' = Append(toWindow, a) /\ a.kind = "switched" /\ a.ok
  BY <1>3, <1>8, CommitDoes
 <2>2. ToSet(toWindow') = ToSet(toWindow) \union {a} BY <1>3, <2>1, WindowSent
 <2>3. ListedHere' BY <2>1, <2>2 DEF ListedHere, Moved, Entering
 <2> QED BY <1>6, <2>1, <2>3
<1>9. CASE Fail(t)
 <2>1. PICK a \in WindowAnswers :
         /\ hub'.chats = hub.chats /\ past'.asked = past.asked /\ past'.sealed = past.sealed
         /\ past'.torn = (past.torn \/ t.at # "folder")
         /\ toWindow' = Append(toWindow, a) /\ a.kind = "switched"
  BY <1>3, <1>9, FailDoes
 <2>2. ToSet(toWindow') = ToSet(toWindow) \union {a} BY <1>3, <2>1, WindowSent
 <2>3. ~Moved BY <1>4, <2>1 DEF Moved
 <2>4. ListedHere' BY <1>1, <2>1, <2>2, <2>3 DEF ChatsInv, ListedHere, Here
 <2> QED BY <1>6, <2>1, <2>4
<1> QED BY <1>2, <1>7, <1>8, <1>9

LEMMA ChatsInit == WorkspacesInit => ChatsInv
<1> SUFFICES ASSUME WorkspacesInit PROVE ChatsInv
 OBVIOUS
<1>1. /\ toMain = <<>> /\ toWindow = <<>> /\ view.listed = {} /\ Live = {} /\ Asked = {}
      /\ \A w \in Spaces, r \in Replies : hub.chats[w][r] = NotSaved
 BY DEF WorkspacesInit, Live, Asked
<1>2. /\ \A c : On(toMain, c) = {}
      /\ ToSet(toMain) = {} /\ ToSet(toWindow) = {}
 BY <1>1 DEF On, ToSet
<1>3. CallsInOrder /\ ChatsApart /\ LiveHere
 BY <1>1, <1>2 DEF CallsInOrder, Ordered, ChatsApart, LiveHere
<1>4. ListedHere BY <1>1, <1>2 DEF ListedHere, Here
<1> QED BY <1>1, <1>3, <1>4 DEF ChatsInv

LEMMA ChatsNext ==
  ASSUME ListsInv, SwitchInv, Known, ChatsInv, [WorkspacesNext]_workspaces, ~past'.torn
  PROVE  ChatsInv'
<1>1. CASE StartSwitch BY <1>1, ChatsAfterStart
<1>2. CASE EditList \/ LoadChats \/ Unlock \/ Timer BY <1>2, ChatsAfterEdit
<1>3. CASE HearMain BY <1>3, ChatsAfterHearing
<1>4. CASE \E r \in Replies : AskReply(r) \/ Token(r) \/ Frame(r) \/ Finish(r)
 BY <1>4, ChatsAfterAsking, ChatsAfterReplies
<1>5. CASE HubAnswers BY <1>5, ChatsAfterAnswering
<1>6. CASE WriteList \/ Opening BY <1>6, ChatsAfterWriting
<1>7. CASE Switching BY <1>7, ChatsAfterSwitching
<1>8. CASE UNCHANGED workspaces
 <2>1. hub' = hub /\ view' = view /\ toMain' = toMain /\ toWindow' = toWindow /\ past' = past
  BY <1>8 DEF workspaces
 <2>2. ListedHere' /\ Ordered(toMain')
  BY <2>1 DEF ChatsInv, ListedHere, Here, Moved, Entering, CallsInOrder
 <2> QED BY <2>1, <2>2, ChatsAside
<1> QED BY <1>1, <1>2, <1>3, <1>4, <1>5, <1>6, <1>7, <1>8 DEF WorkspacesNext

LEMMA ChatsStayThen == ASSUME ListsInv, ~past.torn => SwitchInv /\ ChatsInv, Known PROVE ChatsStay
<1> SUFFICES ASSUME ~past.torn, NEW r \in Replies
             PROVE  /\ \A w \in Spaces \ {past.asked[r]} : hub.chats[w][r] = NotSaved
                    /\ Still /\ view.reply[r].state = "over" /\ r \notin past.sealed =>
                         hub.chats[past.asked[r]][r] = <<view.reply[r].text>>
                    /\ r \in view.listed /\ ~view.switching => view.shown = past.asked[r]
 BY DEF ChatsStay
<1>1. \A w \in Spaces \ {past.asked[r]} : hub.chats[w][r] = NotSaved BY DEF ChatsInv, ChatsApart
<1>2. ASSUME Still, view.reply[r].state = "over", r \notin past.sealed
      PROVE  hub.chats[past.asked[r]][r] = <<view.reply[r].text>>
 <2>1. r \in Asked \ past.sealed BY <1>2 DEF Asked
 <2>2. ChatCalls(toMain, r) = {} BY <1>2 DEF Still, ChatCalls, On
 <2> QED BY <1>2, <2>1, <2>2 DEF ChatsInv, ChatSafe, WholeText
<1>3. ASSUME r \in view.listed, ~view.switching PROVE view.shown = past.asked[r]
 <2>1. ~Moved BY <1>3, NotSwitching
 <2> QED BY <1>3, <2>1 DEF ChatsInv, ListedHere, Here
<1> QED BY <1>1, <1>2, <1>3

WorkspacesInv == ListsInv /\ Known /\ (~past.torn => SwitchInv /\ ChatsInv)

LEMMA WorkspacesInvInit == WorkspacesInit => WorkspacesInv
BY ListsInit, KnownInit, SwitchInit, ChatsInit DEF WorkspacesInv

LEMMA WorkspacesInvNext == WorkspacesInv /\ [WorkspacesNext]_workspaces => WorkspacesInv'
<1> SUFFICES ASSUME WorkspacesInv, [WorkspacesNext]_workspaces PROVE WorkspacesInv'
 OBVIOUS
<1>1. ListsInv' /\ Known' BY ListsNext, KnownNext DEF WorkspacesInv
<1>2. ASSUME ~past'.torn PROVE SwitchInv' /\ ChatsInv'
 <2>1. ~past.torn BY <1>2, TornStays DEF WorkspacesInv
 <2> QED BY <1>2, <2>1, SwitchNext, ChatsNext DEF WorkspacesInv
<1> QED BY <1>1, <1>2 DEF WorkspacesInv

LEMMA WorkspacesKeptApart == WorkspacesInv => ListsKept /\ InStep /\ ChatsStay
<1> SUFFICES ASSUME WorkspacesInv PROVE ListsKept /\ InStep /\ ChatsStay
 OBVIOUS
<1>1. ListsKept BY ListsKeptThen DEF WorkspacesInv
<1>2. InStep BY InStepThen DEF WorkspacesInv
<1>3. ChatsStay BY ChatsStayThen DEF WorkspacesInv
<1> QED BY <1>1, <1>2, <1>3

(* A workspace's stored and shown servers are its own and none is lost        *)
(* (saveProfiles, getProfiles), the window and the main process agree on the  *)
(* workspace once nothing is on its way (switchWorkspace), and a chat stays   *)
(* whole in the workspace it was asked in (saveChat, getChats).               *)
THEOREM WorkspacesAreKept == WorkspacesSpec => [](ListsKept /\ InStep /\ ChatsStay)
<1>1. WorkspacesInit => WorkspacesInv BY WorkspacesInvInit
<1>2. WorkspacesInv /\ [WorkspacesNext]_workspaces => WorkspacesInv' BY WorkspacesInvNext
<1>3. WorkspacesInv => ListsKept /\ InStep /\ ChatsStay BY WorkspacesKeptApart
<1> QED BY <1>1, <1>2, <1>3, PTL DEF WorkspacesSpec
=============================================================================
