----------------------------- MODULE StartProofs -----------------------------
(***************************************************************************)
(* What the store keeps, from the first start on: the calls one at a time  *)
(* (Calm), the migration of a development build's data (MigInv) and the    *)
(* import of the servers of GETSSH 2.0 (ImpInv), each for any number of    *)
(* workspaces, versions, servers, faults and starts, and then together.    *)
(***************************************************************************)
EXTENDS MCStoreStart, StoreProofs

--------------------------------------------------
(* One call at a time *)

\* The pool has one thread, the main one: no two calls run at once.
OneCall == Pool = {Js}

\* Steps that rely on what the step before found or did, and steps that any state allows.
Careful == {"rekey", "rename", "commit", "connect", "create", "createnew",
            "kslock", "close", "ksdelete"}
EasyRec == {x \in StepRec : x.do \notin Careful /\ (x.do = "move" => x.with \in Old)}
EasyDo  == (FreeDo \cup Checked) \ (Careful \cup {"move"})
Leading == Careful \cup {"mark", "unmark", "closeone", "delrow"}

\* What a list of steps may begin with, for a scope s in the state it is in: a move to the
\* staged key and the commit, in any stage of it; a file, a connection or a new scope with
\* what was read or checked for it; a lock and the close; a delete behind the close.
Begins(p) ==
    \/ p = <<>>
    \/ \E s \in Scopes :
        \/ Rotating(s) /\ p = MoveThenCommit(s)
        \/ /\ Rotating(s) /\ ~ Mounted(s)
           /\ p = <<StepWith("rename", s, staged[s]), Step("commit", s)>>
        \/ /\ Rotating(s) => file[s] \in {Missing, staged[s]}
           /\ p = <<Step("commit", s)>>
        \/ Exists(s) /\ ~ Mounted(s) /\ p = <<StepWith("rename", s, cur[s])>>
        \/ Unlocked(s) /\ p = <<StepWith("connect", s, cur[s])>>
        \/ /\ file[s] \in {Missing, Plain, Legacy}
           /\ \E do \in {"create", "createnew"}, with \in Withs :
                LET x == StepWith(do, s, with) IN
                p \in {<<x>>, <<Step("mark", s), x>>, <<Step("unmark", s), x>>}
        \/ p \in {<<Step("kslock", s), Step("close", s)>>, <<Step("close", s)>>}
        \/ p \in {<<Step("closeone", s), Step("ksdelete", s)>>,
                  <<Step("closeone", s), Step("delrow", s), Step("ksdelete", s)>>}
        \/ /\ ~ Mounted(s)
           /\ p \in {<<Step("delrow", s), Step("ksdelete", s)>>, <<Step("ksdelete", s)>>}

\* The list of the running call: such a beginning, then easy steps.
Neat == \E p \in Seq(StepRec), r \in Seq(EasyRec) : Begins(p) /\ job[Js] = p \o r

\* A database whose key was dropped waits for the close. A keyring is only missing where
\* main.db is. A staged version is a new one.
Closed   == \A s \in Scopes : Mounted(s) /\ Locked(s) => At(Js, "close")
MainMade == Exists(App) \/ file[App] = Missing

Apart    == \A s \in Scopes : Rotating(s) => staged[s] # cur[s]

Calm == Reachable /\ NothingStale /\ Closed /\ MainMade /\ Apart /\ Neat

\* The head x of the list and the steps q after it.
Turn(x, q) ==
    LET s == x.s IN
    \/ x \in EasyRec /\ q \in Seq(EasyRec)
    \/ /\ x.do \in {"commit", "create", "createnew", "close", "connect", "ksdelete", "rename"}
       /\ q \in Seq(EasyRec)
       /\ x.do = "commit" /\ Rotating(s) => file[s] \in {Missing, staged[s]}
       /\ x.do \in {"create", "createnew"} => file[s] \in {Missing, Plain, Legacy}
       /\ x.do = "connect" => Unlocked(s) /\ x.with = cur[s]
       /\ x.do = "ksdelete" => ~ Mounted(s)
       /\ x.do = "rename" => Exists(s) /\ ~ Mounted(s) /\ x.with = cur[s]
    \/ \E r \in Seq(EasyRec) :
        \/ /\ x.do = "rekey" \/ (x.do = "rename" /\ ~ Mounted(s))
           /\ Rotating(s) /\ x.with = staged[s] /\ q = <<Step("commit", s)>> \o r
        \/ /\ x.do \in {"mark", "unmark"} /\ file[s] \in {Missing, Plain, Legacy}
           /\ \E do \in {"create", "createnew"}, with \in Withs :
                 q = <<StepWith(do, s, with)>> \o r
        \/ x.do = "kslock" /\ q = <<Step("close", s)>> \o r
        \/ x.do = "closeone" /\ q \in {<<Step("ksdelete", s)>> \o r,
                                       <<Step("delrow", s), Step("ksdelete", s)>> \o r}
        \/ x.do = "delrow" /\ ~ Mounted(s) /\ q = <<Step("ksdelete", s)>> \o r

--------------------------------------------------
(* Lists of steps *)

\* Short lists, put together.
LEMMA OneAndOne ==
  ASSUME NEW S, NEW a \in S, NEW b \in S
  PROVE  <<a>> \o <<b>> = <<a, b>>
<1>1. PICK u, v, w : u = <<a>> /\ v = <<b>> /\ w = <<a, b>> OBVIOUS
<1>2. u \in Seq(S) /\ v \in Seq(S) /\ w \in Seq(S) BY <1>1
<1>3. u \o v = w
 <2>1. u \o v \in Seq(S) /\ Len(u \o v) = 2 /\ (u \o v)[1] = a /\ (u \o v)[2] = b BY <1>1, <1>2
 <2>2. Len(w) = 2 /\ w[1] = a /\ w[2] = b BY <1>1
 <2>3. \A i \in 1..2 : i = 1 \/ i = 2 OBVIOUS
 <2> QED BY <1>2, <2>1, <2>2, <2>3, SeqEqual
<1> QED BY <1>1, <1>3

LEMMA TwoAndTwo ==
  ASSUME NEW S, NEW a \in S, NEW b \in S, NEW c \in S, NEW d \in S
  PROVE  <<a, b>> \o <<c, d>> = <<a, b, c, d>>
<1> DEFINE u == <<a, b>> \o <<c, d>>
           v == <<a, b, c, d>>
<1>1. <<a, b>> \in Seq(S) /\ <<c, d>> \in Seq(S) /\ v \in Seq(S) OBVIOUS
<1>2. u \in Seq(S) /\ Len(u) = 4 /\ Len(v) = 4 BY <1>1
<1>3. /\ u[1] = a /\ u[2] = b /\ u[3] = c /\ u[4] = d BY <1>1
<1>4. v[1] = a /\ v[2] = b /\ v[3] = c /\ v[4] = d OBVIOUS
<1>5. \A i \in 1..4 : i = 1 \/ i = 2 \/ i = 3 \/ i = 4 OBVIOUS
<1> HIDE DEF u, v
<1>6. \A i \in 1..4 : u[i] = v[i] BY <1>3, <1>4, <1>5
<1> QED BY <1>1, <1>2, <1>6, SeqEqual DEF u, v

LEMMA OneAndThree ==
  ASSUME NEW S, NEW a \in S, NEW b \in S, NEW c \in S, NEW d \in S
  PROVE  <<a>> \o <<b, c, d>> = <<a, b, c, d>>
<1> DEFINE u == <<a>> \o <<b, c, d>>
           v == <<a, b, c, d>>
<1>1. <<a>> \in Seq(S) /\ <<b, c, d>> \in Seq(S) /\ v \in Seq(S) OBVIOUS
<1>2. u \in Seq(S) /\ Len(u) = 4 /\ Len(v) = 4 BY <1>1
<1>3. u[1] = a /\ u[2] = b /\ u[3] = c /\ u[4] = d BY <1>1
<1>4. v[1] = a /\ v[2] = b /\ v[3] = c /\ v[4] = d OBVIOUS
<1>5. \A i \in 1..4 : i = 1 \/ i = 2 \/ i = 3 \/ i = 4 OBVIOUS
<1> HIDE DEF u, v
<1>6. \A i \in 1..4 : u[i] = v[i] BY <1>3, <1>4, <1>5
<1> QED BY <1>1, <1>2, <1>6, SeqEqual DEF u, v

LEMMA ThreeAndOne ==
  ASSUME NEW S, NEW a \in S, NEW b \in S, NEW c \in S, NEW d \in S
  PROVE  <<a, b, c>> \o <<d>> = <<a, b, c, d>>
<1> DEFINE u == <<a, b, c>> \o <<d>>
           v == <<a, b, c, d>>
<1>1. <<a, b, c>> \in Seq(S) /\ <<d>> \in Seq(S) /\ v \in Seq(S) OBVIOUS
<1>2. u \in Seq(S) /\ Len(u) = 4 /\ Len(v) = 4 BY <1>1
<1>3. u[1] = a /\ u[2] = b /\ u[3] = c /\ u[4] = d BY <1>1
<1>4. v[1] = a /\ v[2] = b /\ v[3] = c /\ v[4] = d OBVIOUS
<1>5. \A i \in 1..4 : i = 1 \/ i = 2 \/ i = 3 \/ i = 4 OBVIOUS
<1> HIDE DEF u, v
<1>6. \A i \in 1..4 : u[i] = v[i] BY <1>3, <1>4, <1>5
<1> QED BY <1>1, <1>2, <1>6, SeqEqual DEF u, v

LEMMA TwoAndThree ==
  ASSUME NEW S, NEW a \in S, NEW b \in S, NEW c \in S, NEW d \in S, NEW f \in S
  PROVE  <<a, b>> \o <<c, d, f>> = <<a, b, c, d, f>>
<1> DEFINE u == <<a, b>> \o <<c, d, f>>
           v == <<a, b, c, d, f>>
<1>1. <<a, b>> \in Seq(S) /\ <<c, d, f>> \in Seq(S) /\ v \in Seq(S) OBVIOUS
<1>2. u \in Seq(S) /\ Len(u) = 5 /\ Len(v) = 5 BY <1>1
<1>3. u[1] = a /\ u[2] = b /\ u[3] = c /\ u[4] = d /\ u[5] = f BY <1>1
<1>4. v[1] = a /\ v[2] = b /\ v[3] = c /\ v[4] = d /\ v[5] = f OBVIOUS
<1>5. \A i \in 1..5 : i = 1 \/ i = 2 \/ i = 3 \/ i = 4 \/ i = 5 OBVIOUS
<1> HIDE DEF u, v
<1>6. \A i \in 1..5 : u[i] = v[i] BY <1>3, <1>4, <1>5
<1> QED BY <1>1, <1>2, <1>6, SeqEqual DEF u, v

\* What is an easy step, or a step.
LEMMA EasyStep ==
  ASSUME NEW do \in EasyDo, NEW s \in Scopes,
         do \notin OfWorkspace \/ s \in Workspaces
  PROVE  Step(do, s) \in EasyRec /\ Step(do, s).do = do /\ Step(do, s).s = s
BY DEF Step, StepRec, EasyRec, EasyDo, Withs

LEMMA IsStep ==
  ASSUME NEW do \in FreeDo \cup Checked, NEW s \in Scopes, NEW with \in Withs,
         do \notin OfWorkspace \/ s \in Workspaces
  PROVE  /\ Step(do, s) \in StepRec /\ Step(do, s).do = do /\ Step(do, s).s = s
         /\ StepWith(do, s, with) \in StepRec /\ StepWith(do, s, with).do = do
         /\ StepWith(do, s, with).s = s /\ StepWith(do, s, with).with = with
BY DEF Step, StepWith, StepRec, Withs

LEMMA EasyAre == EasyRec \subseteq StepRec /\ \A q \in Seq(EasyRec) : q \in Seq(StepRec)
<1>1. EasyRec \subseteq StepRec BY DEF EasyRec
<1> QED BY <1>1

LEMMA EasySteps ==
  ASSUME NEW s \in Scopes
  PROVE  /\ \A do \in {"complete", "adopted", "mount", "drop", "skip", "asks", "unlock", "unmark",
                       "setpw", "rmpw", "unlink", "undo", "relock", "openmain", "sweep",
                       "openall", "ready"} : Step(do, s) \in EasyRec
         /\ s \in Workspaces => \A do \in {"open", "row", "mark"} : Step(do, s) \in EasyRec
         /\ \A from \in Old : StepWith("move", s, from) \in EasyRec
<1>1. \A do \in {"complete", "adopted", "mount", "drop", "skip", "asks", "unlock", "unmark",
                 "setpw", "rmpw", "unlink", "undo", "relock", "openmain", "sweep",
                 "openall", "ready"} : do \in EasyDo /\ do \notin OfWorkspace
 BY DEF FreeDo, Checked, Careful, EasyDo, OfWorkspace
<1>2. \A do \in {"open", "row", "mark"} : do \in EasyDo BY DEF FreeDo, Checked, Careful, EasyDo
<1>3. \A from \in Old : StepWith("move", s, from) \in EasyRec
 BY DEF StepWith, EasyRec, StepRec, FreeDo, Withs, Careful, OfWorkspace, Old
<1> QED BY <1>1, <1>2, <1>3, EasyStep

LEMMA EachEasy ==
  ASSUME NEW do \in EasyDo, NEW S \in SUBSET Scopes,
         do \notin OfWorkspace \/ S \subseteq Workspaces
  PROVE  /\ EachOf(S, do) \in Seq(EasyRec)
         /\ do = "drop" => DropEach(S) \in Seq(EasyRec)
<1>1. "skip" \in EasyDo /\ "skip" \notin OfWorkspace BY DEF FreeDo, Careful, EasyDo, OfWorkspace
<1>2. \A s \in S : Step(do, s) \in EasyRec /\ Step("skip", s) \in EasyRec BY <1>1, EasyStep
<1>3. Each(do, S) \subseteq EasyRec BY <1>2 DEF Each
<1>4. \A q \in Seq(Each(do, S)) : q \in Seq(EasyRec) BY <1>3
<1>5. EachOf(S, do) \in Seq(Each(do, S)) /\ (do = "drop" => DropEach(S) \in Seq(Each(do, S)))
 BY ScopesFinite, EachOfSeq, DropEachSeq
<1> QED BY <1>4, <1>5

LEMMA AppWideEasy ==
  ASSUME NEW S \in SUBSET Scopes
  PROVE  AppWide(S) \in Seq(EasyRec)
<1> DEFINE own == IF App \in S THEN <<Step("complete", App)>> ELSE <<>>
<1>1. "complete" \in EasyDo /\ "complete" \notin OfWorkspace
 BY DEF FreeDo, Careful, EasyDo, OfWorkspace
<1>2. App \in Scopes /\ S \ {App} \in SUBSET Scopes BY DEF Scopes
<1>3. own \in Seq(EasyRec) BY <1>1, <1>2, EasyStep
<1>4. EachOf(S \ {App}, "complete") \in Seq(EasyRec) BY <1>1, <1>2, EachEasy
<1> HIDE DEF own
<1>5. own \o EachOf(S \ {App}, "complete") \in Seq(EasyRec) BY <1>3, <1>4
<1> QED BY <1>5 DEF AppWide, own

\* Dropping marks leaves easy steps easy, and a list that begins with a step as it is.
LEMMA TrimEasy ==
  ASSUME NEW q \in Seq(EasyRec)
  PROVE  Trim(q) \in Seq(EasyRec)
<1>1. q \in Seq(StepRec) BY EasyAre
<1>2. PICK k \in 1..(Len(q) + 1) : Trim(q) = SubSeq(q, k, Len(q)) BY <1>1, TrimSuffix
<1>3. Len(q) \in Nat /\ k >= 1 OBVIOUS
<1>4. SubSeq(q, k, Len(q)) \in Seq(EasyRec) BY <1>3, SubSeqProperties
<1> QED BY <1>2, <1>4

LEMMA TrimStays ==
  ASSUME NEW q \in Seq(StepRec), q # <<>>, q[1].do \notin Marks
  PROVE  Trim(q) = q
<1> DEFINE I == {i \in 1..Len(q) : q[i].do \notin Marks}
           n == Min(I)
<1>1. Trim(q) = LET k == IF I # {} THEN n ELSE 0
                IN  IF k = 0 THEN <<>> ELSE SubSeq(q, k, Len(q))
 BY DEF Trim, FirstAfter, SelectInSeq
<1>2. Len(q) \in Nat /\ Len(q) >= 1 OBVIOUS
<1>3. 1 \in I BY <1>2
<1>4. n = 1
 <2>1. I \in SUBSET Nat /\ \A i \in I : i >= 1 BY <1>2
 <2> HIDE DEF I
 <2>2. n \in I /\ \A m \in I : n <= m BY <1>3, <2>1, MinIs
 <2> HIDE DEF n
 <2>3. n >= 1 /\ n <= 1 /\ n \in Nat BY <1>3, <2>1, <2>2
 <2> QED BY <2>3
<1>5. Trim(q) = SubSeq(q, 1, Len(q))
 <2> HIDE DEF I, n
 <2> QED BY <1>1, <1>3, <1>4
<1>6. SubSeq(q, 1, Len(q)) = q BY <1>2
<1> QED BY <1>5, <1>6

\* A beginning holds no mark for an error.
LEMMA FirmNow ==
  ASSUME NEW p, Begins(p)
  PROVE  \A i \in 1..Len(p) : p[i].do \notin Marks
BY DEF Begins, Marks, Step, StepWith, MoveThenCommit

LEMMA FirmNext ==
  ASSUME NEW p, p # <<>>, Begins(p)'
  PROVE  p[1].do \notin Marks
BY DEF Begins, Marks, Step, StepWith, MoveThenCommit

LEMMA FrontOf ==
  ASSUME NEW p \in Seq(StepRec), p # <<>>, NEW r \in Seq(EasyRec)
  PROVE  /\ p \o r \in Seq(StepRec) /\ p \o r # <<>> /\ Head(p \o r) = p[1] /\ (p \o r)[1] = p[1]
         /\ Tail(p \o r) = Tail(p) \o r
<1>1. r \in Seq(StepRec) BY EasyAre
<1> QED BY <1>1

\* A list that is built as one.
LEMMA NowNeat ==
  ASSUME Jobs, Js \in Threads, NEW p \in Seq(StepRec), NEW r \in Seq(EasyRec), Begins(p)',
         job' = [job EXCEPT ![Js] = Trim(p \o r)] \/ job' = [job EXCEPT ![Js] = p \o r]
  PROVE  Neat'
<1>1. CASE p = <<>>
 <2>1. p \o r = r /\ r \in Seq(EasyRec) BY <1>1
 <2>2. job'[Js] \in Seq(EasyRec) BY <2>1, TrimEasy DEF Jobs
 <2>3. <<>> \in Seq(StepRec) /\ job'[Js] = <<>> \o job'[Js] BY <2>2
 <2> QED BY <1>1, <2>2, <2>3 DEF Neat
<1>2. CASE p # <<>>
 <2>1. Trim(p \o r) = p \o r BY <1>2, FirmNext, FrontOf, TrimStays
 <2>2. job'[Js] = p \o r BY <2>1 DEF Jobs
 <2> QED BY <2>2 DEF Neat
<1> QED BY <1>1, <1>2

\* An error leaves a list as Neat describes it: the beginning is never what catches it.
LEMMA NeatFail ==
  ASSUME Neat, Jobs, Js \in Threads, NEW error \in Errors, Fail(Js, error)
  PROVE  Neat'
<1>1. PICK p \in Seq(StepRec), r \in Seq(EasyRec) : Begins(p) /\ job[Js] = p \o r BY DEF Neat
<1>2. r \in Seq(StepRec) /\ Len(p) \in Nat /\ Len(r) \in Nat BY EasyAre
<1> DEFINE q == p \o r
<1>3. /\ q \in Seq(StepRec) /\ Len(q) = Len(p) + Len(r)
      /\ \A i \in 1..Len(p) : q[i] = p[i]
      /\ \A i \in 1..Len(r) : q[Len(p) + i] = r[i]
 BY <1>2
<1>4. job' = [job EXCEPT ![Js] = Failed(q, error)] BY <1>1, FailIs
<1> HIDE DEF q
<1>5. <<>> \in Seq(StepRec) /\ <<>> \in Seq(EasyRec) /\ Begins(<<>>)' BY DEF Begins
<1>6. CASE Failed(q, error) = <<>>
 <2>1. job' = [job EXCEPT ![Js] = <<>> \o <<>>] BY <1>4, <1>6
 <2> QED BY <1>5, <2>1, NowNeat
<1>7. CASE Failed(q, error) # <<>>
 <2>1. PICK k \in 1..Len(q) :
          /\ q[k].do \in Marks
          /\ Failed(q, error) = Trim(CleanUp(q[k]) \o SubSeq(q, k + 1, Len(q)))
  BY <1>3, <1>7, FailedIs
 <2> DEFINE w == SubSeq(q, k + 1, Len(q))
            s == q[k].s
 <2>2. k \in Nat /\ k > Len(p)
  <3> SUFFICES ASSUME ~ (k > Len(p)) PROVE FALSE
   OBVIOUS
  <3>1. k \in 1..Len(p) BY <1>2, <1>3
  <3> QED BY <1>1, <1>3, <2>1, <3>1, FirmNow
 <2>3. w \in Seq(EasyRec)
  <3>1. /\ Len(w) = Len(q) - k /\ w \in Seq(StepRec)
        /\ \A i \in 1..Len(w) : w[i] = q[i + (k + 1) - 1]
   BY <1>2, <1>3, <2>2, SubSeqProperties
  <3> HIDE DEF w
  <3>2. ASSUME NEW i \in 1..Len(w) PROVE w[i] \in EasyRec
   <4>1. i + k - Len(p) \in 1..Len(r) /\ Len(p) + (i + k - Len(p)) = i + (k + 1) - 1
    BY <1>2, <1>3, <2>1, <2>2, <3>1
   <4>2. q[Len(p) + (i + k - Len(p))] = r[i + k - Len(p)] BY <1>3, <4>1
   <4>3. r[i + k - Len(p)] \in EasyRec BY <4>1
   <4> QED BY <3>1, <4>1, <4>2, <4>3
  <3> QED BY <3>1, <3>2
 <2> HIDE DEF w
 <2>4. s \in Scopes /\ App \in Scopes
  <3>1. q[k] \in StepRec BY <1>3
  <3> QED BY <3>1 DEF StepRec, Scopes
 <2>5. CASE q[k].do = "relock"
  <3> DEFINE lock == <<Step("kslock", App), Step("close", App)>>
  <3>1. lock \in Seq(StepRec)
   <4>1. Step("kslock", App) \in StepRec /\ Step("close", App) \in StepRec
    BY <2>4, IsStep DEF FreeDo, OfWorkspace, Withs
   <4> QED BY <4>1
  <3>2. Begins(lock)' BY <2>4 DEF Begins
  <3>3. job' = [job EXCEPT ![Js] = Trim(lock \o w)] BY <1>4, <2>1, <2>5 DEF CleanUp, w
  <3> HIDE DEF lock
  <3> QED BY <2>3, <3>1, <3>2, <3>3, NowNeat
 <2>6. CASE q[k].do = "undo"
  <3> DEFINE p2 == <<Step("closeone", s), Step("ksdelete", s)>>
             e == <<Step("skip", s), Step("unlink", s)>>
  <3>0. None \in Withs BY DEF Withs
  <3>1. p2 \in Seq(StepRec) /\ e \in Seq(EasyRec)
   <4>1. Step("closeone", s) \in StepRec /\ Step("ksdelete", s) \in StepRec
    BY <2>4, <3>0, IsStep DEF FreeDo, OfWorkspace
   <4>2. Step("skip", s) \in EasyRec /\ Step("unlink", s) \in EasyRec
    BY <2>4, EasyStep DEF FreeDo, Careful, EasyDo, OfWorkspace
   <4> QED BY <4>1, <4>2
  <3>2. Begins(p2)' BY <2>4 DEF Begins
  <3>3. p2 \o (e \o w) = Discard(s) \o w
   <4>1. w \in Seq(StepRec) BY <2>3, EasyAre
   <4>2. PICK x1, x2, x3, x4 : /\ x1 = Step("closeone", s) /\ x2 = Step("ksdelete", s)
                               /\ x3 = Step("skip", s) /\ x4 = Step("unlink", s)
    OBVIOUS
   <4>3. <<x1, x2>> \in Seq(StepRec) /\ <<x3, x4>> \in Seq(StepRec) BY <3>1, <4>2, EasyAre
   <4>4. (<<x1, x2>> \o <<x3, x4>>) \o w = <<x1, x2>> \o (<<x3, x4>> \o w)
    <5>1. PICK y, z : y = <<x1, x2>> /\ z = <<x3, x4>> OBVIOUS
    <5>2. (y \o z) \o w = y \o (z \o w) BY <4>1, <4>3, <5>1, ConcatAssociative
    <5> QED BY <5>1, <5>2
   <4>5. <<x1, x2>> \o <<x3, x4>> = <<x1, x2, x3, x4>>
    <5>1. x1 \in StepRec /\ x2 \in StepRec /\ x3 \in StepRec /\ x4 \in StepRec
     <6>1. None \in Withs BY DEF Withs
     <6> QED BY <2>4, <4>2, <6>1, IsStep DEF FreeDo, OfWorkspace
    <5> QED BY <5>1, TwoAndTwo
   <4>6. <<x1, x2, x3, x4>> \o w = <<x1, x2>> \o (<<x3, x4>> \o w) BY ONLY <4>4, <4>5
   <4> QED BY <4>2, <4>6 DEF Discard
  <3>4. job' = [job EXCEPT ![Js] = Trim(p2 \o (e \o w))]
   BY <1>4, <2>1, <2>6, <3>3 DEF CleanUp, w
  <3>5. e \o w \in Seq(EasyRec) BY <2>3, <3>1
  <3> HIDE DEF p2, e
  <3> QED BY <3>1, <3>2, <3>4, <3>5, NowNeat
 <2>7. CASE q[k].do \notin {"relock", "undo"}
  <3>1. CleanUp(q[k]) = <<>> BY <2>7 DEF CleanUp
  <3>2. CleanUp(q[k]) \o w = <<>> \o w BY <3>1
  <3>3. job' = [job EXCEPT ![Js] = Trim(<<>> \o w)] BY <1>4, <2>1, <3>2 DEF w
  <3> QED BY <1>5, <2>3, <3>3, NowNeat
 <2> QED BY <2>5, <2>6, <2>7
<1> QED BY <1>6, <1>7

\* What the head of a list and the steps after it are.
LEMMA HeadTurn ==
  ASSUME Neat, job[Js] # <<>>
  PROVE  Turn(It(Js), Tail(job[Js]))
<1>1. PICK p \in Seq(StepRec), r \in Seq(EasyRec) : Begins(p) /\ job[Js] = p \o r BY DEF Neat
<1>2. r \in Seq(StepRec) BY EasyAre
<1>3. CASE p = <<>>
 <2>1. job[Js] = r /\ r # <<>> BY <1>1, <1>2, <1>3
 <2>2. Head(r) \in EasyRec /\ Tail(r) \in Seq(EasyRec) BY <2>1
 <2> QED BY <2>1, <2>2 DEF Turn, EasyRec, It
<1>4. CASE p # <<>>
 <2>1. It(Js) = p[1] /\ Tail(job[Js]) = Tail(p) \o r BY <1>1, <1>4, FrontOf DEF It
 <2> PICK x, q : x = It(Js) /\ q = Tail(job[Js]) OBVIOUS
 <2>2. ASSUME NEW a, p = <<a>> PROVE x = a /\ q = r
  <3>1. Tail(<<a>>) = <<>> OBVIOUS
  <3> QED BY <1>2, <2>1, <2>2, <3>1
 <2>3. ASSUME NEW a, NEW b, p = <<a, b>>
       PROVE  x = a /\ q = <<b>> \o r
  <3>1. Tail(<<a, b>>) = <<b>> OBVIOUS
  <3> QED BY <2>1, <2>3, <3>1
 <2>4. ASSUME NEW a, NEW b, NEW c, p = <<a, b, c>>
       PROVE  x = a /\ q = <<b, c>> \o r
  <3>1. Tail(<<a, b, c>>) = <<b, c>> OBVIOUS
  <3> QED BY <2>1, <2>4, <3>1
 <2>5. PICK s \in Scopes :
     \/ Rotating(s) /\ p = MoveThenCommit(s)
     \/ /\ Rotating(s) /\ ~ Mounted(s)
        /\ p = <<StepWith("rename", s, staged[s]), Step("commit", s)>>
     \/ /\ Rotating(s) => file[s] \in {Missing, staged[s]}
        /\ p = <<Step("commit", s)>>
     \/ Exists(s) /\ ~ Mounted(s) /\ p = <<StepWith("rename", s, cur[s])>>
     \/ Unlocked(s) /\ p = <<StepWith("connect", s, cur[s])>>
     \/ /\ file[s] \in {Missing, Plain, Legacy}
        /\ \E do \in {"create", "createnew"}, with \in Withs :
             LET y == StepWith(do, s, with) IN
             p \in {<<y>>, <<Step("mark", s), y>>, <<Step("unmark", s), y>>}
     \/ p \in {<<Step("kslock", s), Step("close", s)>>, <<Step("close", s)>>}
     \/ p \in {<<Step("closeone", s), Step("ksdelete", s)>>,
               <<Step("closeone", s), Step("delrow", s), Step("ksdelete", s)>>}
     \/ /\ ~ Mounted(s)
        /\ p \in {<<Step("delrow", s), Step("ksdelete", s)>>, <<Step("ksdelete", s)>>}
  BY <1>1, <1>4 DEF Begins
 <2>6. \A do : Step(do, s).do = do /\ Step(do, s).s = s BY DEF Step
 <2>7. \A do, with : /\ StepWith(do, s, with).do = do /\ StepWith(do, s, with).s = s
                     /\ StepWith(do, s, with).with = with
  BY DEF StepWith
 <2>8. CASE Rotating(s) /\ p = MoveThenCommit(s)
  <3>1. x = StepWith("rekey", s, staged[s]) /\ q = <<Step("commit", s)>> \o r
   BY <2>3, <2>8 DEF MoveThenCommit
  <3>2. x.do = "rekey" /\ x.s = s /\ x.with = staged[s] BY <2>7, <3>1
  <3> QED BY <2>8, <3>1, <3>2 DEF Turn
 <2>9. CASE /\ Rotating(s) /\ ~ Mounted(s)
            /\ p = <<StepWith("rename", s, staged[s]), Step("commit", s)>>
  <3>1. x = StepWith("rename", s, staged[s]) /\ q = <<Step("commit", s)>> \o r BY <2>3, <2>9
  <3>2. x.do = "rename" /\ x.s = s /\ x.with = staged[s] BY <2>7, <3>1
  <3> QED BY <2>9, <3>1, <3>2 DEF Turn
 <2>10. CASE /\ Rotating(s) => file[s] \in {Missing, staged[s]}
             /\ p = <<Step("commit", s)>>
  <3>1. x = Step("commit", s) /\ q = r BY <2>2, <2>10
  <3>2. x.do = "commit" /\ x.s = s BY <2>6, <3>1
  <3> QED BY <2>10, <3>1, <3>2 DEF Turn
 <2>11. CASE Exists(s) /\ ~ Mounted(s) /\ p = <<StepWith("rename", s, cur[s])>>
  <3>1. x = StepWith("rename", s, cur[s]) /\ q = r BY <2>2, <2>11
  <3>2. x.do = "rename" /\ x.s = s /\ x.with = cur[s] BY <2>7, <3>1
  <3> QED BY <2>11, <3>1, <3>2 DEF Turn
 <2>12. CASE Unlocked(s) /\ p = <<StepWith("connect", s, cur[s])>>
  <3>1. x = StepWith("connect", s, cur[s]) /\ q = r BY <2>2, <2>12
  <3>2. x.do = "connect" /\ x.s = s /\ x.with = cur[s] BY <2>7, <3>1
  <3> QED BY <2>12, <3>1, <3>2 DEF Turn
 <2>13. ASSUME NEW do \in {"create", "createnew"}, NEW with \in Withs, NEW y,
               y = StepWith(do, s, with), file[s] \in {Missing, Plain, Legacy},
               p \in {<<y>>, <<Step("mark", s), y>>, <<Step("unmark", s), y>>}
        PROVE  Turn(x, q)
  <3>1. CASE p = <<y>>
   <4>1. x = y /\ q = r BY <2>2, <3>1
   <4>2. x.do = do /\ x.s = s BY <2>7, <2>13, <4>1
   <4> QED BY <2>13, <4>1, <4>2 DEF Turn
  <3>2. CASE p \in {<<Step("mark", s), y>>, <<Step("unmark", s), y>>}
   <4>1. x \in {Step("mark", s), Step("unmark", s)} /\ q = <<y>> \o r BY <2>3, <3>2
   <4>2. x.do \in {"mark", "unmark"} /\ x.s = s BY <2>6, <4>1
   <4> QED BY <2>13, <4>1, <4>2 DEF Turn
  <3> QED BY <2>13, <3>1, <3>2
 <2>14. CASE p \in {<<Step("kslock", s), Step("close", s)>>, <<Step("close", s)>>}
  <3>1. \/ x = Step("kslock", s) /\ q = <<Step("close", s)>> \o r
        \/ x = Step("close", s) /\ q = r
   BY <2>2, <2>3, <2>14
  <3> QED BY ZenonT(60), <2>6, <3>1 DEF Turn
 <2>15. CASE p \in {<<Step("closeone", s), Step("ksdelete", s)>>,
                    <<Step("closeone", s), Step("delrow", s), Step("ksdelete", s)>>}
  <3>1. x = Step("closeone", s) /\ q \in {<<Step("ksdelete", s)>> \o r,
                                          <<Step("delrow", s), Step("ksdelete", s)>> \o r}
   BY <2>3, <2>4, <2>15
  <3> QED BY <2>6, <3>1 DEF Turn
 <2>16. CASE /\ ~ Mounted(s)
             /\ p \in {<<Step("delrow", s), Step("ksdelete", s)>>, <<Step("ksdelete", s)>>}
  <3>1. \/ x = Step("delrow", s) /\ q = <<Step("ksdelete", s)>> \o r
        \/ x = Step("ksdelete", s) /\ q = r
   BY <2>2, <2>3, <2>16
  <3> QED BY ZenonT(60), <2>6, <2>16, <3>1 DEF Turn
 <2> QED BY <2>5, <2>8, <2>9, <2>10, <2>11, <2>12, <2>13, <2>14, <2>15, <2>16
<1> QED BY <1>3, <1>4

LEMMA AtTurn ==
  ASSUME Neat, NEW do, At(Js, do)
  PROVE  job[Js] # <<>> /\ It(Js).do = do /\ Turn(It(Js), Tail(job[Js]))
BY HeadTurn DEF At, It

\* After most steps only easy ones come.
LEMMA EasyTail ==
  ASSUME Neat, NEW do, At(Js, do), do \notin Leading
  PROVE  Tail(job[Js]) \in Seq(EasyRec)
BY AtTurn DEF Turn, Leading, Careful, EasyRec

LEMMA EmptyIs == <<>> \in Seq(EasyRec) /\ <<>> \in Seq(StepRec) /\ Begins(<<>>) /\ Begins(<<>>)'
BY DEF Begins

\* The next list, when easy steps come next, when a beginning does, and when the rest of one does.
LEMMA ThenEasy ==
  ASSUME Jobs, Js \in Threads, NEW e \in Seq(EasyRec), Then(Js, e),
         Tail(job[Js]) \in Seq(EasyRec)
  PROVE  Neat'
<1>1. PICK w : w = e \o Tail(job[Js]) OBVIOUS
<1>2. w \in Seq(EasyRec) /\ w = <<>> \o w BY <1>1
<1>3. job' = [job EXCEPT ![Js] = Trim(<<>> \o w)] BY <1>1, <1>2 DEF Then
<1> QED BY <1>2, <1>3, EmptyIs, NowNeat

LEMMA ThenBegins ==
  ASSUME Jobs, Js \in Threads, NEW p \in Seq(StepRec), Then(Js, p), Begins(p)',
         Tail(job[Js]) \in Seq(EasyRec)
  PROVE  Neat'
BY NowNeat DEF Then

LEMMA ThenNext ==
  ASSUME Jobs, Js \in Threads, Then(Js, <<>>), NEW p \in Seq(StepRec),
         NEW r \in Seq(EasyRec), Tail(job[Js]) = p \o r, Begins(p)'
  PROVE  Neat'
<1>1. r \in Seq(StepRec) BY EasyAre
<1>2. p \o r = <<>> \o (p \o r) BY <1>1
<1>3. job' = [job EXCEPT ![Js] = Trim(p \o r)] BY <1>2 DEF Then
<1> QED BY <1>3, NowNeat

LEMMA ThenSplit ==
  ASSUME Jobs, Js \in Threads, NEW p \in Seq(StepRec), NEW e \in Seq(EasyRec), NEW w,
         Then(Js, w), w \o Tail(job[Js]) = p \o (e \o Tail(job[Js])),
         Tail(job[Js]) \in Seq(EasyRec), Begins(p)'
  PROVE  Neat'
<1>1. PICK r \in Seq(EasyRec) : r = Tail(job[Js]) OBVIOUS
<1>2. e \o r \in Seq(EasyRec) OBVIOUS
<1>3. job' = [job EXCEPT ![Js] = Trim(p \o (e \o r))] BY <1>1 DEF Then
<1> QED BY <1>2, <1>3, NowNeat

--------------------------------------------------
(* The databases *)

\* Keys may come into memory, and scopes that do not rotate may get a staged version, which
\* is not the current one.
LEMMA GrowCalm ==
  ASSUME Data, Calm, ~ At(Js, "close"), UNCHANGED <<cur, file, conn>>, open \subseteq open',
         \A s \in Scopes : staged'[s] = staged[s] \/ (~ Rotating(s) /\ staged'[s] # cur[s]),
         Neat'
  PROVE  Calm'
<1>1. None \notin Serials \cup {Missing, Plain, Legacy} /\ App \in Scopes
 BY StoreConstants DEF Scopes
<1>2. Reachable'
 <2> SUFFICES ASSUME NEW s \in Scopes, Exists(s)'
              PROVE  file'[s] \in {Missing, Plain, Legacy, cur'[s], staged'[s]}
  BY DEF Reachable
 <2>1. Exists(s) /\ file[s] \in {Missing, Plain, Legacy, cur[s], staged[s]}
  BY DEF Calm, Reachable, Exists
 <2>2. file[s] # None BY <1>1 DEF Data, Typed
 <2> QED BY <2>1, <2>2 DEF Rotating
<1>3. NothingStale' /\ MainMade' BY DEF Calm, NothingStale, MainMade, Exists
<1>4. Closed'
 <2>1. \A s \in Scopes : Mounted(s) => Unlocked(s) BY DEF Calm, Closed, Locked
 <2> QED BY <2>1 DEF Closed, Mounted, Locked, Unlocked, Exists, Current
<1>5. Apart' BY DEF Calm, Apart, Rotating
<1> QED BY <1>2, <1>3, <1>4, <1>5 DEF Calm

LEMMA SameCalm ==
  ASSUME Data, Calm, ~ At(Js, "close"), Same, Neat'
  PROVE  Calm'
BY GrowCalm DEF Same, keystore, databases

\* A database opens under the current key.
LEMMA LiveCalm ==
  ASSUME Data, Calm, ~ At(Js, "close"), NEW s \in Scopes, Unlocked(s), UNCHANGED keystore,
         file' = [file EXCEPT ![s] = cur[s]], conn' = [conn EXCEPT ![s] = "live"], Neat'
  PROVE  Calm'
<1>1. /\ \A x \in Scopes : file'[x] = IF x = s THEN cur[s] ELSE file[x]
      /\ \A x \in Scopes : conn'[x] = IF x = s THEN "live" ELSE conn[x]
      /\ UNCHANGED <<cur, staged, open>> /\ App \in Scopes
 BY DEF Data, Typed, keystore, Scopes
<1>2. Reachable' BY <1>1 DEF Calm, Reachable, Exists
<1>3. NothingStale' BY <1>1 DEF Calm, NothingStale
<1>4. Closed'
 <2>1. \A x \in Scopes : Mounted(x)' => Unlocked(x) BY <1>1 DEF Calm, Closed, Locked, Mounted
 <2> QED BY <1>1, <2>1 DEF Closed, Locked, Unlocked, Exists, Current
<1>5. MainMade' /\ Apart' BY <1>1 DEF Calm, MainMade, Apart, Exists, Rotating, Unlocked
<1> QED BY <1>2, <1>3, <1>4, <1>5 DEF Calm

\* A file moves to the current or the staged key while its connection, if any, moves along, or goes.
LEMMA FileCalm ==
  ASSUME Data, Calm, ~ At(Js, "close"), NEW s \in Scopes, NEW v,
         v = Missing \/ (Exists(s) /\ v \in {cur[s], staged[s]}),
         UNCHANGED <<keystore, conn>>, file' = [file EXCEPT ![s] = v], Neat'
  PROVE  Calm'
<1>1. /\ \A x \in Scopes : file'[x] = IF x = s THEN v ELSE file[x]
      /\ UNCHANGED <<cur, staged, open>> /\ App \in Scopes
 BY DEF Data, Typed, keystore, Scopes
<1>2. Reachable' BY <1>1 DEF Calm, Reachable, Exists
<1>3. NothingStale' /\ Apart' BY <1>1 DEF Calm, NothingStale, Apart, Rotating
<1>4. Closed'
 <2>1. \A x \in Scopes : Mounted(x) => Unlocked(x) BY DEF Calm, Closed, Locked
 <2> QED BY <1>1, <2>1 DEF Closed, Locked, Unlocked, Exists, Current, Mounted
<1>5. MainMade' BY <1>1 DEF Calm, MainMade, Exists
<1> QED BY <1>2, <1>3, <1>4, <1>5 DEF Calm

\* A connection is closed.
LEMMA ClosedCalm ==
  ASSUME Data, Calm, NEW s \in Scopes, ~ At(Js, "close"),
         UNCHANGED <<keystore, file>>, conn' = [conn EXCEPT ![s] = "no"], Neat'
  PROVE  Calm'
<1>1. /\ \A x \in Scopes : conn'[x] = IF x = s THEN "no" ELSE conn[x]
      /\ UNCHANGED <<cur, staged, open>>
 BY DEF Data, Typed, keystore
<1>2. Closed' BY <1>1 DEF Calm, Closed, Locked, Unlocked, Exists, Current, Mounted
<1>3. Reachable' /\ NothingStale' /\ MainMade' /\ Apart'
 BY <1>1 DEF Calm, Reachable, NothingStale, MainMade, Apart, Exists, Rotating
<1> QED BY <1>2, <1>3 DEF Calm

\* Only a close finds a database open whose key is gone.
LEMMA AtOther ==
  ASSUME NEW do, At(Js, do), do # "close"
  PROVE  ~ At(Js, "close")
BY DEF At

LEMMA FailCalm ==
  ASSUME Data, Jobs, Js \in Threads, Calm, ~ At(Js, "close"), Same,
         NEW error \in Errors, Fail(Js, error)
  PROVE  Calm'
BY NeatFail, SameCalm DEF Calm

\* The steps, one by one.
LEMMA FaultCalm ==
  ASSUME Data, Jobs, Js \in Threads, Calm, Fault(Js)
  PROVE  Calm'
<1>1. ~ At(Js, "close") /\ Fail(Js, "io") /\ Same BY DEF Fault, Fallible, At, It
<1> QED BY <1>1, ErrorsAre, FailCalm

LEMMA SweepCalm ==
  ASSUME Data, Jobs, Js \in Threads, Calm, Sweep(Js)
  PROVE  Calm'
<1> DEFINE S == {s \in Scopes : Rotating(s) /\ Unlocked(s)}
<1>1. At(Js, "sweep") /\ Then(Js, AppWide(S)) /\ Same BY DEF Sweep
<1>2. AppWide(S) \in Seq(EasyRec) BY AppWideEasy
<1> HIDE DEF S
<1>3. Neat' /\ ~ At(Js, "close")
 BY <1>1, <1>2, EasyTail, ThenEasy, AtOther DEF Calm, Leading, Careful
<1> QED BY <1>1, <1>3, SameCalm

LEMMA OpenAllCalm ==
  ASSUME Data, Jobs, Js \in Threads, Calm, OpenAll(Js)
  PROVE  Calm'
<1>1. At(Js, "openall") /\ Same /\ ~ At(Js, "close") BY AtOther DEF OpenAll
<1>2. CASE Fail(Js, "locked") BY <1>1, <1>2, ErrorsAre, FailCalm
<1>3. CASE Then(Js, EachOf(rows, "open"))
 <2>1. "open" \in EasyDo /\ rows \in SUBSET Scopes
       /\ rows \subseteq Workspaces
  BY DEF FreeDo, Careful, EasyDo, Data, Typed, Scopes
 <2>2. EachOf(rows, "open") \in Seq(EasyRec) BY <2>1, EachEasy
 <2>3. Neat' BY <1>1, <1>3, <2>2, EasyTail, ThenEasy DEF Calm, Leading, Careful
 <2> QED BY <1>1, <2>3, SameCalm
<1> QED BY <1>2, <1>3 DEF OpenAll

LEMMA AnnounceCalm ==
  ASSUME Data, Jobs, Js \in Threads, Calm, Announce(Js)
  PROVE  Calm'
<1>1. At(Js, "ready") /\ Same /\ ~ At(Js, "close") /\ Then(Js, <<>>) BY AtOther DEF Announce
<1>2. Neat' BY <1>1, EmptyIs, EasyTail, ThenEasy DEF Calm, Leading, Careful
<1> QED BY <1>1, <1>2, SameCalm

LEMMA CompleteCalm ==
  ASSUME Data, Jobs, Js \in Threads, Calm, Complete(Js)
  PROVE  Calm'
<1> PICK s : s = It(Js).s OBVIOUS
<1>1. At(Js, "complete") /\ Same /\ ~ At(Js, "close") /\ s \in Scopes
 BY AtOther, HeadScope DEF Complete
<1>2. Tail(job[Js]) \in Seq(EasyRec) BY <1>1, EasyTail DEF Calm, Leading, Careful
<1>3. CASE Then(Js, <<>>) BY <1>1, <1>2, <1>3, EmptyIs, ThenEasy, SameCalm
<1>4. CASE Fail(Js, "locked") BY <1>1, <1>4, ErrorsAre, FailCalm
<1>5. CASE Rotating(s) /\ Then(Js, MoveThenCommit(s))
 <2>1. PICK p : p = MoveThenCommit(s) OBVIOUS
 <2>2. staged[s] \in Withs BY <1>1 DEF Data, Typed, KeystoreType, Withs
 <2>3. None \in Withs /\ s \in Scopes BY <1>1 DEF Withs
 <2>4. p \in Seq(StepRec)
  <3>1. StepWith("rekey", s, staged[s]) \in StepRec /\ Step("commit", s) \in StepRec
   BY <2>2, <2>3, IsStep DEF FreeDo, Checked, OfWorkspace
  <3> QED BY <2>1, <3>1 DEF MoveThenCommit
 <2>5. Begins(p)'
  <3>1. Rotating(s)' /\ p = MoveThenCommit(s)'
   BY <1>1, <1>5, <2>1 DEF Same, keystore, databases, Rotating, MoveThenCommit
  <3> QED BY <2>3, <3>1 DEF Begins
 <2> QED BY <1>1, <1>2, <1>5, <2>1, <2>4, <2>5, ThenBegins, SameCalm
<1> QED BY <1>3, <1>4, <1>5 DEF Complete

LEMMA FinishAdoptionCalm ==
  ASSUME Data, Jobs, Js \in Threads, Calm, FinishAdoption(Js)
  PROVE  Calm'
<1> PICK s : s = It(Js).s OBVIOUS
<1>1. At(Js, "adopted") /\ Same /\ ~ At(Js, "close") /\ s \in Scopes
 BY AtOther, HeadScope DEF FinishAdoption
<1>2. \/ Then(Js, <<StepWith("move", s, Plain)>>)
      \/ Then(Js, <<>>)
 BY DEF FinishAdoption
<1>3. StepWith("move", s, Plain) \in EasyRec
 BY <1>1 DEF StepWith, EasyRec, StepRec, FreeDo, Withs, Careful, OfWorkspace, Old
<1>4. <<StepWith("move", s, Plain)>> \in Seq(EasyRec) BY <1>3
<1>5. Neat' BY <1>1, <1>2, <1>4, EmptyIs, EasyTail, ThenEasy DEF Calm, Leading, Careful
<1> QED BY <1>1, <1>5, SameCalm

LEMMA MoveCalm ==
  ASSUME Data, Jobs, Js \in Threads, Calm, Move(Js)
  PROVE  Calm'
<1> PICK s : s = It(Js).s OBVIOUS
<1>1. At(Js, "move") /\ Same /\ ~ At(Js, "close") /\ s \in Scopes BY AtOther, HeadScope DEF Move
<1>2. Tail(job[Js]) \in Seq(EasyRec) BY <1>1, EasyTail DEF Calm, Leading, Careful
<1>3. \/ Fail(Js, "locked") \/ Fail(Js, "io")
      \/ Then(Js, <<>>)
      \/ /\ Unlocked(s) /\ file[s] \notin {Missing, cur[s]} /\ file[s] = It(Js).with
         /\ Then(Js, <<StepWith("rename", s, cur[s])>>)
 BY DEF Move, Locked
<1>4. CASE Fail(Js, "locked") \/ Fail(Js, "io") BY <1>1, <1>4, ErrorsAre, FailCalm
<1>5. CASE Then(Js, <<>>) BY <1>1, <1>2, <1>5, EmptyIs, ThenEasy, SameCalm
<1>6. CASE /\ Unlocked(s) /\ file[s] \notin {Missing, cur[s]} /\ file[s] = It(Js).with
           /\ Then(Js, <<StepWith("rename", s, cur[s])>>)
 <2>1. PICK p : p = <<StepWith("rename", s, cur[s])>> OBVIOUS
 <2>2. It(Js) \in EasyRec /\ It(Js).do = "move" BY <1>1, AtTurn DEF Calm, Turn, EasyRec, Careful
 <2>3. Exists(s) /\ ~ Mounted(s) BY <1>1, <1>6, <2>2 DEF EasyRec, Unlocked, Data, OpenMoved
 <2>4. cur[s] \in Withs /\ None \in Withs BY <1>1 DEF Data, Typed, KeystoreType, Withs
 <2>5. p \in Seq(StepRec)
  <3>1. StepWith("rename", s, cur[s]) \in StepRec
   BY <1>1, <2>4, IsStep DEF FreeDo, Checked, OfWorkspace
  <3> QED BY <2>1, <3>1
 <2>6. Begins(p)'
  <3>1. Exists(s)' /\ ~ Mounted(s)' /\ p = <<StepWith("rename", s, cur'[s])>>
   BY <1>1, <2>1, <2>3 DEF Same, keystore, databases, Exists, Mounted
  <3> QED BY <1>1, <3>1 DEF Begins
 <2> QED BY <1>1, <1>2, <1>6, <2>1, <2>5, <2>6, ThenBegins, SameCalm
<1> QED BY <1>3, <1>4, <1>5, <1>6

LEMMA MountCalm ==
  ASSUME Data, Jobs, Js \in Threads, Calm, Mount(Js)
  PROVE  Calm'
<1> PICK s : s = It(Js).s OBVIOUS
<1>1. At(Js, "mount") /\ Same /\ ~ At(Js, "close") /\ s \in Scopes
 BY AtOther, HeadScope DEF Mount
<1>2. Tail(job[Js]) \in Seq(EasyRec) BY <1>1, EasyTail DEF Calm, Leading, Careful
<1>3. \/ Fail(Js, "locked")
      \/ Then(Js, <<>>)
      \/ Unlocked(s) /\ Then(Js, <<StepWith("connect", s, cur[s])>>)
 BY DEF Mount, Locked
<1>4. CASE Fail(Js, "locked") BY <1>1, <1>4, ErrorsAre, FailCalm
<1>5. CASE Then(Js, <<>>) BY <1>1, <1>2, <1>5, EmptyIs, ThenEasy, SameCalm
<1>6. CASE Unlocked(s) /\ Then(Js, <<StepWith("connect", s, cur[s])>>)
 <2>1. PICK p : p = <<StepWith("connect", s, cur[s])>> OBVIOUS
 <2>2. cur[s] \in Withs /\ None \in Withs BY <1>1 DEF Data, Typed, KeystoreType, Withs
 <2>3. p \in Seq(StepRec)
  <3>1. StepWith("connect", s, cur[s]) \in StepRec
   BY <1>1, <2>2, IsStep DEF FreeDo, Checked, OfWorkspace
  <3> QED BY <2>1, <3>1
 <2>4. Begins(p)'
  <3>1. Unlocked(s)' /\ p = <<StepWith("connect", s, cur'[s])>>
   BY <1>1, <1>6, <2>1 DEF Same, keystore, databases, Unlocked, Exists, Current
  <3> QED BY <1>1, <3>1 DEF Begins
 <2> QED BY <1>1, <1>2, <1>6, <2>1, <2>3, <2>4, ThenBegins, SameCalm
<1> QED BY <1>3, <1>4, <1>5, <1>6

LEMMA ConnectCalm ==
  ASSUME Data, Jobs, Js \in Threads, Calm, Connect(Js)
  PROVE  Calm'
<1> PICK s : s = It(Js).s OBVIOUS
<1>1. At(Js, "connect") /\ ~ At(Js, "close") /\ s \in Scopes /\ UNCHANGED <<keystore, rows, adopting>>
 BY AtOther, HeadScope DEF Connect
<1>2. Tail(job[Js]) \in Seq(EasyRec) /\ Unlocked(s) /\ It(Js).with = cur[s]
 <2> PICK x, q : x = It(Js) /\ q = Tail(job[Js]) OBVIOUS
 <2>1. Turn(x, q) /\ x.do = "connect" /\ x.s = s BY <1>1, AtTurn DEF Calm
 <2>2. x \notin EasyRec BY <2>1 DEF EasyRec, Careful
 <2> QED BY <2>1, <2>2 DEF Turn
<1>3. CASE /\ file' = [file EXCEPT ![s] = It(Js).with]
           /\ conn' = [conn EXCEPT ![s] = "live"]
           /\ Then(Js, <<>>)
 <2>1. Neat' BY <1>2, <1>3, EmptyIs, ThenEasy
 <2> QED BY <1>1, <1>2, <1>3, <2>1, LiveCalm
<1>4. CASE /\ Fail(Js, IF sealed[s] /\ file[s] # Plain THEN "needs" ELSE "io")
           /\ UNCHANGED <<file, conn>>
 <2>1. (IF sealed[s] /\ file[s] # Plain THEN "needs" ELSE "io") \in Errors BY DEF Errors
 <2>2. Same BY <1>1, <1>4 DEF Same, databases
 <2> QED BY <1>1, <1>4, <2>1, <2>2, FailCalm
<1> QED BY <1>3, <1>4 DEF Connect

LEMMA OpenMainCalm ==
  ASSUME Data, Jobs, Js \in Threads, Calm, OpenMain(Js)
  PROVE  Calm'
<1>1. At(Js, "openmain") /\ ~ At(Js, "close") /\ App \in Scopes /\ UNCHANGED <<keystore, adopting>>
 BY AtOther, HeadScope DEF OpenMain
<1>2. Tail(job[Js]) \in Seq(EasyRec) BY <1>1, EasyTail DEF Calm, Leading, Careful
<1>3. CASE /\ UNCHANGED <<file, conn, rows>>
           /\ Then(Js, <<>>) \/ Fail(Js, "locked") \/ Fail(Js, "io")
 <2>1. Same BY <1>1, <1>3 DEF Same, databases
 <2> QED BY <1>1, <1>2, <1>3, <2>1, EmptyIs, ThenEasy, SameCalm, ErrorsAre, FailCalm
<1>4. CASE /\ Unlocked(App) /\ Then(Js, <<>>)
           /\ file' = [file EXCEPT ![App] = cur[App]]
           /\ conn' = [conn EXCEPT ![App] = "live"]
 <2>1. Neat' BY <1>2, <1>4, EmptyIs, ThenEasy
 <2> QED BY <1>1, <1>4, <2>1, LiveCalm
<1> QED BY <1>3, <1>4 DEF OpenMain

LEMMA CommitNext ==
  ASSUME Jobs, Js \in Threads, NEW s \in Scopes, NEW r \in Seq(EasyRec),
         Tail(job[Js]) = <<Step("commit", s)>> \o r, Then(Js, <<>>),
         Rotating(s)' => file'[s] \in {Missing, staged'[s]}
  PROVE  Neat'
<1>1. PICK p : p = <<Step("commit", s)>> OBVIOUS
<1>2. Step("commit", s) \in StepRec BY IsStep DEF FreeDo, OfWorkspace, Withs
<1>3. p \in Seq(StepRec) /\ Begins(p)' BY <1>1, <1>2 DEF Begins
<1> QED BY <1>1, <1>3, ThenNext

LEMMA RekeyCalm ==
  ASSUME Data, Jobs, Js \in Threads, Calm, Rekey(Js)
  PROVE  Calm'
<1> PICK s, to : s = It(Js).s /\ to = It(Js).with OBVIOUS
<1>1. At(Js, "rekey") /\ ~ At(Js, "close") /\ s \in Scopes /\ App \in Scopes
      /\ UNCHANGED <<keystore, conn, rows, adopting>>
 BY AtOther, HeadScope DEF Rekey
<1>2. /\ Rotating(s) /\ to = staged[s]
      /\ \E r \in Seq(EasyRec) : Tail(job[Js]) = <<Step("commit", s)>> \o r
 <2> PICK x, q : x = It(Js) /\ q = Tail(job[Js]) OBVIOUS
 <2>1. Turn(x, q) /\ x.do = "rekey" /\ x.s = s BY <1>1, AtTurn DEF Calm
 <2>2. x \notin EasyRec BY <2>1 DEF EasyRec, Careful
 <2> QED BY <2>1, <2>2 DEF Turn
<1>3. PICK r \in Seq(EasyRec) : Tail(job[Js]) = <<Step("commit", s)>> \o r BY <1>2
<1>4. UNCHANGED <<cur, staged, open>> BY <1>1 DEF keystore
<1>5. CASE Mounted(s) /\ file' = [file EXCEPT ![s] = to] /\ Then(Js, <<>>)
 <2>1. \A x \in Scopes : file'[x] = IF x = s THEN staged[s] ELSE file[x]
  BY <1>2, <1>5 DEF Data, Typed
 <2>2. Neat' BY <1>1, <1>3, <1>4, <1>5, <2>1, CommitNext
 <2>3. Exists(s) /\ conn' = conn BY <1>1, <1>2 DEF Data, StagedLater
 <2> QED BY <1>1, <1>2, <1>5, <2>2, <2>3, FileCalm
<1>6. CASE file' = file /\ (Fail(Js, "locked") \/ Fail(Js, "io"))
 <2>1. Same BY <1>1, <1>6 DEF Same, databases
 <2> QED BY <1>1, <1>6, <2>1, ErrorsAre, FailCalm
<1>7. CASE file' = file /\ file[s] \in {Missing, to} /\ Then(Js, <<>>)
 <2>1. Same BY <1>1, <1>7 DEF Same, databases
 <2>2. Neat' BY <1>1, <1>2, <1>3, <1>4, <1>7, CommitNext
 <2> QED BY <1>1, <2>1, <2>2, SameCalm
<1>8. CASE file' = file /\ ~ Mounted(s) /\ Then(Js, <<StepWith("rename", s, to)>>)
 <2>1. Same BY <1>1, <1>8 DEF Same, databases
 <2>2. staged[s] \in Withs /\ None \in Withs BY <1>1 DEF Data, Typed, KeystoreType, Withs
 <2>3. PICK x, y : x = StepWith("rename", s, to) /\ y = Step("commit", s) OBVIOUS
 <2>4. x \in StepRec /\ y \in StepRec /\ r \in Seq(StepRec)
  BY <1>1, <1>2, <2>2, <2>3, IsStep, EasyAre DEF FreeDo, Checked, OfWorkspace
 <2>5. <<x>> \o Tail(job[Js]) = <<x, y>> \o r
  <3>1. PICK u, v : u = <<x>> /\ v = <<y>> OBVIOUS
  <3>2. u \in Seq(StepRec) /\ v \in Seq(StepRec) BY <2>4, <3>1
  <3>3. (u \o v) \o r = u \o (v \o r) BY <2>4, <3>2, ConcatAssociative
  <3>4. u \o v = <<x, y>> BY <2>4, <3>1, OneAndOne
  <3> QED BY <1>3, <2>3, <3>1, <3>3, <3>4
 <2>6. <<x, y>> \in Seq(StepRec) BY <2>4
 <2>7. PICK p : p = <<x, y>> OBVIOUS
 <2>8. Begins(p)'
  <3>1. /\ Rotating(s)' /\ ~ Mounted(s)'
        /\ p = <<StepWith("rename", s, staged'[s]), Step("commit", s)>>
   BY <1>1, <1>2, <1>4, <1>8, <2>3, <2>7 DEF Rotating, Mounted
  <3> QED BY <1>1, <3>1 DEF Begins
 <2>9. job' = [job EXCEPT ![Js] = Trim(p \o r)] BY <1>8, <2>3, <2>5, <2>7 DEF Then
 <2>10. Neat' BY <2>6, <2>7, <2>8, <2>9, NowNeat
 <2> QED BY <1>1, <2>1, <2>10, SameCalm
<1> QED
 <2>1. \/ Mounted(s) /\ (conn[s] = "live" => file' = [file EXCEPT ![s] = to]) /\ Then(Js, <<>>)
       \/ file' = file /\ (Fail(Js, "locked") \/ Fail(Js, "io"))
       \/ file' = file /\ file[s] \in {Missing, to} /\ Then(Js, <<>>)
       \/ file' = file /\ ~ Mounted(s) /\ Then(Js, <<StepWith("rename", s, to)>>)
  BY DEF Rekey, InPlace
 <2>2. Mounted(s) => conn[s] = "live" BY <1>1 DEF Calm, NothingStale, Mounted, Data, Typed
 <2> QED BY <1>5, <1>6, <1>7, <1>8, <2>1, <2>2

LEMMA CopyDoneCalm ==
  ASSUME Data, Jobs, Js \in Threads, Calm, CopyDone(Js)
  PROVE  Calm'
<1> PICK s, v : s = It(Js).s /\ v = It(Js).with OBVIOUS
<1>1. /\ At(Js, "rename") /\ ~ At(Js, "close") /\ s \in Scopes
      /\ Then(Js, <<>>) /\ UNCHANGED <<keystore, rows, adopting>>
      /\ file' = [file EXCEPT ![s] = v]
      /\ conn' = [conn EXCEPT ![s] = IF @ = "live" THEN "stale" ELSE @]
 BY AtOther, HeadScope DEF CopyDone
<1>2. UNCHANGED <<cur, staged, open>> BY <1>1 DEF keystore
<1>3. /\ ~ Mounted(s)
      /\ \/ Exists(s) /\ v = cur[s] /\ Tail(job[Js]) \in Seq(EasyRec)
         \/ /\ Rotating(s) /\ v = staged[s]
            /\ \E r \in Seq(EasyRec) : Tail(job[Js]) = <<Step("commit", s)>> \o r
 <2> PICK x, q : x = It(Js) /\ q = Tail(job[Js]) OBVIOUS
 <2>1. Turn(x, q) /\ x.do = "rename" /\ x.s = s /\ x.with = v BY <1>1, AtTurn DEF Calm
 <2>2. x \notin EasyRec BY <2>1 DEF EasyRec, Careful
 <2> QED BY <2>1, <2>2 DEF Turn
<1>4. conn' = conn BY <1>1, <1>3 DEF Mounted, Data, Typed
<1>5. /\ Exists(s) /\ v \in {cur[s], staged[s]}
      /\ \A x \in Scopes : file'[x] = IF x = s THEN v ELSE file[x]
 BY <1>1, <1>3 DEF Data, Typed, StagedLater
<1>6. CASE Tail(job[Js]) \in Seq(EasyRec) BY <1>1, <1>4, <1>5, <1>6, EmptyIs, ThenEasy, FileCalm
<1>7. ASSUME Rotating(s), v = staged[s], NEW r \in Seq(EasyRec),
             Tail(job[Js]) = <<Step("commit", s)>> \o r
      PROVE  Calm'
 <2>1. file'[s] \in {Missing, staged'[s]} BY <1>1, <1>2, <1>5, <1>7
 <2>2. Neat' BY <1>1, <1>7, <2>1, CommitNext
 <2> QED BY <1>1, <1>4, <1>5, <2>2, FileCalm
<1> QED BY <1>3, <1>6, <1>7

LEMMA CommitCalm ==
  ASSUME Data, Jobs, Js \in Threads, Calm, Commit(Js)
  PROVE  Calm'
<1> PICK s : s = It(Js).s OBVIOUS
<1>1. At(Js, "commit") /\ ~ At(Js, "close") /\ s \in Scopes /\ App \in Scopes /\ UNCHANGED databases
 BY AtOther, HeadScope DEF Commit
<1>2. CASE Fail(Js, "locked") /\ UNCHANGED keystore BY <1>1, <1>2, ErrorsAre, FailCalm DEF Same
<1>3. CASE KsCommit(s) /\ Then(Js, <<>>)
 <2>1. /\ Tail(job[Js]) \in Seq(EasyRec)
       /\ Rotating(s) => file[s] \in {Missing, staged[s]}
  <3> PICK x, q : x = It(Js) /\ q = Tail(job[Js]) OBVIOUS
  <3>1. Turn(x, q) /\ x.do = "commit" /\ x.s = s BY <1>1, AtTurn DEF Calm
  <3>2. x \notin EasyRec BY <3>1 DEF EasyRec, Careful
  <3> QED BY <3>1, <3>2 DEF Turn
 <2>2. /\ file[s] \in {Missing, staged[s]} /\ staged[s] # cur[s] /\ Rotating(s) /\ Exists(s)
       /\ Staged(s) \in open /\ open' = open \ {Current(s)}
       /\ \A x \in Scopes : /\ cur'[x] = IF x = s THEN staged[s] ELSE cur[x]
                            /\ staged'[x] = IF x = s THEN None ELSE staged[x]
       /\ file' = file /\ conn' = conn
  BY <1>1, <1>3, <2>1 DEF KsCommit, Calm, Apart, Data, Typed, KeystoreType, StagedLater, databases
 <2>3. Neat' BY <1>3, <2>1, EmptyIs, ThenEasy
 <2>4. Reachable' BY <1>1, <2>2 DEF Calm, Reachable, Exists
 <2>5. NothingStale' /\ Apart' /\ MainMade'
  BY <1>1, <2>2 DEF Calm, NothingStale, Apart, MainMade, Rotating, Exists
 <2>6. Closed'
  <3>1. \A x \in Scopes : Mounted(x) => Unlocked(x) BY <1>1 DEF Calm, Closed, Locked
  <3>2. Unlocked(s)'
   <4>1. <<s, staged[s]>> \in open' /\ cur'[s] = staged[s] /\ staged[s] # None
    <5>1. <<s, staged[s]>> # <<s, cur[s]>> BY <2>2
    <5> QED BY <1>1, <2>2, <5>1 DEF Rotating, Current, Staged
   <4> QED BY <4>1 DEF Unlocked, Exists, Current
  <3>3. \A x \in Scopes \ {s} : Unlocked(x) => Unlocked(x)'
   BY <2>2 DEF Unlocked, Exists, Current
  <3> QED BY <2>2, <3>1, <3>2, <3>3 DEF Closed, Locked, Mounted
 <2> QED BY <2>3, <2>4, <2>5, <2>6 DEF Calm
<1> QED BY <1>1, <1>2, <1>3 DEF Commit

LEMMA WriteRowCalm ==
  ASSUME Data, Jobs, Js \in Threads, Calm, WriteRow(Js)
  PROVE  Calm'
<1> PICK s : s = It(Js).s OBVIOUS
<1>1. PICK do \in {"mark", "unmark", "row"} : At(Js, do) BY DEF WriteRow
<1>2. /\ ~ At(Js, "close") /\ s \in Scopes /\ UNCHANGED <<keystore, file, conn>>
      /\ Then(Js, <<>>) \/ Fail(Js, "locked")
 BY <1>1, AtOther, HeadScope DEF WriteRow
<1>3. Neat' => Calm' BY <1>2, GrowCalm DEF keystore
<1>4. CASE Fail(Js, "locked") BY <1>3, <1>4, ErrorsAre, NeatFail DEF Calm
<1>5. CASE Then(Js, <<>>)
 <2>1. \/ Tail(job[Js]) \in Seq(EasyRec)
       \/ /\ file[s] \in {Missing, Plain, Legacy}
          /\ \E r \in Seq(EasyRec), c \in {"create", "createnew"}, with \in Withs :
                Tail(job[Js]) = <<StepWith(c, s, with)>> \o r
  <3> PICK x, q : x = It(Js) /\ q = Tail(job[Js]) OBVIOUS
  <3>1. Turn(x, q) /\ x.do \in {"mark", "unmark", "row"} /\ x.s = s BY <1>1, AtTurn DEF Calm
  <3> QED BY <3>1 DEF Turn
 <2>2. CASE Tail(job[Js]) \in Seq(EasyRec) BY <1>3, <1>5, <2>2, EmptyIs, ThenEasy
 <2>3. ASSUME file[s] \in {Missing, Plain, Legacy}, NEW r \in Seq(EasyRec),
              NEW c \in {"create", "createnew"}, NEW with \in Withs,
              Tail(job[Js]) = <<StepWith(c, s, with)>> \o r
       PROVE  Calm'
  <3>1. PICK y, p : y = StepWith(c, s, with) /\ p = <<y>> OBVIOUS
  <3>2. Tail(job[Js]) = p \o r /\ Tail(job[Js]) \in Seq(StepRec) /\ r \in Seq(StepRec)
   <4>1. job[Js] \in Seq(StepRec) /\ job[Js] # <<>> BY <1>1 DEF Jobs, At
   <4>2. Tail(job[Js]) \in Seq(StepRec) BY <4>1
   <4> QED BY <2>3, <3>1, <4>2, EasyAre
  <3>3. p \in Seq(StepRec)
   <4>1. Tail(job[Js])[1] \in StepRec /\ Tail(job[Js])[1] = y
    <5>1. Len(Tail(job[Js])) = 1 + Len(r) /\ Len(r) \in Nat /\ (p \o r)[1] = y BY <3>1, <3>2
    <5>2. 1 \in 1..Len(Tail(job[Js])) BY <5>1
    <5> QED BY <3>2, <5>1, <5>2
   <4>2. y \in StepRec BY <4>1
   <4> QED BY <3>1, <4>2
  <3>4. Begins(p)'
   <4>1. file'[s] \in {Missing, Plain, Legacy} /\ p \in {<<y>>, <<Step("mark", s), y>>, <<Step("unmark", s), y>>}
    BY <1>2, <2>3, <3>1
   <4> QED BY <1>2, <3>1, <4>1 DEF Begins
  <3> QED BY <1>3, <1>5, <3>2, <3>3, <3>4, ThenNext
 <2> QED BY <2>1, <2>2, <2>3
<1> QED BY <1>2, <1>4, <1>5

LEMMA CreateScopeCalm ==
  ASSUME Data, Jobs, Js \in Threads, Calm, CreateScope(Js)
  PROVE  Calm'
<1> PICK s : s = It(Js).s OBVIOUS
<1>1. PICK do \in {"create", "createnew"} : At(Js, do) BY DEF CreateScope
<1>2. ~ At(Js, "close") /\ s \in Scopes /\ App \in Scopes /\ UNCHANGED databases
 BY <1>1, AtOther, HeadScope DEF CreateScope
<1>3. CASE Fail(Js, "locked") /\ UNCHANGED keystore BY <1>2, <1>3, ErrorsAre, FailCalm DEF Same
<1>4. CASE /\ KsCreate(s, It(Js).with = "own")
           /\ Then(Js, IF At(Js, "create") THEN <<>>
                       ELSE <<Step("mount", s), Step("row", s), Step("undo", s)>>)
 <2>1. Tail(job[Js]) \in Seq(EasyRec) /\ file[s] \in {Missing, Plain, Legacy}
  <3> PICK x, q : x = It(Js) /\ q = Tail(job[Js]) OBVIOUS
  <3>1. Turn(x, q) /\ x.do \in {"create", "createnew"} /\ x.s = s BY <1>1, AtTurn DEF Calm
  <3>2. x \notin EasyRec BY <3>1 DEF EasyRec, Careful
  <3> QED BY <3>1, <3>2 DEF Turn
 <2>2. PICK n \in Serials : /\ cur' = [cur EXCEPT ![s] = n]
                            /\ open' = open \cup {<<s, n>>}
  BY <1>4 DEF KsCreate
 <2>3. s # App /\ ~ Exists(s) /\ Exists(App) /\ UNCHANGED staged /\ s \in Workspaces
  BY <1>2, <1>4 DEF KsCreate, Scopes
 <2>4. /\ ~ Rotating(s) /\ n # None
       /\ \A x \in Scopes : cur'[x] = IF x = s THEN n ELSE cur[x]
       /\ file' = file /\ conn' = conn
  BY <1>2, <2>2, <2>3, StoreConstants DEF Data, Typed, KeystoreType, StagedLater, databases
 <2>5. PICK e : e = IF At(Js, "create") THEN <<>>
                    ELSE <<Step("mount", s), Step("row", s), Step("undo", s)>>
  OBVIOUS
 <2>6. e \in Seq(EasyRec)
  <3>1. Step("mount", s) \in EasyRec /\ Step("row", s) \in EasyRec /\ Step("undo", s) \in EasyRec
   BY <1>2, <2>3, EasySteps
  <3>2. <<>> \in Seq(EasyRec) /\ <<Step("mount", s), Step("row", s), Step("undo", s)>> \in Seq(EasyRec)
   BY <3>1
  <3> QED BY <2>5, <3>2
 <2>7. Neat' BY <1>4, <2>1, <2>5, <2>6, ThenEasy
 <2>8. Reachable' BY <2>1, <2>3, <2>4 DEF Calm, Reachable, Exists
 <2>9. NothingStale' /\ Apart' /\ MainMade'
  BY <1>2, <2>3, <2>4 DEF Calm, NothingStale, Apart, MainMade, Rotating, Exists
 <2>10. Closed'
  <3>1. \A x \in Scopes : Mounted(x) => Unlocked(x) BY <1>2 DEF Calm, Closed, Locked
  <3>2. \A x \in Scopes : Unlocked(x) => Unlocked(x)'
   BY <2>2, <2>3, <2>4 DEF Unlocked, Exists, Current
  <3> QED BY <2>4, <3>1, <3>2 DEF Closed, Locked, Mounted
 <2> QED BY <2>7, <2>8, <2>9, <2>10 DEF Calm
<1> QED BY <1>2, <1>3, <1>4 DEF CreateScope

LEMMA DropKeysCalm ==
  ASSUME Data, Jobs, Js \in Threads, Calm, DropKeys(Js)
  PROVE  Calm'
<1> PICK s : s = It(Js).s OBVIOUS
<1>1. /\ At(Js, "kslock") /\ ~ At(Js, "close") /\ s \in Scopes /\ Then(Js, <<>>)
      /\ UNCHANGED <<cur, staged, sealed>> /\ UNCHANGED databases
 BY AtOther, HeadScope DEF DropKeys, KsLock
<1>2. PICK r \in Seq(EasyRec) : Tail(job[Js]) = <<Step("close", s)>> \o r
 <2> PICK x, q : x = It(Js) /\ q = Tail(job[Js]) OBVIOUS
 <2>1. Turn(x, q) /\ x.do = "kslock" /\ x.s = s BY <1>1, AtTurn DEF Calm
 <2>2. x \notin EasyRec BY <2>1 DEF EasyRec, Careful
 <2> QED BY <2>1, <2>2 DEF Turn
<1>3. PICK p : p = <<Step("close", s)>> OBVIOUS
<1>4. p \in Seq(StepRec) /\ p # <<>> /\ p[1].do = "close"
 <2>1. Step("close", s) \in StepRec /\ Step("close", s).do = "close"
  BY <1>1, IsStep DEF FreeDo, OfWorkspace, Withs
 <2> QED BY <1>3, <2>1
<1>5. Begins(p)' BY <1>1, <1>3 DEF Begins
<1>6. Neat' BY <1>1, <1>2, <1>3, <1>4, <1>5, ThenNext
<1>7. At(Js, "close")'
 <2>1. Trim(p \o r) = p \o r /\ p \o r # <<>> /\ Head(p \o r) = p[1] /\ <<>> \o (p \o r) = p \o r
  <3>1. p \o r \in Seq(StepRec) /\ p \o r # <<>> /\ Head(p \o r) = p[1] /\ (p \o r)[1] = p[1]
   BY <1>4, FrontOf
  <3>2. Trim(p \o r) = p \o r BY <1>4, <1>5, <3>1, FirmNext, TrimStays
  <3> QED BY <3>1, <3>2
 <2>2. job'[Js] = p \o r BY <1>1, <1>2, <1>3, <2>1 DEF Then, Jobs
 <2> QED BY <1>4, <2>1, <2>2 DEF At
<1>8. Closed' BY <1>7 DEF Closed
<1>9. Reachable' /\ NothingStale' /\ MainMade' /\ Apart'
 BY <1>1 DEF Calm, Reachable, NothingStale, MainMade, Apart, Exists, Rotating, databases
<1> QED BY <1>6, <1>8, <1>9 DEF Calm

LEMMA CloseLockedCalm ==
  ASSUME Data, Jobs, Js \in Threads, Calm, CloseLocked(Js)
  PROVE  Calm'
<1>1. /\ At(Js, "close") /\ Then(Js, <<>>) /\ UNCHANGED <<keystore, file, rows, adopting>>
      /\ conn' = [s \in Scopes |-> IF s \in Closing THEN "no" ELSE conn[s]]
 BY DEF CloseLocked
<1>2. UNCHANGED <<cur, staged, open>> BY <1>1 DEF keystore
<1>3. Tail(job[Js]) \in Seq(EasyRec)
 <2> PICK x, q : x = It(Js) /\ q = Tail(job[Js]) OBVIOUS
 <2>1. Turn(x, q) /\ x.do = "close" BY <1>1, AtTurn DEF Calm
 <2> QED BY <2>1 DEF Turn, EasyRec, Careful
<1>4. Neat' BY <1>1, <1>3, EmptyIs, ThenEasy
<1>5. Closed' BY <1>1, <1>2 DEF Closed, Closing, Locked, Unlocked, Exists, Current, Mounted
<1>6. Reachable' /\ NothingStale' /\ MainMade' /\ Apart'
 BY <1>1, <1>2 DEF Calm, Reachable, NothingStale, MainMade, Apart, Exists, Rotating
<1> QED BY <1>4, <1>5, <1>6 DEF Calm

LEMMA DeleteCalm ==
  ASSUME Data, Jobs, Js \in Threads, Calm, Delete(Js)
  PROVE  Calm'
<1> PICK s : s = It(Js).s OBVIOUS
<1>1. PICK x, q : x = It(Js) /\ q = Tail(job[Js]) OBVIOUS
<1>2. PICK do \in {"closeone", "delrow", "ksdelete", "unlink"} :
         At(Js, do) /\ x.do = do /\ x.s = s /\ Turn(x, q)
 <2>1. PICK do \in {"closeone", "delrow", "ksdelete", "unlink"} : At(Js, do) BY DEF Delete
 <2> QED BY <1>1, <2>1, AtTurn DEF Calm
<1>3. ~ At(Js, "close") /\ s \in Scopes /\ App \in Scopes BY <1>2, AtOther, HeadScope
<1>4. PICK d, k : d = Step("delrow", s) /\ k = Step("ksdelete", s) OBVIOUS
<1>5. <<k>> \in Seq(StepRec) /\ <<d, k>> \in Seq(StepRec)
 <2>1. d \in StepRec /\ k \in StepRec
  BY <1>3, <1>4, IsStep DEF FreeDo, Checked, OfWorkspace, Withs
 <2> QED BY <2>1
<1>6. CASE do = "closeone"
 <2>1. /\ conn' = [conn EXCEPT ![s] = "no"] /\ Then(Js, <<>>)
       /\ UNCHANGED <<keystore, file, rows, adopting>>
  BY <1>2, <1>6 DEF Delete, At
 <2>2. ~ Mounted(s)' BY <1>3, <2>1 DEF Mounted, Data, Typed
 <2>3. \/ q \in Seq(EasyRec)
       \/ \E r \in Seq(EasyRec), p \in {<<k>>, <<d, k>>} : q = p \o r
  BY <1>2, <1>4, <1>6 DEF Turn
 <2>4. ASSUME NEW r \in Seq(EasyRec), NEW p \in {<<k>>, <<d, k>>}, q = p \o r
       PROVE  Neat'
  <3>1. p \in Seq(StepRec) BY <1>5
  <3>2. Begins(p)' BY <1>3, <1>4, <2>2 DEF Begins
  <3> QED BY <1>1, <2>1, <2>4, <3>1, <3>2, ThenNext
 <2>5. Neat' BY <1>1, <2>1, <2>3, <2>4, EmptyIs, ThenEasy
 <2> QED BY <1>3, <2>1, <2>5, ClosedCalm
<1>7. CASE do = "delrow"
 <2>1. /\ UNCHANGED <<keystore, file, conn>>
       /\ Then(Js, <<>>) \/ Fail(Js, "locked")
  BY <1>2, <1>7 DEF Delete, At
 <2>2. \/ q \in Seq(EasyRec)
       \/ ~ Mounted(s) /\ \E r \in Seq(EasyRec) : q = <<k>> \o r
  BY <1>2, <1>4, <1>7 DEF Turn
 <2>3. ASSUME NEW r \in Seq(EasyRec), ~ Mounted(s), q = <<k>> \o r, Then(Js, <<>>)
       PROVE  Neat'
  <3>1. PICK p : p = <<k>> OBVIOUS
  <3>2. ~ Mounted(s)' BY <2>1, <2>3 DEF Mounted
  <3>3. Begins(p)' BY <1>3, <1>4, <3>1, <3>2 DEF Begins
  <3> QED BY <1>1, <1>5, <2>3, <3>1, <3>3, ThenNext
 <2>4. Neat' BY <1>1, <2>1, <2>2, <2>3, EmptyIs, ThenEasy, ErrorsAre, NeatFail DEF Calm
 <2> QED BY <1>3, <2>1, <2>4, GrowCalm DEF keystore
<1>8. CASE do = "ksdelete"
 <2>1. /\ KsDelete(s) \/ UNCHANGED keystore
       /\ Then(Js, <<>>) /\ UNCHANGED databases
  BY <1>2, <1>8 DEF Delete, At
 <2>2. x \notin EasyRec BY <1>2, <1>8 DEF EasyRec, Careful
 <2>3. q \in Seq(EasyRec) /\ ~ Mounted(s) BY <1>2, <1>8, <2>2 DEF Turn
 <2>4. Neat' BY <1>1, <2>1, <2>3, EmptyIs, ThenEasy
 <2>5. CASE UNCHANGED keystore BY <1>3, <2>1, <2>4, <2>5, SameCalm DEF Same
 <2>6. CASE KsDelete(s)
  <3>1. /\ s # App /\ open' = {v \in open : v[1] # s}
        /\ \A y \in Scopes : /\ cur'[y] = IF y = s THEN None ELSE cur[y]
                             /\ staged'[y] = IF y = s THEN None ELSE staged[y]
        /\ file' = file /\ conn' = conn
   BY <2>1, <2>6 DEF KsDelete, Data, Typed, KeystoreType, databases
  <3>2. Reachable' /\ NothingStale' /\ Apart' /\ MainMade'
   BY <1>3, <3>1 DEF Calm, Reachable, NothingStale, Apart, MainMade, Exists, Rotating
  <3>3. Closed'
   <4>1. \A y \in Scopes : Mounted(y) => Unlocked(y) BY <1>3 DEF Calm, Closed, Locked
   <4>2. \A y \in Scopes \ {s} : Unlocked(y) => Unlocked(y)'
    BY <3>1 DEF Unlocked, Exists, Current
   <4> QED BY <2>3, <3>1, <4>1, <4>2 DEF Closed, Locked, Mounted
  <3> QED BY <2>4, <3>2, <3>3 DEF Calm
 <2> QED BY <2>1, <2>5, <2>6
<1>9. CASE do = "unlink"
 <2>1. /\ file' = [file EXCEPT ![s] = Missing] /\ Then(Js, <<>>)
       /\ UNCHANGED <<keystore, conn, rows, adopting>>
  BY <1>2, <1>9 DEF Delete, At
 <2>2. q \in Seq(EasyRec) BY <1>1, <1>2, <1>9, EasyTail DEF Calm, Leading, Careful
 <2>3. Neat' BY <1>1, <2>1, <2>2, EmptyIs, ThenEasy
 <2> QED BY <1>3, <2>1, <2>3, FileCalm
<1> QED BY <1>6, <1>7, <1>8, <1>9

\* mark; create; move; mount; unmark: the file stays old until the create.
LEMMA AdoptionSplit ==
  ASSUME NEW s \in Workspaces, file[s] \in {Missing, Plain}, UNCHANGED file
  PROVE  \E p \in Seq(StepRec), e \in Seq(EasyRec) :
            /\ Begins(p)'
            /\ \A r \in Seq(EasyRec) : Adoption(s) \o r = p \o (e \o r)
<1>1. PICK a, b, c, d, f : /\ a = Step("mark", s) /\ b = StepWith("create", s, "quiet")
                           /\ c = StepWith("move", s, Plain) /\ d = Step("mount", s)
                           /\ f = Step("unmark", s)
 OBVIOUS
<1>2. s \in Scopes /\ None \in Withs /\ "quiet" \in Withs /\ Plain \in Old
 BY DEF Scopes, Withs, Old
<1>3. c \in EasyRec /\ d \in EasyRec /\ f \in EasyRec BY <1>1, <1>2, EasySteps
<1>4. a \in StepRec /\ b \in StepRec BY <1>1, <1>2, IsStep DEF FreeDo, Checked, OfWorkspace
<1>5. PICK p, e, w : p = <<a, b>> /\ e = <<c, d, f>> /\ w = <<a, b, c, d, f>> OBVIOUS
<1>6. p \in Seq(StepRec) /\ e \in Seq(EasyRec) BY <1>3, <1>4, <1>5
<1>7. Begins(p)'
 <2>1. file'[s] \in {Missing, Plain, Legacy} OBVIOUS
 <2>2. p = <<Step("mark", s), StepWith("create", s, "quiet")>> BY <1>1, <1>5
 <2> QED BY <1>2, <2>1, <2>2 DEF Begins
<1>8. ASSUME NEW r \in Seq(EasyRec) PROVE Adoption(s) \o r = p \o (e \o r)
 <2>1. e \in Seq(StepRec) /\ r \in Seq(StepRec) BY <1>6, EasyAre
 <2>2. (p \o e) \o r = p \o (e \o r) BY ONLY <1>6, <2>1, ConcatAssociative
 <2>3. p \o e = w
  <3>1. c \in StepRec /\ d \in StepRec /\ f \in StepRec BY <1>3, EasyAre
  <3> QED BY <1>4, <1>5, <3>1, TwoAndThree
 <2>4. w = Adoption(s) BY <1>1, <1>5 DEF Adoption
 <2> QED BY <2>2, <2>3, <2>4
<1> QED BY <1>6, <1>7, <1>8

LEMMA OpenWorkspaceCalm ==
  ASSUME Data, Jobs, Js \in Threads, Calm, OpenWorkspace(Js)
  PROVE  Calm'
<1> PICK s : s = It(Js).s OBVIOUS
<1>1. At(Js, "open") /\ ~ At(Js, "close") /\ s \in Scopes /\ UNCHANGED databases
 BY AtOther, HeadScope DEF OpenWorkspace
<1>2. s \in Workspaces
 <2>1. job[Js] # <<>> /\ job[Js] \in Seq(StepRec) BY <1>1 DEF Jobs, At
 <2>2. It(Js) \in StepRec /\ It(Js).do = "open" BY <1>1, <2>1 DEF It, At
 <2> QED BY <2>2 DEF StepRec, OfWorkspace
<1>3. Tail(job[Js]) \in Seq(EasyRec) BY <1>1, EasyTail DEF Calm, Leading, Careful
<1>4. CASE Then(Js, <<>>) /\ UNCHANGED keystore
 BY <1>1, <1>3, <1>4, EmptyIs, ThenEasy, SameCalm DEF Same
<1>5. CASE Fail(Js, "needs") /\ UNCHANGED keystore BY <1>1, <1>5, ErrorsAre, FailCalm DEF Same
<1>6. CASE file[s] \in {Missing, Plain} /\ Then(Js, Adoption(s)) /\ UNCHANGED keystore
 <2>1. PICK p \in Seq(StepRec), e \in Seq(EasyRec) :
          /\ Begins(p)'
          /\ \A r \in Seq(EasyRec) : Adoption(s) \o r = p \o (e \o r)
  BY <1>1, <1>2, <1>6, AdoptionSplit DEF databases
 <2>2. Neat' BY <1>3, <1>6, <2>1, ThenSplit
 <2> QED BY <1>1, <1>6, <2>2, SameCalm DEF Same
<1>7. CASE /\ \E V \in Obtained(s) : KsUnlock(V)
           /\ Then(Js, <<Step("complete", s), Step("adopted", s), Step("mount", s), Step("unmark", s)>>)
 <2>1. <<Step("complete", s), Step("adopted", s), Step("mount", s), Step("unmark", s)>> \in Seq(EasyRec)
  BY <1>1, EasySteps
 <2>2. Neat' BY <1>3, <1>7, <2>1, ThenEasy
 <2>3. open \subseteq open' /\ UNCHANGED <<cur, staged, file, conn>>
  BY <1>1, <1>7 DEF KsUnlock, databases
 <2> QED BY <1>1, <2>2, <2>3, GrowCalm
<1> QED BY <1>4, <1>5, <1>6, <1>7 DEF OpenWorkspace

LEMMA UnlockOwnCalm ==
  ASSUME Data, Jobs, Js \in Threads, Calm, UnlockOwn(Js)
  PROVE  Calm'
<1> PICK s : s = It(Js).s OBVIOUS
<1>1. At(Js, "unlock") /\ ~ At(Js, "close") /\ s \in Scopes /\ UNCHANGED databases
 BY AtOther, HeadScope DEF UnlockOwn
<1>2. Tail(job[Js]) \in Seq(EasyRec) BY <1>1, EasyTail DEF Calm, Leading, Careful
<1>3. CASE Then(Js, <<>>) /\ UNCHANGED keystore
 BY <1>1, <1>2, <1>3, EmptyIs, ThenEasy, SameCalm DEF Same
<1>4. CASE Fail(Js, "locked") /\ UNCHANGED keystore BY <1>1, <1>4, ErrorsAre, FailCalm DEF Same
<1>5. ASSUME NEW V, KsUnlock(V), NEW typed \in {<<>>, <<StepWith("move", s, Legacy)>>},
             Then(Js, <<Step("complete", s)>> \o typed \o <<Step("mount", s), Step("drop", s)>>)
      PROVE  Calm'
 <2>1. PICK a, b, c, d : /\ a = Step("complete", s) /\ b = StepWith("move", s, Legacy)
                         /\ c = Step("mount", s) /\ d = Step("drop", s)
  OBVIOUS
 <2>2. a \in EasyRec /\ b \in EasyRec /\ c \in EasyRec /\ d \in EasyRec
  BY <1>1, <2>1, EasySteps DEF Old
 <2>3. typed \in Seq(EasyRec)
  <3>1. <<b>> \in Seq(EasyRec) /\ <<>> \in Seq(EasyRec) BY <2>2
  <3> QED BY <1>5, <2>1, <3>1
 <2>4. (<<a>> \o typed) \o <<c, d>> \in Seq(EasyRec) BY <2>2, <2>3
 <2>5. Neat' BY <1>2, <1>5, <2>1, <2>4, ThenEasy
 <2>6. open \subseteq open' /\ UNCHANGED <<cur, staged, file, conn>>
  BY <1>1, <1>5 DEF KsUnlock, databases
 <2> QED BY <1>1, <2>5, <2>6, GrowCalm
<1> QED BY <1>3, <1>4, <1>5 DEF UnlockOwn

\* A change of passwords stages versions that are not the current ones.
LEMMA StageGrows ==
  ASSUME Data, NEW T \in SUBSET Scopes, \A s \in T : ~ Rotating(s), Stage(T)
  PROVE  /\ open \subseteq open'
         /\ \A s \in Scopes : staged'[s] = staged[s] \/ (~ Rotating(s) /\ staged'[s] # cur[s])
BY DEF Stage

LEMMA DropPasswordCalm ==
  ASSUME Data, Jobs, Js \in Threads, Calm, DropPassword(Js)
  PROVE  Calm'
<1> PICK s : s = It(Js).s OBVIOUS
<1>1. At(Js, "drop") /\ ~ At(Js, "close") /\ s \in Scopes /\ UNCHANGED databases
 BY AtOther, HeadScope DEF DropPassword
<1>2. Tail(job[Js]) \in Seq(EasyRec) BY <1>1, EasyTail DEF Calm, Leading, Careful
<1>3. CASE Then(Js, <<>>) /\ UNCHANGED keystore
 BY <1>1, <1>2, <1>3, EmptyIs, ThenEasy, SameCalm DEF Same
<1>4. CASE Fail(Js, "locked") /\ UNCHANGED keystore BY <1>1, <1>4, ErrorsAre, FailCalm DEF Same
<1>5. CASE KsRemovePassword(s) /\ Then(Js, <<Step("complete", s)>>)
 <2>1. <<Step("complete", s)>> \in Seq(EasyRec) BY <1>1, EasySteps
 <2>2. Neat' BY <1>2, <1>5, <2>1, ThenEasy
 <2>3. {s} \in SUBSET Scopes /\ (\A x \in {s} : ~ Rotating(x)) /\ Stage({s}) /\ UNCHANGED cur
  BY <1>1, <1>5 DEF KsRemovePassword
 <2> QED BY <1>1, <2>2, <2>3, StageGrows, GrowCalm DEF databases
<1> QED BY <1>3, <1>4, <1>5 DEF DropPassword

LEMMA ChangePasswordCalm ==
  ASSUME Data, Jobs, Js \in Threads, Calm, ChangePassword(Js)
  PROVE  Calm'
<1> PICK s : s = It(Js).s OBVIOUS
<1>1. PICK do \in {"setpw", "rmpw"} : At(Js, do) BY DEF ChangePassword
<1>2. ~ At(Js, "close") /\ s \in Scopes /\ App \in Scopes /\ UNCHANGED databases
 BY <1>1, AtOther, HeadScope DEF ChangePassword
<1>3. Tail(job[Js]) \in Seq(EasyRec) BY <1>1, EasyTail DEF Calm, Leading, Careful
<1>4. <<Step("complete", s)>> \in Seq(EasyRec) BY <1>2, EasySteps
<1>5. CASE Then(Js, <<>>) /\ UNCHANGED keystore
 BY <1>2, <1>3, <1>5, EmptyIs, ThenEasy, SameCalm DEF Same
<1>6. CASE Fail(Js, "locked") /\ UNCHANGED keystore BY <1>2, <1>6, ErrorsAre, FailCalm DEF Same
<1>7. CASE KsRemovePassword(s) /\ Then(Js, <<Step("complete", s)>>)
 <2>1. Neat' BY <1>3, <1>4, <1>7, ThenEasy
 <2>2. {s} \in SUBSET Scopes /\ (\A x \in {s} : ~ Rotating(x)) /\ Stage({s}) /\ UNCHANGED cur
  BY <1>2, <1>7 DEF KsRemovePassword
 <2> QED BY <1>2, <2>1, <2>2, StageGrows, GrowCalm DEF databases
<1>8. CASE /\ KsSetPassword(s)
           /\ Then(Js, IF s = App
                       THEN AppWide(Affected(App)) \o DropEach({w \in Workspaces : s = App /\ sealed[w]})
                       ELSE <<Step("complete", s)>>)
 <2> PICK own : own = {w \in Workspaces : s = App /\ sealed[w]} OBVIOUS
 <2>1. PICK e : e = IF s = App THEN AppWide(Affected(App)) \o DropEach(own)
                               ELSE <<Step("complete", s)>>
  OBVIOUS
 <2>2. e \in Seq(EasyRec)
  <3>1. Affected(App) \in SUBSET Scopes /\ own \in SUBSET Scopes BY DEF Affected, Scopes
  <3>2. "drop" \in EasyDo /\ "drop" \notin OfWorkspace
   BY DEF FreeDo, Checked, Careful, EasyDo, OfWorkspace
  <3>3. AppWide(Affected(App)) \in Seq(EasyRec) /\ DropEach(own) \in Seq(EasyRec)
   BY <3>1, <3>2, AppWideEasy, EachEasy
  <3>4. AppWide(Affected(App)) \o DropEach(own) \in Seq(EasyRec) BY <3>3
  <3> QED BY <1>4, <2>1, <3>4
 <2>3. Neat' BY <1>3, <1>8, <2>1, <2>2, ThenEasy
 <2>4. /\ Affected(s) \in SUBSET Scopes /\ \A x \in Affected(s) : ~ Rotating(x)
       /\ Stage(Affected(s)) /\ UNCHANGED cur
  BY <1>2, <1>8 DEF KsSetPassword, Affected, Scopes
 <2> QED BY <1>2, <2>3, <2>4, StageGrows, GrowCalm DEF databases
<1> QED BY <1>1, <1>5, <1>6, <1>7, <1>8 DEF ChangePassword

LEMMA CrashCalm ==
  ASSUME Data, Calm, Js \in Threads, Crash
  PROVE  Calm'
<1>1. /\ UNCHANGED <<cur, staged, file>> /\ conn' = [s \in Scopes |-> "no"]
      /\ job' = [t \in Threads |-> <<>>]
 BY DEF Crash, KsForget
<1>2. Neat'
 <2>1. job'[Js] = <<>> \o <<>> BY <1>1
 <2> QED BY <2>1, EmptyIs DEF Neat
<1>3. NothingStale' /\ Closed' BY <1>1 DEF NothingStale, Closed, Mounted
<1>4. Reachable' /\ MainMade' /\ Apart'
 BY <1>1 DEF Calm, Reachable, MainMade, Apart, Exists, Rotating
<1> QED BY <1>2, <1>3, <1>4 DEF Calm

LEMMA WorkCalm ==
  ASSUME Data, Jobs, Js \in Threads, Calm, Work(Js)
  PROVE  Calm'
BY OpenMainCalm, SweepCalm, OpenAllCalm, CompleteCalm, RekeyCalm, CopyDoneCalm, CommitCalm,
   OpenWorkspaceCalm, FinishAdoptionCalm, MoveCalm, MountCalm, ConnectCalm, WriteRowCalm,
   CreateScopeCalm, UnlockOwnCalm, DropPasswordCalm, ChangePasswordCalm, DropKeysCalm,
   CloseLockedCalm, DeleteCalm, FaultCalm DEF Work

\* The calls.
LEMMA RestNeat ==
  ASSUME job'[Js] = <<>>
  PROVE  Neat'
<1>1. <<>> = <<>> \o <<>> BY EmptyIs
<1> QED BY <1>1, EmptyIs DEF Neat

LEMMA BeginSplit ==
  ASSUME Jobs, Js \in Threads, NEW p \in Seq(StepRec), NEW e \in Seq(EasyRec),
         Begin(Js, p \o e), Begins(p)'
  PROVE  Neat' /\ ~ At(Js, "close")
BY NowNeat DEF Begin, At

LEMMA BeginEasy ==
  ASSUME Jobs, Js \in Threads, NEW e \in Seq(EasyRec), Begin(Js, e)
  PROVE  Neat' /\ ~ At(Js, "close")
<1>1. e = <<>> \o e OBVIOUS
<1> QED BY <1>1, EmptyIs, BeginSplit

LEMMA AfterUnlockEasy ==
  /\ AfterUnlock \in Seq(EasyRec)
  /\ AfterUnlock \o <<Step("relock", App)>> \in Seq(EasyRec)
<1>1. PICK a, b, c, d, f : /\ a = Step("openmain", App) /\ b = Step("sweep", App)
                           /\ c = Step("openall", App) /\ d = Step("ready", App)
                           /\ f = Step("relock", App)
 OBVIOUS
<1>2. a \in EasyRec /\ b \in EasyRec /\ c \in EasyRec /\ d \in EasyRec /\ f \in EasyRec
 <2>1. App \in Scopes BY DEF Scopes
 <2> QED BY <1>1, <2>1, EasySteps
<1>3. <<a, b, c, d>> \in Seq(EasyRec) /\ <<a, b, c, d>> \o <<f>> \in Seq(EasyRec) BY <1>2
<1> QED BY <1>1, <1>3 DEF AfterUnlock

LEMMA InitializeCalm ==
  ASSUME Data, Calm, ~ At(Js, "close"), UNCHANGED databases, KsInitialize({}, {}), Neat'
  PROVE  Calm'
<1>1. PICK n \in Serials :
         /\ cur' = [s \in Scopes |-> IF s = App THEN n ELSE None]
         /\ open' = {App} \X {n}
 BY DEF KsInitialize
<1>2. /\ \A s \in Scopes : ~ Exists(s) /\ ~ Mounted(s) /\ ~ Rotating(s)
      /\ staged' = staged /\ file' = file /\ conn' = conn
 BY DEF KsInitialize, Calm, Closed, Locked, Unlocked, Data, StagedLater, databases
<1>3. App \in Scopes /\ n # None /\ file[App] = Missing
 BY <1>2, StoreConstants DEF Scopes, Calm, MainMade
<1>4. Reachable' BY <1>1, <1>2, <1>3 DEF Reachable, Exists
<1>5. NothingStale' /\ Closed' /\ Apart'
 BY <1>2 DEF Calm, NothingStale, Closed, Apart, Mounted, Rotating
<1>6. MainMade' BY <1>1, <1>3 DEF MainMade, Exists
<1> QED BY <1>4, <1>5, <1>6 DEF Calm

LEMMA UnlockCalm ==
  ASSUME Data, Calm, ~ At(Js, "close"), UNCHANGED databases, NEW V, KsUnlock(V), Neat'
  PROVE  Calm'
<1>1. open \subseteq open' /\ UNCHANGED <<cur, staged, file, conn>> BY DEF KsUnlock, databases
<1> QED BY <1>1, GrowCalm

LEMMA StartCalm ==
  ASSUME Data, Jobs, Js \in Threads, Calm, Start(Js)
  PROVE  Calm'
<1>1. job[Js] = <<>> /\ UNCHANGED databases /\ ~ At(Js, "close") BY DEF Start, At
<1>2. CASE UNCHANGED <<keystore, job>> BY <1>1, <1>2, RestNeat, SameCalm DEF Same
<1>3. CASE KsInitialize({}, {}) /\ Begin(Js, AfterUnlock)
 BY <1>1, <1>3, AfterUnlockEasy, BeginEasy, InitializeCalm
<1>4. CASE KsUnlock(Versions(App)) /\ Begin(Js, AfterUnlock)
 BY <1>1, <1>4, AfterUnlockEasy, BeginEasy, UnlockCalm
<1> QED BY <1>2, <1>3, <1>4 DEF Start

LEMMA UnlockAppCalm ==
  ASSUME Data, Jobs, Js \in Threads, Calm, UnlockApp(Js)
  PROVE  Calm'
<1>1. PICK V : KsUnlock(V) BY DEF UnlockApp
<1>2. Begin(Js, AfterUnlock \o <<Step("relock", App)>>) /\ UNCHANGED databases BY DEF UnlockApp
<1> QED BY <1>1, <1>2, AfterUnlockEasy, BeginEasy, UnlockCalm

LEMMA CallEasy ==
  ASSUME Data, Jobs, Js \in Threads, Calm, NEW e \in Seq(EasyRec), Call(Js, e)
  PROVE  Calm'
BY BeginEasy, SameCalm DEF Call

LEMMA CallSplit ==
  ASSUME Data, Jobs, Js \in Threads, Calm, NEW p \in Seq(StepRec), NEW e \in Seq(EasyRec),
         NEW w, w = p \o e, Call(Js, w), Begins(p)'
  PROVE  Calm'
BY BeginSplit, SameCalm DEF Call

LEMMA MasterCalm ==
  ASSUME Data, Jobs, Js \in Threads, Calm,
         SetMasterPassword(Js) \/ RemoveMasterPassword(Js)
  PROVE  Calm'
<1>1. App \in Scopes BY DEF Scopes
<1>2. Step("setpw", App) \in EasyRec /\ Step("rmpw", App) \in EasyRec BY <1>1, EasySteps
<1>3. <<Step("setpw", App)>> \in Seq(EasyRec) /\ <<Step("rmpw", App)>> \in Seq(EasyRec) BY <1>2
<1> QED BY <1>3, CallEasy DEF SetMasterPassword, RemoveMasterPassword

LEMMA CreateWorkspaceCalm ==
  ASSUME Data, Jobs, Js \in Threads, Calm, NEW s \in Workspaces, NEW own \in {"own", "quiet"},
         CreateWorkspace(Js, s, own)
  PROVE  Calm'
<1>1. PICK a, b, p : a = Step("unmark", s) /\ b = StepWith("createnew", s, own) /\ p = <<a, b>>
 OBVIOUS
<1>2. s \in Scopes /\ own \in Withs /\ None \in Withs BY DEF Scopes, Withs
<1>3. a \in StepRec /\ b \in StepRec BY <1>1, <1>2, IsStep DEF FreeDo, Checked, OfWorkspace
<1>4. p \in Seq(StepRec) /\ p = p \o <<>> BY <1>1, <1>3
<1>5. Call(Js, p) /\ file'[s] = Missing BY <1>1 DEF CreateWorkspace, Call, Same, databases
<1>6. Begins(p)'
 <2>1. p = <<Step("unmark", s), StepWith("createnew", s, own)>> BY <1>1
 <2> QED BY <1>2, <1>5, <2>1 DEF Begins
<1> QED BY <1>4, <1>5, <1>6, EmptyIs, CallSplit

LEMMA DeleteWorkspaceCalm ==
  ASSUME Data, Jobs, Js \in Threads, Calm, NEW s \in Workspaces, DeleteWorkspace(Js, s)
  PROVE  Calm'
<1>1. PICK a, b, c, d : /\ a = Step("closeone", s) /\ b = Step("delrow", s)
                        /\ c = Step("ksdelete", s) /\ d = Step("unlink", s)
 OBVIOUS
<1>2. s \in Scopes /\ None \in Withs BY DEF Scopes, Withs
<1>3. a \in StepRec /\ b \in StepRec /\ c \in StepRec
 BY <1>1, <1>2, IsStep DEF FreeDo, Checked, OfWorkspace
<1>4. d \in EasyRec /\ d \in StepRec BY <1>1, <1>2, EasySteps, EasyAre
<1>5. PICK p, e, w : p = <<a, b, c>> /\ e = <<d>> /\ w = <<a, b, c, d>> OBVIOUS
<1>6. p \in Seq(StepRec) /\ e \in Seq(EasyRec) BY <1>3, <1>4, <1>5
<1>7. w = p \o e BY <1>3, <1>4, <1>5, ThreeAndOne
<1>8. Call(Js, w) BY <1>1, <1>5 DEF DeleteWorkspace
<1>9. Begins(p)' BY <1>1, <1>2, <1>5 DEF Begins
<1> QED BY <1>6, <1>7, <1>8, <1>9, CallSplit

LEMMA OpenCallCalm ==
  ASSUME Data, Jobs, Js \in Threads, Calm, NEW s \in Workspaces,
         OpenCall(Js, s) \/ SetWorkspacePassword(Js, s)
  PROVE  Calm'
<1>1. s \in Scopes BY DEF Scopes
<1>2. Step("open", s) \in EasyRec /\ Step("setpw", s) \in EasyRec BY <1>1, EasySteps
<1>3. <<Step("open", s)>> \in Seq(EasyRec) /\ <<Step("open", s), Step("setpw", s)>> \in Seq(EasyRec)
 BY <1>2
<1> QED BY <1>3, CallEasy DEF OpenCall, SetWorkspacePassword

LEMMA UnlockWorkspaceCalm ==
  ASSUME Data, Jobs, Js \in Threads, Calm, NEW s \in Workspaces, UnlockWorkspace(Js, s)
  PROVE  Calm'
<1>1. s \in Scopes /\ "own" \in Withs /\ Legacy \in Old BY DEF Scopes, Withs, Old
<1>2. CASE Exists(s)
 <2>1. Step("open", s) \in EasyRec /\ Step("asks", s) \in EasyRec /\ Step("unlock", s) \in EasyRec
  BY <1>1, EasySteps
 <2>2. <<Step("open", s), Step("asks", s), Step("unlock", s)>> \in Seq(EasyRec) BY <2>1
 <2> QED BY <1>2, <2>2, CallEasy DEF UnlockWorkspace, UnlockWith
<1>3. CASE ~ Exists(s)
 <2>1. PICK a, b, c, d : /\ a = StepWith("create", s, "own") /\ b = StepWith("move", s, Legacy)
                         /\ c = Step("mount", s) /\ d = Step("drop", s)
  OBVIOUS
 <2>2. a \in StepRec BY <1>1, <2>1, IsStep DEF FreeDo, Checked, OfWorkspace
 <2>3. b \in EasyRec /\ c \in EasyRec /\ d \in EasyRec BY <1>1, <2>1, EasySteps
 <2>4. b \in StepRec /\ c \in StepRec /\ d \in StepRec BY <2>3, EasyAre
 <2>5. PICK p, e, w : p = <<a>> /\ e = <<b, c, d>> /\ w = <<a, b, c, d>> OBVIOUS
 <2>6. p \in Seq(StepRec) /\ e \in Seq(EasyRec) BY <2>2, <2>3, <2>5
 <2>7. w = p \o e BY <2>2, <2>4, <2>5, OneAndThree
 <2>8. Call(Js, w) /\ file'[s] = Legacy
  BY <1>3, <2>1, <2>5 DEF UnlockWorkspace, UnlockWith, Call, Same, databases
 <2>9. Begins(p)'
  <3>1. p = <<StepWith("create", s, "own")>> BY <2>1, <2>5
  <3> QED BY <1>1, <2>8, <3>1 DEF Begins
 <2> QED BY <2>6, <2>7, <2>8, <2>9, CallSplit
<1> QED BY <1>2, <1>3

LEMMA RemoveWorkspacePasswordCalm ==
  ASSUME Data, Jobs, Js \in Threads, Calm, NEW s \in Workspaces, RemoveWorkspacePassword(Js, s)
  PROVE  Calm'
<1>1. PICK a, b, c, d : /\ a = Step("open", s) /\ b = Step("asks", s)
                        /\ c = Step("unlock", s) /\ d = Step("rmpw", s)
 OBVIOUS
<1>2. a \in EasyRec /\ b \in EasyRec /\ c \in EasyRec /\ d \in EasyRec
 <2>1. s \in Scopes BY DEF Scopes
 <2> QED BY <1>1, <2>1, EasySteps
<1>3. PICK u : u = IF Mounted(s) THEN <<>> ELSE <<a, b, c>> OBVIOUS
<1>4. u \in Seq(EasyRec)
 <2>1. <<>> \in Seq(EasyRec) /\ <<a, b, c>> \in Seq(EasyRec) BY <1>2
 <2> QED BY <1>3, <2>1
<1>5. u \o <<d>> \in Seq(EasyRec) BY <1>2, <1>4
<1>6. Call(Js, u \o <<d>>) BY <1>1, <1>3 DEF RemoveWorkspacePassword, UnlockWith
<1> QED BY <1>5, <1>6, CallEasy

LEMMA LockSplit ==
  ASSUME NEW s \in Scopes
  PROVE  \E p \in Seq(StepRec) : /\ p = <<Step("kslock", s), Step("close", s)>>
                                 /\ p = p \o <<>> /\ Begins(p)'
<1>1. PICK p : p = <<Step("kslock", s), Step("close", s)>> OBVIOUS
<1>2. Step("kslock", s) \in StepRec /\ Step("close", s) \in StepRec
 BY IsStep DEF FreeDo, OfWorkspace, Withs
<1>3. p \in Seq(StepRec) /\ p = p \o <<>> BY <1>1, <1>2
<1>4. Begins(p)' BY <1>1 DEF Begins
<1> QED BY <1>1, <1>3, <1>4

LEMMA LocksCalm ==
  ASSUME Data, Jobs, Js \in Threads, Calm,
         LockApp \/ \E s \in Workspaces : LockWorkspace(s) \/ ReadWorkspace(s)
  PROVE  Calm'
<1>1. CASE LockApp
 <2>1. App \in Scopes BY DEF Scopes
 <2>2. PICK p \in Seq(StepRec) : /\ p = <<Step("kslock", App), Step("close", App)>>
                                 /\ p = p \o <<>> /\ Begins(p)'
  BY <2>1, LockSplit
 <2>3. Begin(Js, p \o <<>>) /\ Same BY <1>1, <2>2 DEF LockApp, Begin
 <2> QED BY <2>2, <2>3, EmptyIs, BeginSplit, SameCalm
<1>2. ASSUME NEW s \in Workspaces, LockWorkspace(s) PROVE Calm'
 <2>1. s \in Scopes BY DEF Scopes
 <2>2. PICK p \in Seq(StepRec) : /\ p = <<Step("kslock", s), Step("close", s)>>
                                 /\ p = p \o <<>> /\ Begins(p)'
  BY <2>1, LockSplit
 <2> QED BY <1>2, <2>2, EmptyIs, CallSplit DEF LockWorkspace
<1>3. ASSUME NEW s \in Workspaces, ReadWorkspace(s) PROVE Calm'
 <2>1. s \in Scopes BY DEF Scopes
 <2>2. Step("mount", s) \in EasyRec BY <2>1, EasySteps
 <2>3. <<Step("mount", s)>> \in Seq(EasyRec) BY <2>2
 <2> QED BY <1>3, <2>3, BeginEasy, SameCalm DEF ReadWorkspace
<1> QED BY <1>1, <1>2, <1>3

LEMMA NewCallCalm ==
  ASSUME Data, Jobs, Js \in Threads, Calm, NewCall(Js)
  PROVE  Calm'
BY StartCalm, UnlockAppCalm, MasterCalm, CreateWorkspaceCalm, DeleteWorkspaceCalm, OpenCallCalm,
   UnlockWorkspaceCalm, RemoveWorkspacePasswordCalm DEF NewCall

\* The invariant.
LEMMA CalmInit == Init => Calm
<1> SUFFICES ASSUME Init PROVE Calm
 OBVIOUS
<1>1. Js \in Threads /\ App \in Scopes /\ None \notin Serials
 BY StoreConstants DEF Threads, Scopes
<1>2. Neat
 <2>1. job[Js] = <<>> \o <<>> BY <1>1, EmptyIs DEF Init
 <2> QED BY <2>1, EmptyIs DEF Neat
<1>3. \A s \in Scopes : staged[s] = None /\ conn[s] = "no" BY DEF Init
<1>4. NothingStale /\ Closed /\ Apart BY <1>3 DEF NothingStale, Closed, Mounted, Apart, Rotating
<1>5. Reachable /\ MainMade BY <1>1 DEF Init, Reachable, MainMade, Exists
<1> QED BY <1>2, <1>4, <1>5 DEF Calm

LEMMA CalmNext == OneCall /\ Movable /\ Calm /\ [Next]_vars => Calm'
<1> SUFFICES ASSUME OneCall, Movable, Calm, [Next]_vars PROVE Calm'
 OBVIOUS
<1>1. Data /\ Jobs /\ Js \in Threads /\ Threads = {Js} BY DEF Movable, OneCall, Threads
<1>2. CASE UNCHANGED vars
 <2> USE <1>2 DEF vars, keystore, databases
 <2>1. Reachable' /\ NothingStale' /\ Apart'
  BY DEF Calm, Reachable, NothingStale, Apart, Exists, Rotating
 <2>2. MainMade' /\ At(Js, "close")' = At(Js, "close") BY DEF Calm, MainMade, At, Exists
 <2>3. \A s \in Scopes : /\ Rotating(s)' = Rotating(s) /\ Mounted(s)' = Mounted(s)
                         /\ Exists(s)' = Exists(s) /\ Unlocked(s)' = Unlocked(s)
                         /\ MoveThenCommit(s)' = MoveThenCommit(s)
  BY DEF Rotating, Mounted, Exists, Unlocked, MoveThenCommit, Current, Exists
 <2>4. Neat' BY <2>3 DEF Calm, Neat, Begins
 <2>5. Closed' BY <2>2, <2>3 DEF Calm, Closed, Locked
 <2> QED BY <2>1, <2>2, <2>4, <2>5 DEF Calm
<1>3. ASSUME NEW t \in Threads, Proceed(t) PROVE Calm'
 <2>1. t = Js BY <1>1
 <2> QED BY <1>1, <1>3, <2>1, WorkCalm, AnnounceCalm DEF Proceed
<1>4. ASSUME NEW t \in Pool, NewCall(t) PROVE Calm'
 <2>1. t = Js BY DEF OneCall
 <2> QED BY <1>1, <1>4, <2>1, NewCallCalm
<1>5. CASE LockApp \/ \E s \in Workspaces : LockWorkspace(s) \/ ReadWorkspace(s)
 BY <1>1, <1>5, LocksCalm
<1>6. CASE Crash BY <1>1, <1>6, CrashCalm
<1> QED BY <1>2, <1>3, <1>4, <1>5, <1>6 DEF Next

LEMMA CalmThen == OneCall /\ Movable /\ Calm => Reachable /\ NothingStale /\ ClosedWhenLocked
<1> SUFFICES ASSUME OneCall, Movable, Calm
             PROVE  Reachable /\ NothingStale /\ ClosedWhenLocked
 OBVIOUS
<1>1. ASSUME At(Js, "close")
      PROVE  \E t \in Threads : \E i \in 1..Len(job[t]) : job[t][i].do = "close"
 <2>1. Js \in Threads /\ job[Js] \in Seq(StepRec) /\ job[Js] # <<>>
  BY <1>1 DEF OneCall, Threads, Movable, Jobs, At
 <2>2. Head(job[Js]) = job[Js][1] /\ 1 \in 1..Len(job[Js]) BY <2>1
 <2> QED BY <1>1, <2>1, <2>2 DEF At
<1> QED BY <1>1 DEF Calm, Closed, ClosedWhenLocked

\* With one call at a time, wherever an error or a stop cuts one short: no file is left under
\* a key the keystore no longer has, no connection stays on a file that was replaced under it,
\* and no database stays open whose key was dropped (complete_rotation, rekey_file, mount,
\* close_locked). With two calls at once the first two fail: the runs of the pool's threads
\* show it.
THEOREM StoreCalm ==
  ASSUME OneCall
  PROVE  Spec => [](Reachable /\ NothingStale /\ ClosedWhenLocked)
<1>1. Spec => []Movable BY StoreMovable
<1>2. Init => Calm BY CalmInit
<1>3. Movable /\ Calm /\ [Next]_vars => Calm' BY CalmNext
<1>4. Movable /\ Calm => Reachable /\ NothingStale /\ ClosedWhenLocked BY CalmThen
<1> QED BY <1>1, <1>2, <1>3, <1>4, PTL DEF Spec

--------------------------------------------------
(* The unlocking of the app, one call at a time.  Its list keeps an order    *)
(* (Order), and every step for a workspace finds its keys and main.db open   *)
(* and its "skip" ahead (Stands): no error of one reaches the "relock".      *)

OfApp == {"openmain", "sweep", "openall", "complete", "rekey", "rename", "commit"}
Inner == {"rekey", "rename", "commit", "create", "move", "mount", "connect",
          "mark", "unmark", "adopted"}

\* Step x is not refused for a lock; `made`: a step before it creates its scope.
Granted(x, made) ==
    LET s  == x.s
        do == x.do
    IN
    /\ do \in {"open", "mark", "unmark", "create"} => MainOpen
    /\ do \in {"complete", "adopted", "rekey"} => Unlocked(s)
    /\ do \in {"rekey", "commit"} => Rotating(s)
    /\ do \in {"complete", "rekey", "commit"} => (Rotating(s) => Staged(s) \in open)
    /\ do = "create" => ~ Exists(s)
    /\ do \in {"move", "mount"} => Unlocked(s) \/ made

Creates(q, s) == \E j \in 1..Len(q) : j <= 2 /\ q[j].do = "create" /\ q[j].s = s

\* The step q[i] of an unlocking.
Stands(q, i) ==
    LET s == q[i].s IN
    \/ q[i].do = "skip"
    \/ s = App /\ q[i].do \in OfApp
    \/ /\ s # App /\ q[i].do \in Inner \cup {"open", "complete"}
       /\ Granted(q[i], Creates(q, s))
       /\ q[i].do \in Inner => \A j \in 1..Len(q) : j <= i => q[j].do \in Inner \cup {"complete"}
       /\ \E j \in 1..Len(q) : j > i /\ q[j].do = "skip" /\ q[j].s = s

Awaiting(q) == \E i \in 1..Len(q) : q[i].do = "ready"
Standing(q) == Awaiting(q) => \A i \in 1..Len(q) : q[i].do \in {"ready", "relock"} \/ Stands(q, i)

\* "ready" comes last, but for a "relock"; a workspace is only opened under the app's key; and
\* nothing but a close comes behind the drop of that key.
Ordered(q, i) ==
    /\ q[i].do = "relock" => i = Len(q) /\ ~ ready
    /\ q[i].do = "ready" =>
          q[i].s = App /\ (i = Len(q) \/ (i + 1 = Len(q) /\ q[i + 1].do = "relock"))
    /\ q[i].do \in {"open", "unlock"} => Unlocked(App)
    /\ q[i].do = "kslock" /\ q[i].s = App => i = 1 /\ Len(q) = 2 /\ (ready => ~ sealed[App])

Order(q) == \A i \in 1..Len(q) : Ordered(q, i)

Both    == \A s \in Scopes : Rotating(s) /\ Unlocked(s) => Staged(s) \in open
AppOpen == ready => Unlocked(App)
Keys    == Both /\ AppOpen

Upright == Keys /\ Order(job[Js]) /\ Standing(job[Js])

\* What a step of the thread leaves: such a list, that still unlocks if it did and the step was
\* a workspace's.
Onward ==
    /\ Order(job[Js])' /\ Standing(job[Js])'
    /\ Awaiting(job[Js]) /\ It(Js).s # App => Awaiting(job[Js])'

\* Steps that any list may take in.
Quiet(q) == \A i \in 1..Len(q) :
    /\ q[i].do \notin {"relock", "ready", "kslock"}
    /\ q[i].do \in {"open", "unlock"} => Unlocked(App)

QuietRec == {x \in StepRec : x.do \notin {"relock", "ready", "kslock", "open", "unlock"}}

\* Steps that no unlocking has.
Aside == {"createnew", "unlock", "drop", "setpw", "rmpw", "kslock", "close", "closeone", "delrow",
          "ksdelete", "unlink"}

NoDrop(q) == \A i \in 1..Len(q) : ~ (q[i].do = "kslock" /\ q[i].s = App)

--------------------------------------------------
(* Lists *)

LEMMA SuffixOrder ==
  ASSUME NEW q \in Seq(StepRec), Order(q)', NEW k \in 1..(Len(q) + 1)
  PROVE  /\ Order(SubSeq(q, k, Len(q)))'
         /\ k > 1 => NoDrop(SubSeq(q, k, Len(q)))
<1> DEFINE w == SubSeq(q, k, Len(q))
<1>1. Len(q) \in Nat /\ k \in Nat /\ k >= 1 OBVIOUS
<1>2. Len(w) = Len(q) + 1 - k /\ \A i \in 1..Len(w) : w[i] = q[i + k - 1]
 BY <1>1, SubSeqProperties
<1> HIDE DEF w
<1>3. ASSUME NEW i \in 1..Len(w) PROVE Ordered(w, i)' /\ (k > 1 => ~ (w[i].do = "kslock" /\ w[i].s = App))
 <2> PICK j : j = i + k - 1 OBVIOUS
 <2>1. j \in 1..Len(q) /\ w[i] = q[j] /\ j = i + k - 1 /\ i \in Nat /\ i >= 1 BY <1>1, <1>2
 <2>2. Ordered(q, j)' BY <2>1 DEF Order
 <2>3. /\ j = Len(q) => i = Len(w)
       /\ j + 1 = Len(q) => i + 1 = Len(w) /\ w[i + 1] = q[j + 1]
  BY <1>1, <1>2, <2>1
 <2>4. j = 1 => k = 1 /\ i = 1 /\ Len(w) = Len(q) BY <1>1, <1>2, <2>1
 <2> QED BY <2>1, <2>2, <2>3, <2>4 DEF Ordered
<1> QED BY <1>3 DEF Order, NoDrop, w

LEMMA ConcatOrder ==
  ASSUME NEW p \in Seq(StepRec), NEW r \in Seq(StepRec), Quiet(p)', Order(r)', NoDrop(r)
  PROVE  Order(p \o r)'
<1> DEFINE w == p \o r
           n == Len(p)
<1>1. /\ n \in Nat /\ Len(r) \in Nat /\ Len(w) = n + Len(r)
      /\ \A i \in 1..n : w[i] = p[i]
      /\ \A i \in 1..Len(r) : w[n + i] = r[i]
 OBVIOUS
<1> HIDE DEF w
<1>2. ASSUME NEW i \in 1..n PROVE Ordered(w, i)'
 <2>1. w[i] = p[i] BY <1>1
 <2> QED BY <2>1 DEF Quiet, Ordered
<1>3. ASSUME NEW i \in 1..Len(w), i \notin 1..n PROVE Ordered(w, i)'
 <2> PICK j : j = i - n OBVIOUS
 <2>1. j \in 1..Len(r) /\ i = n + j /\ w[i] = r[j] BY <1>1, <1>3
 <2>2. /\ j = Len(r) => i = Len(w)
       /\ j + 1 = Len(r) => i + 1 = Len(w) /\ w[i + 1] = r[j + 1]
  BY <1>1, <2>1
 <2>3. Ordered(r, j)' /\ ~ (r[j].do = "kslock" /\ r[j].s = App) BY <2>1 DEF Order, NoDrop
 <2> QED BY <2>1, <2>2, <2>3 DEF Ordered
<1> QED BY <1>2, <1>3 DEF Order, w

LEMMA SuffixStands ==
  ASSUME NEW q \in Seq(StepRec), NEW k \in 1..(Len(q) + 1), k = 1 \/ q[k - 1].do \in Marks,
         NEW i \in 1..Len(SubSeq(q, k, Len(q))), Stands(q, i + k - 1)'
  PROVE  Stands(SubSeq(q, k, Len(q)), i)'
<1> PICK w : w = SubSeq(q, k, Len(q)) OBVIOUS
<1>1. Len(q) \in Nat /\ k \in Nat /\ k >= 1 OBVIOUS
<1>2. Len(w) = Len(q) + 1 - k /\ \A j \in 1..Len(w) : w[j] = q[j + k - 1]
 BY <1>1, SubSeqProperties
<1>3. CASE k = 1
 <2>1. w = q /\ i + k - 1 = i BY <1>1, <1>3
 <2> QED BY <2>1
<1>4. CASE k # 1
 <2> PICK m : m = i + k - 1 OBVIOUS
 <2>1. i \in 1..Len(w) OBVIOUS
 <2>2. m \in 1..Len(q) /\ w[i] = q[m] /\ k - 1 \in 1..Len(q) /\ k - 1 <= m /\ m = i + k - 1
  BY <1>1, <1>2, <1>4, <2>1
 <2>3. q[k - 1].do \notin Inner \cup {"complete"} BY <1>4 DEF Marks, Inner
 <2>4. Stands(q, m)' BY <2>2
 <2>5. CASE q[m].do = "skip" \/ (q[m].s = App /\ q[m].do \in OfApp) BY <2>2, <2>5 DEF Stands
 <2>6. CASE ~ (q[m].do = "skip" \/ (q[m].s = App /\ q[m].do \in OfApp))
  <3>1. /\ q[m].s # App /\ q[m].do \in Inner \cup {"open", "complete"}
        /\ Granted(q[m], Creates(q, q[m].s))'
        /\ q[m].do \in Inner => \A j \in 1..Len(q) : j <= m => q[j].do \in Inner \cup {"complete"}
        /\ \E j \in 1..Len(q) : j > m /\ q[j].do = "skip" /\ q[j].s = q[m].s
   BY <2>4, <2>6 DEF Stands
  <3>2. q[m].do \notin Inner BY <2>2, <2>3, <3>1
  <3>3. PICK j \in 1..Len(q) : j > m /\ q[j].do = "skip" /\ q[j].s = q[m].s BY <3>1
  <3>4. PICK l : l = j - k + 1 OBVIOUS
  <3>6. l \in 1..Len(w) /\ l > i /\ l + k - 1 = j
   <4>1. /\ i \in Nat /\ m \in Nat /\ j \in Nat /\ i >= 1 /\ j <= Len(q)
         /\ m = i + k - 1 /\ j > m /\ Len(w) = Len(q) + 1 - k
    BY <1>1, <1>2, <2>1, <2>2, <3>3
   <4> QED BY <1>1, <3>4, <4>1
  <3>7. w[l] = q[j] BY <1>2, <3>6
  <3>5. Granted(w[i], Creates(w, w[i].s))' BY <2>2, <3>1, <3>2 DEF Granted, Inner
  <3> QED BY <2>2, <3>1, <3>2, <3>3, <3>5, <3>6, <3>7 DEF Stands
 <2> QED BY <2>5, <2>6
<1> QED BY <1>3, <1>4

\* Taking marks off the front keeps all of it.
LEMMA TrimUpright ==
  ASSUME NEW q \in Seq(StepRec), Order(q)', Standing(q)'
  PROVE  /\ Order(Trim(q))' /\ Standing(Trim(q))'
         /\ Awaiting(q) => Awaiting(Trim(q))
<1>1. PICK k \in 1..(Len(q) + 1) : /\ Trim(q) = SubSeq(q, k, Len(q))
                                   /\ k = 1 \/ q[k - 1].do \in Marks
                                   /\ \A i \in 1..Len(q) : i < k => q[i].do \in Marks
 BY TrimSuffix
<1> DEFINE w == SubSeq(q, k, Len(q))
<1>2. Len(q) \in Nat /\ k \in Nat /\ k >= 1 OBVIOUS
<1>3. Len(w) = Len(q) + 1 - k /\ \A i \in 1..Len(w) : w[i] = q[i + k - 1]
 BY <1>2, SubSeqProperties
<1>4. Order(w)' BY SuffixOrder
<1>5. ASSUME NEW i \in 1..Len(w), Stands(q, i + k - 1)' PROVE Stands(w, i)'
 BY <1>1, <1>5, SuffixStands
<1> HIDE DEF w
<1>6. \A i \in 1..Len(w) : i + k - 1 \in 1..Len(q) BY <1>2, <1>3
<1>7. Standing(w)' BY <1>3, <1>5, <1>6 DEF Standing, Awaiting
<1>8. ASSUME Awaiting(q) PROVE Awaiting(w)
 <2>1. PICK i \in 1..Len(q) : q[i].do = "ready" BY <1>8 DEF Awaiting
 <2>2. ~ (i < k) BY <1>1, <2>1 DEF Marks
 <2>3. i - k + 1 \in 1..Len(w) /\ (i - k + 1) + k - 1 = i BY <1>2, <1>3, <2>2
 <2>4. w[i - k + 1] = q[i] BY <1>3, <2>3
 <2> QED BY <2>1, <2>3, <2>4 DEF Awaiting
<1> QED BY <1>1, <1>4, <1>7, <1>8 DEF w

\* The same list after a step that leaves the keys and the connections alone.
LEMMA SameUpright ==
  ASSUME UNCHANGED <<keystore, conn, ready>>, NEW q
  PROVE  /\ Order(q) => Order(q)'
         /\ Standing(q) => Standing(q)'
         /\ Keys => Keys'
<1>1. /\ MainOpen' = MainOpen /\ UNCHANGED <<cur, staged, sealed, open, ready>>
      /\ \A s : /\ Unlocked(s)' = Unlocked(s) /\ Rotating(s)' = Rotating(s)
               /\ Staged(s)' = Staged(s) /\ Exists(s)' = Exists(s)
 BY DEF MainOpen, Mounted, Unlocked, Rotating, Staged, Exists, Current, keystore
<1>2. Order(q) => Order(q)' BY <1>1 DEF Order, Ordered
<1>3. \A x, made : Granted(x, made)' <=> Granted(x, made) BY <1>1 DEF Granted
<1>4. \A i : Stands(q, i)' <=> Stands(q, i) BY <1>3 DEF Stands
<1>5. Standing(q) => Standing(q)' BY <1>4 DEF Standing
<1>6. Keys => Keys' BY <1>1 DEF Keys, Both, AppOpen
<1> QED BY <1>2, <1>5, <1>6

\* Where the "skip" of a workspace's step is.
LEMMA SkipAhead ==
  ASSUME NEW q \in Seq(StepRec), q # <<>>, Order(q), Standing(q), Awaiting(q),
         q[1].s # App, q[1].do # "skip"
  PROVE  /\ Stands(q, 1)
         /\ \E j \in 1..Len(q), i \in 1..Len(q) : /\ q[j].do = "skip" /\ q[j].s = q[1].s
                                                /\ q[i].do = "ready" /\ 1 < j /\ j < i
<1>1. Len(q) \in Nat /\ 1 \in 1..Len(q) OBVIOUS
<1>2. PICK i \in 1..Len(q) : q[i].do = "ready" BY DEF Awaiting
<1>3. q[i].s = App /\ (i = Len(q) \/ (i + 1 = Len(q) /\ q[i + 1].do = "relock"))
 BY <1>2 DEF Order, Ordered
<1>4. q[1].do \notin {"ready", "relock"}
 <2>1. q[1].do # "ready" BY <1>1 DEF Order, Ordered
 <2>2. q[1].do = "relock" => 1 = Len(q) BY <1>1 DEF Order, Ordered
 <2>3. ~ (1 = Len(q)) BY <1>1, <1>2, <1>3, <2>1
 <2> QED BY <2>1, <2>2, <2>3
<1>5. Stands(q, 1) BY <1>1, <1>4 DEF Standing
<1>6. PICK j \in 1..Len(q) : j > 1 /\ q[j].do = "skip" /\ q[j].s = q[1].s BY <1>5 DEF Stands
<1>7. j < i
 <2>1. j # i /\ ~ (i + 1 = Len(q) /\ j = Len(q)) BY <1>2, <1>3, <1>6
 <2> QED BY <1>1, <1>3, <2>1
<1> QED BY <1>2, <1>5, <1>6, <1>7

\* Steps that bring no "ready" leave a list without one that way.
LEMMA ConcatAwaits ==
  ASSUME NEW p \in Seq(StepRec), NEW r \in Seq(StepRec), Quiet(p)'
  PROVE  Awaiting(p \o r) <=> Awaiting(r)
<1> PICK n : n = Len(p) OBVIOUS
<1>1. PICK w : w = p \o r OBVIOUS
<1>2. /\ n \in Nat /\ Len(r) \in Nat /\ Len(w) = n + Len(r)
      /\ \A i \in 1..n : w[i] = p[i]
      /\ \A i \in 1..Len(r) : w[n + i] = r[i]
 BY <1>1
<1>3. ASSUME NEW i \in 1..Len(w), w[i].do = "ready" PROVE Awaiting(r)
 <2>1. i \notin 1..n BY <1>2, <1>3 DEF Quiet
 <2>2. PICK j : j = i - n OBVIOUS
 <2>3. j \in 1..Len(r) /\ n + j = i BY <1>2, <2>1, <2>2
 <2> QED BY <1>2, <1>3, <2>3 DEF Awaiting
<1>4. ASSUME NEW i \in 1..Len(r), r[i].do = "ready" PROVE Awaiting(w)
 <2>1. n + i \in 1..Len(w) BY <1>2
 <2> QED BY <1>2, <1>4, <2>1 DEF Awaiting
<1> QED BY <1>1, <1>3, <1>4 DEF Awaiting

LEMMA UndoUp ==
  ASSUME NEW s \in Scopes, NEW r \in Seq(StepRec), Order(r)', NoDrop(r), ~ Awaiting(r)
  PROVE  /\ Discard(s) \o r \in Seq(StepRec) /\ Order(Discard(s) \o r)'
         /\ ~ Awaiting(Discard(s) \o r)
<1> PICK p : p = Discard(s) OBVIOUS
<1>1. /\ p \in Seq(StepRec) /\ Len(p) = 4
      /\ \A i \in 1..4 : p[i].do \in {"closeone", "ksdelete", "skip", "unlink"}
 <2>1. \A d \in {"closeone", "ksdelete", "skip", "unlink"} : Step(d, s) \in StepRec
  BY IsStep DEF FreeDo, OfWorkspace, Withs
 <2>2. \A i \in 1..4 : i = 1 \/ i = 2 \/ i = 3 \/ i = 4 OBVIOUS
 <2> QED BY <2>1, <2>2 DEF Discard, Step
<1>2. Quiet(p)' BY <1>1 DEF Quiet
<1> QED BY <1>1, <1>2, ConcatOrder, ConcatAwaits

LEMMA FailUp ==
  ASSUME Upright, Jobs, Js \in Threads, NEW do, At(Js, do), do # "skip", Same, ready' = ready,
         NEW error \in Errors, Fail(Js, error),
         error = "locked" => ~ (Awaiting(job[Js]) /\ It(Js).s # App)
  PROVE  Onward /\ Keys'
<1> PICK q : q = job[Js] OBVIOUS
<1>1. /\ q \in Seq(StepRec) /\ q # <<>> /\ It(Js) = q[1] /\ Head(q) = q[1] /\ q[1].do # "skip"
      /\ Len(q) \in Nat
 BY HeadFits DEF Jobs, At, It
<1>2. job'[Js] = Failed(q, error) BY FailIs DEF Jobs
<1>3. Order(q) /\ Standing(q) /\ Order(q)' /\ Standing(q)' /\ Keys'
 BY SameUpright DEF Upright, Same, databases
<1>4. SUFFICES ASSUME NEW z, z = Failed(q, error)
               PROVE  /\ Order(z)' /\ Standing(z)'
                      /\ Awaiting(q) /\ q[1].s # App => Awaiting(z)
 BY <1>1, <1>2, <1>3 DEF Onward, Order, Standing, Awaiting
<1>5. ASSUME Awaiting(q), q[1].s # App
      PROVE  \E j \in 1..Len(q), i \in 1..Len(q) :
                /\ q[j].do = "skip" /\ Handles(q[j], error, Head(q).s)
                /\ q[i].do = "ready" /\ 1 < j /\ j < i
 <2>1. PICK j \in 1..Len(q), i \in 1..Len(q) : /\ q[j].do = "skip" /\ q[j].s = q[1].s
                                              /\ q[i].do = "ready" /\ 1 < j /\ j < i
  BY <1>1, <1>3, <1>5, SkipAhead
 <2>2. error \in {"needs", "io"} BY <1>1, <1>5 DEF Errors
 <2>3. Handles(q[j], error, Head(q).s) BY <1>1, <2>1, <2>2 DEF Handles, Catches
 <2> QED BY <2>1, <2>3
<1>6. CASE z = <<>> /\ \A i \in 1..Len(q) : ~ Handles(q[i], error, Head(q).s)
 <2>1. Len(z) = 0 BY <1>6
 <2>2. Order(z)' /\ Standing(z)' BY <2>1 DEF Order, Standing
 <2> QED BY <1>5, <1>6, <2>2
<1>7. ASSUME NEW k \in 1..Len(q), q[k].do \in Marks, Handles(q[k], error, Head(q).s),
             \A i \in 1..Len(q) : Handles(q[i], error, Head(q).s) => k <= i,
             z = Trim(CleanUp(q[k]) \o SubSeq(q, k + 1, Len(q)))
      PROVE  /\ Order(z)' /\ Standing(z)'
             /\ Awaiting(q) /\ q[1].s # App => Awaiting(z)
 <2> PICK r : r = SubSeq(q, k + 1, Len(q)) OBVIOUS
 <2>1. k + 1 \in 1..(Len(q) + 1) /\ k + 1 > 1 /\ (k + 1) - 1 = k /\ k \in Nat BY <1>1
 <2>2. /\ r \in Seq(StepRec) /\ Len(r) = Len(q) - k
       /\ \A i \in 1..Len(r) : r[i] = q[i + (k + 1) - 1]
  BY <1>1, <2>1, SubSeqProperties
 <2>3. Order(r)' /\ NoDrop(r) BY <1>1, <1>3, <2>1, SuffixOrder
 <2>4. ASSUME NEW i \in 1..Len(r), Stands(q, i + (k + 1) - 1)' PROVE Stands(r, i)'
  BY <1>1, <1>7, <2>1, <2>4, SuffixStands
 <2>5. ASSUME NEW i \in 1..Len(r) PROVE i + (k + 1) - 1 \in 1..Len(q)
  <3>1. i \in Nat /\ i >= 1 /\ i <= Len(q) - k /\ k \in Nat /\ Len(q) \in Nat
   BY <1>1, <2>1, <2>2
  <3> QED BY ONLY <3>1
 <2>6. Awaiting(r) => Awaiting(q) BY <2>2, <2>5 DEF Awaiting
 <2>7. Standing(r)' BY <1>3, <2>2, <2>4, <2>5, <2>6 DEF Standing, Awaiting
 <2>8. ASSUME Awaiting(q), q[1].s # App PROVE Awaiting(r) /\ q[k].do # "relock"
  <3>1. PICK j \in 1..Len(q), i \in 1..Len(q) :
           /\ q[j].do = "skip" /\ Handles(q[j], error, Head(q).s)
           /\ q[i].do = "ready" /\ 1 < j /\ j < i
   BY <1>5, <2>8
  <3>2. k <= j BY <1>7, <3>1
  <3>3. PICK l : l = i - k OBVIOUS
  <3>4. l \in 1..Len(r) /\ l + (k + 1) - 1 = i BY <1>1, <2>1, <2>2, <3>1, <3>2, <3>3
  <3>5. r[l] = q[i] BY <2>2, <3>4
  <3>6. q[k].do = "relock" => k = Len(q) BY <1>3 DEF Order, Ordered
  <3>7. q[k].do # "relock" BY <1>1, <2>1, <3>1, <3>2, <3>6
  <3> QED BY <3>1, <3>4, <3>5, <3>7 DEF Awaiting
 <2>9. CASE q[k].do \in {"skip", "asks"}
  <3>1. CleanUp(q[k]) \o r = r
   <4>1. CleanUp(q[k]) = <<>> BY <2>9 DEF CleanUp
   <4> QED BY <2>2, <4>1
  <3>2. z = Trim(r) BY <1>7, <3>1
  <3> QED BY <2>2, <2>3, <2>7, <2>8, <3>2, TrimUpright
 <2>10. CASE q[k].do = "relock"
  <3>1. k = Len(q) /\ ~ ready' BY <1>3, <2>10 DEF Order, Ordered
  <3> PICK w : w = <<Step("kslock", App), Step("close", App)>> OBVIOUS
  <3>2. /\ w \in Seq(StepRec) /\ Len(w) = 2
        /\ w[1].do = "kslock" /\ w[2].do = "close"
   <4>1. Step("kslock", App) \in StepRec /\ Step("close", App) \in StepRec
    BY IsStep DEF FreeDo, OfWorkspace, Withs, Scopes
   <4> QED BY <4>1 DEF Step
  <3>3. CleanUp(q[k]) \o r = w
   <4>1. CleanUp(q[k]) = w BY <2>10 DEF CleanUp
   <4>2. Len(r) = 0 BY <2>1, <2>2, <3>1
   <4>3. r = <<>> BY <2>2, <4>2
   <4>4. w \o <<>> = w BY <3>2
   <4> QED BY <4>1, <4>3, <4>4
  <3>4. \A i \in 1..Len(w) : i = 1 \/ i = 2 BY <3>2
  <3>5. Order(w)' BY <3>1, <3>2, <3>4 DEF Order, Ordered
  <3>6. ~ Awaiting(w) /\ Standing(w)' BY <3>2, <3>4 DEF Awaiting, Standing
  <3> QED BY <1>7, <2>8, <2>10, <3>2, <3>3, <3>5, <3>6, TrimUpright
 <2>11. CASE q[k].do = "undo"
  <3>1. ~ Awaiting(q) BY <1>3, <2>11 DEF Standing, Stands, OfApp, Inner
  <3>2. q[k].s \in Scopes
   <4>1. q[k] \in StepRec BY <1>1
   <4> QED BY <4>1 DEF StepRec
  <3> PICK w : w = Discard(q[k].s) \o r OBVIOUS
  <3>3. w \in Seq(StepRec) /\ Order(w)' /\ ~ Awaiting(w) BY <2>2, <2>3, <2>6, <3>1, <3>2, UndoUp
  <3>4. Standing(w)' BY <3>3 DEF Standing, Awaiting
  <3>5. z = Trim(w) BY <1>7, <2>11 DEF CleanUp
  <3> QED BY <3>1, <3>3, <3>4, <3>5, TrimUpright
 <2> QED BY <1>7, <2>9, <2>10, <2>11 DEF Marks
<1> QED BY <1>1, <1>4, <1>6, <1>7, FailedIs

--------------------------------------------------
(* Steps done *)

LEMMA JoinIs ==
  ASSUME NEW p \in Seq(StepRec), NEW r \in Seq(StepRec), NEW w, w = p \o r, NEW n, n = Len(p)
  PROVE  /\ n \in Nat /\ Len(r) \in Nat /\ w \in Seq(StepRec) /\ Len(w) = n + Len(r)
         /\ \A i \in 1..n : w[i] = p[i]
         /\ \A i \in 1..Len(r) : w[n + i] = r[i]
OBVIOUS

LEMMA RestIs ==
  ASSUME NEW q \in Seq(StepRec), q # <<>>
  PROVE  /\ SubSeq(q, 2, Len(q)) = Tail(q) /\ Tail(q) \in Seq(StepRec)
         /\ Len(Tail(q)) = Len(q) - 1 /\ \A i \in 1..Len(Tail(q)) : Tail(q)[i] = q[i + 1]
OBVIOUS

\* A finished step leaves such a list when what comes in and what stays have their place.
LEMMA ThenUp ==
  ASSUME Upright, Jobs, Js \in Threads, NEW do, At(Js, do), do # "ready", ready' = ready,
         do = "kslock" => UNCHANGED sealed,
         \/ Unlocked(App) => Unlocked(App)'
         \/ \A i \in 1..Len(job[Js]) : job[Js][i].do \notin {"open", "unlock"},
         NEW more \in Seq(StepRec), Then(Js, more), Quiet(more)', NEW w,
         w = more \o SubSeq(job[Js], 2, Len(job[Js])),
         Awaiting(job[Js]) =>
            \A i \in 1..Len(w) : w[i].do \in {"ready", "relock"} \/ Stands(w, i)'
  PROVE  Onward
<1>1. PICK q : q = job[Js] OBVIOUS
<1>2. /\ q \in Seq(StepRec) /\ q # <<>> /\ It(Js) = q[1] /\ q[1].do = do /\ Len(q) \in Nat
      /\ Len(q) >= 1
 BY <1>1, HeadFits DEF Jobs, At, It
<1>3. PICK r : r = SubSeq(q, 2, Len(q)) OBVIOUS
<1>4. /\ r \in Seq(StepRec) /\ Len(r) = Len(q) - 1 /\ \A i \in 1..Len(r) : r[i] = q[i + 1]
 BY <1>2, <1>3, RestIs
<1>5. Order(q)'
 <2>1. Order(q) BY <1>1 DEF Upright
 <2>2. ASSUME NEW i \in 1..Len(q), Ordered(q, i) PROVE Ordered(q, i)'
  BY <1>1, <1>2, <2>2 DEF Ordered
 <2> QED BY <2>1, <2>2 DEF Order
<1>6. Order(r)' /\ NoDrop(r)
 <2>1. 2 \in 1..(Len(q) + 1) /\ 2 > 1 BY <1>2
 <2> QED BY <1>2, <1>3, <1>5, <2>1, SuffixOrder
<1>7. w \in Seq(StepRec) /\ Order(w)'
 <2>1. w = more \o r BY <1>1, <1>3
 <2>2. w \in Seq(StepRec) BY <1>4, <2>1, ConcatProperties
 <2>3. Order(more \o r)' BY <1>4, <1>6, ConcatOrder
 <2> QED BY <2>1, <2>2, <2>3
<1>8. Awaiting(w) <=> Awaiting(q)
 <2>1. Awaiting(w) <=> Awaiting(r) BY <1>1, <1>3, <1>4, ConcatAwaits
 <2>2. ASSUME NEW i \in 1..Len(r) PROVE i + 1 \in 1..Len(q)
  BY <1>2, <1>4
 <2>3. ASSUME NEW i \in 1..Len(q), q[i].do = "ready" PROVE \E j \in 1..Len(r) : j + 1 = i
  <3>1. i # 1 BY <1>2, <2>3
  <3>2. i - 1 \in 1..Len(r) /\ (i - 1) + 1 = i BY <1>2, <1>4, <3>1
  <3> QED BY <3>2
 <2> QED BY <1>4, <2>1, <2>2, <2>3 DEF Awaiting
<1>9. Standing(w)' BY <1>1, <1>8 DEF Standing, Awaiting
<1>10. job'[Js] = Trim(w)
 <2>1. Tail(q) = r BY <1>2, <1>3, <1>4
 <2> QED BY <1>1, <1>3, <2>1 DEF Then, Jobs
<1> QED BY <1>1, <1>7, <1>8, <1>9, <1>10, TrimUpright DEF Onward, Order, Standing, Awaiting

\* What stays of an unlocking keeps standing when keys and main.db do.
LEMMA TailStands ==
  ASSUME NEW q \in Seq(StepRec), q # <<>>, NEW more \in Seq(StepRec), NEW w,
         w = more \o SubSeq(q, 2, Len(q)),
         MainOpen => MainOpen',
         \A s \in Scopes : Unlocked(s) => Unlocked(s)',
         \A s \in Scopes : (Rotating(s) => Staged(s) \in open) => (Rotating(s) => Staged(s) \in open)',
         UNCHANGED <<cur, staged>> \/ SubSeq(q, 2, Len(q)) \in Seq(EasyRec),
         q[1].do \in Inner \cup {"complete"} =>
            \A i \in 1..Len(more) : more[i].do \in Inner \cup {"complete"},
         \A s \in Scopes : Creates(q, s) => Creates(w, s) \/ Unlocked(s)',
         NEW i \in 2..Len(q), Stands(q, i), NEW m, m = Len(more) + i - 1
  PROVE  m \in 1..Len(w) /\ w[m] = q[i] /\ Stands(w, m)'
<1>1. PICK r : r = SubSeq(q, 2, Len(q)) OBVIOUS
<1>2. PICK n : n = Len(more) OBVIOUS
<1>3. /\ n \in Nat /\ i \in Nat /\ Len(q) \in Nat /\ 2 <= i /\ i <= Len(q) /\ m = n + i - 1
      /\ r \in Seq(StepRec) /\ Len(r) = Len(q) - 1 /\ \A j \in 1..Len(r) : r[j] = q[j + 1]
 <2>1. Len(q) \in Nat /\ i \in Nat /\ 2 <= i /\ i <= Len(q) OBVIOUS
 <2> QED BY <1>1, <1>2, <2>1, RestIs
<1>4. /\ Len(w) = n + Len(r)
      /\ \A j \in 1..n : w[j] = more[j]
      /\ \A j \in 1..Len(r) : w[n + j] = r[j]
 BY <1>1, <1>2, <1>3
<1>5. ASSUME NEW j \in 2..Len(q)
      PROVE  n + j - 1 \in 1..Len(w) /\ w[n + j - 1] = q[j] /\ r[j - 1] = q[j] /\ j - 1 \in 1..Len(r)
 <2>1. j - 1 \in 1..Len(r) /\ (j - 1) + 1 = j /\ n + (j - 1) = n + j - 1 BY <1>3
 <2>2. n + j - 1 \in 1..Len(w)
  <3>1. /\ n \in Nat /\ Len(q) \in Nat /\ Len(w) = n + (Len(q) - 1)
        /\ j \in Nat /\ 2 <= j /\ j <= Len(q)
   BY <1>3, <1>4
  <3> QED BY ONLY <3>1
 <2> QED BY <1>3, <1>4, <2>1, <2>2
<1>6. m \in 1..Len(w) /\ w[m] = q[i] /\ r[i - 1] = q[i] /\ i - 1 \in 1..Len(r) BY <1>3, <1>5
<1> PICK x, s : x = q[i] /\ s = q[i].s OBVIOUS
<1>7. s \in Scopes
 <2>1. i \in 1..Len(q) BY <1>3
 <2>2. q[i] \in StepRec BY <2>1
 <2> QED BY <2>2 DEF StepRec
<1>8. CASE x.do = "skip" \/ (s = App /\ x.do \in OfApp) BY <1>6, <1>8 DEF Stands
<1>9. CASE ~ (x.do = "skip" \/ (s = App /\ x.do \in OfApp))
 <2>1. /\ s # App /\ x.do \in Inner \cup {"open", "complete"}
       /\ Granted(x, Creates(q, s))
       /\ x.do \in Inner => \A j \in 1..Len(q) : j <= i => q[j].do \in Inner \cup {"complete"}
       /\ \E j \in 1..Len(q) : j > i /\ q[j].do = "skip" /\ q[j].s = s
  BY <1>9 DEF Stands
 <2>2. UNCHANGED <<cur, staged>> \/ x.do \notin {"rekey", "commit", "create"}
  <3>1. CASE UNCHANGED <<cur, staged>> BY <3>1
  <3>2. CASE r \in Seq(EasyRec)
   <4>1. q[i] \in EasyRec BY ONLY <1>6, <3>2
   <4> QED BY <4>1 DEF EasyRec, Careful
  <3> QED BY <1>1, <3>1, <3>2
 <2>3. UNCHANGED <<cur, staged>> => Rotating(s)' = Rotating(s) /\ Exists(s)' = Exists(s)
  BY DEF Rotating, Exists
 <2>4. Granted(x, Creates(w, s))' BY <1>7, <2>1, <2>2, <2>3 DEF Granted
 <2>5. ASSUME x.do \in Inner, NEW j \in 1..Len(w), j <= m PROVE w[j].do \in Inner \cup {"complete"}
  <3>1. CASE j \in 1..n
   <4>1. q[1].do \in Inner \cup {"complete"} BY <1>3, <2>1, <2>5
   <4> QED BY <1>2, <1>4, <3>1, <4>1
  <3>2. CASE j \notin 1..n
   <4>1. PICK l : l = j - n + 1 OBVIOUS
   <4>2. l \in 2..Len(q) /\ n + l - 1 = j /\ l <= i /\ l \in 1..Len(q)
    BY <1>3, <1>4, <2>5, <3>2, <4>1
   <4>3. w[j] = q[l] BY <1>5, <4>2
   <4> QED BY <2>1, <2>5, <4>2, <4>3
  <3> QED BY <3>1, <3>2
 <2>6. PICK j \in 1..Len(q) : j > i /\ q[j].do = "skip" /\ q[j].s = s BY <2>1
 <2>7. j \in 2..Len(q) /\ n + j - 1 > m BY <1>3, <2>6
 <2>8. n + j - 1 \in 1..Len(w) /\ w[n + j - 1] = q[j] BY <1>5, <2>7
 <2> QED BY <1>6, <2>1, <2>4, <2>5, <2>6, <2>7, <2>8 DEF Stands
<1> QED BY <1>6, <1>8, <1>9

\* A scope that is still to be created is so by the current step, or by the next after its mark.
LEMMA CreatesSoon ==
  ASSUME Neat, Jobs, Js \in Threads, NEW do, At(Js, do), do # "create", NEW s, Creates(job[Js], s)
  PROVE  do \in {"mark", "unmark"} /\ Creates(Tail(job[Js]), s)
<1>1. PICK q : q = job[Js] OBVIOUS
<1>2. PICK r : r = Tail(q) OBVIOUS
<1>3. /\ q \in Seq(StepRec) /\ q # <<>> /\ It(Js) = q[1] /\ q[1].do = do
      /\ Turn(It(Js), r)
 BY <1>1, <1>2, HeadFits, AtTurn DEF Jobs, At, It
<1>4. PICK j \in 1..Len(q) : j <= 2 /\ q[j].do = "create" /\ q[j].s = s BY <1>1 DEF Creates
<1>5. /\ r \in Seq(StepRec) /\ 1 \in 1..Len(r) /\ r[1].do = "create" /\ r[1].s = s
 <2>1. r \in Seq(StepRec) /\ Len(r) = Len(q) - 1 /\ \A i \in 1..Len(r) : r[i] = q[i + 1]
  BY <1>2, <1>3, RestIs
 <2>2. Len(q) \in Nat /\ j = 2 BY <1>3, <1>4
 <2>3. 1 \in 1..Len(r) /\ 1 + 1 = 2 BY <1>4, <2>1, <2>2
 <2> QED BY <1>4, <2>1, <2>2, <2>3
<1>6. r \notin Seq(EasyRec) BY <1>5 DEF EasyRec, Careful
<1>7. ASSUME NEW e \in Seq(EasyRec), NEW c, NEW x, NEW y,
             r = <<Step(c, x)>> \o e \/ r = <<Step(c, x), y>> \o e
      PROVE  c = "create"
 <2>1. r[1] = Step(c, x) BY <1>7
 <2> QED BY <1>5, <2>1 DEF Step
<1>8. SUFFICES ASSUME do \notin {"mark", "unmark"} PROVE FALSE
 BY <1>1, <1>2, <1>5 DEF Creates
<1>9. PICK e \in Seq(EasyRec), c \in {"commit", "close", "ksdelete", "delrow"} : \E x, y :
         r = <<Step(c, x)>> \o e \/ r = <<Step(c, x), y>> \o e
 BY <1>3, <1>6, <1>8 DEF Turn
<1> QED BY <1>7, <1>9

\* The current step of an unlocking stands.
LEMMA HeadStands ==
  ASSUME Upright, Jobs, Js \in Threads, NEW do, At(Js, do), do \notin {"ready", "relock"},
         Awaiting(job[Js])
  PROVE  /\ Stands(job[Js], 1)
         /\ do \in OfApp \cup Inner \cup {"open", "complete", "skip"}
<1>1. PICK q : q = job[Js] OBVIOUS
<1>2. q \in Seq(StepRec) /\ q # <<>> /\ q[1].do = do /\ 1 \in 1..Len(q)
 BY <1>1, HeadFits DEF Jobs, At, It
<1>3. Stands(q, 1) BY <1>1, <1>2 DEF Upright, Standing
<1> QED BY <1>1, <1>2, <1>3 DEF Stands

LEMMA AsideUp ==
  ASSUME Upright, Jobs, Js \in Threads, NEW do \in Aside, At(Js, do), ready' = ready,
         do = "kslock" => UNCHANGED sealed,
         \/ Unlocked(App) => Unlocked(App)'
         \/ \A i \in 1..Len(job[Js]) : job[Js][i].do \notin {"open", "unlock"},
         NEW more \in Seq(QuietRec), Then(Js, more)
  PROVE  Onward
<1>1. ~ Awaiting(job[Js]) BY HeadStands DEF Aside, OfApp, Inner
<1>2. PICK w : w = more \o SubSeq(job[Js], 2, Len(job[Js])) OBVIOUS
<1>3. more \in Seq(StepRec) /\ Quiet(more)' BY DEF QuietRec, Quiet
<1> QED BY <1>1, <1>2, <1>3, ThenUp DEF Aside

\* A step that stays in place while keys and main.db do, and brings steps that stand.
LEMMA StepUp ==
  ASSUME Upright, Jobs, Js \in Threads, NEW do, At(Js, do),
         do \notin {"ready", "relock", "kslock"}, ready' = ready,
         MainOpen => MainOpen',
         \A s \in Scopes : Unlocked(s) => Unlocked(s)',
         \A s \in Scopes : (Rotating(s) => Staged(s) \in open) => (Rotating(s) => Staged(s) \in open)',
         UNCHANGED <<cur, staged>> \/ Tail(job[Js]) \in Seq(EasyRec),
         NEW more \in Seq(StepRec), Then(Js, more), Quiet(more)',
         NEW w, w = more \o Tail(job[Js]),
         do \in Inner \cup {"complete"} =>
            \A i \in 1..Len(more) : more[i].do \in Inner \cup {"complete"},
         \A s \in Scopes : Creates(job[Js], s) => Creates(w, s) \/ Unlocked(s)',
         Awaiting(job[Js]) => \A i \in 1..Len(more) : Stands(w, i)'
  PROVE  Onward
<1>1. PICK q : q = job[Js] OBVIOUS
<1>2. /\ q \in Seq(StepRec) /\ q # <<>> /\ q[1].do = do /\ App \in Scopes
 BY <1>1, HeadFits DEF Jobs, At, It, Scopes
<1>3. PICK n : n = Len(more) OBVIOUS
<1>4. PICK r : r = Tail(q) OBVIOUS
<1>5. /\ n \in Nat /\ SubSeq(q, 2, Len(q)) = r /\ r \in Seq(StepRec) /\ Len(r) = Len(q) - 1
      /\ Len(q) \in Nat /\ Len(w) = n + Len(r)
 <2>1. SubSeq(q, 2, Len(q)) = r /\ r \in Seq(StepRec) /\ Len(r) = Len(q) - 1
  BY <1>2, <1>4, RestIs
 <2> QED BY <1>1, <1>2, <1>3, <1>4, <2>1, ConcatProperties
<1>6. ASSUME Awaiting(q), NEW i \in 1..Len(w)
      PROVE  w[i].do \in {"ready", "relock"} \/ Stands(w, i)'
 <2>1. CASE i \in 1..n BY <1>1, <1>3, <1>6, <2>1
 <2>2. CASE i \notin 1..n
  <3>1. PICK j : j = i - n + 1 OBVIOUS
  <3>2. j \in 2..Len(q) /\ j \in 1..Len(q) /\ i = n + j - 1 BY <1>5, <2>2, <3>1
  <3>3. q[j].do \in {"ready", "relock"} \/ Stands(q, j)
   BY <1>1, <1>6, <3>2 DEF Upright, Standing
  <3>4. w[i] = q[j]
   <4>1. w[i] = r[i - n] /\ i - n \in 1..Len(r)
    BY <1>1, <1>3, <1>4, <1>5, <2>2, ConcatProperties
   <4>2. (i - n) + 1 = j BY <1>5, <3>1
   <4> QED BY <1>2, <1>4, <4>1, <4>2, RestIs
  <3>5. ASSUME Stands(q, j) PROVE Stands(w, i)'
   <4>1. w = more \o SubSeq(q, 2, Len(q)) /\ (SubSeq(q, 2, Len(q)) \in Seq(EasyRec) <=> r \in Seq(EasyRec))
    BY <1>1, <1>4, <1>5
   <4>2. UNCHANGED <<cur, staged>> \/ SubSeq(q, 2, Len(q)) \in Seq(EasyRec) BY <1>1, <1>4, <4>1
   <4>3. q[1].do \in Inner \cup {"complete"} =>
           \A l \in 1..Len(more) : more[l].do \in Inner \cup {"complete"}
    BY <1>2
   <4>4. \A s \in Scopes : Creates(q, s) => Creates(w, s) \/ Unlocked(s)' BY <1>1
   <4> QED BY <1>2, <1>3, <3>2, <3>5, <4>1, <4>2, <4>3, <4>4, TailStands
  <3> QED BY <3>3, <3>4, <3>5
 <2> QED BY <2>1, <2>2
<1> QED BY <1>1, <1>2, <1>4, <1>5, <1>6, ThenUp

\* A handler's ordinary step: keys may come into memory, and what it asks for next is its own.
LEMMA StayUp ==
  ASSUME Upright, Calm, Jobs, Js \in Threads, NEW do, At(Js, do),
         do \in Inner \cup OfApp \cup {"open", "row"}, do # "create", ready' = ready,
         UNCHANGED <<cur, staged>>, open \subseteq open', MainOpen => MainOpen',
         NEW more \in Seq(StepRec), Then(Js, more), NEW s, s = It(Js).s,
         do \in {"mark", "unmark"} => more = <<>>,
         \A i \in 1..Len(more) :
            /\ more[i].s = s
            /\ more[i].do \in Inner \cup {"complete"}
            /\ do \in OfApp => more[i].do \in OfApp
            /\ Awaiting(job[Js]) /\ s # App /\ Stands(job[Js], 1) =>
                  Granted(more[i], Creates(more, s))'
  PROVE  Onward
<1>1. PICK q : q = job[Js] OBVIOUS
<1>2. PICK r : r = Tail(q) OBVIOUS
<1>3. /\ q \in Seq(StepRec) /\ q # <<>> /\ q[1].s = s /\ q[1].do = do /\ r \in Seq(StepRec)
      /\ Len(r) = Len(q) - 1 /\ Len(q) \in Nat /\ \A i \in 1..Len(r) : r[i] = q[i + 1]
 BY <1>1, <1>2, HeadFits, RestIs DEF Jobs, At, It
<1>4. PICK w : w = more \o r OBVIOUS
<1>5. PICK n : n = Len(more) OBVIOUS
<1>6. /\ n \in Nat /\ Len(w) = n + Len(r) /\ \A i \in 1..n : w[i] = more[i]
      /\ \A i \in 1..Len(r) : w[n + i] = r[i]
 <2>1. more \in Seq(StepRec) /\ r \in Seq(StepRec) BY <1>3
 <2> QED BY ONLY <1>4, <1>5, <2>1, JoinIs
<1>7. Quiet(more)' BY DEF Quiet, Inner
<1>8. \A x \in Scopes : /\ Unlocked(x) => Unlocked(x)'
                        /\ (Rotating(x) => Staged(x) \in open) => (Rotating(x) => Staged(x) \in open)'
 BY DEF Unlocked, Exists, Current, Rotating, Staged
<1>9. \A x : Creates(q, x) => Creates(w, x)
 <2> SUFFICES ASSUME NEW x, Creates(q, x) PROVE Creates(w, x)
  OBVIOUS
 <2>1. do \in {"mark", "unmark"} /\ Creates(r, x) BY <1>1, <1>2, CreatesSoon DEF Calm
 <2>2. w = r BY <1>3, <1>4, <2>1
 <2> QED BY <2>1, <2>2
<1>10. ASSUME Awaiting(q), NEW i \in 1..n PROVE Stands(w, i)'
 <2>1. Stands(q, 1) /\ do # "row" BY <1>1, <1>10, HeadStands DEF OfApp, Inner
 <2>2. /\ w[i] = more[i] /\ w[i].s = s /\ w[i].do \in Inner \cup {"complete"}
       /\ do \in OfApp => w[i].do \in OfApp
  BY <1>3, <1>5, <1>6, <1>10
 <2>3. CASE s = App
  <3>1. do \in OfApp BY <1>3, <2>1, <2>3 DEF Stands, OfApp, Inner
  <3> QED BY <2>2, <2>3, <3>1 DEF Stands
 <2>4. CASE s # App
  <3>1. PICK j \in 1..Len(q) : j > 1 /\ q[j].do = "skip" /\ q[j].s = s
   BY <1>3, <2>1, <2>4 DEF Stands, Inner, OfApp
  <3>2. PICK l : l = j - 1 OBVIOUS
  <3>3. l \in 1..Len(r) /\ l + 1 = j /\ n + l \in 1..Len(w) /\ n + l > i
   BY <1>3, <1>6, <3>1, <3>2
  <3>4. w[n + l] = q[j] BY <1>3, <1>6, <3>3
  <3>5. Creates(more, s) => Creates(w, s)
   <4>1. \A m \in 1..n : m \in 1..Len(w) /\ w[m] = more[m] BY <1>3, <1>6
   <4> QED BY <1>5, <4>1 DEF Creates
  <3>6. Granted(w[i], Creates(w, s))'
   <4>1. Granted(more[i], Creates(more, s))' BY <1>1, <1>3, <1>5, <1>10, <2>1, <2>4
   <4> QED BY <1>3, <2>2, <3>5, <4>1, <1>6, <1>10 DEF Granted
  <3>7. \A m \in 1..Len(w) : m <= i => w[m].do \in Inner \cup {"complete"}
   <4>1. \A m \in 1..Len(w) : m <= i => m \in 1..n BY <1>6
   <4> QED BY <1>5, <1>6, <4>1
  <3> QED BY <2>2, <2>4, <3>1, <3>3, <3>4, <3>6, <3>7 DEF Stands
 <2> QED BY <2>3, <2>4
<1> QED BY <1>1, <1>2, <1>4, <1>5, <1>7, <1>8, <1>9, <1>10, StepUp DEF OfApp, Inner

LEMMA KeysStay ==
  ASSUME Keys, UNCHANGED keystore, ready' = ready
  PROVE  Keys'
BY DEF Keys, Both, AppOpen, keystore, Rotating, Unlocked, Staged, Exists, Current

Going == Data /\ Calm /\ Upright /\ Jobs /\ Js \in Threads /\ ready' = ready

\* The step is done, and keys and connections are kept.
LEMMA DoneUp ==
  ASSUME Going, NEW do, At(Js, do), do \in Inner \cup OfApp \cup {"open", "row"}, do # "create",
         UNCHANGED keystore, MainOpen => MainOpen', Then(Js, <<>>)
  PROVE  Onward /\ Keys'
<1>1. PICK more : more = <<>> OBVIOUS
<1>2. more \in Seq(StepRec) /\ ~ \E i : i \in 1..Len(more) BY <1>1
<1>3. PICK s : s = It(Js).s OBVIOUS
<1>4. UNCHANGED <<cur, staged, open>> /\ Then(Js, more) BY <1>1 DEF keystore
<1>5. Onward BY <1>1, <1>2, <1>3, <1>4, StayUp DEF Going
<1> QED BY <1>5, KeysStay DEF Going, Upright

\* The step is one of a file or a connection and asks for one more.
LEMMA OneUp ==
  ASSUME Going, NEW do, At(Js, do), do \in {"rekey", "adopted", "move", "mount"},
         UNCHANGED <<keystore, conn>>, NEW x, NEW a, NEW with \in Withs,
         x = StepWith(a, It(Js).s, with), a \in {"rename", "move", "connect"},
         do = "rekey" => a = "rename", a = "move" => do = "adopted", Then(Js, <<x>>)
  PROVE  Onward /\ Keys'
<1>1. PICK more : more = <<x>> OBVIOUS
<1>2. PICK s : s = It(Js).s OBVIOUS
<1>3. x.s = s /\ x.do = a BY <1>2 DEF StepWith
<1>4. s \in Scopes BY <1>2, HeadScope DEF Going
<1>5. x \in StepRec BY <1>2, <1>4 DEF StepRec, FreeDo, Checked, OfWorkspace, StepWith
<1>6. more \in Seq(StepRec) /\ \A i \in 1..Len(more) : more[i] = x BY <1>1, <1>5
<1>7. UNCHANGED <<cur, staged, open>> /\ MainOpen' = MainOpen /\ Unlocked(s)' = Unlocked(s)
 BY DEF keystore, MainOpen, Mounted, Unlocked, Exists, Current
<1>8. ASSUME Awaiting(job[Js]), s # App, Stands(job[Js], 1) PROVE Granted(x, Creates(more, s))'
 <2>1. It(Js) = job[Js][1] /\ It(Js).do = do BY HeadFits DEF Going, At, It
 <2>2. do = "adopted" => Unlocked(s) BY <1>2, <1>8, <2>1 DEF Stands, Granted, OfApp
 <2> QED BY <1>3, <1>7, <2>2 DEF Granted
<1>9. ASSUME NEW i \in 1..Len(more)
      PROVE  /\ more[i].s = s
             /\ more[i].do \in Inner \cup {"complete"}
             /\ do \in OfApp => more[i].do \in OfApp
             /\ Awaiting(job[Js]) /\ s # App /\ Stands(job[Js], 1) => Granted(more[i], Creates(more, s))'
 <2>1. more[i] = x BY <1>6
 <2>2. Granted(x, Creates(more, s))' => Granted(more[i], Creates(more, s))' BY <2>1 DEF Granted
 <2> QED BY <1>3, <1>8, <2>1, <2>2 DEF Inner, OfApp
<1>10. Onward
 <2>1. /\ Then(Js, more) /\ do \in Inner \cup OfApp \cup {"open", "row"}
       /\ do \notin {"create", "mark", "unmark"} /\ open \subseteq open'
  BY <1>1, <1>7 DEF Inner
 <2> QED BY <1>2, <1>6, <1>7, <1>9, <2>1, StayUp DEF Going
<1> QED BY <1>10, KeysStay DEF Going, Upright

\* The step of a workspace in an unlocking is not refused for a lock.
LEMMA HeadGranted ==
  ASSUME Going, NEW do, At(Js, do), do \notin {"ready", "relock", "skip"},
         Awaiting(job[Js]), It(Js).s # App
  PROVE  /\ Granted(It(Js), Creates(job[Js], It(Js).s)) /\ It(Js).do = do
         /\ do \in Inner \cup {"open", "complete"}
<1>1. It(Js) = job[Js][1] /\ It(Js).do = do BY HeadFits DEF Going, At, It
<1> QED BY <1>1, HeadStands DEF Going, Stands

LEMMA RefusedUp ==
  ASSUME Going, NEW do, At(Js, do), do # "skip", Same, NEW error \in Errors, Fail(Js, error),
         error = "locked" => ~ (Awaiting(job[Js]) /\ It(Js).s # App)
  PROVE  Onward /\ Keys'
BY FailUp DEF Going

LEMMA CompleteUp ==
  ASSUME Going, Complete(Js)
  PROVE  Onward /\ Keys'
<1>1. PICK s : s = It(Js).s OBVIOUS
<1>2. At(Js, "complete") /\ Same /\ s \in Scopes BY <1>1, HeadScope DEF Complete, Going
<1>3. UNCHANGED <<cur, staged, open, keystore, conn>> BY <1>2 DEF Same, keystore, databases
<1>4. CASE Then(Js, <<>>) BY <1>2, <1>3, <1>4, DoneUp DEF OfApp, MainOpen, Mounted
<1>5. CASE Rotating(s) /\ Staged(s) \notin open /\ Fail(Js, "locked")
 <2>1. ~ (Awaiting(job[Js]) /\ It(Js).s # App) BY <1>1, <1>2, <1>5, HeadGranted DEF Granted
 <2> QED BY <1>2, <1>5, <2>1, ErrorsAre, RefusedUp
<1>6. CASE Rotating(s) /\ Staged(s) \in open /\ Then(Js, MoveThenCommit(s))
 <2>1. PICK a, b, more : a = StepWith("rekey", s, staged[s]) /\ b = Step("commit", s) /\ more = <<a, b>>
  OBVIOUS
 <2>2. a.do = "rekey" /\ a.s = s /\ b.do = "commit" /\ b.s = s BY <2>1 DEF StepWith, Step
 <2>3. a \in StepRec /\ b \in StepRec
  <3>1. staged[s] \in Withs /\ None \in Withs
   BY <1>2 DEF Going, Data, Typed, KeystoreType, Withs
  <3> QED BY <1>2, <2>1, <3>1, IsStep DEF FreeDo, Checked, OfWorkspace
 <2>4. more \in Seq(StepRec) /\ \A i \in 1..Len(more) : more[i] = a \/ more[i] = b BY <2>1, <2>3
 <2>5. ASSUME Awaiting(job[Js]), s # App
       PROVE  Granted(a, Creates(more, s))' /\ Granted(b, Creates(more, s))'
  <3>1. Unlocked(s) BY <1>1, <1>2, <2>5, HeadGranted DEF Granted
  <3>2. Unlocked(s)' /\ Rotating(s)' /\ (Staged(s) \in open)'
   BY <1>3, <1>6, <3>1 DEF Unlocked, Rotating, Staged, Exists, Current
  <3> QED BY <2>2, <3>2 DEF Granted
 <2>6. ASSUME NEW i \in 1..Len(more)
       PROVE  /\ more[i].s = s
              /\ more[i].do \in Inner \cup {"complete"}
              /\ more[i].do \in OfApp
              /\ Awaiting(job[Js]) /\ s # App => Granted(more[i], Creates(more, s))'
  <3>1. more[i] = a \/ more[i] = b BY <2>4
  <3>2. Awaiting(job[Js]) /\ s # App => Granted(more[i], Creates(more, s))'
   BY <2>5, <3>1 DEF Granted
  <3> QED BY <2>2, <3>1, <3>2 DEF Inner, OfApp
 <2>7. Then(Js, more) BY <1>6, <2>1 DEF MoveThenCommit
 <2>8. Onward BY <1>1, <1>2, <1>3, <2>4, <2>6, <2>7, StayUp DEF Going, OfApp, MainOpen, Mounted
 <2> QED BY <1>3, <2>8, KeysStay DEF Going, Upright
<1> QED BY <1>1, <1>4, <1>5, <1>6 DEF Complete

LEMMA RekeyUp ==
  ASSUME Going, Rekey(Js)
  PROVE  Onward /\ Keys'
<1>1. /\ At(Js, "rekey") /\ UNCHANGED <<keystore, conn, rows, adopting>>
      /\ It(Js).with \in Withs /\ MainOpen' = MainOpen
 <2>1. At(Js, "rekey") /\ UNCHANGED <<keystore, conn, rows, adopting>> BY DEF Rekey
 <2>2. It(Js).with \in Serials BY <2>1, HeadFits DEF Going, At, It
 <2> QED BY <2>1, <2>2 DEF Withs, MainOpen, Mounted
<1>2. \/ Then(Js, <<>>)
      \/ Then(Js, <<StepWith("rename", It(Js).s, It(Js).with)>>)
      \/ UNCHANGED file /\ Locked(It(Js).s) /\ Fail(Js, "locked")
      \/ UNCHANGED file /\ Fail(Js, "io")
 BY DEF Rekey
<1>3. CASE Then(Js, <<>>) BY <1>1, <1>3, DoneUp DEF OfApp
<1>4. CASE Then(Js, <<StepWith("rename", It(Js).s, It(Js).with)>>) BY <1>1, <1>4, OneUp
<1>5. UNCHANGED file => Same BY <1>1 DEF Same, databases
<1>6. CASE UNCHANGED file /\ Locked(It(Js).s) /\ Fail(Js, "locked")
 <2>1. ~ (Awaiting(job[Js]) /\ It(Js).s # App) BY <1>1, <1>6, HeadGranted DEF Granted, Locked
 <2> QED BY <1>1, <1>5, <1>6, <2>1, ErrorsAre, RefusedUp
<1> QED BY <1>1, <1>2, <1>3, <1>4, <1>5, <1>6, ErrorsAre, RefusedUp

LEMMA CopyDoneUp ==
  ASSUME Going, CopyDone(Js)
  PROVE  Onward /\ Keys'
<1>1. At(Js, "rename") /\ Then(Js, <<>>) /\ UNCHANGED keystore BY DEF CopyDone
<1>2. MainOpen => MainOpen' BY DEF CopyDone, MainOpen, Mounted, Going, Data, Typed, Scopes
<1> QED BY <1>1, <1>2, DoneUp DEF OfApp

LEMMA OpenMainUp ==
  ASSUME Going, OpenMain(Js)
  PROVE  Onward /\ Keys'
<1>1. At(Js, "openmain") /\ UNCHANGED keystore BY DEF OpenMain
<1>2. CASE Then(Js, <<>>)
 <2>1. MainOpen => MainOpen' BY DEF OpenMain, MainOpen, Mounted, Going, Data, Typed, Scopes
 <2> QED BY <1>1, <1>2, <2>1, DoneUp DEF OfApp
<1>3. CASE Same /\ (Fail(Js, "locked") \/ Fail(Js, "io"))
 <2>1. ~ (Awaiting(job[Js]) /\ It(Js).s # App) BY <1>1, HeadGranted DEF Inner
 <2> QED BY <1>1, <1>3, <2>1, ErrorsAre, RefusedUp
<1> QED BY <1>1, <1>2, <1>3 DEF OpenMain, Same, databases

LEMMA FinishAdoptionUp ==
  ASSUME Going, FinishAdoption(Js)
  PROVE  Onward /\ Keys'
<1>1. At(Js, "adopted") /\ UNCHANGED <<keystore, conn>> /\ Plain \in Withs /\ MainOpen' = MainOpen
 BY DEF FinishAdoption, Same, databases, Withs, MainOpen, Mounted
<1>2. CASE Then(Js, <<>>) BY <1>1, <1>2, DoneUp DEF Inner
<1>3. CASE Then(Js, <<StepWith("move", It(Js).s, Plain)>>) BY <1>1, <1>3, OneUp
<1> QED BY <1>2, <1>3 DEF FinishAdoption

\* A move or a mount has its key: a scope still to be created would be so by the step itself.
LEMMA KeyAtHand ==
  ASSUME Going, NEW do \in {"move", "mount"}, At(Js, do), Locked(It(Js).s)
  PROVE  ~ (Awaiting(job[Js]) /\ It(Js).s # App)
<1> SUFFICES ASSUME Awaiting(job[Js]), It(Js).s # App PROVE FALSE
 OBVIOUS
<1>1. Creates(job[Js], It(Js).s) BY HeadGranted DEF Granted, Locked
<1> QED BY <1>1, CreatesSoon DEF Going, Calm

LEMMA MoveUp ==
  ASSUME Going, Move(Js)
  PROVE  Onward /\ Keys'
<1>1. /\ At(Js, "move") /\ Same /\ UNCHANGED <<keystore, conn>> /\ cur[It(Js).s] \in Withs
      /\ MainOpen' = MainOpen
 <2>1. It(Js).s \in Scopes BY HeadScope DEF Move, Going
 <2> QED BY <2>1 DEF Move, Same, databases, Withs, Going, Data, Typed, KeystoreType, MainOpen, Mounted
<1>2. \/ Locked(It(Js).s) /\ Fail(Js, "locked")
      \/ Fail(Js, "io")
      \/ Then(Js, <<>>)
      \/ Then(Js, <<StepWith("rename", It(Js).s, cur[It(Js).s])>>)
 BY DEF Move
<1>3. CASE Then(Js, <<>>) BY <1>1, <1>3, DoneUp DEF Inner
<1>4. CASE Then(Js, <<StepWith("rename", It(Js).s, cur[It(Js).s])>>) BY <1>1, <1>4, OneUp
<1> QED BY <1>1, <1>2, <1>3, <1>4, ErrorsAre, KeyAtHand, RefusedUp

LEMMA MountUp ==
  ASSUME Going, Mount(Js)
  PROVE  Onward /\ Keys'
<1>1. /\ At(Js, "mount") /\ Same /\ UNCHANGED <<keystore, conn>> /\ cur[It(Js).s] \in Withs
      /\ MainOpen' = MainOpen
 <2>1. It(Js).s \in Scopes BY HeadScope DEF Mount, Going
 <2> QED BY <2>1 DEF Mount, Same, databases, Withs, Going, Data, Typed, KeystoreType, MainOpen, Mounted
<1>2. \/ Locked(It(Js).s) /\ Fail(Js, "locked")
      \/ Then(Js, <<>>)
      \/ Then(Js, <<StepWith("connect", It(Js).s, cur[It(Js).s])>>)
 BY DEF Mount
<1>3. CASE Then(Js, <<>>) BY <1>1, <1>3, DoneUp DEF Inner
<1>4. CASE Then(Js, <<StepWith("connect", It(Js).s, cur[It(Js).s])>>) BY <1>1, <1>4, OneUp
<1> QED BY <1>1, <1>2, <1>3, <1>4, ErrorsAre, KeyAtHand, RefusedUp

LEMMA ConnectUp ==
  ASSUME Going, Connect(Js)
  PROVE  Onward /\ Keys'
<1>1. At(Js, "connect") /\ UNCHANGED <<keystore, rows, adopting>> BY DEF Connect
<1>2. PICK e : e = IF sealed[It(Js).s] /\ file[It(Js).s] # Plain THEN "needs" ELSE "io" OBVIOUS
<1>3. e \in Errors /\ e # "locked" BY <1>2 DEF Errors
<1>4. CASE conn' = [conn EXCEPT ![It(Js).s] = "live"] /\ Then(Js, <<>>)
 <2>1. MainOpen => MainOpen' BY <1>4 DEF MainOpen, Mounted, Going, Data, Typed, Scopes
 <2> QED BY <1>1, <1>4, <2>1, DoneUp DEF Inner
<1>5. CASE Same /\ Fail(Js, e) BY <1>1, <1>3, <1>5, RefusedUp
<1> QED BY <1>1, <1>2, <1>4, <1>5 DEF Connect, Same, databases

LEMMA WriteRowUp ==
  ASSUME Going, WriteRow(Js)
  PROVE  Onward /\ Keys'
<1>1. PICK do \in {"mark", "unmark", "row"} : At(Js, do) BY DEF WriteRow
<1>2. UNCHANGED <<keystore, file, conn>> /\ MainOpen' = MainOpen
 BY DEF WriteRow, MainOpen, Mounted
<1>3. CASE Then(Js, <<>>) BY <1>1, <1>2, <1>3, DoneUp DEF Inner
<1>4. CASE ~ MainOpen /\ Fail(Js, "locked") /\ Same
 <2>1. ~ (Awaiting(job[Js]) /\ It(Js).s # App) BY <1>1, <1>4, HeadGranted DEF Granted, Inner
 <2> QED BY <1>1, <1>4, <2>1, ErrorsAre, RefusedUp
<1> QED BY <1>2, <1>3, <1>4 DEF WriteRow, Same, databases

LEMMA FaultUp ==
  ASSUME Going, Fault(Js)
  PROVE  Onward /\ Keys'
<1>1. PICK do : do = It(Js).do OBVIOUS
<1>2. At(Js, do) /\ do # "skip" /\ Same /\ Fail(Js, "io") BY <1>1 DEF Fault, At, It, Fallible
<1> QED BY <1>2, ErrorsAre, RefusedUp

\* Lists of the steps `do` over the scopes of S, each before its "skip", and of those of the app.
Pairs(do, S) == {q \in Seq(StepRec) : \A i \in 1..Len(q) :
    \/ q[i].do = "skip"
    \/ q[i].do = "complete" /\ q[i].s = App
    \/ q[i].do = do /\ q[i].s \in S /\ i + 1 \in 1..Len(q) /\ q[i + 1].do = "skip" /\ q[i + 1].s = q[i].s}

LEMMA PairsJoin ==
  ASSUME NEW do, NEW S, NEW p \in Pairs(do, S), NEW r \in Pairs(do, S)
  PROVE  p \o r \in Pairs(do, S)
<1>1. PICK w, n : w = p \o r /\ n = Len(p) OBVIOUS
<1>2. p \in Seq(StepRec) /\ r \in Seq(StepRec) BY DEF Pairs
<1>3. /\ n \in Nat /\ Len(r) \in Nat /\ w \in Seq(StepRec) /\ Len(w) = n + Len(r)
      /\ \A i \in 1..n : w[i] = p[i]
      /\ \A i \in 1..Len(r) : w[n + i] = r[i]
 BY ONLY <1>1, <1>2, JoinIs
<1>4. ASSUME NEW i \in 1..n
      PROVE  i \in 1..Len(w) /\ w[i] = p[i] /\ (i + 1 \in 1..n => i + 1 \in 1..Len(w) /\ w[i + 1] = p[i + 1])
 BY <1>3
<1>5. ASSUME NEW i \in 1..Len(w), i \notin 1..n
      PROVE  \E j \in 1..Len(r) : /\ w[i] = r[j]
                                  /\ j + 1 \in 1..Len(r) => i + 1 \in 1..Len(w) /\ w[i + 1] = r[j + 1]
 <2>1. PICK j : j = i - n OBVIOUS
 <2>2. j \in 1..Len(r) /\ n + j = i /\ n + (j + 1) = i + 1 /\ (j + 1 \in 1..Len(r) => i + 1 \in 1..Len(w))
  BY <1>3, <1>5, <2>1
 <2>3. w[i] = r[j] /\ (j + 1 \in 1..Len(r) => w[i + 1] = r[j + 1]) BY <1>3, <2>2
 <2> QED BY <2>2, <2>3
<1> SUFFICES ASSUME NEW i \in 1..Len(w)
             PROVE  \/ w[i].do = "skip"
                    \/ w[i].do = "complete" /\ w[i].s = App
                    \/ w[i].do = do /\ w[i].s \in S /\ i + 1 \in 1..Len(w) /\ w[i + 1].do = "skip" /\ w[i + 1].s = w[i].s
 BY <1>1, <1>3 DEF Pairs
<1>6. CASE i \in 1..n
 <2>1. \/ p[i].do = "skip"
       \/ p[i].do = "complete" /\ p[i].s = App
       \/ p[i].do = do /\ p[i].s \in S /\ i + 1 \in 1..n /\ p[i + 1].do = "skip" /\ p[i + 1].s = p[i].s
  BY <1>1, <1>6 DEF Pairs
 <2> QED BY <1>4, <1>6, <2>1
<1>7. CASE i \notin 1..n
 <2>1. PICK j \in 1..Len(r) : /\ w[i] = r[j]
                              /\ j + 1 \in 1..Len(r) => i + 1 \in 1..Len(w) /\ w[i + 1] = r[j + 1]
  BY <1>5, <1>7
 <2>2. \/ r[j].do = "skip"
       \/ r[j].do = "complete" /\ r[j].s = App
       \/ r[j].do = do /\ r[j].s \in S /\ j + 1 \in 1..Len(r) /\ r[j + 1].do = "skip" /\ r[j + 1].s = r[j].s
  BY DEF Pairs
 <2> QED BY <2>1, <2>2
<1> QED BY <1>6, <1>7

LEMMA PairsEach ==
  ASSUME NEW do \in {"open", "complete"}, NEW S \in SUBSET Workspaces
  PROVE  <<>> \in Pairs(do, S) /\ EachOf(S, do) \in Pairs(do, S)
         /\ <<Step("complete", App)>> \in Pairs(do, S)
<1>1. IsFiniteSet(S) BY StoreConstants, FS_Subset
<1>2. <<>> \in Pairs(do, S) BY DEF Pairs
<1>3. ASSUME NEW s \in S PROVE <<Step(do, s), Step("skip", s)>> \in Pairs(do, S)
 <2>1. PICK a, b, p : a = Step(do, s) /\ b = Step("skip", s) /\ p = <<a, b>> OBVIOUS
 <2>2. /\ a \in StepRec /\ b \in StepRec
       /\ a.do = do /\ a.s = s /\ b.do = "skip" /\ b.s = s
  BY <2>1, IsStep DEF FreeDo, OfWorkspace, Withs, Scopes, Step
 <2>3. /\ p \in Seq(StepRec) /\ p[1] = a /\ p[2] = b /\ 1 + 1 = 2 /\ 2 \in 1..Len(p)
       /\ \A i \in 1..Len(p) : i = 1 \/ i = 2
  BY <2>1, <2>2
 <2> QED BY <2>1, <2>2, <2>3 DEF Pairs
<1>4. <<Step("complete", App)>> \in Pairs(do, S)
 <2>1. PICK a, p : a = Step("complete", App) /\ p = <<a>> OBVIOUS
 <2>2. a \in StepRec /\ a.do = "complete" /\ a.s = App
  BY <2>1, IsStep DEF FreeDo, OfWorkspace, Withs, Scopes, Step
 <2>3. p \in Seq(StepRec) /\ \A i \in 1..Len(p) : p[i] = a BY <2>1, <2>2
 <2> QED BY <2>1, <2>2, <2>3 DEF Pairs
<1> QED BY <1>1, <1>2, <1>3, <1>4, PairsJoin, EachOfIn

\* A step that brings such a list.
LEMMA EachUp ==
  ASSUME Going, NEW head \in {"sweep", "openall"}, At(Js, head), Same,
         NEW do \in {"open", "complete"}, NEW S \in SUBSET Workspaces,
         do = "open" => MainOpen,
         do = "complete" => \A s \in S : Unlocked(s),
         NEW more \in Pairs(do, S), Then(Js, more)
  PROVE  Onward /\ Keys'
<1>1. UNCHANGED <<cur, staged, open, keystore, conn>> /\ more \in Seq(StepRec)
 BY DEF Same, keystore, databases, Pairs
<1>2. /\ MainOpen' = MainOpen
      /\ \A s \in Scopes : /\ Unlocked(s)' = Unlocked(s) /\ Rotating(s)' = Rotating(s)
                           /\ (Staged(s) \in open)' = (Staged(s) \in open)
 BY <1>1 DEF MainOpen, Mounted, Unlocked, Rotating, Staged, Exists, Current
<1>3. MainOpen => Unlocked(App) BY AtOther DEF Going, Calm, Closed, MainOpen, Locked, Scopes
<1>4. Quiet(more)'
 <2>1. App \in Scopes BY DEF Scopes
 <2> QED BY <1>2, <1>3, <2>1 DEF Quiet, Pairs
<1>5. PICK r : r = Tail(job[Js]) OBVIOUS
<1>6. r \in Seq(StepRec) BY <1>5, RestIs DEF Going, Jobs, At
<1>7. PICK w, n : w = more \o r /\ n = Len(more) OBVIOUS
<1>8. n \in Nat /\ Len(r) \in Nat /\ Len(w) = n + Len(r) /\ \A i \in 1..n : w[i] = more[i]
 BY ONLY <1>1, <1>6, <1>7, JoinIs
<1>9. ASSUME NEW i \in 1..n PROVE Stands(w, i)'
 <2>1. \/ more[i].do = "skip"
       \/ more[i].do = "complete" /\ more[i].s = App
       \/ more[i].do = do /\ more[i].s \in S /\ i + 1 \in 1..n /\ more[i + 1].do = "skip" /\ more[i + 1].s = more[i].s
  BY <1>7 DEF Pairs
 <2>2. w[i] = more[i] /\ (i + 1 \in 1..n => w[i + 1] = more[i + 1] /\ i + 1 \in 1..Len(w) /\ i + 1 > i)
  BY <1>8
 <2>3. CASE more[i].do = "skip" \/ (more[i].do = "complete" /\ more[i].s = App)
  BY <2>2, <2>3 DEF Stands, OfApp
 <2>4. CASE more[i].do = do /\ more[i].s \in S /\ i + 1 \in 1..n /\ more[i + 1].do = "skip" /\ more[i + 1].s = more[i].s
  <3>1. more[i].s \in Scopes /\ more[i].s # App BY <2>4, StoreConstants DEF Scopes
  <3>2. Granted(w[i], Creates(w, more[i].s))'
   BY <1>2, <2>2, <2>4, <3>1 DEF Granted, Going, Upright, Keys, Both
  <3> QED BY <2>2, <2>4, <3>1, <3>2 DEF Stands, Inner
 <2> QED BY <2>1, <2>3, <2>4
<1>10. \A s \in Scopes : Creates(job[Js], s) => FALSE BY CreatesSoon DEF Going, Calm
<1>11. Onward BY <1>1, <1>2, <1>4, <1>5, <1>7, <1>9, <1>10, StepUp DEF Going, Inner
<1> QED BY <1>1, <1>11, KeysStay DEF Going, Upright

LEMMA SweepUp ==
  ASSUME Going, Sweep(Js)
  PROVE  Onward /\ Keys'
<1>1. PICK S : S = {s \in Scopes : Rotating(s) /\ Unlocked(s)} OBVIOUS
<1>2. PICK T : T = S \ {App} OBVIOUS
<1>3. T \in SUBSET Workspaces /\ \A s \in T : Unlocked(s) BY <1>1, <1>2 DEF Scopes
<1>4. PICK more : more = AppWide(S) OBVIOUS
<1>5. more \in Pairs("complete", T) BY <1>2, <1>3, <1>4, PairsEach, PairsJoin DEF AppWide
<1> QED BY <1>1, <1>3, <1>4, <1>5, EachUp DEF Sweep

LEMMA OpenAllUp ==
  ASSUME Going, OpenAll(Js)
  PROVE  Onward /\ Keys'
<1>1. At(Js, "openall") /\ Same BY DEF OpenAll
<1>2. CASE MainOpen /\ Then(Js, EachOf(rows, "open"))
 <2>1. rows \in SUBSET Workspaces BY DEF Going, Data, Typed
 <2> QED BY <1>1, <1>2, <2>1, PairsEach, EachUp
<1>3. CASE Fail(Js, "locked")
 <2>1. ~ (Awaiting(job[Js]) /\ It(Js).s # App) BY <1>1, HeadGranted DEF Inner
 <2> QED BY <1>1, <1>3, <2>1, ErrorsAre, RefusedUp
<1> QED BY <1>2, <1>3 DEF OpenAll

--------------------------------------------------
(* Keys *)

\* Keys come into memory, those of a scope together.
LEMMA UnlockKeys ==
  ASSUME Keys, ready' = ready, NEW V, KsUnlock(V),
         \A s \in Scopes : Rotating(s) /\ Current(s) \in V => Staged(s) \in V
  PROVE  Keys' /\ (Unlocked(App) => Unlocked(App)')
BY DEF KsUnlock, Keys, Both, AppOpen, Unlocked, Exists, Rotating, Current, Staged

\* Those of an open or an unlock of a workspace do, under the key of the app.
LEMMA ObtainedKeys ==
  ASSUME Keys, ready' = ready, NEW s \in Scopes, Unlocked(App), NEW V \in Obtained(s), KsUnlock(V)
  PROVE  Keys' /\ (Unlocked(App) => Unlocked(App)') /\ V = Versions(s)
<1>1. V = Versions(s) BY DEF Obtained, Locked
<1>2. \A x \in Scopes : Rotating(x) /\ Current(x) \in V => Staged(x) \in V
 BY <1>1 DEF Versions, Rotating, Current, Staged
<1> QED BY <1>1, <1>2, UnlockKeys

\* A new version comes with its key.
LEMMA StageKeys ==
  ASSUME Data, Keys, ready' = ready, NEW T, Stage(T), UNCHANGED cur
  PROVE  Keys' /\ (Unlocked(App) => Unlocked(App)')
<1>1. PICK n \in [T -> Serials] :
         /\ staged' = [s \in Scopes |-> IF s \in T THEN n[s] ELSE staged[s]]
         /\ open' = open \cup {Current(s) : s \in T} \cup {<<s, n[s]>> : s \in T}
 BY DEF Stage
<1>2. Both'
 <2> SUFFICES ASSUME NEW s \in Scopes, Rotating(s)', Unlocked(s)' PROVE (Staged(s) \in open)'
  BY DEF Both
 <2>1. CASE s \in T BY <1>1, <2>1 DEF Staged
 <2>2. CASE s \notin T BY <1>1, <2>2 DEF Keys, Both, Rotating, Unlocked, Staged, Exists, Current
 <2> QED BY <2>1, <2>2
<1>3. Unlocked(App) => Unlocked(App)' BY <1>1 DEF Unlocked, Exists, Current
<1> QED BY <1>2, <1>3 DEF Keys, AppOpen

LEMMA CommitUp ==
  ASSUME Going, Commit(Js)
  PROVE  Onward /\ Keys'
<1>1. PICK s : s = It(Js).s OBVIOUS
<1>2. At(Js, "commit") /\ s \in Scopes /\ UNCHANGED databases /\ App \in Scopes
 BY <1>1, HeadScope DEF Commit, Going, Scopes
<1>3. CASE ~ (Rotating(s) /\ Staged(s) \in open) /\ Fail(Js, "locked") /\ UNCHANGED keystore
 <2>1. ~ (Awaiting(job[Js]) /\ It(Js).s # App) BY <1>1, <1>2, <1>3, HeadGranted DEF Granted
 <2> QED BY <1>2, <1>3, <2>1, ErrorsAre, RefusedUp DEF Same
<1>4. CASE KsCommit(s) /\ Then(Js, <<>>)
 <2>1. Tail(job[Js]) \in Seq(EasyRec)
  <3>1. Turn(It(Js), Tail(job[Js])) /\ It(Js).do = "commit" BY <1>2, AtTurn DEF Going, Calm
  <3> QED BY <3>1 DEF Turn, EasyRec, Careful
 <2>2. /\ Rotating(s) /\ Staged(s) \in open /\ open' = open \ {Current(s)} /\ staged[s] # cur[s]
       /\ \A x \in Scopes : /\ cur'[x] = IF x = s THEN staged[s] ELSE cur[x]
                            /\ staged'[x] = IF x = s THEN None ELSE staged[x]
  BY <1>2, <1>4 DEF KsCommit, Going, Calm, Apart, Data, Typed, KeystoreType
 <2>3. ASSUME NEW x \in Scopes
       PROVE  /\ Unlocked(x) => Unlocked(x)'
              /\ (Rotating(x) => Staged(x) \in open) => (Rotating(x) => Staged(x) \in open)'
              /\ Rotating(x)' /\ Unlocked(x)' => (Staged(x) \in open)'
  <3>1. CASE x = s
   <4>1. Staged(s) # Current(s) BY <2>2 DEF Staged, Current
   <4>2. Unlocked(s)' /\ ~ Rotating(s)'
    BY <1>2, <2>2, <4>1 DEF Unlocked, Exists, Current, Rotating, Staged
   <4> QED BY <3>1, <4>2
  <3>2. CASE x # s
   <4>1. /\ Unlocked(x)' = Unlocked(x) /\ Rotating(x)' = Rotating(x)
         /\ (Staged(x) \in open)' = (Staged(x) \in open)
    BY <2>2, <3>2 DEF Unlocked, Exists, Current, Rotating, Staged
   <4> QED BY <4>1 DEF Going, Upright, Keys, Both
  <3> QED BY <3>1, <3>2
 <2>4. Keys' BY <1>2, <2>3 DEF Going, Upright, Keys, Both, AppOpen
 <2>5. PICK more, w : more = <<>> /\ w = more \o Tail(job[Js]) OBVIOUS
 <2>6. more \in Seq(StepRec) /\ Quiet(more)' /\ ~ \E i : i \in 1..Len(more) BY <2>5 DEF Quiet
 <2>7. \A x \in Scopes : ~ Creates(job[Js], x) BY <1>2, CreatesSoon DEF Going, Calm
 <2>8. MainOpen' = MainOpen /\ Then(Js, more)
  BY <1>2, <1>4, <2>5 DEF MainOpen, Mounted, databases
 <2>9. Onward BY <1>2, <2>1, <2>3, <2>5, <2>6, <2>7, <2>8, StepUp DEF Going
 <2> QED BY <2>4, <2>9
<1> QED BY <1>1, <1>3, <1>4 DEF Commit

LEMMA CreateScopeUp ==
  ASSUME Going, CreateScope(Js)
  PROVE  Onward /\ Keys'
<1>1. PICK s : s = It(Js).s OBVIOUS
<1>2. PICK do \in {"create", "createnew"} : At(Js, do) BY DEF CreateScope
<1>3. s \in Scopes /\ UNCHANGED databases /\ App \in Scopes
 BY <1>1, <1>2, HeadScope DEF CreateScope, Going, Scopes
<1>4. CASE ~ (Exists(App) /\ ~ Exists(s)) /\ Fail(Js, "locked") /\ UNCHANGED keystore
 <2>1. ASSUME Awaiting(job[Js]), It(Js).s # App PROVE FALSE
  <3>1. MainOpen /\ ~ Exists(s) BY <1>1, <1>2, <2>1, HeadGranted DEF Granted, Inner
  <3>2. Exists(App)
   BY <1>2, <1>3, <3>1, AtOther DEF Going, Calm, Closed, MainOpen, Locked, Unlocked
  <3> QED BY <1>4, <3>1, <3>2
 <2> QED BY <1>2, <1>3, <1>4, <2>1, ErrorsAre, RefusedUp DEF Same
<1>6. CASE /\ KsCreate(s, It(Js).with = "own")
           /\ Then(Js, IF At(Js, "create") THEN <<>>
                       ELSE <<Step("mount", s), Step("row", s), Step("undo", s)>>)
 <2>1. PICK n \in Serials : /\ cur' = [cur EXCEPT ![s] = n] /\ open' = open \cup {<<s, n>>}
  BY <1>6 DEF KsCreate
 <2>2. s # App /\ ~ Exists(s) /\ staged' = staged /\ ~ Rotating(s) /\ n # None /\ s \in Workspaces
       /\ \A x \in Scopes : cur'[x] = IF x = s THEN n ELSE cur[x]
  BY <1>3, <1>6, <2>1, StoreConstants DEF KsCreate, Going, Data, Typed, KeystoreType, StagedLater, Scopes
 <2>3. ASSUME NEW x \in Scopes
       PROVE  /\ Unlocked(x) => Unlocked(x)'
              /\ (Rotating(x) => Staged(x) \in open) => (Rotating(x) => Staged(x) \in open)'
              /\ x # s => Unlocked(x)' = Unlocked(x)
              /\ Unlocked(s)'
  BY <1>3, <2>1, <2>2 DEF Unlocked, Exists, Current, Rotating, Staged
 <2>4. Keys' BY <1>3, <2>1, <2>2, <2>3 DEF Going, Upright, Keys, Both, AppOpen, Rotating, Staged
 <2>5. CASE do = "createnew"
  <3>1. PICK more : more = <<Step("mount", s), Step("row", s), Step("undo", s)>> OBVIOUS
  <3>2. \A a \in {"mount", "row", "undo"} : Step(a, s) \in QuietRec
   BY <1>3, <2>2, IsStep DEF FreeDo, Checked, OfWorkspace, Withs, Step, QuietRec
  <3>3. more \in Seq(QuietRec) /\ Then(Js, more) BY <1>2, <1>6, <2>5, <3>1, <3>2 DEF At
  <3>4. Onward BY <1>2, <1>3, <2>3, <2>5, <3>3, AsideUp DEF Going, Aside
  <3> QED BY <2>4, <3>4
 <2>6. CASE do = "create"
  <3>1. Tail(job[Js]) \in Seq(EasyRec)
   <4>1. Turn(It(Js), Tail(job[Js])) /\ It(Js).do = "create"
    BY <1>2, <2>6, AtTurn DEF Going, Calm
   <4> QED BY <4>1 DEF Turn, EasyRec, Careful
  <3>2. PICK more, w : more = <<>> /\ w = more \o Tail(job[Js]) OBVIOUS
  <3>3. more \in Seq(StepRec) /\ Quiet(more)' /\ ~ \E i : i \in 1..Len(more) BY <3>2 DEF Quiet
  <3>4. MainOpen' = MainOpen /\ Then(Js, more)
   BY <1>2, <1>3, <1>6, <2>6, <3>2 DEF MainOpen, Mounted, databases
  <3>5. ASSUME NEW x \in Scopes, Creates(job[Js], x) PROVE x = s
   <4>1. PICK q, r : q = job[Js] /\ r = Tail(q) OBVIOUS
   <4>2. PICK j \in 1..Len(q) : j <= 2 /\ q[j].do = "create" /\ q[j].s = x
    BY <3>5, <4>1 DEF Creates
   <4>3. q \in Seq(StepRec) /\ q # <<>> /\ q[1].s = s
    BY <1>1, <1>2, <4>1, HeadFits DEF Going, Jobs, At
   <4>4. /\ r \in Seq(EasyRec) /\ Len(r) = Len(q) - 1 /\ Len(q) \in Nat
         /\ \A i \in 1..Len(r) : r[i] = q[i + 1]
    BY <3>1, <4>1, <4>3, RestIs
   <4>5. j # 2
    <5> SUFFICES ASSUME j = 2 PROVE FALSE
     OBVIOUS
    <5>1. 1 \in 1..Len(r) /\ 1 + 1 = 2 BY <4>4
    <5>2. r[1].do = "create" /\ r[1] \in EasyRec BY <4>2, <4>4, <5>1
    <5> QED BY <5>2 DEF EasyRec, Careful
   <4>6. j = 1 BY <4>2, <4>5
   <4> QED BY <4>2, <4>3, <4>6
  <3>6. Onward BY <1>2, <2>3, <2>6, <3>1, <3>2, <3>3, <3>4, <3>5, StepUp DEF Going
  <3> QED BY <2>4, <3>6
 <2> QED BY <2>5, <2>6
<1> QED BY <1>1, <1>4, <1>6 DEF CreateScope

LEMMA OpenWorkspaceUp ==
  ASSUME Going, OpenWorkspace(Js)
  PROVE  Onward /\ Keys'
<1>1. PICK s : s = It(Js).s OBVIOUS
<1>2. /\ At(Js, "open") /\ s \in Scopes /\ UNCHANGED databases /\ MainOpen' = MainOpen
      /\ s \in Workspaces /\ "quiet" \in Withs /\ Plain \in Withs /\ None \in Withs
 <2>1. It(Js) \in StepRec /\ It(Js).do = "open" /\ At(Js, "open")
  BY HeadFits DEF OpenWorkspace, Going, At, It
 <2> QED BY <1>1, <2>1 DEF OpenWorkspace, databases, MainOpen, Mounted, StepRec, OfWorkspace, Withs
<1>3. Unlocked(App)
 <2>1. job[Js] \in Seq(StepRec) /\ job[Js] # <<>> /\ job[Js][1].do = "open"
  BY <1>2, HeadFits DEF Going, Jobs, At, It
 <2>2. 1 \in 1..Len(job[Js]) BY <2>1
 <2> QED BY <2>1, <2>2 DEF Going, Upright, Order, Ordered
<1>4. Awaiting(job[Js]) /\ s # App => MainOpen BY <1>1, <1>2, HeadGranted DEF Granted
<1>5. CASE Then(Js, <<>>) /\ UNCHANGED keystore BY <1>2, <1>5, DoneUp DEF Inner
<1>6. CASE Fail(Js, "needs") /\ UNCHANGED keystore BY <1>2, <1>6, ErrorsAre, RefusedUp DEF Same
<1>7. CASE ~ Exists(s) /\ Then(Js, Adoption(s)) /\ UNCHANGED keystore
 <2>1. PICK a, b, c, d, e, more :
          /\ a = Step("mark", s) /\ b = StepWith("create", s, "quiet") /\ c = StepWith("move", s, Plain)
          /\ d = Step("mount", s) /\ e = Step("unmark", s) /\ more = <<a, b, c, d, e>>
  OBVIOUS
 <2>2. /\ a.do = "mark" /\ b.do = "create" /\ c.do = "move" /\ d.do = "mount" /\ e.do = "unmark"
       /\ a.s = s /\ b.s = s /\ c.s = s /\ d.s = s /\ e.s = s
  BY <2>1 DEF Step, StepWith
 <2>3. a \in StepRec /\ b \in StepRec /\ c \in StepRec /\ d \in StepRec /\ e \in StepRec
  BY <1>2, <2>1, IsStep DEF FreeDo, Checked, OfWorkspace
 <2>4. /\ more \in Seq(StepRec) /\ more[2] = b /\ 2 \in 1..Len(more)
       /\ \A i \in 1..Len(more) : more[i] \in {a, b, c, d, e}
  <3>1. \A i \in 1..Len(more) : i = 1 \/ i = 2 \/ i = 3 \/ i = 4 \/ i = 5 BY <2>1
  <3> QED BY <2>1, <2>3, <3>1
 <2>5. Creates(more, s) BY <2>2, <2>4 DEF Creates
 <2>6. ~ Exists(s)' BY <1>7 DEF keystore, Exists
 <2>7. ASSUME NEW i \in 1..Len(more)
       PROVE  /\ more[i].s = s /\ more[i].do \in Inner
              /\ Awaiting(job[Js]) /\ s # App => Granted(more[i], Creates(more, s))'
  <3>1. more[i].s = s /\ more[i].do \in {"mark", "create", "move", "mount", "unmark"}
   BY <2>2, <2>4
  <3>2. Awaiting(job[Js]) /\ s # App => Granted(more[i], Creates(more, s))'
   BY <1>2, <1>4, <2>5, <2>6, <3>1 DEF Granted
  <3> QED BY <3>1, <3>2 DEF Inner
 <2>8. Then(Js, more) /\ UNCHANGED <<cur, staged, open>> BY <1>7, <2>1 DEF Adoption, keystore
 <2>9. Onward BY <1>1, <1>2, <2>4, <2>7, <2>8, StayUp DEF Going, OfApp
 <2> QED BY <1>7, <2>9, KeysStay DEF Going, Upright
<1>8. ASSUME NEW V \in Obtained(s), KsUnlock(V), Exists(s),
             Then(Js, <<Step("complete", s), Step("adopted", s), Step("mount", s), Step("unmark", s)>>)
      PROVE  Onward /\ Keys'
 <2>1. Keys' /\ V = Versions(s) BY <1>2, <1>3, <1>8, ObtainedKeys DEF Going, Upright
 <2>2. /\ UNCHANGED <<cur, staged>> /\ open \subseteq open' /\ Unlocked(s)'
       /\ (Rotating(s) => Staged(s) \in open)'
  BY <1>8, <2>1 DEF KsUnlock, Versions, Unlocked, Exists, Current, Rotating, Staged
 <2>3. PICK more : more = <<Step("complete", s), Step("adopted", s), Step("mount", s), Step("unmark", s)>>
  OBVIOUS
 <2>4. \A do : Step(do, s).do = do /\ Step(do, s).s = s BY DEF Step
 <2>5. /\ more \in Seq(StepRec)
       /\ \A i \in 1..Len(more) : more[i].s = s /\ more[i].do \in {"complete", "adopted", "mount", "unmark"}
  <3>1. \A do \in {"complete", "adopted", "mount", "unmark"} : Step(do, s) \in StepRec
   BY <1>2, IsStep DEF FreeDo, Checked, OfWorkspace
  <3>2. \A i \in 1..Len(more) : i = 1 \/ i = 2 \/ i = 3 \/ i = 4 BY <2>3
  <3> QED BY <2>3, <2>4, <3>1, <3>2
 <2>6. ASSUME NEW i \in 1..Len(more)
       PROVE  /\ more[i].s = s /\ more[i].do \in Inner \cup {"complete"}
              /\ Awaiting(job[Js]) /\ s # App => Granted(more[i], Creates(more, s))'
  <3>1. more[i].s = s /\ more[i].do \in {"complete", "adopted", "mount", "unmark"} BY <2>5
  <3>2. Awaiting(job[Js]) /\ s # App => Granted(more[i], Creates(more, s))'
   BY <1>2, <1>4, <2>2, <3>1 DEF Granted
  <3> QED BY <3>1, <3>2 DEF Inner
 <2>7. Then(Js, more) /\ (MainOpen => MainOpen') BY <1>2, <1>8, <2>2, <2>3
 <2>8. Onward BY <1>1, <1>2, <2>2, <2>5, <2>6, <2>7, StayUp DEF Going, OfApp
 <2> QED BY <2>1, <2>8
<1> QED BY <1>1, <1>5, <1>6, <1>7, <1>8 DEF OpenWorkspace

--------------------------------------------------
(* Steps that no unlocking has *)

LEMMA AsideRefused ==
  ASSUME Going, NEW do \in Aside, At(Js, do), Same, NEW error \in Errors, Fail(Js, error)
  PROVE  Onward /\ Keys'
<1>1. ~ (Awaiting(job[Js]) /\ It(Js).s # App) BY HeadGranted DEF Aside, Inner
<1> QED BY <1>1, RefusedUp DEF Aside

LEMMA AsideStays ==
  ASSUME Going, NEW do \in Aside \ {"kslock"}, At(Js, do), UNCHANGED keystore, Then(Js, <<>>)
  PROVE  Onward /\ Keys'
<1>1. <<>> \in Seq(QuietRec) /\ Unlocked(App)' = Unlocked(App)
 BY DEF Unlocked, Exists, Current, keystore
<1> QED BY <1>1, AsideUp, KeysStay DEF Going, Upright

LEMMA QuietSteps ==
  ASSUME NEW s \in Scopes
  PROVE  /\ \A do \in {"complete", "mount", "drop", "undo"} : Step(do, s) \in QuietRec
         /\ s \in Workspaces => Step("row", s) \in QuietRec
         /\ StepWith("move", s, Legacy) \in QuietRec
<1>1. \A do \in {"complete", "mount", "drop", "undo"} : Step(do, s) \in StepRec /\ Step(do, s).do = do
 BY EasySteps, EasyAre DEF Step
<1>2. s \in Workspaces => Step("row", s) \in StepRec /\ Step("row", s).do = "row"
 BY EasySteps, EasyAre DEF Step
<1>3. StepWith("move", s, Legacy) \in StepRec /\ StepWith("move", s, Legacy).do = "move"
 BY EasySteps, EasyAre DEF StepWith, Old
<1> QED BY <1>1, <1>2, <1>3 DEF QuietRec

LEMMA UnlockOwnUp ==
  ASSUME Going, UnlockOwn(Js)
  PROVE  Onward /\ Keys'
<1>1. PICK s : s = It(Js).s OBVIOUS
<1>2. At(Js, "unlock") /\ s \in Scopes /\ UNCHANGED databases
 BY <1>1, HeadScope DEF UnlockOwn, Going
<1>3. CASE Then(Js, <<>>) /\ UNCHANGED keystore BY <1>2, <1>3, AsideStays DEF Aside
<1>4. CASE Fail(Js, "locked") /\ UNCHANGED keystore
 BY <1>2, <1>4, ErrorsAre, AsideRefused DEF Same, Aside
<1>5. ASSUME NEW V \in Obtained(s), KsUnlock(V),
             NEW typed \in {<<>>, <<StepWith("move", s, Legacy)>>},
             Then(Js, <<Step("complete", s)>> \o typed \o <<Step("mount", s), Step("drop", s)>>)
      PROVE  Onward /\ Keys'
 <2>1. Unlocked(App)
  <3>1. job[Js] \in Seq(StepRec) /\ job[Js] # <<>> /\ job[Js][1].do = "unlock"
   BY <1>2, HeadFits DEF Going, Jobs, At, It
  <3>2. 1 \in 1..Len(job[Js]) BY <3>1
  <3> QED BY <3>1, <3>2 DEF Going, Upright, Order, Ordered
 <2>2. Keys' /\ Unlocked(App)' BY <1>2, <1>5, <2>1, ObtainedKeys DEF Going, Upright
 <2>3. <<Step("complete", s)>> \o typed \o <<Step("mount", s), Step("drop", s)>> \in Seq(QuietRec)
  <3>1. PICK a, b, c, d : /\ a = Step("complete", s) /\ b = Step("mount", s)
                          /\ c = Step("drop", s) /\ d = StepWith("move", s, Legacy)
   OBVIOUS
  <3>2. a \in QuietRec /\ b \in QuietRec /\ c \in QuietRec /\ d \in QuietRec
   BY <1>2, <3>1, QuietSteps
  <3>3. typed = <<>> \/ typed = <<d>> BY <3>1
  <3>4. <<a>> \o typed \o <<b, c>> \in Seq(QuietRec)
   <4>1. <<a>> \o <<>> \o <<b, c>> \in Seq(QuietRec) /\ <<a>> \o <<d>> \o <<b, c>> \in Seq(QuietRec)
    BY <3>2
   <4> QED BY <3>3, <4>1
  <3> QED BY <3>1, <3>4
 <2> QED BY <1>2, <1>5, <2>2, <2>3, AsideUp DEF Going, Aside
<1> QED BY <1>1, <1>3, <1>4, <1>5 DEF UnlockOwn

LEMMA DropPasswordUp ==
  ASSUME Going, DropPassword(Js)
  PROVE  Onward /\ Keys'
<1>1. PICK s : s = It(Js).s OBVIOUS
<1>2. At(Js, "drop") /\ s \in Scopes /\ UNCHANGED databases
 BY <1>1, HeadScope DEF DropPassword, Going
<1>3. CASE Then(Js, <<>>) /\ UNCHANGED keystore BY <1>2, <1>3, AsideStays DEF Aside
<1>4. CASE Fail(Js, "locked") /\ UNCHANGED keystore
 BY <1>2, <1>4, ErrorsAre, AsideRefused DEF Same, Aside
<1>5. CASE KsRemovePassword(s) /\ Then(Js, <<Step("complete", s)>>)
 <2>1. Keys' /\ (Unlocked(App) => Unlocked(App)')
  BY <1>5, StageKeys DEF KsRemovePassword, Going, Upright
 <2>2. <<Step("complete", s)>> \in Seq(QuietRec) BY <1>2, QuietSteps
 <2> QED BY <1>2, <1>5, <2>1, <2>2, AsideUp DEF Going, Aside
<1> QED BY <1>1, <1>3, <1>4, <1>5 DEF DropPassword

LEMMA ChangePasswordUp ==
  ASSUME Going, ChangePassword(Js)
  PROVE  Onward /\ Keys'
<1>1. PICK s : s = It(Js).s OBVIOUS
<1>2. PICK do \in {"setpw", "rmpw"} : At(Js, do) BY DEF ChangePassword
<1>3. s \in Scopes /\ UNCHANGED databases /\ do \in Aside \ {"kslock"}
 BY <1>1, <1>2, HeadScope DEF ChangePassword, Going, Aside
<1>4. CASE Then(Js, <<>>) /\ UNCHANGED keystore BY <1>2, <1>3, <1>4, AsideStays
<1>5. CASE Fail(Js, "locked") /\ UNCHANGED keystore
 BY <1>2, <1>3, <1>5, ErrorsAre, AsideRefused DEF Same
<1>6. <<Step("complete", s)>> \in Seq(QuietRec) BY <1>3, QuietSteps
<1>7. ASSUME NEW T, Stage(T), UNCHANGED cur, NEW more \in Seq(QuietRec), Then(Js, more)
      PROVE  Onward /\ Keys'
 <2>1. Keys' /\ (Unlocked(App) => Unlocked(App)') BY <1>7, StageKeys DEF Going, Upright
 <2> QED BY <1>2, <1>3, <1>7, <2>1, AsideUp DEF Going
<1>8. CASE KsRemovePassword(s) /\ Then(Js, <<Step("complete", s)>>)
 BY <1>6, <1>7, <1>8 DEF KsRemovePassword
<1>9. CASE /\ KsSetPassword(s)
           /\ Then(Js, IF s = App
                       THEN AppWide(Affected(App)) \o DropEach({w \in Workspaces : s = App /\ sealed[w]})
                       ELSE <<Step("complete", s)>>)
 <2>1. PICK own, T : own = {w \in Workspaces : s = App /\ sealed[w]} /\ T = Affected(App) \ {App}
  OBVIOUS
 <2>2. own \in SUBSET Scopes /\ T \in SUBSET Scopes /\ App \in Scopes
  BY <2>1 DEF Affected, Scopes
 <2>3. EachOf(T, "complete") \in Seq(QuietRec) /\ DropEach(own) \in Seq(QuietRec)
  <3>1. \A x \in Scopes : Step("skip", x) \in QuietRec BY EasySteps, EasyAre DEF Step, QuietRec
  <3>2. Each("complete", T) \subseteq QuietRec /\ Each("drop", own) \subseteq QuietRec
   BY <2>2, <3>1, QuietSteps DEF Each
  <3>3. EachOf(T, "complete") \in Seq(Each("complete", T)) /\ DropEach(own) \in Seq(Each("drop", own))
   BY <2>2, ScopesFinite, EachOfSeq, DropEachSeq
  <3> QED BY <3>2, <3>3
 <2>4. AppWide(Affected(App)) \o DropEach(own) \in Seq(QuietRec)
  <3>1. PICK a : a = IF App \in Affected(App) THEN <<Step("complete", App)>> ELSE <<>> OBVIOUS
  <3>2. a \in Seq(QuietRec) BY <2>2, <3>1, QuietSteps
  <3>3. a \o EachOf(T, "complete") \in Seq(QuietRec) BY <2>3, <3>2
  <3>4. AppWide(Affected(App)) \in Seq(QuietRec) BY <2>1, <3>1, <3>3 DEF AppWide
  <3> QED BY <2>3, <3>4
 <2> QED BY <1>6, <1>7, <1>9, <2>1, <2>4 DEF KsSetPassword
<1> QED BY <1>1, <1>2, <1>4, <1>5, <1>8, <1>9 DEF ChangePassword

LEMMA DropKeysUp ==
  ASSUME Going, DropKeys(Js)
  PROVE  Onward /\ Keys'
<1>1. PICK s, S : s = It(Js).s /\ S = IF s = App THEN Scopes ELSE {s} OBVIOUS
<1>2. /\ At(Js, "kslock") /\ s \in Scopes /\ Then(Js, <<>>) /\ UNCHANGED <<cur, staged, sealed>>
      /\ open' = {v \in open : ~ (v[1] \in S /\ Guarded(v[1]))}
 BY <1>1, HeadScope DEF DropKeys, Going, KsLock
<1>3. \A x, n : <<x, n>> \in open' <=> <<x, n>> \in open /\ ~ (x \in S /\ Guarded(x)) BY <1>2
<1>4. Both'
 BY <1>2, <1>3 DEF Going, Upright, Keys, Both, Rotating, Unlocked, Exists, Current, Staged
<1>5. PICK q : q = job[Js] OBVIOUS
<1>6. /\ q \in Seq(StepRec) /\ q # <<>> /\ It(Js) = q[1] /\ q[1].do = "kslock"
      /\ 1 \in 1..Len(q) /\ Turn(q[1], Tail(q))
 BY <1>2, <1>5, HeadFits, AtTurn DEF Going, Calm, Jobs, At, It
<1>7. CASE s # App
 <2>1. Unlocked(App)' = Unlocked(App) /\ <<>> \in Seq(QuietRec)
  BY <1>1, <1>2, <1>3, <1>7 DEF Unlocked, Exists, Current, Scopes
 <2> QED BY <1>2, <1>4, <2>1, AsideUp DEF Going, Upright, Aside, Keys, AppOpen
<1>8. CASE s = App
 <2>1. Len(q) = 2 /\ (ready => ~ sealed[App])
  BY <1>1, <1>5, <1>6, <1>8 DEF Going, Upright, Order, Ordered
 <2>2. ready => Unlocked(App)'
  BY <1>2, <1>3, <1>8, <2>1 DEF Going, Upright, Keys, AppOpen, Unlocked, Exists, Current, Guarded
 <2>3. \E e \in Seq(EasyRec) : Tail(q) = <<Step("close", q[1].s)>> \o e
  BY <1>6 DEF Turn, EasyRec, Careful
 <2>4. q[2].do = "close"
  <3>1. Tail(q)[1] = Step("close", q[1].s) BY <2>3
  <3>2. Len(Tail(q)) = Len(q) - 1 /\ \A i \in 1..Len(Tail(q)) : Tail(q)[i] = q[i + 1]
   BY ONLY <1>6, RestIs
  <3>3. 1 \in 1..Len(Tail(q)) /\ 1 + 1 = 2 BY <2>1, <3>2
  <3> QED BY <3>1, <3>2, <3>3 DEF Step
 <2>5. \A i \in 1..Len(q) : i = 1 \/ i = 2 BY <2>1
 <2>6. /\ <<>> \in Seq(QuietRec)
       /\ \A i \in 1..Len(q) : q[i].do \notin {"open", "unlock"}
  BY <1>6, <2>4, <2>5
 <2> QED BY <1>2, <1>4, <1>5, <2>2, <2>6, AsideUp DEF Going, Aside, Keys, AppOpen
<1> QED BY <1>7, <1>8

LEMMA CloseLockedUp ==
  ASSUME Going, CloseLocked(Js)
  PROVE  Onward /\ Keys'
BY AsideStays DEF CloseLocked, Aside

LEMMA DeleteUp ==
  ASSUME Going, Delete(Js)
  PROVE  Onward /\ Keys'
<1>1. PICK s : s = It(Js).s OBVIOUS
<1>2. PICK do \in {"closeone", "delrow", "ksdelete", "unlink"} : At(Js, do) BY DEF Delete
<1>3. s \in Scopes /\ do \in Aside \ {"kslock"} BY <1>1, <1>2, HeadScope DEF Going, Aside
<1>4. CASE Then(Js, <<>>) /\ UNCHANGED keystore BY <1>2, <1>3, <1>4, AsideStays
<1>5. CASE Fail(Js, "locked") /\ Same BY <1>2, <1>3, <1>5, ErrorsAre, AsideRefused
<1>6. CASE KsDelete(s) /\ Then(Js, <<>>)
 <2>1. /\ s # App /\ open' = {v \in open : v[1] # s}
       /\ \A x \in Scopes : /\ cur'[x] = IF x = s THEN None ELSE cur[x]
                            /\ staged'[x] = IF x = s THEN None ELSE staged[x]
  BY <1>3, <1>6 DEF KsDelete, Going, Data, Typed, KeystoreType
 <2>2. \A x, n : <<x, n>> \in open' <=> <<x, n>> \in open /\ x # s BY <2>1
 <2>3. Both'
  BY <2>1, <2>2 DEF Going, Upright, Keys, Both, Rotating, Unlocked, Exists, Current, Staged
 <2>4. Unlocked(App)' = Unlocked(App) BY <2>1, <2>2 DEF Unlocked, Exists, Current, Scopes
 <2>5. <<>> \in Seq(QuietRec) OBVIOUS
 <2> QED BY <1>2, <1>3, <1>6, <2>3, <2>4, <2>5, AsideUp DEF Going, Upright, Keys, AppOpen
<1>7. /\ UNCHANGED <<cur, staged, open>> \/ KsDelete(s)
      /\ \/ Then(Js, <<>>) /\ UNCHANGED keystore
         \/ Fail(Js, "locked") /\ Same
         \/ KsDelete(s) /\ Then(Js, <<>>)
 BY <1>1 DEF Delete, Same, keystore, databases
<1> QED BY <1>4, <1>5, <1>6, <1>7

LEMMA WorkUp ==
  ASSUME Going, Work(Js)
  PROVE  Onward /\ Upright'
<1>1. Onward /\ Keys'
 BY OpenMainUp, SweepUp, OpenAllUp, CompleteUp, RekeyUp, CopyDoneUp, CommitUp,
    OpenWorkspaceUp, FinishAdoptionUp, MoveUp, MountUp, ConnectUp, WriteRowUp, CreateScopeUp,
    UnlockOwnUp, DropPasswordUp, ChangePasswordUp, DropKeysUp, CloseLockedUp, DeleteUp, FaultUp DEF Work
<1> QED BY <1>1 DEF Onward, Upright

\* The end of an unlocking: nothing but a "relock" comes after it, and the app's key is in memory.
LEMMA AnnounceUp ==
  ASSUME Data, Upright, Jobs, Js \in Threads, Announce(Js)
  PROVE  It(Js).s = App /\ Upright'
<1>1. PICK q, r : q = job[Js] /\ r = Tail(q) OBVIOUS
<1>2. /\ q \in Seq(StepRec) /\ q # <<>> /\ It(Js) = q[1] /\ q[1].do = "ready" /\ 1 \in 1..Len(q)
      /\ ready' = (MainOpen /\ Unlocked(App)) /\ UNCHANGED keystore
 BY <1>1, HeadFits DEF Announce, Same, Jobs, At, It
<1>3. q[1].s = App /\ (1 = Len(q) \/ (1 + 1 = Len(q) /\ q[1 + 1].do = "relock"))
 BY <1>1, <1>2 DEF Upright, Order, Ordered
<1>4. /\ r \in Seq(StepRec) /\ Len(r) = Len(q) - 1 /\ \A i \in 1..Len(r) : r[i] = q[i + 1]
 BY ONLY <1>1, <1>2, RestIs
<1>5. {i \in 1..Len(r) : r[i].do \notin Marks} = {} BY <1>3, <1>4 DEF Marks
<1>6. Trim(r) = <<>> BY <1>5 DEF Trim, FirstAfter, SelectInSeq
<1>7. job'[Js] = <<>>
 <2>1. <<>> \o r = r BY <1>4
 <2> QED BY <1>1, <1>6, <2>1 DEF Announce, Then, Jobs
<1>8. Keys'
 BY <1>2 DEF Upright, Keys, Both, AppOpen, keystore, Rotating, Unlocked, Staged, Exists, Current
<1> QED BY <1>2, <1>3, <1>7, <1>8 DEF Upright, Order, Standing

--------------------------------------------------
(* Calls *)

LEMMA BeginUp ==
  ASSUME Jobs, Js \in Threads, NEW q, Begin(Js, q), Keys', Order(q)', Standing(q)'
  PROVE  Upright'
<1>1. job'[Js] = q BY DEF Begin, Jobs
<1> QED BY <1>1 DEF Upright, Order, Standing, Awaiting

\* A call's own steps, under the key of the app.
CallRec == {x \in StepRec : x.do \notin {"relock", "ready", "kslock"}}

LEMMA CallUp ==
  ASSUME Upright, Jobs, Js \in Threads, NEW q \in Seq(CallRec), Call(Js, q)
  PROVE  Upright'
<1>1. Keys' /\ Unlocked(App)' /\ Begin(Js, q) BY KeysStay DEF Call, Same, Upright, Keys, AppOpen
<1>2. \A i \in 1..Len(q) : q[i] \in CallRec OBVIOUS
<1>3. Order(q)' /\ Standing(q)' BY <1>1, <1>2 DEF Order, Ordered, Standing, Awaiting, CallRec
<1> QED BY <1>1, <1>3, BeginUp

LEMMA CallSteps ==
  ASSUME NEW s \in Workspaces
  PROVE  /\ \A do \in {"open", "setpw", "rmpw", "asks", "unlock", "unmark", "closeone", "delrow",
                       "ksdelete", "unlink", "mount", "drop"} : Step(do, s) \in CallRec
         /\ \A do \in {"create", "createnew"}, own \in {"own", "quiet"} : StepWith(do, s, own) \in CallRec
         /\ StepWith("move", s, Legacy) \in CallRec
<1>1. s \in Scopes /\ None \in Withs /\ Legacy \in Withs /\ {"own", "quiet"} \subseteq Withs
 BY DEF Scopes, Withs
<1>2. \A do \in {"open", "setpw", "rmpw", "asks", "unlock", "unmark", "closeone", "delrow",
                 "ksdelete", "unlink", "mount", "drop"} : do \in FreeDo \cup Checked
 BY DEF FreeDo, Checked
<1>3. {"create", "createnew", "move"} \subseteq FreeDo \cup Checked BY DEF FreeDo, Checked
<1> QED BY <1>1, <1>2, <1>3, IsStep DEF CallRec

LEMMA MasterUp ==
  ASSUME Upright, Jobs, Js \in Threads, SetMasterPassword(Js) \/ RemoveMasterPassword(Js)
  PROVE  Upright'
<1>1. PICK a, b : a = Step("setpw", App) /\ b = Step("rmpw", App) OBVIOUS
<1>2. a \in CallRec /\ b \in CallRec
 <2>1. App \in Scopes BY DEF Scopes
 <2> QED BY <1>1, <2>1, EasySteps, EasyAre DEF Step, CallRec
<1>3. <<a>> \in Seq(CallRec) /\ <<b>> \in Seq(CallRec) BY <1>2
<1> QED BY <1>1, <1>3, CallUp DEF SetMasterPassword, RemoveMasterPassword

LEMMA CallsUp ==
  ASSUME Upright, Jobs, Js \in Threads, NEW s \in Workspaces,
         \/ \E own \in {"own", "quiet"} : CreateWorkspace(Js, s, own)
         \/ DeleteWorkspace(Js, s) \/ OpenCall(Js, s) \/ UnlockWorkspace(Js, s)
         \/ SetWorkspacePassword(Js, s) \/ RemoveWorkspacePassword(Js, s)
  PROVE  Upright'
<1>1. ASSUME NEW a \in CallRec, Call(Js, <<a>>) PROVE Upright'
 <2>1. <<a>> \in Seq(CallRec) OBVIOUS
 <2> QED BY <1>1, <2>1, CallUp
<1>2. ASSUME NEW a \in CallRec, NEW b \in CallRec, Call(Js, <<a, b>>) PROVE Upright'
 <2>1. <<a, b>> \in Seq(CallRec) OBVIOUS
 <2> QED BY <1>2, <2>1, CallUp
<1>3. ASSUME NEW a \in CallRec, NEW b \in CallRec, NEW c \in CallRec, NEW d \in CallRec,
             Call(Js, <<a, b, c, d>>)
      PROVE  Upright'
 <2>1. <<a, b, c, d>> \in Seq(CallRec) OBVIOUS
 <2> QED BY <1>3, <2>1, CallUp
<1>4. UnlockWith(s) \in Seq(CallRec)
 <2>1. PICK a, b, c : a = Step("open", s) /\ b = Step("asks", s) /\ c = Step("unlock", s)
  OBVIOUS
 <2>2. PICK d, e, f, g : /\ d = StepWith("create", s, "own") /\ e = StepWith("move", s, Legacy)
                         /\ f = Step("mount", s) /\ g = Step("drop", s)
  OBVIOUS
 <2>3. \A x \in {a, b, c, d, e, f, g} : x \in CallRec BY <2>1, <2>2, CallSteps
 <2>4. <<a, b, c>> \in Seq(CallRec) /\ <<d, e, f, g>> \in Seq(CallRec) BY <2>3
 <2> QED BY <2>1, <2>2, <2>4 DEF UnlockWith
<1>5. CASE RemoveWorkspacePassword(Js, s)
 <2>1. PICK u, d : u = (IF Mounted(s) THEN <<>> ELSE UnlockWith(s)) /\ d = Step("rmpw", s)
  OBVIOUS
 <2>2. u \in Seq(CallRec) /\ d \in CallRec BY <1>4, <2>1, CallSteps
 <2>3. u \o <<d>> \in Seq(CallRec) BY <2>2
 <2> QED BY <1>5, <2>1, <2>3, CallUp DEF RemoveWorkspacePassword
<1>6. CASE UnlockWorkspace(Js, s) BY <1>4, <1>6, CallUp DEF UnlockWorkspace
<1>7. CASE OpenCall(Js, s) BY <1>1, <1>7, CallSteps DEF OpenCall
<1>8. CASE SetWorkspacePassword(Js, s) \/ \E own \in {"own", "quiet"} : CreateWorkspace(Js, s, own)
 BY <1>2, <1>8, CallSteps DEF SetWorkspacePassword, CreateWorkspace
<1>9. CASE DeleteWorkspace(Js, s) BY <1>3, <1>9, CallSteps DEF DeleteWorkspace
<1> QED BY <1>5, <1>6, <1>7, <1>8, <1>9

\* The unlocking itself.
LEMMA AfterUnlockUp ==
  ASSUME Jobs, Js \in Threads, Keys', NEW q, Begin(Js, q),
         q = AfterUnlock \/ (q = AfterUnlock \o <<Step("relock", App)>> /\ ~ ready')
  PROVE  Upright'
<1>1. PICK a, b, c, d, f : /\ a = Step("openmain", App) /\ b = Step("sweep", App)
                           /\ c = Step("openall", App) /\ d = Step("ready", App)
                           /\ f = Step("relock", App)
 OBVIOUS
<1>2. /\ a.do = "openmain" /\ b.do = "sweep" /\ c.do = "openall" /\ d.do = "ready" /\ f.do = "relock"
      /\ \A x \in {a, b, c, d, f} : x.s = App
 BY <1>1 DEF Step
<1>3. /\ q[1] = a /\ q[2] = b /\ q[3] = c /\ q[4] = d
      /\ Len(q) = 4 \/ (Len(q) = 5 /\ q[5] = f /\ ~ ready')
 <2>1. PICK p, r, w, n : p = <<a, b, c, d>> /\ r = <<f>> /\ w = p \o r /\ n = Len(p) OBVIOUS
 <2>2. p \in Seq(StepRec) /\ r \in Seq(StepRec)
  <3>1. App \in Scopes BY DEF Scopes
  <3>2. a \in StepRec /\ b \in StepRec /\ c \in StepRec /\ d \in StepRec /\ f \in StepRec
   BY <1>1, <3>1, EasySteps, EasyAre
  <3> QED BY <2>1, <3>2
 <2>3. Len(p) = 4 /\ p[1] = a /\ p[2] = b /\ p[3] = c /\ p[4] = d /\ Len(r) = 1 /\ r[1] = f
  BY <2>1
 <2>4. q = p \/ (q = w /\ ~ ready') BY <1>1, <2>1 DEF AfterUnlock
 <2>5. /\ Len(w) = n + Len(r) /\ \A i \in 1..n : w[i] = p[i]
       /\ \A i \in 1..Len(r) : w[n + i] = r[i]
  BY ONLY <2>1, <2>2, JoinIs
 <2>6. n = 4 /\ Len(w) = 5 /\ w[4 + 1] = f /\ \A i \in 1..4 : w[i] = p[i] BY <2>1, <2>3, <2>5
 <2> QED BY <2>3, <2>4, <2>5, <2>6
<1>4. Order(q)' /\ Standing(q)'
 <2>1. ASSUME NEW i \in 1..Len(q)
       PROVE  /\ i \in {1, 2, 3} => q[i].do \in OfApp /\ q[i].s = App
              /\ i = 4 => q[i] = d /\ (4 = Len(q) \/ (5 = Len(q) /\ q[4 + 1] = f))
              /\ i = 5 => q[i] = f /\ 5 = Len(q) /\ ~ ready'
              /\ i \in {1, 2, 3, 4, 5}
  <3>1. PICK n : n = Len(q) OBVIOUS
  <3>2. i \in 1..n /\ (n = 4 \/ n = 5) BY <1>3, <3>1
  <3>3. i \in {1, 2, 3, 4, 5} /\ (i = 5 => n = 5) BY ONLY <3>2
  <3> QED BY <1>2, <1>3, <3>1, <3>3 DEF OfApp
 <2>2. ASSUME NEW i \in 1..Len(q)
       PROVE  Ordered(q, i)' /\ (q[i].do \in {"ready", "relock"} \/ Stands(q, i)')
  BY <1>2, <2>1 DEF Ordered, Stands, OfApp
 <2> QED BY <2>2 DEF Order, Standing
<1> QED BY <1>4, BeginUp

LEMMA SameKeys ==
  ASSUME Upright, Jobs, Js \in Threads, UNCHANGED <<keystore, conn, ready, job>>
  PROVE  Upright'
<1>1. PICK q : q = job[Js] OBVIOUS
<1>2. Order(q)' /\ Standing(q)' /\ Keys' /\ job'[Js] = q BY <1>1, SameUpright DEF Upright
<1> QED BY <1>2 DEF Upright, Order, Standing, Awaiting

LEMMA StartUp ==
  ASSUME Data, Upright, Jobs, Js \in Threads, Start(Js) \/ UnlockApp(Js)
  PROVE  Upright'
<1>1. CASE Start(Js) /\ UNCHANGED <<keystore, job>> BY <1>1, SameKeys DEF Start, databases
<1>2. CASE Start(Js) /\ KsInitialize({}, {}) /\ Begin(Js, AfterUnlock)
 <2>1. PICK n \in Serials : /\ cur' = [s \in Scopes |-> IF s = App THEN n ELSE None]
                            /\ open' = {App} \X {n}
  BY <1>2 DEF KsInitialize
 <2>2. \A s \in Scopes : ~ Rotating(s)' BY <1>2 DEF KsInitialize, Data, StagedLater, Rotating
 <2>3. Unlocked(App)' BY <2>1, StoreConstants DEF Unlocked, Exists, Current, Scopes
 <2>4. Keys' BY <2>2, <2>3 DEF Keys, Both, AppOpen
 <2> QED BY <1>2, <2>4, AfterUnlockUp
<1>3. ASSUME NEW W \in SUBSET Scopes, NEW V, V = UNION {Versions(s) : s \in W}, KsUnlock(V), ready' = ready
      PROVE  Keys'
 <2>1. \A s \in Scopes : Rotating(s) /\ Current(s) \in V => Staged(s) \in V
  BY <1>3 DEF Versions, Rotating, Current, Staged
 <2> QED BY <1>3, <2>1, UnlockKeys DEF Upright
<1>4. CASE Start(Js) /\ KsUnlock(Versions(App)) /\ Begin(Js, AfterUnlock)
 <2>1. Versions(App) = UNION {Versions(s) : s \in {App}} /\ {App} \in SUBSET Scopes
  BY DEF Scopes
 <2>2. Keys' BY <1>3, <1>4, <2>1 DEF Start
 <2> QED BY <1>4, <2>2, AfterUnlockUp
<1>5. CASE UnlockApp(Js)
 <2>1. PICK W \in SUBSET {w \in Workspaces : Exists(w)} :
          KsUnlock(UNION {Versions(s) : s \in W \cup {App}})
  BY <1>5 DEF UnlockApp
 <2>2. W \cup {App} \in SUBSET Scopes BY DEF Scopes
 <2>3. Keys' BY <1>3, <1>5, <2>1, <2>2 DEF UnlockApp
 <2> QED BY <1>5, <2>3, AfterUnlockUp DEF UnlockApp
<1> QED BY <1>1, <1>2, <1>4, <1>5 DEF Start

LEMMA LocksUp ==
  ASSUME Upright, Jobs, Js \in Threads,
         LockApp \/ \E s \in Workspaces : LockWorkspace(s) \/ ReadWorkspace(s)
  PROVE  Upright'
<1>1. ASSUME NEW s \in Scopes, Begin(Js, <<Step("kslock", s), Step("close", s)>>), Keys',
             s = App => (ready' => ~ sealed'[App])
      PROVE  Upright'
 <2>1. PICK q : q = <<Step("kslock", s), Step("close", s)>> OBVIOUS
 <2>2. /\ Len(q) = 2 /\ q[1].do = "kslock" /\ q[1].s = s /\ q[2].do = "close"
       /\ \A i \in 1..Len(q) : i = 1 \/ i = 2
  BY <2>1 DEF Step
 <2>3. Order(q)' /\ Standing(q)' BY <1>1, <2>2 DEF Order, Ordered, Standing, Awaiting
 <2> QED BY <1>1, <2>1, <2>3, BeginUp
<1>2. CASE LockApp
 <2>1. Keys' /\ Begin(Js, <<Step("kslock", App), Step("close", App)>>) /\ (ready' => ~ sealed'[App])
  BY <1>2 DEF LockApp, Begin, Same, keystore, Upright, Keys, Both, AppOpen, Rotating, Unlocked,
              Staged, Exists, Current
 <2> QED BY <1>1, <2>1 DEF Scopes
<1>3. ASSUME NEW s \in Workspaces, LockWorkspace(s) PROVE Upright'
 <2>1. Keys' /\ Begin(Js, <<Step("kslock", s), Step("close", s)>>)
  BY <1>3, KeysStay DEF LockWorkspace, Call, Same, Upright
 <2> QED BY <1>1, <2>1, StoreConstants DEF Scopes
<1>4. ASSUME NEW s \in Workspaces, ReadWorkspace(s) PROVE Upright'
 <2>1. PICK q : q = <<Step("mount", s)>> OBVIOUS
 <2>2. Len(q) = 1 /\ q[1].do = "mount" /\ \A i \in 1..Len(q) : i = 1 BY <2>1 DEF Step
 <2>3. Order(q)' /\ Standing(q)' BY <2>2 DEF Order, Ordered, Standing, Awaiting
 <2>4. Keys' /\ Begin(Js, q) BY <1>4, <2>1, KeysStay DEF ReadWorkspace, Same, Upright
 <2> QED BY <2>3, <2>4, BeginUp
<1> QED BY <1>2, <1>3, <1>4

--------------------------------------------------
(* The invariant *)

LEMMA UprightEmpty ==
  ASSUME job[Js] = <<>>, open = {}, ~ ready
  PROVE  Upright
BY DEF Upright, Keys, Both, AppOpen, Unlocked, Order, Standing

LEMMA UprightInit == Init => Upright
<1>1. Init => job[Js] = <<>> /\ open = {} /\ ~ ready BY DEF Init, Threads
<1> QED BY <1>1, UprightEmpty

LEMMA CrashUp ==
  ASSUME Js \in Threads, Crash
  PROVE  Upright'
<1>1. (job[Js] = <<>> /\ open = {} /\ ~ ready)' BY DEF Crash, KsForget
<1> QED BY <1>1 DEF Upright, Keys, Both, AppOpen, Unlocked, Order, Standing

LEMMA UprightNext ==
  ASSUME OneCall, Movable, Calm, Upright, [Next]_vars
  PROVE  Upright' /\ (Awaiting(job[Js]) /\ It(Js).s # App /\ started' => Awaiting(job[Js])')
<1>1. Data /\ Jobs /\ Js \in Threads /\ Threads = {Js} BY DEF Movable, OneCall, Threads
<1>2. Awaiting(job[Js]) => job[Js] # <<>> BY DEF Awaiting
<1>3. CASE UNCHANGED vars
 <2>1. UNCHANGED <<keystore, conn, ready, job>> BY <1>3 DEF vars, databases
 <2>2. Awaiting(job[Js])' = Awaiting(job[Js]) BY <2>1 DEF Awaiting
 <2> QED BY <1>1, <2>1, <2>2, SameKeys
<1>4. CASE Proceed(Js)
 <2>1. CASE Work(Js) /\ UNCHANGED ready BY <1>1, <2>1, WorkUp DEF Going, Onward
 <2> QED BY <1>1, <1>4, <2>1, AnnounceUp DEF Proceed
<1>5. CASE NewCall(Js)
 <2>1. job[Js] = <<>> \/ UNCHANGED job
  BY <1>5 DEF NewCall, Start, UnlockApp, SetMasterPassword, RemoveMasterPassword, CreateWorkspace,
              DeleteWorkspace, OpenCall, UnlockWorkspace, SetWorkspacePassword,
              RemoveWorkspacePassword, Call, Begin
 <2>2. Upright' BY <1>1, <1>5, StartUp, MasterUp, CallsUp DEF NewCall
 <2>3. UNCHANGED job => Awaiting(job[Js])' = Awaiting(job[Js]) BY DEF Awaiting
 <2> QED BY <1>2, <2>1, <2>2, <2>3
<1>6. CASE LockApp \/ \E s \in Workspaces : LockWorkspace(s) \/ ReadWorkspace(s)
 <2>1. job[Js] = <<>> BY <1>6 DEF LockApp, LockWorkspace, ReadWorkspace, Call, Begin
 <2> QED BY <1>1, <1>2, <1>6, <2>1, LocksUp
<1>7. CASE Crash BY <1>1, <1>7, CrashUp DEF Crash
<1> QED BY <1>1, <1>3, <1>4, <1>5, <1>6, <1>7 DEF Next, OneCall

LEMMA StandsNext ==
  OneCall /\ Movable /\ Calm /\ Upright /\ [Next]_vars =>
     [\A t \in Threads : Unlocking(t) /\ It(t).s # App /\ started' => Unlocking(t)']_vars
<1> SUFFICES ASSUME OneCall, Movable, Calm, Upright, [Next]_vars, NEW t \in Threads,
                    Unlocking(t), It(t).s # App, started'
             PROVE  Unlocking(t)'
 OBVIOUS
<1>1. t = Js BY DEF OneCall, Threads
<1>2. Awaiting(job[Js])' BY <1>1, UprightNext DEF Unlocking, Awaiting
<1> QED BY <1>1, <1>2 DEF Unlocking, Awaiting

\* With one call at a time, no refused step of a workspace ends an unlocking of the app: nothing
\* a workspace does there is refused as "locked", and its "skip" is always ahead.
THEOREM StoreUnlockStands ==
  ASSUME OneCall
  PROVE  Spec => UnlockStands
<1>1. Spec => []Movable BY StoreMovable
<1>2. Init => Calm /\ Upright BY CalmInit, UprightInit
<1>3. Movable /\ Calm /\ Upright /\ [Next]_vars => (Calm /\ Upright)' BY CalmNext, UprightNext
<1>4. Movable /\ Calm /\ Upright /\ [Next]_vars =>
         [\A t \in Threads : Unlocking(t) /\ It(t).s # App /\ started' => Unlocking(t)']_vars
 BY StandsNext
<1> QED BY <1>1, <1>2, <1>3, <1>4, PTL DEF Spec, UnlockStands

--------------------------------------------------
(* The migration *)

OldState == [n \in Names |-> IF n \in OldFiles \cup (IF encrypted THEN {AppKey} ELSE {})
                             THEN "old" ELSE "none"]

Untouched ==
  /\ files = OldState /\ ~keyring /\ kept = {}
  /\ \A n \in Names : backup.has[n] \in {"none", files[n]}
  /\ at \in {"down", "backup"}
  /\ at = "backup" => /\ backup.dir /\ moved = {}
                      /\ \A n \in Present(files) : n \in todo \/ backup.has[n] = files[n]

Restore == {"putBack", "restoring"}
Moving == {"prepare", "split", "import", "move"}
MainMoved == {"mark", "rows", "flags", "vaults", "keys", "migrated", "drop"}

Gathered ==
  /\ layout = "json" => cut \/ imported = OldWorkspaces
  /\ \A w \in Listed : There(files, Db(w)) \/ cut

Row(w) == \/ w \in moved /\ files[Db(w)] # "old"
          \/ w \in left

WayBack ==
  /\ backup.dir /\ backup.has = OldState
  /\ at \in {"down", "main"} \cup Restore \cup Moving \cup MainMoved
  /\ ~keyring => files = OldState /\ at \in {"down", "main", "restoring"}
  /\ \A n \in Names \ Databases : files[n] \in {"none", OldState[n]}
  /\ at = "main" /\ ~resumed => files = OldState
  /\ at \in {"main", "putBack"} \cup Moving => moved = {}
  /\ at \in Restore => todo \subseteq Present(backup.has)
  /\ at = "putBack" => \A n \in Present(backup.has) : n \in todo \/ files[n] = "old" \/ erred
  /\ files[MainDb] = "new" => Gathered
  /\ at = "prepare" => files = OldState
  /\ at = "split" => /\ files[MainDb] = "none" /\ layout = "getssh"
                     /\ \A w \in OldWorkspaces : w \in todo \/ There(files, Db(w))
  /\ at = "import" => /\ files[MainDb] = "old" /\ layout = "json" /\ imported \cup todo = OldWorkspaces
                      /\ \A w \in imported : There(files, Db(w))
  /\ at = "move" => files[MainDb] = "old" /\ Gathered
  /\ at \in MainMoved => files[MainDb] = "new" /\ moved \subseteq Listed
  /\ at = "rows" => todo \subseteq Listed /\ \A w \in Listed : w \in todo \/ Row(w)
  /\ at \in {"flags", "vaults", "keys", "migrated", "drop"} => \A w \in Listed : Row(w)
  /\ at \in {"vaults", "keys", "migrated", "drop"} =>
       \A w \in moved : There(files, Vault(w)) => at = "vaults" /\ w \in todo
  /\ at \in {"migrated", "drop"} => ~There(files, AppKey) /\ ~There(files, Getssh)
  /\ at = "drop" => ~There(files, Migrated)

AllMoved ==
    /\ files[MainDb] = "new"
    /\ cut \/ Listed = OldWorkspaces
    /\ \A w \in Listed :
         \/ files[Db(w)] = "new" /\ (w \in left \/ ~There(files, Vault(w)))
         \/ files[Db(w)] = "old" /\ w \in left
         \/ cut /\ ~There(files, Db(w))
    /\ ~There(files, AppKey) /\ ~There(files, Getssh) /\ ~There(files, Migrated)
    /\ backup = NoBackup /\ keyring
    /\ at \in {"down", "open", "started"}

OldFilesStand ==
  /\ layout \in {"main", "both"} => \A w \in OldWorkspaces : There(files, Db(w))
  /\ layout = "both" =>
       /\ There(files, Getssh) \/ Getssh \in kept
       /\ encrypted => /\ There(files, AppKey) \/ AppKey \in kept
                       /\ Getssh \in kept => AppKey \in kept

MigTypes ==
  /\ at \in {"backup"} \cup Restore => todo \subseteq Names
  /\ at \in {"split", "import", "rows", "vaults"} => todo \subseteq OldWorkspaces
  /\ MigrationTypeOK /\ layout \in {"getssh", "main", "both", "json"} /\ encrypted \in BOOLEAN
  /\ (layout = "json" => ~encrypted)
  /\ keyring \in BOOLEAN /\ erred \in BOOLEAN /\ resumed \in BOOLEAN /\ cut \in BOOLEAN
  /\ backup \in [dir : BOOLEAN, complete : BOOLEAN, has : [Names -> {"none", "old"}]]

MigInv == MigTypes /\ OldFilesStand /\ IF backup.complete THEN WayBack ELSE Untouched \/ AllMoved
--------------------------------------------------
NamesDiffer ==
  /\ {MainDb, Getssh, Migrated, AppKey} \subseteq Names
  /\ \A w \in OldWorkspaces : Db(w) \in Names /\ Vault(w) \in Names /\ Db(w) \in Databases
  /\ MainDb # Getssh /\ MainDb # Migrated /\ MainDb # AppKey
  /\ Getssh # Migrated /\ Getssh # AppKey /\ Migrated # AppKey
  /\ \A w : /\ Db(w) \notin {MainDb, Getssh, Migrated, AppKey}
            /\ Vault(w) \notin {MainDb, Getssh, Migrated, AppKey}
  /\ \A w, v : /\ Db(w) # Vault(v)
               /\ Db(w) = Db(v) => w = v
               /\ Vault(w) = Vault(v) => w = v

LEMMA NamesAreApart == NamesDiffer
BY DEF NamesDiffer, MainDb, Getssh, Migrated, AppKey, Db, Vault, Names, Databases

LEMMA MigInit == MigrationInit => MigInv
<1> SUFFICES ASSUME MigrationInit PROVE MigInv
 OBVIOUS
<1> USE NamesAreApart, MigrationConstants DEF MigrationInit
<1>1. files = OldState BY DEF OldState
<1>2. MigTypes
 <2>1. NoBackup \in [dir : BOOLEAN, complete : BOOLEAN, has : [Names -> {"none", "old"}]]
  BY DEF NoBackup
 <2>2. files \in [Names -> {"none", "old", "new"}] /\ backup.has \in [Names -> {"none", "old"}]
  BY DEF NoBackup
 <2>3. keyring \in BOOLEAN /\ erred \in BOOLEAN /\ resumed \in BOOLEAN /\ cut \in BOOLEAN
  BY Zenon
 <2> HIDE DEF NoBackup
 <2> QED BY <2>1, <2>2, <2>3 DEF MigTypes, MigrationTypeOK, Restore
<1>3. Untouched BY <1>1, <1>2 DEF Untouched, NoBackup, Present, There, MigTypes, MigrationTypeOK
<1>4. OldFilesStand BY <1>1 DEF OldFilesStand, OldState, OldFiles, There, NamesDiffer
<1> QED BY <1>2, <1>3, <1>4 DEF MigInv, NoBackup

LEMMA StartKeeps == MigInv /\ StartMigration => MigInv'
<1> SUFFICES ASSUME MigInv, StartMigration PROVE MigInv'
 OBVIOUS
<1> USE NamesAreApart DEF StartMigration, Goes, Restore, Moving, MainMoved
<1>1. MigTypes' /\ OldFilesStand'
 <2>1. at' = "backup" => todo' = Present(files) OBVIOUS
 <2>2. at' = "backup" => todo' \subseteq Names BY <2>1 DEF Present
 <2>3. at' \in {"open", "main", "backup"} OBVIOUS
 <2>4. backup' = backup \/ backup' = [backup EXCEPT !.dir = TRUE] OBVIOUS
 <2>5. backup' \in [dir : BOOLEAN, complete : BOOLEAN, has : [Names -> {"none", "old"}]]
  BY <2>4 DEF MigInv, MigTypes
 <2>6. UNCHANGED <<layout, encrypted, files, imported, kept, keyring, left, cut, faults>>
  OBVIOUS
 <2>7. OldFilesStand' BY <2>6 DEF MigInv, OldFilesStand, There
 <2>8. MigrationTypeOK' BY <2>2, <2>3, <2>5, <2>6 DEF MigInv, MigTypes, MigrationTypeOK
 <2>9. erred' \in BOOLEAN /\ resumed' \in BOOLEAN BY DEF MigInv, MigTypes
 <2> QED BY <2>2, <2>3, <2>5, <2>6, <2>7, <2>8, <2>9 DEF MigInv, MigTypes
<1>2. CASE backup.complete
 <2>1. NeedsMigration
  BY <1>2 DEF MigInv, WayBack, NeedsMigration, OldState, OldFiles, MigTypes, There, NamesDiffer
 <2>2. WayBack'
  BY <1>2, <2>1 DEF MigInv, WayBack, OldState, OldFiles, Gathered, Listed, There, Present, MigTypes, Row
 <2> QED BY <1>1, <1>2, <2>1, <2>2 DEF MigInv
<1>3. CASE ~backup.complete /\ Untouched
 <2>1. NeedsMigration
  BY <1>3 DEF MigInv, Untouched, NeedsMigration, OldState, OldFiles, MigTypes, There, NamesDiffer
 <2>2. Untouched'
  <3>1. /\ at' = "backup" /\ todo' = Present(files) /\ moved' = {}
        /\ backup' = [backup EXCEPT !.dir = TRUE]
        /\ UNCHANGED <<layout, encrypted, files, kept, keyring>>
   BY <1>3, <2>1
  <3>2. backup'.dir /\ backup'.has = backup.has BY <3>1 DEF MigInv, MigTypes
  <3>3. OldState' = OldState BY <3>1 DEF OldState, OldFiles
  <3> QED BY <1>3, <3>1, <3>2, <3>3 DEF Untouched, Present, There
 <2>3. ~backup'.complete BY <1>3, <2>1 DEF MigInv, MigTypes
 <2> QED BY <1>1, <1>3, <2>2, <2>3 DEF MigInv
<1>4. CASE ~backup.complete /\ AllMoved
 <2>1. ~NeedsMigration BY <1>4 DEF AllMoved, NeedsMigration, There, NoBackup
 <2>2. AllMoved' BY <1>4, <2>1 DEF AllMoved, Listed, There, NoBackup
 <2> QED BY <1>1, <1>4, <2>1, <2>2 DEF MigInv
<1> QED BY <1>2, <1>3, <1>4 DEF MigInv

LEMMA BackupKeeps == MigInv /\ TakeBackup => MigInv'
<1> SUFFICES ASSUME MigInv, TakeBackup PROVE MigInv'
 OBVIOUS
<1> USE NamesAreApart DEF Goes, Restore, Moving, MainMoved
<1>1. ~backup.complete /\ Untouched /\ at = "backup" /\ MigTypes /\ OldFilesStand
 BY DEF TakeBackup, MigInv, WayBack, AllMoved
<1>2. OldFilesStand' BY <1>1 DEF TakeBackup, OldFilesStand, There, Known
<1>3. ASSUME NEW n \in todo, backup' = [backup EXCEPT !.has[n] = files[n]],
             todo' = todo \ {n}, UNCHANGED at
      PROVE  MigInv'
 <2>1. files[n] \in {"none", "old"} /\ n \in Names
  BY <1>1, <1>3 DEF MigTypes, MigrationTypeOK, Untouched, OldState
 <2>2. PICK has : has = [backup.has EXCEPT ![n] = files[n]] OBVIOUS
 <2>3. has \in [Names -> {"none", "old"}] /\ backup' = [backup EXCEPT !.has = has]
  BY <1>1, <1>3, <2>1, <2>2 DEF MigTypes
 <2>4. MigTypes' BY <1>1, <1>3, <2>3 DEF TakeBackup, MigTypes, MigrationTypeOK, Known
 <2>5. Untouched' BY <1>1, <1>3, <2>1, <2>2, <2>3
  DEF TakeBackup, MigTypes, Untouched, OldState, OldFiles, Present, There, Known
 <2> QED BY <1>1, <1>2, <2>3, <2>4, <2>5 DEF MigInv, MigTypes
<1>4. ASSUME todo = {}, backup' = [backup EXCEPT !.complete = TRUE], at' = "main", todo' = todo
      PROVE  MigInv'
 <2>1. backup'.dir /\ backup'.has = backup.has /\ backup'.complete
  BY <1>1, <1>4 DEF MigTypes, Untouched
 <2>2. \A n \in Names : backup.has[n] = files[n] BY <1>1, <1>4 DEF Untouched, Present, There
 <2>3. backup.has = files BY <1>1, <2>2 DEF MigTypes, MigrationTypeOK
 <2>4. MigTypes' BY <1>1, <1>4, <2>1 DEF TakeBackup, MigTypes, MigrationTypeOK, Known
 <2>5. files' = OldState /\ OldState' = OldState
  BY <1>1 DEF TakeBackup, Untouched, Known, OldState, OldFiles
 <2>6. files'[MainDb] # "new" BY <2>5, NamesAreApart DEF OldState, NamesDiffer
 <2>7. WayBack' BY <1>1, <1>4, <2>1, <2>3, <2>5, <2>6 DEF WayBack, TakeBackup, Untouched, Known
 <2> QED BY <1>2, <2>1, <2>4, <2>7 DEF MigInv
<1> QED BY <1>1, <1>3, <1>4 DEF TakeBackup

--------------------------------------------------
(* With a complete backup: from FindMain to the drop. *)
LEMMA OnTheWay ==
  ASSUME MigInv, at \in {"main"} \cup Restore \cup Moving \cup MainMoved
  PROVE  backup.complete /\ WayBack /\ MigTypes /\ OldFilesStand
BY DEF MigInv, Untouched, AllMoved, Restore, Moving, MainMoved

LEMMA SameOriginal == UNCHANGED Known => OldState' = OldState
BY DEF Known, OldState, OldFiles

LEMMA OriginalIs ==
  ASSUME MigTypes
  PROVE  /\ OldState \in [Names -> {"none", "old"}]
         /\ layout \in {"main", "both"} =>
              /\ OldState[MainDb] = "old"
              /\ \A w \in OldWorkspaces : OldState[Db(w)] = "old"
         /\ layout \in {"getssh", "json"} =>
              /\ OldState[MainDb] = "none"
              /\ \A w \in OldWorkspaces : OldState[Db(w)] = "none"
         /\ layout = "both" => OldState[Getssh] = "old"
         /\ layout = "getssh" => OldState[Getssh] = "old"
         /\ layout \in {"main", "json"} => OldState[Getssh] = "none"
         /\ encrypted => OldState[AppKey] = "old"
<1> USE NamesAreApart DEF MigTypes, OldState, OldFiles, NamesDiffer
<1>1. OldState \in [Names -> {"none", "old"}] OBVIOUS
<1>2. layout \in {"main", "both"} => OldState[MainDb] = "old" /\ \A w \in OldWorkspaces : OldState[Db(w)] = "old"
 OBVIOUS
<1>3. layout \in {"getssh", "json"} => OldState[MainDb] = "none" /\ \A w \in OldWorkspaces : OldState[Db(w)] = "none"
 OBVIOUS
<1>4. /\ layout = "both" => OldState[Getssh] = "old"
      /\ layout = "getssh" => OldState[Getssh] = "old"
      /\ layout \in {"main", "json"} => OldState[Getssh] = "none"
      /\ encrypted => OldState[AppKey] = "old"
 OBVIOUS
<1> QED BY <1>1, <1>2, <1>3, <1>4

LEMMA FindMainKeeps == MigInv /\ FindMain => MigInv'
<1> SUFFICES ASSUME MigInv, FindMain PROVE MigInv'
 OBVIOUS
<1> USE NamesAreApart DEF FindMain, Goes
<1>1. backup.complete /\ WayBack /\ MigTypes /\ OldFilesStand /\ at = "main" BY OnTheWay
<1>2. MigTypes' /\ OldFilesStand'
 BY <1>1 DEF MigTypes, MigrationTypeOK, OldFilesStand, There, Known, Restoring, Restore, Present
<1>3. WayBack'
 <2> USE <1>1, SameOriginal DEF WayBack, Restore, Moving, MainMoved
 <2>1. CASE files[MainDb] = "new" BY <2>1 DEF Gathered, Listed, There, Known
 <2>2. CASE files[MainDb] # "new" /\ resumed
  BY <2>2 DEF Gathered, Listed, There, Known, Restoring
 <2>3. CASE files[MainDb] # "new" /\ ~resumed BY <2>3 DEF Gathered, Listed, There, Known
 <2> QED BY <2>1, <2>2, <2>3
<1> QED BY <1>1, <1>2, <1>3 DEF MigInv, FindMain

LEMMA RestoreKeeps == MigInv /\ RestoreBackup => MigInv'
<1> SUFFICES ASSUME MigInv, RestoreBackup PROVE MigInv'
 OBVIOUS
<1> USE NamesAreApart DEF Goes
<1>1. backup.complete /\ WayBack /\ MigTypes /\ OldFilesStand /\ at \in Restore
 BY OnTheWay DEF RestoreBackup, Restore
<1>2. backup' = backup /\ UNCHANGED Known /\ OldState' = OldState /\ backup.has = OldState
 BY <1>1, SameOriginal DEF RestoreBackup, WayBack
<1>3. ASSUME NEW n \in FirstMade, files' = [files EXCEPT ![n] = "none"],
             imported' = IF n = MainDb THEN {} ELSE imported,
             UNCHANGED <<todo, at, erred, faults>>
      PROVE  MigInv'
 <2>1. n \in Databases /\ There(files, n) /\ ~There(backup.has, n) BY <1>3 DEF FirstMade, Made
 <2>2. n \in Names BY <2>1 DEF Names
 <2>3. n # MainDb => MainDb \notin Made \/ n = Migrated BY <1>3 DEF FirstMade
 <2>4. layout \in {"main", "both"} => n # MainDb /\ \A w \in OldWorkspaces : n # Db(w)
  BY <1>1, <1>2, <2>1, OriginalIs DEF There
 <2>5. layout = "both" => n # Getssh BY <1>1, <1>2, <2>1, OriginalIs DEF There
 <2>6. n # AppKey BY <2>1 DEF Databases, NamesDiffer
 <2>7. MigTypes'
  BY <1>1, <1>3, <2>2 DEF RestoreBackup, MigTypes, MigrationTypeOK, Known, Restore
 <2>8. OldFilesStand'
  BY <1>1, <1>2, <1>3, <2>4, <2>5, <2>6 DEF RestoreBackup, MigTypes, MigrationTypeOK, OldFilesStand, There, Known, NamesDiffer
 <2>9. files'[MainDb] = "new" => Gathered'
  <3> SUFFICES ASSUME files'[MainDb] = "new" PROVE Gathered'
   OBVIOUS
  <3>1. n # MainDb /\ files[MainDb] = "new"
   BY <1>1, <1>3, <2>2 DEF MigTypes, MigrationTypeOK, NamesDiffer
  <3>2. \A w \in OldWorkspaces : n # Db(w)
   BY <1>1, <1>2, <2>3, <2>4, <3>1, OriginalIs DEF Made, There, Databases, NamesDiffer, MigTypes
  <3>3. imported' = imported /\ UNCHANGED <<layout, cut>> BY <1>3, <3>1 DEF RestoreBackup, Known
  <3>4. Listed' = Listed /\ Listed \subseteq OldWorkspaces
   BY <1>1, <3>3 DEF Listed, MigTypes, MigrationTypeOK
  <3> QED BY <1>1, <1>3, <3>1, <3>2, <3>3, <3>4 DEF WayBack, Gathered, There, MigTypes, MigrationTypeOK, NamesDiffer
 <2>10. WayBack'
  BY <1>1, <1>2, <1>3, <2>1, <2>2, <2>9 DEF WayBack, RestoreBackup, Restore, Moving, MainMoved, There, Present, MigTypes, MigrationTypeOK
 <2> QED BY <1>1, <1>2, <2>7, <2>8, <2>10 DEF MigInv
<1>4. ASSUME NEW n \in todo, Made = {}, UNCHANGED <<at, imported>>, todo' = todo \ {n},
             \/ files' = [files EXCEPT ![n] = backup.has[n]] /\ UNCHANGED <<erred, faults>>
             \/ faults < MaxFaults /\ faults' = faults + 1 /\ erred' = TRUE /\ UNCHANGED files
      PROVE  MigInv'
 <2>1. n \in Names BY <1>1, <1>4 DEF MigTypes
 <2>2. n \in Names /\ backup.has[n] = "old" /\ OldState[n] = "old"
  BY <1>1, <1>2, <1>4 DEF WayBack, Present, There, MigTypes
 <2>3. files' = files \/ files' = [files EXCEPT ![n] = "old"] BY <1>4, <2>2
 <2>4. MigTypes'
  <3>1. faults' \in 0..MaxFaults BY <1>1, <1>4, MigrationConstants DEF MigTypes, MigrationTypeOK
  <3>3. erred' \in BOOLEAN BY <1>1, <1>4, Zenon DEF MigTypes
  <3>2. files' \in [Names -> {"none", "old", "new"}] BY <1>1, <2>3 DEF MigTypes, MigrationTypeOK
  <3> QED BY <1>1, <1>4, <2>1, <3>1, <3>2, <3>3 DEF RestoreBackup, MigTypes, MigrationTypeOK, Known, Restore
 <2>5. \A m \in Names : There(files, m) => There(files', m)
  BY <1>1, <2>2, <2>3 DEF There, MigTypes, MigrationTypeOK
 <2>6. OldFilesStand' BY <1>1, <2>5 DEF RestoreBackup, OldFilesStand, Known, NamesDiffer
 <2>7. files'[MainDb] = "new" => Gathered'
  <3> SUFFICES ASSUME files'[MainDb] = "new" PROVE Gathered'
   OBVIOUS
  <3>1. files[MainDb] = "new" BY <1>1, <2>3 DEF MigTypes, MigrationTypeOK, NamesDiffer
  <3>2. imported' = imported /\ UNCHANGED <<layout, cut>> BY <1>4 DEF RestoreBackup, Known
  <3>3. Listed' = Listed /\ Listed \subseteq OldWorkspaces
   BY <1>1, <3>2 DEF Listed, MigTypes, MigrationTypeOK
  <3> QED BY <1>1, <2>5, <3>1, <3>2, <3>3 DEF WayBack, Gathered, NamesDiffer
 <2>8. ~keyring => files' = files
  <3>1. files[n] = "old" => files' = files BY <1>1, <2>3 DEF MigTypes, MigrationTypeOK
  <3> QED BY <1>1, <2>2, <3>1 DEF WayBack
 <2>9. \A m \in Names \ Databases : files'[m] \in {"none", OldState[m]}
  BY <1>1, <2>2, <2>3 DEF WayBack, MigTypes, MigrationTypeOK
 <2>10. at = "putBack" => \A m \in Present(backup.has) : m \in todo' \/ files'[m] = "old" \/ erred'
  BY <1>1, <1>4, <2>2, <2>3 DEF WayBack, Present, MigTypes, MigrationTypeOK
 <2>11. WayBack' BY <1>1, <1>2, <1>4, <2>7, <2>8, <2>9, <2>10
  DEF WayBack, RestoreBackup, Restore, Moving, MainMoved, MigTypes, Present, There
 <2> QED BY <1>1, <1>2, <2>4, <2>6, <2>11 DEF MigInv
<1>5. ASSUME Made = {}, todo = {}, UNCHANGED <<files, imported, faults>>,
             IF at = "restoring" THEN Goes("down") /\ UNCHANGED <<todo, erred>>
             ELSE IF erred THEN Restoring("restoring")
             ELSE Goes("prepare") /\ UNCHANGED <<todo, erred>>
      PROVE  MigInv'
 <2>1. MigTypes'
  BY <1>1, <1>5 DEF RestoreBackup, MigTypes, MigrationTypeOK, Known, Restore, Restoring, Present
 <2>2. OldFilesStand' BY <1>1, <1>5 DEF RestoreBackup, OldFilesStand, Known, There
 <2>3. files'[MainDb] = "new" => Gathered'
  BY <1>1, <1>5 DEF RestoreBackup, WayBack, Known, Gathered, Listed, There
 <2>4. at' = "prepare" => files' = OldState
  <3> SUFFICES ASSUME at' = "prepare" PROVE files = OldState
   BY <1>5
  <3>1. at = "putBack" /\ ~erred BY <1>1, <1>5 DEF Restoring, Restore
  <3>2. \A n \in Names : OldState[n] = "old" => files[n] = "old"
   BY <1>1, <1>2, <1>5, <3>1 DEF WayBack, Present, There
  <3>3. \A n \in Databases : OldState[n] = "none" => files[n] = "none"
   BY <1>1, <1>2, <1>5 DEF Made, There
  <3>4. \A n \in Names \ Databases : OldState[n] = "none" => files[n] = "none"
   BY <1>1 DEF WayBack
  <3> QED BY <1>1, <3>2, <3>3, <3>4, OriginalIs DEF MigTypes, MigrationTypeOK
 <2>5. WayBack' BY <1>1, <1>2, <1>5, <2>3, <2>4
  DEF WayBack, RestoreBackup, Restore, Restoring, Moving, MainMoved, MigTypes, Present, There
 <2> QED BY <1>1, <1>2, <2>1, <2>2, <2>5 DEF MigInv
<1> QED BY <1>3, <1>4, <1>5 DEF RestoreBackup

LEMMA PrepareKeeps == MigInv /\ PrepareMain => MigInv'
<1> SUFFICES ASSUME MigInv, PrepareMain PROVE MigInv'
 OBVIOUS
<1> USE NamesAreApart DEF Goes
<1>1. backup.complete /\ WayBack /\ MigTypes /\ OldFilesStand /\ at = "prepare" /\ files = OldState /\ moved = {}
 <2>1. at = "prepare" BY DEF PrepareMain
 <2> QED BY <2>1, OnTheWay DEF WayBack, Moving
<1>2. backup' = backup /\ OldState' = OldState BY SameOriginal DEF PrepareMain
<1>3. CASE There(files, MainDb)
 <2>1. layout \in {"main", "both"} /\ files[MainDb] = "old"
  BY <1>1, <1>3, OriginalIs DEF There, MigTypes
 <2>2. Gathered' BY <1>1, <1>3, <2>1, OriginalIs DEF PrepareMain, Gathered, Listed, There, Known
 <2>3. MigTypes' /\ OldFilesStand'
  BY <1>1, <1>3 DEF PrepareMain, MigTypes, MigrationTypeOK, OldFilesStand, Known, Restore, There
 <2>4. WayBack'
  BY <1>1, <1>2, <1>3, <2>1, <2>2 DEF PrepareMain, WayBack, Restore, Moving, MainMoved, Known
 <2> QED BY <1>1, <1>2, <2>3, <2>4 DEF MigInv
<1>4. CASE ~There(files, MainDb) /\ There(files, Getssh)
 <2>1. layout = "getssh" /\ files[MainDb] = "none" BY <1>1, <1>4, OriginalIs DEF There, MigTypes
 <2>2. MigTypes' /\ OldFilesStand'
  BY <1>1, <1>4, <2>1 DEF PrepareMain, MigTypes, MigrationTypeOK, OldFilesStand, Known, Restore, There
 <2>3. WayBack'
  BY <1>1, <1>2, <1>4, <2>1 DEF PrepareMain, WayBack, Restore, Moving, MainMoved, Known
 <2> QED BY <1>1, <1>2, <2>2, <2>3 DEF MigInv
<1>5. CASE ~There(files, MainDb) /\ ~There(files, Getssh)
 <2>1. layout = "json" /\ files[MainDb] = "none" BY <1>1, <1>5, OriginalIs DEF There, MigTypes
 <2>2. MigTypes' /\ OldFilesStand'
  BY <1>1, <1>5, <2>1 DEF PrepareMain, MigTypes, MigrationTypeOK, OldFilesStand, Known, Restore, There
 <2>3. files'[MainDb] = "old" /\ \A n \in Names \ Databases : files'[n] = files[n]
  BY <1>1, <1>5 DEF PrepareMain, Databases, MigTypes, MigrationTypeOK, NamesDiffer
 <2>4. WayBack'
  BY <1>1, <1>2, <1>5, <2>1, <2>3 DEF PrepareMain, WayBack, Restore, Moving, MainMoved, Known
 <2> QED BY <1>1, <1>2, <2>2, <2>4 DEF MigInv
<1> QED BY <1>3, <1>4, <1>5

LEMMA SplitKeeps == MigInv /\ Split => MigInv'
<1> SUFFICES ASSUME MigInv, Split PROVE MigInv'
 OBVIOUS
<1> USE NamesAreApart DEF Goes
<1>1. backup.complete /\ WayBack /\ MigTypes /\ OldFilesStand /\ at = "split" /\ layout = "getssh"
 <2>1. at = "split" BY DEF Split
 <2> QED BY <2>1, OnTheWay DEF WayBack, Moving
<1>2. backup' = backup /\ OldState' = OldState /\ UNCHANGED Known BY SameOriginal DEF Split
<1>3. OldFilesStand' BY <1>1, <1>2 DEF OldFilesStand, Known
<1>4. ASSUME NEW w \in todo, files' = [files EXCEPT ![Db(w)] = "old"], todo' = todo \ {w}, UNCHANGED at
      PROVE  MigInv'
 <2>1. w \in OldWorkspaces BY <1>1 DEF MigTypes
 <2>2. MigTypes' BY <1>1, <1>4, <2>1 DEF Split, MigTypes, MigrationTypeOK, Known, Restore
 <2>3. \A v \in OldWorkspaces : v \in todo' \/ There(files', Db(v))
  BY <1>1, <1>4 DEF WayBack, There, MigTypes, MigrationTypeOK, NamesDiffer
 <2>4. files'[MainDb] = "none" /\ \A n \in Names \ Databases : files'[n] = files[n]
  BY <1>1, <1>4, <2>1 DEF WayBack, MigTypes, MigrationTypeOK, NamesDiffer
 <2>5. WayBack'
  BY <1>1, <1>2, <1>4, <2>3, <2>4 DEF Split, WayBack, Restore, Moving, MainMoved, Known
 <2> QED BY <1>1, <1>2, <1>3, <2>2, <2>5 DEF MigInv
<1>5. ASSUME todo = {}, UNCHANGED <<todo, at>>, files' = [files EXCEPT ![Getssh] = "none", ![Migrated] = "old"]
      PROVE  MigInv'
 <2>1. MigTypes' BY <1>1, <1>5 DEF Split, MigTypes, MigrationTypeOK, Known, Restore
 <2>2. \A v \in OldWorkspaces : There(files', Db(v))
  BY <1>1, <1>5 DEF WayBack, There, MigTypes, MigrationTypeOK, NamesDiffer
 <2>3. files'[MainDb] = "none" /\ \A n \in Names \ Databases : files'[n] = files[n]
  BY <1>1, <1>5 DEF WayBack, MigTypes, MigrationTypeOK, NamesDiffer, Databases
 <2>4. WayBack'
  BY <1>1, <1>2, <1>5, <2>2, <2>3 DEF Split, WayBack, Restore, Moving, MainMoved, Known
 <2> QED BY <1>1, <1>2, <1>3, <2>1, <2>4 DEF MigInv
<1>6. ASSUME todo = {}, at' = "move", UNCHANGED todo, files' = [files EXCEPT ![MainDb] = "old"]
      PROVE  MigInv'
 <2>1. MigTypes' BY <1>1, <1>6 DEF Split, MigTypes, MigrationTypeOK, Known, Restore
 <2>2. Gathered'
  BY <1>1, <1>2, <1>6 DEF WayBack, Gathered, Listed, There, MigTypes, MigrationTypeOK, NamesDiffer, Known
 <2>3. files'[MainDb] = "old" /\ \A n \in Names \ Databases : files'[n] = files[n]
  BY <1>1, <1>6 DEF WayBack, MigTypes, MigrationTypeOK, NamesDiffer, Databases
 <2>4. WayBack'
  BY <1>1, <1>2, <1>6, <2>2, <2>3 DEF Split, WayBack, Restore, Moving, MainMoved, Known
 <2> QED BY <1>1, <1>2, <1>3, <2>1, <2>4 DEF MigInv
<1> QED BY <1>4, <1>5, <1>6 DEF Split

LEMMA ImportKeeps == MigInv /\ ImportJson => MigInv'
<1> SUFFICES ASSUME MigInv, ImportJson PROVE MigInv'
 OBVIOUS
<1> USE NamesAreApart DEF Goes
<1>1. backup.complete /\ WayBack /\ MigTypes /\ OldFilesStand /\ at = "import" /\ layout = "json"
 <2>1. at = "import" BY DEF ImportJson
 <2> QED BY <2>1, OnTheWay DEF WayBack, Moving
<1>2. backup' = backup /\ OldState' = OldState /\ UNCHANGED Known BY SameOriginal DEF ImportJson
<1>3. OldFilesStand' BY <1>1, <1>2 DEF OldFilesStand, Known
<1>4. ASSUME NEW w \in todo, imported' = imported \cup {w}, todo' = todo \ {w},
             files' = [files EXCEPT ![Db(w)] = "old"], UNCHANGED <<at, cut, faults>>
      PROVE  MigInv'
 <2>1. w \in OldWorkspaces BY <1>1 DEF MigTypes
 <2>2. MigTypes' BY <1>1, <1>4, <2>1 DEF ImportJson, MigTypes, MigrationTypeOK, Known, Restore
 <2>3. \A v \in imported' : There(files', Db(v))
  BY <1>1, <1>4, <2>1 DEF WayBack, There, MigTypes, MigrationTypeOK, NamesDiffer
 <2>4. files'[MainDb] = "old" /\ \A n \in Names \ Databases : files'[n] = files[n]
  BY <1>1, <1>4, <2>1 DEF WayBack, MigTypes, MigrationTypeOK, NamesDiffer
 <2>5. WayBack'
  BY ZenonT(60), <1>1, <1>2, <1>4, <2>1, <2>3, <2>4 DEF ImportJson, WayBack, Restore, Moving, MainMoved, Known
 <2> QED BY <1>1, <1>2, <1>3, <2>2, <2>5 DEF MigInv
<1>5. ASSUME todo = {}, at' = "move", UNCHANGED <<files, imported, todo, cut, faults>>
      PROVE  MigInv'
 <2>1. MigTypes' BY <1>1, <1>5 DEF ImportJson, MigTypes, MigrationTypeOK, Known, Restore
 <2>2. Gathered' BY <1>1, <1>2, <1>5 DEF WayBack, Gathered, Listed, There, Known
 <2>3. WayBack'
  BY <1>1, <1>2, <1>5, <2>2 DEF ImportJson, WayBack, Restore, Moving, MainMoved, Known
 <2> QED BY <1>1, <1>2, <1>3, <2>1, <2>3 DEF MigInv
<1>6. ASSUME faults < MaxFaults, faults' = faults + 1, cut' = TRUE, at' = "move", UNCHANGED <<files, todo>>,
             imported' \in {imported} \cup {imported \cup {w} : w \in todo}
      PROVE  MigInv'
 <2>1. faults' \in 0..MaxFaults BY <1>1, <1>6, MigrationConstants DEF MigTypes, MigrationTypeOK
 <2>2. MigTypes' BY <1>1, <1>6, <2>1 DEF ImportJson, MigTypes, MigrationTypeOK, Known, Restore
 <2>3. Gathered' BY <1>6 DEF Gathered
 <2>4. WayBack'
  BY <1>1, <1>2, <1>6, <2>3 DEF ImportJson, WayBack, Restore, Moving, MainMoved, Known
 <2> QED BY <1>1, <1>2, <1>3, <2>2, <2>4 DEF MigInv
<1> QED BY <1>4, <1>5, <1>6 DEF ImportJson

LEMMA MoveKeeps == MigInv /\ MoveMain => MigInv'
<1> SUFFICES ASSUME MigInv, MoveMain PROVE MigInv'
 OBVIOUS
<1> USE NamesAreApart DEF Goes
<1>1. backup.complete /\ WayBack /\ MigTypes /\ OldFilesStand /\ at = "move"
 <2>1. at = "move" BY DEF MoveMain
 <2> QED BY <2>1, OnTheWay DEF Moving
<1>2. backup' = backup /\ OldState' = OldState /\ UNCHANGED Known BY SameOriginal DEF MoveMain
<1>3. /\ files'[MainDb] = "new"
      /\ \A n \in Names \ {MainDb} : files'[n] = files[n]
      /\ MainDb \in Databases
 BY <1>1 DEF MoveMain, MigTypes, MigrationTypeOK, NamesDiffer, Databases
<1>4. MigTypes' BY <1>1 DEF MoveMain, MigTypes, MigrationTypeOK, Known, Restore
<1>5. OldFilesStand' BY <1>1, <1>2, <1>3 DEF MoveMain, OldFilesStand, There, Known, NamesDiffer
<1>6. Gathered' /\ Listed' = Listed
 BY <1>1, <1>2, <1>3 DEF MoveMain, WayBack, Gathered, Listed, There, Known, NamesDiffer, MigTypes, MigrationTypeOK
<1>7. WayBack' BY <1>1, <1>2, <1>3, <1>6 DEF MoveMain, WayBack, Restore, Moving, MainMoved
<1> QED BY <1>1, <1>2, <1>4, <1>5, <1>7 DEF MigInv

LEMMA MarkKeeps == MigInv /\ MarkAdopting => MigInv'
<1> SUFFICES ASSUME MigInv, MarkAdopting PROVE MigInv'
 OBVIOUS
<1> USE NamesAreApart DEF Goes
<1>1. backup.complete /\ WayBack /\ MigTypes /\ OldFilesStand /\ at = "mark"
 <2>1. at = "mark" BY DEF MarkAdopting
 <2> QED BY <2>1, OnTheWay DEF MainMoved
<1>2. backup' = backup /\ OldState' = OldState /\ UNCHANGED Known
 BY SameOriginal DEF MarkAdopting
<1>3. Listed' = Listed /\ Listed \subseteq OldWorkspaces
 BY <1>1, <1>2 DEF MarkAdopting, Listed, Known, MigTypes, MigrationTypeOK
<1>4. MigTypes' /\ OldFilesStand'
 BY <1>1, <1>2, <1>3 DEF MarkAdopting, MigTypes, MigrationTypeOK, OldFilesStand, There, Known, Restore
<1>5. Gathered' BY <1>1, <1>2, <1>3 DEF MarkAdopting, WayBack, Gathered, There, Known, MainMoved
<1>6. WayBack' BY <1>1, <1>2, <1>3, <1>5 DEF MarkAdopting, WayBack, Restore, Moving, MainMoved
<1> QED BY <1>1, <1>2, <1>4, <1>6 DEF MigInv

LEMMA RowKeeps == MigInv /\ MigrateRow => MigInv'
<1> SUFFICES ASSUME MigInv, MigrateRow PROVE MigInv'
 OBVIOUS
<1> USE NamesAreApart DEF Goes
<1>1. backup.complete /\ WayBack /\ MigTypes /\ OldFilesStand /\ at = "rows"
 <2>1. at = "rows" BY DEF MigrateRow
 <2> QED BY <2>1, OnTheWay DEF MainMoved
<1>2. backup' = backup /\ OldState' = OldState /\ UNCHANGED Known BY SameOriginal DEF MigrateRow
<1>3. Listed' = Listed /\ Listed \subseteq OldWorkspaces
 BY <1>1, <1>2 DEF MigrateRow, Listed, Known, MigTypes, MigrationTypeOK
<1>4. ASSUME NEW w \in todo, todo' = todo \ {w}, UNCHANGED at,
             \/ /\ files' = [files EXCEPT ![Db(w)] = IF @ = "none" THEN "none" ELSE "new"]
                /\ moved' = moved \cup {w} /\ UNCHANGED <<left, faults>>
             \/ /\ Vaulted(w) /\ ~There(files, Vault(w))
                /\ left' = left \cup {w} /\ UNCHANGED <<files, moved, faults>>
             \/ /\ faults < MaxFaults /\ faults' = faults + 1
                /\ left' = left \cup {w} /\ UNCHANGED <<files, moved>>
      PROVE  MigInv'
 <2>1. w \in OldWorkspaces BY <1>1 DEF MigTypes
 <2>2. faults' \in 0..MaxFaults BY <1>1, <1>4, MigrationConstants DEF MigTypes, MigrationTypeOK
 <2>3. files' \in [Names -> {"none", "old", "new"}] BY <1>1, <1>4 DEF MigTypes, MigrationTypeOK
 <2>4. /\ \A n \in Names : There(files', n) <=> There(files, n)
       /\ \A n \in Names : n # Db(w) => files'[n] = files[n]
       /\ files'[Db(w)] = "old" => files[Db(w)] = "old"
  BY <1>1, <1>4, <2>1 DEF MigTypes, MigrationTypeOK, There, NamesDiffer
 <2>5. MigTypes'
  BY <1>1, <1>4, <2>2, <2>3 DEF MigrateRow, MigTypes, Known, MigrationTypeOK, Restore
 <2>6. OldFilesStand' BY <1>1, <1>2, <2>4 DEF MigrateRow, OldFilesStand, Known, NamesDiffer
 <2>7. \A v \in Listed' : v \in todo' \/ Row(v)'
  <3>1. \A v \in Listed : Row(v) => Row(v)' BY <1>1, <1>3, <1>4, <2>4 DEF Row, NamesDiffer
  <3>2. Row(w)' BY <1>1, <1>4, <2>1 DEF Row, MigTypes, MigrationTypeOK, NamesDiffer
  <3> QED BY <1>1, <1>3, <1>4, <3>1, <3>2 DEF WayBack
 <2>8. Gathered'
  BY <1>1, <1>2, <1>3, <2>4 DEF MigrateRow, WayBack, Gathered, MainMoved, Known, NamesDiffer
 <2>9. moved' \subseteq Listed' /\ todo' \subseteq Listed'
  BY <1>1, <1>3, <1>4 DEF WayBack, MainMoved
 <2>10. files'[MainDb] = "new" /\ \A n \in Names \ Databases : files'[n] = files[n]
  BY <1>1, <2>1, <2>4 DEF WayBack, MainMoved, NamesDiffer
 <2>11. WayBack'
  BY <1>1, <1>2, <1>4, <2>7, <2>8, <2>9, <2>10 DEF MigrateRow, WayBack, Restore, Moving, MainMoved
 <2> QED BY <1>1, <1>2, <2>5, <2>6, <2>11 DEF MigInv
<1>5. ASSUME todo = {}, at' = "flags", UNCHANGED <<todo, files, moved, left, faults>>
      PROVE  MigInv'
 <2>1. MigTypes' /\ OldFilesStand'
  BY <1>1, <1>2, <1>5 DEF MigrateRow, MigTypes, MigrationTypeOK, OldFilesStand, There, Known, Restore
 <2>2. Gathered'
  BY <1>1, <1>2, <1>3, <1>5 DEF MigrateRow, WayBack, Gathered, There, Known, MainMoved
 <2>3. WayBack'
  BY <1>1, <1>2, <1>3, <1>5, <2>2 DEF MigrateRow, WayBack, Restore, Moving, MainMoved, Row
 <2> QED BY <1>1, <1>2, <2>1, <2>3 DEF MigInv
<1> QED BY <1>4, <1>5 DEF MigrateRow

LEMMA VaultsKeep == MigInv /\ RemoveVaults => MigInv'
<1> SUFFICES ASSUME MigInv, RemoveVaults PROVE MigInv'
 OBVIOUS
<1> USE NamesAreApart DEF Goes
<1>1. backup.complete /\ WayBack /\ MigTypes /\ OldFilesStand /\ at \in {"flags", "vaults"}
 <2>1. at \in {"flags", "vaults"} BY DEF RemoveVaults
 <2> QED BY <2>1, OnTheWay DEF MainMoved
<1>2. backup' = backup /\ OldState' = OldState /\ UNCHANGED Known
 BY SameOriginal DEF RemoveVaults
<1>3. Listed' = Listed /\ Listed \subseteq OldWorkspaces /\ moved \subseteq Listed
 BY <1>1, <1>2 DEF RemoveVaults, Listed, Known, MigTypes, MigrationTypeOK, WayBack, MainMoved
<1>4. ASSUME at = "flags", at' = "vaults", todo' = {w \in moved : There(files, Vault(w))}, UNCHANGED files
      PROVE  MigInv'
 <2>1. MigTypes' /\ OldFilesStand'
  BY <1>1, <1>2, <1>3, <1>4 DEF RemoveVaults, MigTypes, MigrationTypeOK, OldFilesStand, There, Known, Restore
 <2>2. Gathered' /\ \A w \in Listed' : Row(w)'
  BY <1>1, <1>2, <1>3, <1>4 DEF RemoveVaults, WayBack, Gathered, There, Known, MainMoved, Row
 <2>3. \A w \in moved' : There(files', Vault(w)) => w \in todo' BY <1>4 DEF RemoveVaults
 <2>4. WayBack'
  BY <1>1, <1>2, <1>3, <1>4, <2>2, <2>3 DEF RemoveVaults, WayBack, Restore, Moving, MainMoved
 <2> QED BY <1>1, <1>2, <2>1, <2>4 DEF MigInv
<1>5. ASSUME at = "vaults", UNCHANGED at, NEW w \in todo,
             files' = [files EXCEPT ![Vault(w)] = "none"], todo' = todo \ {w}
      PROVE  MigInv'
 <2>1. w \in OldWorkspaces BY <1>1, <1>5 DEF MigTypes
 <2>2. /\ files' \in [Names -> {"none", "old", "new"}]
       /\ \A n \in Names : n # Vault(w) => files'[n] = files[n]
       /\ files'[Vault(w)] = "none"
  BY <1>1, <1>5, <2>1 DEF MigTypes, MigrationTypeOK, NamesDiffer
 <2>3. MigTypes' BY <1>1, <1>5, <2>2 DEF RemoveVaults, MigTypes, MigrationTypeOK, Known, Restore
 <2>4. OldFilesStand'
  BY <1>1, <1>2, <2>2 DEF RemoveVaults, OldFilesStand, Known, NamesDiffer, There
 <2>5. Gathered' /\ \A v \in Listed' : Row(v)'
  <3>1. \A v \in Listed : files'[Db(v)] = files[Db(v)] BY <1>3, <2>2 DEF NamesDiffer
  <3> QED BY <1>1, <1>2, <1>3, <1>5, <3>1 DEF RemoveVaults, WayBack, Gathered, There, Known, MainMoved, Row
 <2>6. \A v \in moved' : There(files', Vault(v)) => v \in todo'
  BY <1>1, <1>3, <1>5, <2>2 DEF RemoveVaults, WayBack, MainMoved, There, NamesDiffer
 <2>7. files'[MainDb] = "new" /\ \A n \in Names \ Databases : files'[n] \in {"none", files[n]}
  BY <1>1, <2>2 DEF WayBack, MainMoved, NamesDiffer
 <2>8. WayBack'
  BY <1>1, <1>2, <1>3, <1>5, <2>5, <2>6, <2>7 DEF RemoveVaults, WayBack, Restore, Moving, MainMoved
 <2> QED BY <1>1, <1>2, <2>3, <2>4, <2>8 DEF MigInv
<1>6. ASSUME at = "vaults", todo = {}, at' = "keys", UNCHANGED <<todo, files>>
      PROVE  MigInv'
 <2>1. MigTypes' /\ OldFilesStand'
  BY <1>1, <1>2, <1>3, <1>6 DEF RemoveVaults, MigTypes, MigrationTypeOK, OldFilesStand, There, Known, Restore
 <2>2. Gathered' /\ \A w \in Listed' : Row(w)'
  BY <1>1, <1>2, <1>3, <1>6 DEF RemoveVaults, WayBack, Gathered, There, Known, MainMoved, Row
 <2>3. \A w \in moved' : ~There(files', Vault(w)) BY <1>1, <1>6 DEF RemoveVaults, WayBack, There
 <2>4. WayBack'
  BY <1>1, <1>2, <1>3, <1>6, <2>2, <2>3 DEF RemoveVaults, WayBack, Restore, Moving, MainMoved
 <2> QED BY <1>1, <1>2, <2>1, <2>4 DEF MigInv
<1> QED BY <1>4, <1>5, <1>6 DEF RemoveVaults

(* Behind the rows: what the end of the migration takes away. *)
LEMMA EndKeeps ==
  ASSUME MigInv, at \in {"keys", "migrated"}, NEW n \in {AppKey, Getssh, Migrated},
         files' = [files EXCEPT ![n] = "none"],
         kept' \in {kept, kept \cup {n}}, kept' \subseteq {AppKey, Getssh},
         at' \in {at, "migrated", "drop"},
         UNCHANGED <<Known, imported, backup, keyring, todo, resumed, erred, moved, left, cut, faults>>,
         at' # "keys" => ~There(files', AppKey) /\ ~There(files', Getssh),
         at' = "drop" => ~There(files', Migrated),
         layout = "both" /\ n = Getssh => n \in kept' /\ (encrypted => AppKey \in kept'),
         layout = "both" /\ n = AppKey /\ encrypted => n \in kept'
  PROVE  MigInv'
<1> USE NamesAreApart
<1>1. backup.complete /\ WayBack /\ MigTypes /\ OldFilesStand BY OnTheWay DEF MainMoved
<1>2. backup' = backup /\ OldState' = OldState BY SameOriginal
<1>3. Listed' = Listed /\ Listed \subseteq OldWorkspaces /\ moved \subseteq Listed
 BY <1>1 DEF Listed, Known, MigTypes, MigrationTypeOK, WayBack, MainMoved
<1>4. /\ files' \in [Names -> {"none", "old", "new"}] /\ n \in Names
      /\ \A m \in Names : m # n => files'[m] = files[m]
      /\ files'[n] = "none"
 BY <1>1 DEF MigTypes, MigrationTypeOK, NamesDiffer
<1>5. MigTypes' BY <1>1, <1>4 DEF MigTypes, MigrationTypeOK, Known, Restore
<1>6. OldFilesStand' BY <1>1, <1>4 DEF OldFilesStand, Known, NamesDiffer, There
<1>7. /\ \A w \in Listed : files'[Db(w)] = files[Db(w)] /\ files'[Vault(w)] = files[Vault(w)]
      /\ files'[MainDb] = files[MainDb]
 BY <1>3, <1>4 DEF NamesDiffer
<1>8. Gathered' /\ \A w \in Listed' : Row(w)'
 BY <1>1, <1>3, <1>7 DEF WayBack, Gathered, There, Known, MainMoved, Row
<1>9. \A w \in moved' : ~There(files', Vault(w)) BY <1>1, <1>3, <1>7 DEF WayBack, There
<1>10. \A m \in Names \ Databases : files'[m] \in {"none", files[m]} BY <1>4
<1>11. at' \in {"keys", "migrated", "drop"} OBVIOUS
<1>12. WayBack'
 BY <1>1, <1>2, <1>3, <1>7, <1>8, <1>9, <1>10, <1>11 DEF WayBack, Restore, Moving, MainMoved
<1> QED BY <1>1, <1>2, <1>5, <1>6, <1>12 DEF MigInv

LEMMA KeysKeep == MigInv /\ KeepOrRemoveKeys => MigInv'
<1> SUFFICES ASSUME MigInv, KeepOrRemoveKeys PROVE MigInv'
 OBVIOUS
<1> USE NamesAreApart DEF Goes, KeepAway
<1>1. at = "keys" /\ MigTypes /\ OldFilesStand BY OnTheWay DEF KeepOrRemoveKeys, MainMoved
<1>2. CASE There(files, Getssh) /\ There(files, AppKey)
 <2>1. files' = [files EXCEPT ![AppKey] = "none"] /\ kept' = kept \cup {AppKey} /\ at' = at
  BY <1>2 DEF KeepOrRemoveKeys
 <2> QED BY <1>1, <1>2, <2>1, EndKeeps DEF KeepOrRemoveKeys, MigTypes, MigrationTypeOK, NamesDiffer
<1>3. CASE There(files, Getssh) /\ ~There(files, AppKey)
 <2>1. files' = [files EXCEPT ![Getssh] = "none"] /\ kept' = kept \cup {Getssh} /\ at' = "migrated"
  BY <1>3 DEF KeepOrRemoveKeys
 <2>2. ~There(files', AppKey) /\ ~There(files', Getssh)
  BY <1>1, <1>3, <2>1 DEF There, MigTypes, MigrationTypeOK, NamesDiffer
 <2>3. layout = "both" /\ encrypted => AppKey \in kept' BY <1>1, <1>3, <2>1 DEF OldFilesStand
 <2> QED BY <1>1, <1>3, <2>1, <2>2, <2>3, EndKeeps DEF KeepOrRemoveKeys, MigTypes, MigrationTypeOK, NamesDiffer
<1>4. CASE ~There(files, Getssh)
 <2>1. files' = [files EXCEPT ![AppKey] = "none"] /\ kept' = kept /\ at' = "migrated"
  BY <1>4 DEF KeepOrRemoveKeys
 <2>2. ~There(files', AppKey) /\ ~There(files', Getssh)
  BY <1>1, <1>4, <2>1 DEF There, MigTypes, MigrationTypeOK, NamesDiffer
 <2>3. layout = "both" /\ encrypted => AppKey \in kept' BY <1>1, <1>4, <2>1 DEF OldFilesStand
 <2> QED BY <1>1, <1>4, <2>1, <2>2, <2>3, EndKeeps DEF KeepOrRemoveKeys, MigTypes, MigrationTypeOK, NamesDiffer
<1> QED BY <1>2, <1>3, <1>4

LEMMA RemoveMigratedKeeps == MigInv /\ RemoveMigrated => MigInv'
<1> SUFFICES ASSUME MigInv, RemoveMigrated PROVE MigInv'
 OBVIOUS
<1> USE NamesAreApart DEF Goes
<1>1. at = "migrated" /\ MigTypes /\ WayBack BY OnTheWay DEF RemoveMigrated, MainMoved
<1>2. files' = [files EXCEPT ![Migrated] = "none"] /\ at' = "drop" /\ kept' = kept
 BY DEF RemoveMigrated
<1>3. ~There(files', AppKey) /\ ~There(files', Getssh) /\ ~There(files', Migrated)
 BY <1>1, <1>2 DEF WayBack, There, MigTypes, MigrationTypeOK, NamesDiffer
<1> QED BY <1>1, <1>2, <1>3, EndKeeps DEF RemoveMigrated, MigTypes, MigrationTypeOK, NamesDiffer

LEMMA DropKeeps == MigInv /\ DropBackup => MigInv'
<1> SUFFICES ASSUME MigInv, DropBackup PROVE MigInv'
 OBVIOUS
<1> USE NamesAreApart DEF Goes
<1>1. backup.complete /\ WayBack /\ MigTypes /\ OldFilesStand /\ at = "drop"
 BY OnTheWay DEF DropBackup, MainMoved
<1>2. Listed' = Listed /\ Listed \subseteq OldWorkspaces
 BY <1>1 DEF DropBackup, Listed, Known, MigTypes, MigrationTypeOK
<1>3. NoBackup \in [dir : BOOLEAN, complete : BOOLEAN, has : [Names -> {"none", "old"}]]
      /\ NoBackup.has \in [Names -> {"none", "old"}] /\ ~NoBackup.complete
 BY DEF NoBackup
<1>4. MigTypes' /\ OldFilesStand'
 BY <1>1, <1>3 DEF DropBackup, MigTypes, MigrationTypeOK, OldFilesStand, There, Known, Restore
<1>5. \A w \in Listed : \/ files[Db(w)] = "new" /\ (w \in left \/ ~There(files, Vault(w)))
                        \/ files[Db(w)] = "old" /\ w \in left
                        \/ cut /\ ~There(files, Db(w))
 BY <1>1, <1>2 DEF WayBack, Row, Gathered, MainMoved, There, MigTypes, MigrationTypeOK, NamesDiffer
<1>6. cut \/ Listed = OldWorkspaces BY <1>1 DEF WayBack, Gathered, MainMoved, Listed
<1>7. AllMoved'
 BY <1>1, <1>2, <1>5, <1>6 DEF DropBackup, AllMoved, WayBack, MainMoved, There, Known
<1> QED BY <1>3, <1>4, <1>7 DEF MigInv, DropBackup

LEMMA OpenKeeps == MigInv /\ OpenStore => MigInv'
<1> SUFFICES ASSUME MigInv, OpenStore PROVE MigInv'
 OBVIOUS
<1> USE NamesAreApart DEF Goes
<1>1. ~backup.complete /\ AllMoved /\ MigTypes /\ OldFilesStand
 BY DEF MigInv, OpenStore, WayBack, Untouched, Restore, Moving, MainMoved
<1>2. files' = files BY <1>1 DEF OpenStore, AllMoved, MigTypes, MigrationTypeOK
<1>3. MigTypes' BY <1>1, <1>2 DEF OpenStore, MigTypes, MigrationTypeOK, Known, Restore
<1>4. OldFilesStand' BY <1>1, <1>2 DEF OpenStore, OldFilesStand, There, Known
<1>5. AllMoved' BY <1>1, <1>2 DEF OpenStore, There, Known, AllMoved, Listed
<1> QED BY <1>1, <1>3, <1>4, <1>5 DEF MigInv, OpenStore

LEMMA StepFailsKeeps == MigInv /\ StepFails => MigInv'
<1> SUFFICES ASSUME MigInv, StepFails PROVE MigInv'
 OBVIOUS
<1> USE NamesAreApart DEF Goes
<1>1. MigTypes /\ OldFilesStand BY DEF MigInv
<1>2. faults' \in 0..MaxFaults
 BY <1>1, MigrationConstants DEF StepFails, MigTypes, MigrationTypeOK
<1>3. at \in MayFail \cup {"backup", "drop"} /\ UNCHANGED Known /\ OldState' = OldState
 BY SameOriginal DEF StepFails, Unreadable, MayFail
<1>4. at' \in {"restoring", "down"} /\ (at' = "restoring" => at \in MayFail /\ todo' = Present(backup.has) /\ ~erred')
 BY DEF StepFails, Restoring
<1>5. erred' \in BOOLEAN BY <1>1, Zenon DEF StepFails, Restoring, MigTypes
<1>6. MigTypes'
 BY <1>1, <1>2, <1>4, <1>5 DEF StepFails, MigTypes, MigrationTypeOK, Known, Restore, Present
<1>7. OldFilesStand' BY <1>1 DEF StepFails, OldFilesStand, Known, There
<1>8. CASE backup.complete
 <2>1. Gathered' <=> Gathered BY DEF StepFails, Known, Gathered, Listed, There
 <2>2. WayBack BY <1>8 DEF MigInv
 <2>3. ~keyring => at' \in {"down", "main", "restoring"} BY <1>4
 <2>4. WayBack'
  BY <1>3, <1>4, <2>1, <2>2, <2>3 DEF StepFails, WayBack, Restore, Moving, MainMoved
 <2> QED BY <1>6, <1>7, <1>8, <2>4 DEF MigInv, StepFails
<1>9. CASE ~backup.complete
 <2>1. Untouched /\ at = "backup" BY <1>3, <1>9 DEF MigInv, AllMoved, Untouched, MayFail
 <2>2. at' = "down" BY <1>4, <2>1 DEF MayFail
 <2>3. Untouched' BY <1>3, <2>1, <2>2 DEF StepFails, Untouched
 <2> QED BY <1>6, <1>7, <1>9, <2>3 DEF MigInv, StepFails
<1> QED BY <1>8, <1>9

LEMMA StopsKeeps == MigInv /\ Stops => MigInv'
<1> SUFFICES ASSUME MigInv, Stops PROVE MigInv'
 OBVIOUS
<1> USE NamesAreApart DEF Goes
<1>1. MigTypes /\ OldFilesStand BY DEF MigInv
<1>2. faults' \in 0..MaxFaults BY <1>1, MigrationConstants DEF Stops, MigTypes, MigrationTypeOK
<1>3. UNCHANGED Known /\ OldState' = OldState /\ at' = "down" BY SameOriginal DEF Stops
<1>4. MigTypes' /\ OldFilesStand'
 BY <1>1, <1>2 DEF Stops, MigTypes, MigrationTypeOK, Known, Restore, OldFilesStand, There
<1>5. CASE backup.complete
 <2>1. Gathered' <=> Gathered BY DEF Stops, Known, Gathered, Listed, There
 <2>2. WayBack BY <1>5 DEF MigInv
 <2>3. WayBack' BY <1>3, <2>1, <2>2 DEF Stops, WayBack, Restore, Moving, MainMoved
 <2> QED BY <1>4, <1>5, <2>3 DEF MigInv, Stops
<1>6. CASE ~backup.complete /\ Untouched
 <2>1. Untouched' BY <1>3, <1>6 DEF Stops, Untouched
 <2> QED BY <1>4, <1>6, <2>1 DEF MigInv, Stops
<1>7. CASE ~backup.complete /\ AllMoved
 <2>1. AllMoved' BY <1>3, <1>7 DEF Stops, AllMoved, Known, Listed, There
 <2> QED BY <1>4, <1>7, <2>1 DEF MigInv, Stops
<1> QED BY <1>5, <1>6, <1>7 DEF MigInv

--------------------------------------------------
LEMMA MigNext == MigInv /\ [MigrationNext]_migration => MigInv'
<1> SUFFICES ASSUME MigInv, [MigrationNext]_migration PROVE MigInv'
 OBVIOUS
<1>1. CASE UNCHANGED migration
 BY <1>1 DEF migration, MigInv, MigTypes, MigrationTypeOK, OldFilesStand, WayBack, Untouched, AllMoved,
      OldState, OldFiles, Gathered, Row, Listed, There, Present
<1>2. CASE MigrationStep
 BY <1>2, StartKeeps, BackupKeeps, FindMainKeeps, RestoreKeeps, PrepareKeeps, SplitKeeps, ImportKeeps,
    MoveKeeps, MarkKeeps, RowKeeps, VaultsKeep, KeysKeep, RemoveMigratedKeeps, DropKeeps, OpenKeeps
DEF MigrationStep
<1> QED BY <1>1, <1>2, StepFailsKeeps, StopsKeeps DEF MigrationNext

LEMMA MigThen == MigInv => MigrationTypeOK /\ NothingDestroyed /\ MovedWhole
<1> SUFFICES ASSUME MigInv PROVE MigrationTypeOK /\ NothingDestroyed /\ MovedWhole
 OBVIOUS
<1> USE NamesAreApart
<1>1. MigTypes /\ OldFilesStand /\ MigrationTypeOK BY DEF MigInv, MigTypes
<1>2. layout \in {"main", "both"} => \A w \in OldWorkspaces : Db(w) \in Everywhere
 BY <1>1 DEF OldFilesStand, Everywhere, Present, NamesDiffer
<1>3. CASE backup.complete
 <2>1. backup.has = OldState BY <1>3 DEF MigInv, WayBack
 <2>2. \A n \in Names : OldState[n] = "old" => n \in Everywhere
  BY <2>1 DEF Everywhere, Present, There
 <2>3. NothingDestroyed
  BY <1>1, <1>2, <2>2, OriginalIs DEF NothingDestroyed, Readable, MigTypes, NamesDiffer
 <2> QED BY <1>1, <1>3, <2>3 DEF MigInv, WayBack, MovedWhole, Restore, Moving, MainMoved
<1>4. CASE ~backup.complete /\ Untouched
 <2>1. \A n \in Names : OldState[n] = "old" => n \in Everywhere
  BY <1>4 DEF Untouched, Everywhere, Present, There
 <2>2. NothingDestroyed
  BY <1>1, <1>2, <2>1, OriginalIs DEF NothingDestroyed, Readable, MigTypes, NamesDiffer
 <2> QED BY <1>1, <1>4, <2>2 DEF Untouched, MovedWhole
<1>5. CASE ~backup.complete /\ AllMoved
 <2>1. layout = "both" => Readable(Getssh)
  BY <1>1 DEF OldFilesStand, Readable, Everywhere, Present, NamesDiffer
 <2>2. NothingDestroyed BY <1>2, <1>5, <2>1 DEF NothingDestroyed, AllMoved
 <2>3. MovedWhole BY <1>5 DEF MovedWhole, AllMoved, NeedsMigration, There, NoBackup
 <2> QED BY <1>1, <2>2, <2>3
<1> QED BY <1>3, <1>4, <1>5 DEF MigInv

--------------------------------------------------
(* The import of 2.0 *)

Ports == {"absent", "22", "default", "own"}
Rows == [Servers -> Ports]
Records == [file : Files \cup {NoFile}, dismissed : BOOLEAN, earlier : BOOLEAN, waiting : SUBSET Servers]
Saves == [list : Rows, sent : BOOLEAN, blind : SUBSET Servers]
ListAnswers == [list : Rows, sent : BOOLEAN, wanted : BOOLEAN]
Pasts == [imported : BOOLEAN, again : BOOLEAN, refused : Files \cup {NoFile}, loose : SUBSET Servers,
          unknown : SUBSET Servers, excused : SUBSET Servers, lost : SUBSET Servers]

ImpTypes ==
  /\ source \in Files \cup {NoFile}
  /\ profiles \in Rows /\ shown \in Rows
  /\ record \in Records
  /\ app \in {"starting", "ready"}
  /\ task \in [call : {"none", "automatic", "asked", "port"}, file : Files \cup {NoFile}, wanted : BOOLEAN]
  /\ saving \in Saves
  /\ answer \in ListAnswers
  /\ past \in Pasts

OneTask ==
  /\ task # NoTask => task.call # "none" /\ ~answer.sent
  /\ task.call \in {"automatic", "asked"} => task.file # NoFile
  /\ task.call = "automatic" => app = "starting"
  /\ app = "starting" =>
       /\ task.call \in {"none", "automatic"} /\ ~saving.sent /\ ~answer.sent
       /\ shown = Nobody /\ past.unknown = {}

OnceUnasked ==
  /\ past.imported => record.file # NoFile /\ (~record.dismissed \/ record.earlier)
  /\ past.imported \/ past.refused \in {NoFile, record.file}
  /\ task.call = "automatic" => ~past.imported /\ past.refused # task.file
  /\ ~past.again

Heard ==
  /\ past.unknown \subseteq past.excused \/ (answer.sent /\ answer.wanted)
  /\ saving.sent /\ answer.sent => past.unknown \subseteq past.excused
  /\ saving.sent => saving.blind \subseteq past.excused
  /\ past.lost \subseteq past.excused

Alike(l, m, S) == \A s \in Servers : l[s] = m[s] \/ s \in S
SameLists ==
  /\ app = "ready" /\ ~saving.sent => Alike(shown, profiles, past.excused \cup past.unknown)
  /\ saving.sent => Alike(saving.list, shown, past.excused \cup past.unknown)
  /\ saving.sent /\ (task # NoTask \/ answer.sent) =>
       Alike(saving.list, profiles, past.excused \cup past.unknown)
  /\ answer.sent /\ answer.wanted => Alike(answer.list, profiles, past.excused)

Owed == record.waiting \cup past.loose \cup past.excused
At22(l, S) == \A s \in Servers : l[s] = "22" => s \in S
Waiting ==
  /\ At22(profiles, Owed)
  /\ At22(shown, Owed \cup past.unknown)
  /\ saving.sent => At22(saving.list, Owed)
  /\ answer.sent /\ answer.wanted => At22(answer.list, Owed)

ImpInv == ImpTypes /\ OneTask /\ OnceUnasked /\ Heard /\ SameLists /\ Waiting
--------------------------------------------------
LEMMA ImpInit == ImportInit => ImpInv
<1> SUFFICES ASSUME ImportInit PROVE ImpInv
 OBVIOUS
<1> USE DEF ImportInit
<1>1. Nobody \in Rows /\ \A s \in Servers : Nobody[s] = "absent" BY DEF Nobody, Rows, Ports
<1>2. ImpTypes
 BY <1>1 DEF Pasts, Records, Saves, ListAnswers, ImpTypes, NoRecord, NoTask, NoList, NoAnswer, Unmarked
<1> HIDE DEF Nobody
<1>3. OneTask /\ OnceUnasked /\ Heard
 BY DEF OneTask, OnceUnasked, Heard, NoRecord, NoTask, NoList, NoAnswer, Unmarked
<1>4. SameLists /\ Waiting
 BY <1>1 DEF SameLists, Waiting, Alike, At22, NoRecord, NoTask, NoList, NoAnswer, Unmarked
<1> QED BY <1>2, <1>3, <1>4 DEF ImpInv

LEMMA AutomaticKeeps == ImpInv /\ AutomaticBegins => ImpInv'
<1> SUFFICES ASSUME ImpInv, AutomaticBegins PROVE ImpInv'
 OBVIOUS
<1>1. /\ ImpTypes /\ OneTask /\ OnceUnasked /\ Heard /\ SameLists /\ Waiting
      /\ app = "starting" /\ task = NoTask
      /\ UNCHANGED <<source, opens, profiles, record, saving, answer, steps, past>>
 BY DEF ImpInv, AutomaticBegins
<1>2. CASE ~Done(TRUE) /\ OpensNow(TRUE)
 <2>1. task' = [call |-> "automatic", file |-> source, wanted |-> TRUE] /\ app' = app /\ shown' = shown
  BY <1>2 DEF AutomaticBegins, Starts, Takes
 <2>2. ImpTypes' BY <1>1, <2>1 DEF Pasts, Records, Saves, ListAnswers, ImpTypes
 <2>3. OneTask' BY <1>1, <1>2, <2>1 DEF OneTask, OpensNow
 <2>4. OnceUnasked'
  BY <1>1, <1>2, <2>1 DEF Pasts, Records, Saves, ListAnswers, OnceUnasked, Done, Recorded, NoRecord, SameFile, OpensNow, ImpTypes
 <2>5. Heard' /\ SameLists' /\ Waiting'
  BY <1>1, <2>1 DEF OneTask, Heard, SameLists, Waiting, Alike, At22, Owed
 <2> QED BY <2>2, <2>3, <2>4, <2>5 DEF ImpInv
<1>3. CASE ~(~Done(TRUE) /\ OpensNow(TRUE))
 <2>1. app' = "ready" /\ shown' = profiles /\ task' = task BY <1>3 DEF AutomaticBegins
 <2>2. ImpTypes' /\ OneTask' /\ OnceUnasked' /\ Heard'
  BY <1>1, <2>1 DEF Pasts, Records, Saves, ListAnswers, ImpTypes, OneTask, OnceUnasked, Heard, NoTask
 <2>3. SameLists' /\ Waiting' BY <1>1, <2>1 DEF OneTask, SameLists, Waiting, Alike, At22, Owed
 <2> QED BY <2>2, <2>3 DEF ImpInv
<1> QED BY <1>2, <1>3

LEMMA AskKeeps == ImpInv /\ UserAsks => ImpInv'
<1> SUFFICES ASSUME ImpInv, UserAsks PROVE ImpInv'
 OBVIOUS
<1>1. /\ ImpTypes /\ OneTask /\ OnceUnasked /\ Heard /\ SameLists /\ Waiting
      /\ app = "ready" /\ task = NoTask /\ ~answer.sent /\ ~saving.sent /\ source # NoFile
      /\ task' = [call |-> "asked", file |-> source, wanted |-> TRUE]
      /\ UNCHANGED <<source, opens, profiles, record, app, shown, saving, answer, steps>>
 BY DEF ImpInv, UserAsks, Asking, Takes, OpensNow
<1>2. /\ past' = [past EXCEPT !.refused = NoFile] /\ past'.refused = NoFile
      /\ past'.unknown = past.unknown /\ past'.excused = past.excused /\ past'.loose = past.loose
      /\ past'.lost = past.lost /\ past'.imported = past.imported /\ past'.again = past.again
 BY <1>1 DEF Pasts, Records, Saves, ListAnswers, UserAsks, ImpTypes
<1>3. ImpTypes' BY <1>1, <1>2 DEF Pasts, Records, Saves, ListAnswers, ImpTypes
<1>4. OneTask' /\ OnceUnasked' /\ Heard' BY <1>1, <1>2 DEF OneTask, OnceUnasked, Heard
<1>5. SameLists' /\ Waiting' BY <1>1, <1>2 DEF SameLists, Waiting, Alike, At22, Owed
<1> QED BY <1>3, <1>4, <1>5 DEF ImpInv

LEMMA PortKeeps == ImpInv /\ PortBegins => ImpInv'
<1> SUFFICES ASSUME ImpInv, PortBegins PROVE ImpInv'
 OBVIOUS
<1>1. /\ ImpTypes /\ OneTask /\ OnceUnasked /\ Heard /\ SameLists /\ Waiting
      /\ app = "ready" /\ task = NoTask /\ ~answer.sent /\ ~saving.sent
      /\ task' = [call |-> "port", file |-> source, wanted |-> TRUE]
      /\ UNCHANGED <<source, opens, profiles, record, app, shown, saving, answer, steps, past>>
 BY DEF ImpInv, PortBegins, Asking, Takes
<1>2. ImpTypes' BY <1>1 DEF Pasts, Records, Saves, ListAnswers, ImpTypes
<1>3. OneTask' /\ OnceUnasked' /\ Heard' BY <1>1 DEF OneTask, OnceUnasked, Heard
<1>4. SameLists' /\ Waiting' BY <1>1 DEF SameLists, Waiting, Alike, At22, Owed
<1> QED BY <1>2, <1>3, <1>4 DEF ImpInv

LEMMA DismissKeeps == ImpInv /\ Dismiss => ImpInv'
<1> SUFFICES ASSUME ImpInv, Dismiss PROVE ImpInv'
 OBVIOUS
<1>1. /\ ImpTypes /\ OneTask /\ OnceUnasked /\ Heard /\ SameLists /\ Waiting
      /\ app = "ready" /\ task = NoTask /\ ~answer.sent /\ ~saving.sent /\ source # NoFile
      /\ UNCHANGED <<source, opens, profiles, app, task, shown, saving, answer, steps>>
 BY DEF ImpInv, Dismiss, Asking
<1>2. PICK earlier \in BOOLEAN : earlier = (Recorded /\ (~record.dismissed \/ record.earlier))
 OBVIOUS
<1>3. record' = [record EXCEPT !.file = source, !.dismissed = TRUE, !.earlier = earlier]
 BY <1>2 DEF Dismiss, Dismissed
<1>4. /\ past' = [past EXCEPT !.refused = source] /\ past'.refused = source
      /\ past'.unknown = past.unknown /\ past'.excused = past.excused /\ past'.loose = past.loose
      /\ past'.lost = past.lost /\ past'.imported = past.imported /\ past'.again = past.again
 BY <1>1 DEF Pasts, Records, Saves, ListAnswers, Dismiss, ImpTypes
<1>5. /\ record'.file = source /\ record'.waiting = record.waiting /\ record'.earlier = earlier
 BY <1>1, <1>3 DEF Pasts, Records, Saves, ListAnswers, ImpTypes
<1>6. ImpTypes' BY <1>1, <1>3, <1>4 DEF Pasts, Records, Saves, ListAnswers, ImpTypes
<1>7. past.imported => earlier
 <2>1. past.imported => record # NoRecord /\ (~record.dismissed \/ record.earlier)
  BY <1>1 DEF OnceUnasked, NoRecord
 <2> QED BY <1>2, <2>1, Zenon DEF Recorded
<1>8. OneTask' /\ OnceUnasked' /\ Heard'
 BY <1>1, <1>4, <1>5, <1>7 DEF OneTask, OnceUnasked, Heard, NoTask
<1>9. SameLists' /\ Waiting' BY <1>1, <1>4, <1>5 DEF SameLists, Waiting, Alike, At22, Owed
<1> QED BY <1>6, <1>8, <1>9 DEF ImpInv

(* A call ends that changed the rows of `changed`: what the window knows of it. *)
LEMMA EndKeepsLists ==
  ASSUME ImpInv, task # NoTask, NEW p, NEW changed \in SUBSET Servers, NEW done \in BOOLEAN,
         p \in Pasts,
         p.unknown = past.unknown, p.excused = past.excused, p.lost = past.lost,
         profiles' \in Rows, \A s \in Servers \ changed : profiles'[s] = profiles[s],
         Changed(p, changed, done), Answered(profiles', done)
  PROVE  /\ OneTask' /\ Heard' /\ SameLists'
         /\ past'.imported = p.imported /\ past'.again = p.again /\ past'.refused = p.refused
         /\ past'.loose = p.loose /\ p.excused \subseteq past'.excused
         /\ saving.sent => changed \subseteq past'.excused
         /\ app = "ready" => past'.unknown = past.unknown \cup changed
         /\ saving' \in Saves
         /\ saving'.list = saving.list /\ saving'.sent = saving.sent
         /\ answer' \in ListAnswers
         /\ answer'.sent /\ answer'.wanted => answer'.list = profiles'
         /\ shown' = (IF app = "starting" THEN profiles' ELSE shown)
         /\ past' \in Pasts
         /\ task' = NoTask /\ app' = "ready"
<1>1. ImpTypes /\ OneTask /\ Heard /\ SameLists /\ ~answer.sent /\ past.unknown \subseteq past.excused
 BY DEF ImpInv, OneTask, Heard
<1> DEFINE new == IF app = "ready" THEN changed ELSE {}
           pardoned == IF saving.sent \/ ~task.wanted \/ ~done THEN changed ELSE {}
<1>2. /\ past' = [p EXCEPT !.unknown = @ \cup new, !.excused = @ \cup pardoned]
      /\ saving' = IF saving.sent THEN [saving EXCEPT !.blind = @ \cup changed] ELSE saving
 BY DEF Changed
<1>3. new \subseteq changed /\ pardoned \subseteq changed
      /\ (saving.sent \/ ~task.wanted \/ ~done => pardoned = changed)
      /\ (app = "ready" => new = changed) /\ (app # "ready" => new = {})
 OBVIOUS
<1> HIDE DEF new, pardoned
<1>4. /\ past'.unknown = past.unknown \cup new /\ past'.excused = past.excused \cup pardoned
      /\ past'.lost = past.lost /\ past'.loose = p.loose
      /\ past'.imported = p.imported /\ past'.again = p.again /\ past'.refused = p.refused
      /\ past' \in Pasts
 BY <1>2, <1>3 DEF Pasts
<1>5. /\ saving'.list = saving.list /\ saving'.sent = saving.sent
      /\ saving.sent => saving'.blind = saving.blind \cup changed
      /\ saving' \in Saves
 BY <1>1, <1>2 DEF Pasts, Records, Saves, ListAnswers, ImpTypes
<1>6. /\ task' = NoTask /\ app' = "ready"
      /\ shown' = (IF app = "starting" THEN profiles' ELSE shown)
 BY DEF Answered
<1>7. CASE task.call = "automatic"
 <2>1. answer' = answer /\ app = "starting" /\ ~saving.sent /\ past.unknown = {} /\ past'.unknown = {}
  BY <1>1, <1>3, <1>4, <1>7 DEF Answered, OneTask
 <2>2. OneTask' /\ Heard' BY <1>1, <1>3, <1>4, <1>5, <1>6, <2>1 DEF OneTask, Heard, NoTask
 <2>3. SameLists' BY <1>1, <1>3, <1>4, <1>5, <1>6, <2>1 DEF SameLists, Alike
 <2> QED BY <1>1, <1>3, <1>4, <1>5, <1>6, <2>1, <2>2, <2>3 DEF Pasts, Records, Saves, ListAnswers, ImpTypes
<1>8. CASE task.call # "automatic"
 <2>1. PICK wanted \in BOOLEAN : wanted = (task.wanted /\ done) OBVIOUS
 <2>2. answer' = [list |-> profiles', sent |-> TRUE, wanted |-> wanted]
  BY <1>8, <2>1 DEF Answered
 <2>3. app = "ready"
  BY <1>1, <1>8 DEF Pasts, Records, Saves, ListAnswers, OneTask, ImpTypes, NoTask
 <2>4. ~wanted => pardoned = changed BY <1>3, <2>1
 <2>5. OneTask' BY <1>6 DEF OneTask, NoTask
 <2>6. Heard' BY <1>1, <1>3, <1>4, <1>5, <2>2, <2>3, <2>4 DEF Heard
 <2>7. SameLists' BY <1>1, <1>3, <1>4, <1>5, <1>6, <2>2, <2>3, <2>4 DEF SameLists, Alike
 <2>8. answer' \in ListAnswers /\ answer'.list = profiles' BY <2>2 DEF ListAnswers
 <2>9. /\ saving.sent => changed \subseteq past'.excused
       /\ past'.unknown = past.unknown \cup changed /\ p.excused \subseteq past'.excused
  BY <1>3, <1>4, <2>3
 <2> QED BY <1>4, <1>5, <1>6, <2>5, <2>6, <2>7, <2>8, <2>9
<1> QED BY <1>7, <1>8

LEMMA ImportsKeep == ImpInv /\ Imports => ImpInv'
<1> SUFFICES ASSUME ImpInv, Imports PROVE ImpInv'
 OBVIOUS
<1>1. /\ ImpTypes /\ OneTask /\ OnceUnasked /\ Heard /\ SameLists /\ Waiting
      /\ task.call \in {"automatic", "asked"} /\ task # NoTask /\ UNCHANGED source
 BY DEF ImpInv, Imports, NoTask
<1>2. Added \in SUBSET Servers /\ Waits \in SUBSET Servers /\ (task.call = "automatic" => Waits = Added)
      /\ (task.call = "asked" => Waits = {})
 BY <1>1 DEF Pasts, Records, Saves, ListAnswers, Added, Waits, Holds, Files, ImpTypes
<1>3. /\ profiles' \in Rows
      /\ \A s \in Servers \ Added : profiles'[s] = profiles[s]
      /\ \A s \in Added : profiles'[s] = IF task.call = "automatic" THEN "22" ELSE "default"
 BY <1>1, <1>2 DEF Pasts, Records, Saves, ListAnswers, Imports, ImpTypes, Rows, Ports
<1>4. PICK done \in BOOLEAN :
        LET again == task.call = "automatic" /\ Added # {}
                       /\ (past.imported \/ past.refused = task.file)
            marked == [past EXCEPT !.imported = @ \/ done, !.again = @ \/ again,
                                   !.loose = @ \cup (IF done THEN {} ELSE Waits)] IN
          /\ record' = IF done THEN Record ELSE record
          /\ Changed(marked, Added, done)
          /\ Answered(profiles', done)
 BY DEF Imports
<1>5. PICK again \in BOOLEAN : again = (past.again \/ (task.call = "automatic" /\ Added # {}
                       /\ (past.imported \/ past.refused = task.file)))
 OBVIOUS
<1>6. PICK noted \in BOOLEAN : noted = (past.imported \/ done) OBVIOUS
<1>7. ~again BY <1>1, <1>5, Zenon DEF OnceUnasked
<1>8. PICK p : p = [past EXCEPT !.imported = noted, !.again = again,
                                !.loose = @ \cup (IF done THEN {} ELSE Waits)]
 OBVIOUS
<1>9. Changed(p, Added, done) /\ Answered(profiles', done) /\ record' = IF done THEN Record ELSE record
 BY <1>4, <1>5, <1>6, <1>8
<1>10. /\ p \in Pasts
       /\ p.unknown = past.unknown /\ p.excused = past.excused /\ p.lost = past.lost
       /\ p.imported = noted /\ p.again = again /\ p.refused = past.refused
       /\ p.loose = past.loose \cup (IF done THEN {} ELSE Waits)
 BY <1>1, <1>2, <1>8 DEF Pasts, Records, Saves, ListAnswers, ImpTypes
<1>11. /\ OneTask' /\ Heard' /\ SameLists'
       /\ past'.imported = noted /\ past'.again = again /\ past'.refused = past.refused
       /\ past'.loose = p.loose /\ p.excused \subseteq past'.excused
       /\ saving' \in Saves
       /\ saving'.list = saving.list /\ saving'.sent = saving.sent
       /\ answer' \in ListAnswers
       /\ answer'.sent /\ answer'.wanted => answer'.list = profiles'
       /\ shown' = (IF app = "starting" THEN profiles' ELSE shown)
       /\ past' \in Pasts
       /\ task' = NoTask /\ app' = "ready"
       /\ app = "ready" => past'.unknown = past.unknown \cup Added
 BY <1>1, <1>2, <1>3, <1>9, <1>10, EndKeepsLists
<1>12. /\ record' \in Records
       /\ done => /\ record'.file = task.file /\ ~record'.dismissed
                  /\ record'.waiting = record.waiting \cup Waits
       /\ ~done => record' = record
 BY <1>1, <1>2, <1>9 DEF Pasts, Records, Saves, ListAnswers, Record, NoRecord, ImpTypes
<1>13. ImpTypes'
 BY <1>1, <1>3, <1>11, <1>12 DEF Pasts, Records, Saves, ListAnswers, ImpTypes, NoTask
<1>14. OnceUnasked' BY <1>1, <1>6, <1>7, <1>11, <1>12 DEF OnceUnasked, OneTask, NoTask
<1>15. Owed \cup Waits \subseteq Owed' BY <1>10, <1>11, <1>12 DEF Owed
<1>16. Waiting'
 <2>1. At22(profiles', Owed') BY <1>1, <1>2, <1>3, <1>15 DEF Waiting, At22
 <2>2. At22(shown', Owed' \cup past'.unknown)
  BY <1>1, <1>11, <1>15, <2>1 DEF Pasts, Records, Saves, ListAnswers, Waiting, At22, ImpTypes
 <2>3. /\ saving'.sent => At22(saving'.list, Owed')
       /\ answer'.sent /\ answer'.wanted => At22(answer'.list, Owed')
  BY <1>1, <1>11, <1>15, <2>1 DEF Waiting, At22
 <2> QED BY <2>1, <2>2, <2>3 DEF Waiting
<1> QED BY <1>11, <1>13, <1>14, <1>16 DEF ImpInv

LEMMA GivesPortKeeps == ImpInv /\ GivesPort => ImpInv'
<1> SUFFICES ASSUME ImpInv, GivesPort PROVE ImpInv'
 OBVIOUS
<1>1. /\ ImpTypes /\ OneTask /\ OnceUnasked /\ Heard /\ SameLists /\ Waiting
      /\ task.call = "port" /\ task # NoTask /\ app = "ready" /\ UNCHANGED source
      /\ ~answer.sent /\ past.unknown \subseteq past.excused
 BY DEF Pasts, Records, Saves, ListAnswers, ImpInv, GivesPort, NoTask, OneTask, Heard, ImpTypes
<1> DEFINE given == {s \in record.waiting : profiles[s] = "22"}
<1>2. PICK done \in BOOLEAN :
         /\ profiles' = [s \in Servers |-> IF s \in given THEN "default" ELSE profiles[s]]
         /\ record' = IF done THEN [record EXCEPT !.waiting = {}] ELSE record
         /\ Changed(past, given, done)
         /\ Answered(profiles', done)
 BY DEF GivesPort
<1>3. given \in SUBSET Servers /\ \A s \in Servers : s \in given <=> s \in record.waiting /\ profiles[s] = "22"
 BY <1>1 DEF Pasts, Records, Saves, ListAnswers, ImpTypes
<1> HIDE DEF given
<1>4. /\ profiles' \in Rows
      /\ \A s \in Servers \ given : profiles'[s] = profiles[s]
      /\ \A s \in given : profiles'[s] = "default"
 BY <1>1, <1>2, <1>3 DEF Pasts, Records, Saves, ListAnswers, ImpTypes, Rows, Ports
<1>5. /\ OneTask' /\ Heard' /\ SameLists'
      /\ past'.imported = past.imported /\ past'.again = past.again /\ past'.refused = past.refused
      /\ past'.loose = past.loose /\ past.excused \subseteq past'.excused
      /\ saving.sent => given \subseteq past'.excused
      /\ past'.unknown = past.unknown \cup given
      /\ saving' \in Saves
      /\ saving'.list = saving.list /\ saving'.sent = saving.sent
      /\ answer' \in ListAnswers
      /\ answer'.sent /\ answer'.wanted => answer'.list = profiles'
      /\ shown' = shown
      /\ past' \in Pasts
      /\ task' = NoTask /\ app' = "ready"
 <2>1. past \in Pasts BY <1>1 DEF ImpTypes
 <2> QED BY <1>1, <1>2, <1>3, <1>4, <2>1, EndKeepsLists
<1>6. /\ record' \in Records
      /\ record'.file = record.file /\ record'.dismissed = record.dismissed /\ record'.earlier = record.earlier
      /\ record'.waiting \in {record.waiting, {}}
 BY <1>1, <1>2 DEF Pasts, Records, Saves, ListAnswers, ImpTypes
<1>7. ImpTypes'
 BY <1>1, <1>4, <1>5, <1>6 DEF Pasts, Records, Saves, ListAnswers, ImpTypes, NoTask
<1>8. OnceUnasked' BY <1>1, <1>5, <1>6 DEF OnceUnasked, NoTask
<1>9. \A s \in Owed : s \in Owed' \/ s \in record.waiting BY <1>5 DEF Owed
<1>10. Waiting'
 <2>1. At22(profiles', Owed')
  BY <1>1, <1>3, <1>4, <1>9 DEF Pasts, Records, Saves, ListAnswers, Waiting, At22, ImpTypes
 <2>2. \A s \in Servers : shown[s] = profiles[s] \/ s \in past.excused \/ saving.sent
  BY <1>1 DEF SameLists, Alike
 <2>3. saving.sent => \A s \in Servers \ past.excused :
         saving.list[s] = profiles[s] /\ saving.list[s] = shown[s]
  BY <1>1 DEF SameLists, Alike
 <2>4. past.excused \subseteq Owed' BY <1>5 DEF Owed
 <2>5. At22(shown', Owed' \cup past'.unknown)
  BY <1>1, <1>3, <1>5, <1>9, <2>2, <2>3, <2>4 DEF Waiting, At22
 <2>6. saving'.sent => At22(saving'.list, Owed')
  <3>1. saving.sent => given \subseteq Owed' BY <1>5 DEF Owed
  <3> QED BY <1>1, <1>3, <1>5, <1>9, <2>3, <2>4, <3>1 DEF Waiting, At22
 <2>7. answer'.sent /\ answer'.wanted => At22(answer'.list, Owed') BY <1>5, <2>1
 <2> QED BY <2>1, <2>5, <2>6, <2>7 DEF Waiting
<1> QED BY <1>5, <1>7, <1>8, <1>10 DEF ImpInv

LEMMA FailsKeeps == ImpInv /\ CallFails => ImpInv'
<1> SUFFICES ASSUME ImpInv, CallFails PROVE ImpInv'
 OBVIOUS
<1>1. /\ ImpTypes /\ OneTask /\ OnceUnasked /\ Heard /\ SameLists /\ Waiting
      /\ task # NoTask /\ ~answer.sent /\ past.unknown \subseteq past.excused
      /\ task' = NoTask /\ app' = "ready"
      /\ shown' = (IF app = "starting" THEN profiles ELSE shown)
      /\ UNCHANGED <<source, opens, profiles, record, saving, steps, past>>
 BY DEF ImpInv, CallFails, Answered, OneTask, Heard
<1>2. /\ answer' \in ListAnswers /\ ~(answer'.sent /\ answer'.wanted)
      /\ app = "starting" => answer' = answer
 <2>1. CASE task.call = "automatic" BY <1>1, <2>1 DEF CallFails, Answered, ImpTypes
 <2>2. CASE task.call # "automatic"
  <3>1. answer' = [list |-> profiles, sent |-> TRUE, wanted |-> FALSE] /\ app # "starting"
   BY <1>1, <2>2 DEF CallFails, Answered, OneTask, ImpTypes, NoTask
  <3> QED BY <1>1, <3>1 DEF ImpTypes, ListAnswers
 <2> QED BY <2>1, <2>2
<1>3. ImpTypes' BY <1>1, <1>2 DEF ImpTypes, NoTask
<1>4. OneTask' /\ OnceUnasked' /\ Heard' BY <1>1, <1>2 DEF OneTask, OnceUnasked, Heard, NoTask
<1>5. SameLists' /\ Waiting'
 BY <1>1, <1>2 DEF OneTask, SameLists, Waiting, Alike, At22, Owed, ImpTypes
<1> QED BY <1>3, <1>4, <1>5 DEF ImpInv

LEMMA HeardKeeps == ImpInv /\ AnswerHeard => ImpInv'
<1> SUFFICES ASSUME ImpInv, AnswerHeard PROVE ImpInv'
 OBVIOUS
<1>1. /\ ImpTypes /\ OneTask /\ OnceUnasked /\ Heard /\ SameLists /\ Waiting
      /\ answer.sent /\ answer' = NoAnswer /\ task = NoTask /\ app = "ready"
      /\ UNCHANGED <<source, opens, profiles, record, app, task, saving, steps>>
 BY DEF ImpInv, AnswerHeard, OneTask, ImpTypes
<1>2. Nobody \in Rows BY DEF Nobody, Rows, Ports
<1>3. CASE ~answer.wanted
 <2>1. shown' = shown /\ past' = past BY <1>3 DEF AnswerHeard
 <2>2. ImpTypes' /\ OneTask' /\ OnceUnasked' /\ Heard'
  BY <1>1, <1>2, <1>3, <2>1 DEF ImpTypes, OneTask, OnceUnasked, Heard, NoAnswer, ListAnswers
 <2>3. SameLists' /\ Waiting'
  BY <1>1, <1>3, <2>1 DEF SameLists, Waiting, Alike, At22, Owed, NoAnswer
 <2> QED BY <2>2, <2>3 DEF ImpInv
<1>4. CASE answer.wanted
 <2>1. shown' = answer.list /\ past' = [past EXCEPT !.unknown = {}]
  BY <1>4 DEF AnswerHeard, Adopt
 <2>2. /\ past' \in Pasts /\ past'.unknown = {} /\ past'.excused = past.excused /\ past'.loose = past.loose
       /\ past'.lost = past.lost /\ past'.imported = past.imported /\ past'.again = past.again
       /\ past'.refused = past.refused
  BY <1>1, <2>1 DEF ImpTypes, Pasts
 <2>3. ImpTypes' BY <1>1, <1>2, <2>1, <2>2 DEF ImpTypes, ListAnswers, NoAnswer
 <2>4. OneTask' /\ OnceUnasked' /\ Heard'
  BY <1>1, <2>2 DEF OneTask, OnceUnasked, Heard, NoAnswer, NoTask
 <2>5. SameLists' BY <1>1, <1>4, <2>1, <2>2 DEF SameLists, Alike, NoAnswer, Heard
 <2>6. Waiting' BY <1>1, <1>4, <2>1, <2>2 DEF Waiting, At22, Owed, NoAnswer
 <2> QED BY <2>3, <2>4, <2>5, <2>6 DEF ImpInv
<1> QED BY <1>3, <1>4

LEMMA WindowKeeps == ImpInv /\ WindowChanges => ImpInv'
<1> SUFFICES ASSUME ImpInv, WindowChanges PROVE ImpInv'
 OBVIOUS
<1>1. /\ ImpTypes /\ OneTask /\ OnceUnasked /\ Heard /\ SameLists /\ Waiting
      /\ app = "ready" /\ ~saving.sent /\ shown' = profiles
      /\ UNCHANGED <<source, opens, profiles, record, app, saving, steps>>
 BY DEF ImpInv, WindowChanges
<1>2. /\ past' \in Pasts /\ past'.unknown = {} /\ past'.excused = past.excused /\ past'.loose = past.loose
      /\ past'.lost = past.lost /\ past'.imported = past.imported /\ past'.again = past.again
      /\ past'.refused = past.refused
 BY <1>1 DEF ImpTypes, Pasts, WindowChanges
<1>3. /\ task' \in [call : {"none", "automatic", "asked", "port"}, file : Files \cup {NoFile}, wanted : BOOLEAN]
      /\ task'.call = task.call /\ task'.file = task.file /\ ~task'.wanted
      /\ answer' \in ListAnswers /\ answer'.sent = answer.sent /\ ~answer'.wanted
 BY <1>1 DEF ImpTypes, ListAnswers, WindowChanges
<1>4. task' # NoTask => task # NoTask
 <2>1. task' = [call |-> task'.call, file |-> task'.file, wanted |-> task'.wanted] BY <1>3
 <2>2. task'.wanted = FALSE BY <1>3
 <2>3. task = NoTask => task'.call = "none" /\ task'.file = NoFile BY <1>3 DEF NoTask
 <2> QED BY <2>1, <2>2, <2>3 DEF NoTask
<1>5. ImpTypes' BY <1>1, <1>2, <1>3 DEF ImpTypes
<1>6. OneTask' /\ OnceUnasked' /\ Heard'
 BY <1>1, <1>2, <1>3, <1>4 DEF OneTask, OnceUnasked, Heard
<1>7. SameLists' /\ Waiting' BY <1>1, <1>2, <1>3 DEF SameLists, Waiting, Alike, At22, Owed
<1> QED BY <1>5, <1>6, <1>7 DEF ImpInv

LEMMA EditKeeps == ImpInv /\ Edit => ImpInv'
<1> SUFFICES ASSUME ImpInv, Edit PROVE ImpInv'
 OBVIOUS
<1>1. /\ ImpTypes /\ OneTask /\ OnceUnasked /\ Heard /\ SameLists /\ Waiting
      /\ app = "ready" /\ ~saving.sent
      /\ saving' = [list |-> shown', sent |-> TRUE, blind |-> past.unknown]
      /\ UNCHANGED <<source, opens, profiles, record, app, task, answer>>
 BY DEF ImpInv, Edit
<1>2. PICK s \in Servers, p \in {"absent", "own"} :
        /\ shown' = [shown EXCEPT ![s] = p]
        /\ past' = IF task = NoTask /\ ~answer.sent THEN past
                   ELSE [past EXCEPT !.excused = @ \cup past.unknown \cup {s}]
 BY DEF Edit
<1>3. /\ past' \in Pasts /\ past'.unknown = past.unknown /\ past'.loose = past.loose
      /\ past'.lost = past.lost /\ past'.imported = past.imported /\ past'.again = past.again
      /\ past'.refused = past.refused /\ past.excused \subseteq past'.excused
      /\ past.unknown \subseteq past'.excused
      /\ task # NoTask \/ answer.sent => s \in past'.excused
 <2>1. CASE task = NoTask /\ ~answer.sent BY <1>1, <1>2, <2>1 DEF ImpTypes, Heard
 <2>2. CASE ~(task = NoTask /\ ~answer.sent)
  <3>1. past' = [past EXCEPT !.excused = past.excused \cup past.unknown \cup {s}] BY <1>2, <2>2
  <3> QED BY <1>1, <1>2, <2>2, <3>1 DEF ImpTypes, Pasts
 <2> QED BY <2>1, <2>2
<1>4. /\ shown' \in Rows /\ shown'[s] = p /\ p # "22"
      /\ \A r \in Servers : r # s => shown'[r] = shown[r]
      /\ saving' \in Saves
 BY <1>1, <1>2 DEF ImpTypes, Rows, Ports, Saves, Pasts
<1>5. ImpTypes' BY <1>1, <1>3, <1>4 DEF ImpTypes
<1>6. OneTask' /\ OnceUnasked' /\ Heard' BY <1>1, <1>3 DEF OneTask, OnceUnasked, Heard
<1>7. SameLists' BY <1>1, <1>3, <1>4 DEF SameLists, Alike
<1>8. Waiting' BY <1>1, <1>3, <1>4 DEF Waiting, At22, Owed
<1> QED BY <1>5, <1>6, <1>7, <1>8 DEF ImpInv

LEMMA SaveKeeps == ImpInv /\ SaveArrives => ImpInv'
<1> SUFFICES ASSUME ImpInv, SaveArrives PROVE ImpInv'
 OBVIOUS
<1>1. /\ ImpTypes /\ OneTask /\ OnceUnasked /\ Heard /\ SameLists /\ Waiting
      /\ saving.sent /\ profiles' = saving.list /\ saving' = NoList
      /\ past' = [past EXCEPT !.lost = @ \cup saving.blind]
      /\ UNCHANGED <<source, opens, record, app, task, shown, answer, steps>>
 BY DEF ImpInv, SaveArrives
<1>2. /\ past' \in Pasts /\ past'.unknown = past.unknown /\ past'.excused = past.excused
      /\ past'.loose = past.loose /\ past'.lost = past.lost \cup saving.blind
      /\ past'.imported = past.imported /\ past'.again = past.again /\ past'.refused = past.refused
 BY <1>1 DEF ImpTypes, Pasts, Saves
<1>3. NoList \in Saves /\ ~NoList.sent BY DEF NoList, Nobody, Saves, Rows, Ports
<1>4. ImpTypes' BY <1>1, <1>2, <1>3 DEF ImpTypes, Saves
<1>5. OneTask' /\ OnceUnasked' /\ Heard' BY <1>1, <1>2, <1>3 DEF OneTask, OnceUnasked, Heard
<1>6. SameLists' BY <1>1, <1>2, <1>3 DEF SameLists, Alike, Heard
<1>7. Waiting' BY <1>1, <1>2, <1>3 DEF Waiting, At22, Owed
<1> QED BY <1>4, <1>5, <1>6, <1>7 DEF ImpInv

LEMMA RestartKeeps == ImpInv /\ Restart => ImpInv'
<1> SUFFICES ASSUME ImpInv, Restart PROVE ImpInv'
 OBVIOUS
<1>1. /\ ImpTypes /\ OneTask /\ OnceUnasked /\ Heard /\ SameLists /\ Waiting
      /\ app' = "starting" /\ task' = NoTask /\ saving' = NoList /\ answer' = NoAnswer /\ shown' = Nobody
      /\ UNCHANGED <<source, opens, profiles, record>>
 BY DEF ImpInv, Restart
<1>2. /\ past' \in Pasts /\ past'.unknown = {} /\ past'.excused = past.excused /\ past'.loose = past.loose
      /\ past'.lost = past.lost /\ past'.imported = past.imported /\ past'.again = past.again
      /\ past'.refused = past.refused
 BY <1>1 DEF ImpTypes, Pasts, Restart
<1>3. /\ NoList \in Saves /\ ~NoList.sent /\ NoAnswer \in ListAnswers /\ ~NoAnswer.sent
      /\ Nobody \in Rows /\ \A s \in Servers : Nobody[s] = "absent"
 BY DEF NoList, NoAnswer, Nobody, Saves, ListAnswers, Rows, Ports
<1>4. ImpTypes' BY <1>1, <1>2, <1>3 DEF ImpTypes, NoTask
<1>5. OneTask' /\ OnceUnasked' /\ Heard'
 BY <1>1, <1>2, <1>3 DEF OneTask, OnceUnasked, Heard, NoTask
<1>6. SameLists' /\ Waiting' BY <1>1, <1>2, <1>3 DEF SameLists, Waiting, Alike, At22, Owed
<1> QED BY <1>4, <1>5, <1>6 DEF ImpInv

--------------------------------------------------
LEMMA ImpNext == ImpInv /\ [ImportNext]_import => ImpInv'
<1> SUFFICES ASSUME ImpInv, [ImportNext]_import PROVE ImpInv'
 OBVIOUS
<1>1. CASE UNCHANGED import
 BY <1>1 DEF import, ImpInv, ImpTypes, OneTask, OnceUnasked, Heard, SameLists, Waiting, Alike, At22, Owed
<1>2. CASE FileChanges
 <2>1. source' \in Files /\ UNCHANGED <<opens, profiles, record, app, task, shown, saving, answer, past>>
  BY <1>2 DEF FileChanges
 <2> QED BY <2>1 DEF ImpInv, ImpTypes, OneTask, OnceUnasked, Heard, SameLists, Waiting, Alike, At22, Owed
<1> QED BY <1>1, <1>2, AutomaticKeeps, AskKeeps, PortKeeps, DismissKeeps, ImportsKeep, GivesPortKeeps, FailsKeeps,
           HeardKeeps, WindowKeeps, EditKeeps, SaveKeeps, RestartKeeps DEF ImportNext, CallEnds

LEMMA ImpThen == ImpInv => ImportTypeOK /\ NeverUnasked /\ PortOwed /\ ImportsStay
<1> SUFFICES ASSUME ImpInv PROVE ImportTypeOK /\ NeverUnasked /\ PortOwed /\ ImportsStay
 OBVIOUS
<1>1. ImpTypes /\ OnceUnasked /\ Heard /\ Waiting BY DEF ImpInv
<1>2. answer.sent \in BOOLEAN /\ answer.wanted \in BOOLEAN BY <1>1 DEF ImpTypes, ListAnswers
<1>3. /\ record.file \in Files \cup {NoFile} /\ record.waiting \subseteq Servers
      /\ \A s \in Servers : {profiles[s], shown[s]} \subseteq {"absent", "22", "default", "own"}
      /\ task.call \in {"none", "automatic", "asked", "port"}
 BY <1>1 DEF ImpTypes, Records, Rows, Ports
<1>4. ImportTypeOK BY <1>1, <1>2, <1>3, Zenon DEF ImpTypes, ImportTypeOK
<1>5. NeverUnasked /\ PortOwed /\ ImportsStay
 BY <1>1 DEF NeverUnasked, OnceUnasked, PortOwed, Waiting, At22, Owed, ImportsStay, Heard
<1> QED BY <1>4, <1>5

--------------------------------------------------
(* The three together *)

\* A step of the program is, for each part, one of its own or none.
LEMMA OwnPart ==
  ASSUME [StartNext]_startUp
  PROVE  [Next]_vars /\ [MigrationNext]_migration /\ [ImportNext]_import
BY DEF StartNext, startUp

LEMMA StartBegins == StartInit => Init /\ MigrationInit /\ ImportInit
BY DEF StartInit

\* legacy.rs: whatever the old build left, and however often an attempt fails or is cut off, no
\* old data is gone that is not in a new database or in the backup, and the workspaces that
\* were moved were moved as a whole.
THEOREM MigrationKeeps == MigrationSpec => [](MigrationTypeOK /\ NothingDestroyed /\ MovedWhole)
BY MigInit, MigNext, MigThen, PTL DEF MigrationSpec

\* legacyV2Profiles.ts: for any servers, edits, answers under way and further starts, the servers
\* of 2.0 do not come back unasked, keep what the user made of them, and are owed their port
\* until they have it.
THEOREM ImportedStay == ImportSpec => [](ImportTypeOK /\ NeverUnasked /\ PortOwed /\ ImportsStay)
BY ImpInit, ImpNext, ImpThen, PTL DEF ImportSpec

\* Behind them all: the three invariants of every behaviour of the program.
THEOREM StartInvariant == StartSpec => [](Movable /\ MigInv /\ ImpInv)
<1>1. StartInit => Movable /\ MigInv /\ ImpInv BY StartBegins, MovableInit, MigInit, ImpInit
<1>2. Movable /\ MigInv /\ ImpInv /\ [StartNext]_startUp => (Movable /\ MigInv /\ ImpInv)'
 BY OwnPart, MovableNext, MigNext, ImpNext
<1> QED BY <1>1, <1>2, PTL DEF StartSpec

\* Types, for any number of threads.
THEOREM StartTypes == StartSpec => []StartTypeOK
<1>1. Movable /\ MigInv /\ ImpInv => StartTypeOK
 BY MovableTypes, MigThen, ImpThen DEF StartTypeOK
<1> QED BY <1>1, StartInvariant, PTL

\* With one call at a time, what the user has stored stays: every database opens with a key of
\* the keystore, and the data of development builds and of 2.0 comes whole and once.
THEOREM StartDataStays ==
  ASSUME OneCall
  PROVE  StartSpec => []DataStays
<1>1. StartInit => Calm BY StartBegins, CalmInit
<1>2. Movable /\ Calm /\ [StartNext]_startUp => Calm' BY OwnPart, CalmNext
<1>3. Movable /\ MigInv /\ ImpInv /\ Calm => DataStays
 BY CalmThen, MigThen, ImpThen DEF DataStays
<1> QED BY <1>1, <1>2, <1>3, StartInvariant, PTL DEF StartSpec

\* With one call at a time, no database stays open whose key a lock dropped (close_locked), and no
\* connection stays on a file that was replaced (rekey_file).
THEOREM StartLocks ==
  ASSUME OneCall
  PROVE  StartSpec => [](ClosedWhenLocked /\ NothingStale)
<1>1. StartInit => Calm BY StartBegins, CalmInit
<1>2. Movable /\ Calm /\ [StartNext]_startUp => Calm' BY OwnPart, CalmNext
<1>3. Movable /\ Calm => ClosedWhenLocked /\ NothingStale BY CalmThen
<1> QED BY <1>1, <1>2, <1>3, StartInvariant, PTL DEF StartSpec

\* No workspace that cannot be moved, finished or opened keeps the app from unlocking.
THEOREM StartUnlockStands ==
  ASSUME OneCall
  PROVE  StartSpec => UnlockStands
<1>1. StartInit => Calm /\ Upright BY StartBegins, CalmInit, UprightInit
<1>2. Movable /\ Calm /\ Upright /\ [StartNext]_startUp => (Calm /\ Upright)'
 BY OwnPart, CalmNext, UprightNext
<1>3. Movable /\ Calm /\ Upright /\ [StartNext]_startUp =>
         [\A t \in Threads : Unlocking(t) /\ It(t).s # App /\ started' => Unlocking(t)']_vars
 BY OwnPart, StandsNext
<1> QED BY <1>1, <1>2, <1>3, StartInvariant, PTL DEF StartSpec, UnlockStands
=============================================================================
