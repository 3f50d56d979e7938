----------------------------- MODULE StoreProofs -----------------------------
(***************************************************************************)
(* Proof that the move of an old database can always be finished           *)
(* (Finishable of module Store), for any number of threads, workspaces and *)
(* key versions.  The threads meet only in the files, the rows and the     *)
(* marks; each list of steps relies on little of them, and what it relies  *)
(* on no other thread takes away (Kept).                                   *)
(***************************************************************************)
EXTENDS Store, FiniteSetTheorems, SequenceTheorems, TLAPS

--------------------------------------------------
(* Folds over finite sets *)

\* A set of numbers has a least one.
LEMMA LeastNatural ==
  ASSUME NEW N \in SUBSET Nat, N # {}
  PROVE  \E n \in N : \A m \in N : n <= m
<1>1. PICK n \in N : \A m \in N : ~ (<<m, n>> \in OpToRel(<, Nat))
 BY NatLessThanWellFounded, WFMin, Zenon
<1>2. \A m \in N : ~ (m < n) BY <1>1 DEF OpToRel
<1> QED BY <1>2

LEMMA MinIs ==
  ASSUME NEW N \in SUBSET Nat, N # {}
  PROVE  Min(N) \in N /\ \A m \in N : Min(N) <= m
BY LeastNatural DEF Min

\* The element FoldSet takes from a set, and the function it computes when it puts
\* piece[x] in front for every element x: h[U] is the result for the subset U of S.
Chosen(S) == CHOOSE x \in S : TRUE
Rest(S)   == S \ {Chosen(S)}

Joins(piece, S, h) ==
    h = [U \in SUBSET S |-> IF U = {} THEN <<>>
                            ELSE piece[Chosen(U)] \o h[Rest(U)]]

JoinedAt(piece, h, U) == h[U] = piece[Chosen(U)] \o h[Rest(U)]

LEMMA ChosenLess ==
  ASSUME NEW S, IsFiniteSet(S), S # {}
  PROVE  /\ Chosen(S) \in S /\ Rest(S) \in SUBSET S /\ Rest(S) # S
         /\ IsFiniteSet(Rest(S))
         /\ Cardinality(S) \in Nat /\ Cardinality(Rest(S)) \in Nat
         /\ Cardinality(Rest(S)) < Cardinality(S)
<1> DEFINE x == Chosen(S)
<1>1. x \in S BY DEF Chosen
<1>2. IsFiniteSet(S \ {x}) /\ Cardinality(S \ {x}) = Cardinality(S) - 1
 BY <1>1, FS_RemoveElement
<1>3. Cardinality(S) \in Nat /\ Cardinality(S \ {x}) \in Nat BY <1>2, FS_CardinalityType
<1>4. S \ {x} \in SUBSET S /\ S \ {x} # S BY <1>1
<1> QED BY <1>1, <1>2, <1>3, <1>4 DEF Rest

LEMMA JoinsEmpty ==
  ASSUME NEW piece, NEW S, NEW h, Joins(piece, S, h)
  PROVE  h[{}] = <<>>
BY Zenon DEF Joins

LEMMA JoinsMore ==
  ASSUME NEW piece, NEW S, NEW h, Joins(piece, S, h), NEW U \in SUBSET S, U # {}
  PROVE  JoinedAt(piece, h, U)
<1>1. h[U] = IF U = {} THEN <<>> ELSE piece[Chosen(U)] \o h[Rest(U)] BY Zenon DEF Joins
<1> QED BY <1>1 DEF JoinedAt

\* Two such functions agree where both are defined.
LEMMA JoinsUnique ==
  ASSUME NEW piece, NEW S, NEW T, NEW g, NEW h,
         Joins(piece, S, g), Joins(piece, T, h)
  PROVE  \A U \in (SUBSET S) \cap (SUBSET T) : IsFiniteSet(U) => g[U] = h[U]
<1> DEFINE Bad(n) == \E U \in (SUBSET S) \cap (SUBSET T) :
                         IsFiniteSet(U) /\ Cardinality(U) = n /\ g[U] # h[U]
           N == {n \in Nat : Bad(n)}
<1>1. SUFFICES ASSUME N # {} PROVE FALSE
 BY FS_CardinalityType
<1>2. PICK n \in N : \A m \in N : n <= m BY <1>1, LeastNatural
<1>3. PICK U \in (SUBSET S) \cap (SUBSET T) :
          IsFiniteSet(U) /\ Cardinality(U) = n /\ g[U] # h[U]
 BY <1>2
<1>4. U \in SUBSET S /\ U \in SUBSET T OBVIOUS
<1>5. U # {}
 <2> SUFFICES ASSUME U = {} PROVE FALSE
  OBVIOUS
 <2>1. g[U] = <<>> /\ h[U] = <<>> BY JoinsEmpty
 <2> QED BY <1>3, <2>1
<1> DEFINE V == Rest(U)
<1>6. /\ IsFiniteSet(V) /\ Cardinality(V) \in Nat /\ Cardinality(V) < Cardinality(U)
 BY <1>3, <1>5, ChosenLess
<1>7. V \in (SUBSET S) \cap (SUBSET T) BY <1>3, <1>4, <1>5, ChosenLess
<1>8. g[V] = h[V]
 <2> SUFFICES ASSUME g[V] # h[V] PROVE FALSE
  OBVIOUS
 <2>1. Cardinality(V) \in N BY <1>6, <1>7
 <2> HIDE DEF N, V
 <2>2. n <= Cardinality(V) /\ n \in Nat BY <1>2, <2>1 DEF N
 <2> QED BY <1>3, <1>6, <2>2
<1>9. JoinedAt(piece, g, U) BY <1>4, <1>5, JoinsMore
<1>10. JoinedAt(piece, h, U) BY <1>4, <1>5, JoinsMore
<1> QED BY <1>3, <1>8, <1>9, <1>10 DEF JoinedAt

LEMMA JoinsExist ==
  ASSUME NEW piece, NEW S, IsFiniteSet(S)
  PROVE  \E h : Joins(piece, S, h)
<1> DEFINE Bad(n) == \E U \in SUBSET S : Cardinality(U) = n /\ ~ \E h : Joins(piece, U, h)
           N == {n \in Nat : Bad(n)}
<1>1. SUFFICES ASSUME N # {} PROVE FALSE
 BY FS_CardinalityType
<1>2. PICK n \in N : \A m \in N : n <= m BY <1>1, LeastNatural
<1>3. PICK U \in SUBSET S : Cardinality(U) = n /\ ~ \E h : Joins(piece, U, h) BY <1>2
<1>4. \A V \in SUBSET U : V # U => \E h : Joins(piece, V, h)
 <2> SUFFICES ASSUME NEW V \in SUBSET U, V # U PROVE \E h : Joins(piece, V, h)
  OBVIOUS
 <2>1. Cardinality(V) \in Nat /\ Cardinality(V) < Cardinality(U)
  BY FS_Subset, FS_CardinalityType
 <2> QED BY <1>2, <1>3, <2>1
<1> DEFINE of(V) == CHOOSE h : Joins(piece, V, h)
           g == [s \in SUBSET U |->
                   IF s = {} THEN <<>>
                   ELSE piece[Chosen(s)] \o of(Rest(s))[Rest(s)]]
<1>5. \A s \in SUBSET U : s # {} =>
         Rest(s) \in SUBSET U /\ Rest(s) # U /\ IsFiniteSet(Rest(s))
 BY FS_Subset, ChosenLess
<1>6. \A V \in SUBSET U : V # U => Joins(piece, V, of(V)) BY <1>4
<1>7. \A s \in SUBSET U : s # U => of(s)[s] = g[s]
 <2> SUFFICES ASSUME NEW s \in SUBSET U, s # U PROVE of(s)[s] = g[s]
  OBVIOUS
 <2> HIDE DEF of
 <2>1. Joins(piece, s, of(s)) /\ s \in SUBSET s BY <1>6
 <2>2. CASE s = {} BY <2>1, <2>2, JoinsEmpty
 <2>3. CASE s # {}
  <3> DEFINE r == Rest(s)
  <3>1. r \in SUBSET U /\ r # U /\ IsFiniteSet(r) /\ r \in (SUBSET s) \cap (SUBSET r)
   <4>1. IsFiniteSet(s) BY FS_Subset
   <4>2. r \in SUBSET s BY <2>3, <4>1, ChosenLess
   <4> QED BY <1>5, <2>3, <4>2
  <3>2. JoinedAt(piece, of(s), s) BY <2>1, <2>3, JoinsMore
  <3>3. Joins(piece, r, of(r)) BY <1>6, <3>1
  <3>4. of(s)[r] = of(r)[r] BY <2>1, <3>1, <3>3, JoinsUnique
  <3> QED BY <2>3, <3>2, <3>4 DEF JoinedAt
 <2> QED BY <2>2, <2>3
<1> HIDE DEF of
<1>8. Joins(piece, U, g)
 <2>1. \A s \in SUBSET U : s # {} =>
          g[s] = piece[Chosen(s)] \o g[Rest(s)]
  BY <1>5, <1>7
 <2>2. g = [s \in SUBSET U |-> IF s = {} THEN <<>>
                               ELSE piece[Chosen(s)] \o g[Rest(s)]]
  BY <2>1
 <2> QED BY <2>2 DEF Joins
<1> QED BY <1>3, <1>8

\* The pieces joined are a list of any kind L that a piece before it leaves of its kind.
LEMMA JoinedIn ==
  ASSUME NEW piece, NEW S, IsFiniteSet(S), NEW L, <<>> \in L,
         \A x \in S, q \in L : piece[x] \o q \in L, NEW h, Joins(piece, S, h)
  PROVE  h[S] \in L
<1> DEFINE Bad(n) == \E U \in SUBSET S : Cardinality(U) = n /\ h[U] \notin L
           N == {n \in Nat : Bad(n)}
<1>1. SUFFICES ASSUME N # {} PROVE FALSE
 <2>1. IsFiniteSet(S) /\ Cardinality(S) \in Nat /\ S \in SUBSET S BY FS_CardinalityType
 <2> QED BY <2>1
<1>2. PICK n \in N : \A m \in N : n <= m BY <1>1, LeastNatural
<1>3. PICK U \in SUBSET S : Cardinality(U) = n /\ h[U] \notin L BY <1>2
<1>4. U # {}
 <2> SUFFICES ASSUME U = {} PROVE FALSE
  OBVIOUS
 <2>1. h[U] = <<>> BY JoinsEmpty
 <2> QED BY <1>3, <2>1
<1>5. IsFiniteSet(U) BY FS_Subset
<1> DEFINE V == Rest(U)
<1>6. /\ Chosen(U) \in U /\ V \in SUBSET S
      /\ Cardinality(V) \in Nat /\ Cardinality(V) < Cardinality(U)
 BY <1>4, <1>5, ChosenLess
<1>7. h[V] \in L
 <2> SUFFICES ASSUME h[V] \notin L PROVE FALSE
  OBVIOUS
 <2>1. Cardinality(V) \in N BY <1>6
 <2> HIDE DEF N, V
 <2>2. n <= Cardinality(V) /\ n \in Nat BY <1>2, <2>1 DEF N
 <2> QED BY <1>3, <1>6, <2>2
<1>8. JoinedAt(piece, h, U) BY <1>4, JoinsMore
<1> HIDE DEF V
<1> QED BY <1>3, <1>6, <1>7, <1>8 DEF JoinedAt, V

--------------------------------------------------
(* The lists of steps *)

Withs   == Serials \cup {None, Plain, Legacy, "own", "quiet"}
FreeDo  == {"openmain", "sweep", "openall", "ready", "complete", "commit", "open", "asks",
            "skip", "relock", "undo", "adopted", "mount", "move", "unlock", "drop", "setpw",
            "kslock", "close", "closeone", "ksdelete", "unlink", "mark"}
Checked == {"createnew", "row", "create", "unmark", "rmpw", "delrow", "rekey", "rename", "connect"}
OfWorkspace == {"open", "mark", "createnew", "row"}
StepRec == {x \in [do : FreeDo \cup Checked, s : Scopes, with : Withs] :
               x.do \in OfWorkspace => x.s \in Workspaces}

Each(do, S) == {Step(do, s) : s \in S} \cup {Step("skip", s) : s \in S}

\* EachOf is a list of any kind that a step and its "skip" may come before.
LEMMA EachOfIn ==
  ASSUME NEW do, NEW S, IsFiniteSet(S), NEW L, <<>> \in L,
         \A s \in S, q \in L : <<Step(do, s), Step("skip", s)>> \o q \in L
  PROVE  EachOf(S, do) \in L
<1> DEFINE front(s) == <<Step(do, s), Step("skip", s)>>
           Raw(h) == h = [U \in SUBSET S |-> IF U = {} THEN <<>>
                                             ELSE front(Chosen(U)) \o h[Rest(U)]]
           piece == [s \in S |-> front(s)]
           it == CHOOSE h : Raw(h)
<1>1. \A h : Raw(h) <=> Joins(piece, S, h)
 <2> SUFFICES ASSUME NEW h PROVE Raw(h) <=> Joins(piece, S, h)
  OBVIOUS
 <2>1. \A U \in SUBSET S : U # {} => piece[Chosen(U)] = front(Chosen(U)) BY DEF Chosen
 <2> HIDE DEF piece, front
 <2>2. [U \in SUBSET S |-> IF U = {} THEN <<>> ELSE front(Chosen(U)) \o h[Rest(U)]]
       = [U \in SUBSET S |-> IF U = {} THEN <<>> ELSE piece[Chosen(U)] \o h[Rest(U)]]
  BY <2>1
 <2> QED BY <2>2 DEF Joins
<1>2. Raw(it)
 <2>1. \E h : Joins(piece, S, h) BY JoinsExist
 <2> HIDE DEF Raw, piece
 <2> QED BY <1>1, <2>1
<1>3. EachOf(S, do) = it[S] BY DEF EachOf, FoldSet, MapThenFoldSet, Chosen, Rest
<1>4. \A s \in S, q \in L : piece[s] \o q \in L OBVIOUS
<1> HIDE DEF Raw, piece, it
<1> QED BY <1>1, <1>2, <1>3, <1>4, JoinedIn

\* In particular over the steps and the marks.
LEMMA EachOfSeq ==
  ASSUME NEW do, NEW S, IsFiniteSet(S)
  PROVE  EachOf(S, do) \in Seq(Each(do, S))
<1>1. \A s \in S : <<Step(do, s), Step("skip", s)>> \in Seq(Each(do, S)) BY DEF Each
<1>2. <<>> \in Seq(Each(do, S)) OBVIOUS
<1>3. \A s \in S, q \in Seq(Each(do, S)) :
         <<Step(do, s), Step("skip", s)>> \o q \in Seq(Each(do, S))
 BY <1>1
<1> QED BY <1>2, <1>3, EachOfIn

LEMMA DropEachSeq ==
  ASSUME NEW S, IsFiniteSet(S)
  PROVE  DropEach(S) \in Seq(Each("drop", S))
<1> DEFINE front(s) == <<Step("drop", s)>>
           Raw(h) == h = [U \in SUBSET S |-> IF U = {} THEN <<>>
                                             ELSE front(Chosen(U)) \o h[Rest(U)]]
           piece == [s \in S |-> front(s)]
           it == CHOOSE h : Raw(h)
<1>1. \A h : Raw(h) <=> Joins(piece, S, h)
 <2> SUFFICES ASSUME NEW h PROVE Raw(h) <=> Joins(piece, S, h)
  OBVIOUS
 <2>1. \A U \in SUBSET S : U # {} => piece[Chosen(U)] = front(Chosen(U)) BY DEF Chosen
 <2> HIDE DEF piece, front
 <2>2. [U \in SUBSET S |-> IF U = {} THEN <<>> ELSE front(Chosen(U)) \o h[Rest(U)]]
       = [U \in SUBSET S |-> IF U = {} THEN <<>> ELSE piece[Chosen(U)] \o h[Rest(U)]]
  BY <2>1
 <2> QED BY <2>2 DEF Joins
<1>2. Raw(it)
 <2>1. \E h : Joins(piece, S, h) BY JoinsExist
 <2> HIDE DEF Raw, piece
 <2> QED BY <1>1, <2>1
<1>3. DropEach(S) = it[S] BY DEF DropEach, FoldSet, MapThenFoldSet, Chosen, Rest
<1>4. \A s \in S : piece[s] \in Seq(Each("drop", S)) BY DEF Each
<1>5. <<>> \in Seq(Each("drop", S)) OBVIOUS
<1> HIDE DEF Raw, piece, it
<1>6. \A s \in S, q \in Seq(Each("drop", S)) : piece[s] \o q \in Seq(Each("drop", S)) BY <1>4
<1> QED BY <1>1, <1>2, <1>3, <1>5, <1>6, JoinedIn

\* Trim takes marks off the front.
LEMMA TrimSuffix ==
  ASSUME NEW q \in Seq(StepRec)
  PROVE  \E k \in 1..(Len(q) + 1) : /\ Trim(q) = SubSeq(q, k, Len(q))
                                    /\ k = 1 \/ q[k - 1].do \in Marks
                                    /\ \A i \in 1..Len(q) : i < k => q[i].do \in Marks
<1> DEFINE I == {i \in 1..Len(q) : q[i].do \notin Marks}
           n == Min(I)
<1>1. Trim(q) = LET k == IF I # {} THEN n ELSE 0
                IN  IF k = 0 THEN <<>> ELSE SubSeq(q, k, Len(q))
 BY DEF Trim, FirstAfter, SelectInSeq
<1>2. Len(q) \in Nat OBVIOUS
<1>3. CASE I = {}
 <2>1. Trim(q) = <<>> BY <1>1, <1>3
 <2>2. SubSeq(q, Len(q) + 1, Len(q)) = <<>> BY <1>2
 <2>3. Len(q) = 0 \/ q[Len(q)].do \in Marks BY <1>2, <1>3
 <2>4. \A i \in 1..Len(q) : q[i].do \in Marks BY <1>3
 <2>5. PICK k : k = Len(q) + 1 OBVIOUS
 <2>6. k \in 1..(Len(q) + 1) /\ k - 1 = Len(q) /\ Trim(q) = SubSeq(q, k, Len(q))
  BY <1>2, <2>1, <2>2, <2>5
 <2>7. k = 1 \/ q[k - 1].do \in Marks BY <1>2, <2>3, <2>5, <2>6
 <2> QED BY <2>4, <2>6, <2>7
<1>4. CASE I # {}
 <2>1. n \in I /\ \A m \in I : n <= m
  <3>1. I \in SUBSET Nat BY <1>2
  <3> HIDE DEF I
  <3> QED BY <1>4, <3>1, MinIs
 <2>2. Trim(q) = SubSeq(q, n, Len(q))
  <3>1. n # 0 BY <2>1
  <3> HIDE DEF I, n
  <3> QED BY <1>1, <1>4, <3>1
 <2>3. n \in 1..Len(q) BY <2>1
 <2>4. n = 1 \/ q[n - 1].do \in Marks
  <3>1. CASE n # 1
   <4>1. n - 1 \in 1..Len(q) /\ ~ (n <= n - 1) BY <1>2, <2>3, <3>1
   <4>2. n - 1 \notin I BY <2>1, <4>1
   <4> QED BY <4>1, <4>2
  <3> QED BY <3>1
 <2>5. \A i \in 1..Len(q) : i < n => q[i].do \in Marks
  <3> SUFFICES ASSUME NEW i \in 1..Len(q), i < n PROVE i \notin I
   OBVIOUS
  <3>1. n \in Nat /\ i \in Nat /\ ~ (n <= i) BY <1>2, <2>3
  <3> HIDE DEF I, n
  <3> QED BY <2>1, <3>1
 <2> HIDE DEF I, n
 <2> QED BY <1>2, <2>2, <2>3, <2>4, <2>5
<1> QED BY <1>3, <1>4

\* What is left of a list when its first step returns an error.
Failed(q, error) ==
    LET rest == FirstAfter(q, LAMBDA x : Handles(x, error, Head(q).s))
    IN  IF rest = <<>> THEN <<>> ELSE Trim(CleanUp(Head(rest)) \o Tail(rest))

Errors == {"locked", "needs", "io"}

LEMMA FailIs ==
  ASSUME NEW t, NEW error, Fail(t, error)
  PROVE  job' = [job EXCEPT ![t] = Failed(job[t], error)]
BY DEF Fail, Failed, It

\* The first mark that handles the error, if there is one, decides.
LEMMA FailedIs ==
  ASSUME NEW q \in Seq(StepRec), NEW error \in Errors
  PROVE  \/ Failed(q, error) = <<>> /\ \A i \in 1..Len(q) : ~ Handles(q[i], error, Head(q).s)
         \/ \E k \in 1..Len(q) :
               /\ q[k].do \in Marks /\ Handles(q[k], error, Head(q).s)
               /\ \A i \in 1..Len(q) : Handles(q[i], error, Head(q).s) => k <= i
               /\ Failed(q, error) = Trim(CleanUp(q[k]) \o SubSeq(q, k + 1, Len(q)))
<1> DEFINE I == {i \in 1..Len(q) : Handles(q[i], error, Head(q).s)}
           n == Min(I)
           k == IF I # {} THEN n ELSE 0
           rest == IF k = 0 THEN <<>> ELSE SubSeq(q, k, Len(q))
<1>1. Failed(q, error) = IF rest = <<>> THEN <<>> ELSE Trim(CleanUp(Head(rest)) \o Tail(rest))
 BY DEF Failed, FirstAfter, SelectInSeq
<1>2. Len(q) \in Nat OBVIOUS
<1>3. CASE I = {} BY <1>1, <1>3
<1>4. CASE I # {}
 <2>1. n \in I /\ \A i \in I : n <= i
  <3>1. I \in SUBSET Nat BY <1>2
  <3> HIDE DEF I
  <3> QED BY <1>4, <3>1, MinIs
 <2>2. n \in 1..Len(q) /\ q[n].do \in Marks /\ Handles(q[n], error, Head(q).s)
  BY <2>1 DEF Handles, Catches, Marks, Errors
 <2>3. rest = SubSeq(q, n, Len(q))
  <3>1. k = n /\ n # 0 BY <1>4, <2>2
  <3> HIDE DEF k, n
  <3> QED BY <3>1
 <2>4. \A i \in 1..Len(q) : Handles(q[i], error, Head(q).s) => n <= i BY <2>1
 <2> HIDE DEF I, n, k, rest
 <2>5. Head(rest) = q[n] /\ Tail(rest) = SubSeq(q, n + 1, Len(q)) BY <1>2, <2>2, <2>3
 <2>6. rest # <<>>
  <3>1. Len(rest) = Len(q) + 1 - n /\ n <= Len(q) /\ n \in Nat
   BY <1>2, <2>2, <2>3, SubSeqProperties
  <3> QED BY <1>2, <3>1
 <2> QED BY <1>1, <2>2, <2>4, <2>5, <2>6
<1> QED BY <1>3, <1>4

--------------------------------------------------
(* What a list of steps relies on.  An old file is plain or under a 2.x      *)
(* password.  A step that is only safe once the file is no longer old, or    *)
(* once the workspace is marked, either finds it so or comes right after the *)
(* step that makes it so.                                                    *)

Old == {Plain, Legacy}

Follows(q, i, D) == i > 1 /\ q[i - 1].do \in D /\ q[i - 1].s = q[i].s

MarkBefore(q, i)   == Follows(q, i, {"mark"})
MountBefore(q, i)  == Follows(q, i, {"mount", "connect"})
UnlockBefore(q, i) == \/ Follows(q, i, {"unlock"})
                      \/ Follows(q, i, {"drop"}) /\ MountBefore(q, i - 1)

\* The step q[i] when f, r and a are the files, the rows and the marks.
Fits(q, i, f, r, a) ==
    LET s  == q[i].s
        do == q[i].do
    IN
    /\ do \in {"createnew", "row"} => f[s] \notin Old
    /\ do = "create" => /\ q[i].with = "own" \/ f[s] # Legacy
                        /\ f[s] # Plain \/ s \notin r \/ s \in a \/ MarkBefore(q, i)
    /\ do = "unmark" => f[s] # Plain \/ MountBefore(q, i)
    /\ do = "rmpw" => s = App \/ f[s] # Legacy \/ UnlockBefore(q, i)
    /\ do = "delrow" => s # Main
    /\ do \in {"rekey", "rename", "connect"} => q[i].with \in Serials

Local(q, f, r, a) == q \in Seq(StepRec) /\ \A i \in 1..Len(q) : Fits(q, i, f, r, a)

Free == {x \in StepRec : x.do \notin Checked}

LEMMA FreeLocal ==
  ASSUME NEW q \in Seq(Free), NEW f, NEW r, NEW a
  PROVE  Local(q, f, r, a)
<1>1. \A x \in Free : x \in StepRec BY DEF Free
<1>2. q \in Seq(StepRec) BY <1>1
<1>3. \A i \in 1..Len(q) : q[i] \in Free OBVIOUS
<1>4. \A i \in 1..Len(q) : q[i].do \notin Checked BY <1>3 DEF Free
<1> QED BY <1>2, <1>4 DEF Local, Fits, Checked

LEMMA StepFree ==
  ASSUME NEW do \in FreeDo, NEW s \in Scopes, do \notin OfWorkspace \/ s \in Workspaces
  PROVE  Step(do, s) \in Free
<1>1. do \notin Checked BY DEF FreeDo, Checked
<1>2. None \in Withs BY DEF Withs
<1> QED BY <1>1, <1>2 DEF Step, StepRec, Free

LEMMA StepWithFree ==
  ASSUME NEW do \in FreeDo, NEW s \in Scopes, NEW with \in Withs,
         do \notin OfWorkspace \/ s \in Workspaces
  PROVE  StepWith(do, s, with) \in Free
<1>1. do \notin Checked BY DEF FreeDo, Checked
<1> QED BY <1>1 DEF StepWith, StepRec, Free

\* A step fits at another place when what came before it is there too, or is not needed.
LEMMA FitsMoves ==
  ASSUME NEW q, NEW i, NEW w, NEW j, NEW f, NEW r, NEW a,
         Fits(q, i, f, r, a), w[j] = q[i],
         MarkBefore(q, i) => MarkBefore(w, j) \/ q[i].s \in a,
         MountBefore(q, i) => MountBefore(w, j) \/ f[q[i].s] \notin Old,
         UnlockBefore(q, i) => UnlockBefore(w, j) \/ f[q[i].s] # Legacy
  PROVE  Fits(w, j, f, r, a)
BY DEF Fits, Old

\* Nothing relies on a mark that was taken away.
LEMMA SuffixLocal ==
  ASSUME NEW q, NEW f, NEW r, NEW a, Local(q, f, r, a),
         NEW k \in 1..(Len(q) + 1), k = 1 \/ q[k - 1].do \in Marks
  PROVE  Local(SubSeq(q, k, Len(q)), f, r, a)
<1> DEFINE w == SubSeq(q, k, Len(q))
<1>1. q \in Seq(StepRec) /\ Len(q) \in Nat BY DEF Local
<1>2. /\ w \in Seq(StepRec) /\ Len(w) = Len(q) + 1 - k
      /\ \A i \in 1..Len(w) : w[i] = q[i + k - 1]
 BY <1>1, SubSeqProperties
<1> SUFFICES ASSUME NEW i \in 1..Len(w) PROVE Fits(w, i, f, r, a)
 BY <1>2 DEF Local
<1> DEFINE j == i + k - 1
<1> HIDE DEF w
<1>3. i \in Nat /\ k \in Nat /\ j \in 1..Len(q) /\ w[i] = q[j] /\ i >= 1 /\ k >= 1 BY <1>1, <1>2
<1>4. Fits(q, j, f, r, a) BY <1>3 DEF Local
<1>5. \A n \in 1..Len(w) : \A D :
         D \cap Marks = {} /\ Follows(q, n + k - 1, D) => n > 1 /\ Follows(w, n, D)
 <2> SUFFICES ASSUME NEW n \in 1..Len(w), NEW D, D \cap Marks = {},
                     Follows(q, n + k - 1, D)
              PROVE  n > 1 /\ Follows(w, n, D)
  OBVIOUS
 <2>1. n \in Nat /\ n >= 1 BY <1>1, <1>2
 <2>2. n > 1
  <3> SUFFICES ASSUME n = 1 PROVE FALSE
   BY <2>1
  <3>1. k > 1 /\ q[k - 1].do \in D BY <1>3 DEF Follows
  <3> QED BY <3>1
 <2>3. w[n] = q[n + k - 1] /\ w[n - 1] = q[(n + k - 1) - 1]
  <3>1. n - 1 \in 1..Len(w) /\ (n - 1) + k - 1 = (n + k - 1) - 1 BY <1>1, <1>2, <1>3, <2>1, <2>2
  <3>2. w[n] = q[n + k - 1] /\ w[n - 1] = q[(n - 1) + k - 1] BY <1>2, <3>1
  <3> QED BY <3>1, <3>2
 <2> QED BY <2>2, <2>3, <1>3 DEF Follows
<1>6. MarkBefore(q, j) => MarkBefore(w, i) BY <1>5 DEF MarkBefore, Marks
<1>7. \A n \in 1..Len(w) : MountBefore(q, n + k - 1) => MountBefore(w, n)
 BY <1>5 DEF MountBefore, Marks
<1>8. UnlockBefore(q, j) => UnlockBefore(w, i)
 <2>1. CASE Follows(q, j, {"unlock"}) BY <1>5, <2>1 DEF UnlockBefore, Marks
 <2>2. CASE Follows(q, j, {"drop"}) /\ MountBefore(q, j - 1)
  <3>1. i > 1 /\ Follows(w, i, {"drop"}) BY <1>5, <2>2 DEF Marks
  <3>2. i - 1 \in 1..Len(w) /\ (i - 1) + k - 1 = j - 1 BY <1>1, <1>2, <1>3, <3>1
  <3>3. MountBefore(w, i - 1) BY <1>7, <2>2, <3>2
  <3> QED BY <3>1, <3>3 DEF UnlockBefore
 <2> QED BY <2>1, <2>2 DEF UnlockBefore
<1> QED BY <1>3, <1>4, <1>6, <1>7, <1>8, FitsMoves

LEMMA TrimLocal ==
  ASSUME NEW q, NEW f, NEW r, NEW a, Local(q, f, r, a)
  PROVE  Local(Trim(q), f, r, a)
<1>1. q \in Seq(StepRec) BY DEF Local
<1> QED BY <1>1, TrimSuffix, SuffixLocal

\* Other steps before a list only add to what it may rely on.
LEMMA ConcatLocal ==
  ASSUME NEW p, NEW q, NEW f, NEW r, NEW a, Local(p, f, r, a), Local(q, f, r, a)
  PROVE  Local(p \o q, f, r, a)
<1> DEFINE w == p \o q
           n == Len(p)
<1>1. p \in Seq(StepRec) /\ q \in Seq(StepRec) /\ n \in Nat /\ Len(q) \in Nat BY DEF Local
<1>2. /\ w \in Seq(StepRec) /\ Len(w) = n + Len(q)
      /\ \A i \in 1..n : w[i] = p[i]
      /\ \A i \in 1..Len(q) : w[n + i] = q[i]
 BY <1>1
<1> SUFFICES ASSUME NEW i \in 1..Len(w) PROVE Fits(w, i, f, r, a)
 BY <1>2 DEF Local
<1> HIDE DEF w
<1>3. CASE i \in 1..n
 <2>1. \A m \in 1..n : \A D : Follows(p, m, D) => m - 1 \in 1..n /\ Follows(w, m, D)
  BY <1>1, <1>2 DEF Follows
 <2>2. /\ MarkBefore(p, i) => MarkBefore(w, i)
       /\ MountBefore(p, i) => MountBefore(w, i)
       /\ UnlockBefore(p, i) => UnlockBefore(w, i)
  BY <1>3, <2>1 DEF MarkBefore, MountBefore, UnlockBefore
 <2>3. Fits(p, i, f, r, a) /\ w[i] = p[i] BY <1>2, <1>3 DEF Local
 <2> QED BY <2>2, <2>3, FitsMoves
<1>4. CASE i \notin 1..n
 <2> DEFINE j == i - n
 <2>1. j \in 1..Len(q) /\ i = n + j BY <1>1, <1>2, <1>4
 <2>2. \A m \in 1..Len(q) : \A D :
          Follows(q, m, D) => m - 1 \in 1..Len(q) /\ Follows(w, n + m, D)
  <3> SUFFICES ASSUME NEW m \in 1..Len(q), NEW D, Follows(q, m, D)
               PROVE  m - 1 \in 1..Len(q) /\ Follows(w, n + m, D)
   OBVIOUS
  <3>1. m \in Nat /\ m - 1 \in 1..Len(q) /\ n + m > 1 /\ (n + m) - 1 = n + (m - 1)
   BY <1>1 DEF Follows
  <3>2. w[n + m] = q[m] /\ w[(n + m) - 1] = q[m - 1] BY <1>2, <3>1
  <3> QED BY <3>1, <3>2 DEF Follows
 <2>3. \A m \in 1..Len(q) : MountBefore(q, m) => MountBefore(w, n + m) BY <2>2 DEF MountBefore
 <2>4. MarkBefore(q, j) => MarkBefore(w, i) BY <2>1, <2>2 DEF MarkBefore
 <2>5. UnlockBefore(q, j) => UnlockBefore(w, i)
  <3>1. CASE Follows(q, j, {"unlock"}) BY <2>1, <2>2, <3>1 DEF UnlockBefore
  <3>2. CASE Follows(q, j, {"drop"}) /\ MountBefore(q, j - 1)
   <4>1. j - 1 \in 1..Len(q) /\ n + (j - 1) = i - 1 BY <1>1, <2>1, <2>2, <3>2
   <4> QED BY <2>1, <2>2, <2>3, <3>2, <4>1 DEF UnlockBefore
  <3> QED BY <3>1, <3>2 DEF UnlockBefore
 <2>6. Fits(q, j, f, r, a) /\ w[i] = q[j] BY <1>2, <2>1 DEF Local
 <2> QED BY <2>1, <2>3, <2>4, <2>5, <2>6, FitsMoves
<1> QED BY <1>3, <1>4

\* What the first step x of a list gave to the steps after it is there once x is done, or
\* the steps that x asks for end with it.
Leaves(steps, x, f, a) ==
    LET n == Len(steps)
        Ends(k, do) == n > k /\ steps[n - k].do = do /\ steps[n - k].s = x.s
    IN
    /\ x.do = "mark" => x.s \in a
    /\ x.do \in {"mount", "connect"} => f[x.s] \notin Old \/ Ends(0, "connect")
    /\ x.do = "unlock" => f[x.s] # Legacy \/ (Ends(0, "drop") /\ Ends(1, "mount"))

LEMMA JoinLocal ==
  ASSUME NEW q, q # <<>>, NEW steps, NEW f, NEW r, NEW a, Local(q, f, r, a),
         Local(steps, f, r, a), Leaves(steps, q[1], f, a)
  PROVE  Local(steps \o Tail(q), f, r, a)
<1> DEFINE w == steps \o Tail(q)
           n == Len(steps)
           x == q[1]
<1>1. /\ steps \in Seq(StepRec) /\ q \in Seq(StepRec)
      /\ n \in Nat /\ Len(q) \in Nat \ {0}
 BY DEF Local
<1>2. /\ w \in Seq(StepRec) /\ Len(w) = n + Len(q) - 1
      /\ \A i \in 1..n : w[i] = steps[i]
      /\ \A i \in 2..Len(q) : w[n + i - 1] = q[i]
 <2>1. Tail(q) \in Seq(StepRec) /\ Len(Tail(q)) = Len(q) - 1
       /\ \A i \in 1..(Len(q) - 1) : Tail(q)[i] = q[i + 1]
  BY <1>1
 <2>2. \A i \in 1..(Len(q) - 1) : w[n + i] = q[i + 1] BY <1>1, <2>1
 <2>3. \A i \in 2..Len(q) : i - 1 \in 1..(Len(q) - 1) /\ n + (i - 1) = n + i - 1
                            /\ (i - 1) + 1 = i
  BY <1>1
 <2> QED BY <1>1, <2>1, <2>2, <2>3
<1> SUFFICES ASSUME NEW i \in 1..Len(w) PROVE Fits(w, i, f, r, a)
 BY <1>2 DEF Local
<1> HIDE DEF w
<1>3. CASE i \in 1..n
 <2>1. \A m \in 1..n : \A D : Follows(steps, m, D) => m - 1 \in 1..n /\ Follows(w, m, D)
  <3> SUFFICES ASSUME NEW m \in 1..n, NEW D, Follows(steps, m, D)
               PROVE  m - 1 \in 1..n /\ Follows(w, m, D)
   OBVIOUS
  <3>1. m - 1 \in 1..n /\ m > 1 BY <1>1 DEF Follows
  <3>2. w[m] = steps[m] /\ w[m - 1] = steps[m - 1] BY <1>2, <3>1
  <3> QED BY <3>1, <3>2 DEF Follows
 <2>2. /\ MarkBefore(steps, i) => MarkBefore(w, i)
       /\ MountBefore(steps, i) => MountBefore(w, i)
       /\ UnlockBefore(steps, i) => UnlockBefore(w, i)
  BY <1>3, <2>1 DEF MarkBefore, MountBefore, UnlockBefore
 <2>3. Fits(steps, i, f, r, a) /\ w[i] = steps[i] BY <1>2, <1>3 DEF Local
 <2> QED BY <2>2, <2>3, FitsMoves
<1>4. CASE i \notin 1..n
 <2> DEFINE j == i - n + 1
 <2>1. j \in 2..Len(q) /\ i = n + j - 1 BY <1>1, <1>2, <1>4
 <2>2. \A m \in 3..Len(q) : \A D : Follows(q, m, D) => Follows(w, n + m - 1, D)
  <3> SUFFICES ASSUME NEW m \in 3..Len(q), NEW D, Follows(q, m, D)
               PROVE  Follows(w, n + m - 1, D)
   OBVIOUS
  <3>1. m \in 2..Len(q) /\ m - 1 \in 2..Len(q) /\ n + m - 1 > 1
        /\ n + (m - 1) - 1 = (n + m - 1) - 1
   BY <1>1
  <3>2. w[n + m - 1] = q[m] /\ w[(n + m - 1) - 1] = q[m - 1] BY <1>2, <3>1
  <3> QED BY <3>1, <3>2 DEF Follows
 <2>3. w[n + 1] = q[2] /\ n + 2 - 1 = n + 1 BY <1>1, <1>2, <2>1
 <2>4. \A D : Follows(q, 2, D) <=> x.do \in D /\ x.s = q[2].s BY DEF Follows
 <2>5. n > 0 => w[(n + 1) - 1] = steps[n] /\ n + 1 > 1 BY <1>1, <1>2
 <2>6. n > 1 => w[n - 0] = steps[n] /\ w[n - 1] = steps[n - 1] BY <1>1, <1>2
 <2>7. MarkBefore(q, j) => MarkBefore(w, i) \/ q[j].s \in a
  <3>1. CASE j = 2 BY <2>4, <3>1 DEF MarkBefore, Leaves
  <3>2. CASE j \in 3..Len(q) BY <2>1, <2>2, <3>2 DEF MarkBefore
  <3> QED BY <1>1, <2>1, <3>1, <3>2
 <2>8. \A m \in 2..Len(q) : MountBefore(q, m) =>
          MountBefore(w, n + m - 1) \/ f[q[m].s] \notin Old
  <3> SUFFICES ASSUME NEW m \in 2..Len(q), MountBefore(q, m), f[q[m].s] \in Old
               PROVE  MountBefore(w, n + m - 1)
   OBVIOUS
  <3>1. CASE m = 2
   <4>1. x.do \in {"mount", "connect"} /\ x.s = q[2].s BY <2>4, <3>1 DEF MountBefore
   <4>2. n > 0 /\ steps[n].do = "connect" /\ steps[n].s = x.s BY <1>1, <3>1, <4>1 DEF Leaves
   <4> QED BY <2>3, <2>5, <3>1, <4>1, <4>2 DEF MountBefore, Follows
  <3>2. CASE m \in 3..Len(q) BY <2>2, <3>2 DEF MountBefore
  <3> QED BY <1>1, <3>1, <3>2
 <2>9. UnlockBefore(q, j) => UnlockBefore(w, i) \/ f[q[j].s] # Legacy
  <3> SUFFICES ASSUME UnlockBefore(q, j), f[q[j].s] = Legacy
               PROVE  UnlockBefore(w, i)
   OBVIOUS
  <3>1. CASE Follows(q, j, {"unlock"}) /\ j = 2
   <4>1. x.do = "unlock" /\ x.s = q[2].s BY <2>4, <3>1
   <4>2. /\ n > 1 /\ steps[n].do = "drop" /\ steps[n].s = x.s
         /\ steps[n - 1].do = "mount" /\ steps[n - 1].s = x.s
    BY <1>1, <3>1, <4>1 DEF Leaves
   <4>3. Follows(w, i, {"drop"}) BY <1>1, <2>1, <2>3, <2>5, <3>1, <4>1, <4>2 DEF Follows
   <4>4. i - 1 = n /\ w[n] = steps[n] /\ w[n - 1] = steps[n - 1] BY <1>1, <2>1, <2>6, <3>1, <4>2
   <4>5. MountBefore(w, i - 1) BY <4>2, <4>4 DEF MountBefore, Follows
   <4> QED BY <4>3, <4>5 DEF UnlockBefore
  <3>2. CASE Follows(q, j, {"unlock"}) /\ j # 2 BY <1>1, <2>1, <2>2, <3>2 DEF UnlockBefore
  <3>3. CASE Follows(q, j, {"drop"}) /\ MountBefore(q, j - 1)
   <4>1. j # 2 BY <3>3 DEF MountBefore, Follows
   <4>2. j \in 3..Len(q) /\ j - 1 \in 2..Len(q) /\ n + (j - 1) - 1 = i - 1
    <5> HIDE DEF j, n
    <5> QED BY <1>1, <2>1, <4>1
   <4>3. Follows(w, i, {"drop"}) BY <2>1, <2>2, <3>3, <4>2
   <4>4. q[j - 1].s = q[j].s BY <3>3 DEF Follows
   <4>5. MountBefore(w, i - 1) BY <2>8, <3>3, <4>2, <4>4 DEF Old
   <4> QED BY <4>3, <4>5 DEF UnlockBefore
  <3> QED BY <3>1, <3>2, <3>3 DEF UnlockBefore
 <2>10. Fits(q, j, f, r, a) /\ w[i] = q[j] BY <1>1, <1>2, <2>1 DEF Local
 <2>11. MountBefore(q, j) => MountBefore(w, i) \/ f[q[j].s] \notin Old BY <2>1, <2>8
 <2> QED BY <2>7, <2>9, <2>10, <2>11, FitsMoves
<1> QED BY <1>3, <1>4

LEMMA EachLocal ==
  ASSUME NEW do \in FreeDo, NEW S \in SUBSET Scopes,
         do \notin OfWorkspace \/ S \subseteq Workspaces,
         NEW q \in Seq(Each(do, S)), NEW f, NEW r, NEW a
  PROVE  Local(q, f, r, a)
<1>1. "skip" \in FreeDo /\ "skip" \notin OfWorkspace BY DEF FreeDo, OfWorkspace
<1>2. \A s \in S : Step(do, s) \in Free /\ Step("skip", s) \in Free BY <1>1, StepFree
<1>3. Each(do, S) \subseteq Free BY <1>2 DEF Each
<1>4. q \in Seq(Free)
 <2> HIDE DEF Each
 <2>1. \A i \in 1..Len(q) : q[i] \in Free BY <1>3
 <2> QED BY <2>1
<1> QED BY <1>4, FreeLocal

\* An error leaves a list that relies on nothing more.
LEMMA FailedLocal ==
  ASSUME NEW q, NEW error \in Errors, NEW f, NEW r, NEW a, Local(q, f, r, a)
  PROVE  Local(Failed(q, error), f, r, a)
<1>1. q \in Seq(StepRec) /\ Len(q) \in Nat BY DEF Local
<1>2. CASE Failed(q, error) = <<>> BY <1>2 DEF Local
<1>3. CASE Failed(q, error) # <<>>
 <2>1. PICK k \in 1..Len(q) :
          /\ q[k].do \in Marks
          /\ Failed(q, error) = Trim(CleanUp(q[k]) \o SubSeq(q, k + 1, Len(q)))
  BY <1>1, <1>3, FailedIs
 <2>2. k + 1 \in 1..(Len(q) + 1) /\ (k + 1) - 1 = k BY <1>1
 <2>3. Local(SubSeq(q, k + 1, Len(q)), f, r, a) BY <2>1, <2>2, SuffixLocal
 <2>4. Local(CleanUp(q[k]), f, r, a)
  <3>1. q[k] \in StepRec BY <1>1
  <3> DEFINE s == q[k].s
  <3>2. s \in Scopes /\ App \in Scopes BY <3>1 DEF StepRec, Scopes
  <3>3. /\ Step("kslock", App) \in Free /\ Step("close", App) \in Free
        /\ Step("closeone", s) \in Free /\ Step("ksdelete", s) \in Free
        /\ Step("skip", s) \in Free /\ Step("unlink", s) \in Free
   BY <3>2, StepFree DEF FreeDo, OfWorkspace
  <3>4. CleanUp(q[k]) \in Seq(Free) BY <2>1, <3>3 DEF CleanUp, Discard, Marks
  <3> QED BY <3>4, FreeLocal
 <2> QED BY <2>1, <2>3, <2>4, ConcatLocal, TrimLocal
<1> QED BY <1>2, <1>3

--------------------------------------------------
(* The invariant.  An open database is not old (OpenMoved), a staged version *)
(* belongs to a scope that exists (StagedLater), an old main workspace is    *)
(* listed (MainListed), and every list of steps finds what it relies on.     *)

Typed ==
    /\ KeystoreType
    /\ file \in [Scopes -> Serials \cup {Missing, Plain, Legacy}]
    /\ conn \in [Scopes -> {"no", "live", "stale"}]
    /\ rows \subseteq Workspaces /\ adopting \subseteq Workspaces

OpenMoved   == \A s \in Scopes : Mounted(s) => file[s] \notin Old
StagedLater == \A s \in Scopes : Rotating(s) => Exists(s)
MainListed  == Main \in Workspaces /\ file[Main] \in Old => Main \in rows

Data == Typed /\ OpenMoved /\ StagedLater /\ MainListed /\ Finishable

Jobs == /\ job \in [Threads -> Seq(StepRec)]
        /\ \A t \in Threads : Local(job[t], file, rows, adopting)

Movable == Data /\ Jobs /\ started \in BOOLEAN /\ ready \in BOOLEAN

\* A file is never made old, and a plain one never loses the mark it has.
Kept == \A s \in Scopes :
    /\ file'[s] = file[s] \/ file'[s] \notin Old
    /\ file'[s] = Plain /\ (s \notin rows \/ s \in adopting)
         => s \notin rows' \/ s \in adopting'

LEMMA KeptLocal ==
  ASSUME NEW q, Local(q, file, rows, adopting), Kept
  PROVE  Local(q, file', rows', adopting')
<1>1. q \in Seq(StepRec) /\ \A i \in 1..Len(q) : q[i].s \in Scopes
 <2>1. q \in Seq(StepRec) /\ \A i \in 1..Len(q) : q[i] \in StepRec BY DEF Local
 <2> QED BY <2>1 DEF StepRec
<1> SUFFICES ASSUME NEW i \in 1..Len(q)
             PROVE  Fits(q, i, file', rows', adopting')
 BY <1>1 DEF Local
<1>2. Fits(q, i, file, rows, adopting) /\ q[i].s \in Scopes BY <1>1 DEF Local
<1> QED BY <1>2 DEF Fits, Kept, Old

LEMMA HeadFits ==
  ASSUME Jobs, NEW t \in Threads, job[t] # <<>>
  PROVE  /\ It(t) = job[t][1] /\ It(t) \in StepRec
         /\ It(t).do \in {"createnew", "row"} => file[It(t).s] \notin Old
         /\ It(t).do = "create" =>
              /\ It(t).with = "own" \/ file[It(t).s] # Legacy
              /\ file[It(t).s] # Plain \/ It(t).s \notin rows \/ It(t).s \in adopting
         /\ It(t).do = "unmark" => file[It(t).s] # Plain
         /\ It(t).do = "rmpw" => It(t).s = App \/ file[It(t).s] # Legacy
         /\ It(t).do = "delrow" => It(t).s # Main
         /\ It(t).do \in {"rekey", "rename", "connect"} => It(t).with \in Serials
<1>1. Local(job[t], file, rows, adopting) /\ job[t] \in Seq(StepRec) BY DEF Jobs, Local
<1>2. Len(job[t]) \in Nat /\ 1 \in 1..Len(job[t]) BY <1>1
<1>3. Fits(job[t], 1, file, rows, adopting) BY <1>1, <1>2 DEF Local
<1>4. It(t) = job[t][1] /\ It(t) \in StepRec BY <1>1, <1>2 DEF It
<1> QED BY <1>3, <1>4 DEF Fits, MarkBefore, MountBefore, UnlockBefore, Follows

\* What a handler does to the list of its thread.
Works(t) == \E p : job' = [job EXCEPT ![t] = p] /\ Local(p, file', rows', adopting')

LEMMA ThenWorks ==
  ASSUME Jobs, Kept, NEW t \in Threads, job[t] # <<>>, NEW steps, Then(t, steps),
         Local(steps, file', rows', adopting'),
         Leaves(steps, It(t), file', adopting')
  PROVE  Works(t)
<1>1. Local(job[t], file', rows', adopting') BY KeptLocal DEF Jobs
<1>2. It(t) = job[t][1] BY HeadFits
<1>3. Local(Trim(steps \o Tail(job[t])), file', rows', adopting')
 BY <1>1, <1>2, JoinLocal, TrimLocal
<1> QED BY <1>3 DEF Then, Works

LEMMA FailWorks ==
  ASSUME Jobs, Kept, NEW t \in Threads, NEW error \in Errors, Fail(t, error)
  PROVE  Works(t)
<1>1. Local(job[t], file', rows', adopting') BY KeptLocal DEF Jobs
<1>2. Local(Failed(job[t], error), file', rows', adopting') BY <1>1, FailedLocal
<1> QED BY <1>2, FailIs DEF Works

LEMMA SameData ==
  ASSUME Data, UNCHANGED <<keystore, databases>>
  PROVE  Data' /\ Kept
BY DEF Data, Typed, KeystoreType, OpenMoved, StagedLater, MainListed, Finishable, Kept,
       keystore, databases, Mounted, Rotating, Exists

--------------------------------------------------
(* The handlers.  Each keeps Data, keeps what lists rely on, and leaves a    *)
(* list that finds what it relies on.                                        *)

Handled(t) == Data' /\ Kept /\ Works(t)

\* Any step that leaves nothing to the steps after it.
LEMMA PlainThen ==
  ASSUME Jobs, Kept, NEW t \in Threads, NEW do, At(t, do),
         do \notin {"mark", "mount", "connect", "unlock"}, NEW steps, Then(t, steps),
         Local(steps, file', rows', adopting')
  PROVE  Works(t)
<1>1. job[t] # <<>> /\ It(t).do = do BY DEF At, It
<1>2. Leaves(steps, It(t), file', adopting') BY <1>1 DEF Leaves
<1> QED BY <1>1, <1>2, ThenWorks

\* In particular one that asks for steps that rely on nothing.
LEMMA FreeThen ==
  ASSUME Jobs, Kept, NEW t \in Threads, NEW do, At(t, do),
         do \notin {"mark", "mount", "connect", "unlock"}, NEW steps \in Seq(Free),
         Then(t, steps)
  PROVE  Works(t)
<1>1. Local(steps, file', rows', adopting') BY FreeLocal
<1> QED BY <1>1, PlainThen

LEMMA ErrorsAre == "locked" \in Errors /\ "needs" \in Errors /\ "io" \in Errors
BY DEF Errors

LEMMA HeadScope ==
  ASSUME Jobs, NEW t \in Threads, NEW do, At(t, do)
  PROVE  job[t] # <<>> /\ It(t).do = do /\ It(t).s \in Scopes /\ App \in Scopes
<1>1. job[t] # <<>> /\ It(t).do = do BY DEF At, It
<1>2. It(t) \in StepRec BY <1>1, HeadFits
<1> QED BY <1>1, <1>2 DEF StepRec, Scopes

LEMMA ScopesFinite ==
  ASSUME NEW S \in SUBSET Scopes
  PROVE  IsFiniteSet(S)
<1>1. IsFiniteSet(Scopes)
 BY StoreConstants, FS_EmptySet, FS_AddElement, FS_Union, FS_Singleton DEF Scopes
<1> QED BY <1>1, FS_Subset

LEMMA EachOfLocal ==
  ASSUME NEW do \in FreeDo, NEW S \in SUBSET Scopes,
         do \notin OfWorkspace \/ S \subseteq Workspaces, NEW f, NEW r, NEW a
  PROVE  Local(EachOf(S, do), f, r, a)
BY ScopesFinite, EachOfSeq, EachLocal

LEMMA AppWideLocal ==
  ASSUME NEW S \in SUBSET Scopes, NEW f, NEW r, NEW a
  PROVE  Local(AppWide(S), f, r, a)
<1> DEFINE own == IF App \in S THEN <<Step("complete", App)>> ELSE <<>>
<1>1. Step("complete", App) \in Free BY StepFree DEF FreeDo, OfWorkspace, Scopes
<1>2. Local(own, f, r, a)
 <2>1. own \in Seq(Free) BY <1>1
 <2> QED BY <2>1, FreeLocal
<1>3. Local(EachOf(S \ {App}, "complete"), f, r, a)
 <2>1. "complete" \in FreeDo /\ "complete" \notin OfWorkspace /\ S \ {App} \in SUBSET Scopes
  BY DEF FreeDo, OfWorkspace
 <2> QED BY <2>1, EachOfLocal
<1> HIDE DEF own
<1>4. Local(own \o EachOf(S \ {App}, "complete"), f, r, a) BY <1>2, <1>3, ConcatLocal
<1> QED BY <1>4 DEF AppWide, own

\* The lists that hold a checked step.
LEMMA OneLocal ==
  ASSUME NEW x \in StepRec, NEW f, NEW r, NEW a, Fits(<<x>>, 1, f, r, a)
  PROVE  Local(<<x>>, f, r, a)
BY DEF Local

LEMMA KeyedLocal ==
  ASSUME NEW do \in {"rekey", "rename", "connect"}, NEW s \in Scopes, NEW n \in Serials,
         NEW f, NEW r, NEW a
  PROVE  Local(<<StepWith(do, s, n)>>, f, r, a)
<1> DEFINE x == StepWith(do, s, n)
<1>1. x \in StepRec /\ x.do = do /\ x.with = n
 BY DEF StepWith, StepRec, Checked, Withs, OfWorkspace
<1>2. Fits(<<x>>, 1, f, r, a) BY <1>1 DEF Fits
<1> QED BY <1>1, <1>2, OneLocal

LEMMA FreeFits ==
  ASSUME NEW q, NEW i, q[i] \in Free, NEW f, NEW r, NEW a
  PROVE  q[i] \in StepRec /\ Fits(q, i, f, r, a)
BY DEF Free, Fits, Checked

LEMMA RekeyLocal ==
  ASSUME NEW s \in Scopes, NEW n \in Serials, NEW f, NEW r, NEW a
  PROVE  Local(<<StepWith("rekey", s, n), Step("commit", s)>>, f, r, a)
<1> DEFINE x == StepWith("rekey", s, n)
           y == Step("commit", s)
           q == <<x, y>>
<1>1. y \in Free BY StepFree DEF FreeDo, OfWorkspace
<1>2. x \in StepRec /\ x.do = "rekey" /\ x.with = n
 BY DEF StepWith, StepRec, Checked, Withs, OfWorkspace
<1> HIDE DEF x, y
<1>3. Fits(q, 1, f, r, a) BY <1>2 DEF Fits
<1>4. y \in StepRec /\ Fits(q, 2, f, r, a) BY <1>1, FreeFits
<1>5. q \in Seq(StepRec) /\ Len(q) = 2 BY <1>2, <1>4
<1> HIDE DEF q
<1>6. \A i \in 1..2 : i = 1 \/ i = 2 OBVIOUS
<1>7. Local(q, f, r, a) BY <1>3, <1>4, <1>5, <1>6 DEF Local
<1> QED BY <1>7 DEF q, x, y

LEMMA SweepHandled ==
  ASSUME Data, Jobs, NEW t \in Threads, Sweep(t)
  PROVE  Handled(t)
<1>1. Data' /\ Kept BY SameData DEF Sweep, Same
<1> DEFINE S == {s \in Scopes : Rotating(s) /\ Unlocked(s)}
<1>2. At(t, "sweep") /\ Then(t, AppWide(S)) BY DEF Sweep
<1>3. Local(AppWide(S), file', rows', adopting') BY AppWideLocal
<1> HIDE DEF S
<1> QED BY <1>1, <1>2, <1>3, PlainThen DEF Handled

LEMMA OpenAllHandled ==
  ASSUME Data, Jobs, NEW t \in Threads, OpenAll(t)
  PROVE  Handled(t)
<1>1. Data' /\ Kept BY SameData DEF OpenAll, Same
<1>2. CASE MainOpen
 <2>1. At(t, "openall") /\ Then(t, EachOf(rows, "open")) BY <1>2 DEF OpenAll
 <2>2. "open" \in FreeDo /\ rows \in SUBSET Scopes /\ rows \subseteq Workspaces
  BY DEF FreeDo, Data, Typed, Scopes
 <2>3. Local(EachOf(rows, "open"), file', rows', adopting') BY <2>2, EachOfLocal
 <2> QED BY <1>1, <2>1, <2>3, PlainThen DEF Handled
<1>3. CASE ~ MainOpen BY <1>1, <1>3, ErrorsAre, FailWorks DEF OpenAll, Handled
<1> QED BY <1>2, <1>3

LEMMA AnnounceHandled ==
  ASSUME Data, Jobs, NEW t \in Threads, Announce(t)
  PROVE  Handled(t)
<1>1. Data' /\ Kept BY SameData DEF Announce, Same
<1>2. <<>> \in Seq(Free) /\ At(t, "ready") /\ Then(t, <<>>) BY DEF Announce
<1> QED BY <1>1, <1>2, FreeThen DEF Handled

LEMMA CompleteHandled ==
  ASSUME Data, Jobs, NEW t \in Threads, Complete(t)
  PROVE  Handled(t)
<1>1. Data' /\ Kept BY SameData DEF Complete, Same
<1> DEFINE s == It(t).s
<1>2. At(t, "complete") /\ s \in Scopes BY HeadScope DEF Complete
<1>3. CASE Then(t, <<>>)
 <2>1. <<>> \in Seq(Free) OBVIOUS
 <2> QED BY <1>1, <1>2, <1>3, <2>1, FreeThen DEF Handled
<1>4. CASE Fail(t, "locked") BY <1>1, <1>4, ErrorsAre, FailWorks DEF Handled
<1>5. CASE Rotating(s) /\ Then(t, MoveThenCommit(s))
 <2>1. staged[s] \in Serials BY <1>2, <1>5 DEF Data, Typed, KeystoreType, Rotating
 <2>2. Local(MoveThenCommit(s), file', rows', adopting')
  BY <1>2, <2>1, RekeyLocal DEF MoveThenCommit
 <2> QED BY <1>1, <1>2, <1>5, <2>2, PlainThen DEF Handled
<1> QED BY <1>3, <1>4, <1>5 DEF Complete

LEMMA FinishAdoptionHandled ==
  ASSUME Data, Jobs, NEW t \in Threads, FinishAdoption(t)
  PROVE  Handled(t)
<1>1. Data' /\ Kept BY SameData DEF FinishAdoption, Same
<1> DEFINE s == It(t).s
<1>2. At(t, "adopted") /\ s \in Scopes BY HeadScope DEF FinishAdoption
<1>3. \/ Then(t, <<StepWith("move", s, Plain)>>)
      \/ Then(t, <<>>)
 BY DEF FinishAdoption
<1>4. <<>> \in Seq(Free) /\ <<StepWith("move", s, Plain)>> \in Seq(Free)
 BY <1>2, StepWithFree DEF FreeDo, OfWorkspace, Withs
<1> QED BY <1>1, <1>2, <1>3, <1>4, FreeThen DEF Handled

LEMMA MoveHandled ==
  ASSUME Data, Jobs, NEW t \in Threads, Move(t)
  PROVE  Handled(t)
<1>1. Data' /\ Kept BY SameData DEF Move, Same
<1> DEFINE s == It(t).s
<1>2. At(t, "move") /\ s \in Scopes BY HeadScope DEF Move
<1>3. \/ Fail(t, "locked") \/ Fail(t, "io")
      \/ Then(t, <<>>)
      \/ Unlocked(s) /\ Then(t, <<StepWith("rename", s, cur[s])>>)
 BY DEF Move, Locked
<1>4. CASE Fail(t, "locked") \/ Fail(t, "io") BY <1>1, <1>4, ErrorsAre, FailWorks DEF Handled
<1>5. CASE Then(t, <<>>)
 <2>1. <<>> \in Seq(Free) OBVIOUS
 <2> QED BY <1>1, <1>2, <1>5, <2>1, FreeThen DEF Handled
<1>6. CASE Unlocked(s) /\ Then(t, <<StepWith("rename", s, cur[s])>>)
 <2>1. cur[s] \in Serials BY <1>2, <1>6 DEF Data, Typed, KeystoreType, Unlocked, Exists
 <2>2. Local(<<StepWith("rename", s, cur[s])>>, file', rows', adopting')
  BY <1>2, <2>1, KeyedLocal
 <2> QED BY <1>1, <1>2, <1>6, <2>2, PlainThen DEF Handled
<1> QED BY <1>3, <1>4, <1>5, <1>6

LEMMA MountHandled ==
  ASSUME Data, Jobs, NEW t \in Threads, Mount(t)
  PROVE  Handled(t)
<1>1. Data' /\ Kept /\ file' = file BY SameData DEF Mount, Same, databases
<1> DEFINE s == It(t).s
<1>2. job[t] # <<>> /\ It(t).do = "mount" /\ s \in Scopes BY HeadScope DEF Mount
<1>3. \/ Fail(t, "locked")
      \/ Mounted(s) /\ Then(t, <<>>)
      \/ Unlocked(s) /\ Then(t, <<StepWith("connect", s, cur[s])>>)
 BY DEF Mount, Locked
<1>4. CASE Fail(t, "locked") BY <1>1, <1>4, ErrorsAre, FailWorks DEF Handled
<1>5. CASE Mounted(s) /\ Then(t, <<>>)
 <2>1. <<>> \in Seq(Free) OBVIOUS
 <2>2. Local(<<>>, file', rows', adopting') BY <2>1, FreeLocal
 <2>3. file'[s] \notin Old BY <1>1, <1>2, <1>5 DEF Data, OpenMoved
 <2>4. Leaves(<<>>, It(t), file', adopting') BY <1>2, <2>3 DEF Leaves
 <2> QED BY <1>1, <1>2, <1>5, <2>2, <2>4, ThenWorks DEF Handled
<1>6. CASE Unlocked(s) /\ Then(t, <<StepWith("connect", s, cur[s])>>)
 <2> DEFINE x == StepWith("connect", s, cur[s])
 <2>1. cur[s] \in Serials BY <1>2, <1>6 DEF Data, Typed, KeystoreType, Unlocked, Exists
 <2>2. Local(<<x>>, file', rows', adopting') BY <1>2, <2>1, KeyedLocal
 <2>3. x.do = "connect" /\ x.s = s BY DEF StepWith
 <2> HIDE DEF x
 <2>4. Leaves(<<x>>, It(t), file', adopting') BY <1>2, <2>3 DEF Leaves
 <2> QED BY <1>1, <1>2, <1>6, <2>2, <2>4, ThenWorks DEF Handled, x
<1> QED BY <1>3, <1>4, <1>5, <1>6

LEMMA EmptyLocal ==
  ASSUME NEW f, NEW r, NEW a
  PROVE  Local(<<>>, f, r, a)
<1>1. <<>> \in Seq(Free) OBVIOUS
<1> QED BY <1>1, FreeLocal

\* A file gets a key of the keystore, or goes.
LEMMA FileMoves ==
  ASSUME Data, NEW s \in Scopes, NEW n \in Serials \cup {Missing},
         file' = [file EXCEPT ![s] = n], UNCHANGED <<keystore, rows, adopting>>,
         conn' \in [Scopes -> {"no", "live", "stale"}],
         \A x \in Scopes \ {s} : conn'[x] # "no" => conn[x] # "no"
  PROVE  Data' /\ Kept /\ file'[s] \notin Old
<1>1. n \notin Old BY StoreConstants DEF Old, Missing, Plain, Legacy
<1>2. /\ file' \in [Scopes -> Serials \cup {Missing, Plain, Legacy}]
      /\ file'[s] = n /\ \A x \in Scopes \ {s} : file'[x] = file[x]
 BY DEF Data, Typed
<1>3. Kept BY <1>1, <1>2 DEF Kept, Old
<1>4. Typed' BY <1>2 DEF Data, Typed, KeystoreType, keystore
<1>5. OpenMoved' BY <1>1, <1>2 DEF Data, OpenMoved, Mounted
<1>6. StagedLater' BY DEF Data, StagedLater, keystore, Rotating, Exists
<1>7. MainListed' BY <1>1, <1>2 DEF Data, MainListed, Scopes
<1>8. Finishable' BY <1>1, <1>2 DEF Data, Typed, Finishable, keystore, Exists, Old, Scopes
<1> QED BY <1>1, <1>2, <1>3, <1>4, <1>5, <1>6, <1>7, <1>8 DEF Data

\* A connection is opened on a database that is not old, or made.
LEMMA ConnectHandled ==
  ASSUME Data, Jobs, NEW t \in Threads, Connect(t)
  PROVE  Handled(t)
<1> DEFINE s == It(t).s
           key == It(t).with
<1>1. At(t, "connect") /\ s \in Scopes /\ It(t).do = "connect" /\ job[t] # <<>>
 BY HeadScope DEF Connect
<1>2. key \in Serials BY <1>1, HeadFits
<1>3. CASE /\ file' = [file EXCEPT ![s] = key]
           /\ conn' = [conn EXCEPT ![s] = "live"]
           /\ Then(t, <<>>)
 <2>1. UNCHANGED <<keystore, rows, adopting>> BY DEF Connect
 <2>2. /\ conn' \in [Scopes -> {"no", "live", "stale"}]
       /\ \A x \in Scopes \ {s} : conn'[x] # "no" => conn[x] # "no"
  BY <1>1, <1>3 DEF Data, Typed
 <2>3. Data' /\ Kept /\ file'[s] \notin Old BY <1>1, <1>2, <1>3, <2>1, <2>2, FileMoves
 <2>4. Leaves(<<>>, It(t), file', adopting') BY <1>1, <2>3 DEF Leaves
 <2> QED BY <1>1, <1>3, <2>3, <2>4, EmptyLocal, ThenWorks DEF Handled
<1>4. CASE /\ Fail(t, IF sealed[s] /\ file[s] # Plain THEN "needs" ELSE "io")
           /\ UNCHANGED <<file, conn>>
 <2>1. Data' /\ Kept BY <1>4, SameData DEF Connect, databases
 <2>2. (IF sealed[s] /\ file[s] # Plain THEN "needs" ELSE "io") \in Errors BY DEF Errors
 <2> QED BY <1>4, <2>1, <2>2, FailWorks DEF Handled
<1> QED BY <1>3, <1>4 DEF Connect

LEMMA RekeyHandled ==
  ASSUME Data, Jobs, NEW t \in Threads, Rekey(t)
  PROVE  Handled(t)
<1> DEFINE s == It(t).s
           to == It(t).with
<1>1. At(t, "rekey") /\ s \in Scopes /\ It(t).do = "rekey" /\ job[t] # <<>>
 BY HeadScope DEF Rekey
<1>2. to \in Serials BY <1>1, HeadFits
<1>3. UNCHANGED <<keystore, conn, rows, adopting>> BY DEF Rekey
<1>4. Data' /\ Kept
 <2>1. CASE file' = file BY <1>3, <2>1, SameData DEF databases
 <2>2. CASE file' = [file EXCEPT ![s] = to]
  <3>1. conn' \in [Scopes -> {"no", "live", "stale"}] /\ conn' = conn BY <1>3 DEF Data, Typed
  <3> QED BY <1>1, <1>2, <1>3, <2>2, <3>1, FileMoves
 <2> QED BY <2>1, <2>2 DEF Rekey
<1>5. \/ Then(t, <<>>) \/ Then(t, <<StepWith("rename", s, to)>>)
      \/ Fail(t, "locked") \/ Fail(t, "io")
 BY DEF Rekey
<1>6. CASE Fail(t, "locked") \/ Fail(t, "io") BY <1>4, <1>6, ErrorsAre, FailWorks DEF Handled
<1>7. CASE Then(t, <<>>) BY <1>1, <1>4, <1>7, EmptyLocal, PlainThen DEF Handled
<1>8. CASE Then(t, <<StepWith("rename", s, to)>>)
 <2>1. Local(<<StepWith("rename", s, to)>>, file', rows', adopting') BY <1>1, <1>2, KeyedLocal
 <2> QED BY <1>1, <1>4, <1>8, <2>1, PlainThen DEF Handled
<1> QED BY <1>5, <1>6, <1>7, <1>8

LEMMA CopyDoneHandled ==
  ASSUME Data, Jobs, NEW t \in Threads, CopyDone(t)
  PROVE  Handled(t)
<1> DEFINE s == It(t).s
<1>1. At(t, "rename") /\ s \in Scopes /\ It(t).do = "rename" /\ job[t] # <<>>
 BY HeadScope DEF CopyDone
<1>2. It(t).with \in Serials BY <1>1, HeadFits
<1>3. /\ file' = [file EXCEPT ![s] = It(t).with]
      /\ conn' = [conn EXCEPT ![s] = IF conn[s] = "live" THEN "stale" ELSE conn[s]]
      /\ Then(t, <<>>) /\ UNCHANGED <<keystore, rows, adopting>>
 BY DEF CopyDone
<1>4. /\ conn' \in [Scopes -> {"no", "live", "stale"}]
      /\ \A x \in Scopes \ {s} : conn'[x] # "no" => conn[x] # "no"
 BY <1>1, <1>3 DEF Data, Typed
<1>5. Data' /\ Kept BY <1>1, <1>2, <1>3, <1>4, FileMoves
<1> QED BY <1>1, <1>3, <1>5, EmptyLocal, PlainThen DEF Handled

LEMMA OpenMainHandled ==
  ASSUME Data, Jobs, NEW t \in Threads, OpenMain(t)
  PROVE  Handled(t)
<1>1. At(t, "openmain") /\ App \in Scopes BY HeadScope DEF OpenMain
<1>2. \/ UNCHANGED <<file, conn, rows>> /\ \/ Then(t, <<>>)
                                           \/ Fail(t, "locked") \/ Fail(t, "io")
      \/ /\ Unlocked(App)
         /\ file' = [file EXCEPT ![App] = cur[App]]
         /\ conn' = [conn EXCEPT ![App] = "live"]
         /\ rows' = IF rows = {} THEN {Main} \ {None} ELSE rows
         /\ Then(t, <<>>)
 BY DEF OpenMain
<1>3. UNCHANGED <<keystore, adopting>> BY DEF OpenMain
<1>4. CASE /\ UNCHANGED <<file, conn, rows>>
           /\ Then(t, <<>>) \/ Fail(t, "locked") \/ Fail(t, "io")
 <2>1. Data' /\ Kept BY <1>3, <1>4, SameData DEF databases
 <2> QED BY <1>1, <1>4, <2>1, EmptyLocal, PlainThen, ErrorsAre, FailWorks DEF Handled
<1>5. CASE /\ Unlocked(App)
           /\ file' = [file EXCEPT ![App] = cur[App]]
           /\ conn' = [conn EXCEPT ![App] = "live"]
           /\ rows' = IF rows = {} THEN {Main} \ {None} ELSE rows
           /\ Then(t, <<>>)
 <2>1. cur[App] \in Serials /\ cur[App] \notin Old
  BY <1>1, <1>5, StoreConstants
     DEF Data, Typed, KeystoreType, Unlocked, Exists, Old, Missing, Plain, Legacy
 <2>2. /\ file' \in [Scopes -> Serials \cup {Missing, Plain, Legacy}]
       /\ file'[App] = cur[App] /\ \A x \in Workspaces : file'[x] = file[x]
  BY <1>1, <1>5, <2>1, StoreConstants DEF Data, Typed, Scopes
 <2>3. /\ conn' \in [Scopes -> {"no", "live", "stale"}]
       /\ \A x \in Workspaces : conn'[x] = conn[x]
  BY <1>1, <1>5, StoreConstants DEF Data, Typed, Scopes
 <2>4. \A x \in rows' : x \in rows \/ (x = Main /\ Main \in Workspaces /\ rows = {})
  BY <1>5, StoreConstants
 <2>5. \A x \in rows' : x \in rows \/ (x \in Workspaces /\ file[x] \notin Old)
  BY <2>4 DEF Data, MainListed
 <2>6. rows' \subseteq Workspaces BY <2>5 DEF Data, Typed
 <2>7. Kept BY <1>3, <2>1, <2>2, <2>5 DEF Kept, Scopes, Old
 <2>8. Typed' BY <1>3, <2>2, <2>3, <2>6 DEF Data, Typed, KeystoreType, keystore
 <2>9. OpenMoved' BY <2>1, <2>2, <2>3 DEF Data, OpenMoved, Mounted, Scopes
 <2>10. StagedLater' BY <1>3 DEF Data, StagedLater, keystore, Rotating, Exists
 <2>11. MainListed' BY <1>5, <2>2 DEF Data, MainListed
 <2>12. Finishable' BY <1>3, <2>2, <2>5, <2>6 DEF Data, Finishable, keystore, Exists, Old
 <2>13. Data' BY <2>8, <2>9, <2>10, <2>11, <2>12 DEF Data
 <2> QED BY <1>1, <1>5, <2>7, <2>13, EmptyLocal, PlainThen DEF Handled
<1> QED BY <1>2, <1>4, <1>5

\* A mark or a row changes: only a database that is not plain loses its mark, only one that
\* is not old gets a row.
LEMMA RowsChange ==
  ASSUME Data, UNCHANGED <<keystore, file>>,
         conn' \in [Scopes -> {"no", "live", "stale"}],
         \A s \in Scopes : conn'[s] # "no" => conn[s] # "no",
         rows' \subseteq Workspaces, adopting' \subseteq Workspaces,
         \A s \in rows' : s \in rows \/ file[s] \notin Old,
         \A s \in adopting : s \in adopting' \/ s \notin rows' \/ file[s] # Plain,
         Main \in rows => Main \in rows'
  PROVE  Data' /\ Kept
<1>1. Kept BY DEF Kept, Old
<1>2. Typed' BY DEF Data, Typed, KeystoreType, keystore
<1>3. OpenMoved' BY DEF Data, OpenMoved, Mounted
<1>4. StagedLater' BY DEF Data, StagedLater, keystore, Rotating, Exists
<1>5. MainListed' BY DEF Data, MainListed
<1>6. Finishable' BY DEF Data, Finishable, keystore, Exists, Old
<1> QED BY <1>1, <1>2, <1>3, <1>4, <1>5, <1>6 DEF Data

LEMMA WriteRowHandled ==
  ASSUME Data, Jobs, NEW t \in Threads, WriteRow(t)
  PROVE  Handled(t)
<1> DEFINE s == It(t).s
<1>1. PICK do \in {"mark", "unmark", "row"} : At(t, do) BY DEF WriteRow
<1>2. job[t] # <<>> /\ It(t).do = do /\ s \in Scopes BY <1>1, HeadScope
<1>3. UNCHANGED <<keystore, file, conn>> BY DEF WriteRow
<1>4. CASE Fail(t, "locked") /\ UNCHANGED <<rows, adopting>>
 <2>1. Data' /\ Kept BY <1>3, <1>4, SameData DEF databases
 <2> QED BY <1>4, <2>1, ErrorsAre, FailWorks DEF Handled
<1>5. CASE /\ adopting' = CASE At(t, "mark")   -> adopting \cup {s}
                            [] At(t, "unmark") -> adopting \ {s}
                            [] OTHER           -> adopting
           /\ rows' = IF At(t, "row") THEN rows \cup {s} ELSE rows
           /\ Then(t, <<>>)
 <2>1. /\ do \in {"mark", "row"} => s \in Workspaces
       /\ do = "row" => file[s] \notin Old
       /\ do = "unmark" => file[s] # Plain
  BY <1>2, HeadFits DEF StepRec, OfWorkspace
 <2>2. \A d : At(t, d) <=> d = do BY <1>1 DEF At
 <2>3. /\ adopting' = IF do = "mark" THEN adopting \cup {s}
                      ELSE IF do = "unmark" THEN adopting \ {s} ELSE adopting
       /\ rows' = IF do = "row" THEN rows \cup {s} ELSE rows
  BY <1>5, <2>2
 <2>4. /\ rows' \subseteq Workspaces /\ adopting' \subseteq Workspaces
       /\ \A x \in rows' : x \in rows \/ file[x] \notin Old
       /\ \A x \in adopting : x \in adopting' \/ x \notin rows' \/ file[x] # Plain
       /\ Main \in rows => Main \in rows'
  BY <2>1, <2>3 DEF Data, Typed
 <2>5. /\ conn' \in [Scopes -> {"no", "live", "stale"}]
       /\ \A x \in Scopes : conn'[x] # "no" => conn[x] # "no"
  BY <1>3 DEF Data, Typed
 <2>6. Data' /\ Kept BY <1>3, <2>4, <2>5, RowsChange
 <2>7. Leaves(<<>>, It(t), file', adopting') BY <1>1, <1>2, <2>3 DEF Leaves
 <2> QED BY <1>2, <1>5, <2>6, <2>7, EmptyLocal, ThenWorks DEF Handled
<1> QED BY <1>4, <1>5 DEF WriteRow

LEMMA CloseLockedHandled ==
  ASSUME Data, Jobs, NEW t \in Threads, CloseLocked(t)
  PROVE  Handled(t)
<1>1. /\ At(t, "close") /\ Then(t, <<>>) /\ UNCHANGED <<keystore, file, rows, adopting>>
      /\ conn' = [s \in Scopes |-> IF s \in Closing THEN "no" ELSE conn[s]]
 BY DEF CloseLocked
<1>2. /\ conn' \in [Scopes -> {"no", "live", "stale"}]
      /\ \A x \in Scopes : conn'[x] # "no" => conn[x] # "no"
 BY <1>1 DEF Data, Typed
<1>3. /\ rows' = rows /\ adopting' = adopting
      /\ rows' \subseteq Workspaces /\ adopting' \subseteq Workspaces
 BY <1>1 DEF Data, Typed
<1>4. Data' /\ Kept BY <1>1, <1>2, <1>3, RowsChange
<1> QED BY <1>1, <1>4, EmptyLocal, PlainThen DEF Handled

\* What a keystore call must not do: show a plain workspace that is not marked, or take
\* the password of one whose database still waits for it.
LEMMA KeysChange ==
  ASSUME Data, UNCHANGED databases, KeystoreType',
         \A s \in Scopes : staged'[s] # None => cur'[s] # None,
         \A s \in rows : cur'[s] # None /\ file[s] = Plain => cur[s] # None \/ s \in adopting,
         \A s \in Workspaces : cur'[s] # None /\ file[s] = Legacy => sealed'[s]
  PROVE  Data' /\ Kept
<1>1. Kept BY DEF Kept, databases
<1>2. Typed' BY DEF Data, Typed, databases
<1>3. OpenMoved' /\ MainListed' BY DEF Data, OpenMoved, Mounted, MainListed, databases
<1>4. StagedLater' BY DEF StagedLater, Rotating, Exists
<1>5. Finishable' BY DEF Data, Finishable, Exists, databases
<1> QED BY <1>1, <1>2, <1>3, <1>4, <1>5 DEF Data

\* A call that only opens or drops keys.
LEMMA KeysOpen ==
  ASSUME Data, UNCHANGED databases, UNCHANGED <<cur, staged, sealed>>,
         open' \subseteq Scopes \X Serials
  PROVE  Data' /\ Kept
<1>1. KeystoreType' BY DEF Data, Typed, KeystoreType
<1>2. /\ \A s \in Scopes : staged'[s] # None => cur'[s] # None
      /\ \A s \in rows : cur'[s] # None /\ file[s] = Plain => cur[s] # None \/ s \in adopting
      /\ \A s \in Workspaces : cur'[s] # None /\ file[s] = Legacy => sealed'[s]
 BY DEF Data, StagedLater, Rotating, Exists, Finishable
<1> QED BY <1>1, <1>2, KeysChange

LEMMA UnlockKeeps ==
  ASSUME Data, UNCHANGED databases, NEW V, KsUnlock(V)
  PROVE  Data' /\ Kept
<1>1. \A s \in Scopes : Versions(s) \subseteq Scopes \X Serials
 BY DEF Data, Typed, KeystoreType, Versions
<1>2. open' \subseteq Scopes \X Serials BY <1>1 DEF KsUnlock, Data, Typed, KeystoreType
<1> QED BY <1>2, KeysOpen DEF KsUnlock

LEMMA LockKeeps ==
  ASSUME Data, UNCHANGED databases, NEW S, KsLock(S)
  PROVE  Data' /\ Kept
<1>1. open' \subseteq Scopes \X Serials BY DEF KsLock, Data, Typed, KeystoreType
<1> QED BY <1>1, KeysOpen DEF KsLock

\* Scopes that exist get a staged version.
LEMMA StageKeeps ==
  ASSUME Data, UNCHANGED <<databases, cur>>, NEW T \in SUBSET Scopes,
         \A s \in T : Exists(s), Stage(T), sealed' \in [Scopes -> BOOLEAN],
         \A s \in Workspaces : file[s] = Legacy /\ sealed[s] => sealed'[s]
  PROVE  Data' /\ Kept
<1>1. PICK n \in [T -> Serials] :
         /\ staged' = [s \in Scopes |-> IF s \in T THEN n[s] ELSE staged[s]]
         /\ open' = open \cup {Current(s) : s \in T} \cup {<<s, n[s]>> : s \in T}
 BY DEF Stage
<1>2. \A s \in T : cur[s] \in Serials /\ n[s] \in Serials
 BY DEF Data, Typed, KeystoreType, Exists
<1>3. open' \subseteq Scopes \X Serials BY <1>1, <1>2 DEF Data, Typed, KeystoreType, Current
<1>4. staged' \in [Scopes -> Serials \cup {None}] BY <1>1, <1>2 DEF Data, Typed, KeystoreType
<1>5. KeystoreType' BY <1>3, <1>4 DEF Data, Typed, KeystoreType
<1>6. \A s \in Scopes : staged'[s] # None => cur'[s] # None
 BY <1>1 DEF Data, StagedLater, Rotating, Exists
<1>7. \A s \in rows : cur'[s] # None /\ file[s] = Plain => cur[s] # None \/ s \in adopting
 OBVIOUS
<1>8. \A s \in Workspaces : cur'[s] # None /\ file[s] = Legacy => sealed'[s]
 BY DEF Data, Finishable, Exists
<1> QED BY <1>5, <1>6, <1>7, <1>8, KeysChange

LEMMA SetPasswordKeeps ==
  ASSUME Data, UNCHANGED databases, NEW s \in Scopes, KsSetPassword(s)
  PROVE  Data' /\ Kept
<1>1. /\ Affected(s) \in SUBSET Scopes
      /\ \A x \in Affected(s) : Exists(x)
 BY DEF KsSetPassword, Affected, Scopes, Unlocked
<1>2. /\ sealed' = [sealed EXCEPT ![s] = TRUE] /\ Stage(Affected(s)) /\ UNCHANGED cur
 BY DEF KsSetPassword
<1>3. /\ sealed' \in [Scopes -> BOOLEAN]
      /\ \A x \in Workspaces : file[x] = Legacy /\ sealed[x] => sealed'[x]
 BY <1>2 DEF Data, Typed, KeystoreType, Scopes
<1> QED BY <1>1, <1>2, <1>3, StageKeeps

\* A password goes only from the app or from a database that is not of 2.x.
LEMMA RemovePasswordKeeps ==
  ASSUME Data, UNCHANGED databases, NEW s \in Scopes, KsRemovePassword(s),
         s = App \/ file[s] # Legacy
  PROVE  Data' /\ Kept
<1>1. {s} \in SUBSET Scopes /\ \A x \in {s} : Exists(x) BY DEF KsRemovePassword, Unlocked
<1>2. /\ sealed' = [sealed EXCEPT ![s] = FALSE] /\ Stage({s}) /\ UNCHANGED cur
 BY DEF KsRemovePassword
<1>3. /\ sealed' \in [Scopes -> BOOLEAN]
      /\ \A x \in Workspaces : file[x] = Legacy /\ sealed[x] => sealed'[x]
 BY <1>2, StoreConstants DEF Data, Typed, KeystoreType, Scopes
<1> QED BY <1>1, <1>2, <1>3, StageKeeps

LEMMA CommitKeeps ==
  ASSUME Data, UNCHANGED databases, NEW s \in Scopes, KsCommit(s)
  PROVE  Data' /\ Kept
<1>1. /\ staged[s] \in Serials /\ staged[s] # None /\ cur[s] # None
      /\ cur' = [cur EXCEPT ![s] = staged[s]]
      /\ staged' = [staged EXCEPT ![s] = None]
      /\ open' = open \ {Current(s)} /\ UNCHANGED sealed
 BY DEF Data, Typed, KeystoreType, KsCommit, Rotating, StagedLater, Exists
<1>2. KeystoreType' BY <1>1 DEF Data, Typed, KeystoreType
<1>3. \A x \in Scopes : /\ cur'[x] # None => cur[x] # None
                        /\ staged'[x] # None => cur'[x] # None
 BY <1>1 DEF Data, Typed, KeystoreType, StagedLater, Rotating, Exists
<1>4. /\ \A x \in rows : cur'[x] # None /\ file[x] = Plain => cur[x] # None \/ x \in adopting
      /\ \A x \in Workspaces : cur'[x] # None /\ file[x] = Legacy => sealed'[x]
 BY <1>1, <1>3 DEF Data, Typed, Finishable, Exists, Scopes
<1> QED BY <1>2, <1>3, <1>4, KeysChange

LEMMA DeleteKeeps ==
  ASSUME Data, UNCHANGED databases, NEW s \in Scopes, KsDelete(s)
  PROVE  Data' /\ Kept
<1>1. /\ cur' = [cur EXCEPT ![s] = None]
      /\ staged' = [staged EXCEPT ![s] = None]
      /\ sealed' = [sealed EXCEPT ![s] = FALSE]
      /\ open' = {v \in open : v[1] # s}
 BY DEF KsDelete
<1>2. KeystoreType' BY <1>1 DEF Data, Typed, KeystoreType
<1>3. /\ cur'[s] = None /\ staged'[s] = None
      /\ \A x \in Scopes \ {s} : /\ cur'[x] = cur[x] /\ staged'[x] = staged[x]
                                 /\ sealed'[x] = sealed[x]
 BY <1>1 DEF Data, Typed, KeystoreType
<1>4. \A x \in Scopes : staged'[x] # None => cur'[x] # None
 BY <1>3 DEF Data, StagedLater, Rotating, Exists
<1>5. /\ \A x \in rows : cur'[x] # None /\ file[x] = Plain => cur[x] # None \/ x \in adopting
      /\ \A x \in Workspaces : cur'[x] # None /\ file[x] = Legacy => sealed'[x]
 BY <1>3 DEF Data, Typed, Finishable, Exists, Scopes
<1> QED BY <1>2, <1>4, <1>5, KeysChange

LEMMA CreateKeeps ==
  ASSUME Data, UNCHANGED databases, NEW s \in Scopes, NEW p \in BOOLEAN, KsCreate(s, p),
         p \/ file[s] # Legacy,
         file[s] # Plain \/ s \notin rows \/ s \in adopting
  PROVE  Data' /\ Kept
<1>1. PICK n \in Serials : /\ cur' = [cur EXCEPT ![s] = n]
                           /\ open' = open \cup {<<s, n>>}
 BY DEF KsCreate
<1>2. /\ sealed' = [sealed EXCEPT ![s] = p] /\ UNCHANGED staged
      /\ cur[s] = None
 BY DEF KsCreate, Exists
<1>3. KeystoreType' BY <1>1, <1>2 DEF Data, Typed, KeystoreType
<1>4. /\ cur'[s] = n /\ sealed'[s] = p /\ n # None
      /\ \A x \in Scopes \ {s} : cur'[x] = cur[x] /\ sealed'[x] = sealed[x]
 BY <1>1, <1>2, StoreConstants DEF Data, Typed, KeystoreType
<1>5. \A x \in Scopes : staged'[x] # None => cur'[x] # None
 BY <1>2, <1>4 DEF Data, StagedLater, Rotating, Exists
<1>6. /\ \A x \in rows : cur'[x] # None /\ file[x] = Plain => cur[x] # None \/ x \in adopting
      /\ \A x \in Workspaces : cur'[x] # None /\ file[x] = Legacy => sealed'[x]
 BY <1>4 DEF Data, Typed, Finishable, Exists, Scopes
<1> QED BY <1>3, <1>5, <1>6, KeysChange

LEMMA InitializeKeeps ==
  ASSUME Data, UNCHANGED databases, KsInitialize({}, {})
  PROVE  Data' /\ Kept
<1>1. PICK n \in Serials :
         /\ cur' = [s \in Scopes |-> IF s = App THEN n ELSE None]
         /\ open' = {App} \X {n}
 BY DEF KsInitialize
<1>2. /\ \A s \in Scopes : cur[s] = None
      /\ sealed' = [s \in Scopes |-> s \in {}] /\ UNCHANGED staged
 BY DEF KsInitialize, Exists
<1>3. KeystoreType' BY <1>1, <1>2 DEF Data, Typed, KeystoreType, Scopes
<1>4. \A x \in Workspaces : cur'[x] = None BY <1>1, StoreConstants DEF Scopes
<1>5. \A x \in Scopes : staged'[x] # None => cur'[x] # None
 BY <1>2 DEF Data, StagedLater, Rotating, Exists
<1>6. /\ \A x \in rows : cur'[x] # None /\ file[x] = Plain => cur[x] # None \/ x \in adopting
      /\ \A x \in Workspaces : cur'[x] # None /\ file[x] = Legacy => sealed'[x]
 BY <1>4 DEF Data, Typed
<1> QED BY <1>3, <1>5, <1>6, KeysChange

LEMMA DropKeysHandled ==
  ASSUME Data, Jobs, NEW t \in Threads, DropKeys(t)
  PROVE  Handled(t)
<1>1. Data' /\ Kept BY LockKeeps DEF DropKeys
<1>2. At(t, "kslock") /\ Then(t, <<>>) BY DEF DropKeys
<1> QED BY <1>1, <1>2, EmptyLocal, PlainThen DEF Handled

LEMMA CommitHandled ==
  ASSUME Data, Jobs, NEW t \in Threads, Commit(t)
  PROVE  Handled(t)
<1>1. At(t, "commit") /\ It(t).s \in Scopes /\ UNCHANGED databases BY HeadScope DEF Commit
<1>2. CASE KsCommit(It(t).s) /\ Then(t, <<>>)
 <2>1. Data' /\ Kept BY <1>1, <1>2, CommitKeeps
 <2> QED BY <1>1, <1>2, <2>1, EmptyLocal, PlainThen DEF Handled
<1>3. CASE Fail(t, "locked") /\ UNCHANGED keystore
 <2>1. Data' /\ Kept BY <1>1, <1>3, SameData
 <2> QED BY <1>3, <2>1, ErrorsAre, FailWorks DEF Handled
<1> QED BY <1>2, <1>3 DEF Commit

LEMMA FaultHandled ==
  ASSUME Data, Jobs, NEW t \in Threads, Fault(t)
  PROVE  Handled(t)
<1>1. Data' /\ Kept BY SameData DEF Fault, Same
<1> QED BY <1>1, ErrorsAre, FailWorks DEF Fault, Handled

LEMMA DeleteHandled ==
  ASSUME Data, Jobs, NEW t \in Threads, Delete(t)
  PROVE  Handled(t)
<1> DEFINE s == It(t).s
<1>1. CASE /\ At(t, "closeone") /\ Then(t, <<>>)
           /\ conn' = [conn EXCEPT ![s] = "no"]
           /\ UNCHANGED <<keystore, file, rows, adopting>>
 <2>1. /\ conn' \in [Scopes -> {"no", "live", "stale"}]
       /\ \A x \in Scopes : conn'[x] # "no" => conn[x] # "no"
       /\ rows' \subseteq Workspaces /\ adopting' \subseteq Workspaces
       /\ rows' = rows /\ adopting' = adopting
  BY <1>1 DEF Data, Typed
 <2>2. Data' /\ Kept BY <1>1, <2>1, RowsChange
 <2> QED BY <1>1, <2>2, EmptyLocal, PlainThen DEF Handled
<1>2. CASE /\ At(t, "delrow") /\ UNCHANGED <<keystore, file, conn>>
           /\ \/ rows' = rows \ {s} /\ adopting' = adopting \ {s} /\ Then(t, <<>>)
              \/ Fail(t, "locked") /\ UNCHANGED <<rows, adopting>>
 <2>1. job[t] # <<>> /\ It(t).do = "delrow" /\ s # Main BY <1>2, HeadScope, HeadFits
 <2>2. /\ conn' \in [Scopes -> {"no", "live", "stale"}]
       /\ \A x \in Scopes : conn'[x] # "no" => conn[x] # "no"
       /\ rows' \subseteq Workspaces /\ adopting' \subseteq Workspaces
       /\ \A x \in rows' : x \in rows
       /\ \A x \in adopting : x \in adopting' \/ x \notin rows'
       /\ Main \in rows => Main \in rows'
  BY <1>2, <2>1 DEF Data, Typed
 <2>3. Data' /\ Kept BY <1>2, <2>2, RowsChange
 <2> QED BY <1>2, <2>3, EmptyLocal, PlainThen, ErrorsAre, FailWorks DEF Handled
<1>3. CASE /\ At(t, "ksdelete") /\ Then(t, <<>>) /\ UNCHANGED databases
           /\ KsDelete(s) \/ UNCHANGED keystore
 <2>1. s \in Scopes BY <1>3, HeadScope
 <2>2. Data' /\ Kept BY <1>3, <2>1, DeleteKeeps, SameData
 <2> QED BY <1>3, <2>2, EmptyLocal, PlainThen DEF Handled
<1>4. CASE /\ At(t, "unlink") /\ Then(t, <<>>)
           /\ file' = [file EXCEPT ![s] = Missing]
           /\ UNCHANGED <<keystore, conn, rows, adopting>>
 <2>1. s \in Scopes /\ conn' = conn /\ conn' \in [Scopes -> {"no", "live", "stale"}]
  BY <1>4, HeadScope DEF Data, Typed
 <2>2. Data' /\ Kept BY <1>4, <2>1, FileMoves
 <2> QED BY <1>4, <2>2, EmptyLocal, PlainThen DEF Handled
<1> QED BY <1>1, <1>2, <1>3, <1>4 DEF Delete

\* Adoption: the mark comes before the scope, the mount before the mark goes.
LEMMA AdoptionLocal ==
  ASSUME NEW s \in Workspaces, NEW f, NEW r, NEW a, f[s] # Legacy
  PROVE  Local(Adoption(s), f, r, a)
<1> DEFINE x == StepWith("create", s, "quiet")
           z == Step("unmark", s)
           q == Adoption(s)
<1>1. s \in Scopes BY DEF Scopes
<1>2. q = <<Step("mark", s), x, StepWith("move", s, Plain), Step("mount", s), z>>
 BY DEF Adoption
<1>3. /\ Step("mark", s) \in Free /\ StepWith("move", s, Plain) \in Free
      /\ Step("mount", s) \in Free
 BY <1>1, StepFree, StepWithFree DEF FreeDo, OfWorkspace, Withs
<1>4. /\ Step("mark", s).do = "mark" /\ Step("mark", s).s = s
      /\ Step("mount", s).do = "mount" /\ Step("mount", s).s = s
 BY DEF Step
<1>5. /\ x \in StepRec /\ x.do = "create" /\ x.s = s
      /\ z \in StepRec /\ z.do = "unmark" /\ z.s = s
 BY <1>1 DEF Step, StepWith, StepRec, Checked, Withs, OfWorkspace
<1> HIDE DEF x, z, q
<1>6. /\ q[1] = Step("mark", s) /\ q[2] = x /\ q[3] = StepWith("move", s, Plain)
      /\ q[4] = Step("mount", s) /\ q[5] = z /\ Len(q) = 5
 BY <1>2
<1>7. Fits(q, 1, f, r, a) /\ Fits(q, 3, f, r, a) /\ Fits(q, 4, f, r, a) BY <1>3, <1>6, FreeFits
<1>8. Fits(q, 2, f, r, a) BY <1>4, <1>5, <1>6 DEF Fits, MarkBefore, Follows
<1>9. Fits(q, 5, f, r, a) BY <1>4, <1>5, <1>6 DEF Fits, MountBefore, Follows
<1>10. q \in Seq(StepRec)
 <2>1. Step("mark", s) \in StepRec /\ StepWith("move", s, Plain) \in StepRec
       /\ Step("mount", s) \in StepRec
  BY <1>3 DEF Free
 <2> QED BY <1>2, <1>5, <2>1
<1>11. \A i \in 1..5 : i = 1 \/ i = 2 \/ i = 3 \/ i = 4 \/ i = 5 OBVIOUS
<1> QED BY <1>6, <1>7, <1>8, <1>9, <1>10, <1>11 DEF Local, q

LEMMA ReopenLocal ==
  ASSUME NEW s \in Workspaces, NEW f, NEW r, NEW a
  PROVE  Local(<<Step("complete", s), Step("adopted", s), Step("mount", s),
                 Step("unmark", s)>>, f, r, a)
<1> DEFINE z == Step("unmark", s)
           q == <<Step("complete", s), Step("adopted", s), Step("mount", s), z>>
<1>1. s \in Scopes BY DEF Scopes
<1>2. /\ Step("complete", s) \in Free /\ Step("adopted", s) \in Free
      /\ Step("mount", s) \in Free
 BY <1>1, StepFree DEF FreeDo, OfWorkspace
<1>3. Step("mount", s).do = "mount" /\ Step("mount", s).s = s BY DEF Step
<1>4. z \in StepRec /\ z.do = "unmark" /\ z.s = s
 BY <1>1 DEF Step, StepRec, Checked, Withs, OfWorkspace
<1>5. q \in Seq(StepRec)
 <2>1. /\ Step("complete", s) \in StepRec /\ Step("adopted", s) \in StepRec
       /\ Step("mount", s) \in StepRec
  BY <1>2 DEF Free
 <2> QED BY <1>4, <2>1
<1> HIDE DEF z
<1>6. /\ q[1] = Step("complete", s) /\ q[2] = Step("adopted", s)
      /\ q[3] = Step("mount", s) /\ q[4] = z /\ Len(q) = 4
 OBVIOUS
<1> HIDE DEF q
<1>7. Fits(q, 1, f, r, a) /\ Fits(q, 2, f, r, a) /\ Fits(q, 3, f, r, a) BY <1>2, <1>6, FreeFits
<1>8. Fits(q, 4, f, r, a) BY <1>3, <1>4, <1>6 DEF Fits, MountBefore, Follows
<1>9. \A i \in 1..4 : i = 1 \/ i = 2 \/ i = 3 \/ i = 4 OBVIOUS
<1>10. Local(q, f, r, a) BY <1>5, <1>6, <1>7, <1>8, <1>9 DEF Local
<1> QED BY <1>10 DEF q, z

LEMMA NewScopeLocal ==
  ASSUME NEW s \in Workspaces, NEW f, NEW r, NEW a, f[s] \notin Old
  PROVE  Local(<<Step("mount", s), Step("row", s), Step("undo", s)>>, f, r, a)
<1> DEFINE z == Step("row", s)
           q == <<Step("mount", s), z, Step("undo", s)>>
<1>1. s \in Scopes BY DEF Scopes
<1>2. Step("mount", s) \in Free /\ Step("undo", s) \in Free
 BY <1>1, StepFree DEF FreeDo, OfWorkspace
<1>3. z \in StepRec /\ z.do = "row" /\ z.s = s
 BY <1>1 DEF Step, StepRec, Checked, Withs, OfWorkspace
<1>4. q \in Seq(StepRec)
 <2>1. Step("mount", s) \in StepRec /\ Step("undo", s) \in StepRec BY <1>2 DEF Free
 <2> QED BY <1>3, <2>1
<1> HIDE DEF z
<1>5. q[1] = Step("mount", s) /\ q[2] = z /\ q[3] = Step("undo", s) /\ Len(q) = 3 OBVIOUS
<1> HIDE DEF q
<1>6. Fits(q, 1, f, r, a) /\ Fits(q, 3, f, r, a) BY <1>2, <1>5, FreeFits
<1>7. Fits(q, 2, f, r, a) BY <1>3, <1>5 DEF Fits
<1>8. \A i \in 1..3 : i = 1 \/ i = 2 \/ i = 3 OBVIOUS
<1>9. Local(q, f, r, a) BY <1>4, <1>5, <1>6, <1>7, <1>8 DEF Local
<1> QED BY <1>9 DEF q, z

LEMMA OpenWorkspaceHandled ==
  ASSUME Data, Jobs, NEW t \in Threads, OpenWorkspace(t)
  PROVE  Handled(t)
<1> DEFINE s == It(t).s
           again == <<Step("complete", s), Step("adopted", s), Step("mount", s),
                      Step("unmark", s)>>
<1>1. At(t, "open") /\ job[t] # <<>> /\ It(t).do = "open" /\ UNCHANGED databases
 BY HeadScope DEF OpenWorkspace
<1>2. s \in Workspaces BY <1>1, HeadFits DEF StepRec, OfWorkspace
<1>3. CASE Then(t, <<>>) /\ UNCHANGED keystore
 <2>1. Data' /\ Kept BY <1>1, <1>3, SameData
 <2> QED BY <1>1, <1>3, <2>1, EmptyLocal, PlainThen DEF Handled
<1>4. CASE Fail(t, "needs") /\ UNCHANGED keystore
 <2>1. Data' /\ Kept BY <1>1, <1>4, SameData
 <2> QED BY <1>4, <2>1, ErrorsAre, FailWorks DEF Handled
<1>5. CASE file[s] \in {Missing, Plain} /\ Then(t, Adoption(s)) /\ UNCHANGED keystore
 <2>1. Data' /\ Kept /\ file' = file BY <1>1, <1>5, SameData DEF databases
 <2>2. file'[s] # Legacy BY <1>5, <2>1 DEF Missing, Plain, Legacy
 <2>3. Local(Adoption(s), file', rows', adopting') BY <1>2, <2>2, AdoptionLocal
 <2> QED BY <1>1, <1>5, <2>1, <2>3, PlainThen DEF Handled
<1>6. CASE Then(t, again) /\ \E V : KsUnlock(V)
 <2>1. Data' /\ Kept BY <1>1, <1>6, UnlockKeeps
 <2>2. Local(again, file', rows', adopting') BY <1>2, ReopenLocal
 <2> QED BY <1>1, <1>6, <2>1, <2>2, PlainThen DEF Handled
<1> HIDE DEF again
<1> QED BY <1>3, <1>4, <1>5, <1>6 DEF OpenWorkspace, again

LEMMA UnlockOwnHandled ==
  ASSUME Data, Jobs, NEW t \in Threads, UnlockOwn(t)
  PROVE  Handled(t)
<1> DEFINE s == It(t).s
<1>1. job[t] # <<>> /\ It(t).do = "unlock" /\ s \in Scopes /\ UNCHANGED databases
 BY HeadScope DEF UnlockOwn
<1>2. CASE Mounted(s) /\ Then(t, <<>>) /\ UNCHANGED keystore
 <2>1. Data' /\ Kept /\ file' = file BY <1>1, <1>2, SameData DEF databases
 <2>2. file'[s] \notin Old BY <1>1, <1>2, <2>1 DEF Data, OpenMoved
 <2>3. Leaves(<<>>, It(t), file', adopting') BY <1>1, <2>2 DEF Leaves, Old
 <2> QED BY <1>1, <1>2, <2>1, <2>3, EmptyLocal, ThenWorks DEF Handled
<1>3. CASE Fail(t, "locked") /\ UNCHANGED keystore
 <2>1. Data' /\ Kept BY <1>1, <1>3, SameData
 <2> QED BY <1>3, <2>1, ErrorsAre, FailWorks DEF Handled
<1>4. ASSUME NEW typed \in {<<>>, <<StepWith("move", s, Legacy)>>},
             Then(t, <<Step("complete", s)>> \o typed \o <<Step("mount", s), Step("drop", s)>>),
             NEW V, KsUnlock(V)
      PROVE  Handled(t)
 <2> DEFINE first == <<Step("complete", s)>> \o typed
            x == Step("mount", s)
            y == Step("drop", s)
            w == first \o <<x, y>>
 <2>1. Data' /\ Kept BY <1>1, <1>4, UnlockKeeps
 <2>2. /\ Step("complete", s) \in Free /\ x \in Free /\ y \in Free
       /\ StepWith("move", s, Legacy) \in Free
  BY <1>1, StepFree, StepWithFree DEF FreeDo, OfWorkspace, Withs
 <2>3. x.do = "mount" /\ x.s = s /\ y.do = "drop" /\ y.s = s BY DEF Step
 <2> HIDE DEF x, y
 <2>4. typed \in Seq(Free)
  <3>1. <<>> \in Seq(Free) /\ <<StepWith("move", s, Legacy)>> \in Seq(Free) BY <2>2
  <3> QED BY <1>4, <3>1, Zenon
 <2>5. first \in Seq(Free) /\ Len(first) \in Nat BY <2>2, <2>4
 <2> HIDE DEF first
 <2>6. /\ w \in Seq(Free) /\ Len(w) = Len(first) + 2
       /\ w[Len(first) + 1] = x /\ w[Len(first) + 2] = y
  BY <2>2, <2>5
 <2> HIDE DEF w
 <2>7. Len(w) > 0 /\ Len(w) > 1 /\ w[Len(w) - 0] = y /\ w[Len(w) - 1] = x BY <2>5, <2>6
 <2>8. Leaves(w, It(t), file', adopting') BY <1>1, <2>3, <2>7 DEF Leaves
 <2>9. Local(w, file', rows', adopting') BY <2>6, FreeLocal
 <2>10. Then(t, w) BY <1>4 DEF w, first, x, y
 <2> QED BY <1>1, <2>1, <2>8, <2>9, <2>10, ThenWorks DEF Handled
<1> QED BY <1>2, <1>3, <1>4 DEF UnlockOwn

LEMMA DropPasswordHandled ==
  ASSUME Data, Jobs, NEW t \in Threads, DropPassword(t)
  PROVE  Handled(t)
<1> DEFINE s == It(t).s
<1>1. At(t, "drop") /\ s \in Scopes /\ UNCHANGED databases BY HeadScope DEF DropPassword
<1>2. CASE Then(t, <<>>) /\ UNCHANGED keystore
 <2>1. Data' /\ Kept BY <1>1, <1>2, SameData
 <2> QED BY <1>1, <1>2, <2>1, EmptyLocal, PlainThen DEF Handled
<1>3. CASE Fail(t, "locked") /\ UNCHANGED keystore
 <2>1. Data' /\ Kept BY <1>1, <1>3, SameData
 <2> QED BY <1>3, <2>1, ErrorsAre, FailWorks DEF Handled
<1>4. CASE Drops(s) /\ KsRemovePassword(s) /\ Then(t, <<Step("complete", s)>>)
 <2>1. file[s] # Legacy BY <1>1, <1>4 DEF Drops, Data, OpenMoved, Old
 <2>2. Data' /\ Kept BY <1>1, <1>4, <2>1, RemovePasswordKeeps
 <2>3. <<Step("complete", s)>> \in Seq(Free) BY <1>1, StepFree DEF FreeDo, OfWorkspace
 <2> QED BY <1>1, <1>4, <2>2, <2>3, FreeThen DEF Handled
<1> QED BY <1>2, <1>3, <1>4 DEF DropPassword

LEMMA ChangePasswordHandled ==
  ASSUME Data, Jobs, NEW t \in Threads, ChangePassword(t)
  PROVE  Handled(t)
<1> DEFINE s == It(t).s
           own == {w \in Workspaces : s = App /\ sealed[w]}
           all == AppWide(Affected(App)) \o DropEach(own)
<1>1. UNCHANGED databases BY DEF ChangePassword
<1>2. CASE /\ At(t, "setpw") /\ KsSetPassword(s)
           /\ Then(t, IF s = App THEN all ELSE <<Step("complete", s)>>)
 <2>1. s \in Scopes /\ App \in Scopes BY <1>2, HeadScope
 <2>2. Data' /\ Kept BY <1>1, <1>2, <2>1, SetPasswordKeeps
 <2>3. Local(all, file', rows', adopting')
  <3>1. Affected(App) \in SUBSET Scopes /\ own \in SUBSET Scopes BY <2>1 DEF Affected, Scopes
  <3> HIDE DEF own
  <3>2. IsFiniteSet(own) /\ DropEach(own) \in Seq(Each("drop", own))
   BY <3>1, ScopesFinite, DropEachSeq
  <3>3. "drop" \in FreeDo /\ "drop" \notin OfWorkspace BY DEF FreeDo, OfWorkspace
  <3>4. Local(DropEach(own), file', rows', adopting') BY <3>1, <3>2, <3>3, EachLocal
  <3>5. Local(AppWide(Affected(App)), file', rows', adopting') BY <3>1, AppWideLocal
  <3> QED BY <3>4, <3>5, ConcatLocal
 <2>4. Local(<<Step("complete", s)>>, file', rows', adopting')
  <3>1. <<Step("complete", s)>> \in Seq(Free) BY <2>1, StepFree DEF FreeDo, OfWorkspace
  <3> QED BY <3>1, FreeLocal
 <2> HIDE DEF all
 <2>5. CASE s = App BY <1>2, <2>2, <2>3, <2>5, PlainThen DEF Handled
 <2>6. CASE s # App BY <1>2, <2>2, <2>4, <2>6, PlainThen DEF Handled
 <2> QED BY <2>5, <2>6
<1>3. CASE At(t, "rmpw") /\ KsRemovePassword(s) /\ Then(t, <<Step("complete", s)>>)
 <2>1. /\ job[t] # <<>> /\ It(t).do = "rmpw" /\ s \in Scopes
       /\ s = App \/ file[s] # Legacy
  BY <1>3, HeadScope, HeadFits
 <2>2. Data' /\ Kept BY <1>1, <1>3, <2>1, RemovePasswordKeeps
 <2>3. <<Step("complete", s)>> \in Seq(Free) BY <2>1, StepFree DEF FreeDo, OfWorkspace
 <2> QED BY <1>3, <2>2, <2>3, FreeThen DEF Handled
<1>4. CASE At(t, "rmpw") /\ Then(t, <<>>) /\ UNCHANGED keystore
 <2>1. Data' /\ Kept BY <1>1, <1>4, SameData
 <2> QED BY <1>4, <2>1, EmptyLocal, PlainThen DEF Handled
<1>5. CASE Fail(t, "locked") /\ UNCHANGED keystore
 <2>1. Data' /\ Kept BY <1>1, <1>5, SameData
 <2> QED BY <1>5, <2>1, ErrorsAre, FailWorks DEF Handled
<1> HIDE DEF all
<1> QED BY <1>2, <1>3, <1>4, <1>5 DEF ChangePassword, all

LEMMA CreateScopeHandled ==
  ASSUME Data, Jobs, NEW t \in Threads, CreateScope(t)
  PROVE  Handled(t)
<1> DEFINE s == It(t).s
           new == <<Step("mount", s), Step("row", s), Step("undo", s)>>
<1>1. PICK do \in {"create", "createnew"} : At(t, do) BY DEF CreateScope
<1>2. job[t] # <<>> /\ It(t).do = do /\ s \in Scopes /\ UNCHANGED databases
 BY <1>1, HeadScope DEF CreateScope
<1>3. CASE Fail(t, "locked") /\ UNCHANGED keystore
 <2>1. Data' /\ Kept BY <1>2, <1>3, SameData
 <2> QED BY <1>3, <2>1, ErrorsAre, FailWorks DEF Handled
<1>4. CASE /\ KsCreate(s, It(t).with = "own")
           /\ Then(t, IF At(t, "create") THEN <<>> ELSE new)
 <2>1. /\ It(t).with = "own" \/ file[s] # Legacy
       /\ file[s] # Plain \/ s \notin rows \/ s \in adopting
       /\ do = "createnew" => s \in Workspaces /\ file[s] \notin Old
  BY <1>1, <1>2, HeadFits DEF StepRec, OfWorkspace, Old
 <2> DEFINE p == It(t).with = "own"
 <2>2. Data' /\ Kept
  <3>1. p \in BOOLEAN /\ KsCreate(s, p) /\ (p \/ file[s] # Legacy) BY <1>4, <2>1
  <3> HIDE DEF p
  <3> QED BY <1>2, <2>1, <3>1, CreateKeeps
 <2>3. CASE do = "create" BY <1>1, <1>4, <2>2, <2>3, EmptyLocal, PlainThen DEF Handled
 <2>4. CASE do = "createnew"
  <3>1. ~ At(t, "create") /\ file' = file BY <1>1, <1>2, <2>4 DEF At, databases
  <3>2. Local(new, file', rows', adopting') BY <2>1, <2>4, <3>1, NewScopeLocal
  <3> HIDE DEF new
  <3>3. Then(t, new) BY <1>4, <3>1
  <3> QED BY <1>1, <2>2, <2>4, <3>2, <3>3, PlainThen DEF Handled
 <2> QED BY <2>3, <2>4
<1> HIDE DEF new
<1> QED BY <1>3, <1>4 DEF CreateScope, new

--------------------------------------------------
(* The calls *)

LEMMA BeginWorks ==
  ASSUME NEW t \in Threads, NEW steps, Begin(t, steps),
         Local(steps, file', rows', adopting')
  PROVE  Works(t)
BY DEF Begin, Works

\* One checked step after others.
LEMMA LastLocal ==
  ASSUME NEW p \in Seq(Free), NEW x \in StepRec, NEW f, NEW r, NEW a,
         Fits(p \o <<x>>, Len(p) + 1, f, r, a)
  PROVE  Local(p \o <<x>>, f, r, a)
<1> DEFINE w == p \o <<x>>
           n == Len(p)
<1>1. \A y \in Free : y \in StepRec BY DEF Free
<1>2. p \in Seq(StepRec) BY <1>1
<1>3. /\ w \in Seq(StepRec) /\ n \in Nat /\ Len(w) = n + 1
      /\ \A i \in 1..n : w[i] = p[i] /\ p[i] \in Free
 BY <1>2
<1> HIDE DEF w
<1>4. \A i \in 1..n : Fits(w, i, f, r, a) BY <1>3, FreeFits
<1>5. \A i \in 1..(n + 1) : i \in 1..n \/ i = n + 1 BY <1>3
<1>6. Fits(w, n + 1, f, r, a) BY DEF w
<1> QED BY <1>3, <1>4, <1>5, <1>6 DEF Local, w

LEMMA AfterUnlockFree == AfterUnlock \in Seq(Free) /\ Step("relock", App) \in Free
<1>1. App \in Scopes BY DEF Scopes
<1>2. /\ Step("openmain", App) \in Free /\ Step("sweep", App) \in Free
      /\ Step("openall", App) \in Free /\ Step("ready", App) \in Free
      /\ Step("relock", App) \in Free
 BY <1>1, StepFree DEF FreeDo, OfWorkspace
<1> QED BY <1>2 DEF AfterUnlock

LEMMA StartHandled ==
  ASSUME Data, Jobs, NEW t \in Threads, Start(t)
  PROVE  Data' /\ Kept /\ (Works(t) \/ UNCHANGED job)
<1>1. UNCHANGED databases BY DEF Start
<1>2. Local(AfterUnlock, file', rows', adopting') BY AfterUnlockFree, FreeLocal
<1>3. CASE Begin(t, AfterUnlock) /\ (KsInitialize({}, {}) \/ KsUnlock(Versions(App)))
 <2>1. Data' /\ Kept BY <1>1, <1>3, InitializeKeeps, UnlockKeeps
 <2> QED BY <1>2, <1>3, <2>1, BeginWorks
<1>4. CASE UNCHANGED <<keystore, job>> BY <1>1, <1>4, SameData
<1> QED BY <1>3, <1>4 DEF Start

LEMMA UnlockAppHandled ==
  ASSUME Data, Jobs, NEW t \in Threads, UnlockApp(t)
  PROVE  Handled(t)
<1>1. PICK V : KsUnlock(V) BY DEF UnlockApp
<1>2. Begin(t, AfterUnlock \o <<Step("relock", App)>>) /\ UNCHANGED databases BY DEF UnlockApp
<1>3. Data' /\ Kept BY <1>1, <1>2, UnlockKeeps
<1>4. AfterUnlock \o <<Step("relock", App)>> \in Seq(Free) BY AfterUnlockFree
<1>5. Local(AfterUnlock \o <<Step("relock", App)>>, file', rows', adopting') BY <1>4, FreeLocal
<1> QED BY <1>2, <1>3, <1>5, BeginWorks DEF Handled

LEMMA CallHandled ==
  ASSUME Data, Jobs, NEW t \in Threads, NEW steps, Call(t, steps),
         Local(steps, file, rows, adopting)
  PROVE  Handled(t)
<1>1. Data' /\ Kept /\ UNCHANGED <<file, rows, adopting>> BY SameData DEF Call, Same, databases
<1>2. Local(steps, file', rows', adopting') BY <1>1
<1> QED BY <1>1, <1>2, BeginWorks DEF Call, Handled

LEMMA MasterHandled ==
  ASSUME Data, Jobs, NEW t \in Threads, SetMasterPassword(t) \/ RemoveMasterPassword(t)
  PROVE  Handled(t)
<1>1. App \in Scopes BY DEF Scopes
<1>2. Local(<<Step("setpw", App)>>, file, rows, adopting)
 <2>1. <<Step("setpw", App)>> \in Seq(Free) BY <1>1, StepFree DEF FreeDo, OfWorkspace
 <2> QED BY <2>1, FreeLocal
<1>3. Local(<<Step("rmpw", App)>>, file, rows, adopting)
 <2> DEFINE x == Step("rmpw", App)
 <2>1. x \in StepRec /\ x.do = "rmpw" /\ x.s = App
  BY <1>1 DEF Step, StepRec, Checked, Withs, OfWorkspace
 <2> HIDE DEF x
 <2>2. Fits(<<x>>, 1, file, rows, adopting) BY <2>1 DEF Fits
 <2>3. Local(<<x>>, file, rows, adopting) BY <2>1, <2>2, OneLocal
 <2> QED BY <2>3 DEF x
<1> QED BY <1>2, <1>3, CallHandled DEF SetMasterPassword, RemoveMasterPassword

LEMMA CreateWorkspaceHandled ==
  ASSUME Data, Jobs, NEW t \in Threads, NEW s \in Workspaces, NEW own \in {"own", "quiet"},
         CreateWorkspace(t, s, own)
  PROVE  Handled(t)
<1> DEFINE x == Step("unmark", s)
           y == StepWith("createnew", s, own)
           q == <<x, y>>
<1>1. /\ x \in StepRec /\ x.do = "unmark" /\ x.s = s
      /\ y \in StepRec /\ y.do = "createnew" /\ y.s = s
 BY DEF Step, StepWith, StepRec, Checked, Withs, OfWorkspace, Scopes
<1>2. Call(t, q) /\ file[s] = Missing BY DEF CreateWorkspace
<1>3. file[s] \notin Old BY <1>2 DEF Old, Missing, Plain, Legacy
<1> HIDE DEF x, y
<1>4. q \in Seq(StepRec) /\ Len(q) = 2 /\ q[1] = x /\ q[2] = y BY <1>1
<1> HIDE DEF q
<1>5. Fits(q, 1, file, rows, adopting) /\ Fits(q, 2, file, rows, adopting)
 BY <1>1, <1>3, <1>4 DEF Fits, Old
<1>6. \A i \in 1..2 : i = 1 \/ i = 2 OBVIOUS
<1>7. Local(q, file, rows, adopting) BY <1>4, <1>5, <1>6 DEF Local
<1> QED BY <1>2, <1>7, CallHandled

LEMMA DeleteWorkspaceHandled ==
  ASSUME Data, Jobs, NEW t \in Threads, NEW s \in Workspaces, DeleteWorkspace(t, s)
  PROVE  Handled(t)
<1> DEFINE x == Step("closeone", s)
           y == Step("delrow", s)
           z == Step("ksdelete", s)
           u == Step("unlink", s)
           q == <<x, y, z, u>>
<1>1. s \in Scopes /\ s # Main /\ Call(t, q) BY DEF Scopes, DeleteWorkspace
<1>2. x \in Free /\ z \in Free /\ u \in Free BY <1>1, StepFree DEF FreeDo, OfWorkspace
<1>3. y \in StepRec /\ y.do = "delrow" /\ y.s = s
 BY <1>1 DEF Step, StepRec, Checked, Withs, OfWorkspace
<1> HIDE DEF x, y, z, u
<1>4. /\ q \in Seq(StepRec) /\ Len(q) = 4
      /\ q[1] = x /\ q[2] = y /\ q[3] = z /\ q[4] = u
 BY <1>2, <1>3 DEF Free
<1> HIDE DEF q
<1>5. /\ Fits(q, 1, file, rows, adopting) /\ Fits(q, 3, file, rows, adopting)
      /\ Fits(q, 4, file, rows, adopting)
 BY <1>2, <1>4, FreeFits
<1>6. Fits(q, 2, file, rows, adopting) BY <1>1, <1>3, <1>4 DEF Fits
<1>7. \A i \in 1..4 : i = 1 \/ i = 2 \/ i = 3 \/ i = 4 OBVIOUS
<1>8. Local(q, file, rows, adopting) BY <1>4, <1>5, <1>6, <1>7 DEF Local
<1> QED BY <1>1, <1>8, CallHandled

LEMMA FreeCall ==
  ASSUME Data, Jobs, NEW t \in Threads, NEW steps \in Seq(Free), Call(t, steps)
  PROVE  Handled(t)
BY FreeLocal, CallHandled

LEMMA OpenCallHandled ==
  ASSUME Data, Jobs, NEW t \in Threads, NEW s \in Workspaces, OpenCall(t, s)
  PROVE  Handled(t)
<1>1. <<Step("open", s)>> \in Seq(Free) BY StepFree DEF FreeDo, OfWorkspace, Scopes
<1> QED BY <1>1, FreeCall DEF OpenCall

LEMMA SetWorkspacePasswordHandled ==
  ASSUME Data, Jobs, NEW t \in Threads, NEW s \in Workspaces, SetWorkspacePassword(t, s)
  PROVE  Handled(t)
<1>1. Step("open", s) \in Free /\ Step("setpw", s) \in Free
 BY StepFree DEF FreeDo, OfWorkspace, Scopes
<1>2. <<Step("open", s), Step("setpw", s)>> \in Seq(Free) BY <1>1
<1> QED BY <1>2, FreeCall DEF SetWorkspacePassword

\* The steps that open a workspace that has a scope ask its password last.
LEMMA UnlockFree ==
  ASSUME NEW s \in Workspaces, Exists(s)
  PROVE  /\ UnlockWith(s) \in Seq(Free) /\ Len(UnlockWith(s)) = 3
         /\ UnlockWith(s)[3].do = "unlock" /\ UnlockWith(s)[3].s = s
<1> DEFINE x == Step("open", s)
           y == Step("asks", s)
           z == Step("unlock", s)
<1>1. x \in Free /\ y \in Free /\ z \in Free BY StepFree DEF FreeDo, OfWorkspace, Scopes
<1>2. z.do = "unlock" /\ z.s = s BY DEF Step
<1>3. UnlockWith(s) = <<x, y, z>> BY DEF UnlockWith
<1> HIDE DEF x, y, z
<1> QED BY <1>1, <1>2, <1>3

\* Those that give a scope to one that has none start by creating it with a password.
LEMMA UnlockOldLocal ==
  ASSUME NEW s \in Workspaces, ~ Exists(s), file[s] = Legacy
  PROVE  Local(UnlockWith(s), file, rows, adopting)
<1> DEFINE x == StepWith("create", s, "own")
           y == StepWith("move", s, Legacy)
           z == Step("mount", s)
           u == Step("drop", s)
           q == <<x, y, z, u>>
<1>1. s \in Scopes /\ Legacy \in Withs BY DEF Scopes, Withs
<1>2. y \in Free /\ z \in Free /\ u \in Free
 BY <1>1, StepFree, StepWithFree DEF FreeDo, OfWorkspace
<1>3. x \in StepRec /\ x.do = "create" /\ x.s = s /\ x.with = "own"
 BY <1>1 DEF StepWith, StepRec, Checked, Withs, OfWorkspace
<1>4. UnlockWith(s) = q BY DEF UnlockWith
<1> HIDE DEF x, y, z, u
<1>5. /\ q \in Seq(StepRec) /\ Len(q) = 4
      /\ q[1] = x /\ q[2] = y /\ q[3] = z /\ q[4] = u
 BY <1>2, <1>3 DEF Free
<1> HIDE DEF q
<1>6. /\ Fits(q, 2, file, rows, adopting) /\ Fits(q, 3, file, rows, adopting)
      /\ Fits(q, 4, file, rows, adopting)
 BY <1>2, <1>5, FreeFits
<1>7. Fits(q, 1, file, rows, adopting) BY <1>3, <1>5 DEF Fits, Plain, Legacy
<1>8. \A i \in 1..4 : i = 1 \/ i = 2 \/ i = 3 \/ i = 4 OBVIOUS
<1>9. Local(q, file, rows, adopting) BY <1>5, <1>6, <1>7, <1>8 DEF Local
<1> QED BY <1>4, <1>9

LEMMA UnlockWorkspaceHandled ==
  ASSUME Data, Jobs, NEW t \in Threads, NEW s \in Workspaces, UnlockWorkspace(t, s)
  PROVE  Handled(t)
<1>1. Call(t, UnlockWith(s)) /\ (Exists(s) \/ file[s] = Legacy) BY DEF UnlockWorkspace
<1>2. CASE Exists(s) BY <1>1, <1>2, UnlockFree, FreeCall
<1>3. CASE ~ Exists(s) BY <1>1, <1>3, UnlockOldLocal, CallHandled
<1> QED BY <1>2, <1>3

LEMMA RemoveWorkspacePasswordHandled ==
  ASSUME Data, Jobs, NEW t \in Threads, NEW s \in Workspaces, RemoveWorkspacePassword(t, s)
  PROVE  Handled(t)
<1> DEFINE p == IF Mounted(s) THEN <<>> ELSE UnlockWith(s)
           x == Step("rmpw", s)
<1>1. Exists(s) /\ Call(t, p \o <<x>>) BY DEF RemoveWorkspacePassword
<1>2. s \in Scopes /\ x \in StepRec /\ x.do = "rmpw" /\ x.s = s
 BY DEF Scopes, Step, StepRec, Checked, Withs, OfWorkspace
<1>3. p \in Seq(Free) BY <1>1, UnlockFree
<1>4. file[s] # Legacy \/ (Len(p) = 3 /\ p[3].do = "unlock" /\ p[3].s = s)
 BY <1>1, <1>2, UnlockFree DEF Data, OpenMoved, Old
<1> HIDE DEF p, x
<1>5. Fits(p \o <<x>>, Len(p) + 1, file, rows, adopting)
 <2> DEFINE w == p \o <<x>>
 <2>1. /\ Len(p) \in Nat /\ w[Len(p) + 1] = x
       /\ \A i \in 1..Len(p) : w[i] = p[i]
  BY <1>3
 <2> HIDE DEF w
 <2>2. ASSUME Len(p) = 3, p[3].do = "unlock", p[3].s = s
       PROVE  UnlockBefore(w, Len(p) + 1)
  <3>1. w[4] = x /\ w[3] = p[3] BY <2>1, <2>2
  <3>2. UnlockBefore(w, 4) BY <1>2, <2>2, <3>1 DEF UnlockBefore, Follows
  <3> QED BY <2>2, <3>2
 <2>3. Fits(w, Len(p) + 1, file, rows, adopting) BY <1>2, <1>4, <2>1, <2>2 DEF Fits
 <2> QED BY <2>3 DEF w
<1>6. Local(p \o <<x>>, file, rows, adopting) BY <1>2, <1>3, <1>5, LastLocal
<1> QED BY <1>1, <1>6, CallHandled

LEMMA NewCallHandled ==
  ASSUME Data, Jobs, NEW t \in Threads, NewCall(t)
  PROVE  Data' /\ Kept /\ (Works(t) \/ UNCHANGED job)
BY StartHandled, UnlockAppHandled, MasterHandled, CreateWorkspaceHandled,
   DeleteWorkspaceHandled, OpenCallHandled, UnlockWorkspaceHandled,
   SetWorkspacePasswordHandled, RemoveWorkspacePasswordHandled
   DEF NewCall, Handled

\* The steps of a lock are free.
LEMMA LockFree ==
  ASSUME NEW s \in Scopes
  PROVE  <<Step("kslock", s), Step("close", s)>> \in Seq(Free)
<1>1. Step("kslock", s) \in Free /\ Step("close", s) \in Free
 BY StepFree DEF FreeDo, OfWorkspace
<1> QED BY <1>1

LEMMA MainThreadHandled ==
  ASSUME Data, Jobs,
         LockApp \/ \E s \in Workspaces : LockWorkspace(s) \/ ReadWorkspace(s)
  PROVE  Handled(Js)
<1>1. Js \in Threads /\ App \in Scopes /\ Workspaces \subseteq Scopes BY DEF Threads, Scopes
<1>2. CASE LockApp
 <2> DEFINE p == <<Step("kslock", App), Step("close", App)>>
 <2>1. p \in Seq(Free) BY <1>1, LockFree
 <2>2. Data' /\ Kept BY <1>2, SameData DEF LockApp, Same
 <2>3. job' = [job EXCEPT ![Js] = p] BY <1>2 DEF LockApp
 <2> HIDE DEF p
 <2> QED BY <2>1, <2>2, <2>3, FreeLocal DEF Handled, Works
<1>3. ASSUME NEW s \in Workspaces, LockWorkspace(s) PROVE Handled(Js)
 BY <1>1, <1>3, LockFree, FreeCall DEF LockWorkspace
<1>4. ASSUME NEW s \in Workspaces, ReadWorkspace(s) PROVE Handled(Js)
 <2>1. <<Step("mount", s)>> \in Seq(Free) BY <1>1, StepFree DEF FreeDo, OfWorkspace
 <2>2. Data' /\ Kept BY <1>4, SameData DEF ReadWorkspace, Same
 <2>3. Begin(Js, <<Step("mount", s)>>) BY <1>4 DEF ReadWorkspace
 <2> QED BY <1>1, <2>1, <2>2, <2>3, FreeLocal, BeginWorks DEF Handled
<1> QED BY <1>2, <1>3, <1>4

--------------------------------------------------
(* The steps of the store *)

LEMMA WorkHandled ==
  ASSUME Data, Jobs, NEW t \in Threads, Proceed(t)
  PROVE  Handled(t)
BY OpenMainHandled, SweepHandled, OpenAllHandled, CompleteHandled, RekeyHandled,
   CopyDoneHandled, CommitHandled, OpenWorkspaceHandled, FinishAdoptionHandled,
   MoveHandled, MountHandled, ConnectHandled, WriteRowHandled, CreateScopeHandled,
   UnlockOwnHandled, DropPasswordHandled, ChangePasswordHandled, DropKeysHandled,
   CloseLockedHandled, DeleteHandled, FaultHandled, AnnounceHandled
   DEF Proceed, Work

\* The lists of the other threads find what they rely on because of Kept.
LEMMA WorksJobs ==
  ASSUME Jobs, Kept, NEW t \in Threads, Works(t)
  PROVE  Jobs'
<1>1. PICK p : job' = [job EXCEPT ![t] = p] /\ Local(p, file', rows', adopting') BY DEF Works
<1>2. \A u \in Threads : Local(job[u], file', rows', adopting') BY KeptLocal DEF Jobs
<1>3. job \in [Threads -> Seq(StepRec)] /\ p \in Seq(StepRec) BY <1>1 DEF Jobs, Local
<1>4. /\ job' \in [Threads -> Seq(StepRec)]
      /\ \A u \in Threads : Local(job'[u], file', rows', adopting')
 BY <1>1, <1>2, <1>3
<1> QED BY <1>4 DEF Jobs

LEMMA SameJobs ==
  ASSUME Jobs, Kept, UNCHANGED job
  PROVE  Jobs'
<1>1. \A u \in Threads : Local(job[u], file', rows', adopting') BY KeptLocal DEF Jobs
<1> QED BY <1>1 DEF Jobs

\* A stop keeps the files, the rows and the keyring, and empties every list.
LEMMA CrashKeeps ==
  ASSUME Data, Jobs, Crash
  PROVE  Data' /\ Jobs'
<1>1. /\ open' = {} /\ UNCHANGED <<cur, staged, sealed, file, rows, adopting>>
      /\ conn' = [s \in Scopes |-> "no"] /\ job' = [t \in Threads |-> <<>>]
 BY DEF Crash, KsForget
<1>2. Typed' BY <1>1 DEF Data, Typed, KeystoreType
<1>3. OpenMoved' BY <1>1 DEF OpenMoved, Mounted
<1>4. StagedLater' /\ MainListed' /\ Finishable'
 BY <1>1 DEF Data, StagedLater, Rotating, Exists, MainListed, Finishable
<1>5. Jobs' BY <1>1, EmptyLocal DEF Jobs
<1> QED BY <1>2, <1>3, <1>4, <1>5 DEF Data

LEMMA MovableInit == Init => Movable
<1> SUFFICES ASSUME Init PROVE Movable
 OBVIOUS
<1>1. App \in Scopes /\ Workspaces \subseteq Scopes BY DEF Scopes
<1>2. /\ open = {} /\ staged = [s \in Scopes |-> None] /\ sealed = [s \in Scopes |-> FALSE]
      /\ conn = [s \in Scopes |-> "no"] /\ adopting = {}
      /\ started = FALSE /\ ready = FALSE /\ job = [t \in Threads |-> <<>>]
 BY DEF Init
<1>3. Jobs BY <1>2, EmptyLocal DEF Jobs
<1>4. OpenMoved /\ StagedLater BY <1>2 DEF OpenMoved, StagedLater, Mounted, Rotating
<1>5. CASE /\ cur = [s \in Scopes |-> None]
           /\ file = [s \in Scopes |-> Missing]
           /\ rows = {}
 <2>1. Typed BY <1>1, <1>2, <1>5 DEF Typed, KeystoreType
 <2>2. MainListed /\ Finishable
  BY <1>1, <1>5 DEF MainListed, Finishable, Exists, Old, Missing, Plain, Legacy
 <2> QED BY <1>2, <1>3, <1>4, <2>1, <2>2 DEF Movable, Data
<1>6. ASSUME NEW n \in Serials, NEW found \in [Workspaces -> Before],
             cur = [s \in Scopes |-> IF s = App THEN n ELSE None],
             file = [s \in Scopes |-> IF s = App THEN n ELSE found[s]],
             rows = Workspaces
      PROVE  Movable
 <2>1. App \notin Workspaces /\ Before \subseteq {Missing, Plain, Legacy} BY StoreConstants
 <2>2. \A s \in Workspaces : cur[s] = None BY <1>1, <1>6, <2>1
 <2>3. file \in [Scopes -> Serials \cup {Missing, Plain, Legacy}] BY <1>6, <2>1 DEF Scopes
 <2>4. cur \in [Scopes -> Serials \cup {None}] BY <1>6
 <2>5. Typed BY <1>2, <1>6, <2>3, <2>4 DEF Typed, KeystoreType
 <2>6. MainListed /\ Finishable BY <1>6, <2>2 DEF MainListed, Finishable, Exists
 <2> QED BY <1>2, <1>3, <1>4, <2>5, <2>6 DEF Movable, Data
<1> QED BY <1>5, <1>6 DEF Init

LEMMA FlagsTyped ==
  ASSUME started \in BOOLEAN, ready \in BOOLEAN, Next
  PROVE  started' \in BOOLEAN /\ ready' \in BOOLEAN
BY DEF Next, Proceed, Announce, NewCall, Start, UnlockApp, SetMasterPassword,
       RemoveMasterPassword, CreateWorkspace, DeleteWorkspace, OpenCall, UnlockWorkspace,
       SetWorkspacePassword, RemoveWorkspacePassword, Call, LockApp, LockWorkspace,
       ReadWorkspace, Crash

LEMMA MovableNext == Movable /\ [Next]_vars => Movable'
<1> SUFFICES ASSUME Movable, [Next]_vars PROVE Movable'
 OBVIOUS
<1>1. Data /\ Jobs BY DEF Movable
<1>2. CASE UNCHANGED vars
 <2>1. Data' /\ Kept BY <1>1, <1>2, SameData DEF vars
 <2>2. Jobs' BY <1>1, <1>2, <2>1, SameJobs DEF vars
 <2> QED BY <1>2, <2>1, <2>2 DEF Movable, vars
<1>3. CASE Next
 <2>1. ASSUME NEW t \in Threads, Proceed(t) PROVE Data' /\ Jobs'
  BY <1>1, <2>1, WorkHandled, WorksJobs DEF Handled
 <2>2. ASSUME NEW t \in Pool, NewCall(t) PROVE Data' /\ Jobs'
  BY <1>1, <2>2, NewCallHandled, WorksJobs, SameJobs DEF Threads
 <2>3. ASSUME LockApp \/ \E s \in Workspaces : LockWorkspace(s) \/ ReadWorkspace(s)
       PROVE  Data' /\ Jobs'
  BY <1>1, <2>3, MainThreadHandled, WorksJobs DEF Handled, Threads
 <2>4. ASSUME Crash PROVE Data' /\ Jobs'
  BY <1>1, <2>4, CrashKeeps
 <2>5. Data' /\ Jobs' BY <1>3, <2>1, <2>2, <2>3, <2>4 DEF Next
 <2>6. started' \in BOOLEAN /\ ready' \in BOOLEAN BY <1>3, FlagsTyped DEF Movable
 <2> QED BY <2>5, <2>6 DEF Movable
<1> QED BY <1>2, <1>3

\* Whatever the threads do and wherever the app stops, databases and lists are as Movable
\* describes them.
THEOREM StoreMovable == Spec => []Movable
BY MovableInit, MovableNext, PTL DEF Spec

LEMMA MovableTypes == Movable => TypeOK
<1> SUFFICES ASSUME Movable PROVE TypeOK
 OBVIOUS
<1>1. \A t \in Threads : \A i \in 1..Len(job[t]) : job[t][i].s \in Scopes
 <2>1. \A t \in Threads : job[t] \in Seq(StepRec) BY DEF Movable, Jobs
 <2>2. \A x \in StepRec : x.s \in Scopes BY DEF StepRec
 <2> QED BY <2>1, <2>2
<1> QED BY <1>1 DEF Movable, Data, Typed, TypeOK

\* The types of the store's variables.
THEOREM StoreTypes == Spec => []TypeOK
BY MovableTypes, StoreMovable, PTL

\* The move of an old database can always be finished: however many threads of the pool run
\* calls beside the main thread, and wherever an error or a stop cuts a call short, a listed
\* workspace with a scope and a plain file is marked, and a half-moved 2.x database keeps
\* its password (open_workspace, adopt_workspace, unlock_workspace).
THEOREM StoreFinishable == Spec => []Finishable
<1>1. Movable => Finishable BY DEF Movable, Data
<1> QED BY <1>1, StoreMovable, PTL
=============================================================================
