---------------------------- MODULE ReadingProofs ---------------------------
(***************************************************************************)
(* Theorems of Corpus, Impact and Reading, for every tree of files, graphs *)
(* configured, seeds, bound and policy:                                    *)
(*                                                                         *)
(*   NamespacesKept     composition loses nothing any graph said           *)
(*   EveryLink          every link is an edge, reported iff it is broken   *)
(*   ReachedAtDistance  the traversal answers the nodes within the bound,  *)
(*                      each at its distance                               *)
(*   ReviewPoints       a reviewer is sent to the lines of the links       *)
(*   DiagnosticsMatch   the diagnostics are of the edges looked at         *)
(*   SelectorsAnswered  nodes and edges answer what is selected and asked, *)
(*                      from a directory whose names are no patterns       *)
(*                                                                         *)
(* The argument.  A fold over a sequence keeps what its base has and each  *)
(* step preserves (FoldGoesAlong); so the composed graph has, under each   *)
(* namespace, the fragment of that namespace (NodesUpTo, EdgesUpTo), which *)
(* is what was written in the files (TextEdges, ComposedEdges).  Of the    *)
(* traversal, the inductive invariant is Walking: the queue is in levels   *)
(* of depth, every node met is expanded, queued or at the bound, and the   *)
(* depth of a node met is that of the least ball around the seeds that has *)
(* it.  Between two selectors, what is picked is what those treated so far *)
(* resolve to (SelectInvariant).                                           *)
(***************************************************************************)
EXTENDS Reading, FiniteSetTheorems, TLAPS

(* Induction *)
LEMMA LeastNumber ==
  ASSUME NEW T \in SUBSET Nat, T # {}
  PROVE  \E x \in T : \A y \in T : x <= y
  <1>1. {ss \in Nat \X Nat : ss[1] < ss[2]} = OpToRel(<, Nat)
    BY DEF OpToRel
  <1>2. IsWellFoundedOn({ss \in Nat \X Nat : ss[1] < ss[2]}, Nat)
    BY <1>1, NatLessThanWellFounded
  <1>3. PICK x \in T : \A y \in T : <<y, x>> \notin {ss \in Nat \X Nat : ss[1] < ss[2]}
    BY <1>2, WFMin
  <1>4. ASSUME NEW y \in T, y < x PROVE FALSE
    <2>1. <<y, x>> \in {ss \in Nat \X Nat : ss[1] < ss[2]}
      BY <1>4
    <2>2. QED
      BY <1>3, <2>1
  <1>5. QED
    BY <1>4

\* A set of numbers with 0 and the successor of each below n has all up to n.
LEMMA UpTo ==
  ASSUME NEW n \in Nat, NEW A, 0 \in A, \A k \in 0 .. n - 1 : k \in A => k + 1 \in A
  PROVE  \A k \in 0 .. n : k \in A
  <1> SUFFICES ASSUME (0 .. n) \ A # {} PROVE FALSE
    OBVIOUS
  <1>1. PICK x \in (0 .. n) \ A : \A y \in (0 .. n) \ A : x <= y
    <2>1. (0 .. n) \ A \in SUBSET Nat
      OBVIOUS
    <2>2. QED
      BY <2>1, LeastNumber
  <1>2. x # 0 /\ x - 1 \in 0 .. n - 1 /\ (x - 1) + 1 = x
    BY <1>1
  <1>3. x - 1 \in A
    BY <1>1, <1>2
  <1>4. QED
    BY <1>1, <1>2, <1>3

-----------------------------------------------------------------------------
(* Folds over a sequence *)

Step(of, via, depth, w, x) ==
  CASE of = "merge" -> Merge(w, x)
    [] of = "first" -> IF Contains(w, x) THEN w ELSE Append(w, x)
    [] of = "key" -> IF w = None THEN None
                     ELSE IF x # ".." THEN Append(w, x)
                     ELSE IF w = <<>> THEN None ELSE Front(w)
    [] of = "pick" -> IF x \in via THEN Append(w, x) ELSE w
    [] OTHER ->
         IF x.node \in w.visited THEN w
         ELSE [visited |-> w.visited \cup {x.node},
               queue |-> Enqueued(w.queue, [node |-> x.node, depth |-> depth + 1]),
               reached |-> Append(w.reached, [node |-> x.node, via |-> via,
                                              depth |-> depth + 1, lines |-> x.lines])]

Term(of, via, depth, base, s, g, I) ==
  IF I = {} THEN base ELSE Step(of, via, depth, g[I \ {Max(I)}], s[Max(I)])

\* The fold takes the greatest index first, so it is unrolled from the end.
LEMMA MaxOfRange == ASSUME NEW k \in Nat, k > 0 PROVE Max(1 .. k) = k /\ (1 .. k) \ {k} = 1 .. (k - 1)
  <1>1. \E x \in 1 .. k : \A y \in 1 .. k : x >= y
    <2>1. k \in 1 .. k
      OBVIOUS
    <2>2. QED
      BY <2>1
  <1>2. Max(1 .. k) \in 1 .. k /\ \A y \in 1 .. k : Max(1 .. k) >= y
    BY <1>1 DEF Max
  <1>3. QED
    BY <1>2

\* A nonempty finite set of numbers has a greatest one.
LEMMA MaxIsThere ==
  ASSUME NEW n \in Nat, NEW I \in SUBSET (1 .. n), I # {}
  PROVE  Max(I) \in I
  <1> DEFINE T == {n - i : i \in I}
  <1>2. PICK x \in T : \A y \in T : x <= y
    <2>1. \A i \in I : n - i \in Nat
      OBVIOUS
    <2>2. T \in SUBSET Nat /\ T # {}
      BY <2>1
    <2> HIDE DEF T
    <2>3. QED
      BY <2>2, LeastNumber
  <1>3. PICK i \in I : x = n - i
    OBVIOUS
  <1>4. \A j \in I : i >= j
    <2> TAKE j \in I
    <2>1. n - j \in T /\ j \in Nat /\ i \in Nat
      OBVIOUS
    <2>2. n - i <= n - j
      BY <1>2, <1>3, <2>1
    <2>3. QED
      BY <2>1, <2>2
  <1>5. QED
    BY <1>4 DEF Max

Folds(of, via, depth, base, s, n, g) ==
  g = [I \in SUBSET (1 .. n) |-> Term(of, via, depth, base, s, g, I)]

\* The recursive function by which a fold is defined has a value at each prefix.
LEMMA FoldExists ==
  ASSUME NEW of, NEW via, NEW depth, NEW base, NEW s, NEW n \in Nat
  PROVE  \E g : Folds(of, via, depth, base, s, n, g)
  <1> DEFINE S == 1 .. n
             T(g, I) == Term(of, via, depth, base, s, g, I)
             Solves(g, k) == \A I \in SUBSET S : Cardinality(I) <= k => g[I] = T(g, I)
             A == {k \in Nat : \E g : Solves(g, k)}
  <1>0. IsFiniteSet(S) /\ Cardinality(S) = n
    <2>1. 1 \in Int /\ n \in Int
      OBVIOUS
    <2>2. IsFiniteSet(1 .. n) /\ Cardinality(1 .. n) = IF 1 > n THEN 0 ELSE n - 1 + 1
      BY <2>1, FS_Interval
    <2>3. QED
      BY <2>2
  <1>1. \A I \in SUBSET S : /\ Cardinality(I) \in Nat /\ Cardinality(I) <= n
                            /\ Cardinality(I) = 0 <=> I = {}
                            /\ \A x \in I : Cardinality(I \ {x}) = Cardinality(I) - 1
    <2> HIDE DEF S
    <2> TAKE I \in SUBSET S
    <2>1. IsFiniteSet(I) /\ Cardinality(I) <= n
      BY <1>0, FS_Subset
    <2>2. Cardinality(I) \in Nat /\ (Cardinality(I) = 0 <=> I = {})
      BY <2>1, FS_CardinalityType, FS_EmptySet
    <2>3. \A x \in I : Cardinality(I \ {x}) = Cardinality(I) - 1
      BY <2>1, FS_RemoveElement
    <2>4. QED
      BY <2>1, <2>2, <2>3
  <1>2. 0 \in A
    <2>1. Solves([I \in SUBSET S |-> base], 0)
      BY <1>1 DEF Term
    <2>2. QED
      BY <2>1
  <1>a. \A I \in SUBSET S : I # {} => Max(I) \in I
    BY MaxIsThere
  <1>b. \A g, h, I : I # {} /\ g[I \ {Max(I)}] = h[I \ {Max(I)}] => T(g, I) = T(h, I)
    BY DEF Term
  <1>c. \A g, h : T(g, {}) = T(h, {})
    BY DEF Term
  <1> HIDE DEF T
  <1>3. ASSUME NEW k \in A PROVE k + 1 \in A
    <2>1. PICK g : Solves(g, k)
      OBVIOUS
    <2> DEFINE h == [I \in SUBSET S |-> T(g, I)]
    <2>2. ASSUME NEW I \in SUBSET S, Cardinality(I) <= k + 1
          PROVE  T(g, I) = T(h, I)
      <3>1. CASE I = {}
        BY <3>1, <1>c
      <3>2. CASE I # {}
        <4> DEFINE r == I \ {Max(I)}
        <4>1. Max(I) \in I
          BY <3>2, <1>a
        <4>2. r \in SUBSET S /\ Cardinality(r) <= k
          <5>1. Cardinality(r) = Cardinality(I) - 1 /\ Cardinality(I) \in Nat /\ k \in Nat
            BY <1>1, <4>1
          <5>2. r \in SUBSET S
            OBVIOUS
          <5> HIDE DEF r, A
          <5>3. QED
            BY <2>2, <5>1, <5>2
        <4>3. h[r] = g[r]
          BY <2>1, <4>2
        <4>4. QED
          BY <3>2, <4>3, <1>b
      <3>3. QED
        BY <3>1, <3>2
    <2>3. Solves(h, k + 1)
      BY <2>2
    <2>4. \E f : Solves(f, k + 1)
      <3> HIDE DEF Solves, h
      <3>1. QED
        BY <2>3
    <2>5. QED
      BY <2>4
  <1>4. n \in A
    <2>1. \A k \in 0 .. n - 1 : k \in A => k + 1 \in A
      <3> HIDE DEF A
      <3>1. QED
        BY <1>3
    <2> HIDE DEF A
    <2>2. QED
      BY <1>2, <2>1, UpTo
  <1>5. PICK g : Solves(g, n)
    <2> HIDE DEF Solves
    <2>1. QED
      BY <1>4
  <1> DEFINE h == [I \in SUBSET S |-> T(g, I)]
  <1>6. \A I \in SUBSET S : h[I] = g[I]
    BY <1>1, <1>5
  <1>7. \A I \in SUBSET S : T(h, I) = T(g, I)
    <2> TAKE I \in SUBSET S
    <2>1. CASE I = {}
      BY <2>1, <1>c
    <2>2. CASE I # {}
      <3> DEFINE r == I \ {Max(I)}
      <3>1. r \in SUBSET S
        OBVIOUS
      <3> HIDE DEF h, r, S
      <3>2. h[r] = g[r]
        BY <1>6, <3>1
      <3>3. QED
        BY <2>2, <3>2, <1>b DEF r
    <2>3. QED
      BY <2>1, <2>2
  <1>8. h = [I \in SUBSET S |-> T(h, I)]
    BY <1>7
  <1>9. QED
    BY <1>8 DEF T, Folds

\* The values along the fold.
Along(of, via, depth, base, s, n, c) ==
  /\ c[0] = base
  /\ \A k \in 1 .. n : c[k] = Step(of, via, depth, c[k - 1], s[k])

\* What holds of the base and is kept by each step holds of the fold.
LEMMA FoldGoesAlong ==
  ASSUME NEW of, NEW via, NEW depth, NEW base, NEW s, NEW n \in Nat, NEW g,
         Folds(of, via, depth, base, s, n, g)
  PROVE  Along(of, via, depth, base, s, n, [k \in 0 .. n |-> g[1 .. k]])
  <1> DEFINE c == [k \in 0 .. n |-> g[1 .. k]]
  <1>1. \A k \in 0 .. n : /\ 1 .. k \in SUBSET (1 .. n)
                          /\ g[1 .. k] = Term(of, via, depth, base, s, g, 1 .. k)
    <2> TAKE k \in 0 .. n
    <2>1. 1 .. k \in SUBSET (1 .. n)
      OBVIOUS
    <2>2. g = [J \in SUBSET (1 .. n) |-> Term(of, via, depth, base, s, g, J)]
      BY DEF Folds
    <2>3. QED
      BY <2>1, <2>2
  <1>2. 1 .. 0 = {}
    OBVIOUS
  <1>3. c[0] = base
    <2>1. 0 \in 0 .. n
      OBVIOUS
    <2>2. g[1 .. 0] = Term(of, via, depth, base, s, g, 1 .. 0)
      BY <1>1, <2>1
    <2>3. Term(of, via, depth, base, s, g, 1 .. 0) = base
      BY <1>2 DEF Term
    <2>4. QED
      BY <2>1, <2>2, <2>3
  <1>4. \A k \in 1 .. n : c[k] = Step(of, via, depth, c[k - 1], s[k])
    <2> TAKE k \in 1 .. n
    <2>1. k \in 0 .. n /\ k - 1 \in 0 .. n /\ k \in Nat /\ k > 0 /\ k \in 1 .. k
      OBVIOUS
    <2>2. g[1 .. k] = Term(of, via, depth, base, s, g, 1 .. k)
      BY <1>1, <2>1
    <2>3. Max(1 .. k) = k /\ (1 .. k) \ {k} = 1 .. (k - 1)
      BY <2>1, MaxOfRange
    <2>4. 1 .. k # {}
      BY <2>1
    <2>5. Term(of, via, depth, base, s, g, 1 .. k)
            = Step(of, via, depth, g[1 .. (k - 1)], s[k])
      BY <2>3, <2>4 DEF Term
    <2>6. QED
      BY <2>1, <2>2, <2>5
  <1>5. QED
    BY <1>3, <1>4 DEF Along

\* compose.rs: one graph after the other.
LEMMA ComposeGoesAlong ==
  ASSUME NEW set, NEW n \in Nat, DOMAIN set = 1 .. n
  PROVE  \E c : Along("merge", None, 0, EmptyGraph, set, n, c) /\ Compose(set) = c[n]
  <1> DEFINE F(h) == Folds("merge", None, 0, EmptyGraph, set, n, h)
             t(h, I) == IF I = {} THEN EmptyGraph
                        ELSE Merge(h[I \ {Max(I)}], set[Max(I)])
             g == CHOOSE h : h = [I \in SUBSET (1 .. n) |-> t(h, I)]
  <1>1. \A h, I : t(h, I) = Term("merge", None, 0, EmptyGraph, set, h, I)
    BY DEF Term, Step
  <1>2. \A h : F(h) <=> h = [I \in SUBSET (1 .. n) |-> t(h, I)]
    <2> TAKE h
    <2> HIDE DEF t
    <2>1. [I \in SUBSET (1 .. n) |-> Term("merge", None, 0, EmptyGraph, set, h, I)]
            = [I \in SUBSET (1 .. n) |-> t(h, I)]
      BY <1>1
    <2>2. QED
      BY <2>1 DEF Folds
  <1>3. Compose(set) = g[1 .. n]
    BY DEF Compose, FoldLeft, MapThenFoldSet
  <1>4. F(g)
    <2>1. \E h : F(h)
      BY FoldExists
    <2>2. \E h : h = [I \in SUBSET (1 .. n) |-> t(h, I)]
      <3> HIDE DEF F, t
      <3>1. QED
        BY <1>2, <2>1
    <2>3. g = [I \in SUBSET (1 .. n) |-> t(g, I)]
      <3> HIDE DEF t
      <3>1. QED
        BY <2>2
    <2> HIDE DEF F, g, t
    <2>4. QED
      BY <1>2, <2>3
  <1> HIDE DEF g
  <1>5. Along("merge", None, 0, EmptyGraph, set, n, [k \in 0 .. n |-> g[1 .. k]])
    BY <1>4, FoldGoesAlong
  <1>6. [k \in 0 .. n |-> g[1 .. k]][n] = g[1 .. n]
    OBVIOUS
  <1>7. QED
    BY <1>3, <1>5, <1>6

\* The operands, each once (impact.rs, main.rs).
LEMMA FirstGoesAlong ==
  ASSUME NEW s, NEW n \in Nat, DOMAIN s = 1 .. n
  PROVE  \E c : Along("first", None, 0, <<>>, s, n, c) /\ FirstOfEach(s) = c[n]
  <1> DEFINE F(h) == Folds("first", None, 0, <<>>, s, n, h)
             t(h, I) == IF I = {} THEN <<>>
                        ELSE IF Contains(h[I \ {Max(I)}], s[Max(I)]) THEN h[I \ {Max(I)}]
                             ELSE Append(h[I \ {Max(I)}], s[Max(I)])
             g == CHOOSE h : h = [I \in SUBSET (1 .. n) |-> t(h, I)]
  <1>1. \A h, I : t(h, I) = Term("first", None, 0, <<>>, s, h, I)
    BY DEF Term, Step
  <1>2. \A h : F(h) <=> h = [I \in SUBSET (1 .. n) |-> t(h, I)]
    <2> TAKE h
    <2> HIDE DEF t
    <2>1. [I \in SUBSET (1 .. n) |-> Term("first", None, 0, <<>>, s, h, I)]
            = [I \in SUBSET (1 .. n) |-> t(h, I)]
      BY <1>1
    <2>2. QED
      BY <2>1 DEF Folds
  <1>3. FirstOfEach(s) = g[1 .. n]
    BY DEF FirstOfEach, FoldLeft, MapThenFoldSet
  <1>4. F(g)
    <2>1. \E h : F(h)
      BY FoldExists
    <2>2. \E h : h = [I \in SUBSET (1 .. n) |-> t(h, I)]
      <3> HIDE DEF F, t
      <3>1. QED
        BY <1>2, <2>1
    <2>3. g = [I \in SUBSET (1 .. n) |-> t(g, I)]
      <3> HIDE DEF t
      <3>1. QED
        BY <2>2
    <2> HIDE DEF F, g, t
    <2>4. QED
      BY <1>2, <2>3
  <1> HIDE DEF g
  <1>5. Along("first", None, 0, <<>>, s, n, [k \in 0 .. n |-> g[1 .. k]])
    BY <1>4, FoldGoesAlong
  <1>6. [k \in 0 .. n |-> g[1 .. k]][n] = g[1 .. n]
    OBVIOUS
  <1>7. QED
    BY <1>3, <1>5, <1>6

KeyFold(cwd, s) ==
  FoldLeft(LAMBDA k, x : IF k = None THEN None
                         ELSE IF x # ".." THEN Append(k, x)
                         ELSE IF k = <<>> THEN None ELSE Front(k),
           cwd, s)

\* An operand, one name after the other (main.rs).
LEMMA KeyGoesAlong ==
  ASSUME NEW cwd, NEW s, NEW n \in Nat, DOMAIN s = 1 .. n
  PROVE  \E c : Along("key", None, 0, cwd, s, n, c) /\ KeyFold(cwd, s) = c[n]
  <1> DEFINE F(h) == Folds("key", None, 0, cwd, s, n, h)
             t(h, I) == IF I = {} THEN cwd
                        ELSE IF h[I \ {Max(I)}] = None THEN None
                             ELSE IF s[Max(I)] # ".." THEN Append(h[I \ {Max(I)}], s[Max(I)])
                             ELSE IF h[I \ {Max(I)}] = <<>> THEN None ELSE Front(h[I \ {Max(I)}])
             g == CHOOSE h : h = [I \in SUBSET (1 .. n) |-> t(h, I)]
  <1>1. \A h, I : t(h, I) = Term("key", None, 0, cwd, s, h, I)
    BY DEF Term, Step
  <1>2. \A h : F(h) <=> h = [I \in SUBSET (1 .. n) |-> t(h, I)]
    <2> TAKE h
    <2> HIDE DEF t
    <2>1. [I \in SUBSET (1 .. n) |-> Term("key", None, 0, cwd, s, h, I)]
            = [I \in SUBSET (1 .. n) |-> t(h, I)]
      BY <1>1
    <2>2. QED
      BY <2>1 DEF Folds
  <1>3. KeyFold(cwd, s) = g[1 .. n]
    BY DEF KeyFold, FoldLeft, MapThenFoldSet
  <1>4. F(g)
    <2>1. \E h : F(h)
      BY FoldExists
    <2>2. \E h : h = [I \in SUBSET (1 .. n) |-> t(h, I)]
      <3> HIDE DEF F, t
      <3>1. QED
        BY <1>2, <2>1
    <2>3. g = [I \in SUBSET (1 .. n) |-> t(g, I)]
      <3> HIDE DEF t
      <3>1. QED
        BY <2>2
    <2> HIDE DEF F, g, t
    <2>4. QED
      BY <1>2, <2>3
  <1> HIDE DEF g
  <1>5. Along("key", None, 0, cwd, s, n, [k \in 0 .. n |-> g[1 .. k]])
    BY <1>4, FoldGoesAlong
  <1>6. [k \in 0 .. n |-> g[1 .. k]][n] = g[1 .. n]
    OBVIOUS
  <1>7. QED
    BY <1>3, <1>5, <1>6

\* The neighbors of a node, in the order of the edges (impact.rs).
LEMMA InOrderGoesAlong ==
  ASSUME NEW S, NEW n \in Nat, DOMAIN KeyOrder = 1 .. n
  PROVE  \E c : Along("pick", S, 0, <<>>, KeyOrder, n, c) /\ InKeyOrder(S) = c[n]
  <1> DEFINE F(h) == Folds("pick", S, 0, <<>>, KeyOrder, n, h)
             t(h, I) == IF I = {} THEN <<>>
                        ELSE IF KeyOrder[Max(I)] \in S THEN Append(h[I \ {Max(I)}], KeyOrder[Max(I)])
                             ELSE h[I \ {Max(I)}]
             g == CHOOSE h : h = [I \in SUBSET (1 .. n) |-> t(h, I)]
  <1>1. \A h, I : t(h, I) = Term("pick", S, 0, <<>>, KeyOrder, h, I)
    BY DEF Term, Step
  <1>2. \A h : F(h) <=> h = [I \in SUBSET (1 .. n) |-> t(h, I)]
    <2> TAKE h
    <2> HIDE DEF t
    <2>1. [I \in SUBSET (1 .. n) |-> Term("pick", S, 0, <<>>, KeyOrder, h, I)]
            = [I \in SUBSET (1 .. n) |-> t(h, I)]
      BY <1>1
    <2>2. QED
      BY <2>1 DEF Folds
  <1>3. InKeyOrder(S) = g[1 .. n]
    BY DEF InKeyOrder, FoldLeft, MapThenFoldSet
  <1>4. F(g)
    <2>1. \E h : F(h)
      BY FoldExists
    <2>2. \E h : h = [I \in SUBSET (1 .. n) |-> t(h, I)]
      <3> HIDE DEF F, t
      <3>1. QED
        BY <1>2, <2>1
    <2>3. g = [I \in SUBSET (1 .. n) |-> t(g, I)]
      <3> HIDE DEF t
      <3>1. QED
        BY <2>2
    <2> HIDE DEF F, g, t
    <2>4. QED
      BY <1>2, <2>3
  <1> HIDE DEF g
  <1>5. Along("pick", S, 0, <<>>, KeyOrder, n, [k \in 0 .. n |-> g[1 .. k]])
    BY <1>4, FoldGoesAlong
  <1>6. [k \in 0 .. n |-> g[1 .. k]][n] = g[1 .. n]
    OBVIOUS
  <1>7. QED
    BY <1>3, <1>5, <1>6

Underway == [visited |-> visited, queue |-> Tail(queue), reached |-> reached]

\* The neighbors of a node, met one after the other (impact.rs).
LEMMA MeetGoesAlong ==
  ASSUME NEW via, NEW depth, NEW n \in Nat, DOMAIN Neighbors(via) = 1 .. n
  PROVE  \E c : Along("meet", via, depth, Underway, Neighbors(via), n, c) /\ Meet(via, depth) = c[n]
  <1> DEFINE F(h) == Folds("meet", via, depth, Underway, Neighbors(via), n, h)
             t(h, I) == IF I = {} THEN Underway
                        ELSE LET w == h[I \ {Max(I)}]  x == Neighbors(via)[Max(I)]
                             IN  IF x.node \in w.visited THEN w
                                 ELSE [visited |-> w.visited \cup {x.node},
                                       queue |-> Enqueued(w.queue, [node |-> x.node, depth |-> depth + 1]),
                                       reached |-> Append(w.reached, [node |-> x.node, via |-> via,
                                                                      depth |-> depth + 1, lines |-> x.lines])]
             g == CHOOSE h : h = [I \in SUBSET (1 .. n) |-> t(h, I)]
  <1>1. \A h, I : t(h, I) = Term("meet", via, depth, Underway, Neighbors(via), h, I)
    BY DEF Term, Step
  <1>2. \A h : F(h) <=> h = [I \in SUBSET (1 .. n) |-> t(h, I)]
    <2> TAKE h
    <2> HIDE DEF t
    <2>1. [I \in SUBSET (1 .. n) |-> Term("meet", via, depth, Underway, Neighbors(via), h, I)]
            = [I \in SUBSET (1 .. n) |-> t(h, I)]
      BY <1>1
    <2>2. QED
      BY <2>1 DEF Folds
  <1>3. Meet(via, depth) = g[1 .. n]
    BY DEF Meet, Underway, FoldLeft, MapThenFoldSet
  <1>4. F(g)
    <2>1. \E h : F(h)
      BY FoldExists
    <2>2. \E h : h = [I \in SUBSET (1 .. n) |-> t(h, I)]
      <3> HIDE DEF F, t
      <3>1. QED
        BY <1>2, <2>1
    <2>3. g = [I \in SUBSET (1 .. n) |-> t(g, I)]
      <3> HIDE DEF t
      <3>1. QED
        BY <2>2
    <2> HIDE DEF F, g, t
    <2>4. QED
      BY <1>2, <2>3
  <1> HIDE DEF g
  <1>5. Along("meet", via, depth, Underway, Neighbors(via), n, [k \in 0 .. n |-> g[1 .. k]])
    BY <1>4, FoldGoesAlong
  <1>6. [k \in 0 .. n |-> g[1 .. k]][n] = g[1 .. n]
    OBVIOUS
  <1>7. QED
    BY <1>3, <1>5, <1>6

IsFunction(f) == f = [k \in DOMAIN f |-> f[k]]

\* The labels of graphs are distinct, so each is new when it is merged.
IsNew(label, entries) == \A k \in DOMAIN entries : label \notin DOMAIN entries[k].of

\* An entry made by composition has both its fields.
IsEntry(e) == e = [of |-> e.of, graphs |-> e.graphs]

\* What merging a graph's metadata does to an entry (compose.rs, node metadata).
LEMMA NestedOf ==
  ASSUME NEW e, NEW label, NEW m
  PROVE  /\ DOMAIN Nested(e, label, m).of = {label} \cup DOMAIN e.of
         /\ Nested(e, label, m).of[label] = m
         /\ \A n \in DOMAIN e.of \ {label} : Nested(e, label, m).of[n] = e.of[n]
         /\ Nested(e, label, m).graphs = e.graphs \cup {label}
  BY DEF Nested

\* And to an edge: without occurrences, only the graph is noted.
LEMMA AttributedOf ==
  ASSUME NEW e, NEW label, NEW m, IsEntry(e)
  PROVE  /\ m = {} => DOMAIN Attributed(e, label, m).of = DOMAIN e.of
         /\ m # {} => /\ DOMAIN Attributed(e, label, m).of = {label} \cup DOMAIN e.of
                      /\ Attributed(e, label, m).of[label] = m
         /\ label \in Attributed(e, label, m).graphs
  <1>1. CASE m = {}
    <2>1. Attributed(e, label, m) = [of |-> e.of, graphs |-> e.graphs \cup {label}]
      BY <1>1 DEF Attributed, IsEntry
    <2>2. QED
      BY <1>1, <2>1
  <1>2. CASE m # {}
    BY <1>2, NestedOf DEF Attributed
  <1>3. QED
    BY <1>1, <1>2

\* The other namespaces of an edge stay as they were.
LEMMA AttributedOthers ==
  ASSUME NEW e, NEW label, NEW m, NEW n \in DOMAIN e.of \ {label}, IsEntry(e)
  PROVE  Attributed(e, label, m).of[n] = e.of[n]
  <1>1. CASE m = {}
    BY <1>1 DEF Attributed, IsEntry
  <1>2. CASE m # {}
    BY <1>2, NestedOf DEF Attributed
  <1>3. QED
    BY <1>1, <1>2

\* A graph's nodes are back in its namespace after the merge (compose.rs).
THEOREM MergedNodesAreBack ==
  ASSUME NEW entries, NEW label, NEW more, IsNew(label, entries), IsFunction(more)
  PROVE  View(Merged(Nested, entries, label, more), label) = more
  <1> DEFINE all == Merged(Nested, entries, label, more)
  <1>1. DOMAIN all = DOMAIN entries \cup DOMAIN more
    BY DEF Merged
  <1>2. \A k \in DOMAIN more : label \in DOMAIN all[k].of /\ all[k].of[label] = more[k]
    <2> TAKE k \in DOMAIN more
    <2>1. PICK e : all[k] = Nested(e, label, more[k])
      BY <1>1 DEF Merged
    <2>2. QED
      BY <2>1, NestedOf
  <1>3. \A k \in DOMAIN entries \ DOMAIN more : label \notin DOMAIN all[k].of
    BY <1>1 DEF Merged, IsNew
  <1>4. {k \in DOMAIN all : label \in DOMAIN all[k].of} = DOMAIN more
    BY <1>1, <1>2, <1>3
  <1>5. View(all, label) = [k \in DOMAIN more |-> all[k].of[label]]
    BY <1>4 DEF View
  <1>6. [k \in DOMAIN more |-> all[k].of[label]] = [k \in DOMAIN more |-> more[k]]
    BY <1>2
  <1>7. QED
    BY <1>5, <1>6 DEF IsFunction

\* The edges a graph tells an occurrence of.
Voiced(edges) == [e \in {d \in DOMAIN edges : edges[d] # {}} |-> edges[e]]

AreEntries(entries) == \A k \in DOMAIN entries : IsEntry(entries[k])

\* A graph's edges are back too, but for those without an occurrence, and
\* each of its edges has it among its graphs (compose.rs).
THEOREM MergedEdgesAreBack ==
  ASSUME NEW entries, NEW label, NEW more, IsNew(label, entries),
         AreEntries(entries)
  PROVE  /\ View(Merged(Attributed, entries, label, more), label) = Voiced(more)
         /\ \A e \in DOMAIN more :
              label \in Merged(Attributed, entries, label, more)[e].graphs
  <1> DEFINE all == Merged(Attributed, entries, label, more)
             spoken == {e \in DOMAIN more : more[e] # {}}
             before(k) == IF k \in DOMAIN entries THEN entries[k] ELSE NoMetadata
  <1>1. DOMAIN all = DOMAIN entries \cup DOMAIN more
    BY DEF Merged
  <1>2. \A k \in DOMAIN more :
          /\ all[k] = Attributed(before(k), label, more[k])
          /\ IsEntry(before(k))
          /\ label \notin DOMAIN before(k).of
    BY <1>1 DEF Merged, IsNew, AreEntries, IsEntry, NoMetadata
  <1>3. \A k \in DOMAIN more :
          /\ label \in DOMAIN all[k].of <=> more[k] # {}
          /\ more[k] # {} => all[k].of[label] = more[k]
          /\ label \in all[k].graphs
    <2> TAKE k \in DOMAIN more
    <2> DEFINE e == before(k)
    <2>1. /\ all[k] = Attributed(e, label, more[k])
          /\ IsEntry(e)
          /\ label \notin DOMAIN e.of
      BY <1>2
    <2> HIDE DEF all, before, e
    <2>2. CASE more[k] = {}
      <3>1. DOMAIN all[k].of = DOMAIN e.of /\ label \in all[k].graphs
        BY <2>1, <2>2, AttributedOf
      <3>2. QED
        BY <2>1, <2>2, <3>1
    <2>3. CASE more[k] # {}
      <3>1. /\ DOMAIN all[k].of = {label} \cup DOMAIN e.of
            /\ all[k].of[label] = more[k]
            /\ label \in all[k].graphs
        BY <2>1, <2>3, AttributedOf
      <3>2. QED
        BY <2>3, <3>1
    <2>4. QED
      BY <2>2, <2>3
  <1>4. \A k \in DOMAIN entries \ DOMAIN more : label \notin DOMAIN all[k].of
    BY <1>1 DEF Merged, IsNew
  <1>5. {k \in DOMAIN all : label \in DOMAIN all[k].of} = spoken
    BY <1>1, <1>3, <1>4
  <1>6. View(all, label) = [k \in spoken |-> all[k].of[label]]
    BY <1>5 DEF View
  <1>7. [k \in spoken |-> all[k].of[label]] = [k \in spoken |-> more[k]]
    BY <1>3
  <1>8. QED
    BY <1>3, <1>6, <1>7 DEF Voiced

\* What the other graphs spoken of a node is not touched by the merge, though
\* the same path is in both (compose.rs).
THEOREM OtherNodesAreLeft ==
  ASSUME NEW entries, NEW label, NEW more, NEW other, other # label
  PROVE  View(Merged(Nested, entries, label, more), other) = View(entries, other)
  <1> DEFINE all == Merged(Nested, entries, label, more)
             before(k) == IF k \in DOMAIN entries THEN entries[k] ELSE NoMetadata
  <1>1. DOMAIN all = DOMAIN entries \cup DOMAIN more
    BY DEF Merged
  <1>2. \A k \in DOMAIN all :
          /\ other \in DOMAIN all[k].of <=> other \in DOMAIN before(k).of
          /\ other \in DOMAIN before(k).of => all[k].of[other] = before(k).of[other]
    <2> TAKE k \in DOMAIN all
    <2>1. CASE k \in DOMAIN more
      <3>1. all[k] = Nested(before(k), label, more[k])
        BY <1>1, <2>1 DEF Merged
      <3> HIDE DEF all, before
      <3>2. QED
        BY <3>1, NestedOf
    <2>2. CASE k \notin DOMAIN more
      BY <1>1, <2>2 DEF Merged
    <2>3. QED
      BY <2>1, <2>2
  <1>3. \A k \in DOMAIN more \ DOMAIN entries : other \notin DOMAIN before(k).of
    BY DEF NoMetadata
  <1>4. {k \in DOMAIN all : other \in DOMAIN all[k].of}
          = {k \in DOMAIN entries : other \in DOMAIN entries[k].of}
    BY <1>1, <1>2, <1>3
  <1>5. View(all, other) = View(entries, other)
    BY <1>1, <1>2, <1>4 DEF View
  <1>6. QED
    BY <1>5

\* Nor is what they spoken of an edge (compose.rs).
THEOREM OtherEdgesAreLeft ==
  ASSUME NEW entries, NEW label, NEW more, NEW other, other # label,
         AreEntries(entries)
  PROVE  View(Merged(Attributed, entries, label, more), other) = View(entries, other)
  <1> DEFINE all == Merged(Attributed, entries, label, more)
             before(k) == IF k \in DOMAIN entries THEN entries[k] ELSE NoMetadata
  <1>1. DOMAIN all = DOMAIN entries \cup DOMAIN more
    BY DEF Merged
  <1>2. \A k \in DOMAIN all :
          /\ other \in DOMAIN all[k].of <=> other \in DOMAIN before(k).of
          /\ other \in DOMAIN before(k).of => all[k].of[other] = before(k).of[other]
    <2> TAKE k \in DOMAIN all
    <2>1. CASE k \in DOMAIN more
      <3> DEFINE e == before(k)
      <3>1. all[k] = Attributed(e, label, more[k]) /\ IsEntry(e)
        BY <1>1, <2>1 DEF Merged, AreEntries, IsEntry, NoMetadata
      <3> HIDE DEF all, before, e
      <3>2. other \in DOMAIN all[k].of <=> other \in DOMAIN e.of
        <4>1. CASE more[k] = {}
          BY <3>1, <4>1, AttributedOf
        <4>2. CASE more[k] # {}
          BY <3>1, <4>2, AttributedOf
        <4>3. QED
          BY <4>1, <4>2
      <3>3. other \in DOMAIN e.of => all[k].of[other] = e.of[other]
        BY <3>1, AttributedOthers
      <3>4. QED
        BY <3>2, <3>3 DEF e
    <2>2. CASE k \notin DOMAIN more
      BY <1>1, <2>2 DEF Merged
    <2>3. QED
      BY <2>1, <2>2
  <1>3. \A k \in DOMAIN more \ DOMAIN entries : other \notin DOMAIN before(k).of
    BY DEF NoMetadata
  <1>4. {k \in DOMAIN all : other \in DOMAIN all[k].of}
          = {k \in DOMAIN entries : other \in DOMAIN entries[k].of}
    BY <1>1, <1>2, <1>3
  <1>5. View(all, other) = View(entries, other)
    BY <1>1, <1>2, <1>4 DEF View
  <1>6. QED
    BY <1>5

\* One step of composing a set of graphs with distinct labels (compose.rs):
\* the new namespace gives back its graph, and no other namespace changes.
THEOREM MergeKeepsNamespaces ==
  ASSUME NEW composed, NEW fragment, NEW other, other # fragment.label,
         AreEntries(composed.edges), IsFunction(fragment.nodes),
         IsNew(fragment.label, composed.nodes), IsNew(fragment.label, composed.edges)
  PROVE  LET merged == Merge(composed, fragment)
         IN  /\ View(merged.nodes, fragment.label) = fragment.nodes
             /\ View(merged.edges, fragment.label) = Voiced(fragment.edges)
             /\ \A e \in DOMAIN fragment.edges :
                  fragment.label \in merged.edges[e].graphs
             /\ View(merged.nodes, other) = View(composed.nodes, other)
             /\ View(merged.edges, other) = View(composed.edges, other)
  <1>1. /\ Merge(composed, fragment).nodes
              = Merged(Nested, composed.nodes, fragment.label, fragment.nodes)
        /\ Merge(composed, fragment).edges
              = Merged(Attributed, composed.edges, fragment.label, fragment.edges)
    BY DEF Merge
  <1>2. View(Merge(composed, fragment).nodes, fragment.label) = fragment.nodes
    BY <1>1, MergedNodesAreBack
  <1>3. /\ View(Merge(composed, fragment).edges, fragment.label) = Voiced(fragment.edges)
        /\ \A e \in DOMAIN fragment.edges :
              fragment.label \in Merge(composed, fragment).edges[e].graphs
    BY <1>1, MergedEdgesAreBack
  <1>4. View(Merge(composed, fragment).nodes, other) = View(composed.nodes, other)
    BY <1>1, OtherNodesAreLeft
  <1>5. View(Merge(composed, fragment).edges, other) = View(composed.edges, other)
    BY <1>1, OtherEdgesAreLeft
  <1>6. QED
    BY <1>2, <1>3, <1>4, <1>5

\* What the first k graphs of a set say of the nodes, composed.
NodesUpTo(nodes, set, k) ==
  /\ \A p : p \in DOMAIN nodes <=> \E i \in 1 .. k : p \in DOMAIN set[i].nodes
  /\ \A p \in DOMAIN nodes : \A l :
       /\ l \in DOMAIN nodes[p].of <=>
            \E i \in 1 .. k : p \in DOMAIN set[i].nodes /\ set[i].label = l
       /\ l \in nodes[p].graphs <=>
            \E i \in 1 .. k : p \in DOMAIN set[i].nodes /\ set[i].label = l
  /\ \A i \in 1 .. k : \A p \in DOMAIN set[i].nodes :
       nodes[p].of[set[i].label] = set[i].nodes[p]

\* And of the edges: an edge without occurrences has its graph, and no more.
EdgesUpTo(edges, set, k) ==
  /\ \A e : e \in DOMAIN edges <=> \E i \in 1 .. k : e \in DOMAIN set[i].edges
  /\ AreEntries(edges)
  /\ \A e \in DOMAIN edges : \A l :
       /\ l \in DOMAIN edges[e].of <=>
            \E i \in 1 .. k : /\ e \in DOMAIN set[i].edges /\ set[i].edges[e] # {}
                              /\ set[i].label = l
       /\ l \in edges[e].graphs <=>
            \E i \in 1 .. k : e \in DOMAIN set[i].edges /\ set[i].label = l
  /\ \A i \in 1 .. k : \A e \in DOMAIN set[i].edges : set[i].edges[e] # {} =>
       edges[e].of[set[i].label] = set[i].edges[e]

DistinctLabels(set, n) == \A i, j \in 1 .. n : set[i].label = set[j].label => i = j

\* One more fragment merged: the nodes are those of the fragments so far.
LEMMA NodesStep ==
  ASSUME NEW set, NEW n \in Nat, DistinctLabels(set, n), NEW k \in 1 .. n,
         NEW nodes, NodesUpTo(nodes, set, k - 1)
  PROVE  NodesUpTo(Merged(Nested, nodes, set[k].label, set[k].nodes), set, k)
  <1> DEFINE all == Merged(Nested, nodes, set[k].label, set[k].nodes)
             before(p) == IF p \in DOMAIN nodes THEN nodes[p] ELSE NoMetadata
             m == set[k].nodes
             label == set[k].label
  <1>1. DOMAIN all = DOMAIN nodes \cup DOMAIN m
    BY DEF Merged
  <1>2. \A p \in DOMAIN m : all[p] = Nested(before(p), label, m[p])
    BY DEF Merged
  <1>3. \A p \in DOMAIN nodes : p \notin DOMAIN m => all[p] = nodes[p]
    BY DEF Merged
  <1>4. \A p : /\ \A l : l \in DOMAIN before(p).of <=>
                      \E i \in 1 .. k - 1 : p \in DOMAIN set[i].nodes /\ set[i].label = l
               /\ \A l : l \in before(p).graphs <=>
                      \E i \in 1 .. k - 1 : p \in DOMAIN set[i].nodes /\ set[i].label = l
               /\ \A i \in 1 .. k - 1 : p \in DOMAIN set[i].nodes =>
                      before(p).of[set[i].label] = set[i].nodes[p]
    BY DEF NodesUpTo, NoMetadata
  <1>5. \A i : i \in 1 .. k <=> i \in 1 .. k - 1 \/ i = k
    OBVIOUS
  <1>6. \A i \in 1 .. k - 1 : set[i].label # label
    BY DEF DistinctLabels
  <1>7. \A p : p \in DOMAIN all <=> \E i \in 1 .. k : p \in DOMAIN set[i].nodes
    BY <1>1, <1>5 DEF NodesUpTo
  <1>8. \A p \in DOMAIN nodes : p \notin DOMAIN m => all[p] = before(p)
    BY <1>3
  <1> HIDE DEF all, before
  <1>9. ASSUME NEW p \in DOMAIN all
        PROVE  /\ \A l : /\ l \in DOMAIN all[p].of <=>
                              \E i \in 1 .. k : p \in DOMAIN set[i].nodes /\ set[i].label = l
                         /\ l \in all[p].graphs <=>
                              \E i \in 1 .. k : p \in DOMAIN set[i].nodes /\ set[i].label = l
               /\ \A i \in 1 .. k : p \in DOMAIN set[i].nodes =>
                              all[p].of[set[i].label] = set[i].nodes[p]
    <2>1. CASE p \in DOMAIN m
      <3>1. all[p] = Nested(before(p), label, m[p])
        BY <1>2, <2>1
      <3> DEFINE e == before(p)
                 a == all[p]
                 x == m[p]
      <3>2. /\ DOMAIN a.of = {label} \cup DOMAIN e.of
            /\ a.of[label] = x
            /\ \A l \in DOMAIN e.of \ {label} : a.of[l] = e.of[l]
            /\ a.graphs = e.graphs \cup {label}
        BY <3>1, NestedOf
      <3>3. /\ \A l : l \in DOMAIN e.of <=>
                      \E i \in 1 .. k - 1 : p \in DOMAIN set[i].nodes /\ set[i].label = l
            /\ \A l : l \in e.graphs <=>
                      \E i \in 1 .. k - 1 : p \in DOMAIN set[i].nodes /\ set[i].label = l
            /\ \A i \in 1 .. k - 1 : p \in DOMAIN set[i].nodes =>
                      e.of[set[i].label] = set[i].nodes[p]
        BY <1>4
      <3>4. p \in DOMAIN set[k].nodes /\ x = set[k].nodes[p] /\ label = set[k].label
        BY <2>1
      <3> HIDE DEF e, a, x, m, label
      <3>5. \A l : /\ l \in DOMAIN a.of <=>
                         \E i \in 1 .. k : p \in DOMAIN set[i].nodes /\ set[i].label = l
                   /\ l \in a.graphs <=>
                         \E i \in 1 .. k : p \in DOMAIN set[i].nodes /\ set[i].label = l
        BY <1>5, <3>2, <3>3, <3>4
      <3>6. \A i \in 1 .. k : p \in DOMAIN set[i].nodes =>
                         a.of[set[i].label] = set[i].nodes[p]
        BY <1>5, <1>6, <3>2, <3>3, <3>4
      <3>7. QED
        BY <3>5, <3>6 DEF a
    <2>2. CASE p \notin DOMAIN m
      <3>1. all[p] = before(p)
        BY <1>1, <1>8, <2>2
      <3>2. \A i \in 1 .. k : p \in DOMAIN set[i].nodes => i \in 1 .. k - 1
        BY <1>5, <2>2
      <3> HIDE DEF m, label
      <3>3. \A i \in 1 .. k - 1 : i \in 1 .. k
        BY <1>5
      <3>4. QED
        BY <1>4, <3>1, <3>2, <3>3
    <2>3. QED
      BY <2>1, <2>2
  <1>10. \A i \in 1 .. k : \A p \in DOMAIN set[i].nodes : p \in DOMAIN all
    BY <1>7
  <1> HIDE DEF m, label
  <1>11. NodesUpTo(all, set, k)
    <2>1. \A p \in DOMAIN all : \A l :
            /\ l \in DOMAIN all[p].of <=>
                 \E i \in 1 .. k : p \in DOMAIN set[i].nodes /\ set[i].label = l
            /\ l \in all[p].graphs <=>
                 \E i \in 1 .. k : p \in DOMAIN set[i].nodes /\ set[i].label = l
      BY <1>9
    <2>2. \A i \in 1 .. k : \A p \in DOMAIN set[i].nodes :
            all[p].of[set[i].label] = set[i].nodes[p]
      BY <1>9, <1>10
    <2>3. QED
      BY <1>7, <2>1, <2>2 DEF NodesUpTo
  <1>12. QED
    BY <1>11 DEF all, m, label

\* And the edges those of the fragments so far, with their occurrences.
LEMMA EdgesStep ==
  ASSUME NEW set, NEW n \in Nat, DistinctLabels(set, n), NEW k \in 1 .. n,
         NEW edges, EdgesUpTo(edges, set, k - 1)
  PROVE  EdgesUpTo(Merged(Attributed, edges, set[k].label, set[k].edges), set, k)
  <1> DEFINE all == Merged(Attributed, edges, set[k].label, set[k].edges)
             before(p) == IF p \in DOMAIN edges THEN edges[p] ELSE NoMetadata
             m == set[k].edges
             label == set[k].label
  <1>1. DOMAIN all = DOMAIN edges \cup DOMAIN m
    BY DEF Merged
  <1>2. \A p \in DOMAIN m : all[p] = Attributed(before(p), label, m[p])
    BY DEF Merged
  <1>3. \A p \in DOMAIN edges : p \notin DOMAIN m => all[p] = before(p)
    BY DEF Merged
  <1>4. \A p : /\ IsEntry(before(p))
               /\ \A l : l \in DOMAIN before(p).of <=>
                      \E i \in 1 .. k - 1 : /\ p \in DOMAIN set[i].edges
                                            /\ set[i].edges[p] # {} /\ set[i].label = l
               /\ \A l : l \in before(p).graphs <=>
                      \E i \in 1 .. k - 1 : p \in DOMAIN set[i].edges /\ set[i].label = l
               /\ \A i \in 1 .. k - 1 : p \in DOMAIN set[i].edges /\ set[i].edges[p] # {} =>
                      before(p).of[set[i].label] = set[i].edges[p]
    <2> TAKE p
    <2>1. CASE p \in DOMAIN edges
      <3>1. before(p) = edges[p]
        BY <2>1
      <3> HIDE DEF before, m, label, all
      <3>2. IsEntry(edges[p])
        BY <2>1 DEF EdgesUpTo, AreEntries
      <3>3. /\ \A l : l \in DOMAIN edges[p].of <=>
                      \E i \in 1 .. k - 1 : /\ p \in DOMAIN set[i].edges
                                            /\ set[i].edges[p] # {} /\ set[i].label = l
            /\ \A l : l \in edges[p].graphs <=>
                      \E i \in 1 .. k - 1 : p \in DOMAIN set[i].edges /\ set[i].label = l
            /\ \A i \in 1 .. k - 1 : p \in DOMAIN set[i].edges /\ set[i].edges[p] # {} =>
                      edges[p].of[set[i].label] = set[i].edges[p]
        BY <2>1 DEF EdgesUpTo
      <3>4. QED
        BY <3>1, <3>2, <3>3
    <2>2. CASE p \notin DOMAIN edges
      <3>1. before(p).of = <<>> /\ before(p).graphs = {} /\ IsEntry(before(p))
        BY <2>2 DEF NoMetadata, IsEntry
      <3>2. DOMAIN <<>> = {}
        OBVIOUS
      <3>3. \A i \in 1 .. k - 1 : p \notin DOMAIN set[i].edges
        BY <2>2 DEF EdgesUpTo
      <3> HIDE DEF before, m, label, all
      <3>4. QED
        BY <3>1, <3>2, <3>3
    <2>3. QED
      BY <2>1, <2>2
  <1>5. \A i : i \in 1 .. k <=> i \in 1 .. k - 1 \/ i = k
    OBVIOUS
  <1>6. \A i \in 1 .. k - 1 : set[i].label # label
    BY DEF DistinctLabels
  <1>7. \A p : p \in DOMAIN all <=> \E i \in 1 .. k : p \in DOMAIN set[i].edges
    BY <1>1, <1>5 DEF EdgesUpTo
  <1> HIDE DEF all, before
  <1>9. ASSUME NEW p \in DOMAIN all
        PROVE  /\ IsEntry(all[p])
               /\ \A l : /\ l \in DOMAIN all[p].of <=>
                              \E i \in 1 .. k : /\ p \in DOMAIN set[i].edges
                                               /\ set[i].edges[p] # {} /\ set[i].label = l
                         /\ l \in all[p].graphs <=>
                              \E i \in 1 .. k : p \in DOMAIN set[i].edges /\ set[i].label = l
               /\ \A i \in 1 .. k : p \in DOMAIN set[i].edges /\ set[i].edges[p] # {} =>
                              all[p].of[set[i].label] = set[i].edges[p]
    <2>1. CASE p \in DOMAIN m
      <3>1. all[p] = Attributed(before(p), label, m[p])
        BY <1>2, <2>1
      <3> DEFINE e == before(p)
                 a == all[p]
                 x == m[p]
      <3>2. /\ IsEntry(a)
            /\ \A l : l \in DOMAIN a.of <=> l \in DOMAIN e.of \/ (l = label /\ x # {})
            /\ x # {} => a.of[label] = x
            /\ \A l \in DOMAIN e.of : l # label => a.of[l] = e.of[l]
            /\ a.graphs = e.graphs \cup {label}
        <4>1. IsEntry(e)
          BY <1>4
        <4>2. a = Attributed(e, label, x)
          BY <3>1
        <4> HIDE DEF e, a, x, label
        <4>3. CASE x = {}
          <5>1. a = [of |-> e.of, graphs |-> e.graphs \cup {label}]
            BY <4>1, <4>2, <4>3 DEF Attributed, IsEntry
          <5>2. QED
            BY <4>3, <5>1 DEF IsEntry
        <4>4. CASE x # {}
          <5>1. a = Nested(e, label, x)
            BY <4>2, <4>4 DEF Attributed
          <5>2. /\ DOMAIN a.of = {label} \cup DOMAIN e.of
                /\ a.of[label] = x
                /\ \A l \in DOMAIN e.of \ {label} : a.of[l] = e.of[l]
                /\ a.graphs = e.graphs \cup {label}
            BY <5>1, NestedOf
          <5>3. IsEntry(a)
            BY <5>1 DEF Nested, IsEntry
          <5>4. QED
            BY <4>4, <5>2, <5>3
        <4>5. QED
          BY <4>3, <4>4
      <3>3. /\ \A l : l \in DOMAIN e.of <=>
                      \E i \in 1 .. k - 1 : /\ p \in DOMAIN set[i].edges
                                            /\ set[i].edges[p] # {} /\ set[i].label = l
            /\ \A l : l \in e.graphs <=>
                      \E i \in 1 .. k - 1 : p \in DOMAIN set[i].edges /\ set[i].label = l
            /\ \A i \in 1 .. k - 1 : p \in DOMAIN set[i].edges /\ set[i].edges[p] # {} =>
                      e.of[set[i].label] = set[i].edges[p]
        BY <1>4
      <3>4. p \in DOMAIN set[k].edges /\ x = set[k].edges[p] /\ label = set[k].label
        BY <2>1
      <3> HIDE DEF e, a, x, m, label
      <3>5. \A l : l \in DOMAIN a.of <=>
                         \E i \in 1 .. k : /\ p \in DOMAIN set[i].edges
                                          /\ set[i].edges[p] # {} /\ set[i].label = l
        BY <1>5, <3>2, <3>3, <3>4
      <3>6. \A l : l \in a.graphs <=>
                         \E i \in 1 .. k : p \in DOMAIN set[i].edges /\ set[i].label = l
        BY <1>5, <3>2, <3>3, <3>4
      <3>7. \A i \in 1 .. k : p \in DOMAIN set[i].edges /\ set[i].edges[p] # {} =>
                         a.of[set[i].label] = set[i].edges[p]
        BY <1>5, <1>6, <3>2, <3>3, <3>4
      <3>8. QED
        BY <3>2, <3>5, <3>6, <3>7 DEF a
    <2>2. CASE p \notin DOMAIN m
      <3>1. all[p] = before(p)
        BY <1>1, <1>3, <2>2
      <3>2. \A i \in 1 .. k : p \in DOMAIN set[i].edges => i \in 1 .. k - 1
        BY <1>5, <2>2
      <3> HIDE DEF m, label
      <3>3. \A i \in 1 .. k - 1 : i \in 1 .. k
        BY <1>5
      <3>4. QED
        BY <1>4, <3>1, <3>2, <3>3
    <2>3. QED
      BY <2>1, <2>2
  <1>10. \A i \in 1 .. k : \A p \in DOMAIN set[i].edges : p \in DOMAIN all
    BY <1>7
  <1>11. AreEntries(all)
    BY <1>9 DEF AreEntries
  <1> HIDE DEF m, label
  <1>12. EdgesUpTo(all, set, k)
    <2>1. \A e \in DOMAIN all : \A l :
            /\ l \in DOMAIN all[e].of <=>
                 \E i \in 1 .. k : /\ e \in DOMAIN set[i].edges /\ set[i].edges[e] # {}
                                   /\ set[i].label = l
            /\ l \in all[e].graphs <=>
                 \E i \in 1 .. k : e \in DOMAIN set[i].edges /\ set[i].label = l
      BY <1>9
    <2>2. \A i \in 1 .. k : \A e \in DOMAIN set[i].edges : set[i].edges[e] # {} =>
            all[e].of[set[i].label] = set[i].edges[e]
      BY <1>9, <1>10
    <2>3. QED
      BY <1>7, <1>11, <2>1, <2>2 DEF EdgesUpTo
  <1>13. QED
    BY <1>12 DEF all, m, label

\* A composed set of graphs with labels of their own.
LEMMA ComposedSet ==
  ASSUME NEW set, NEW n \in Nat, DOMAIN set = 1 .. n, DistinctLabels(set, n)
  PROVE  /\ NodesUpTo(Compose(set).nodes, set, n)
         /\ EdgesUpTo(Compose(set).edges, set, n)
  <1>1. PICK c : Along("merge", None, 0, EmptyGraph, set, n, c) /\ Compose(set) = c[n]
    BY ComposeGoesAlong
  <1> DEFINE Good(k) == NodesUpTo(c[k].nodes, set, k) /\ EdgesUpTo(c[k].edges, set, k)
             A == {k \in 0 .. n : Good(k)}
  <1>2. Good(0)
    <2>1. c[0].nodes = <<>> /\ c[0].edges = <<>>
      BY <1>1 DEF Along, EmptyGraph
    <2>2. DOMAIN <<>> = {} /\ 1 .. 0 = {}
      OBVIOUS
    <2>3. QED
      BY <2>1, <2>2 DEF NodesUpTo, EdgesUpTo, AreEntries
  <1>3. ASSUME NEW k \in 1 .. n, Good(k - 1) PROVE Good(k)
    <2>1. c[k] = Merge(c[k - 1], set[k])
      BY <1>1 DEF Along, Step
    <2>2. /\ c[k].nodes = Merged(Nested, c[k - 1].nodes, set[k].label, set[k].nodes)
          /\ c[k].edges = Merged(Attributed, c[k - 1].edges, set[k].label, set[k].edges)
      BY <2>1 DEF Merge
    <2>3. NodesUpTo(c[k].nodes, set, k)
      BY <1>3, <2>2, NodesStep
    <2>4. EdgesUpTo(c[k].edges, set, k)
      BY <1>3, <2>2, EdgesStep
    <2>5. QED
      BY <2>3, <2>4
  <1> HIDE DEF Good
  <1>4. \A k \in 0 .. n - 1 : k \in A => k + 1 \in A
    <2> TAKE k \in 0 .. n - 1
    <2> HAVE k \in A
    <2>1. k + 1 \in 1 .. n /\ (k + 1) - 1 = k /\ k + 1 \in 0 .. n
      OBVIOUS
    <2>2. Good(k)
      OBVIOUS
    <2>3. Good(k + 1)
      BY <1>3, <2>1, <2>2
    <2>4. QED
      BY <2>1, <2>3
  <1>5. 0 \in A
    BY <1>2
  <1> HIDE DEF A
  <1>6. n \in A
    <2>1. \A k \in 0 .. n : k \in A
      BY <1>4, <1>5, UpTo
    <2>2. n \in 0 .. n
      OBVIOUS
    <2>3. QED
      BY <2>1, <2>2
  <1>7. QED
    BY <1>1, <1>6 DEF A, Good

\* Where the elements of a concatenation come from.
LEMMA Concatenated ==
  ASSUME NEW S, NEW a \in Seq(S), NEW b \in Seq(S)
  PROVE  /\ Len(a \o b) = Len(a) + Len(b)
         /\ DOMAIN (a \o b) = 1 .. (Len(a) + Len(b))
         /\ \A i \in 1 .. Len(a) : (a \o b)[i] = a[i]
         /\ \A i \in 1 .. Len(b) : (a \o b)[Len(a) + i] = b[i]
  <1>1. Len(a) \in Nat /\ Len(b) \in Nat
    OBVIOUS
  <1>2. Len(a \o b) = Len(a) + Len(b) /\ a \o b \in Seq(S)
    OBVIOUS
  <1>3. DOMAIN (a \o b) = 1 .. (Len(a) + Len(b))
    BY <1>2
  <1>4. \A i \in 1 .. Len(a) : (a \o b)[i] = a[i]
    OBVIOUS
  <1>5. \A i \in 1 .. Len(b) : (a \o b)[Len(a) + i] = b[i]
    OBVIOUS
  <1>6. QED
    BY <1>2, <1>3, <1>4, <1>5

GraphCount == 1 + Len(TextGraphs)

\* The configured graphs are a sequence.
LEMMA TextGraphsSequence ==
  /\ Len(TextGraphs) \in Nat /\ DOMAIN TextGraphs = 1 .. Len(TextGraphs)
  /\ GraphCount \in Nat
  <1>1. TextGraphs \in Seq(ToSet(TextGraphs))
    BY CorpusAssumption
  <1>2. QED
    BY <1>1 DEF GraphCount

\* The graphs of a tree: fs first, then each configured one.
LEMMA TheGraphs ==
  ASSUME NEW t
  PROVE  /\ DOMAIN BuildSet(t) = 1 .. GraphCount
         /\ BuildSet(t)[1] = FsGraph(t)
         /\ \A i \in DOMAIN TextGraphs : BuildSet(t)[i + 1] = Build(TextGraphs[i], t)
  <1> DEFINE one == <<FsGraph(t)>>
             more == [i \in DOMAIN TextGraphs |-> Build(TextGraphs[i], t)]
             S == {FsGraph(t)} \cup {Build(TextGraphs[i], t) : i \in DOMAIN TextGraphs}
  <1>1. one \in Seq(S) /\ Len(one) = 1 /\ one[1] = FsGraph(t)
    OBVIOUS
  <1>2. /\ more \in Seq(S) /\ Len(more) = Len(TextGraphs)
        /\ \A i \in DOMAIN TextGraphs : more[i] = Build(TextGraphs[i], t)
    <2>1. DOMAIN more = 1 .. Len(TextGraphs) /\ Len(TextGraphs) \in Nat
      BY TextGraphsSequence
    <2>2. \A i \in DOMAIN TextGraphs : more[i] \in S
      OBVIOUS
    <2>3. more \in [1 .. Len(TextGraphs) -> S]
      BY <2>1, <2>2
    <2> HIDE DEF more, S
    <2>4. more \in Seq(S) /\ Len(more) = Len(TextGraphs)
      BY <2>1, <2>3
    <2>5. QED
      BY <2>4 DEF more
  <1>3. BuildSet(t) = one \o more
    BY DEF BuildSet
  <1> HIDE DEF one, more, S
  <1>4. /\ Len(one \o more) = GraphCount
        /\ DOMAIN (one \o more) = 1 .. GraphCount
        /\ (one \o more)[1] = one[1]
        /\ \A i \in 1 .. Len(TextGraphs) : (one \o more)[i + 1] = more[i]
    <2>1. one \in Seq(S) /\ more \in Seq(S) /\ Len(one) = 1 /\ Len(more) \in Nat
      BY <1>1, <1>2, TextGraphsSequence
    <2>2. /\ Len(one \o more) = Len(one) + Len(more)
          /\ DOMAIN (one \o more) = 1 .. (Len(one) + Len(more))
          /\ \A i \in 1 .. Len(one) : (one \o more)[i] = one[i]
          /\ \A i \in 1 .. Len(more) : (one \o more)[Len(one) + i] = more[i]
      BY <2>1, Concatenated
    <2>3. 1 \in 1 .. Len(one) /\ \A i \in 1 .. Len(more) : 1 + i = i + 1
      BY <2>1
    <2>4. /\ Len(one \o more) = 1 + Len(more) /\ DOMAIN (one \o more) = 1 .. (1 + Len(more))
          /\ (one \o more)[1] = one[1]
          /\ \A i \in 1 .. Len(more) : (one \o more)[1 + i] = more[i]
      BY <2>1, <2>2, <2>3
    <2>5. Len(more) = Len(TextGraphs)
      BY <1>2
    <2>6. QED
      BY <2>3, <2>4, <2>5 DEF GraphCount
  <1>5. QED
    BY <1>1, <1>2, <1>3, <1>4, TextGraphsSequence

\* A fragment is labelled with the name of its graph.
LEMMA LabelOf ==
  ASSUME NEW t
  PROVE  /\ BuildSet(t)[1].label = "fs"
         /\ \A i \in DOMAIN TextGraphs : BuildSet(t)[i + 1].label = TextGraphs[i].name
  <1>1. FsGraph(t).label = "fs"
    BY DEF FsGraph
  <1>2. \A g : Build(g, t).label = g.name
    BY DEF Build, MarkdownGraph, FrontmatterGraph
  <1>3. QED
    BY <1>1, <1>2, TheGraphs

\* No two fragments of a tree have one label.
LEMMA LabelsApart == ASSUME NEW t PROVE DistinctLabels(BuildSet(t), GraphCount)
  <1> SUFFICES ASSUME NEW i \in 1 .. GraphCount, NEW j \in 1 .. GraphCount,
                      BuildSet(t)[i].label = BuildSet(t)[j].label
               PROVE  i = j
    BY DEF DistinctLabels
  <1> DEFINE label(x) == BuildSet(t)[x].label
  <1>1. /\ label(1) = "fs"
        /\ \A x \in DOMAIN TextGraphs : label(x + 1) = TextGraphs[x].name
        /\ label(i) = label(j)
    BY LabelOf
  <1> HIDE DEF label
  <1>2. \A x \in 1 .. GraphCount : x # 1 => x - 1 \in DOMAIN TextGraphs /\ (x - 1) + 1 = x
    BY TextGraphsSequence DEF GraphCount
  <1>3. \A x \in 1 .. GraphCount : x # 1 =>
          label(x) = TextGraphs[x - 1].name /\ x - 1 \in DOMAIN TextGraphs
    BY <1>1, <1>2
  <1>4. \A x \in 1 .. GraphCount : x # 1 => label(x) # "fs"
    BY <1>3, CorpusAssumption
  <1>5. CASE i = 1 \/ j = 1
    BY <1>1, <1>4, <1>5
  <1>6. CASE i # 1 /\ j # 1
    <2>1. i - 1 = j - 1
      BY <1>1, <1>3, <1>6, CorpusAssumption
    <2>2. QED
      BY <2>1
  <1>7. QED
    BY <1>5, <1>6

\* The composition of a tree's fragments has what they have, and no more.
LEMMA ComposedTree ==
  ASSUME NEW t
  PROVE  /\ NodesUpTo(Compose(BuildSet(t)).nodes, BuildSet(t), GraphCount)
         /\ EdgesUpTo(Compose(BuildSet(t)).edges, BuildSet(t), GraphCount)
  BY TextGraphsSequence, TheGraphs, LabelsApart, ComposedSet

-----------------------------------------------------------------------------
(* The composed graph of an invocation *)

GraphIsComposed ==
  pc # "build" => /\ graph = Compose(BuildSet(tree))
                  /\ found = ConstructionFindings(tree)
                  /\ hinted = EdgeKeysHints(tree)

\* From the build on, graph, findings and hints are those of the tree.
LEMMA GraphIsComposedAlways == ReadingSpec => []GraphIsComposed
  <1>1. ReadingInit => GraphIsComposed
    BY DEF ReadingInit, Init, GraphIsComposed
  <1>2. GraphIsComposed /\ [ReadingNext]_allVars => GraphIsComposed'
    <2> SUFFICES ASSUME GraphIsComposed, [ReadingNext]_allVars PROVE GraphIsComposed'
      OBVIOUS
    <2>1. CASE BuildGraph
      BY <2>1 DEF BuildGraph, GraphIsComposed
    <2>2. CASE BuildToSelect
      BY <2>2 DEF BuildToSelect, GraphIsComposed
    <2>3. CASE /\ pc # "build" \/ pc' = "build"
               /\ UNCHANGED <<tree, graph, found, hinted>>
      BY <2>3 DEF GraphIsComposed
    <2>4. CASE Expand \/ SkipAtBound \/ Answer
      BY <2>3, <2>4 DEF Expand, SkipAtBound, Answer
    <2>5. CASE Resolve \/ Miss \/ Project
      BY <2>3, <2>5 DEF Resolve, Miss, Project, vars
    <2>6. CASE UNCHANGED allVars
      BY <2>6 DEF GraphIsComposed, allVars, vars
    <2>7. QED
      BY <2>1, <2>2, <2>4, <2>5, <2>6 DEF ReadingNext, Impacting, Next
  <1>3. QED
    BY <1>1, <1>2, PTL DEF ReadingSpec

(* Composition loses nothing any graph said (compose.rs). *)
THEOREM NamespacesKept == ReadingSpec => []NamespacesKeepTheirGraph
  <1>1. GraphIsComposed => NamespacesKeepTheirGraph
    <2> SUFFICES ASSUME GraphIsComposed, pc # "build", NEW i \in DOMAIN BuildSet(tree)
                 PROVE  LET fragment == BuildSet(tree)[i]
                            told == {e \in DOMAIN fragment.edges : fragment.edges[e] # {}}
                        IN  /\ View(graph.nodes, fragment.label) = fragment.nodes
                            /\ View(graph.edges, fragment.label) = [e \in told |-> fragment.edges[e]]
                            /\ {e \in Edges : fragment.label \in graph.edges[e].graphs}
                                  = DOMAIN fragment.edges
      BY DEF NamespacesKeepTheirGraph
    <2> DEFINE B == BuildSet(tree)
               l == B[i].label
    <2>1. /\ NodesUpTo(graph.nodes, B, GraphCount) /\ EdgesUpTo(graph.edges, B, GraphCount)
          /\ i \in 1 .. GraphCount
          /\ \A j \in 1 .. GraphCount : B[j].label = l => i = j
      BY ComposedTree, TheGraphs, LabelsApart DEF GraphIsComposed, DistinctLabels
    <2>2. IsFunction(B[i].nodes)
      <3>1. IsFunction(FsGraph(tree).nodes)
        BY DEF IsFunction, FsGraph
      <3>2. \A g : IsFunction(Build(g, tree).nodes)
        BY DEF IsFunction, Build, MarkdownGraph, FrontmatterGraph
      <3>3. i = 1 \/ (i - 1 \in DOMAIN TextGraphs /\ (i - 1) + 1 = i)
        BY <2>1, TextGraphsSequence DEF GraphCount
      <3>4. QED
        BY <3>1, <3>2, <3>3, TheGraphs
    <2> DEFINE nodes == graph.nodes
               edges == graph.edges
               m == B[i].nodes
               o == B[i].edges
               told == {e \in DOMAIN o : o[e] # {}}
    <2> HIDE DEF B
    <2>3. {p \in DOMAIN nodes : l \in DOMAIN nodes[p].of} = DOMAIN m
      BY <2>1 DEF NodesUpTo
    <2>4. \A p \in DOMAIN m : nodes[p].of[l] = m[p]
      BY <2>1 DEF NodesUpTo
    <2>5. View(nodes, l) = [p \in DOMAIN m |-> nodes[p].of[l]]
      BY <2>3 DEF View
    <2>6. View(nodes, l) = m
      <3> HIDE DEF nodes, m, l
      <3>1. [p \in DOMAIN m |-> nodes[p].of[l]] = [p \in DOMAIN m |-> m[p]]
        BY <2>4
      <3>2. QED
        BY <2>2, <2>5, <3>1 DEF IsFunction, m
    <2>7. {e \in DOMAIN edges : l \in DOMAIN edges[e].of} = told
      BY <2>1 DEF EdgesUpTo
    <2>8. \A e \in told : edges[e].of[l] = o[e]
      BY <2>1 DEF EdgesUpTo
    <2>9. View(edges, l) = [e \in told |-> edges[e].of[l]]
      BY <2>7 DEF View
    <2>10. View(edges, l) = [e \in told |-> o[e]]
      BY <2>8, <2>9
    <2>11. {e \in DOMAIN edges : l \in edges[e].graphs} = DOMAIN o
      BY <2>1 DEF EdgesUpTo
    <2>12. QED
      BY <2>6, <2>10, <2>11 DEF Edges, B
  <1>2. QED
    BY <1>1, GraphIsComposedAlways, PTL

-----------------------------------------------------------------------------
(* Sequences without repetition, and in the order of the keys *)

Distinct(s) == \A i, j \in 1 .. Len(s) : s[i] = s[j] => i = j

\* Membership in a sequence by index.
LEMMA InSequence ==
  ASSUME NEW S, NEW s \in Seq(S), NEW e
  PROVE  /\ Len(s) \in Nat /\ DOMAIN s = 1 .. Len(s)
         /\ \A x : x \in ToSet(s) <=> \E i \in 1 .. Len(s) : s[i] = x
         /\ Contains(s, e) <=> e \in ToSet(s)
  BY DEF ToSet, Contains

\* What an append does to the elements.
LEMMA AppendedTo ==
  ASSUME NEW S, NEW s \in Seq(S), NEW e \in S
  PROVE  /\ Append(s, e) \in Seq(S)
         /\ Len(Append(s, e)) = Len(s) + 1 /\ Len(s) \in Nat
         /\ \A i \in 1 .. Len(s) : Append(s, e)[i] = s[i]
         /\ Append(s, e)[Len(s) + 1] = e
         /\ \A x : x \in ToSet(Append(s, e)) <=> x \in ToSet(s) \/ x = e
  <1>1. /\ Append(s, e) \in Seq(S)
        /\ Len(Append(s, e)) = Len(s) + 1 /\ Len(s) \in Nat
        /\ \A i \in 1 .. Len(s) : Append(s, e)[i] = s[i]
        /\ Append(s, e)[Len(s) + 1] = e
    OBVIOUS
  <1> DEFINE a == Append(s, e)
  <1> HIDE DEF a
  <1>2. \A i : i \in 1 .. Len(a) <=> i \in 1 .. Len(s) \/ i = Len(s) + 1
    BY <1>1 DEF a
  <1>3. \A x : x \in ToSet(a) <=> \E i \in 1 .. Len(a) : a[i] = x
    BY <1>1, InSequence DEF a
  <1>4. \A x : x \in ToSet(s) <=> \E i \in 1 .. Len(s) : s[i] = x
    BY InSequence
  <1>5. \A i \in 1 .. Len(s) : a[i] = s[i]
    BY <1>1 DEF a
  <1>6. a[Len(s) + 1] = e
    BY <1>1 DEF a
  <1>7. \A x : x \in ToSet(a) <=> x \in ToSet(s) \/ x = e
    BY <1>2, <1>3, <1>4, <1>5, <1>6
  <1>8. QED
    BY <1>1, <1>7 DEF a

\* The empty sequence has none.
LEMMA EmptySequence == ASSUME NEW S PROVE <<>> \in Seq(S) /\ Len(<<>>) = 0 /\ ToSet(<<>>) = {}
  BY DEF ToSet

\* The operands each once: the same, and none twice (impact.rs, main.rs).
LEMMA FirstOfEachTells ==
  ASSUME NEW S, NEW s \in Seq(S)
  PROVE  /\ FirstOfEach(s) \in Seq(S) /\ Distinct(FirstOfEach(s))
         /\ ToSet(FirstOfEach(s)) = ToSet(s)
  <1> DEFINE n == Len(s)
  <1>0. n \in Nat /\ DOMAIN s = 1 .. n /\ \A i \in 1 .. n : s[i] \in S
    OBVIOUS
  <1> HIDE DEF n
  <1>1. PICK c : Along("first", None, 0, <<>>, s, n, c) /\ FirstOfEach(s) = c[n]
    BY <1>0, FirstGoesAlong
  <1> DEFINE Good(k) == /\ c[k] \in Seq(S) /\ Distinct(c[k])
                        /\ \A x : x \in ToSet(c[k]) <=> \E i \in 1 .. k : s[i] = x
             A == {k \in 0 .. n : Good(k)}
  <1>2. Good(0)
    <2>1. c[0] = <<>>
      BY <1>1 DEF Along
    <2>2. 1 .. 0 = {} /\ Len(<<>>) = 0
      OBVIOUS
    <2>3. QED
      BY <2>1, <2>2, EmptySequence DEF Distinct
  <1>3. ASSUME NEW k \in 1 .. n, Good(k - 1) PROVE Good(k)
    <2> DEFINE w == c[k - 1]
               x == s[k]
    <2>1. c[k] = IF Contains(w, x) THEN w ELSE Append(w, x)
      BY <1>1 DEF Along, Step
    <2>2. /\ w \in Seq(S) /\ Distinct(w) /\ x \in S
          /\ \A y : y \in ToSet(w) <=> \E i \in 1 .. k - 1 : s[i] = y
      BY <1>0, <1>3
    <2>3. \A i : i \in 1 .. k <=> i \in 1 .. k - 1 \/ i = k
      BY <1>0
    <2>4. s[k] = x
      OBVIOUS
    <2> DEFINE v == c[k]
    <2> HIDE DEF w, x, v
    <2>5. Contains(w, x) <=> x \in ToSet(w)
      BY <2>2, InSequence
    <2>6. CASE Contains(w, x)
      <3>1. v = w
        BY <2>1, <2>6 DEF v
      <3>2. \A y : y \in ToSet(w) <=> \E i \in 1 .. k : s[i] = y
        BY <2>2, <2>3, <2>4, <2>5, <2>6
      <3>3. QED
        BY <2>2, <3>1, <3>2 DEF v
    <2>7. CASE ~Contains(w, x)
      <3>1. v = Append(w, x)
        BY <2>1, <2>7 DEF v
      <3>2. /\ v \in Seq(S) /\ Len(v) = Len(w) + 1 /\ Len(w) \in Nat
            /\ \A i \in 1 .. Len(w) : v[i] = w[i]
            /\ v[Len(w) + 1] = x
            /\ \A y : y \in ToSet(v) <=> y \in ToSet(w) \/ y = x
        BY <2>2, <3>1, AppendedTo
      <3>3. \A y : y \in ToSet(v) <=> \E i \in 1 .. k : s[i] = y
        BY <2>2, <2>3, <2>4, <3>2
      <3>4. \A i \in 1 .. Len(w) : w[i] # x
        BY <2>2, <2>5, <2>7, InSequence
      <3>5. \A i : i \in 1 .. Len(v) <=> i \in 1 .. Len(w) \/ i = Len(w) + 1
        BY <3>2
      <3>6. Distinct(v)
        BY <2>2, <3>2, <3>4, <3>5 DEF Distinct
      <3>7. QED
        BY <3>2, <3>3, <3>6 DEF v
    <2>8. QED
      BY <2>6, <2>7
  <1> HIDE DEF Good
  <1>4. \A k \in 0 .. n - 1 : k \in A => k + 1 \in A
    <2> TAKE k \in 0 .. n - 1
    <2> HAVE k \in A
    <2>1. k + 1 \in 1 .. n /\ (k + 1) - 1 = k /\ k + 1 \in 0 .. n
      BY <1>0
    <2>2. QED
      BY <1>3, <2>1
  <1>5. 0 \in A
    BY <1>0, <1>2
  <1> HIDE DEF A
  <1>6. n \in A
    <2>1. \A k \in 0 .. n : k \in A
      BY <1>0, <1>4, <1>5, UpTo
    <2>2. n \in 0 .. n
      BY <1>0
    <2>3. QED
      BY <2>1, <2>2
  <1>7. Good(n)
    BY <1>6 DEF A
  <1>8. \A x : x \in ToSet(FirstOfEach(s)) <=> x \in ToSet(s)
    <2>1. \A x : x \in ToSet(s) <=> \E i \in 1 .. n : s[i] = x
      BY InSequence DEF n
    <2>2. QED
      BY <1>1, <1>7, <2>1 DEF Good
  <1>9. QED
    BY <1>1, <1>7, <1>8 DEF Good

\* Every link target of a set, in the order of the keys (impact.rs).
LEMMA InKeyOrderTells ==
  ASSUME NEW S
  PROVE  /\ InKeyOrder(S) \in Seq(Target)
         /\ ToSet(InKeyOrder(S)) = Target \cap S
  <1> DEFINE n == Len(KeyOrder)
  <1>0. /\ n \in Nat /\ DOMAIN KeyOrder = 1 .. n /\ \A i \in 1 .. n : KeyOrder[i] \in Target
        /\ \A x : x \in Target <=> \E i \in 1 .. n : KeyOrder[i] = x
    BY ImpactAssumption, InSequence DEF Target
  <1> HIDE DEF n
  <1>1. PICK c : Along("pick", S, 0, <<>>, KeyOrder, n, c) /\ InKeyOrder(S) = c[n]
    BY <1>0, InOrderGoesAlong
  <1> DEFINE Good(k) == /\ c[k] \in Seq(Target)
                        /\ \A x : x \in ToSet(c[k]) <=>
                             x \in S /\ \E i \in 1 .. k : KeyOrder[i] = x
             A == {k \in 0 .. n : Good(k)}
  <1>2. Good(0)
    <2>1. c[0] = <<>>
      BY <1>1 DEF Along
    <2>2. 1 .. 0 = {} /\ Len(<<>>) = 0
      OBVIOUS
    <2>3. QED
      BY <2>1, <2>2, EmptySequence
  <1>3. ASSUME NEW k \in 1 .. n, Good(k - 1) PROVE Good(k)
    <2> DEFINE w == c[k - 1]
               x == KeyOrder[k]
    <2>1. c[k] = IF x \in S THEN Append(w, x) ELSE w
      BY <1>1 DEF Along, Step
    <2>2. /\ w \in Seq(Target) /\ x \in Target
          /\ \A y : y \in ToSet(w) <=> y \in S /\ \E i \in 1 .. k - 1 : KeyOrder[i] = y
      BY <1>0, <1>3
    <2>3. \A i : i \in 1 .. k <=> i \in 1 .. k - 1 \/ i = k
      BY <1>0
    <2>4. KeyOrder[k] = x
      OBVIOUS
    <2> DEFINE v == c[k]
    <2> HIDE DEF w, x, v
    <2>5. CASE x \in S
      <3>1. v = Append(w, x)
        BY <2>1, <2>5 DEF v
      <3>2. /\ v \in Seq(Target)
            /\ \A y : y \in ToSet(v) <=> y \in ToSet(w) \/ y = x
        BY <2>2, <3>1, AppendedTo
      <3>3. \A y : y \in ToSet(v) <=> y \in S /\ \E i \in 1 .. k : KeyOrder[i] = y
        BY <2>2, <2>3, <2>4, <2>5, <3>2
      <3>4. QED
        BY <3>2, <3>3 DEF v
    <2>6. CASE x \notin S
      <3>1. v = w
        BY <2>1, <2>6 DEF v
      <3>2. \A y : y \in ToSet(v) <=> y \in S /\ \E i \in 1 .. k : KeyOrder[i] = y
        BY <2>2, <2>3, <2>4, <2>6, <3>1
      <3>3. QED
        BY <2>2, <3>1, <3>2 DEF v
    <2>7. QED
      BY <2>5, <2>6
  <1> HIDE DEF Good
  <1>4. \A k \in 0 .. n - 1 : k \in A => k + 1 \in A
    <2> TAKE k \in 0 .. n - 1
    <2> HAVE k \in A
    <2>1. k + 1 \in 1 .. n /\ (k + 1) - 1 = k /\ k + 1 \in 0 .. n
      BY <1>0
    <2>2. QED
      BY <1>3, <2>1
  <1>5. 0 \in A
    BY <1>0, <1>2
  <1> HIDE DEF A
  <1>6. n \in A
    <2>1. \A k \in 0 .. n : k \in A
      BY <1>0, <1>4, <1>5, UpTo
    <2>2. n \in 0 .. n
      BY <1>0
    <2>3. QED
      BY <2>1, <2>2
  <1>7. Good(n)
    BY <1>6 DEF A
  <1>8. QED
    BY <1>0, <1>1, <1>7 DEF Good

-----------------------------------------------------------------------------
(* Hops from a set of nodes *)

\* Those next to a node, in the direction asked for.
NextTo(c, n) ==
  {k \in Target : \/ c.direction # "outbound" /\ <<k, n>> \in c.edges
                  \/ c.direction # "inbound" /\ <<n, k>> \in c.edges}

Hop(c, S) == S \cup UNION {NextTo(c, n) : n \in S}

HopTerm(c, f, j) == IF j = 0 THEN c.seeds ELSE Hop(c, f[j - 1])

Hops(c, k, f) == f = [j \in 0 .. k |-> HopTerm(c, f, j)]

\* Hops from the seeds can be counted to any number.
LEMMA HopsExist ==
  ASSUME NEW c, NEW n \in Nat
  PROVE  \E f : Hops(c, n, f)
  <1> DEFINE A == {k \in 0 .. n : \E f : Hops(c, k, f)}
  <1>1. 0 \in A
    <2> DEFINE f == [j \in 0 .. 0 |-> c.seeds]
    <2>1. \A j \in 0 .. 0 : HopTerm(c, f, j) = c.seeds
      BY DEF HopTerm
    <2>2. Hops(c, 0, f)
      <3> HIDE DEF f
      <3>1. [j \in 0 .. 0 |-> HopTerm(c, f, j)] = [j \in 0 .. 0 |-> c.seeds]
        BY <2>1
      <3>2. QED
        BY <3>1 DEF Hops, f
    <2> HIDE DEF f
    <2>3. QED
      BY <2>2
  <1>2. \A k \in 0 .. n - 1 : k \in A => k + 1 \in A
    <2> TAKE k \in 0 .. n - 1
    <2> HAVE k \in A
    <2>1. PICK f : Hops(c, k, f)
      OBVIOUS
    <2> DEFINE g == [j \in 0 .. k + 1 |-> HopTerm(c, f, j)]
    <2>2. \A j \in 0 .. k : f[j] = HopTerm(c, f, j) /\ g[j] = HopTerm(c, f, j)
      BY <2>1 DEF Hops
    <2>3. \A j \in 0 .. k + 1 : HopTerm(c, g, j) = HopTerm(c, f, j)
      <3> TAKE j \in 0 .. k + 1
      <3>1. j # 0 => j - 1 \in 0 .. k
        OBVIOUS
      <3>2. j # 0 => g[j - 1] = f[j - 1]
        BY <2>2, <3>1
      <3> HIDE DEF g
      <3>3. QED
        BY <3>2 DEF HopTerm
    <2>4. [j \in 0 .. k + 1 |-> HopTerm(c, g, j)] = [j \in 0 .. k + 1 |-> HopTerm(c, f, j)]
      <3> HIDE DEF g
      <3>1. QED
        BY <2>3
    <2>5. Hops(c, k + 1, g)
      <3>1. g = [j \in 0 .. k + 1 |-> HopTerm(c, f, j)]
        OBVIOUS
      <3> HIDE DEF g
      <3>2. QED
        BY <2>4, <3>1 DEF Hops
    <2>6. \E h : Hops(c, k + 1, h)
      <3> HIDE DEF g
      <3>1. QED
        BY <2>5
    <2>7. k + 1 \in 0 .. n
      OBVIOUS
    <2>8. QED
      BY <2>6, <2>7
  <1> HIDE DEF A
  <1>3. n \in A
    <2>1. \A k \in 0 .. n : k \in A
      BY <1>1, <1>2, UpTo
    <2>2. n \in 0 .. n
      OBVIOUS
    <2>3. QED
      BY <2>1, <2>2
  <1>4. QED
    BY <1>3 DEF A

\* And in one way only.
LEMMA HopsAgree ==
  ASSUME NEW c, NEW n \in Nat, NEW m \in Nat, NEW f, NEW g, Hops(c, n, f), Hops(c, m, g), n <= m
  PROVE  \A j \in 0 .. n : f[j] = g[j]
  <1> DEFINE A == {j \in 0 .. n : f[j] = g[j]}
  <1>1. /\ \A j \in 0 .. n : f[j] = HopTerm(c, f, j)
        /\ \A j \in 0 .. m : g[j] = HopTerm(c, g, j)
    BY DEF Hops
  <1>2. 0 \in A
    <2>1. f[0] = HopTerm(c, f, 0) /\ g[0] = HopTerm(c, g, 0)
      BY <1>1
    <2>2. QED
      BY <2>1 DEF HopTerm
  <1>3. \A j \in 0 .. n - 1 : j \in A => j + 1 \in A
    <2> TAKE j \in 0 .. n - 1
    <2> HAVE j \in A
    <2>1. j + 1 \in 0 .. n /\ j + 1 \in 0 .. m /\ j + 1 # 0 /\ (j + 1) - 1 = j
      OBVIOUS
    <2>2. f[j + 1] = HopTerm(c, f, j + 1) /\ g[j + 1] = HopTerm(c, g, j + 1)
      BY <1>1, <2>1
    <2>3. f[j] = g[j]
      OBVIOUS
    <2>4. QED
      BY <2>1, <2>2, <2>3 DEF HopTerm
  <1> HIDE DEF A
  <1>4. \A j \in 0 .. n : j \in A
    BY <1>2, <1>3, UpTo
  <1>5. QED
    BY <1>4 DEF A

\* The nodes within k hops of the seeds, for each k.
IsBall(c, ball) == ball[0] = c.seeds /\ \A k \in Nat : ball[k + 1] = Hop(c, ball[k])

\* So there are the balls around the seeds.
LEMMA BallFromHops ==
  ASSUME NEW c, NEW h, \A k \in Nat : Hops(c, k, h[k])
  PROVE  IsBall(c, [k \in Nat |-> h[k][k]])
  <1> DEFINE ball == [k \in Nat |-> h[k][k]]
  <1>1. \A k \in Nat : h[k][k] = HopTerm(c, h[k], k)
    <2> TAKE k \in Nat
    <2>1. Hops(c, k, h[k]) /\ k \in 0 .. k
      OBVIOUS
    <2> DEFINE f == h[k]
    <2> HIDE DEF f
    <2>2. f = [j \in 0 .. k |-> HopTerm(c, f, j)]
      BY <2>1 DEF Hops, f
    <2>3. f[k] = HopTerm(c, f, k)
      BY <2>1, <2>2
    <2>4. QED
      BY <2>3 DEF f
  <1>2. ball[0] = c.seeds
    <2>1. 0 \in Nat
      OBVIOUS
    <2>2. h[0][0] = HopTerm(c, h[0], 0)
      BY <1>1, <2>1
    <2>3. QED
      BY <2>1, <2>2 DEF HopTerm
  <1>3. \A k \in Nat : ball[k + 1] = Hop(c, ball[k])
    <2> TAKE k \in Nat
    <2>1. k + 1 \in Nat /\ k + 1 # 0 /\ (k + 1) - 1 = k /\ k <= k + 1 /\ k \in 0 .. k
      OBVIOUS
    <2>2. h[k + 1][k + 1] = HopTerm(c, h[k + 1], k + 1)
      BY <1>1, <2>1
    <2>3. h[k + 1][k] = h[k][k]
      <3> DEFINE f == h[k]
                 g == h[k + 1]
                 m == k + 1
      <3>1. Hops(c, k, f) /\ Hops(c, m, g) /\ m \in Nat /\ k <= m
        BY <2>1
      <3> HIDE DEF f, g, m
      <3>2. \A j \in 0 .. k : f[j] = g[j]
        BY <3>1, HopsAgree
      <3>3. QED
        BY <2>1, <3>2 DEF f, g, m
    <2>4. QED
      BY <2>1, <2>2, <2>3 DEF HopTerm
  <1>4. QED
    BY <1>2, <1>3 DEF IsBall

\* A ball is in the next, which has the neighbors of its nodes and no other node.
LEMMA BallGrows ==
  ASSUME NEW c, NEW ball, IsBall(c, ball)
  PROVE  /\ \A i, j \in Nat : i <= j => ball[i] \subseteq ball[j]
         /\ \A i \in Nat : \A n \in ball[i] : NextTo(c, n) \subseteq ball[i + 1]
         /\ \A i \in Nat : \A x \in ball[i + 1] :
              x \in ball[i] \/ \E n \in ball[i] : x \in NextTo(c, n)
  <1>1. \A i \in Nat : ball[i + 1] = ball[i] \cup UNION {NextTo(c, n) : n \in ball[i]}
    BY DEF IsBall, Hop
  <1>2. ASSUME NEW i \in Nat, NEW j \in Nat, i <= j PROVE ball[i] \subseteq ball[j]
    <2> DEFINE A == {d \in 0 .. j - i : ball[i] \subseteq ball[i + d]}
    <2>1. 0 \in A
      BY <1>2
    <2>2. \A d \in 0 .. (j - i) - 1 : d \in A => d + 1 \in A
      <3> TAKE d \in 0 .. (j - i) - 1
      <3> HAVE d \in A
      <3>1. d + 1 \in 0 .. j - i /\ i + d \in Nat /\ i + (d + 1) = (i + d) + 1
        BY <1>2
      <3>2. ball[i + d] \subseteq ball[(i + d) + 1]
        BY <1>1, <3>1
      <3>3. QED
        BY <3>1, <3>2
    <2>3. j - i \in Nat
      BY <1>2
    <2> HIDE DEF A
    <2>4. \A d \in 0 .. j - i : d \in A
      BY <2>1, <2>2, <2>3, UpTo
    <2>5. j - i \in A
      BY <2>3, <2>4
    <2>6. i + (j - i) = j
      OBVIOUS
    <2>7. QED
      BY <2>5, <2>6 DEF A
  <1>3. QED
    BY <1>1, <1>2

-----------------------------------------------------------------------------
(* A traversal under way: w has the nodes visited, the queue and those     *)
(* reached; ex those expanded, all of their neighbors met but for those of *)
(* `open'.                                                                 *)

IsSequence(s) == \E S : s \in Seq(S)

Stops(c, d) == c.bound # None /\ d >= c.bound

Met(c, w, n, d) ==
  \/ n \in c.seeds /\ d = 0
  \/ \E i \in 1 .. Len(w.reached) : w.reached[i].node = n /\ w.reached[i].depth = d

Queued(w, n, d) ==
  \E i \in 1 .. Len(w.queue) : w.queue[i].node = n /\ w.queue[i].depth = d

LinesTold(c, x, n) ==
  IF c.direction # "outbound" /\ <<x, n>> \in c.edges THEN c.mark[<<x, n>>] ELSE {}

WellFormed(c, w) ==
  /\ c.bound = None \/ c.bound \in Nat
  /\ IsSequence(w.queue) /\ IsSequence(w.reached)
  /\ \A i \in 1 .. Len(w.queue) : w.queue[i].depth \in Nat
  /\ \A i \in 1 .. Len(w.reached) :
       /\ w.reached[i].depth \in 1 .. i
       /\ w.reached[i].node \in Target

OnceEach(c, w) ==
  /\ \A n : n \in w.visited <=> \E d : Met(c, w, n, d)
  /\ \A i \in 1 .. Len(w.reached) : w.reached[i].node \notin c.seeds
  /\ \A i, j \in 1 .. Len(w.reached) : w.reached[i].node = w.reached[j].node => i = j

InLevels(w) ==
  \A i, j \in 1 .. Len(w.queue) : i <= j =>
    w.queue[i].depth <= w.queue[j].depth /\ w.queue[j].depth <= w.queue[i].depth + 1

QueuedAreMet(c, w) ==
  \A i \in 1 .. Len(w.queue) : Met(c, w, w.queue[i].node, w.queue[i].depth)

AtDistance(c, ball, w) ==
  \A n, d : Met(c, w, n, d) =>
    /\ d \in Nat /\ n \in ball[d]
    /\ d > 0 => n \notin ball[d - 1]
    /\ c.bound = None \/ d <= c.bound

AllAccounted(c, w, ex) ==
  \A n, d : Met(c, w, n, d) => n \in ex \/ Stops(c, d) \/ Queued(w, n, d)

ExpandedAreDone(c, w, ex, open) ==
  \A n \in ex : /\ \E d : Met(c, w, n, d) /\ ~Stops(c, d)
                /\ n \notin open => NextTo(c, n) \subseteq w.visited

ThroughNeighbors(c, ball, w) ==
  \A i \in 1 .. Len(w.reached) :
    /\ w.reached[i].via \in ball[w.reached[i].depth - 1]
    /\ w.reached[i].node \in NextTo(c, w.reached[i].via)
    /\ w.reached[i].lines = LinesTold(c, w.reached[i].node, w.reached[i].via)

Walking(c, ball, w, ex, open) ==
  /\ WellFormed(c, w)
  /\ OnceEach(c, w)
  /\ InLevels(w)
  /\ QueuedAreMet(c, w)
  /\ AtDistance(c, ball, w)
  /\ AllAccounted(c, w, ex)
  /\ ExpandedAreDone(c, w, ex, open)
  /\ ThroughNeighbors(c, ball, w)

\* An append to a sequence of any elements.
LEMMA AppendedOne ==
  ASSUME NEW s, IsSequence(s), NEW e
  PROVE  /\ IsSequence(Append(s, e))
         /\ Len(Append(s, e)) = Len(s) + 1
         /\ Len(s) \in Nat
         /\ \A i \in 1 .. Len(s) : Append(s, e)[i] = s[i]
         /\ Append(s, e)[Len(s) + 1] = e
  <1>1. PICK S : s \in Seq(S)
    BY DEF IsSequence
  <1>2. s \in Seq(S \cup {e})
    BY <1>1
  <1>3. Append(s, e) \in Seq(S \cup {e})
    BY <1>2
  <1>4. QED
    BY <1>2, <1>3 DEF IsSequence

\* Every node below a depth is met once nothing of less depth is queued.
LEMMA LevelsAreMet ==
  ASSUME NEW c, NEW ball, IsBall(c, ball), NEW w, NEW ex, Walking(c, ball, w, ex, {}),
         NEW h \in Nat, c.bound = None \/ h <= c.bound,
         \A i \in 1 .. Len(w.queue) : w.queue[i].depth >= h
  PROVE  ball[h] \subseteq w.visited
  <1> DEFINE A == {k \in 0 .. h : ball[k] \subseteq w.visited}
  <1>1. 0 \in A
    <2>1. \A n \in c.seeds : Met(c, w, n, 0)
      BY DEF Met
    <2>2. c.seeds \subseteq w.visited
      BY <2>1 DEF Walking, OnceEach
    <2>3. QED
      BY <2>2 DEF IsBall
  <1>2. \A k \in 0 .. h - 1 : k \in A => k + 1 \in A
    <2> TAKE k \in 0 .. h - 1
    <2> HAVE k \in A
    <2>1. k \in Nat /\ k < h /\ k + 1 \in 0 .. h /\ ball[k] \subseteq w.visited
      OBVIOUS
    <2>2. ASSUME NEW n \in ball[k] PROVE NextTo(c, n) \subseteq w.visited
      <3>1. PICK d : Met(c, w, n, d)
        BY <2>1, <2>2 DEF Walking, OnceEach
      <3>2. /\ d \in Nat /\ (d > 0 => n \notin ball[d - 1])
            /\ n \in ex \/ Stops(c, d) \/ Queued(w, n, d)
        BY <3>1 DEF Walking, AtDistance, AllAccounted
      <3>3. d <= k
        <4> SUFFICES ASSUME d > k PROVE FALSE
          BY <2>1, <3>2
        <4>1. d - 1 \in Nat /\ k <= d - 1 /\ d > 0
          BY <2>1, <3>2
        <4>2. ball[k] \subseteq ball[d - 1]
          BY <2>1, <4>1, BallGrows
        <4>3. QED
          BY <2>2, <3>2, <4>1, <4>2
      <3>4. ~Stops(c, d)
        BY <2>1, <3>2, <3>3 DEF Stops, Walking, WellFormed
      <3>5. ~Queued(w, n, d)
        <4>1. \A i \in 1 .. Len(w.queue) : w.queue[i].depth \in Nat
          BY DEF Walking, WellFormed
        <4>2. QED
          BY <2>1, <3>2, <3>3, <4>1 DEF Queued
      <3>6. n \in ex
        BY <3>2, <3>4, <3>5
      <3>7. QED
        BY <3>6 DEF Walking, ExpandedAreDone
    <2>3. ball[k + 1] \subseteq w.visited
      <3>1. \A x \in ball[k + 1] : x \in ball[k] \/ \E n \in ball[k] : x \in NextTo(c, n)
        BY <2>1, BallGrows
      <3>2. QED
        BY <2>1, <2>2, <3>1
    <2>4. QED
      BY <2>1, <2>3
  <1> HIDE DEF A
  <1>3. \A k \in 0 .. h : k \in A
    BY <1>1, <1>2, UpTo
  <1>4. h \in 0 .. h
    OBVIOUS
  <1>5. QED
    BY <1>3, <1>4 DEF A

\* While n, at depth h, is being expanded.
Expanding(c, ball, w, n, h) ==
  /\ h \in Nat /\ ~Stops(c, h)
  /\ Met(c, w, n, h)
  /\ ball[h] \subseteq w.visited
  /\ \A i \in 1 .. Len(w.queue) : w.queue[i].depth \in {h, h + 1}

MetNow(w, n, h, x) ==
  [visited |-> w.visited \cup {x.node},
   queue |-> Append(w.queue, [node |-> x.node, depth |-> h + 1]),
   reached |-> Append(w.reached, [node |-> x.node, via |-> n, depth |-> h + 1,
                                  lines |-> x.lines])]

\* A neighbor that is met keeps the traversal under way.
LEMMA MeetOne ==
  ASSUME NEW c, NEW ball, IsBall(c, ball), NEW w, NEW ex, NEW n, NEW h,
         Walking(c, ball, w, ex, {n}), Expanding(c, ball, w, n, h),
         NEW x, x.node \in NextTo(c, n), x.node \notin w.visited,
         x.lines = LinesTold(c, x.node, n)
  PROVE  /\ Walking(c, ball, MetNow(w, n, h, x), ex, {n})
         /\ Expanding(c, ball, MetNow(w, n, h, x), n, h)
  <1> DEFINE v == MetNow(w, n, h, x)
             item == [node |-> x.node, depth |-> h + 1]
             entry == [node |-> x.node, via |-> n, depth |-> h + 1, lines |-> x.lines]
             r == Len(w.reached)
             q == Len(w.queue)
  <1>1. /\ v.visited = w.visited \cup {x.node}
        /\ v.queue = Append(w.queue, item)
        /\ v.reached = Append(w.reached, entry)
    BY DEF MetNow
  <1>2. /\ item.node = x.node /\ item.depth = h + 1
        /\ entry.node = x.node /\ entry.via = n /\ entry.depth = h + 1
        /\ entry.lines = x.lines
    OBVIOUS
  <1> HIDE DEF v, item, entry
  <1>3. IsSequence(w.queue) /\ IsSequence(w.reached)
    BY DEF Walking, WellFormed
  <1>4. /\ IsSequence(v.queue) /\ Len(v.queue) = q + 1 /\ q \in Nat
        /\ \A i \in 1 .. q : v.queue[i] = w.queue[i]
        /\ v.queue[q + 1] = item
    BY <1>1, <1>3, AppendedOne
  <1>5. /\ IsSequence(v.reached) /\ Len(v.reached) = r + 1 /\ r \in Nat
        /\ \A i \in 1 .. r : v.reached[i] = w.reached[i]
        /\ v.reached[r + 1] = entry
    BY <1>1, <1>3, AppendedOne
  <1>6. /\ h \in Nat /\ ~Stops(c, h) /\ Met(c, w, n, h) /\ ball[h] \subseteq w.visited
        /\ \A i \in 1 .. q : w.queue[i].depth \in {h, h + 1}
    BY DEF Expanding
  <1> HIDE DEF r, q
  <1>7. /\ \A i : i \in 1 .. q + 1 <=> i \in 1 .. q \/ i = q + 1
        /\ \A i : i \in 1 .. r + 1 <=> i \in 1 .. r \/ i = r + 1
    BY <1>4, <1>5
  <1>8. \A m, d : Met(c, v, m, d) <=> Met(c, w, m, d) \/ (m = x.node /\ d = h + 1)
    BY <1>2, <1>5, <1>7 DEF Met, r
  <1>9. \A m, d : Queued(v, m, d) <=> Queued(w, m, d) \/ (m = x.node /\ d = h + 1)
    BY <1>2, <1>4, <1>7 DEF Queued, q
  <1>10. \A d : ~Met(c, w, x.node, d)
    BY DEF Walking, OnceEach
  <1>11. x.node \in ball[h + 1] /\ x.node \notin ball[h]
    <2>1. n \in ball[h]
      BY <1>6 DEF Walking, AtDistance
    <2>2. QED
      BY <1>6, <2>1, BallGrows
  <1>12. h < h + 1 /\ (h + 1) - 1 = h /\ h + 1 \in Nat /\ h + 1 > 0
    BY <1>6
  <1>13. c.bound = None \/ h + 1 <= c.bound
    BY <1>6 DEF Stops, Walking, WellFormed
  <1>14. WellFormed(c, v)
    <2>1. h + 1 \in 1 .. r + 1
      <3>1. CASE h = 0
        BY <1>5, <3>1
      <3>2. CASE h # 0
        <4>1. PICK i \in 1 .. r : w.reached[i].depth = h
          BY <1>6, <3>2 DEF Met, r
        <4>2. h \in 1 .. i
          BY <4>1 DEF Walking, WellFormed, r
        <4>3. QED
          BY <1>5, <4>1, <4>2
      <3>3. QED
        BY <3>1, <3>2
    <2>2. x.node \in Target
      BY DEF NextTo
    <2>3. /\ \A i \in 1 .. q : w.queue[i].depth \in Nat
          /\ \A i \in 1 .. r : w.reached[i].depth \in 1 .. i /\ w.reached[i].node \in Target
          /\ c.bound = None \/ c.bound \in Nat
      BY DEF Walking, WellFormed, q, r
    <2>4. \A i \in 1 .. q + 1 : v.queue[i].depth \in Nat
      BY <1>2, <1>4, <1>7, <1>12, <2>3
    <2>5. \A i \in 1 .. r + 1 : v.reached[i].depth \in 1 .. i /\ v.reached[i].node \in Target
      BY <1>2, <1>5, <1>7, <2>1, <2>2, <2>3
    <2>6. QED
      BY <1>4, <1>5, <2>3, <2>4, <2>5 DEF WellFormed
  <1>15. OnceEach(c, v)
    <2>1. /\ \A m : m \in w.visited <=> \E d : Met(c, w, m, d)
          /\ \A i \in 1 .. r : w.reached[i].node \notin c.seeds
          /\ \A i, j \in 1 .. r : w.reached[i].node = w.reached[j].node => i = j
      BY DEF Walking, OnceEach, r
    <2>2. \A m : m \in v.visited <=> \E d : Met(c, v, m, d)
      BY <1>1, <1>8, <2>1
    <2>3. x.node \notin c.seeds /\ \A i \in 1 .. r : w.reached[i].node # x.node
      BY <1>10 DEF Met, r
    <2>4. \A i \in 1 .. r + 1 : v.reached[i].node \notin c.seeds
      BY <1>2, <1>5, <1>7, <2>1, <2>3
    <2>5. \A i, j \in 1 .. r + 1 : v.reached[i].node = v.reached[j].node => i = j
      BY <1>2, <1>5, <1>7, <2>1, <2>3
    <2>6. QED
      BY <1>5, <2>2, <2>4, <2>5 DEF OnceEach
  <1>16. InLevels(v)
    <2>1. \A i \in 1 .. q + 1 : v.queue[i].depth \in {h, h + 1}
      BY <1>2, <1>4, <1>6, <1>7
    <2>2. v.queue[q + 1].depth = h + 1
      BY <1>2, <1>4
    <2>3. \A i, j \in 1 .. q : i <= j =>
            v.queue[i].depth <= v.queue[j].depth /\ v.queue[j].depth <= v.queue[i].depth + 1
      BY <1>4 DEF Walking, InLevels, q
    <2>4. \A i \in 1 .. q + 1 : i >= q + 1 => i = q + 1
      BY <1>4
    <2>5. ASSUME NEW i \in 1 .. q + 1, NEW j \in 1 .. q + 1, i <= j
          PROVE  v.queue[i].depth <= v.queue[j].depth /\ v.queue[j].depth <= v.queue[i].depth + 1
      <3> DEFINE a == v.queue[i].depth
                 b == v.queue[j].depth
      <3>1. CASE j = q + 1
        <4>1. a \in {h, h + 1} /\ b = h + 1
          BY <2>1, <2>2, <3>1
        <4> HIDE DEF a, b
        <4>2. a <= b /\ b <= a + 1
          BY <1>6, <4>1
        <4>3. QED
          BY <4>2 DEF a, b
      <3>2. CASE j # q + 1
        <4>1. j \in 1 .. q /\ i \in 1 .. q
          BY <1>4, <2>5, <3>2
        <4>2. QED
          BY <2>3, <2>5, <4>1
      <3>3. QED
        BY <3>1, <3>2
    <2>6. QED
      BY <1>4, <2>5 DEF InLevels
  <1>17. QueuedAreMet(c, v)
    <2>1. \A i \in 1 .. q : Met(c, w, w.queue[i].node, w.queue[i].depth)
      BY DEF Walking, QueuedAreMet, q
    <2>2. \A i \in 1 .. q + 1 : Met(c, v, v.queue[i].node, v.queue[i].depth)
      BY <1>2, <1>4, <1>7, <1>8, <2>1
    <2>3. QED
      BY <1>4, <2>2 DEF QueuedAreMet
  <1>18. AtDistance(c, ball, v)
    BY <1>8, <1>11, <1>12, <1>13 DEF Walking, AtDistance
  <1>19. AllAccounted(c, v, ex)
    BY <1>8, <1>9 DEF Walking, AllAccounted
  <1>20. ExpandedAreDone(c, v, ex, {n})
    BY <1>1, <1>8 DEF Walking, ExpandedAreDone
  <1>21. ThroughNeighbors(c, ball, v)
    <2>1. \A i \in 1 .. r :
            /\ w.reached[i].via \in ball[w.reached[i].depth - 1]
            /\ w.reached[i].node \in NextTo(c, w.reached[i].via)
            /\ w.reached[i].lines = LinesTold(c, w.reached[i].node, w.reached[i].via)
      BY DEF Walking, ThroughNeighbors, r
    <2>2. n \in ball[h]
      BY <1>6 DEF Walking, AtDistance
    <2>3. \A i \in 1 .. r + 1 :
            /\ v.reached[i].via \in ball[v.reached[i].depth - 1]
            /\ v.reached[i].node \in NextTo(c, v.reached[i].via)
            /\ v.reached[i].lines = LinesTold(c, v.reached[i].node, v.reached[i].via)
      BY <1>2, <1>5, <1>7, <1>12, <2>1, <2>2
    <2>4. QED
      BY <1>5, <2>3 DEF ThroughNeighbors
  <1>22. Expanding(c, ball, v, n, h)
    <2>1. Met(c, v, n, h) /\ ball[h] \subseteq v.visited
      BY <1>1, <1>6, <1>8
    <2>2. \A i \in 1 .. q + 1 : v.queue[i].depth \in {h, h + 1}
      BY <1>2, <1>4, <1>6, <1>7
    <2>3. QED
      BY <1>4, <1>6, <2>1, <2>2 DEF Expanding
  <1>23. Walking(c, ball, v, ex, {n})
    BY <1>14, <1>15, <1>16, <1>17, <1>18, <1>19, <1>20, <1>21 DEF Walking
  <1>24. QED
    BY <1>22, <1>23 DEF v

\* Meeting every neighbor of n leaves none open.
LEMMA MeetAll ==
  ASSUME NEW c, NEW ball, IsBall(c, ball), NEW base, NEW ex, NEW n, NEW h,
         Walking(c, ball, base, ex, {n}), Expanding(c, ball, base, n, h),
         NEW m \in Nat, NEW ns, NEW f, Along("meet", n, h, base, ns, m, f),
         \A i \in 1 .. m : ns[i].node \in NextTo(c, n),
         \A x \in NextTo(c, n) : \E i \in 1 .. m : ns[i].node = x,
         \A i \in 1 .. m : \/ ns[i].lines = LinesTold(c, ns[i].node, n)
                           \/ \E j \in 1 .. i - 1 : ns[j].node = ns[i].node
  PROVE  Walking(c, ball, f[m], ex, {})
  <1> DEFINE Good(k) == /\ Walking(c, ball, f[k], ex, {n})
                        /\ Expanding(c, ball, f[k], n, h)
                        /\ \A i \in 1 .. k : ns[i].node \in f[k].visited
             A == {k \in 0 .. m : Good(k)}
  <1>1. Good(0)
    <2>1. f[0] = base /\ 1 .. 0 = {}
      BY DEF Along
    <2>2. QED
      BY <2>1
  <1>2. ASSUME NEW k \in 1 .. m, Good(k - 1) PROVE Good(k)
    <2> DEFINE w == f[k - 1]
               x == ns[k]
               v == f[k]
    <2>1. v = IF x.node \in w.visited THEN w ELSE MetNow(w, n, h, x)
      BY DEF Along, Step, MetNow, Enqueued
    <2>2. /\ Walking(c, ball, w, ex, {n})
          /\ Expanding(c, ball, w, n, h)
          /\ \A i \in 1 .. k - 1 : ns[i].node \in w.visited
      BY <1>2
    <2>3. \A i : i \in 1 .. k <=> i \in 1 .. k - 1 \/ i = k
      OBVIOUS
    <2>4. x.node \in NextTo(c, n)
      OBVIOUS
    <2>5. x.lines = LinesTold(c, x.node, n) \/ \E j \in 1 .. k - 1 : ns[j].node = x.node
      OBVIOUS
    <2>6. ns[k] = x
      OBVIOUS
    <2> HIDE DEF w, x, v
    <2>7. CASE x.node \in w.visited
      <3>1. v = w
        BY <2>1, <2>7
      <3>2. \A i \in 1 .. k : ns[i].node \in v.visited
        BY <2>2, <2>3, <2>6, <2>7, <3>1
      <3>3. Walking(c, ball, v, ex, {n}) /\ Expanding(c, ball, v, n, h)
        BY <2>2, <3>1
      <3>4. QED
        BY <3>2, <3>3 DEF v
    <2>8. CASE x.node \notin w.visited
      <3>1. v = MetNow(w, n, h, x)
        BY <2>1, <2>8
      <3>2. x.lines = LinesTold(c, x.node, n)
        BY <2>2, <2>5, <2>8
      <3>3. Walking(c, ball, v, ex, {n}) /\ Expanding(c, ball, v, n, h)
        BY <2>2, <2>4, <2>8, <3>1, <3>2, MeetOne
      <3>4. v.visited = w.visited \cup {x.node}
        BY <3>1 DEF MetNow
      <3>5. \A i \in 1 .. k : ns[i].node \in v.visited
        BY <2>2, <2>3, <2>6, <3>4
      <3>6. QED
        BY <3>3, <3>5 DEF v
    <2>9. QED
      BY <2>7, <2>8
  <1> HIDE DEF Good
  <1>3. \A k \in 0 .. m - 1 : k \in A => k + 1 \in A
    <2> TAKE k \in 0 .. m - 1
    <2> HAVE k \in A
    <2>1. k + 1 \in 1 .. m /\ (k + 1) - 1 = k /\ k + 1 \in 0 .. m
      OBVIOUS
    <2>2. QED
      BY <1>2, <2>1
  <1>4. 0 \in A
    BY <1>1
  <1> HIDE DEF A
  <1>5. m \in A
    <2>1. \A k \in 0 .. m : k \in A
      BY <1>3, <1>4, UpTo
    <2>2. m \in 0 .. m
      OBVIOUS
    <2>3. QED
      BY <2>1, <2>2
  <1>6. Good(m)
    BY <1>5 DEF A
  <1> DEFINE w == f[m]
  <1>7. /\ Walking(c, ball, w, ex, {n})
        /\ \A i \in 1 .. m : ns[i].node \in w.visited
    BY <1>6 DEF Good
  <1>8. NextTo(c, n) \subseteq w.visited
    BY <1>7
  <1> HIDE DEF w
  <1>9. ExpandedAreDone(c, w, ex, {})
    BY <1>7, <1>8 DEF Walking, ExpandedAreDone
  <1>10. QED
    BY <1>7, <1>9 DEF Walking, w

-----------------------------------------------------------------------------
(* From the first of the queue *)

\* What is left of a sequence without its head.
LEMMA TailOf ==
  ASSUME NEW s, IsSequence(s), s # <<>>
  PROVE  /\ IsSequence(Tail(s)) /\ Len(s) \in Nat /\ Len(Tail(s)) \in Nat
         /\ Len(s) = Len(Tail(s)) + 1
         /\ Head(s) = s[1]
         /\ \A i \in 1 .. Len(Tail(s)) : Tail(s)[i] = s[i + 1]
  <1>1. PICK S : s \in Seq(S)
    BY DEF IsSequence
  <1>2. /\ Tail(s) \in Seq(S) /\ Len(s) \in Nat /\ Len(Tail(s)) \in Nat
        /\ Len(s) = Len(Tail(s)) + 1 /\ Head(s) = s[1]
    BY <1>1
  <1>3. \A i \in 1 .. Len(Tail(s)) : Tail(s)[i] = s[i + 1]
    BY <1>1
  <1>4. QED
    BY <1>2, <1>3 DEF IsSequence

\* The traversal without the first of its queue.
Taken(w) == [visited |-> w.visited, queue |-> Tail(w.queue), reached |-> w.reached]

\* What stays true however the first of the queue is dealt with.
LEMMA TakenKeeps ==
  ASSUME NEW c, NEW ball, NEW w, NEW ex, Walking(c, ball, w, ex, {}), w.queue # <<>>
  PROVE  /\ WellFormed(c, Taken(w)) /\ OnceEach(c, Taken(w)) /\ InLevels(Taken(w))
         /\ QueuedAreMet(c, Taken(w)) /\ AtDistance(c, ball, Taken(w))
         /\ ThroughNeighbors(c, ball, Taken(w))
         /\ \A m, d : Met(c, Taken(w), m, d) <=> Met(c, w, m, d)
         /\ Taken(w).visited = w.visited
         /\ \A m, d : Queued(w, m, d) =>
              \/ Queued(Taken(w), m, d)
              \/ m = Head(w.queue).node /\ d = Head(w.queue).depth
         /\ Met(c, w, Head(w.queue).node, Head(w.queue).depth)
         /\ Head(w.queue).depth \in Nat
         /\ \A i \in 1 .. Len(w.queue) :
              w.queue[i].depth \in {Head(w.queue).depth, Head(w.queue).depth + 1}
         /\ \A i \in 1 .. Len(Taken(w).queue) :
              Taken(w).queue[i].depth \in {Head(w.queue).depth, Head(w.queue).depth + 1}
  <1> DEFINE u == Taken(w)
             r == Len(w.reached)
             q == Len(u.queue)
             first == w.queue[1]
  <1>1. u.visited = w.visited /\ u.queue = Tail(w.queue) /\ u.reached = w.reached
    BY DEF Taken
  <1> HIDE DEF u, r, q, first
  <1>2. IsSequence(w.queue) /\ IsSequence(w.reached)
    BY DEF Walking, WellFormed
  <1>3. /\ IsSequence(u.queue) /\ q \in Nat /\ Len(w.queue) = q + 1
        /\ Head(w.queue) = first
        /\ \A i \in 1 .. q : u.queue[i] = w.queue[i + 1]
    BY <1>1, <1>2, TailOf DEF q, first
  <1>4. \A i \in 1 .. q : i + 1 \in 1 .. q + 1
    BY <1>3
  <1>5. \A i \in 1 .. q + 1 : i = 1 \/ (i - 1 \in 1 .. q /\ (i - 1) + 1 = i)
    BY <1>3
  <1>6. 1 \in 1 .. q + 1
    BY <1>3
  <1>7. \A m, d : Met(c, u, m, d) <=> Met(c, w, m, d)
    BY <1>1 DEF Met
  <1>a. w.queue[1] = first
    BY DEF first
  <1>b. \A i \in 1 .. q + 1 : w.queue[i] = first \/ \E j \in 1 .. q : u.queue[j] = w.queue[i]
    <2> TAKE i \in 1 .. q + 1
    <2>1. i # 1 => i - 1 \in 1 .. q /\ w.queue[(i - 1) + 1] = u.queue[i - 1] /\ (i - 1) + 1 = i
      BY <1>3, <1>5
    <2>2. QED
      BY <1>a, <2>1
  <1>8. \A m, d : Queued(w, m, d) => Queued(u, m, d) \/ (m = first.node /\ d = first.depth)
    <2> SUFFICES ASSUME NEW m, NEW d, Queued(w, m, d)
                 PROVE  Queued(u, m, d) \/ (m = first.node /\ d = first.depth)
      OBVIOUS
    <2>1. PICK i \in 1 .. q + 1 : w.queue[i].node = m /\ w.queue[i].depth = d
      BY <1>3 DEF Queued
    <2>2. QED
      BY <1>b, <2>1 DEF Queued, q
  <1>9. /\ \A i \in 1 .. q + 1 : w.queue[i].depth \in Nat
        /\ \A i \in 1 .. q + 1 : Met(c, w, w.queue[i].node, w.queue[i].depth)
        /\ \A i, j \in 1 .. q + 1 : i <= j =>
             w.queue[i].depth <= w.queue[j].depth /\ w.queue[j].depth <= w.queue[i].depth + 1
    BY <1>3 DEF Walking, WellFormed, QueuedAreMet, InLevels
  <1>10. WellFormed(c, u)
    <2>1. \A i \in 1 .. q : u.queue[i].depth \in Nat
      BY <1>3, <1>4, <1>9
    <2>2. QED
      BY <1>1, <1>2, <1>3, <2>1 DEF Walking, WellFormed, q
  <1>11. OnceEach(c, u)
    BY <1>1, <1>7 DEF Walking, OnceEach
  <1>12. InLevels(u)
    <2>1. ASSUME NEW i \in 1 .. q, NEW j \in 1 .. q, i <= j
          PROVE  u.queue[i].depth <= u.queue[j].depth /\ u.queue[j].depth <= u.queue[i].depth + 1
      <3>1. i + 1 \in 1 .. q + 1 /\ j + 1 \in 1 .. q + 1 /\ i + 1 <= j + 1
        BY <1>3, <2>1
      <3>2. QED
        BY <1>3, <1>9, <3>1
    <2>2. QED
      BY <2>1 DEF InLevels, q
  <1>13. QueuedAreMet(c, u)
    BY <1>3, <1>4, <1>7, <1>9 DEF QueuedAreMet, q
  <1>14. AtDistance(c, ball, u)
    BY <1>7 DEF Walking, AtDistance
  <1>15. ThroughNeighbors(c, ball, u)
    BY <1>1 DEF Walking, ThroughNeighbors
  <1>16. \A i \in 1 .. q + 1 : w.queue[i].depth \in {first.depth, first.depth + 1}
    <2> TAKE i \in 1 .. q + 1
    <2> DEFINE a == first.depth
               b == w.queue[i].depth
    <2>0. 1 <= i /\ w.queue[1] = first
      BY <1>3, <1>a
    <2>1. a \in Nat /\ b \in Nat /\ a <= b /\ b <= a + 1
      BY <1>6, <1>9, <2>0
    <2> HIDE DEF a, b
    <2>2. b \in {a, a + 1}
      BY <2>1
    <2>3. QED
      BY <2>2 DEF a, b
  <1>17. \A i \in 1 .. q : u.queue[i].depth \in {first.depth, first.depth + 1}
    BY <1>3, <1>4, <1>16
  <1>18. Met(c, w, first.node, first.depth) /\ first.depth \in Nat
    BY <1>6, <1>9, <1>a
  <1>19. QED
    BY <1>1, <1>3, <1>7, <1>8, <1>10, <1>11, <1>12, <1>13, <1>14, <1>15, <1>16, <1>17, <1>18
       DEF u, q

\* A node at the bound is not expanded.
LEMMA SkippedIsAtBound ==
  ASSUME NEW c, NEW ball, NEW w, NEW ex, Walking(c, ball, w, ex, {}), w.queue # <<>>,
         Stops(c, Head(w.queue).depth)
  PROVE  Walking(c, ball, Taken(w), ex, {})
  <1> DEFINE u == Taken(w)
             n == Head(w.queue).node
             h == Head(w.queue).depth
  <1>1. /\ WellFormed(c, u) /\ OnceEach(c, u) /\ InLevels(u) /\ QueuedAreMet(c, u)
        /\ AtDistance(c, ball, u) /\ ThroughNeighbors(c, ball, u)
        /\ \A m, d : Met(c, u, m, d) <=> Met(c, w, m, d)
        /\ u.visited = w.visited
        /\ \A m, d : Queued(w, m, d) => Queued(u, m, d) \/ (m = n /\ d = h)
        /\ Stops(c, h)
    BY TakenKeeps
  <1> HIDE DEF u, n, h
  <1>2. AllAccounted(c, u, ex)
    BY <1>1 DEF Walking, AllAccounted
  <1>3. ExpandedAreDone(c, u, ex, {})
    BY <1>1 DEF Walking, ExpandedAreDone
  <1>4. QED
    BY <1>1, <1>2, <1>3 DEF Walking, u

\* The first of the queue is opened.
LEMMA OpenedIsExpanding ==
  ASSUME NEW c, NEW ball, IsBall(c, ball), NEW w, NEW ex, Walking(c, ball, w, ex, {}),
         w.queue # <<>>, ~Stops(c, Head(w.queue).depth)
  PROVE  LET n == Head(w.queue).node
         IN  /\ Walking(c, ball, Taken(w), ex \cup {n}, {n})
             /\ Expanding(c, ball, Taken(w), n, Head(w.queue).depth)
  <1> DEFINE u == Taken(w)
             n == Head(w.queue).node
             h == Head(w.queue).depth
             more == ex \cup {n}
  <1>1. /\ WellFormed(c, u) /\ OnceEach(c, u) /\ InLevels(u) /\ QueuedAreMet(c, u)
        /\ AtDistance(c, ball, u) /\ ThroughNeighbors(c, ball, u)
        /\ \A m, d : Met(c, u, m, d) <=> Met(c, w, m, d)
        /\ u.visited = w.visited
        /\ \A m, d : Queued(w, m, d) => Queued(u, m, d) \/ (m = n /\ d = h)
        /\ ~Stops(c, h) /\ h \in Nat /\ Met(c, w, n, h)
        /\ \A i \in 1 .. Len(w.queue) : w.queue[i].depth \in {h, h + 1}
        /\ \A i \in 1 .. Len(u.queue) : u.queue[i].depth \in {h, h + 1}
    BY TakenKeeps
  <1>2. more = ex \cup {n}
    OBVIOUS
  <1> HIDE DEF u, n, h, more
  <1>3. AllAccounted(c, u, more)
    BY <1>1, <1>2 DEF Walking, AllAccounted
  <1>4. ExpandedAreDone(c, u, more, {n})
    BY <1>1, <1>2 DEF Walking, ExpandedAreDone
  <1>5. Walking(c, ball, u, more, {n})
    BY <1>1, <1>3, <1>4 DEF Walking
  <1>6. ball[h] \subseteq w.visited
    <2>1. \A i \in 1 .. Len(w.queue) : w.queue[i].depth >= h
      BY <1>1
    <2>2. c.bound = None \/ h <= c.bound
      BY <1>1 DEF Stops, Walking, WellFormed
    <2>3. QED
      BY <1>1, <2>1, <2>2, LevelsAreMet
  <1>7. Expanding(c, ball, u, n, h)
    BY <1>1, <1>6 DEF Expanding
  <1>8. QED
    BY <1>5, <1>7 DEF u, n, h, more

\* n, at depth h, is the first of the queue, and expanded.
Opens(c, w, n, h) ==
  /\ w.queue # <<>> /\ n = Head(w.queue).node /\ h = Head(w.queue).depth
  /\ ~Stops(c, h)

\* One node expanded (impact.rs).
LEMMA ExpandedIsWalking ==
  ASSUME NEW c, NEW ball, IsBall(c, ball), NEW w, NEW ex, Walking(c, ball, w, ex, {}),
         NEW n, NEW h, Opens(c, w, n, h),
         NEW m \in Nat, NEW ns, NEW f, Along("meet", n, h, Taken(w), ns, m, f),
         \A i \in 1 .. m : ns[i].node \in NextTo(c, n),
         \A x \in NextTo(c, n) : \E i \in 1 .. m : ns[i].node = x,
         \A i \in 1 .. m : \/ ns[i].lines = LinesTold(c, ns[i].node, n)
                           \/ \E j \in 1 .. i - 1 : ns[j].node = ns[i].node
  PROVE  Walking(c, ball, f[m], ex \cup {n}, {})
  <1> DEFINE u == Taken(w)
             more == ex \cup {n}
  <1>1. Walking(c, ball, u, more, {n}) /\ Expanding(c, ball, u, n, h)
    BY OpenedIsExpanding DEF Opens
  <1>2. Along("meet", n, h, u, ns, m, f)
    OBVIOUS
  <1> HIDE DEF u, more
  <1>3. Walking(c, ball, f[m], more, {})
    BY <1>1, <1>2, MeetAll
  <1>4. QED
    BY <1>3 DEF more

\* Before anything is expanded.
LEMMA StartIsWalking ==
  ASSUME NEW c, NEW ball, IsBall(c, ball), NEW w,
         c.bound = None \/ c.bound \in Nat,
         IsSequence(w.queue), w.reached = <<>>, w.visited = c.seeds,
         \A i \in 1 .. Len(w.queue) : w.queue[i].depth = 0 /\ w.queue[i].node \in c.seeds,
         \A n \in c.seeds : \E i \in 1 .. Len(w.queue) : w.queue[i].node = n
  PROVE  Walking(c, ball, w, {}, {})
  <1>1. IsSequence(w.reached) /\ Len(w.reached) = 0 /\ 1 .. 0 = {}
    <2>1. <<>> \in Seq({})
      OBVIOUS
    <2>2. QED
      BY <2>1 DEF IsSequence
  <1>2. \A n, d : Met(c, w, n, d) <=> n \in c.seeds /\ d = 0
    BY <1>1 DEF Met
  <1>3. \A n \in c.seeds : Queued(w, n, 0)
    BY DEF Queued
  <1>4. WellFormed(c, w)
    BY <1>1 DEF WellFormed
  <1>5. OnceEach(c, w)
    <2>1. \A n : n \in w.visited <=> \E d : Met(c, w, n, d)
      BY <1>2
    <2>2. 1 .. Len(w.reached) = {}
      BY <1>1
    <2>3. QED
      BY <2>1, <2>2 DEF OnceEach
  <1>6. InLevels(w)
    <2> SUFFICES ASSUME NEW i \in 1 .. Len(w.queue), NEW j \in 1 .. Len(w.queue)
                 PROVE  /\ w.queue[i].depth <= w.queue[j].depth
                        /\ w.queue[j].depth <= w.queue[i].depth + 1
      BY DEF InLevels
    <2>1. w.queue[i].depth = 0 /\ w.queue[j].depth = 0
      OBVIOUS
    <2>2. QED
      BY <2>1
  <1>7. QueuedAreMet(c, w)
    <2> SUFFICES ASSUME NEW i \in 1 .. Len(w.queue)
                 PROVE  Met(c, w, w.queue[i].node, w.queue[i].depth)
      BY DEF QueuedAreMet
    <2>1. w.queue[i].depth = 0 /\ w.queue[i].node \in c.seeds
      OBVIOUS
    <2>2. QED
      BY <1>2, <2>1
  <1>8. AtDistance(c, ball, w)
    <2>1. /\ \A n \in c.seeds : n \in ball[0]
          /\ c.bound = None \/ 0 <= c.bound
          /\ 0 \in Nat /\ ~(0 > 0)
      BY DEF IsBall
    <2> SUFFICES ASSUME NEW n, NEW d, Met(c, w, n, d)
                 PROVE  /\ d \in Nat /\ n \in ball[d]
                        /\ d > 0 => n \notin ball[d - 1]
                        /\ c.bound = None \/ d <= c.bound
      BY DEF AtDistance
    <2>2. n \in c.seeds /\ d = 0
      BY <1>2
    <2>3. QED
      BY <2>1, <2>2
  <1>9. AllAccounted(c, w, {})
    BY <1>2, <1>3 DEF AllAccounted
  <1>10. ExpandedAreDone(c, w, {}, {})
    BY DEF ExpandedAreDone
  <1>11. ThroughNeighbors(c, ball, w)
    BY <1>1 DEF ThroughNeighbors
  <1>12. QED
    BY <1>4, <1>5, <1>6, <1>7, <1>8, <1>9, <1>10, <1>11 DEF Walking

-----------------------------------------------------------------------------
(* When the queue is empty *)

\* There are at most as many targets as places in the key order.
LEMMA TargetsAreFinite ==
  /\ Len(KeyOrder) \in Nat
  /\ IsFiniteSet(Target) /\ Cardinality(Target) <= Len(KeyOrder)
  <1> DEFINE n == Len(KeyOrder)
             f == [i \in 1 .. n |-> KeyOrder[i]]
  <1>1. /\ n \in Nat /\ \A i \in 1 .. n : KeyOrder[i] \in Target
        /\ \A x \in Target : \E i \in 1 .. n : KeyOrder[i] = x
    <2>1. KeyOrder \in Seq(Target)
      BY ImpactAssumption
    <2>2. \A x : x \in ToSet(KeyOrder) <=> \E i \in 1 .. n : KeyOrder[i] = x
      BY <2>1, InSequence
    <2>3. QED
      BY <2>1, <2>2 DEF Target
  <1>2. f \in Surjection(1 .. n, Target)
    BY <1>1 DEF Surjection
  <1>3. IsFiniteSet(1 .. n) /\ Cardinality(1 .. n) = n
    <2>1. 1 \in Int /\ n \in Int
      BY <1>1
    <2>2. IsFiniteSet(1 .. n) /\ Cardinality(1 .. n) = IF 1 > n THEN 0 ELSE n - 1 + 1
      BY <2>1, FS_Interval
    <2>3. QED
      BY <1>1, <2>2
  <1> HIDE DEF f, n
  <1>4. IsFiniteSet(Target) /\ Cardinality(Target) <= Cardinality(1 .. n)
    BY <1>2, <1>3, FS_Surjection
  <1>5. QED
    BY <1>1, <1>3, <1>4 DEF n

\* No more nodes are reached than there are targets.
LEMMA ReachedAreFew ==
  ASSUME NEW c, NEW w, WellFormed(c, w), OnceEach(c, w)
  PROVE  Len(w.reached) <= Len(KeyOrder)
  <1> DEFINE n == Len(w.reached)
             f == [i \in 1 .. n |-> w.reached[i].node]
  <1>1. n \in Nat
    BY DEF WellFormed, IsSequence
  <1>2. f \in Injection(1 .. n, Target)
    <2>1. \A i \in 1 .. n : w.reached[i].node \in Target
      BY DEF WellFormed
    <2>2. \A i, j \in 1 .. n : w.reached[i].node = w.reached[j].node => i = j
      BY DEF OnceEach
    <2> HIDE DEF n
    <2>3. f \in [1 .. n -> Target]
      BY <2>1
    <2>4. \A i, j \in 1 .. n : f[i] = f[j] => i = j
      BY <2>2
    <2> HIDE DEF f
    <2>5. QED
      BY <2>3, <2>4 DEF Injection, IsInjective
  <1>3. Cardinality(1 .. n) = n
    <2>1. 1 \in Int /\ n \in Int
      BY <1>1
    <2>2. IsFiniteSet(1 .. n) /\ Cardinality(1 .. n) = IF 1 > n THEN 0 ELSE n - 1 + 1
      BY <2>1, FS_Interval
    <2>3. QED
      BY <1>1, <2>2
  <1> HIDE DEF f, n
  <1>4. Cardinality(1 .. n) <= Cardinality(Target)
    BY <1>2, TargetsAreFinite, FS_Injection
  <1>5. Cardinality(Target) \in Nat
    BY TargetsAreFinite, FS_CardinalityType
  <1>6. QED
    BY <1>1, <1>3, <1>4, <1>5, TargetsAreFinite DEF n

Within(c) == IF c.bound = None THEN Len(KeyOrder) ELSE c.bound

\* The traversal ends with every node in reach visited and no other, and
\* with every node short of the bound expanded.
LEMMA EndTells ==
  ASSUME NEW c, NEW ball, IsBall(c, ball), NEW w, NEW ex, Walking(c, ball, w, ex, {}),
         w.queue = <<>>
  PROVE  /\ w.visited = ball[Within(c)]
         /\ \A n : n \in ex <=> \E d : Met(c, w, n, d) /\ ~Stops(c, d)
  <1> DEFINE h == Within(c)
  <1>0. Len(w.queue) = 0 /\ 1 .. 0 = {}
    BY EmptySequence
  <1>1. \A n, d : ~Queued(w, n, d)
    BY <1>0 DEF Queued
  <1>2. \A n : n \in ex <=> \E d : Met(c, w, n, d) /\ ~Stops(c, d)
    BY <1>1 DEF Walking, AllAccounted, ExpandedAreDone
  <1>3. h \in Nat /\ (c.bound = None \/ h <= c.bound)
    BY TargetsAreFinite DEF Within, Walking, WellFormed
  <1>4. ball[h] \subseteq w.visited
    <2>1. \A i \in 1 .. Len(w.queue) : w.queue[i].depth >= h
      BY <1>0
    <2> HIDE DEF h
    <2>2. QED
      BY <1>3, <2>1, LevelsAreMet
  <1>5. ASSUME NEW n, NEW d, Met(c, w, n, d) PROVE n \in ball[h]
    <2>1. d \in Nat /\ n \in ball[d] /\ (c.bound = None \/ d <= c.bound)
      BY <1>5 DEF Walking, AtDistance
    <2>2. d <= h
      <3>1. CASE c.bound # None
        BY <2>1, <3>1 DEF Within
      <3>2. CASE c.bound = None /\ d = 0
        BY <1>3, <3>2
      <3>3. CASE c.bound = None /\ d # 0
        <4>1. PICK i \in 1 .. Len(w.reached) : w.reached[i].depth = d
          BY <1>5, <3>3 DEF Met
        <4>2. d \in 1 .. i
          BY <4>1 DEF Walking, WellFormed
        <4>3. Len(w.reached) <= Len(KeyOrder) /\ Len(KeyOrder) \in Nat
          BY ReachedAreFew, TargetsAreFinite DEF Walking
        <4>4. Len(w.reached) \in Nat
          BY DEF Walking, WellFormed, IsSequence
        <4>5. h = Len(KeyOrder)
          BY <3>3 DEF Within
        <4> HIDE DEF h
        <4>6. QED
          BY <2>1, <4>1, <4>2, <4>3, <4>4, <4>5
      <3>4. QED
        BY <3>1, <3>2, <3>3
    <2>3. ball[d] \subseteq ball[h]
      <3> HIDE DEF h
      <3>1. QED
        BY <1>3, <2>1, <2>2, BallGrows
    <2>4. QED
      BY <2>1, <2>3
  <1>6. \A n \in w.visited : \E d : Met(c, w, n, d)
    BY DEF Walking, OnceEach
  <1>7. w.visited \subseteq ball[h]
    BY <1>5, <1>6
  <1>8. QED
    BY <1>2, <1>4, <1>7

-----------------------------------------------------------------------------
(* The neighbors of a node, one after the other *)

\* A function on 1 .. n is a sequence.
LEMMA FunctionIsSequence ==
  ASSUME NEW n \in Nat, NEW f, f = [i \in 1 .. n |-> f[i]]
  PROVE  f \in Seq({f[i] : i \in 1 .. n}) /\ Len(f) = n
  <1> DEFINE S == {f[i] : i \in 1 .. n}
  <1>1. \A i \in 1 .. n : f[i] \in S
    OBVIOUS
  <1> HIDE DEF S
  <1>2. f \in [1 .. n -> S]
    BY <1>1
  <1>3. f \in Seq(S) /\ Len(f) = n
    BY <1>2
  <1>4. QED
    BY <1>3 DEF S

\* The traversal of an invocation.
TheCase ==
  [edges |-> Edges, direction |-> request.direction, seeds |-> ToSet(request.seeds),
   bound |-> request.bound, mark |-> [e \in Edges |-> Lines(graph.edges[e])]]

\* The fields of the case.
LEMMA CaseFields ==
  /\ TheCase.edges = Edges /\ TheCase.direction = request.direction
  /\ TheCase.seeds = ToSet(request.seeds) /\ TheCase.bound = request.bound
  /\ \A e \in Edges : TheCase.mark[e] = Lines(graph.edges[e])
  BY DEF TheCase

\* The inward neighbors are the dependents, with the lines of their edges.
LEMMA InwardTells ==
  ASSUME NEW n
  PROVE  /\ IsSequence(Inward(n))
         /\ \A i \in 1 .. Len(Inward(n)) :
              /\ request.direction # "outbound"
              /\ <<Inward(n)[i].node, n>> \in Edges /\ Inward(n)[i].node \in Target
              /\ Inward(n)[i].lines = Lines(graph.edges[<<Inward(n)[i].node, n>>])
         /\ \A k \in Target : request.direction # "outbound" /\ <<k, n>> \in Edges =>
              \E i \in 1 .. Len(Inward(n)) : Inward(n)[i].node = k
  <1>1. CASE request.direction = "outbound"
    <2>1. Inward(n) = <<>>
      BY <1>1 DEF Inward
    <2>2. <<>> \in Seq({}) /\ Len(<<>>) = 0 /\ 1 .. 0 = {}
      OBVIOUS
    <2>3. QED
      BY <1>1, <2>1, <2>2 DEF IsSequence
  <1>2. CASE request.direction # "outbound"
    <2> DEFINE s == Dependents(n)
               m == Len(s)
               ns == [i \in 1 .. m |-> [node |-> s[i], lines |-> Lines(graph.edges[<<s[i], n>>])]]
    <2>1. s \in Seq(Target) /\ ToSet(s) = {k \in Target : <<k, n>> \in Edges}
      BY InKeyOrderTells DEF Dependents
    <2> HIDE DEF s
    <2>2. m \in Nat /\ DOMAIN s = 1 .. m /\ \A x : x \in ToSet(s) <=> \E i \in 1 .. m : s[i] = x
      BY <2>1, InSequence
    <2>3. Inward(n) = ns
      BY <1>2, <2>2 DEF Inward, s
    <2> HIDE DEF m
    <2>4. \A i \in 1 .. m : /\ ns[i].node = s[i]
                            /\ ns[i].lines = Lines(graph.edges[<<s[i], n>>])
      OBVIOUS
    <2>5. ns \in Seq({ns[i] : i \in 1 .. m}) /\ Len(ns) = m
      <3>1. ns = [i \in 1 .. m |-> ns[i]]
        OBVIOUS
      <3> HIDE DEF ns
      <3>2. QED
        BY <2>2, <3>1, FunctionIsSequence
    <2> HIDE DEF ns
    <2>6. IsSequence(ns)
      BY <2>5 DEF IsSequence
    <2>7. \A i \in 1 .. m : s[i] \in Target /\ <<s[i], n>> \in Edges
      BY <2>1, <2>2
    <2>8. \A k \in Target : <<k, n>> \in Edges => \E i \in 1 .. m : s[i] = k
      BY <2>1, <2>2
    <2>9. \A i \in 1 .. m : /\ ns[i].node \in Target /\ <<ns[i].node, n>> \in Edges
                            /\ ns[i].lines = Lines(graph.edges[<<ns[i].node, n>>])
      BY <2>4, <2>7
    <2>10. \A k \in Target : <<k, n>> \in Edges => \E i \in 1 .. m : ns[i].node = k
      BY <2>4, <2>8
    <2>11. Len(ns) = m
      BY <2>5
    <2>12. QED
      BY <1>2, <2>3, <2>6, <2>9, <2>10, <2>11
  <1>3. QED
    BY <1>1, <1>2

\* The outward ones are the dependencies, without lines.
LEMMA OutwardTells ==
  ASSUME NEW n
  PROVE  /\ IsSequence(Outward(n))
         /\ \A i \in 1 .. Len(Outward(n)) :
              /\ request.direction # "inbound"
              /\ <<n, Outward(n)[i].node>> \in Edges /\ Outward(n)[i].node \in Target
              /\ Outward(n)[i].lines = {}
         /\ \A k \in Target : request.direction # "inbound" /\ <<n, k>> \in Edges =>
              \E i \in 1 .. Len(Outward(n)) : Outward(n)[i].node = k
  <1>1. CASE request.direction = "inbound"
    <2>1. Outward(n) = <<>>
      BY <1>1 DEF Outward
    <2>2. <<>> \in Seq({}) /\ Len(<<>>) = 0 /\ 1 .. 0 = {}
      OBVIOUS
    <2>3. QED
      BY <1>1, <2>1, <2>2 DEF IsSequence
  <1>2. CASE request.direction # "inbound"
    <2> DEFINE s == Dependencies(n)
               m == Len(s)
               ns == [i \in 1 .. m |-> [node |-> s[i], lines |-> {}]]
    <2>1. s \in Seq(Target) /\ ToSet(s) = {k \in Target : <<n, k>> \in Edges}
      BY InKeyOrderTells DEF Dependencies
    <2> HIDE DEF s
    <2>2. m \in Nat /\ DOMAIN s = 1 .. m /\ \A x : x \in ToSet(s) <=> \E i \in 1 .. m : s[i] = x
      BY <2>1, InSequence
    <2>3. Outward(n) = ns
      BY <1>2, <2>2 DEF Outward, s
    <2> HIDE DEF m
    <2>4. \A i \in 1 .. m : ns[i].node = s[i] /\ ns[i].lines = {}
      OBVIOUS
    <2>5. ns \in Seq({ns[i] : i \in 1 .. m}) /\ Len(ns) = m
      <3>1. ns = [i \in 1 .. m |-> ns[i]]
        OBVIOUS
      <3> HIDE DEF ns
      <3>2. QED
        BY <2>2, <3>1, FunctionIsSequence
    <2> HIDE DEF ns
    <2>6. IsSequence(ns)
      BY <2>5 DEF IsSequence
    <2>7. \A i \in 1 .. m : s[i] \in Target /\ <<n, s[i]>> \in Edges
      BY <2>1, <2>2
    <2>8. \A k \in Target : <<n, k>> \in Edges => \E i \in 1 .. m : s[i] = k
      BY <2>1, <2>2
    <2>9. QED
      BY <1>2, <2>3, <2>4, <2>5, <2>6, <2>7, <2>8
  <1>3. QED
    BY <1>1, <1>2

\* The neighbors of a node in the code are its neighbors in the case.
LEMMA NeighborsTell ==
  ASSUME NEW n, NEW ns, ns = Neighbors(n)
  PROVE  /\ Len(ns) \in Nat /\ DOMAIN ns = 1 .. Len(ns)
         /\ \A i \in 1 .. Len(ns) : ns[i].node \in NextTo(TheCase, n)
         /\ \A x \in NextTo(TheCase, n) : \E i \in 1 .. Len(ns) : ns[i].node = x
         /\ \A i \in 1 .. Len(ns) :
              \/ ns[i].lines = LinesTold(TheCase, ns[i].node, n)
              \/ \E j \in 1 .. i - 1 : ns[j].node = ns[i].node
  <1> DEFINE ins == Inward(n)
             outs == Outward(n)
             a == Len(ins)
             b == Len(outs)
  <1>1. IsSequence(ins) /\ IsSequence(outs)
    BY InwardTells, OutwardTells
  <1>2. \A i \in 1 .. a : /\ ins[i].node \in NextTo(TheCase, n)
                          /\ ins[i].lines = LinesTold(TheCase, ins[i].node, n)
    BY InwardTells, CaseFields DEF NextTo, LinesTold
  <1>3. \A i \in 1 .. b : /\ outs[i].node \in NextTo(TheCase, n)
                          /\ \/ outs[i].lines = LinesTold(TheCase, outs[i].node, n)
                             \/ \E j \in 1 .. a : ins[j].node = outs[i].node
    <2> TAKE i \in 1 .. b
    <2> DEFINE k == outs[i].node
    <2>1. k \in Target /\ request.direction # "inbound" /\ <<n, k>> \in Edges /\ outs[i].lines = {}
      BY OutwardTells
    <2>2. request.direction # "outbound" /\ <<k, n>> \in Edges => \E j \in 1 .. a : ins[j].node = k
      BY <2>1, InwardTells
    <2> HIDE DEF k
    <2>3. k \in NextTo(TheCase, n)
      BY <2>1, CaseFields DEF NextTo
    <2>4. \/ LinesTold(TheCase, k, n) = {}
          \/ \E j \in 1 .. a : ins[j].node = k
      BY <2>2, CaseFields DEF LinesTold
    <2>5. QED
      BY <2>1, <2>3, <2>4 DEF k
  <1>4. \A x \in NextTo(TheCase, n) : \/ \E i \in 1 .. a : ins[i].node = x
                                      \/ \E i \in 1 .. b : outs[i].node = x
    BY InwardTells, OutwardTells, CaseFields DEF NextTo
  <1>5. ns = ins \o outs
    BY DEF Neighbors
  <1> HIDE DEF ins, outs
  <1>6. /\ a \in Nat /\ b \in Nat /\ Len(ns) = a + b
        /\ DOMAIN ns = 1 .. (a + b)
        /\ \A i \in 1 .. a : ns[i] = ins[i]
        /\ \A i \in 1 .. b : ns[a + i] = outs[i]
    <2>1. PICK S : ins \in Seq(S)
      BY <1>1 DEF IsSequence
    <2>2. PICK T : outs \in Seq(T)
      BY <1>1 DEF IsSequence
    <2>3. ins \in Seq(S \cup T) /\ outs \in Seq(S \cup T)
      BY <2>1, <2>2
    <2>4. a \in Nat /\ b \in Nat
      BY <2>1, <2>2
    <2>5. QED
      BY <1>5, <2>3, <2>4, Concatenated
  <1> HIDE DEF a, b
  <1>7. \A i \in 1 .. (a + b) : i \in 1 .. a \/ (i - a \in 1 .. b /\ a + (i - a) = i /\ 1 .. a \subseteq 1 .. i - 1)
    BY <1>6
  <1>8. \A i \in 1 .. (a + b) :
          \/ i \in 1 .. a /\ ns[i] = ins[i]
          \/ 1 .. a \subseteq 1 .. i - 1 /\ \E j \in 1 .. b : ns[i] = outs[j]
    <2> TAKE i \in 1 .. (a + b)
    <2>1. CASE i \in 1 .. a
      BY <1>6, <2>1
    <2>2. CASE i \notin 1 .. a
      <3>1. i - a \in 1 .. b /\ a + (i - a) = i /\ 1 .. a \subseteq 1 .. i - 1
        BY <1>7, <2>2
      <3>2. ns[a + (i - a)] = outs[i - a]
        BY <1>6, <3>1
      <3>3. QED
        BY <3>1, <3>2
    <2>3. QED
      BY <2>1, <2>2
  <1>9. \A i \in 1 .. a : i \in 1 .. (a + b)
    BY <1>6
  <1>10. \A i \in 1 .. b : a + i \in 1 .. (a + b)
    BY <1>6
  <1>11. \A i \in 1 .. (a + b) : ns[i].node \in NextTo(TheCase, n)
    BY <1>2, <1>3, <1>8
  <1>12. \A x \in NextTo(TheCase, n) : \E i \in 1 .. (a + b) : ns[i].node = x
    BY <1>4, <1>6, <1>9, <1>10
  <1>13. \A i \in 1 .. (a + b) :
           \/ ns[i].lines = LinesTold(TheCase, ns[i].node, n)
           \/ \E j \in 1 .. i - 1 : ns[j].node = ns[i].node
    <2> TAKE i \in 1 .. (a + b)
    <2>1. CASE i \in 1 .. a /\ ns[i] = ins[i]
      BY <1>2, <2>1
    <2>2. CASE 1 .. a \subseteq 1 .. i - 1 /\ \E j \in 1 .. b : ns[i] = outs[j]
      <3>1. PICK j \in 1 .. b : ns[i] = outs[j]
        BY <2>2
      <3>2. \A k \in 1 .. a : k \in 1 .. i - 1 /\ ns[k] = ins[k]
        BY <1>6, <2>2
      <3>3. QED
        BY <1>3, <3>1, <3>2
    <2>3. QED
      BY <1>8, <2>1, <2>2
  <1>14. Len(ns) \in Nat /\ Len(ns) = a + b
    BY <1>6
  <1>15. QED
    BY <1>6, <1>11, <1>12, <1>13, <1>14

-----------------------------------------------------------------------------
(* The links of a file and the edges they become *)

\* The edges of one file: an occurrence for each link to the target.
LEMMA LinkEdgesTell ==
  ASSUME NEW p, NEW links, NEW policy
  PROVE  /\ \A e : e \in DOMAIN LinkEdges(p, links, policy) <=>
              \E l \in links : NamesTarget(l, policy) /\ e = <<p, l.to>>
         /\ \A e \in DOMAIN LinkEdges(p, links, policy) : \A o :
              o \in LinkEdges(p, links, policy)[e] <=>
                \E l \in links : NamesTarget(l, policy) /\ l.to = e[2] /\ o = Occurrence(l)
  <1> DEFINE named == {l \in links : NamesTarget(l, policy)}
             ends == {<<p, l.to>> : l \in named}
             at(e) == {Occurrence(l) : l \in {k \in named : k.to = e[2]}}
  <1>1. LinkEdges(p, links, policy) = [e \in ends |-> at(e)]
    BY DEF LinkEdges
  <1>2. \A e : e \in ends <=> \E l \in links : NamesTarget(l, policy) /\ e = <<p, l.to>>
    OBVIOUS
  <1>3. \A e, o : o \in at(e) <=>
                    \E l \in links : NamesTarget(l, policy) /\ l.to = e[2] /\ o = Occurrence(l)
    OBVIOUS
  <1> HIDE DEF ends, at
  <1>4. QED
    BY <1>1, <1>2, <1>3

\* The edges of a fragment: those of its files.
LEMMA EdgesOfTell ==
  ASSUME NEW files, NEW links, NEW policy
  PROVE  /\ \A e : e \in DOMAIN EdgesOf(files, links, policy) <=>
              \E p \in files : \E l \in links[p] : NamesTarget(l, policy) /\ e = <<p, l.to>>
         /\ \A e \in DOMAIN EdgesOf(files, links, policy) : \A o :
              o \in EdgesOf(files, links, policy)[e] <=>
                \E l \in links[e[1]] :
                  NamesTarget(l, policy) /\ l.to = e[2] /\ o = Occurrence(l)
  <1> DEFINE ends == UNION {DOMAIN LinkEdges(p, links[p], policy) : p \in files}
  <1>1. EdgesOf(files, links, policy) = [e \in ends |-> LinkEdges(e[1], links[e[1]], policy)[e]]
    BY DEF EdgesOf
  <1>2. \A e : e \in ends <=> \E p \in files : e \in DOMAIN LinkEdges(p, links[p], policy)
    OBVIOUS
  <1>3. \A e : e \in ends <=>
               \E p \in files : \E l \in links[p] : NamesTarget(l, policy) /\ e = <<p, l.to>>
    BY <1>2, LinkEdgesTell
  <1> HIDE DEF ends
  <1>4. ASSUME NEW e \in ends
        PROVE  \A o : o \in LinkEdges(e[1], links[e[1]], policy)[e] <=>
                        \E l \in links[e[1]] :
                          NamesTarget(l, policy) /\ l.to = e[2] /\ o = Occurrence(l)
    <2>1. PICK p \in files : \E l \in links[p] : NamesTarget(l, policy) /\ e = <<p, l.to>>
      BY <1>3
    <2>2. e[1] = p
      BY <2>1
    <2>3. \E l \in links[e[1]] : NamesTarget(l, policy) /\ e = <<e[1], l.to>>
      BY <2>1, <2>2
    <2>4. e \in DOMAIN LinkEdges(e[1], links[e[1]], policy)
      BY <2>3, LinkEdgesTell
    <2>5. QED
      BY <2>4, LinkEdgesTell
  <1>5. QED
    BY <1>1, <1>3, <1>4

\* What the walk may say of a path.
LEMMA EntryTells ==
  ASSUME NEW x \in Entry
  PROVE  /\ x.to = None \/ x.to \in Path
         /\ x.bytes = None \/ (x.bytes \in Content /\ x.kind = "file" /\ x.to = None)
         /\ x.kind \in {"file", "directory", "symlink"}
         /\ x.kind # "symlink" => x.to = None
  BY DEF Entry, File, Directory, Symlink

\* What is known of the entries of a tree.
LEMMA EntriesTell ==
  ASSUME tree \in Tree
  PROVE  /\ Entries(tree) \subseteq Path
         /\ \A p \in Entries(tree) : tree[p] \in Entry
         /\ \A p \in Texts(tree) : p \in Entries(tree) /\ tree[p].bytes \in Content
  <1>1. DOMAIN tree = Path /\ \A p \in Path : tree[p] \in Entry \cup {None}
    BY DEF Tree
  <1>2. Entries(tree) \subseteq Path /\ \A p \in Entries(tree) : tree[p] \in Entry
    BY <1>1 DEF Entries
  <1>3. QED
    BY <1>2, EntryTells DEF Texts, HasBytes

Written(g, p, l) == p \in ReadBy(g, tree) /\ l \in Authored(g, p)

\* The fragment of a configured graph has an edge for each target of what
\* was written in its files, with an occurrence for each link to it
\* (builders/markdown.rs, builders/frontmatter.rs).
LEMMA TextEdges ==
  ASSUME tree \in Tree, NEW g \in Configured
  PROVE  /\ \A e : e \in DOMAIN Build(g, tree).edges <=>
              \E p \in Path : \E l \in Authored(g, p) : Written(g, p, l) /\ e = <<p, l.to>>
         /\ \A e \in DOMAIN Build(g, tree).edges : \A o :
              o \in Build(g, tree).edges[e] <=>
                \E l \in Authored(g, e[1]) :
                  Written(g, e[1], l) /\ l.to = e[2] /\ o = Occurrence(l)
         /\ \A p, l : Written(g, p, l) => l.to \in Target
  <1> DEFINE texts == ReadBy(g, tree)
             edges == Build(g, tree).edges
  <1>0. texts \subseteq Path /\ \A p \in texts : tree[p].bytes \in Content
    BY EntriesTell DEF ReadBy
  <1>1. ASSUME NEW files, NEW links, NEW policy, files \subseteq texts,
               edges = EdgesOf(files, links, policy),
               \A p, l : Written(g, p, l) <=>
                  p \in files /\ l \in links[p] /\ NamesTarget(l, policy)
        PROVE  /\ \A e : e \in DOMAIN edges <=>
                    \E p \in Path : \E l \in Authored(g, p) : Written(g, p, l) /\ e = <<p, l.to>>
               /\ \A e \in DOMAIN edges : \A o :
                    o \in edges[e] <=>
                      \E l \in Authored(g, e[1]) :
                        Written(g, e[1], l) /\ l.to = e[2] /\ o = Occurrence(l)
    <2> HIDE DEF edges
    <2>1. /\ \A e : e \in DOMAIN edges <=>
               \E p \in files : \E l \in links[p] : NamesTarget(l, policy) /\ e = <<p, l.to>>
          /\ \A e \in DOMAIN edges : \A o :
               o \in edges[e] <=>
                 \E l \in links[e[1]] : NamesTarget(l, policy) /\ l.to = e[2] /\ o = Occurrence(l)
      BY <1>1, EdgesOfTell
    <2>2. \A p, l : Written(g, p, l) => p \in Path /\ l \in Authored(g, p)
      BY <1>0 DEF Written
    <2>3. \A p, l : Written(g, p, l) <=> p \in files /\ l \in links[p] /\ NamesTarget(l, policy)
      BY <1>1
    <2>4. \A e : e \in DOMAIN edges <=>
               \E p \in Path : \E l \in Authored(g, p) : Written(g, p, l) /\ e = <<p, l.to>>
      BY <2>1, <2>2, <2>3
    <2>5. \A e \in DOMAIN edges : e[1] \in files
      <3> TAKE e \in DOMAIN edges
      <3>1. PICK p \in files : \E l \in links[p] : e = <<p, l.to>>
        BY <2>1
      <3>2. QED
        BY <3>1
    <2>6. \A e \in DOMAIN edges : \A o :
            o \in edges[e] <=>
              \E l \in Authored(g, e[1]) :
                Written(g, e[1], l) /\ l.to = e[2] /\ o = Occurrence(l)
      BY <2>1, <2>2, <2>3, <2>5
    <2>7. QED
      BY <2>4, <2>6
  <1>2. \A p, l : Written(g, p, l) => l.to \in Target
    <2> SUFFICES ASSUME NEW p, NEW l, Written(g, p, l) PROVE l.to \in Target
      OBVIOUS
    <2>1. p \in texts /\ tree[p].bytes \in Content
      BY <1>0 DEF Written
    <2>2. l \in tree[p].bytes.body \cup {v.link : v \in tree[p].bytes.values} /\ l.to # Blank
      BY DEF Written, Authored, Declared
    <2>3. QED
      BY <2>1, <2>2, ImpactAssumption
  <1>3. CASE g.parser = "markdown"
    <2> DEFINE links == [p \in texts |-> tree[p].bytes.body]
    <2>1. edges = EdgesOf(texts, links, "body")
      BY <1>3 DEF Build, MarkdownGraph
    <2>2. \A p \in texts : links[p] = tree[p].bytes.body
      OBVIOUS
    <2>3. \A p, l : Written(g, p, l) <=> p \in texts /\ l \in links[p] /\ NamesTarget(l, "body")
      <3> HIDE DEF links
      <3>1. QED
        BY <1>3, <2>2 DEF Written, Authored, NamesTarget
    <2> HIDE DEF links, edges
    <2>4. QED
      BY <1>1, <1>2, <2>1, <2>3 DEF edges
  <1>4. CASE g.parser # "markdown"
    <2> DEFINE files == {p \in ReadBy(g, tree) : HasMapping(tree, p)}
               links == [p \in files |-> Declared(g, tree[p].bytes)]
    <2>1. edges = EdgesOf(files, links, "declared")
      BY <1>4 DEF Build, FrontmatterGraph
    <2>2. \A p \in files : links[p] = Declared(g, tree[p].bytes)
      OBVIOUS
    <2>3. \A p : p \in files <=> p \in texts /\ tree[p].bytes.block = "mapping"
      BY DEF HasMapping
    <2>4. \A p, l : Written(g, p, l) <=> p \in files /\ l \in links[p] /\ NamesTarget(l, "declared")
      <3> HIDE DEF links, files
      <3>1. QED
        BY <1>4, <2>2, <2>3 DEF Written, Authored, NamesTarget
    <2>5. files \subseteq texts
      OBVIOUS
    <2> HIDE DEF links, edges, files
    <2>6. QED
      BY <1>1, <1>2, <2>1, <2>4, <2>5 DEF edges
  <1>5. QED
    BY <1>3, <1>4

\* The occurrences of a composed edge: those of the links that were written.
LEMMA ComposedOccurrences ==
  ASSUME tree \in Tree, GraphIsComposed, pc # "build", NEW e \in Edges
  PROVE  \A o : o \in Occurrences(graph.edges[e]) <=>
           \E g \in Configured : \E l \in Authored(g, e[1]) :
             Written(g, e[1], l) /\ e = <<e[1], l.to>> /\ o = Occurrence(l)
  <1> DEFINE B == BuildSet(tree)
             n == GraphCount
             edge == graph.edges[e]
  <1>1. /\ EdgesUpTo(graph.edges, B, n)
        /\ DOMAIN B = 1 .. n /\ n \in Nat /\ 1 \in 1 .. n
        /\ B[1] = FsGraph(tree)
        /\ \A i \in DOMAIN TextGraphs : B[i + 1] = Build(TextGraphs[i], tree) /\ i + 1 \in 1 .. n
        /\ \A i \in 1 .. n : i = 1 \/ (i - 1 \in DOMAIN TextGraphs /\ (i - 1) + 1 = i)
    BY ComposedTree, TheGraphs, TextGraphsSequence DEF GraphIsComposed, GraphCount
  <1>2. \A l : l \in DOMAIN edge.of <=>
          \E i \in 1 .. n : e \in DOMAIN B[i].edges /\ B[i].edges[e] # {} /\ B[i].label = l
    BY <1>1 DEF EdgesUpTo, Edges
  <1>3. \A i \in 1 .. n : e \in DOMAIN B[i].edges /\ B[i].edges[e] # {} =>
          edge.of[B[i].label] = B[i].edges[e]
    BY <1>1 DEF EdgesUpTo
  <1>4. \A o : o \in Occurrences(edge) <=> \E l \in DOMAIN edge.of : o \in edge.of[l]
    BY DEF Occurrences
  <1> HIDE DEF B, n, edge
  <1>5. \A o : o \in Occurrences(edge) <=>
          \E i \in 1 .. n : e \in DOMAIN B[i].edges /\ o \in B[i].edges[e]
    BY <1>2, <1>3, <1>4
  <1>6. \A x \in DOMAIN B[1].edges : B[1].edges[x] = {}
    BY <1>1 DEF FsGraph
  <1>7. \A o : o \in Occurrences(edge) <=>
          \E g \in Configured : e \in DOMAIN Build(g, tree).edges /\ o \in Build(g, tree).edges[e]
    <2>1. ASSUME NEW o, o \in Occurrences(edge)
          PROVE  \E g \in Configured : e \in DOMAIN Build(g, tree).edges /\ o \in Build(g, tree).edges[e]
      <3>1. PICK i \in 1 .. n : e \in DOMAIN B[i].edges /\ o \in B[i].edges[e]
        BY <1>5, <2>1
      <3>2. i # 1
        BY <1>6, <3>1
      <3>3. i - 1 \in DOMAIN TextGraphs /\ B[i] = Build(TextGraphs[i - 1], tree)
        BY <1>1, <3>2
      <3>4. TextGraphs[i - 1] \in Configured
        BY <3>3 DEF Configured
      <3>5. QED
        BY <3>1, <3>3, <3>4
    <2>2. ASSUME NEW o, NEW g \in Configured,
                 e \in DOMAIN Build(g, tree).edges, o \in Build(g, tree).edges[e]
          PROVE  o \in Occurrences(edge)
      <3>1. PICK i \in DOMAIN TextGraphs : g = TextGraphs[i]
        BY DEF Configured
      <3>2. B[i + 1] = Build(g, tree) /\ i + 1 \in 1 .. n
        BY <1>1, <3>1
      <3>3. QED
        BY <1>5, <2>2, <3>2
    <2>3. QED
      BY <2>1, <2>2
  <1>8. \A g \in Configured :
          /\ e \in DOMAIN Build(g, tree).edges <=>
               \E p \in Path : \E l \in Authored(g, p) : Written(g, p, l) /\ e = <<p, l.to>>
          /\ e \in DOMAIN Build(g, tree).edges =>
               \A o : o \in Build(g, tree).edges[e] <=>
                        \E l \in Authored(g, e[1]) :
                          Written(g, e[1], l) /\ l.to = e[2] /\ o = Occurrence(l)
    BY TextEdges
  <1>9. \A p, l : e = <<p, l.to>> => p = e[1] /\ l.to = e[2]
    OBVIOUS
  <1>10. \A g \in Configured : \A l : Written(g, e[1], l) => e[1] \in Path /\ l \in Authored(g, e[1])
    BY EntriesTell DEF Written, ReadBy
  <1>11. \A g \in Configured : \A o :
          e \in DOMAIN Build(g, tree).edges /\ o \in Build(g, tree).edges[e] <=>
            \E l \in Authored(g, e[1]) :
              Written(g, e[1], l) /\ e = <<e[1], l.to>> /\ o = Occurrence(l)
    <2> SUFFICES ASSUME NEW g \in Configured, NEW o
                 PROVE  e \in DOMAIN Build(g, tree).edges /\ o \in Build(g, tree).edges[e] <=>
                          \E l \in Authored(g, e[1]) :
                            Written(g, e[1], l) /\ e = <<e[1], l.to>> /\ o = Occurrence(l)
      OBVIOUS
    <2>1. ASSUME e \in DOMAIN Build(g, tree).edges
          PROVE  \A l : e = <<e[1], l.to>> <=> l.to = e[2]
      <3>1. PICK p \in Path : \E l \in Authored(g, p) : e = <<p, l.to>>
        BY <1>8, <2>1
      <3>2. PICK k \in Authored(g, p) : e = <<p, k.to>>
        BY <3>1
      <3>3. e[1] = p /\ e[2] = k.to
        BY <3>2
      <3>4. e = <<e[1], e[2]>>
        BY <3>2, <3>3
      <3>5. QED
        BY <1>9, <3>4
    <2>2. QED
      BY <1>8, <1>9, <1>10, <2>1
  <1>12. QED
    BY <1>7, <1>11 DEF edge

\* The composed edges: from symlinks to their targets, and from the files to
\* what was written in them.
LEMMA ComposedEdges ==
  ASSUME tree \in Tree, GraphIsComposed, pc # "build"
  PROVE  /\ \A e : e \in Edges <=>
              \/ \E p \in Entries(tree) : tree[p].to # None /\ e = <<p, tree[p].to>>
              \/ \E g \in Configured : \E p \in Path : \E l \in Authored(g, p) :
                   Written(g, p, l) /\ e = <<p, l.to>>
         /\ \A e \in Edges : \E p, t \in Target : e = <<p, t>>
  <1> DEFINE B == BuildSet(tree)
             n == GraphCount
  <1>1. /\ EdgesUpTo(graph.edges, B, n)
        /\ DOMAIN B = 1 .. n /\ n \in Nat /\ 1 \in 1 .. n
        /\ B[1] = FsGraph(tree)
        /\ \A i \in DOMAIN TextGraphs : B[i + 1] = Build(TextGraphs[i], tree) /\ i + 1 \in 1 .. n
        /\ \A i \in 1 .. n : i = 1 \/ (i - 1 \in DOMAIN TextGraphs /\ (i - 1) + 1 = i)
    BY ComposedTree, TheGraphs, TextGraphsSequence DEF GraphIsComposed, GraphCount
  <1>2. \A e : e \in Edges <=> \E i \in 1 .. n : e \in DOMAIN B[i].edges
    BY <1>1 DEF EdgesUpTo, Edges
  <1>3. \A e : e \in DOMAIN FsGraph(tree).edges <=>
               \E p \in Entries(tree) : tree[p].to # None /\ e = <<p, tree[p].to>>
    BY DEF FsGraph
  <1>4. \A e : e \in Edges <=> \/ e \in DOMAIN FsGraph(tree).edges
                               \/ \E g \in Configured : e \in DOMAIN Build(g, tree).edges
    <2> HIDE DEF B, n
    <2>1. ASSUME NEW e \in Edges, e \notin DOMAIN FsGraph(tree).edges
          PROVE  \E g \in Configured : e \in DOMAIN Build(g, tree).edges
      <3>1. PICK i \in 1 .. n : e \in DOMAIN B[i].edges
        BY <1>2
      <3>2. i # 1
        BY <1>1, <2>1, <3>1
      <3>3. i - 1 \in DOMAIN TextGraphs /\ B[i] = Build(TextGraphs[i - 1], tree)
        BY <1>1, <3>2
      <3>4. TextGraphs[i - 1] \in Configured
        BY <3>3 DEF Configured
      <3>5. QED
        BY <3>1, <3>3, <3>4
    <2>2. ASSUME NEW e, NEW g \in Configured, e \in DOMAIN Build(g, tree).edges
          PROVE  e \in Edges
      <3>1. PICK i \in DOMAIN TextGraphs : g = TextGraphs[i]
        BY DEF Configured
      <3>2. B[i + 1] = Build(g, tree) /\ i + 1 \in 1 .. n
        BY <1>1, <3>1
      <3>3. QED
        BY <1>2, <2>2, <3>2
    <2>3. ASSUME NEW e \in DOMAIN FsGraph(tree).edges PROVE e \in Edges
      BY <1>1, <1>2
    <2>4. QED
      BY <2>1, <2>2, <2>3
  <1>5. \A e : e \in Edges <=>
              \/ \E p \in Entries(tree) : tree[p].to # None /\ e = <<p, tree[p].to>>
              \/ \E g \in Configured : \E p \in Path : \E l \in Authored(g, p) :
                   Written(g, p, l) /\ e = <<p, l.to>>
    BY <1>3, <1>4, TextEdges
  <1>6. \A p \in Entries(tree) : p \in Target /\ (tree[p].to # None => tree[p].to \in Target)
    BY EntriesTell, EntryTells, ImpactAssumption
  <1>7. \A g \in Configured : \A p, l : Written(g, p, l) => l.to \in Target
    BY TextEdges
  <1>8. Path \subseteq Target
    BY ImpactAssumption
  <1>9. \A e \in Edges : \E p, t \in Target : e = <<p, t>>
    BY <1>5, <1>6, <1>7, <1>8
  <1>10. QED
    BY <1>5, <1>9

LinesWritten(p, t) ==
  UNION {{l.line : l \in {k \in Authored(g, p) : k.to = t}} :
           g \in {h \in Configured : p \in ReadBy(h, tree)}}

\* What a reviewer is sent to: the lines of an edge are those of the links.
LEMMA WrittenLines ==
  ASSUME tree \in Tree, GraphIsComposed, pc # "build", NEW p, NEW t
  PROVE  /\ <<p, t>> \in Edges => Lines(graph.edges[<<p, t>>]) = LinesWritten(p, t)
         /\ <<p, t>> \notin Edges => LinesWritten(p, t) = {}
  <1> DEFINE lines == LinesWritten(p, t)
             e == <<p, t>>
  <1>1. \A x : x \in lines <=>
          \E g \in Configured : \E l \in Authored(g, p) : Written(g, p, l) /\ l.to = t /\ x = l.line
    BY DEF Written, LinesWritten
  <1> HIDE DEF lines
  <1>2. ASSUME e \in Edges PROVE Lines(graph.edges[e]) = lines
    <2>1. e[1] = p /\ \A l : e = <<p, l.to>> <=> l.to = t
      OBVIOUS
    <2> HIDE DEF e
    <2>2. \A o : o \in Occurrences(graph.edges[e]) <=>
           \E g \in Configured : \E l \in Authored(g, p) :
             Written(g, p, l) /\ l.to = t /\ o = Occurrence(l)
      BY <1>2, <2>1, ComposedOccurrences
    <2>3. \A l : Occurrence(l).line = l.line
      BY DEF Occurrence
    <2>4. \A x : x \in Lines(graph.edges[e]) <=>
                 \E o \in Occurrences(graph.edges[e]) : x = o.line
      BY DEF Lines
    <2>5. \A x : x \in Lines(graph.edges[e]) <=> x \in lines
      BY <1>1, <2>2, <2>3, <2>4
    <2>6. QED
      BY <2>5
  <1>3. ASSUME e \notin Edges PROVE lines = {}
    <2>1. \A g \in Configured : \A l \in Authored(g, p) :
            Written(g, p, l) /\ l.to = t => p \in Path
      BY EntriesTell DEF Written, ReadBy
    <2>2. \A x : x \notin lines
      BY <1>1, <1>3, <2>1, ComposedEdges
    <2>3. QED
      BY <2>2
  <1>4. QED
    BY <1>2, <1>3 DEF lines

-----------------------------------------------------------------------------
(* The traversal of an invocation                                          *)

\* What an invocation was given.
AsGiven ==
  /\ tree \in Tree
  /\ request.seeds \in Seq(Path) /\ request.seeds # <<>>
  /\ request.bound = None \/ request.bound \in Nat \ {0}

\* Nothing changes what an invocation was given.
LEMMA AsGivenAlways == ReadingSpec => []AsGiven
  <1>1. ReadingInit => AsGiven
    BY ImpactAssumption DEF ReadingInit, Init, AsGiven
  <1>2. AsGiven /\ [ReadingNext]_allVars => AsGiven'
    <2> SUFFICES ASSUME AsGiven, [ReadingNext]_allVars PROVE AsGiven'
      OBVIOUS
    <2>1. UNCHANGED <<tree, request>>
      BY DEF ReadingNext, Impacting, Next, BuildGraph, Expand, SkipAtBound, Answer, BuildToSelect,
             Resolve, Miss, Project, allVars, vars
    <2>2. QED
      BY <2>1 DEF AsGiven
  <1>3. QED
    BY <1>1, <1>2, PTL DEF ReadingSpec

\* The edges looked at from a set of nodes.
Looked(S) == {e \in Edges : \/ request.direction # "outbound" /\ e[2] \in S
                            \/ request.direction # "inbound" /\ e[1] \in S}

InHand == [visited |-> visited, queue |-> queue, reached |-> reached]

(* As long as the traversal lasts, and when it is over. *)
TraversalInvariant ==
  /\ pc \in {"build", "walk", "done", "not_found", "select", "failed", "printed"}
  /\ pc = "build" => /\ visited = {} /\ queue = <<>> /\ reached = <<>>
                     /\ read = {} /\ expanded = {}
  /\ pc \in {"walk", "done"} =>
       /\ \A ball : IsBall(TheCase, ball) => Walking(TheCase, ball, InHand, expanded, {})
       /\ read = Looked(expanded)
       /\ ToSet(request.seeds) \subseteq Nodes
  /\ pc = "done" =>
       /\ queue = <<>>
       /\ answer.impacted = Impacted
       /\ answer.diagnostics = Diagnostics(Impacted, lock)

\* A traversal is its three fields.
LEMMA WalkingByFields ==
  ASSUME NEW c, NEW ball, NEW w, NEW v, NEW ex,
         v.visited = w.visited, v.queue = w.queue, v.reached = w.reached,
         Walking(c, ball, w, ex, {})
  PROVE  Walking(c, ball, v, ex, {})
  <1>1. \A n, d : Met(c, v, n, d) <=> Met(c, w, n, d)
    BY DEF Met
  <1>2. \A n, d : Queued(v, n, d) <=> Queued(w, n, d)
    BY DEF Queued
  <1>3. WellFormed(c, v)
    BY DEF Walking, WellFormed
  <1>4. OnceEach(c, v)
    BY <1>1 DEF Walking, OnceEach
  <1>5. InLevels(v)
    BY DEF Walking, InLevels
  <1>6. QueuedAreMet(c, v)
    BY <1>1 DEF Walking, QueuedAreMet
  <1>7. AtDistance(c, ball, v)
    BY <1>1 DEF Walking, AtDistance
  <1>8. AllAccounted(c, v, ex)
    BY <1>1, <1>2 DEF Walking, AllAccounted
  <1>9. ExpandedAreDone(c, v, ex, {})
    BY <1>1 DEF Walking, ExpandedAreDone
  <1>10. ThroughNeighbors(c, ball, v)
    BY DEF Walking, ThroughNeighbors
  <1>11. QED
    BY <1>3, <1>4, <1>5, <1>6, <1>7, <1>8, <1>9, <1>10 DEF Walking

\* The first queue is the operands, at depth 0.
LEMMA StartsTell ==
  ASSUME NEW S, NEW s \in Seq(S)
  PROVE  /\ IsSequence(Starts(s))
         /\ \A i \in 1 .. Len(Starts(s)) : /\ Starts(s)[i].depth = 0
                                           /\ Starts(s)[i].node \in ToSet(s)
         /\ \A x \in ToSet(s) : \E i \in 1 .. Len(Starts(s)) : Starts(s)[i].node = x
  <1> DEFINE n == Len(s)
             q == [i \in 1 .. n |-> [node |-> s[i], depth |-> 0]]
  <1>1. n \in Nat /\ DOMAIN s = 1 .. n /\ \A x : x \in ToSet(s) <=> \E i \in 1 .. n : s[i] = x
    BY InSequence
  <1>2. Starts(s) = q
    BY <1>1 DEF Starts
  <1> HIDE DEF n
  <1>3. \A i \in 1 .. n : q[i].node = s[i] /\ q[i].depth = 0
    OBVIOUS
  <1>4. q \in Seq({q[i] : i \in 1 .. n}) /\ Len(q) = n
    <2>1. q = [i \in 1 .. n |-> q[i]]
      OBVIOUS
    <2> HIDE DEF q
    <2>2. QED
      BY <1>1, <2>1, FunctionIsSequence
  <1> HIDE DEF q
  <1>5. IsSequence(q)
    BY <1>4 DEF IsSequence
  <1>6. QED
    BY <1>1, <1>2, <1>3, <1>4, <1>5

\* Membership in a sequence of any elements.
LEMMA InSequenceAtAll ==
  ASSUME NEW s, IsSequence(s)
  PROVE  \A x : x \in ToSet(s) <=> \E i \in 1 .. Len(s) : s[i] = x
  <1>1. PICK S : s \in Seq(S)
    BY DEF IsSequence
  <1>2. QED
    BY <1>1, InSequence

\* The edges looked at when one node more is expanded.
LEMMA LookedGrows ==
  ASSUME \A e \in Edges : \E p, t \in Target : e = <<p, t>>, NEW S, NEW n
  PROVE  Looked(S \cup {n}) = Looked(S) \cup {<<x.node, n>> : x \in ToSet(Inward(n))}
                                        \cup {<<n, x.node>> : x \in ToSet(Outward(n))}
  <1> DEFINE ins == {<<x.node, n>> : x \in ToSet(Inward(n))}
             outs == {<<n, x.node>> : x \in ToSet(Outward(n))}
  <1>1. \A e : e \in ins <=> \E i \in 1 .. Len(Inward(n)) : e = <<Inward(n)[i].node, n>>
    BY InwardTells, InSequenceAtAll
  <1>2. \A e : e \in outs <=> \E i \in 1 .. Len(Outward(n)) : e = <<n, Outward(n)[i].node>>
    BY OutwardTells, InSequenceAtAll
  <1> HIDE DEF ins, outs
  <1>3. \A e \in ins : e \in Edges /\ request.direction # "outbound" /\ e[2] = n
    BY <1>1, InwardTells
  <1>4. \A e \in outs : e \in Edges /\ request.direction # "inbound" /\ e[1] = n
    <2> TAKE e \in outs
    <2>1. PICK i \in 1 .. Len(Outward(n)) : e = <<n, Outward(n)[i].node>>
      BY <1>2
    <2>2. request.direction # "inbound" /\ <<n, Outward(n)[i].node>> \in Edges
      BY OutwardTells
    <2>3. QED
      BY <2>1, <2>2
  <1>5. ASSUME NEW e \in Edges, request.direction # "outbound", e[2] = n PROVE e \in ins
    <2>1. PICK p \in Target, t \in Target : e = <<p, t>>
      OBVIOUS
    <2>2. e = <<p, n>>
      BY <1>5, <2>1
    <2>3. \E i \in 1 .. Len(Inward(n)) : Inward(n)[i].node = p
      BY <1>5, <2>2, InwardTells
    <2>4. QED
      BY <1>1, <2>2, <2>3
  <1>6. ASSUME NEW e \in Edges, request.direction # "inbound", e[1] = n PROVE e \in outs
    <2>1. PICK p \in Target, t \in Target : e = <<p, t>>
      OBVIOUS
    <2>2. e = <<n, t>>
      BY <1>6, <2>1
    <2>3. \E i \in 1 .. Len(Outward(n)) : Outward(n)[i].node = t
      BY <1>6, <2>2, OutwardTells
    <2>4. QED
      BY <1>2, <2>2, <2>3
  <1>7. Looked(S \cup {n}) = Looked(S) \cup ins \cup outs
    BY <1>3, <1>4, <1>5, <1>6 DEF Looked
  <1>8. QED
    BY <1>7 DEF ins, outs

-----------------------------------------------------------------------------
(* One step after the other *)

\* Building the graph establishes the invariant of the traversal,
LEMMA TraversalStarts ==
  ASSUME TraversalInvariant, AsGiven, BuildGraph
  PROVE  TraversalInvariant'
  <1>1. /\ tree' = tree /\ request' = request /\ reached' = reached /\ read' = read
        /\ expanded' = expanded /\ pc = "build"
        /\ graph' = Compose(BuildSet(tree))
    BY DEF BuildGraph
  <1>2. reached = <<>> /\ read = {} /\ expanded = {} /\ visited = {} /\ queue = <<>>
    BY <1>1 DEF TraversalInvariant
  <1>3. CASE pc' = "not_found"
    BY <1>3 DEF TraversalInvariant
  <1>4. CASE pc' = "walk"
    <2> DEFINE s == FirstOfEach(request.seeds)
               c == TheCase'
               w == InHand'
    <2>1. s \in Seq(Path) /\ ToSet(s) = ToSet(request.seeds)
      BY FirstOfEachTells DEF AsGiven
    <2>2. visited' = ToSet(s) /\ queue' = Starts(s) /\ ToSet(s) \subseteq Nodes'
      BY <1>1, <1>4 DEF BuildGraph, Nodes
    <2>3. c.seeds = ToSet(request.seeds) /\ c.bound = request.bound
      BY <1>1 DEF TheCase
    <2>4. w.visited = ToSet(s) /\ w.queue = Starts(s) /\ w.reached = <<>>
      BY <1>1, <1>2, <2>2 DEF InHand
    <2>5. c.bound = None \/ c.bound \in Nat
      BY <2>3 DEF AsGiven
    <2>6. ToSet(request.seeds)' = ToSet(request.seeds)
      BY <1>1
    <2> HIDE DEF s, c, w
    <2>7. /\ IsSequence(w.queue)
          /\ \A i \in 1 .. Len(w.queue) : w.queue[i].depth = 0 /\ w.queue[i].node \in c.seeds
          /\ \A n \in c.seeds : \E i \in 1 .. Len(w.queue) : w.queue[i].node = n
      BY <2>1, <2>3, <2>4, StartsTell
    <2>8. w.reached = <<>> /\ w.visited = c.seeds
      BY <2>1, <2>3, <2>4
    <2>9. \A ball : IsBall(c, ball) => Walking(c, ball, w, {}, {})
      BY <2>5, <2>7, <2>8, StartIsWalking
    <2>10. \A ball : IsBall(TheCase', ball) => Walking(TheCase', ball, InHand', expanded', {})
      BY <1>1, <1>2, <2>9 DEF c, w
    <2>11. read' = Looked(expanded)'
      BY <1>1, <1>2 DEF Looked
    <2>12. ToSet(request.seeds)' \subseteq Nodes'
      BY <2>1, <2>2, <2>6
    <2>13. QED
      BY <1>4, <2>10, <2>11, <2>12 DEF TraversalInvariant
  <1>5. QED
    BY <1>3, <1>4 DEF BuildGraph

\* expanding a node preserves it,
LEMMA TraversalExpands ==
  ASSUME TraversalInvariant, AsGiven, GraphIsComposed, Expand
  PROVE  TraversalInvariant'
  <1> DEFINE n == Head(queue).node
             h == Head(queue).depth
             met == Meet(n, h)
             ns == Neighbors(n)
             m == Len(ns)
             w == InHand
             c == TheCase
  <1>1. /\ graph' = graph /\ request' = request /\ pc' = pc /\ pc = "walk"
        /\ visited' = met.visited /\ queue' = met.queue /\ reached' = met.reached
        /\ expanded' = expanded \cup {n}
        /\ read' = read \cup {<<x.node, n>> : x \in ToSet(Inward(n))}
                        \cup {<<n, x.node>> : x \in ToSet(Outward(n))}
        /\ queue # <<>> /\ ~AtBound(h)
    BY DEF Expand
  <1>2. /\ \A ball : IsBall(c, ball) => Walking(c, ball, w, expanded, {})
        /\ read = Looked(expanded)
        /\ ToSet(request.seeds) \subseteq Nodes
    BY <1>1 DEF TraversalInvariant
  <1>3. w.queue = queue /\ w.visited = visited /\ w.reached = reached
    BY DEF InHand
  <1>4. Opens(c, w, n, h)
    <2>1. ~Stops(c, h)
      BY <1>1, CaseFields DEF Stops, AtBound
    <2>2. QED
      BY <1>1, <1>3, <2>1 DEF Opens
  <1>5. Underway = Taken(w)
    BY <1>3 DEF Underway, Taken
  <1>6. /\ m \in Nat /\ DOMAIN ns = 1 .. m
        /\ \A i \in 1 .. m : ns[i].node \in NextTo(c, n)
        /\ \A x \in NextTo(c, n) : \E i \in 1 .. m : ns[i].node = x
        /\ \A i \in 1 .. m :
             \/ ns[i].lines = LinesTold(c, ns[i].node, n)
             \/ \E j \in 1 .. i - 1 : ns[j].node = ns[i].node
    BY NeighborsTell
  <1>7. PICK f : Along("meet", n, h, Underway, ns, m, f) /\ met = f[m]
    <2>1. m \in Nat /\ DOMAIN Neighbors(n) = 1 .. m
      BY <1>6
    <2> HIDE DEF n, h, m
    <2>2. \E f : Along("meet", n, h, Underway, Neighbors(n), m, f) /\ Meet(n, h) = f[m]
      BY <2>1, MeetGoesAlong
    <2>3. QED
      BY <2>2
  <1>8. Looked(expanded \cup {n}) = read'
    <2>1. \A e \in Edges : \E p, t \in Target : e = <<p, t>>
      BY <1>1, ComposedEdges DEF AsGiven
    <2>2. QED
      BY <1>1, <1>2, <2>1, LookedGrows
  <1>9. TheCase' = c /\ Looked(expanded)' = Looked(expanded \cup {n}) /\ Nodes' = Nodes
        /\ ToSet(request.seeds)' = ToSet(request.seeds)
    BY <1>1 DEF TheCase, Looked, Edges, Nodes
  <1>10. /\ InHand'.visited = met.visited /\ InHand'.queue = met.queue
         /\ InHand'.reached = met.reached
    BY <1>1 DEF InHand
  <1> DEFINE v == InHand'
  <1> HIDE DEF n, h, met, ns, m, w, c, v
  <1>11. ASSUME NEW ball, IsBall(c, ball) PROVE Walking(c, ball, v, expanded \cup {n}, {})
    <2>1. Walking(c, ball, w, expanded, {})
      BY <1>2, <1>11
    <2>2. Along("meet", n, h, Taken(w), ns, m, f)
      BY <1>5, <1>7
    <2>3. Walking(c, ball, f[m], expanded \cup {n}, {})
      BY <1>4, <1>6, <1>11, <2>1, <2>2, ExpandedIsWalking
    <2>4. v.visited = f[m].visited /\ v.queue = f[m].queue /\ v.reached = f[m].reached
      BY <1>7, <1>10 DEF v
    <2>5. QED
      BY <2>3, <2>4, WalkingByFields
  <1>12. \A ball : IsBall(TheCase', ball) => Walking(TheCase', ball, InHand', expanded', {})
    BY <1>1, <1>9, <1>11 DEF v
  <1>13. read' = Looked(expanded)' /\ ToSet(request.seeds)' \subseteq Nodes'
    BY <1>2, <1>8, <1>9
  <1>14. pc' = "walk"
    BY <1>1
  <1>15. QED
    BY <1>12, <1>13, <1>14 DEF TraversalInvariant

\* and skipping one at the bound,
LEMMA TraversalSkips ==
  ASSUME TraversalInvariant, SkipAtBound
  PROVE  TraversalInvariant'
  <1> DEFINE w == InHand
             c == TheCase
             v == InHand'
  <1>1. /\ graph' = graph /\ request' = request /\ pc' = pc /\ pc = "walk"
        /\ visited' = visited /\ queue' = Tail(queue) /\ reached' = reached
        /\ expanded' = expanded /\ read' = read
        /\ queue # <<>> /\ AtBound(Head(queue).depth)
    BY DEF SkipAtBound
  <1>2. /\ \A ball : IsBall(c, ball) => Walking(c, ball, w, expanded, {})
        /\ read = Looked(expanded)
        /\ ToSet(request.seeds) \subseteq Nodes
    BY <1>1 DEF TraversalInvariant
  <1>3. w.queue = queue /\ w.visited = visited /\ w.reached = reached
    BY DEF InHand
  <1>4. Stops(c, Head(w.queue).depth) /\ w.queue # <<>>
    BY <1>1, <1>3, CaseFields DEF Stops, AtBound
  <1>5. v.visited = w.visited /\ v.queue = Tail(w.queue) /\ v.reached = w.reached
    BY <1>1, <1>3 DEF InHand
  <1>6. TheCase' = c /\ Looked(expanded)' = Looked(expanded) /\ Nodes' = Nodes
        /\ ToSet(request.seeds)' = ToSet(request.seeds)
    BY <1>1 DEF TheCase, Looked, Edges, Nodes
  <1> HIDE DEF w, c, v
  <1>7. ASSUME NEW ball, IsBall(c, ball) PROVE Walking(c, ball, v, expanded, {})
    <2>1. Walking(c, ball, Taken(w), expanded, {})
      BY <1>2, <1>4, <1>7, SkippedIsAtBound
    <2>2. /\ v.visited = Taken(w).visited /\ v.queue = Taken(w).queue
          /\ v.reached = Taken(w).reached
      BY <1>5 DEF Taken
    <2>3. QED
      BY <2>1, <2>2, WalkingByFields
  <1>8. \A ball : IsBall(TheCase', ball) => Walking(TheCase', ball, InHand', expanded', {})
    BY <1>1, <1>6, <1>7 DEF v
  <1>9. read' = Looked(expanded)' /\ ToSet(request.seeds)' \subseteq Nodes'
    BY <1>1, <1>2, <1>6
  <1>10. pc' = "walk"
    BY <1>1
  <1>11. QED
    BY <1>8, <1>9, <1>10 DEF TraversalInvariant

\* and answering.
LEMMA TraversalAnswers ==
  ASSUME TraversalInvariant, Answer
  PROVE  TraversalInvariant'
  <1>1. /\ graph' = graph /\ request' = request /\ pc' = "done" /\ pc = "walk"
        /\ visited' = visited /\ queue' = queue /\ reached' = reached
        /\ expanded' = expanded /\ read' = read /\ found' = found
        /\ queue = <<>>
    BY DEF Answer
  <1>2. /\ TheCase' = TheCase /\ Looked(expanded)' = Looked(expanded) /\ Nodes' = Nodes
        /\ ToSet(request.seeds)' = ToSet(request.seeds) /\ InHand' = InHand
    BY <1>1 DEF TheCase, Looked, Edges, Nodes, InHand
  <1>3. /\ \A ball : IsBall(TheCase, ball) => Walking(TheCase, ball, InHand, expanded, {})
        /\ read = Looked(expanded)
        /\ ToSet(request.seeds) \subseteq Nodes
    BY <1>1 DEF TraversalInvariant
  <1>4. PICK base \in Baselines :
          /\ lock' = base
          /\ answer' = [impacted |-> Impacted, diagnostics |-> Diagnostics(Impacted, base),
                        incomplete |-> D!ApplyPolicy(found, request.policy) # {}]
    BY DEF Answer
  <1>5. answer'.impacted = Impacted /\ answer'.diagnostics = Diagnostics(Impacted, base)
    BY <1>4
  <1>6. Impacted' = Impacted
    BY <1>1 DEF Impacted, AllDependents, Holders, Edges
  <1>7. \A i : Diagnostics(i, base)' = Diagnostics(i, base)
    BY <1>1 DEF Diagnostics, Frontier, Depths, Inspected, Removed, Edges
  <1>8. QED
    BY <1>1, <1>2, <1>3, <1>4, <1>5, <1>6, <1>7 DEF TraversalInvariant

\* So it holds throughout.
LEMMA TraversalAlways == ReadingSpec => []TraversalInvariant
  <1>1. ReadingInit => TraversalInvariant
    BY DEF ReadingInit, Init, TraversalInvariant
  <1>2. TraversalInvariant /\ AsGiven /\ GraphIsComposed /\ [ReadingNext]_allVars => TraversalInvariant'
    <2> SUFFICES ASSUME TraversalInvariant, AsGiven, GraphIsComposed, [ReadingNext]_allVars
                 PROVE  TraversalInvariant'
      OBVIOUS
    <2>1. CASE BuildGraph
      BY <2>1, TraversalStarts
    <2>2. CASE Expand
      BY <2>2, TraversalExpands
    <2>3. CASE SkipAtBound
      BY <2>3, TraversalSkips
    <2>4. CASE Answer
      BY <2>4, TraversalAnswers
    <2>5. CASE BuildToSelect \/ Resolve \/ Miss \/ Project
      <3>1. pc' \in {"select", "failed", "printed"}
        BY <2>5 DEF BuildToSelect, Resolve, Miss, Project, vars
      <3>2. QED
        BY <3>1 DEF TraversalInvariant
    <2>6. CASE UNCHANGED allVars
      <3>1. /\ graph' = graph /\ request' = request /\ pc' = pc
            /\ visited' = visited /\ queue' = queue /\ reached' = reached
            /\ expanded' = expanded /\ read' = read /\ found' = found
            /\ lock' = lock /\ answer' = answer
        BY <2>6 DEF allVars, vars
      <3>2. /\ TheCase' = TheCase /\ Looked(expanded)' = Looked(expanded) /\ Nodes' = Nodes
            /\ ToSet(request.seeds)' = ToSet(request.seeds) /\ InHand' = InHand
        BY <3>1 DEF TheCase, Looked, Edges, Nodes, InHand
      <3>3. Impacted' = Impacted
        BY <3>1 DEF Impacted, AllDependents, Holders, Edges
      <3>4. \A i, b : Diagnostics(i, b)' = Diagnostics(i, b)
        BY <3>1 DEF Diagnostics, Frontier, Depths, Inspected, Removed, Edges
      <3>5. Diagnostics(Impacted, lock)' = Diagnostics(Impacted, lock)
        BY <3>1, <3>3, <3>4
      <3>6. QED
        BY <3>1, <3>2, <3>3, <3>5 DEF TraversalInvariant
    <2>7. QED
      BY <2>1, <2>2, <2>3, <2>4, <2>5, <2>6 DEF ReadingNext, Impacting, Next
  <1>3. QED
    BY <1>1, <1>2, AsGivenAlways, GraphIsComposedAlways, PTL DEF ReadingSpec

-----------------------------------------------------------------------------
(* Near and AllDependents count hops *)

PairsOfTargets == \A e \in Edges : \E p, t \in Target : e = <<p, t>>

\* One hop of the case is one step of Near.
LEMMA HopIsAStep ==
  ASSUME PairsOfTargets, NEW S
  PROVE  Hop(TheCase, S) =
           S \cup (IF request.direction # "outbound" THEN Holders(S) ELSE {})
             \cup (IF request.direction # "inbound"
                   THEN {e[2] : e \in {d \in Edges : d[1] \in S}} ELSE {})
  <1> DEFINE into == IF request.direction # "outbound" THEN Holders(S) ELSE {}
             out == IF request.direction # "inbound"
                    THEN {e[2] : e \in {d \in Edges : d[1] \in S}} ELSE {}
  <1>0. \A e \in Edges : e[1] \in Target /\ e[2] \in Target /\ e = <<e[1], e[2]>>
    <2> TAKE e \in Edges
    <2>1. PICK p \in Target, t \in Target : e = <<p, t>>
      BY DEF PairsOfTargets
    <2>2. QED
      BY <2>1
  <1>1. \A x : x \in into <=>
          request.direction # "outbound" /\ \E e \in Edges : e[2] \in S /\ x = e[1]
    BY DEF Holders
  <1>2. \A x : x \in out <=>
          request.direction # "inbound" /\ \E e \in Edges : e[1] \in S /\ x = e[2]
    OBVIOUS
  <1>3. \A x : (\E e \in Edges : e[2] \in S /\ x = e[1]) <=>
               (x \in Target /\ \E n \in S : <<x, n>> \in Edges)
    <2> TAKE x
    <2>1. (\E e \in Edges : e[2] \in S /\ x = e[1]) => \E n \in S : <<x, n>> \in Edges /\ x \in Target
      BY <1>0
    <2>2. \A n \in S : <<x, n>> \in Edges => \E e \in Edges : e[2] \in S /\ x = e[1]
      <3> TAKE n \in S
      <3>1. <<x, n>>[1] = x /\ <<x, n>>[2] = n
        OBVIOUS
      <3>2. QED
        BY <3>1
    <2>3. QED
      BY <2>1, <2>2
  <1>4. \A x : (\E e \in Edges : e[1] \in S /\ x = e[2]) <=>
               (x \in Target /\ \E n \in S : <<n, x>> \in Edges)
    <2> TAKE x
    <2>1. (\E e \in Edges : e[1] \in S /\ x = e[2]) => \E n \in S : <<n, x>> \in Edges /\ x \in Target
      BY <1>0
    <2>2. \A n \in S : <<n, x>> \in Edges => \E e \in Edges : e[1] \in S /\ x = e[2]
      <3> TAKE n \in S
      <3>1. <<n, x>>[1] = n /\ <<n, x>>[2] = x
        OBVIOUS
      <3>2. QED
        BY <3>1
    <2>3. QED
      BY <2>1, <2>2
  <1>a. \A n, x : x \in NextTo(TheCase, n) <=>
          /\ x \in Target
          /\ \/ request.direction # "outbound" /\ <<x, n>> \in Edges
             \/ request.direction # "inbound" /\ <<n, x>> \in Edges
    BY CaseFields DEF NextTo
  <1>b. \A x : x \in Hop(TheCase, S) <=> x \in S \/ \E n \in S : x \in NextTo(TheCase, n)
    BY DEF Hop
  <1>5. \A x : x \in Hop(TheCase, S) <=>
                 \/ x \in S
                 \/ request.direction # "outbound" /\ x \in Target /\ \E n \in S : <<x, n>> \in Edges
                 \/ request.direction # "inbound" /\ x \in Target /\ \E n \in S : <<n, x>> \in Edges
    BY <1>a, <1>b
  <1> HIDE DEF into, out
  <1>6. \A x : x \in Hop(TheCase, S) <=> x \in S \cup into \cup out
    BY <1>1, <1>2, <1>3, <1>4, <1>5
  <1>7. Hop(TheCase, S) = S \cup into \cup out
    BY <1>6
  <1>8. QED
    BY <1>7 DEF into, out

\* Near counts hops.
LEMMA NearByHops ==
  ASSUME PairsOfTargets, NEW k \in Nat
  PROVE  \E g : Hops(TheCase, k, g) /\ Near(k) = g[k]
  <1> DEFINE step(S) == S \cup (IF request.direction # "outbound" THEN Holders(S) ELSE {})
                          \cup (IF request.direction # "inbound"
                                THEN {e[2] : e \in {d \in Edges : d[1] \in S}} ELSE {})
             t(f, j) == IF j = 0 THEN ToSet(request.seeds) ELSE step(f[j - 1])
             g == CHOOSE f : f = [j \in 0 .. k |-> t(f, j)]
             F(f) == Hops(TheCase, k, f)
  <1>1. \A S : step(S) = Hop(TheCase, S)
    BY HopIsAStep
  <1>2. Near(k) = g[k]
    BY DEF Near
  <1> HIDE DEF step
  <1>3. \A f, j : t(f, j) = HopTerm(TheCase, f, j)
    BY <1>1, CaseFields DEF HopTerm
  <1>4. \A f : F(f) <=> f = [j \in 0 .. k |-> t(f, j)]
    <2> TAKE f
    <2> HIDE DEF t
    <2>1. [j \in 0 .. k |-> HopTerm(TheCase, f, j)] = [j \in 0 .. k |-> t(f, j)]
      BY <1>3
    <2>2. QED
      BY <2>1 DEF Hops
  <1>5. F(g)
    <2>1. \E f : F(f)
      BY HopsExist
    <2>2. \E f : f = [j \in 0 .. k |-> t(f, j)]
      <3> HIDE DEF F, t
      <3>1. QED
        BY <1>4, <2>1
    <2>3. g = [j \in 0 .. k |-> t(g, j)]
      <3> HIDE DEF t
      <3>1. QED
        BY <2>2
    <2> HIDE DEF F, g, t
    <2>4. QED
      BY <1>4, <2>3
  <1> HIDE DEF g
  <1>6. QED
    BY <1>2, <1>5

\* The sets Near(k) are the balls around the seeds.
LEMMA NearIsBall ==
  ASSUME PairsOfTargets
  PROVE  IsBall(TheCase, [k \in Nat |-> Near(k)])
  <1> DEFINE h == [k \in Nat |-> CHOOSE f : Hops(TheCase, k, f)]
  <1>1. \A k \in Nat : Hops(TheCase, k, h[k])
    BY HopsExist
  <1> HIDE DEF h
  <1>2. \A k \in Nat : Near(k) = h[k][k]
    <2> TAKE k \in Nat
    <2>1. PICK g : Hops(TheCase, k, g) /\ Near(k) = g[k]
      BY NearByHops
    <2> DEFINE f == h[k]
    <2>2. Hops(TheCase, k, f) /\ k <= k
      BY <1>1
    <2> HIDE DEF f
    <2>3. \A j \in 0 .. k : f[j] = g[j]
      BY <2>1, <2>2, HopsAgree
    <2>4. k \in 0 .. k
      OBVIOUS
    <2>5. QED
      BY <2>1, <2>3, <2>4 DEF f
  <1>3. IsBall(TheCase, [k \in Nat |-> h[k][k]])
    BY <1>1, BallFromHops
  <1>4. [k \in Nat |-> h[k][k]] = [k \in Nat |-> Near(k)]
    BY <1>2
  <1>5. QED
    BY <1>3, <1>4

\* The radius of a node is what an unbounded impact of it alone reaches.
LEMMA DependentsAreNear ==
  ASSUME PairsOfTargets, NEW n, request.direction = "inbound", ToSet(request.seeds) = {n}
  PROVE  AllDependents(n) = Near(Len(KeyOrder)) \ {n}
  <1> DEFINE k == Len(KeyOrder)
             t(f, j) == IF j = 0 THEN {n} ELSE f[j - 1] \cup Holders(f[j - 1])
             g == CHOOSE f : f = [j \in 0 .. k |-> t(f, j)]
             F(f) == Hops(TheCase, k, f)
  <1>0. k \in Nat
    BY TargetsAreFinite
  <1>1. \A S : S \cup Holders(S) = Hop(TheCase, S)
    BY HopIsAStep
  <1>2. AllDependents(n) = g[k] \ {n}
    BY DEF AllDependents
  <1>3. \A f, j : t(f, j) = HopTerm(TheCase, f, j)
    BY <1>1, CaseFields DEF HopTerm
  <1> HIDE DEF k
  <1>4. \A f : F(f) <=> f = [j \in 0 .. k |-> t(f, j)]
    <2> TAKE f
    <2> HIDE DEF t
    <2>1. [j \in 0 .. k |-> HopTerm(TheCase, f, j)] = [j \in 0 .. k |-> t(f, j)]
      BY <1>3
    <2>2. QED
      BY <2>1 DEF Hops
  <1>5. F(g)
    <2>1. \E f : F(f)
      BY <1>0, HopsExist
    <2>2. \E f : f = [j \in 0 .. k |-> t(f, j)]
      <3> HIDE DEF F, t
      <3>1. QED
        BY <1>4, <2>1
    <2>3. g = [j \in 0 .. k |-> t(g, j)]
      <3> HIDE DEF t
      <3>1. QED
        BY <2>2
    <2> HIDE DEF F, g, t
    <2>4. QED
      BY <1>4, <2>3
  <1> HIDE DEF g
  <1>6. PICK f : Hops(TheCase, k, f) /\ Near(k) = f[k]
    BY <1>0, NearByHops
  <1>7. \A j \in 0 .. k : g[j] = f[j]
    BY <1>0, <1>5, <1>6, HopsAgree
  <1>8. k \in 0 .. k
    BY <1>0
  <1>9. QED
    BY <1>2, <1>6, <1>7, <1>8 DEF k

-----------------------------------------------------------------------------
(* What the answer says *)

Shown(x) ==
  [node |-> x.node, via |-> x.via, depth |-> x.depth, lines |-> x.lines,
   radius |-> Cardinality(AllDependents(x.node))]

\* The fields of an entry of the answer.
LEMMA ShownFields ==
  ASSUME NEW x
  PROVE  /\ Shown(x).node = x.node /\ Shown(x).via = x.via
         /\ Shown(x).depth = x.depth /\ Shown(x).lines = x.lines
  BY DEF Shown

\* The traversal is over.
Over == AsGiven /\ GraphIsComposed /\ TraversalInvariant /\ pc = "done"

\* The hops an answer is measured in.
Rings == [k \in Nat |-> Near(k)]

\* When the traversal is over, what it has reached is the ball of the bound.
LEMMA OverTells ==
  ASSUME Over
  PROVE  /\ PairsOfTargets
         /\ IsBall(TheCase, Rings)
         /\ Walking(TheCase, Rings, InHand, expanded, {})
         /\ visited = Near(Reach)
         /\ \A n : n \in expanded <=> \E d : Met(TheCase, InHand, n, d) /\ ~Stops(TheCase, d)
         /\ \A r : r \in Impacted <=> \E i \in 1 .. Len(reached) : r = Shown(reached[i])
  <1>1. PairsOfTargets
    BY ComposedEdges DEF Over, AsGiven, PairsOfTargets
  <1>2. IsBall(TheCase, Rings)
    BY <1>1, NearIsBall DEF Rings
  <1>3. Walking(TheCase, Rings, InHand, expanded, {})
    BY <1>2 DEF Over, TraversalInvariant
  <1>4. InHand.queue = <<>> /\ InHand.visited = visited /\ InHand.reached = reached
    BY DEF Over, TraversalInvariant, InHand
  <1>5. /\ visited = Rings[Within(TheCase)]
        /\ \A n : n \in expanded <=> \E d : Met(TheCase, InHand, n, d) /\ ~Stops(TheCase, d)
    BY <1>2, <1>3, <1>4, EndTells
  <1>6. Within(TheCase) = Reach /\ Reach \in Nat
    BY CaseFields, TargetsAreFinite DEF Within, Reach, Over, AsGiven
  <1>7. visited = Near(Reach)
    BY <1>5, <1>6 DEF Rings
  <1>8. \A x : x \in ToSet(reached) <=> \E i \in 1 .. Len(reached) : reached[i] = x
    BY <1>3, <1>4, InSequenceAtAll DEF Walking, WellFormed
  <1>9. Impacted = {Shown(x) : x \in ToSet(reached)}
    BY DEF Impacted, Shown
  <1>10. \A r : r \in Impacted <=> \E i \in 1 .. Len(reached) : r = Shown(reached[i])
    BY <1>8, <1>9
  <1>11. QED
    BY <1>1, <1>2, <1>3, <1>5, <1>7, <1>10

\* Each reached node, once.
LEMMA ReachedTell ==
  ASSUME Over
  PROVE  /\ \A i \in 1 .. Len(reached) :
              /\ reached[i].node \in Target
              /\ reached[i].depth \in Nat \ {0}
              /\ reached[i].node \in Near(reached[i].depth) \ Near(reached[i].depth - 1)
              /\ reached[i].via \in Near(reached[i].depth - 1)
              /\ reached[i].node \in NextTo(TheCase, reached[i].via)
              /\ reached[i].lines = LinesTold(TheCase, reached[i].node, reached[i].via)
         /\ \A i, j \in 1 .. Len(reached) : reached[i].node = reached[j].node => i = j
         /\ \A n : n \in Near(Reach) \ ToSet(request.seeds) <=>
                     \E i \in 1 .. Len(reached) : reached[i].node = n
         /\ \A n, d : Met(TheCase, InHand, n, d) <=>
              \/ n \in ToSet(request.seeds) /\ d = 0
              \/ \E i \in 1 .. Len(reached) : reached[i].node = n /\ reached[i].depth = d
  <1> DEFINE c == TheCase
             w == InHand
             seeds == ToSet(request.seeds)
  <1>1. Walking(c, Rings, w, expanded, {}) /\ visited = Near(Reach)
    BY OverTells
  <1>2. w.reached = reached /\ w.visited = visited /\ c.seeds = seeds
    BY CaseFields DEF InHand
  <1> HIDE DEF c, w, seeds
  <1>3. \A n, d : Met(c, w, n, d) <=>
              \/ n \in seeds /\ d = 0
              \/ \E i \in 1 .. Len(reached) : reached[i].node = n /\ reached[i].depth = d
    BY <1>2 DEF Met
  <1>4. /\ \A n : n \in visited <=> \E d : Met(c, w, n, d)
        /\ \A i \in 1 .. Len(reached) : reached[i].node \notin seeds
        /\ \A i, j \in 1 .. Len(reached) : reached[i].node = reached[j].node => i = j
    BY <1>1, <1>2 DEF Walking, OnceEach
  <1>5. \A n : n \in Near(Reach) \ seeds <=> \E i \in 1 .. Len(reached) : reached[i].node = n
    <2>1. \A n : n \in visited \ seeds <=> \E i \in 1 .. Len(reached) : reached[i].node = n
      <3> TAKE n
      <3>1. n \in visited <=>
              n \in seeds \/ \E i \in 1 .. Len(reached) : reached[i].node = n
        <4>1. n \in visited <=> \E d : Met(c, w, n, d)
          BY <1>4
        <4>2. (\E d : Met(c, w, n, d)) <=>
                n \in seeds \/ \E i \in 1 .. Len(reached) : reached[i].node = n
          BY <1>3
        <4>3. QED
          BY <4>1, <4>2
      <3>2. (\E i \in 1 .. Len(reached) : reached[i].node = n) => n \notin seeds
        BY <1>4
      <3>3. QED
        BY <3>1, <3>2
    <2>2. QED
      BY <1>1, <2>1
  <1>6. ASSUME NEW i \in 1 .. Len(reached)
        PROVE  /\ reached[i].node \in Target
               /\ reached[i].depth \in Nat \ {0}
               /\ reached[i].node \in Near(reached[i].depth) \ Near(reached[i].depth - 1)
               /\ reached[i].via \in Near(reached[i].depth - 1)
               /\ reached[i].node \in NextTo(c, reached[i].via)
               /\ reached[i].lines = LinesTold(c, reached[i].node, reached[i].via)
    <2> DEFINE d == reached[i].depth
               n == reached[i].node
    <2>1. d \in 1 .. i /\ n \in Target
      BY <1>1, <1>2 DEF Walking, WellFormed
    <2>2. d \in Nat \ {0} /\ d - 1 \in Nat /\ d > 0
      BY <2>1
    <2>3. Met(c, w, n, d)
      BY <1>3
    <2>4. /\ reached[i].via \in Rings[d - 1]
          /\ n \in NextTo(c, reached[i].via)
          /\ reached[i].lines = LinesTold(c, n, reached[i].via)
      BY <1>1, <1>2 DEF Walking, ThroughNeighbors
    <2> HIDE DEF d, n
    <2>5. n \in Rings[d] /\ n \notin Rings[d - 1]
      BY <1>1, <2>2, <2>3 DEF Walking, AtDistance
    <2>6. Rings[d] = Near(d) /\ Rings[d - 1] = Near(d - 1)
      BY <2>2 DEF Rings
    <2>7. QED
      BY <2>1, <2>2, <2>4, <2>5, <2>6 DEF d, n
  <1>7. QED
    BY <1>3, <1>4, <1>5, <1>6 DEF c, w, seeds

\* A set of records is as large as the set of its nodes.
LEMMA AsManyAsNodes ==
  ASSUME NEW R, NEW N, IsFiniteSet(N),
         \A r \in R : r.node \in N, \A n \in N : \E r \in R : r.node = n,
         \A r, q \in R : r.node = q.node => r = q
  PROVE  Cardinality(R) = Cardinality(N)
  <1> DEFINE f == [r \in R |-> r.node]
  <1>1. f \in [R -> N] /\ \A r \in R : f[r] = r.node
    OBVIOUS
  <1> HIDE DEF f
  <1>2. f \in Injection(R, N)
    BY <1>1 DEF Injection, IsInjective
  <1>3. f \in Surjection(R, N)
    BY <1>1 DEF Surjection
  <1>4. QED
    BY <1>2, <1>3, FS_Injection

(* The answer of impact (impact.rs). *)
THEOREM ReachedAtDistance == ReadingSpec => []ReachedAtShortestDistance
  <1>1. AsGiven /\ GraphIsComposed /\ TraversalInvariant => ReachedAtShortestDistance
    <2> SUFFICES ASSUME Over PROVE ReachedAtShortestDistance
      BY DEF Over, ReachedAtShortestDistance
    <2> DEFINE seeds == ToSet(request.seeds)
               A == answer.impacted
    <2>1. A = Impacted
      BY DEF Over, TraversalInvariant
    <2> HIDE DEF A
    <2>2. \A r : r \in A <=> \E i \in 1 .. Len(reached) : r = Shown(reached[i])
      BY <2>1, OverTells
    <2>3. \A n : n \in Near(Reach) \ seeds <=> \E i \in 1 .. Len(reached) : reached[i].node = n
      BY ReachedTell
    <2>4. \A n : n \in Near(Reach) \ seeds <=> \E r \in A : r.node = n
      BY <2>2, <2>3, ShownFields
    <2>5. {r.node : r \in A} = Near(Reach) \ seeds
      BY <2>4
    <2>6. \A r, q \in A : r.node = q.node => r = q
      <3> TAKE r, q \in A
      <3>1. PICK i \in 1 .. Len(reached) : r = Shown(reached[i])
        BY <2>2
      <3>2. PICK j \in 1 .. Len(reached) : q = Shown(reached[j])
        BY <2>2
      <3>3. QED
        BY <3>1, <3>2, ReachedTell, ShownFields
    <2>7. ASSUME NEW r \in A
          PROVE  /\ r.node \in Near(r.depth) \ Near(r.depth - 1)
                 /\ r.via \in Near(r.depth - 1)
                 /\ \/ request.direction # "outbound" /\ <<r.node, r.via>> \in Edges
                    \/ request.direction # "inbound" /\ <<r.via, r.node>> \in Edges
      <3>1. PICK i \in 1 .. Len(reached) : r = Shown(reached[i])
        BY <2>2
      <3>2. r.node = reached[i].node /\ r.via = reached[i].via /\ r.depth = reached[i].depth
        BY <3>1, ShownFields
      <3>3. r.node \in NextTo(TheCase, r.via)
        BY <3>2, ReachedTell
      <3>4. \/ request.direction # "outbound" /\ <<r.node, r.via>> \in Edges
            \/ request.direction # "inbound" /\ <<r.via, r.node>> \in Edges
        BY <3>3, CaseFields DEF NextTo
      <3>5. QED
        BY <3>2, <3>4, ReachedTell
    <2>8. ASSUME request.direction = "inbound", request.bound = None, Len(request.seeds) = 1
          PROVE  Cardinality(A) = Cardinality(AllDependents(request.seeds[1]))
      <3> DEFINE n == request.seeds[1]
                 N == Near(Reach) \ seeds
      <3>1. seeds = {n}
        <4>1. \A x : x \in seeds <=> \E i \in 1 .. Len(request.seeds) : request.seeds[i] = x
          BY InSequence DEF Over, AsGiven
        <4>2. \A i : i \in 1 .. 1 <=> i = 1
          OBVIOUS
        <4>3. QED
          BY <2>8, <4>1, <4>2
      <3>2. Reach = Len(KeyOrder)
        BY <2>8 DEF Reach
      <3>3. AllDependents(n) = N
        BY <2>8, <3>1, <3>2, OverTells, DependentsAreNear
      <3>4. N \subseteq Target
        BY <2>3, ReachedTell
      <3>5. IsFiniteSet(N)
        BY <3>4, TargetsAreFinite, FS_Subset
      <3>6. /\ \A r \in A : r.node \in N
            /\ \A x \in N : \E r \in A : r.node = x
        BY <2>4
      <3> HIDE DEF n, N
      <3>7. Cardinality(A) = Cardinality(N)
        BY <2>6, <3>5, <3>6, AsManyAsNodes
      <3>8. QED
        BY <3>3, <3>7 DEF n
    <2>9. QED
      BY <2>5, <2>6, <2>7, <2>8 DEF ReachedAtShortestDistance, A
  <1>2. QED
    BY <1>1, AsGivenAlways, GraphIsComposedAlways, TraversalAlways, PTL

(* A reviewer is sent to the lines of the links (impact.rs). *)
THEOREM ReviewPoints == ReadingSpec => []ReviewPointsAtTheLink
  <1>1. AsGiven /\ GraphIsComposed /\ TraversalInvariant => ReviewPointsAtTheLink
    <2> SUFFICES ASSUME Over, request.direction # "outbound", NEW r \in answer.impacted
                 PROVE  r.lines =
                          UNION {{l.line : l \in {k \in Authored(g, r.node) : k.to = r.via}} :
                                   g \in {h \in Configured : r.node \in ReadBy(h, tree)}}
      BY DEF Over, ReviewPointsAtTheLink
    <2>1. answer.impacted = Impacted
      BY DEF Over, TraversalInvariant
    <2>2. PICK i \in 1 .. Len(reached) : r = Shown(reached[i])
      BY <2>1, OverTells
    <2> DEFINE p == reached[i].node
               t == reached[i].via
    <2>3. r.node = p /\ r.via = t /\ r.lines = reached[i].lines
      BY <2>2, ShownFields
    <2>4. reached[i].lines = LinesTold(TheCase, p, t)
      BY ReachedTell
    <2>5. LinesTold(TheCase, p, t) = IF <<p, t>> \in Edges THEN Lines(graph.edges[<<p, t>>]) ELSE {}
      BY CaseFields DEF LinesTold
    <2> HIDE DEF p, t
    <2>6. tree \in Tree /\ GraphIsComposed /\ pc # "build"
      BY DEF Over, AsGiven
    <2>7. /\ <<p, t>> \in Edges => Lines(graph.edges[<<p, t>>]) = LinesWritten(p, t)
          /\ <<p, t>> \notin Edges => LinesWritten(p, t) = {}
      BY <2>6, WrittenLines
    <2>8. r.lines = LinesWritten(r.node, r.via)
      BY <2>3, <2>4, <2>5, <2>7
    <2>9. QED
      BY <2>8 DEF LinesWritten
  <1>2. QED
    BY <1>1, AsGivenAlways, GraphIsComposedAlways, TraversalAlways, PTL

(* The diagnostics of impact (impact.rs). *)
THEOREM DiagnosticsMatch == ReadingSpec => []DiagnosticsMatchTheTraversal
  <1>1. AsGiven /\ GraphIsComposed /\ TraversalInvariant => DiagnosticsMatchTheTraversal
    <2> SUFFICES ASSUME Over PROVE DiagnosticsMatchTheTraversal
      BY DEF Over, DiagnosticsMatchTheTraversal
    <2> DEFINE seeds == ToSet(request.seeds)
               F == Frontier(Impacted)
    <2>1. /\ answer.diagnostics = Diagnostics(Impacted, lock)
          /\ read = Looked(expanded) /\ seeds \subseteq DOMAIN graph.nodes
      BY DEF Over, TraversalInvariant, Nodes
    <2>2. \A n : n \in F <=>
            \/ n \in seeds /\ (request.bound = None \/ 0 < request.bound)
            \/ \E r \in Impacted : r.node = n /\ (request.bound = None \/ r.depth < request.bound)
      <3> DEFINE starting(s) == [node |-> s, depth |-> 0]
                 shown(r) == [node |-> r.node, depth |-> r.depth]
                 depths == {starting(s) : s \in seeds} \cup {shown(r) : r \in Impacted}
      <3>1. Depths(Impacted) = depths
        BY <2>1 DEF Depths
      <3>2. \A n : n \in F <=>
              \E y \in depths : y.node = n /\ (request.bound = None \/ y.depth < request.bound)
        BY <3>1 DEF Frontier
      <3>3. /\ \A s : starting(s).node = s /\ starting(s).depth = 0
            /\ \A r : shown(r).node = r.node /\ shown(r).depth = r.depth
        OBVIOUS
      <3>4. \A y : y \in depths <=> (\E s \in seeds : y = starting(s)) \/ \E r \in Impacted : y = shown(r)
        OBVIOUS
      <3> HIDE DEF F, depths, starting, shown
      <3>5. QED
        BY <3>2, <3>3, <3>4
    <2> HIDE DEF F
    <2>3. \A r : r \in Impacted <=> \E i \in 1 .. Len(reached) : r = Shown(reached[i])
      BY OverTells
    <2>4. \A n : (\E r \in Impacted : r.node = n /\ (request.bound = None \/ r.depth < request.bound)) <=>
            \E i \in 1 .. Len(reached) :
              reached[i].node = n /\ (request.bound = None \/ reached[i].depth < request.bound)
      BY <2>3, ShownFields
    <2>5. \A n, d : Met(TheCase, InHand, n, d) <=>
              \/ n \in seeds /\ d = 0
              \/ \E i \in 1 .. Len(reached) : reached[i].node = n /\ reached[i].depth = d
      BY ReachedTell
    <2>6. \A n, d : Met(TheCase, InHand, n, d) => d \in Nat
      BY OverTells DEF Walking, AtDistance
    <2>7. \A d \in Nat : ~Stops(TheCase, d) <=> request.bound = None \/ d < request.bound
      BY CaseFields DEF Stops, Over, AsGiven
    <2>8. \A n : n \in expanded <=>
            \E d : Met(TheCase, InHand, n, d) /\ (request.bound = None \/ d < request.bound)
      BY <2>6, <2>7, OverTells
    <2>9. \A n : n \in F <=> n \in expanded
      <3> TAKE n
      <3>1. n \in F <=>
              \/ n \in seeds /\ (request.bound = None \/ 0 < request.bound)
              \/ \E i \in 1 .. Len(reached) :
                   reached[i].node = n /\ (request.bound = None \/ reached[i].depth < request.bound)
        BY <2>2, <2>4
      <3>2. n \in expanded <=>
              \/ n \in seeds /\ (request.bound = None \/ 0 < request.bound)
              \/ \E i \in 1 .. Len(reached) :
                   reached[i].node = n /\ (request.bound = None \/ reached[i].depth < request.bound)
        <4> DEFINE short(d) == request.bound = None \/ d < request.bound
        <4>1. n \in expanded <=> \E d : Met(TheCase, InHand, n, d) /\ short(d)
          BY <2>8
        <4> HIDE DEF short
        <4>2. (\E d : Met(TheCase, InHand, n, d) /\ short(d)) <=>
                \/ n \in seeds /\ short(0)
                \/ \E i \in 1 .. Len(reached) : reached[i].node = n /\ short(reached[i].depth)
          BY <2>5
        <4>3. QED
          BY <4>1, <4>2 DEF short
      <3>3. QED
        BY <3>1, <3>2
    <2>10. F = expanded
      BY <2>9
    <2>11. Looked(F) = {e \in Edges : Inspected(F, e[1], e[2])}
      BY DEF Looked, Inspected
    <2>12. Diagnostics(Impacted, lock) =
             D!ApplyPolicy(found \cup EvaluateEdges(graph, Looked(F)) \cup Removed(lock, F),
                           request.policy)
      BY <2>11 DEF Diagnostics, F
    <2>13. QED
      BY <2>1, <2>10, <2>12 DEF DiagnosticsMatchTheTraversal
  <1>2. QED
    BY <1>1, AsGivenAlways, GraphIsComposedAlways, TraversalAlways, PTL

-----------------------------------------------------------------------------
(* The nodes of the composed graph *)

\* Each entry of the walk, with what the graphs that read it say.
LEMMA ComposedNodes ==
  ASSUME tree \in Tree, GraphIsComposed, pc # "build"
  PROVE  /\ DOMAIN graph.nodes = Entries(tree)
         /\ \A p \in Entries(tree) :
              /\ "fs" \in DOMAIN graph.nodes[p].of
              /\ graph.nodes[p].of["fs"] = Metadata(tree[p].kind, tree[p].bytes, None)
              /\ \A g \in Configured :
                   /\ g.name \in DOMAIN graph.nodes[p].of <=> p \in DOMAIN Build(g, tree).nodes
                   /\ p \in DOMAIN Build(g, tree).nodes =>
                        graph.nodes[p].of[g.name] = Build(g, tree).nodes[p]
              /\ \A l \in DOMAIN graph.nodes[p].of :
                   l = "fs" \/ \E g \in Configured : l = g.name
  <1> DEFINE B == BuildSet(tree)
             n == GraphCount
             nodes == graph.nodes
             isIn(p, i) == p \in DOMAIN B[i].nodes
  <1>1. /\ NodesUpTo(nodes, B, n)
        /\ n \in Nat /\ 1 \in 1 .. n
        /\ B[1] = FsGraph(tree) /\ B[1].label = "fs"
        /\ \A i \in DOMAIN TextGraphs : /\ B[i + 1] = Build(TextGraphs[i], tree)
                                        /\ B[i + 1].label = TextGraphs[i].name
                                        /\ i + 1 \in 1 .. n
        /\ \A i \in 1 .. n : i = 1 \/ (i - 1 \in DOMAIN TextGraphs /\ (i - 1) + 1 = i)
        /\ DistinctLabels(B, n)
    BY ComposedTree, TheGraphs, TextGraphsSequence, LabelOf, LabelsApart
       DEF GraphIsComposed, GraphCount
  <1>2. /\ DOMAIN FsGraph(tree).nodes = Entries(tree)
        /\ \A p \in Entries(tree) :
             FsGraph(tree).nodes[p] = Metadata(tree[p].kind, tree[p].bytes, None)
    BY DEF FsGraph
  <1>3. \A g \in Configured : DOMAIN Build(g, tree).nodes \subseteq Entries(tree)
    BY EntriesTell DEF Build, MarkdownGraph, FrontmatterGraph, ReadBy, Texts
  <1>4. /\ \A p : p \in DOMAIN nodes <=> \E i \in 1 .. n : isIn(p, i)
        /\ \A p \in DOMAIN nodes : \A l :
             l \in DOMAIN nodes[p].of <=> \E i \in 1 .. n : isIn(p, i) /\ B[i].label = l
        /\ \A i \in 1 .. n : \A p : isIn(p, i) => nodes[p].of[B[i].label] = B[i].nodes[p]
    BY <1>1 DEF NodesUpTo
  <1>5. \A g \in Configured : \E i \in 1 .. n :
          B[i] = Build(g, tree) /\ B[i].label = g.name
    <2> HIDE DEF B, n
    <2> TAKE g \in Configured
    <2>1. PICK i \in DOMAIN TextGraphs : g = TextGraphs[i]
      BY DEF Configured
    <2>2. /\ B[i + 1] = Build(g, tree) /\ B[i + 1].label = g.name /\ i + 1 \in 1 .. n
      BY <1>1, <2>1
    <2>3. QED
      BY <2>2
  <1>6. \A i \in 1 .. n : i = 1 \/ \E g \in Configured : B[i] = Build(g, tree) /\ B[i].label = g.name
    <2> HIDE DEF B, n
    <2> TAKE i \in 1 .. n
    <2>1. CASE i # 1
      <3>1. i - 1 \in DOMAIN TextGraphs /\ (i - 1) + 1 = i
        BY <1>1, <2>1
      <3>2. B[i] = Build(TextGraphs[i - 1], tree) /\ B[i].label = TextGraphs[i - 1].name
        BY <1>1, <3>1
      <3>3. TextGraphs[i - 1] \in Configured
        BY <3>1 DEF Configured
      <3>4. QED
        BY <3>2, <3>3
    <2>2. QED
      BY <2>1
  <1>7. \A i, j \in 1 .. n : B[i].label = B[j].label => i = j
    BY <1>1 DEF DistinctLabels
  <1> HIDE DEF B, n, nodes
  <1>8. DOMAIN nodes = Entries(tree)
    <2>1. \A p : p \in DOMAIN nodes => p \in Entries(tree)
      <3> TAKE p
      <3>1. ASSUME NEW i \in 1 .. n, isIn(p, i) PROVE p \in Entries(tree)
        <4>1. CASE i = 1
          BY <1>1, <1>2, <3>1, <4>1
        <4>2. CASE i # 1
          <5>1. PICK g \in Configured : B[i] = Build(g, tree)
            BY <1>6, <4>2
          <5>2. QED
            BY <1>3, <3>1, <5>1
        <4>3. QED
          BY <4>1, <4>2
      <3>2. QED
        BY <1>4, <3>1
    <2>2. \A p \in Entries(tree) : isIn(p, 1)
      BY <1>1, <1>2
    <2>3. \A p \in Entries(tree) : p \in DOMAIN nodes
      BY <1>1, <1>4, <2>2
    <2>4. QED
      BY <2>1, <2>3
  <1>9. ASSUME NEW p \in Entries(tree)
        PROVE  /\ "fs" \in DOMAIN nodes[p].of
               /\ nodes[p].of["fs"] = Metadata(tree[p].kind, tree[p].bytes, None)
               /\ \A l \in DOMAIN nodes[p].of : l = "fs" \/ \E g \in Configured : l = g.name
    <2>1. isIn(p, 1)
      BY <1>1, <1>2
    <2>2. "fs" \in DOMAIN nodes[p].of
      BY <1>1, <1>4, <1>8, <2>1
    <2>3. nodes[p].of["fs"] = Metadata(tree[p].kind, tree[p].bytes, None)
      BY <1>1, <1>2, <1>4, <2>1
    <2>4. ASSUME NEW l \in DOMAIN nodes[p].of PROVE l = "fs" \/ \E g \in Configured : l = g.name
      <3>1. PICK i \in 1 .. n : isIn(p, i) /\ B[i].label = l
        BY <1>4, <1>8, <2>4
      <3>2. QED
        BY <1>1, <1>6, <3>1
    <2>5. QED
      BY <2>2, <2>3, <2>4
  <1>10. ASSUME NEW p \in Entries(tree), NEW g \in Configured
         PROVE  /\ g.name \in DOMAIN nodes[p].of <=> p \in DOMAIN Build(g, tree).nodes
                /\ p \in DOMAIN Build(g, tree).nodes =>
                     nodes[p].of[g.name] = Build(g, tree).nodes[p]
    <2>1. PICK i \in 1 .. n : B[i] = Build(g, tree) /\ B[i].label = g.name
      BY <1>5
    <2>2. isIn(p, i) <=> p \in DOMAIN Build(g, tree).nodes
      BY <2>1
    <2>3. \A j \in 1 .. n : B[j].label = g.name => j = i
      BY <1>7, <2>1
    <2>4. g.name \in DOMAIN nodes[p].of <=> \E j \in 1 .. n : isIn(p, j) /\ B[j].label = g.name
      BY <1>4, <1>8
    <2>5. isIn(p, i) => nodes[p].of[g.name] = B[i].nodes[p]
      BY <1>4, <2>1
    <2> HIDE DEF isIn
    <2>6. g.name \in DOMAIN nodes[p].of <=> isIn(p, i)
      BY <2>1, <2>3, <2>4
    <2>7. QED
      BY <2>1, <2>2, <2>5, <2>6
  <1>11. QED
    BY <1>8, <1>9, <1>10 DEF nodes

\* What a target answers to is what its document does (structural.rs).
LEMMA AnchorsTell ==
  ASSUME tree \in Tree, GraphIsComposed, pc # "build", NEW t \in Entries(tree)
  PROVE  /\ IsResolved(graph, t)
         /\ PublishedBy(graph, t) # {} <=> IsDocument(t)
         /\ IsDocument(t) => Anchors(graph, t) = DocumentAnchors(t)
  <1> DEFINE of == graph.nodes[t].of
             anchors == tree[t].bytes.anchors
  <1>1. /\ DOMAIN graph.nodes = Entries(tree)
        /\ "fs" \in DOMAIN of
        /\ \A g \in Configured :
             /\ g.name \in DOMAIN of <=> t \in DOMAIN Build(g, tree).nodes
             /\ t \in DOMAIN Build(g, tree).nodes => of[g.name] = Build(g, tree).nodes[t]
    BY ComposedNodes
  <1>2. IsResolved(graph, t)
    BY <1>1 DEF IsResolved
  <1>3. ASSUME NEW g \in Configured, g.parser = "markdown"
        PROVE  /\ DOMAIN Build(g, tree).nodes = ReadBy(g, tree)
               /\ t \in ReadBy(g, tree) => /\ Build(g, tree).nodes[t].anchors = anchors
                                           /\ anchors # None
    <2>1. Build(g, tree) = MarkdownGraph(g, tree)
      BY <1>3 DEF Build
    <2>2. /\ DOMAIN MarkdownGraph(g, tree).nodes = ReadBy(g, tree)
          /\ t \in ReadBy(g, tree) => MarkdownGraph(g, tree).nodes[t].anchors = anchors
      BY DEF MarkdownGraph, Metadata
    <2>3. t \in ReadBy(g, tree) => anchors # None
      BY EntriesTell, NoneAssumption DEF ReadBy
    <2>4. QED
      BY <2>1, <2>2, <2>3
  <1>4. \A n : n \in PublishedBy(graph, t) <=>
          \E g \in Configured : g.parser = "markdown" /\ t \in ReadBy(g, tree) /\ n = g.name
    <2>1. \A n : n \in PublishedBy(graph, t) <=>
            /\ n \in DOMAIN of
            /\ \E g \in Configured : g.parser = "markdown" /\ n = g.name
            /\ of[n].anchors # None
      BY DEF PublishedBy, AnchorNamespaces
    <2> HIDE DEF of, anchors
    <2>2. QED
      BY <1>1, <1>3, <2>1
  <1>5. PublishedBy(graph, t) # {} <=> IsDocument(t)
    BY <1>4 DEF IsDocument
  <1>6. \A n \in PublishedBy(graph, t) : of[n].anchors = anchors
    <2> HIDE DEF of, anchors
    <2>1. QED
      BY <1>1, <1>3, <1>4
  <1>7. ASSUME IsDocument(t) PROVE Anchors(graph, t) = DocumentAnchors(t)
    <2>1. t \in Texts(tree)
      BY <1>7 DEF IsDocument, ReadBy
    <2>2. DocumentAnchors(t) = anchors
      BY <2>1 DEF DocumentAnchors
    <2>3. \A x : x \in Anchors(graph, t) <=> \E n \in PublishedBy(graph, t) : x \in of[n].anchors
      BY DEF Anchors
    <2> HIDE DEF of, anchors
    <2>4. \A x : x \in Anchors(graph, t) <=> x \in anchors
      BY <1>5, <1>6, <1>7, <2>3
    <2>5. QED
      <3>1. Anchors(graph, t) = UNION {of[n].anchors : n \in PublishedBy(graph, t)}
        BY DEF Anchors, of
      <3>2. {of[n].anchors : n \in PublishedBy(graph, t)} = {anchors}
        BY <1>5, <1>6, <1>7
      <3>3. UNION {anchors} = anchors
        OBVIOUS
      <3>4. QED
        BY <2>2, <3>1, <3>2, <3>3
  <1>8. QED
    BY <1>2, <1>5, <1>7

-----------------------------------------------------------------------------
(* Findings *)

\* The fields of a finding.
LEMMA FindingFields ==
  ASSUME NEW rule, NEW subject, NEW target, NEW frag, NEW lines, NEW graphs
  PROVE  LET f == Finding(rule, subject, target, frag, lines, graphs)
         IN  /\ f.rule = rule /\ f.subject = subject /\ f.target = target
             /\ f.frag = frag /\ f.lines = lines /\ f.graphs = graphs
  BY DEF Finding

UnresolvedEdge(e) ==
  Finding("unresolved-edge", e[1], e[2], None, Lines(graph.edges[e]), graph.edges[e].graphs)

UnresolvedFragment(e, f) ==
  Finding("unresolved-fragment", e[1], e[2], f,
          {o.line : o \in {q \in Occurrences(graph.edges[e]) : q.frag = f}},
          graph.edges[e].graphs)

DetachedNode(p) == Finding("detached-node", p, None, None, {}, graph.nodes[p].graphs)

\* The structural findings, rule by rule.
LEMMA StructuralTells ==
  /\ \A f : f \in Structural(graph) /\ f.rule = "unresolved-edge" <=>
       \E e \in Edges : ~IsUri(e[2]) /\ ~IsResolved(graph, e[2]) /\ f = UnresolvedEdge(e)
  /\ \A f : f \in Structural(graph) /\ f.rule = "unresolved-fragment" <=>
       \E e \in Edges : \E g \in MissingFragments(graph, e) :
         ~IsUri(e[2]) /\ IsResolved(graph, e[2]) /\ f = UnresolvedFragment(e, g)
  /\ \A f : f \in Structural(graph) /\ f.rule = "detached-node" <=>
       \E p \in DOMAIN graph.nodes \ Connected(graph) :
         FsType(graph, p) # "directory" /\ f = DetachedNode(p)
  <1>1. \A f : f \in UnresolvedEdges(graph, Edges) <=>
          \E e \in Edges : ~IsUri(e[2]) /\ ~IsResolved(graph, e[2]) /\ f = UnresolvedEdge(e)
    BY DEF UnresolvedEdges, UnresolvedEdge
  <1>2. \A f : f \in UnresolvedFragments(graph, Edges) <=>
          \E e \in Edges : \E g \in MissingFragments(graph, e) :
            ~IsUri(e[2]) /\ IsResolved(graph, e[2]) /\ f = UnresolvedFragment(e, g)
    <2> DEFINE E == {d \in Edges : ~IsUri(d[2]) /\ IsResolved(graph, d[2])}
               of(e) == {UnresolvedFragment(e, g) : g \in MissingFragments(graph, e)}
    <2>1. UnresolvedFragments(graph, Edges) = UNION {of(e) : e \in E}
      BY Zenon DEF UnresolvedFragments, UnresolvedFragment
    <2>2. \A e, f : f \in of(e) <=> \E g \in MissingFragments(graph, e) : f = UnresolvedFragment(e, g)
      OBVIOUS
    <2> HIDE DEF of
    <2>3. \A f : f \in UnresolvedFragments(graph, Edges) <=> \E e \in E : f \in of(e)
      BY <2>1
    <2>4. QED
      BY <2>2, <2>3
  <1>3. \A f : f \in DetachedNodes(graph) <=>
          \E p \in DOMAIN graph.nodes \ Connected(graph) :
            FsType(graph, p) # "directory" /\ f = DetachedNode(p)
    BY DEF DetachedNodes, DetachedNode
  <1>4. /\ \A e : UnresolvedEdge(e).rule = "unresolved-edge"
        /\ \A e, g : UnresolvedFragment(e, g).rule = "unresolved-fragment"
        /\ \A p : DetachedNode(p).rule = "detached-node"
    BY DEF UnresolvedEdge, UnresolvedFragment, DetachedNode, Finding
  <1>5. \A f : f \in Structural(graph) <=> \/ f \in UnresolvedEdges(graph, Edges)
                                           \/ f \in UnresolvedFragments(graph, Edges)
                                           \/ f \in DetachedNodes(graph)
    BY DEF Structural, EvaluateEdges, Edges
  <1>6. \A f \in UnresolvedEdges(graph, Edges) : f.rule = "unresolved-edge"
    BY <1>1, <1>4
  <1>7. \A f \in UnresolvedFragments(graph, Edges) : f.rule = "unresolved-fragment"
    BY <1>2, <1>4
  <1>8. \A f \in DetachedNodes(graph) : f.rule = "detached-node"
    BY <1>3, <1>4
  <1>9. \A f : f \in Structural(graph) /\ f.rule = "unresolved-edge" <=> f \in UnresolvedEdges(graph, Edges)
    BY <1>5, <1>6, <1>7, <1>8
  <1>10. \A f : f \in Structural(graph) /\ f.rule = "unresolved-fragment" <=> f \in UnresolvedFragments(graph, Edges)
    BY <1>5, <1>6, <1>7, <1>8
  <1>11. \A f : f \in Structural(graph) /\ f.rule = "detached-node" <=> f \in DetachedNodes(graph)
    BY <1>5, <1>6, <1>7, <1>8
  <1>12. QED
    BY <1>1, <1>2, <1>3, <1>9, <1>10, <1>11

\* The graph is there, of a tree as it may be.
Built == AsGiven /\ GraphIsComposed /\ pc # "build"

\* A link that leads nowhere, and no other, is reported with its line.
LEMMA DanglingIsSaid ==
  ASSUME Built, NEW g \in Configured, NEW p, NEW l, Written(g, p, l)
  PROVE  /\ <<p, l.to>> \in Edges
         /\ Occurrence(l) \in Occurrences(graph.edges[<<p, l.to>>])
         /\ Dangling(l) <=> Says("unresolved-edge", p, l, None)
  <1> DEFINE e == <<p, l.to>>
  <1>0. e[1] = p /\ e[2] = l.to /\ e = <<e[1], l.to>>
    OBVIOUS
  <1>1. tree \in Tree /\ GraphIsComposed /\ pc # "build"
    BY DEF Built, AsGiven
  <1>2. p \in Path /\ l \in Authored(g, p)
    BY <1>1, EntriesTell DEF Written, ReadBy
  <1>3. e \in Edges
    BY <1>1, <1>2, ComposedEdges
  <1> HIDE DEF e
  <1>4. Occurrence(l) \in Occurrences(graph.edges[e])
    BY <1>0, <1>1, <1>2, <1>3, ComposedOccurrences
  <1>5. l.line \in Lines(graph.edges[e])
    <2>1. Occurrence(l).line = l.line
      BY DEF Occurrence
    <2>2. QED
      BY <1>4, <2>1 DEF Lines
  <1>6. \A t : IsResolved(graph, t) <=> t \in Entries(tree)
    BY <1>1, ComposedNodes, AnchorsTell DEF IsResolved
  <1>7. \A d : /\ UnresolvedEdge(d).subject = d[1] /\ UnresolvedEdge(d).target = d[2]
               /\ UnresolvedEdge(d).frag = None
               /\ UnresolvedEdge(d).lines = Lines(graph.edges[d])
    BY DEF UnresolvedEdge, Finding
  <1>8. ASSUME Dangling(l) PROVE Says("unresolved-edge", p, l, None)
    <2>1. ~IsUri(e[2]) /\ ~IsResolved(graph, e[2])
      BY <1>0, <1>6, <1>8 DEF Dangling, IsUri
    <2>2. /\ UnresolvedEdge(e) \in Structural(graph)
          /\ UnresolvedEdge(e).rule = "unresolved-edge"
      BY <1>3, <2>1, StructuralTells
    <2>3. QED
      BY <1>0, <1>5, <1>7, <2>2 DEF Says
  <1>9. ASSUME Says("unresolved-edge", p, l, None) PROVE Dangling(l)
    <2>1. PICK f \in Structural(graph) : f.rule = "unresolved-edge" /\ f.target = l.to
      BY <1>9 DEF Says
    <2>2. PICK d \in Edges : ~IsUri(d[2]) /\ ~IsResolved(graph, d[2]) /\ f = UnresolvedEdge(d)
      BY <2>1, StructuralTells
    <2>3. d[2] = l.to
      BY <1>7, <2>1, <2>2
    <2>4. QED
      BY <1>6, <2>2, <2>3 DEF Dangling, IsUri
  <1>10. QED
    BY <1>3, <1>4, <1>8, <1>9 DEF e

\* A link to a place its document has not, and no other, is reported.
LEMMA MissIsSaid ==
  ASSUME Built, NEW g \in Configured, NEW p, NEW l, Written(g, p, l), l.frag # None
  PROVE  Misses(l) <=> Says("unresolved-fragment", p, l, l.frag)
  <1> DEFINE e == <<p, l.to>>
             t == l.to
  <1>0. e[1] = p /\ e[2] = t /\ t = l.to
    OBVIOUS
  <1>1. tree \in Tree /\ GraphIsComposed /\ pc # "build"
    BY DEF Built, AsGiven
  <1>2. e \in Edges /\ Occurrence(l) \in Occurrences(graph.edges[e])
    BY DanglingIsSaid
  <1> HIDE DEF e, t
  <1>3. \A x : IsResolved(graph, x) <=> x \in Entries(tree)
    BY <1>1, ComposedNodes, AnchorsTell DEF IsResolved
  <1>4. \A d, f : LET shown == UnresolvedFragment(d, f)
                  IN  /\ shown.subject = d[1] /\ shown.target = d[2] /\ shown.frag = f
                      /\ shown.lines = {o.line : o \in {q \in Occurrences(graph.edges[d]) : q.frag = f}}
    BY DEF UnresolvedFragment, Finding
  <1>5. /\ Occurrence(l).line = l.line
        /\ Occurrence(l).frag = IF t \in Bare THEN None ELSE l.frag
    BY <1>0 DEF Occurrence
  <1>6. ASSUME NEW f
        PROVE  f \in MissingFragments(graph, e) <=>
                 /\ PublishedBy(graph, t) # {}
                 /\ \E o \in Occurrences(graph.edges[e]) : o.frag = f
                 /\ ~Answers(Anchors(graph, t), f)
    BY <1>0 DEF MissingFragments
  <1>7. ASSUME t \in Entries(tree), t \notin Uri \cup Bare
        PROVE  Misses(l) <=> /\ PublishedBy(graph, t) # {}
                             /\ ~Answers(Anchors(graph, t), l.frag)
    <2>1. /\ PublishedBy(graph, t) # {} <=> IsDocument(t)
          /\ IsDocument(t) => Anchors(graph, t) = DocumentAnchors(t)
      BY <1>1, <1>7, AnchorsTell
    <2>2. IsDocument(t) =>
            (Answers(Anchors(graph, t), l.frag) <=>
               \/ l.frag \in {None, Top}
               \/ l.frag \in DocumentAnchors(t) \/ Decoded[l.frag] \in DocumentAnchors(t))
      BY <2>1 DEF Answers
    <2>3. QED
      BY <1>0, <1>7, <2>1, <2>2 DEF Misses
  <1>8. ASSUME Misses(l) PROVE Says("unresolved-fragment", p, l, l.frag)
    <2>1. t \in Entries(tree) /\ t \notin Uri \cup Bare
      BY <1>0, <1>8 DEF Misses
    <2>2. ~IsUri(e[2]) /\ IsResolved(graph, e[2])
      BY <1>0, <1>3, <2>1 DEF IsUri
    <2>3. Occurrence(l).frag = l.frag
      BY <1>5, <2>1
    <2>4. l.frag \in MissingFragments(graph, e)
      BY <1>2, <1>6, <1>7, <1>8, <2>1, <2>3
    <2> DEFINE f == UnresolvedFragment(e, l.frag)
    <2>5. f \in Structural(graph) /\ f.rule = "unresolved-fragment"
      BY <1>2, <2>2, <2>4, StructuralTells
    <2>6. f.subject = p /\ f.target = l.to /\ f.frag = l.frag /\ l.line \in f.lines
      BY <1>0, <1>2, <1>4, <1>5, <2>3
    <2> HIDE DEF f
    <2>7. QED
      BY <2>5, <2>6 DEF Says
  <1>9. ASSUME Says("unresolved-fragment", p, l, l.frag) PROVE Misses(l)
    <2>1. PICK f \in Structural(graph) :
            /\ f.rule = "unresolved-fragment" /\ f.subject = p /\ f.target = l.to
            /\ f.frag = l.frag
      BY <1>9 DEF Says
    <2>2. PICK d \in Edges : \E h \in MissingFragments(graph, d) :
            ~IsUri(d[2]) /\ IsResolved(graph, d[2]) /\ f = UnresolvedFragment(d, h)
      BY <2>1, StructuralTells
    <2>3. PICK h \in MissingFragments(graph, d) :
            ~IsUri(d[2]) /\ IsResolved(graph, d[2]) /\ f = UnresolvedFragment(d, h)
      BY <2>2
    <2>4. d[1] = p /\ d[2] = t /\ h = l.frag
      BY <1>0, <1>4, <2>1, <2>3
    <2>5. d = e
      <3>1. PICK x \in Target, y \in Target : d = <<x, y>>
        BY <1>1, ComposedEdges
      <3>2. d = <<p, t>>
        BY <2>4, <3>1
      <3>3. QED
        BY <3>2 DEF e, t
    <2>6. t \in Entries(tree) /\ t \notin Uri
      BY <1>3, <2>3, <2>4 DEF IsUri
    <2>7. /\ PublishedBy(graph, t) # {}
          /\ \E o \in Occurrences(graph.edges[e]) : o.frag = l.frag
          /\ ~Answers(Anchors(graph, t), l.frag)
      BY <1>6, <2>3, <2>4, <2>5
    <2>8. t \notin Bare
      <3>1. PICK o \in Occurrences(graph.edges[e]) : o.frag = l.frag
        BY <2>7
      <3>2. PICK k : e = <<e[1], k.to>> /\ o = Occurrence(k)
        BY <1>1, <1>2, <3>1, ComposedOccurrences
      <3>3. k.to = t
        BY <1>0, <3>2
      <3>4. QED
        BY <3>1, <3>2, <3>3 DEF Occurrence
    <2>9. QED
      BY <1>7, <2>6, <2>7, <2>8
  <1>10. QED
    BY <1>8, <1>9

\* The files a graph could not read are findings of the construction.
LEMMA UnreadIsSaid ==
  ASSUME Built
  PROVE  /\ \A g \in Configured : \A p \in g.files \cap InvalidText(tree) :
              \E f \in found : f.rule = "unreadable-text" /\ f.subject = p /\ g.name \in f.graphs
         /\ \A g \in Configured : \A p \in UnreadableBlocks(g, tree) :
              \E f \in found : /\ f.rule = "unreadable-frontmatter" /\ f.subject = p
                               /\ f.graphs = {g.name}
  <1>1. found = UnreadableFrontmatter(tree) \cup UnreadableText(tree)
    BY DEF Built, GraphIsComposed, ConstructionFindings
  <1>2. ASSUME NEW g \in Configured, NEW p \in g.files \cap InvalidText(tree)
        PROVE  \E f \in found : /\ f.rule = "unreadable-text" /\ f.subject = p
                                /\ g.name \in f.graphs
    <2> DEFINE names == {h.name : h \in {k \in Configured : p \in k.files}}
               f == Finding("unreadable-text", p, None, None, {}, names)
    <2>1. g.name \in names
      OBVIOUS
    <2>2. f \in UnreadableText(tree)
      BY DEF UnreadableText
    <2>3. f.rule = "unreadable-text" /\ f.subject = p /\ f.graphs = names
      BY DEF Finding
    <2> HIDE DEF f, names
    <2>4. QED
      BY <1>1, <2>1, <2>2, <2>3
  <1>3. ASSUME NEW g \in Configured, NEW p \in UnreadableBlocks(g, tree)
        PROVE  \E f \in found : /\ f.rule = "unreadable-frontmatter" /\ f.subject = p
                                /\ f.graphs = {g.name}
    <2> DEFINE x == <<g, p>>
               f == Finding("unreadable-frontmatter", x[2], None, None, {1}, {x[1].name})
    <2>1. p \in Entries(tree)
      BY DEF UnreadableBlocks, ReadBy, Texts
    <2>2. x[1] = g /\ x[2] = p /\ x \in Configured \X Entries(tree)
      BY <2>1
    <2>3. f.rule = "unreadable-frontmatter" /\ f.subject = x[2] /\ f.graphs = {x[1].name}
      BY DEF Finding
    <2> HIDE DEF x
    <2>4. x \in {y \in Configured \X Entries(tree) : y[2] \in UnreadableBlocks(y[1], tree)}
      BY <2>2
    <2>5. f \in UnreadableFrontmatter(tree)
      BY <2>4 DEF UnreadableFrontmatter
    <2> HIDE DEF f
    <2>6. QED
      BY <1>1, <2>2, <2>3, <2>5
  <1>4. QED
    BY <1>2, <1>3

\* The links of the tree are the edges.
LEMMA EndsAreEdges == ASSUME Built PROVE \A e : e \in Ends <=> e \in Edges
  <1>1. tree \in Tree /\ GraphIsComposed /\ pc # "build"
    BY DEF Built, AsGiven
  <1> DEFINE targets(g, p) == {<<p, l.to>> : l \in Authored(g, p)}
             of(g) == UNION {targets(g, p) : p \in ReadBy(g, tree)}
             symlinks == {<<p, tree[p].to>> : p \in {q \in Entries(tree) : tree[q].to # None}}
  <1>2. Ends = symlinks \cup UNION {of(g) : g \in Configured}
    BY Zenon DEF Ends
  <1>3. \A e : e \in symlinks <=> \E p \in Entries(tree) : tree[p].to # None /\ e = <<p, tree[p].to>>
    OBVIOUS
  <1>4. \A g, p, e : e \in targets(g, p) <=> \E l \in Authored(g, p) : e = <<p, l.to>>
    OBVIOUS
  <1> HIDE DEF targets, symlinks
  <1>5. \A g, e : e \in of(g) <=> \E p \in ReadBy(g, tree) : e \in targets(g, p)
    OBVIOUS
  <1> HIDE DEF of
  <1>6. \A e : e \in Ends <=> e \in symlinks \/ \E g \in Configured : e \in of(g)
    BY <1>2
  <1>7. \A g : ReadBy(g, tree) \subseteq Path
    BY <1>1, EntriesTell DEF ReadBy
  <1>8. \A e : (\E g \in Configured : e \in of(g)) <=>
                \E g \in Configured : \E p \in Path : \E l \in Authored(g, p) :
                  Written(g, p, l) /\ e = <<p, l.to>>
    BY <1>4, <1>5, <1>7 DEF Written
  <1>9. QED
    BY <1>1, <1>3, <1>6, <1>8, ComposedEdges

\* What is said to be detached is what no link touches.
LEMMA Detached == ASSUME Built PROVE DetachedIsAlone
  <1>1. tree \in Tree /\ GraphIsComposed /\ pc # "build"
    BY DEF Built, AsGiven
  <1> DEFINE found1 == {f.subject : f \in {h \in Structural(graph) : h.rule = "detached-node"}}
             alone == {p \in Entries(tree) : /\ tree[p].kind # "directory"
                                             /\ \A e \in Ends : p \notin {e[1], e[2]}}
  <1>2. /\ DOMAIN graph.nodes = Entries(tree)
        /\ \A p \in Entries(tree) : FsType(graph, p) = tree[p].kind
    <2>1. \A p \in Entries(tree) : graph.nodes[p].of["fs"] = Metadata(tree[p].kind, tree[p].bytes, None)
      BY <1>1, ComposedNodes
    <2>2. \A a, b, c : Metadata(a, b, c).type = a
      BY DEF Metadata
    <2>3. \A p \in Entries(tree) : FsType(graph, p) = tree[p].kind
      BY <2>1, <2>2 DEF FsType
    <2>4. QED
      BY <1>1, <2>3, ComposedNodes
  <1>3. \A p : p \in Connected(graph) <=> \E e \in Edges : p \in {e[1], e[2]}
    BY DEF Connected, Edges
  <1>4. \A p : DetachedNode(p).subject = p
    BY DEF DetachedNode, Finding
  <1>5. \A p : p \in found1 <=> \E f \in Structural(graph) : f.rule = "detached-node" /\ p = f.subject
    OBVIOUS
  <1>6. \A p : p \in found1 <=> \E q \in DOMAIN graph.nodes \ Connected(graph) :
                                  FsType(graph, q) # "directory" /\ p = DetachedNode(q).subject
    <2> HIDE DEF found1
    <2>1. ASSUME NEW p \in found1
          PROVE  \E q \in DOMAIN graph.nodes \ Connected(graph) :
                   FsType(graph, q) # "directory" /\ p = DetachedNode(q).subject
      BY <1>5, <2>1, StructuralTells
    <2>2. ASSUME NEW q \in DOMAIN graph.nodes \ Connected(graph), FsType(graph, q) # "directory"
          PROVE  DetachedNode(q).subject \in found1
      BY <1>5, <2>2, StructuralTells
    <2>3. QED
      BY <2>1, <2>2
  <1>7. \A p : p \in alone <=> /\ p \in Entries(tree) /\ tree[p].kind # "directory"
                               /\ \A e \in Edges : p \notin {e[1], e[2]}
    BY EndsAreEdges
  <1> HIDE DEF found1, alone
  <1>8. \A p : p \in found1 <=> p \in alone
    BY <1>2, <1>3, <1>4, <1>6, <1>7
  <1>9. found1 = alone
    BY <1>8
  <1>10. QED
    BY <1>9 DEF DetachedIsAlone, found1, alone

\* A graph is known by its name.
LEMMA NamesApart ==
  ASSUME NEW g \in Configured, NEW h \in Configured, g.name = h.name
  PROVE  g = h
  <1>1. PICK i \in DOMAIN TextGraphs : g = TextGraphs[i]
    BY DEF Configured
  <1>2. PICK j \in DOMAIN TextGraphs : h = TextGraphs[j]
    BY DEF Configured
  <1>3. TextGraphs[i].name = TextGraphs[j].name
    BY <1>1, <1>2
  <1>4. i = j
    BY <1>3, CorpusAssumption
  <1>5. QED
    BY <1>1, <1>2, <1>4

\* What a hint says of the files of a graph.
LEMMA HintTells ==
  ASSUME NEW g, g.parser = "frontmatter"
  PROVE  LET files == {p \in g.files \cap Entries(tree) : tree[p].kind = "file"}
             unread == {p \in files : p \notin Texts(tree) \/ tree[p].bytes.block = "unreadable"}
             why == EdgeKeysHint(g, tree)
         IN  /\ why = "nothing_found" => unread = {} /\ files # {}
             /\ why = "all_unreadable" => unread = files
             /\ why = "no_file" => files = {}
  <1> DEFINE files == {p \in g.files \cap Entries(tree) : tree[p].kind = "file"}
             unread == {p \in files : p \notin Texts(tree) \/ tree[p].bytes.block = "unreadable"}
  <1>1. files = Candidates(g, tree)
    BY DEF Candidates
  <1>2. \A p \in files : p \in unread <=> p \in Unread(g, tree)
    BY <1>1 DEF Unread, Texts, InvalidText, UnreadableBlocks, ReadBy
  <1>3. unread \subseteq files /\ Unread(g, tree) \subseteq Candidates(g, tree)
    BY DEF Unread
  <1> HIDE DEF files, unread
  <1>4. \A p : p \in unread <=> p \in Unread(g, tree)
    BY <1>1, <1>2, <1>3
  <1>5. unread = Unread(g, tree)
    BY <1>4
  <1>6. /\ EdgeKeysHint(g, tree) = "nothing_found" => unread = {} /\ files # {}
        /\ EdgeKeysHint(g, tree) = "all_unreadable" => unread = files
        /\ EdgeKeysHint(g, tree) = "no_file" => files = {}
    <2> DEFINE n == files  f == unread
    <2>1. EdgeKeysHint(g, tree) = CASE f # {} /\ f = n -> "all_unreadable"
                                    [] f # {} /\ f # n -> "some_unreadable"
                                    [] f = {} /\ n # {} -> "nothing_found"
                                    [] OTHER -> "no_file"
      BY <1>1, <1>5 DEF EdgeKeysHint
    <2> HIDE DEF n, f
    <2>2. /\ f # {} /\ f = n => EdgeKeysHint(g, tree) = "all_unreadable"
          /\ f # {} /\ f # n => EdgeKeysHint(g, tree) = "some_unreadable"
          /\ f = {} /\ n # {} => EdgeKeysHint(g, tree) = "nothing_found"
          /\ f = {} /\ n = {} => EdgeKeysHint(g, tree) = "no_file"
      BY <2>1
    <2>3. QED
      BY <2>2 DEF n, f
  <1>7. QED
    BY <1>6 DEF files, unread

\* A graph whose declared keys gave no edge is hinted, and no other.
LEMMA NoneSilent == ASSUME Built PROVE NoGraphIsSilent
  <1>1. tree \in Tree /\ hinted = EdgeKeysHints(tree)
    BY DEF Built, AsGiven, GraphIsComposed
  <1> SUFFICES ASSUME NEW g \in Configured, g.parser = "frontmatter", g.keys # {}
               PROVE  LET files == {p \in g.files \cap Entries(tree) : tree[p].kind = "file"}
                          unread == {p \in files : \/ p \notin Texts(tree)
                                                   \/ tree[p].bytes.block = "unreadable"}
                      IN  IF \E p \in ReadBy(g, tree) : Authored(g, p) # {}
                          THEN \A h \in hinted : h.graph # g.name
                          ELSE \E h \in hinted :
                                 /\ h.graph = g.name
                                 /\ h.why = "nothing_found" => unread = {} /\ files # {}
                                 /\ h.why = "all_unreadable" => unread = files
                                 /\ h.why = "no_file" => files = {}
    BY DEF NoGraphIsSilent
  <1> DEFINE files == {p \in g.files \cap Entries(tree) : tree[p].kind = "file"}
             unread == {p \in files : p \notin Texts(tree) \/ tree[p].bytes.block = "unreadable"}
             edgeless(h) == DOMAIN FrontmatterGraph(h, tree).edges = {}
             hint(h) == [graph |-> h.name, why |-> EdgeKeysHint(h, tree)]
  <1>2. \A x : x \in hinted <=> \E h \in Configured :
                  h.parser = "frontmatter" /\ h.keys # {} /\ edgeless(h) /\ x = hint(h)
    BY <1>1 DEF EdgeKeysHints
  <1>3. edgeless(g) <=> ~\E p \in ReadBy(g, tree) : Authored(g, p) # {}
    <2>1. Build(g, tree) = FrontmatterGraph(g, tree)
      BY DEF Build
    <2>2. edgeless(g) <=> \A e : e \notin DOMAIN Build(g, tree).edges
      BY <2>1
    <2> HIDE DEF edgeless
    <2>3. \A e : e \in DOMAIN Build(g, tree).edges <=>
              \E p \in Path : \E l \in Authored(g, p) : Written(g, p, l) /\ e = <<p, l.to>>
      BY <1>1, TextEdges
    <2>4. ReadBy(g, tree) \subseteq Path
      BY <1>1, EntriesTell DEF ReadBy
    <2>5. ASSUME NEW p \in ReadBy(g, tree), NEW l \in Authored(g, p) PROVE ~edgeless(g)
      <3>1. Written(g, p, l)
        BY <2>5 DEF Written
      <3>2. <<p, l.to>> \in DOMAIN Build(g, tree).edges
        BY <2>3, <2>4, <3>1
      <3>3. QED
        BY <2>2, <3>2
    <2>6. ASSUME ~edgeless(g) PROVE \E p \in ReadBy(g, tree) : Authored(g, p) # {}
      <3>1. PICK e : e \in DOMAIN Build(g, tree).edges
        BY <2>2, <2>6
      <3>2. PICK p \in Path : \E l \in Authored(g, p) : Written(g, p, l)
        BY <2>3, <3>1
      <3>3. QED
        BY <3>2 DEF Written
    <2>7. QED
      BY <2>5, <2>6
  <1>4. \A h : hint(h).graph = h.name /\ hint(h).why = EdgeKeysHint(h, tree)
    OBVIOUS
  <1> HIDE DEF edgeless, hint
  <1>5. CASE \E p \in ReadBy(g, tree) : Authored(g, p) # {}
    <2>1. \A x \in hinted : x.graph # g.name
      <3> SUFFICES ASSUME NEW x \in hinted, x.graph = g.name PROVE FALSE
        OBVIOUS
      <3>1. PICK h \in Configured : edgeless(h) /\ x = hint(h)
        BY <1>2
      <3>2. h.name = g.name
        BY <1>4, <3>1
      <3>3. h = g
        BY <3>2, NamesApart
      <3>4. QED
        BY <1>3, <1>5, <3>1, <3>3
    <2>2. QED
      BY <1>5, <2>1
  <1>6. CASE ~\E p \in ReadBy(g, tree) : Authored(g, p) # {}
    <2>1. hint(g) \in hinted
      BY <1>2, <1>3, <1>6
    <2>2. /\ EdgeKeysHint(g, tree) = "nothing_found" => unread = {} /\ files # {}
          /\ EdgeKeysHint(g, tree) = "all_unreadable" => unread = files
          /\ EdgeKeysHint(g, tree) = "no_file" => files = {}
      BY HintTells
    <2> HIDE DEF files, unread
    <2>3. \E h \in hinted : /\ h.graph = g.name
                            /\ h.why = "nothing_found" => unread = {} /\ files # {}
                            /\ h.why = "all_unreadable" => unread = files
                            /\ h.why = "no_file" => files = {}
      BY <1>4, <2>1, <2>2
    <2>4. QED
      BY <1>6, <2>3 DEF files, unread
  <1>7. QED
    BY <1>5, <1>6

\* Each link written in a file that a graph reads is an edge, and reported
\* exactly if it leads nowhere; each text a graph could not read is reported
\* (EveryLinkIsAccountedFor).
THEOREM EveryLink == ReadingSpec => []EveryLinkIsAccountedFor
  <1>1. AsGiven /\ GraphIsComposed => EveryLinkIsAccountedFor
    <2> SUFFICES ASSUME AsGiven, GraphIsComposed, pc # "build" PROVE EveryLinkIsAccountedFor
      BY DEF EveryLinkIsAccountedFor
    <2>1. Built
      BY DEF Built
    <2>2. ASSUME NEW g \in Configured, NEW p \in ReadBy(g, tree), NEW l \in Authored(g, p)
          PROVE  /\ <<p, l.to>> \in Edges
                 /\ Dangling(l) <=> Says("unresolved-edge", p, l, None)
                 /\ l.frag # None => (Misses(l) <=> Says("unresolved-fragment", p, l, l.frag))
      <3>1. Written(g, p, l)
        BY DEF Written
      <3>2. QED
        BY <2>1, <3>1, DanglingIsSaid, MissIsSaid
    <2>3. QED
      BY <2>1, <2>2, UnreadIsSaid, Detached, NoneSilent DEF EveryLinkIsAccountedFor
  <1>2. QED
    BY <1>1, AsGivenAlways, GraphIsComposedAlways, PTL

-----------------------------------------------------------------------------
(* Selectors *)

\* The names a pattern takes for themselves.
Plain == {x \in Name : Matching[x] = {x}}

\* drft is run in directories whose names are no patterns of other names.
PlainDirectories == \A c \in Commands : ToSet(c.cwd) \subseteq Plain

\* All but the last of a sequence.
LEMMA FrontTells ==
  ASSUME NEW S, NEW s \in Seq(S), s # <<>>
  PROVE  Front(s) \in Seq(S)
  BY DEF Front

\* A key consists of names of the directory and of the operand.
LEMMA KeyTells ==
  ASSUME NEW cwd \in Seq(Plain), NEW parts \in Seq(Plain \cup {".."})
  PROVE  GraphKey(cwd, parts) = None \/ GraphKey(cwd, parts) \in Seq(Plain)
  <1> DEFINE n == Len(parts)
  <1>0. /\ n \in Nat /\ DOMAIN parts = 1 .. n
        /\ \A i \in 1 .. n : parts[i] = ".." \/ parts[i] \in Plain
    OBVIOUS
  <1> HIDE DEF n
  <1>1. PICK c : Along("key", None, 0, cwd, parts, n, c) /\ KeyFold(cwd, parts) = c[n]
    BY <1>0, KeyGoesAlong
  <1> DEFINE Good(k) == c[k] = None \/ c[k] \in Seq(Plain)
             A == {k \in 0 .. n : Good(k)}
  <1>2. 0 \in A
    BY <1>0, <1>1 DEF Along
  <1>3. \A k \in 0 .. n - 1 : k \in A => k + 1 \in A
    <2> TAKE k \in 0 .. n - 1
    <2> HAVE k \in A
    <2>0. k + 1 \in 1 .. n /\ (k + 1) - 1 = k /\ k + 1 \in 0 .. n
      BY <1>0
    <2> DEFINE w == c[k]
               x == parts[k + 1]
    <2>1. c[k + 1] = IF w = None THEN None
                     ELSE IF x # ".." THEN Append(w, x)
                     ELSE IF w = <<>> THEN None ELSE Front(w)
      BY <1>1, <2>0 DEF Along, Step
    <2>2. w = None \/ w \in Seq(Plain)
      OBVIOUS
    <2>3. x = ".." \/ x \in Plain
      BY <1>0, <2>0
    <2> HIDE DEF w, x
    <2>4. Good(k + 1)
      <3>1. CASE w = None
        BY <2>1, <3>1
      <3>2. CASE w # None /\ x # ".."
        <4>1. c[k + 1] = Append(w, x) /\ w \in Seq(Plain) /\ x \in Plain
          BY <2>1, <2>2, <2>3, <3>2
        <4>2. Append(w, x) \in Seq(Plain)
          BY <4>1
        <4>3. QED
          BY <4>1, <4>2
      <3>3. CASE w # None /\ x = ".." /\ w # <<>>
        <4>1. c[k + 1] = Front(w) /\ w \in Seq(Plain)
          BY <2>1, <2>2, <3>3
        <4>2. Front(w) \in Seq(Plain)
          BY <3>3, <4>1, FrontTells
        <4>3. QED
          BY <4>1, <4>2
      <3>4. CASE w # None /\ x = ".." /\ w = <<>>
        BY <2>1, <3>4
      <3>5. QED
        BY <3>1, <3>2, <3>3, <3>4
    <2>5. QED
      BY <2>0, <2>4
  <1> HIDE DEF A
  <1>4. \A k \in 0 .. n : k \in A
    BY <1>0, <1>2, <1>3, UpTo
  <1>5. n \in 0 .. n
    BY <1>0
  <1>6. c[n] = None \/ c[n] \in Seq(Plain)
    BY <1>4, <1>5 DEF A
  <1>7. KeyFold(cwd, parts) = None \/ KeyFold(cwd, parts) \in Seq(Plain)
    BY <1>1, <1>6
  <1>8. GraphKey(cwd, parts) = IF KeyFold(cwd, parts) = <<>> THEN None ELSE KeyFold(cwd, parts)
    BY DEF GraphKey, KeyFold
  <1>9. QED
    BY <1>7, <1>8

\* A key of such names, made a pattern, matches what is below it.
LEMMA BelowAKey ==
  ASSUME NEW key \in Seq(Plain), NEW k \in Path
  PROVE  IsBelow(key, k) <=> /\ Len(Parts[k]) > Len(key)
                             /\ \A i \in DOMAIN key : Parts[k][i] \in Matching[key[i]]
  <1> DEFINE at == Parts[k]
             n == Len(key)
             start == SubSeq(at, 1, n)
  <1>1. /\ at \in Seq(Name) /\ Len(at) \in Nat
        /\ n \in Nat /\ DOMAIN key = 1 .. n /\ \A i \in 1 .. n : Matching[key[i]] = {key[i]}
    BY ReadingAssumption DEF Plain
  <1>2. (\A i \in DOMAIN key : at[i] \in Matching[key[i]]) <=> \A i \in 1 .. n : at[i] = key[i]
    BY <1>1
  <1>3. ASSUME Len(at) > n
        PROVE  start = key <=> \A i \in 1 .. n : at[i] = key[i]
    <2> HIDE DEF at, n
    <2>1. /\ start \in Seq(Name) /\ Len(start) = n
          /\ \A i \in 1 .. n : start[i] = at[i]
      BY <1>1, <1>3
    <2>2. key \in Seq(Name) /\ Len(key) = n
      BY <1>1 DEF Plain, n
    <2> HIDE DEF start
    <2>3. ASSUME \A i \in 1 .. n : at[i] = key[i] PROVE start = key
      <3>1. \A i \in 1 .. n : start[i] = key[i]
        BY <2>1, <2>3
      <3>2. QED
        BY <2>1, <2>2, <3>1
    <2>4. QED
      BY <2>1, <2>3
  <1>4. IsBelow(key, k) <=> Len(at) > n /\ start = key
    BY DEF IsBelow
  <1> HIDE DEF at, n, start
  <1>5. QED
    BY <1>2, <1>3, <1>4 DEF at, n

\* A selector that a command may have, from a directory of plain names.
Selects(s) ==
  /\ command.cwd \in Seq(Plain)
  /\ ~s.glob => s.parts \in Seq(Plain \cup {".."})

\* What it resolves to is what it stands for, and it is missed if there is
\* nothing and no directory.
LEMMA ResolvedIsMeant ==
  ASSUME tree \in Tree, GraphIsComposed, pc # "build", NEW s, Selects(s)
  PROVE  /\ Resolved(s) = Meant(s)
         /\ NotFound(s) <=> ~s.glob /\ Meant(s) = {} /\ ~IsDirectoryAt(At(s))
  <1>1. /\ Nodes = Entries(tree)
        /\ \A p \in Entries(tree) : FsType(graph, p) = tree[p].kind
    <2>1. \A p \in Entries(tree) : graph.nodes[p].of["fs"] = Metadata(tree[p].kind, tree[p].bytes, None)
      BY ComposedNodes
    <2>2. \A a, b, c : Metadata(a, b, c).type = a
      BY DEF Metadata
    <2>3. QED
      BY <2>1, <2>2, ComposedNodes DEF FsType, Nodes
  <1>2. Entries(tree) \subseteq Path
    BY EntriesTell
  <1>3. \A key : NamesDirectory(key) <=> IsDirectoryAt(key)
    BY <1>1 DEF NamesDirectory, IsDirectoryAt
  <1>4. Resolved(s) = Meant(s)
    <2>1. CASE s.glob
      BY <2>1 DEF Resolved, Meant
    <2>2. CASE ~s.glob
      <3> DEFINE key == GraphKey(command.cwd, s.parts)
      <3>1. key = None \/ key \in Seq(Plain)
        BY <2>2, KeyTells DEF Selects
      <3>2. Resolved(s) = IF key = None THEN {}
                          ELSE {k \in Nodes : Parts[k] = key /\ ~NamesDirectory(key) /\ ~s.slash}
                               \cup MatchedBy(key, TRUE)
        BY <2>2 DEF Resolved
      <3>3. Meant(s) = {k \in Entries(tree) :
                          /\ key # None
                          /\ \/ IsBelow(key, k)
                             \/ Parts[k] = key /\ tree[k].kind # "directory" /\ ~s.slash}
        BY <2>2 DEF Meant, At
      <3> HIDE DEF key
      <3>4. CASE key = None
        BY <3>2, <3>3, <3>4
      <3>5. CASE key # None
        <4>1. \A k : k \in MatchedBy(key, TRUE) <=> k \in Entries(tree) /\ IsBelow(key, k)
          BY <1>1, <1>2, <3>1, <3>5, BelowAKey DEF MatchedBy
        <4>2. \A k \in Entries(tree) : Parts[k] = key =>
                (NamesDirectory(key) <=> tree[k].kind = "directory")
          BY <1>2, <1>3, ReadingAssumption DEF IsDirectoryAt
        <4>3. \A k : k \in Resolved(s) <=> k \in Meant(s)
          BY <1>1, <3>2, <3>3, <3>5, <4>1, <4>2
        <4>4. QED
          BY <4>3
      <3>6. QED
        BY <3>4, <3>5
    <2>3. QED
      BY <2>1, <2>2
  <1>5. QED
    BY <1>3, <1>4 DEF NotFound, At

\* The selectors of a command of this kind.
LEMMA CommandSelects ==
  ASSUME PlainDirectories, command \in Commands, NEW s \in ToSet(command.selectors)
  PROVE  Selects(s)
  <1>1. /\ command.cwd \in Seq(Name) /\ command.selectors \in Seq(Selector)
        /\ s.glob \/ \A x \in ToSet(s.parts) : x = ".." \/ Matching[x] = {x}
    BY ReadingAssumption
  <1>2. s \in Selector
    BY <1>1, InSequence
  <1>3. s.parts \in Seq(Name \cup {".."})
    BY <1>2 DEF Selector
  <1>4. command.cwd \in Seq(Plain)
    <2>1. ToSet(command.cwd) \subseteq Plain
      BY DEF PlainDirectories
    <2> DEFINE d == command.cwd
    <2>2. d \in Seq(Name) /\ ToSet(d) \subseteq Plain
      BY <1>1, <2>1
    <2> HIDE DEF d
    <2>3. \A i \in 1 .. Len(d) : d[i] \in Plain
      BY <2>2, InSequence
    <2>4. d \in Seq(Plain)
      BY <2>2, <2>3
    <2>5. QED
      BY <2>4 DEF d
  <1>5. ASSUME ~s.glob PROVE s.parts \in Seq(Plain \cup {".."})
    <2> DEFINE d == s.parts
    <2>1. d \in Seq(Name \cup {".."}) /\ \A x \in ToSet(d) : x = ".." \/ Matching[x] = {x}
      BY <1>1, <1>3, <1>5
    <2> HIDE DEF d
    <2>2. \A i \in 1 .. Len(d) : d[i] \in ToSet(d) /\ d[i] \in Name \cup {".."}
      BY <2>1, InSequence
    <2>3. \A i \in 1 .. Len(d) : d[i] \in Plain \cup {".."}
      BY <2>1, <2>2 DEF Plain
    <2>4. d \in Seq(Plain \cup {".."})
      BY <2>1, <2>3
    <2>5. QED
      BY <2>4 DEF d
  <1>6. QED
    BY <1>4, <1>5 DEF Selects

Treated == ToSet(command.selectors) \ ToSet(todo)

(* Between two selectors, and when the projection is printed.              *)
Selecting ==
  /\ command.namespaces \subseteq Declarable
  /\ todo \in Seq(Selector) /\ Distinct(todo)
  /\ ToSet(todo) \subseteq ToSet(command.selectors)
  /\ \A k : k \in picked <=> \E s \in Treated : k \in Resolved(s)
  /\ said \in Seq(Selector) /\ Distinct(said)
  /\ \A s : s \in ToSet(said) <=> s \in Treated /\ Resolved(s) = {}
  /\ \A s \in Treated : ~NotFound(s)

Printing == IF command.verb = "nodes" THEN ProjectNodes ELSE ProjectEdges

SelectInvariant ==
  /\ command \in Commands
  /\ pc \in IF command.verb = "impact" THEN {"build", "walk", "done", "not_found"}
            ELSE {"build", "select", "failed", "printed"}
  /\ pc = "build" => todo = <<>> /\ picked = {} /\ said = <<>>
  /\ pc \in {"select", "printed"} => Selecting
  /\ pc = "failed" => \/ ~(command.namespaces \subseteq Declarable)
                      \/ \E s \in ToSet(command.selectors) : NotFound(s)
  /\ pc = "printed" => todo = <<>> /\ printed = Printing

\* What a selector resolves to depends on the graph and the command alone.
LEMMA ResolvedStays ==
  ASSUME graph' = graph, command' = command
  PROVE  \A s : Resolved(s)' = Resolved(s) /\ NotFound(s)' = NotFound(s)
  BY DEF Resolved, NotFound, MatchedBy, NamesDirectory, Nodes

\* The projection depends on these and on what is picked.
LEMMA PrintingStays ==
  ASSUME graph' = graph, command' = command, picked' = picked
  PROVE  Printing' = Printing
  BY DEF Printing, ProjectNodes, ProjectEdges, Projection, FilterMetadata, FilteredOut, Block,
         NothingKept, Nodes, Edges

\* The head of a sequence without repetition, and the rest of it.
LEMMA HeadAndTail ==
  ASSUME NEW S, NEW s \in Seq(S), s # <<>>, Distinct(s)
  PROVE  /\ Head(s) \in S /\ Tail(s) \in Seq(S) /\ Distinct(Tail(s))
         /\ \A x : x \in ToSet(s) <=> x = Head(s) \/ x \in ToSet(Tail(s))
         /\ Head(s) \notin ToSet(Tail(s))
  <1> DEFINE t == Tail(s)
             h == Head(s)
  <1>1. /\ t \in Seq(S) /\ Len(s) \in Nat /\ Len(t) \in Nat
        /\ Len(s) = Len(t) + 1 /\ h = s[1] /\ h \in S
        /\ \A i \in 1 .. Len(t) : t[i] = s[i + 1]
    BY TailOf DEF IsSequence
  <1>2. /\ \A x : x \in ToSet(s) <=> \E i \in 1 .. Len(s) : s[i] = x
        /\ \A x : x \in ToSet(t) <=> \E i \in 1 .. Len(t) : t[i] = x
    BY <1>1, InSequence
  <1> HIDE DEF t, h
  <1>3. \A i \in 1 .. Len(s) : i = 1 \/ (i - 1 \in 1 .. Len(t) /\ t[i - 1] = s[i])
    BY <1>1
  <1>4. \A i \in 1 .. Len(t) : i + 1 \in 1 .. Len(s) /\ i + 1 # 1 /\ 1 \in 1 .. Len(s)
    BY <1>1
  <1>5. 1 \in 1 .. Len(s)
    BY <1>1
  <1>6. \A x : x \in ToSet(s) <=> x = h \/ x \in ToSet(t)
    <2>1. ASSUME NEW x \in ToSet(s), x # h PROVE x \in ToSet(t)
      <3>1. PICK i \in 1 .. Len(s) : s[i] = x
        BY <1>2, <2>1
      <3>2. i - 1 \in 1 .. Len(t) /\ t[i - 1] = x
        BY <1>1, <1>3, <2>1, <3>1
      <3>3. QED
        BY <1>2, <3>2
    <2>2. ASSUME NEW x \in ToSet(t) PROVE x \in ToSet(s)
      <3>1. PICK i \in 1 .. Len(t) : t[i] = x
        BY <1>2, <2>2
      <3>2. i + 1 \in 1 .. Len(s) /\ s[i + 1] = x
        BY <1>1, <1>4, <3>1
      <3>3. QED
        BY <1>2, <3>2
    <2>3. h \in ToSet(s)
      BY <1>1, <1>2, <1>5
    <2>4. QED
      BY <2>1, <2>2, <2>3
  <1>7. h \notin ToSet(t)
    <2> SUFFICES ASSUME NEW i \in 1 .. Len(t), t[i] = h PROVE FALSE
      BY <1>2
    <2>1. s[i + 1] = s[1] /\ i + 1 \in 1 .. Len(s) /\ 1 \in 1 .. Len(s) /\ i + 1 # 1
      BY <1>1, <1>4
    <2>2. QED
      BY <2>1 DEF Distinct
  <1>8. Distinct(t)
    <2> SUFFICES ASSUME NEW i \in 1 .. Len(t), NEW j \in 1 .. Len(t), t[i] = t[j] PROVE i = j
      BY DEF Distinct
    <2>1. s[i + 1] = s[j + 1] /\ i + 1 \in 1 .. Len(s) /\ j + 1 \in 1 .. Len(s)
      BY <1>1, <1>4
    <2>2. i + 1 = j + 1
      BY <2>1 DEF Distinct
    <2>3. QED
      BY <2>2
  <1>9. QED
    BY <1>1, <1>6, <1>7, <1>8 DEF t, h

\* Building the graph establishes the invariant of the selection,
LEMMA BuildSelects ==
  ASSUME SelectInvariant, BuildToSelect
  PROVE  SelectInvariant'
  <1>1. /\ command' = command /\ command \in Commands /\ command.verb # "impact"
        /\ todo = <<>> /\ picked = {} /\ said = <<>>
        /\ picked' = {} /\ said' = <<>> /\ todo' = FirstOfEach(command.selectors)
        /\ pc' = IF command.namespaces \subseteq Declarable THEN "select" ELSE "failed"
    BY DEF SelectInvariant, BuildToSelect
  <1>2. command.selectors \in Seq(Selector)
    BY <1>1, ReadingAssumption
  <1>3. /\ todo' \in Seq(Selector) /\ Distinct(todo')
        /\ ToSet(todo') = ToSet(command.selectors)
    BY <1>1, <1>2, FirstOfEachTells
  <1>4. Treated' = {}
    BY <1>1, <1>3 DEF Treated
  <1>5. said' \in Seq(Selector) /\ Distinct(said') /\ ToSet(said') = {}
    <2>1. 1 .. 0 = {}
      OBVIOUS
    <2>2. Distinct(<<>>)
      BY <2>1, EmptySequence DEF Distinct
    <2>3. QED
      BY <1>1, <2>2, EmptySequence
  <1>6. CASE command.namespaces \subseteq Declarable
    <2>1. Selecting'
      BY <1>1, <1>3, <1>4, <1>5, <1>6 DEF Selecting, Declarable
    <2>2. QED
      BY <1>1, <1>6, <2>1 DEF SelectInvariant
  <1>7. CASE ~(command.namespaces \subseteq Declarable)
    BY <1>1, <1>7 DEF SelectInvariant, Declarable
  <1>8. QED
    BY <1>6, <1>7

\* resolving one selector preserves it,
LEMMA ResolveSelects ==
  ASSUME SelectInvariant, Resolve
  PROVE  SelectInvariant'
  <1> DEFINE h == Head(todo)
             t == Tail(todo)
             keys == Resolved(h)
  <1>1. /\ graph' = graph /\ command' = command /\ pc = "select" /\ pc' = "select"
        /\ command \in Commands /\ command.verb # "impact" /\ Selecting
        /\ todo # <<>> /\ ~NotFound(h)
        /\ picked' = picked \cup keys
        /\ said' = IF keys = {} THEN Append(said, h) ELSE said
        /\ todo' = t
    BY DEF SelectInvariant, Resolve, vars
  <1>2. /\ h \in Selector /\ t \in Seq(Selector) /\ Distinct(t)
        /\ \A x : x \in ToSet(todo) <=> x = h \/ x \in ToSet(t)
        /\ h \notin ToSet(t)
    BY <1>1, HeadAndTail DEF Selecting
  <1>3. \A s : s \in Treated' <=> s \in Treated \/ s = h
    BY <1>1, <1>2 DEF Treated, Selecting
  <1>4. h \notin Treated
    BY <1>2 DEF Treated
  <1>5. \A s : Resolved(s)' = Resolved(s) /\ NotFound(s)' = NotFound(s)
    BY <1>1, ResolvedStays
  <1>6. \A k : k \in keys <=> k \in Resolved(h)
    OBVIOUS
  <1>7. keys = {} <=> Resolved(h) = {}
    OBVIOUS
  <1> HIDE DEF h, t, keys
  <1>8. \A k : k \in picked' <=> \E s \in Treated' : k \in Resolved(s)'
    <2>1. \A k : k \in picked <=> \E s \in Treated : k \in Resolved(s)
      BY <1>1 DEF Selecting
    <2>2. \A k : k \in picked' <=> k \in picked \/ k \in Resolved(h)
      BY <1>1, <1>6
    <2>3. QED
      BY <1>3, <1>5, <2>1, <2>2
  <1>9. /\ said' \in Seq(Selector) /\ Distinct(said')
        /\ \A s : s \in ToSet(said') <=> s \in Treated' /\ Resolved(s)' = {}
    <2>1. /\ said \in Seq(Selector) /\ Distinct(said)
          /\ \A s : s \in ToSet(said) <=> s \in Treated /\ Resolved(s) = {}
      BY <1>1 DEF Selecting
    <2>2. CASE keys # {}
      <3>1. said' = said
        BY <1>1, <2>2
      <3>2. \A s : s \in ToSet(said) <=> s \in Treated' /\ Resolved(s)' = {}
        BY <1>3, <1>5, <1>7, <2>1, <2>2
      <3>3. QED
        BY <2>1, <3>1, <3>2
    <2>3. CASE keys = {}
      <3> DEFINE a == Append(said, h)
      <3>1. said' = a
        BY <1>1, <2>3
      <3>2. /\ a \in Seq(Selector) /\ Len(a) = Len(said) + 1 /\ Len(said) \in Nat
            /\ \A i \in 1 .. Len(said) : a[i] = said[i]
            /\ a[Len(said) + 1] = h
            /\ \A x : x \in ToSet(a) <=> x \in ToSet(said) \/ x = h
        BY <1>2, <2>1, AppendedTo
      <3>3. h \notin ToSet(said)
        BY <1>4, <2>1
      <3>4. \A i \in 1 .. Len(said) : said[i] # h
        BY <2>1, <3>3, InSequence
      <3> HIDE DEF a
      <3>5. \A i : i \in 1 .. Len(a) <=> i \in 1 .. Len(said) \/ i = Len(said) + 1
        BY <3>2
      <3>6. Distinct(a)
        BY <2>1, <3>2, <3>4, <3>5 DEF Distinct
      <3>7. \A s : s \in ToSet(a) <=> s \in Treated' /\ Resolved(s)' = {}
        BY <1>3, <1>5, <1>7, <2>1, <2>3, <3>2
      <3>8. QED
        BY <3>1, <3>2, <3>6, <3>7
    <2>4. QED
      BY <2>2, <2>3
  <1>10. \A s \in Treated' : ~NotFound(s)'
    BY <1>1, <1>3, <1>5 DEF Selecting
  <1>11. Selecting'
    <2>1. command'.namespaces \subseteq Declarable
      BY <1>1 DEF Selecting
    <2>2. ToSet(todo') \subseteq ToSet(command'.selectors)
      BY <1>1, <1>2 DEF Selecting
    <2>3. todo' \in Seq(Selector) /\ Distinct(todo')
      BY <1>1, <1>2
    <2>4. QED
      BY <1>8, <1>9, <1>10, <2>1, <2>2, <2>3 DEF Selecting, Declarable
  <1>12. QED
    BY <1>1, <1>11 DEF SelectInvariant

\* as does a step that changes none of its variables,
LEMMA SelectingStays ==
  ASSUME Selecting, graph' = graph, command' = command, todo' = todo, picked' = picked, said' = said
  PROVE  Selecting'
  <1>1. \A s : Resolved(s)' = Resolved(s) /\ NotFound(s)' = NotFound(s)
    BY ResolvedStays
  <1>2. Treated' = Treated
    BY DEF Treated
  <1>3. \A k : k \in picked' <=> \E s \in Treated' : k \in Resolved(s)'
    BY <1>1, <1>2 DEF Selecting
  <1>4. \A s : s \in ToSet(said') <=> s \in Treated' /\ Resolved(s)' = {}
    BY <1>1, <1>2 DEF Selecting
  <1>5. \A s \in Treated' : ~NotFound(s)'
    BY <1>1, <1>2 DEF Selecting
  <1>6. /\ command'.namespaces \subseteq Declarable
        /\ todo' \in Seq(Selector) /\ Distinct(todo')
        /\ ToSet(todo') \subseteq ToSet(command'.selectors)
        /\ said' \in Seq(Selector) /\ Distinct(said')
    BY DEF Selecting
  <1>7. QED
    BY <1>3, <1>4, <1>5, <1>6 DEF Selecting, Declarable

\* and a path that names nothing.
LEMMA MissSelects ==
  ASSUME SelectInvariant, Miss
  PROVE  SelectInvariant'
  <1>1. /\ graph' = graph /\ command' = command /\ pc = "select" /\ pc' = "failed"
        /\ command \in Commands /\ command.verb # "impact" /\ Selecting
        /\ todo # <<>> /\ NotFound(Head(todo))
    BY DEF SelectInvariant, Miss, readingVars
  <1>2. Head(todo) \in ToSet(command.selectors)
    BY <1>1, HeadAndTail DEF Selecting
  <1>3. \E s \in ToSet(command.selectors) : NotFound(s)
    BY <1>1, <1>2
  <1>4. \E s \in ToSet(command'.selectors) : NotFound(s)'
    <2>1. \A s : NotFound(s)' = NotFound(s)
      BY <1>1, ResolvedStays
    <2>2. QED
      BY <1>1, <1>3, <2>1
  <1>5. QED
    BY <1>1, <1>4 DEF SelectInvariant

\* So it holds throughout.
LEMMA SelectAlways == ReadingSpec => []SelectInvariant
  <1>1. ASSUME ReadingInit PROVE SelectInvariant
    <2>1. /\ command \in Commands /\ todo = <<>> /\ picked = {} /\ said = <<>>
          /\ pc = "build"
      BY <1>1 DEF ReadingInit, Init
    <2>2. pc \in IF command.verb = "impact" THEN {"build", "walk", "done", "not_found"}
                 ELSE {"build", "select", "failed", "printed"}
      <3>1. CASE command.verb = "impact"
        BY <2>1, <3>1
      <3>2. CASE command.verb # "impact"
        BY <2>1, <3>2
      <3>3. QED
        BY <3>1, <3>2
    <2>3. pc # "select" /\ pc # "printed" /\ pc # "failed"
      BY <2>1
    <2>4. pc \notin {"select", "printed"}
      BY <2>3
    <2>5. QED
      BY <2>1, <2>2, <2>3, <2>4 DEF SelectInvariant
  <1>2. SelectInvariant /\ [ReadingNext]_allVars => SelectInvariant'
    <2> SUFFICES ASSUME SelectInvariant, [ReadingNext]_allVars PROVE SelectInvariant'
      OBVIOUS
    <2>1. CASE BuildToSelect
      BY <2>1, BuildSelects
    <2>2. CASE Resolve
      BY <2>2, ResolveSelects
    <2>3. CASE Miss
      BY <2>3, MissSelects
    <2>4. CASE Project
      <3>1. /\ graph' = graph /\ command' = command /\ todo' = todo /\ picked' = picked /\ said' = said
            /\ pc = "select" /\ pc' = "printed" /\ todo = <<>> /\ printed' = Printing
            /\ command \in Commands /\ command.verb # "impact" /\ Selecting
        BY <2>4 DEF Project, Printing, SelectInvariant
      <3>2. Selecting' /\ Printing' = Printing
        BY <3>1, SelectingStays, PrintingStays
      <3>3. printed' = Printing'
        BY <3>1, <3>2
      <3>4. QED
        BY <3>1, <3>2, <3>3 DEF SelectInvariant
    <2>5. CASE Impacting
      <3>1. /\ command.verb = "impact" /\ command' = command
            /\ pc' \in {"walk", "done", "not_found"}
        BY <2>5 DEF Impacting, readingVars, Next, BuildGraph, Expand, SkipAtBound, Answer
      <3>2. QED
        BY <3>1 DEF SelectInvariant
    <2>6. CASE UNCHANGED allVars
      <3>1. /\ graph' = graph /\ command' = command /\ todo' = todo /\ picked' = picked
            /\ said' = said /\ pc' = pc /\ printed' = printed
        BY <2>6 DEF allVars, vars, readingVars
      <3>2. pc \in {"select", "printed"} => Selecting'
        BY <3>1, SelectingStays DEF SelectInvariant
      <3>3. Printing' = Printing
        BY <3>1, PrintingStays
      <3>4. \A s : NotFound(s)' = NotFound(s)
        BY <3>1, ResolvedStays
      <3>5. pc = "printed" => printed' = Printing'
        BY <3>1, <3>3 DEF SelectInvariant
      <3>6. pc = "failed" => \/ ~(command'.namespaces \subseteq Declarable)
                             \/ \E s \in ToSet(command'.selectors) : NotFound(s)'
        BY <3>1, <3>4 DEF SelectInvariant
      <3>7. QED
        BY <3>1, <3>2, <3>5, <3>6 DEF SelectInvariant, Declarable
    <2>7. QED
      BY <2>1, <2>2, <2>3, <2>4, <2>5, <2>6 DEF ReadingNext
  <1>3. QED
    BY <1>1, <1>2, PTL DEF ReadingSpec

-----------------------------------------------------------------------------
(* The projection *)

\* What is printed of an entry: the namespaces asked for that have something.
Shows(entry, l) == l \in DOMAIN entry.of /\ Asked(l) /\ ~NothingKept(entry.of[l])

\* The namespaces of an entry that a filter leaves, and what it leaves of each.
LEMMA FilterTells ==
  ASSUME NEW entry
  PROVE  /\ \A l : l \in DOMAIN FilterMetadata(entry) <=> Shows(entry, l)
         /\ \A l \in DOMAIN FilterMetadata(entry) : FilterMetadata(entry)[l] = Block(entry.of[l])
  BY DEF FilterMetadata, Shows, Asked

\* The entries that a filter leaves.
LEMMA ProjectionTells ==
  ASSUME NEW entries, NEW keys
  PROVE  /\ \A k : k \in DOMAIN Projection(entries, keys) <=>
              k \in keys /\ (Filtering => DOMAIN FilterMetadata(entries[k]) # {})
         /\ \A k \in DOMAIN Projection(entries, keys) :
              Projection(entries, keys)[k] = FilterMetadata(entries[k])
  <1> DEFINE all == [k \in keys |-> FilterMetadata(entries[k])]
             left == {k \in keys : ~FilteredOut(all[k])}
  <1>1. Projection(entries, keys) = [k \in left |-> all[k]]
    BY DEF Projection, Restrict
  <1>2. \A k \in keys : all[k] = FilterMetadata(entries[k])
    OBVIOUS
  <1>3. \A m : FilteredOut(m) <=> DOMAIN m = {} /\ Filtering
    BY DEF FilteredOut, Filtering
  <1> HIDE DEF all
  <1>4. \A k : k \in left <=> k \in keys /\ (Filtering => DOMAIN FilterMetadata(entries[k]) # {})
    BY <1>2, <1>3
  <1> DEFINE p == Projection(entries, keys)
  <1> HIDE DEF left
  <1>5. DOMAIN p = left
    BY <1>1
  <1>6. \A k \in left : p[k] = all[k]
    BY <1>1
  <1> HIDE DEF p
  <1>7. \A k : k \in DOMAIN p <=> k \in keys /\ (Filtering => DOMAIN FilterMetadata(entries[k]) # {})
    BY <1>4, <1>5
  <1>8. \A k \in DOMAIN p : p[k] = FilterMetadata(entries[k])
    BY <1>2, <1>4, <1>5, <1>6
  <1>9. QED
    BY <1>7, <1>8 DEF p

\* One namespace of what is printed.
LEMMA OneNamespace ==
  ASSUME NEW entries, NEW keys, printed = Projection(entries, keys), NEW l
  PROVE  /\ \A k : k \in DOMAIN PrintedOf(l) <=> k \in keys /\ Shows(entries[k], l)
         /\ \A k \in DOMAIN PrintedOf(l) : PrintedOf(l)[k] = Block(entries[k].of[l])
  <1>1. /\ \A k : k \in DOMAIN printed <=>
              k \in keys /\ (Filtering => DOMAIN FilterMetadata(entries[k]) # {})
        /\ \A k \in DOMAIN printed : printed[k] = FilterMetadata(entries[k])
    <2> DEFINE view == Projection(entries, keys)
    <2>1. \A k : k \in DOMAIN view <=>
            k \in keys /\ (Filtering => DOMAIN FilterMetadata(entries[k]) # {})
      BY ProjectionTells
    <2>2. \A k \in DOMAIN view : view[k] = FilterMetadata(entries[k])
      BY ProjectionTells
    <2>3. printed = view
      OBVIOUS
    <2> HIDE DEF view
    <2>4. QED
      BY <2>1, <2>2, <2>3
  <1>2. \A k : k \in DOMAIN PrintedOf(l) <=> k \in DOMAIN printed /\ l \in DOMAIN printed[k]
    BY DEF PrintedOf
  <1>3. \A k : l \in DOMAIN FilterMetadata(entries[k]) <=> Shows(entries[k], l)
    BY FilterTells
  <1>4. \A k : k \in DOMAIN PrintedOf(l) <=> k \in keys /\ Shows(entries[k], l)
    <2>1. ASSUME NEW k \in DOMAIN PrintedOf(l) PROVE k \in keys /\ Shows(entries[k], l)
      BY <1>1, <1>2, <1>3, <2>1
    <2>2. ASSUME NEW k \in keys, Shows(entries[k], l) PROVE k \in DOMAIN PrintedOf(l)
      <3>1. l \in DOMAIN FilterMetadata(entries[k])
        BY <1>3, <2>2
      <3>2. k \in DOMAIN printed
        BY <1>1, <3>1
      <3>3. l \in DOMAIN printed[k]
        BY <1>1, <3>1, <3>2
      <3>4. QED
        BY <1>2, <3>2, <3>3
    <2>3. QED
      BY <2>1, <2>2
  <1>5. ASSUME NEW k \in DOMAIN PrintedOf(l) PROVE PrintedOf(l)[k] = Block(entries[k].of[l])
    <2>1. k \in DOMAIN printed /\ l \in DOMAIN printed[k]
      BY <1>2, <1>5
    <2>2. PrintedOf(l)[k] = printed[k][l]
      BY <1>5 DEF PrintedOf
    <2>3. printed[k] = FilterMetadata(entries[k])
      BY <1>1, <2>1
    <2>4. l \in DOMAIN FilterMetadata(entries[k])
      BY <2>1, <2>3
    <2>5. FilterMetadata(entries[k])[l] = Block(entries[k].of[l])
      BY <2>4, FilterTells
    <2>6. QED
      BY <2>2, <2>3, <2>5
  <1>6. QED
    BY <1>4, <1>5

\* Two functions of one domain and of the same values.
LEMMA SameFunction ==
  ASSUME NEW f, NEW g, IsFunction(f), IsFunction(g),
         \A x : x \in DOMAIN f <=> x \in DOMAIN g, \A x \in DOMAIN f : f[x] = g[x]
  PROVE  f = g
  <1>1. DOMAIN f = DOMAIN g
    OBVIOUS
  <1>2. [x \in DOMAIN f |-> f[x]] = [x \in DOMAIN g |-> g[x]]
    BY <1>1
  <1>3. QED
    BY <1>2 DEF IsFunction

\* One namespace of what is printed is a function on the entries that have it,
LEMMA PrintedIsFunction == ASSUME NEW l PROVE IsFunction(PrintedOf(l))
  BY DEF PrintedOf, IsFunction

\* and so is what a graph has to say.
LEMMA ToldIsFunction ==
  ASSUME NEW fragment
  PROVE  /\ IsFunction(ToldOfNodes(fragment)) /\ IsFunction(ToldOfEdges(fragment))
         /\ IsFunction(<<>>) /\ \A x : x \notin DOMAIN <<>>
  <1>1. IsFunction(ToldOfNodes(fragment))
    BY DEF ToldOfNodes, IsFunction
  <1>2. IsFunction(ToldOfEdges(fragment))
    BY DEF ToldOfEdges, IsFunction
  <1>3. \A x : x \notin DOMAIN <<>>
    BY EmptySequence
  <1>4. IsFunction(<<>>)
    BY DEF IsFunction
  <1>5. QED
    BY <1>1, <1>2, <1>3, <1>4

\* When a command has answered, or failed, over the files of the tree.
Answered == AsGiven /\ GraphIsComposed /\ SelectInvariant /\ PlainDirectories /\ pc # "build"

\* What one selector resolves to, in terms of the files.
LEMMA SelectorsMean ==
  ASSUME Answered
  PROVE  \A s \in ToSet(command.selectors) :
           /\ Resolved(s) = Meant(s)
           /\ NotFound(s) <=> ~s.glob /\ Meant(s) = {} /\ ~IsDirectoryAt(At(s))
  BY CommandSelects, ResolvedIsMeant DEF Answered, AsGiven, SelectInvariant

\* Nodes or sources picked are those the selectors stand for.
LEMMA PickedIsScope ==
  ASSUME Answered, pc = "printed"
  PROVE  /\ Selecting /\ Treated = ToSet(command.selectors)
         /\ command.selectors # <<>> => picked = Scope
  <1>1. Selecting /\ todo = <<>>
    BY DEF Answered, SelectInvariant
  <1>2. ToSet(todo) = {}
    BY <1>1, EmptySequence
  <1>3. Treated = ToSet(command.selectors)
    BY <1>2 DEF Treated
  <1>4. \A k : k \in picked <=> \E s \in ToSet(command.selectors) : k \in Meant(s)
    BY <1>1, <1>3, SelectorsMean DEF Selecting
  <1>5. picked = UNION {Meant(s) : s \in ToSet(command.selectors)}
    BY <1>4
  <1>6. QED
    BY <1>1, <1>3, <1>5 DEF Scope

\* The source of an edge is an entry of the tree.
LEMMA Sources ==
  ASSUME tree \in Tree, GraphIsComposed, pc # "build"
  PROVE  \A e \in Edges : e[1] \in Entries(tree)
  <1>1. \A g, p, l : Written(g, p, l) => p \in Entries(tree)
    <2>1. \A g, p, l : Written(g, p, l) => p \in Texts(tree)
      BY DEF Written, ReadBy
    <2>2. QED
      BY <2>1, EntriesTell
  <1>2. QED
    BY <1>1, ComposedEdges

\* What is printed is a projection of those.
LEMMA PrintedTells ==
  ASSUME Answered, pc = "printed", command.verb \in {"nodes", "edges"}
  PROVE  /\ command.verb = "nodes" => printed = Projection(graph.nodes, Scope)
         /\ command.verb = "edges" =>
              printed = Projection(graph.edges, {e \in Edges : e[1] \in Scope})
  <1>1. printed = IF command.verb = "nodes" THEN ProjectNodes ELSE ProjectEdges
    BY DEF Answered, SelectInvariant, Printing
  <1>2. Nodes = Entries(tree)
    BY ComposedNodes DEF Answered, AsGiven, Nodes
  <1>3. command.selectors = <<>> => Scope = Nodes
    BY <1>2 DEF Scope
  <1>4. command.selectors # <<>> => picked = Scope
    BY PickedIsScope
  <1>5. (IF command.selectors = <<>> THEN Nodes ELSE picked) = Scope
    BY <1>3, <1>4
  <1>6. \A e \in Edges : e[1] \in Entries(tree)
    BY ComposedEdges, Sources DEF Answered, AsGiven
  <1>7. {e \in Edges : command.selectors = <<>> \/ e[1] \in picked} = {e \in Edges : e[1] \in Scope}
    <2>1. \A e \in Edges : (command.selectors = <<>> \/ e[1] \in picked) <=> e[1] \in Scope
      BY <1>2, <1>3, <1>4, <1>6
    <2>2. QED
      BY <2>1
  <1>8. QED
    BY <1>1, <1>5, <1>7 DEF ProjectNodes, ProjectEdges

\* A namespace of a node is printed when there is something wanted in it, and
\* told as its graph told it.
LEMMA NodeBlockTells ==
  ASSUME command.verb = "nodes"
  PROVE  \A m : (~NothingKept(m) <=> Wanted(m)) /\ Block(m) = Told(m)
  <1>1. Whole <=> command.fields = {}
    BY DEF Whole
  <1>2. QED
    BY <1>1 DEF NothingKept, Wanted, Block, Told

\* The occurrences of an edge that are wanted, as told.
LEMMA EdgeBlockTells ==
  ASSUME command.verb = "edges", NEW occurrences, occurrences # {}
  PROVE  /\ ~NothingKept(occurrences) <=> \E o \in occurrences : Wanted(o)
         /\ Block(occurrences) = {Told(o) : o \in {q \in occurrences : Wanted(q)}}
  <1>1. CASE Whole
    <2>1. \A o : Wanted(o) /\ Told(o) = o
      BY <1>1 DEF Wanted, Told
    <2>2. command.fields = {} \/ "occurrences" \in command.fields
      BY <1>1 DEF Whole
    <2>3. Block(occurrences) = occurrences /\ ~NothingKept(occurrences)
      BY <2>2 DEF Block, NothingKept, EdgeBlock
    <2>4. {Told(o) : o \in {q \in occurrences : Wanted(q)}} = occurrences
      BY <2>1
    <2>5. QED
      BY <2>1, <2>3, <2>4
  <1>2. CASE ~Whole
    <2>1. command.fields # {} /\ "occurrences" \notin command.fields
      BY <1>2 DEF Whole
    <2>2. \A o : (Wanted(o) <=> Carries(o, command.fields)) /\ Told(o) = Kept(o, command.fields)
      BY <1>2 DEF Wanted, Told
    <2> DEFINE kept == {Kept(o, command.fields) : o \in {q \in occurrences : Carries(q, command.fields)}}
    <2>3. Block(occurrences) = kept /\ (NothingKept(occurrences) <=> kept = {})
      BY <2>1 DEF Block, NothingKept, EdgeBlock
    <2>4. {q \in occurrences : Carries(q, command.fields)} = {q \in occurrences : Wanted(q)}
      BY <2>2
    <2>5. kept = {Told(o) : o \in {q \in occurrences : Wanted(q)}}
      BY <2>2, <2>4
    <2>6. kept = {} <=> ~\E o \in occurrences : Wanted(o)
      BY <2>2
    <2>7. QED
      BY <2>3, <2>5, <2>6
  <1>3. QED
    BY <1>1, <1>2

\* One namespace of the nodes printed is what its graph says of those meant.
LEMMA NodesTold ==
  ASSUME Answered, pc = "printed", command.verb = "nodes", NEW i \in DOMAIN BuildSet(tree)
  PROVE  PrintedOf(BuildSet(tree)[i].label) = ToldBy(BuildSet(tree)[i])
  <1> DEFINE B == BuildSet(tree)
             l == B[i].label
             m == B[i].nodes
             nodes == graph.nodes
             shown == PrintedOf(l)
             tells == ToldBy(B[i])
  <1>1. /\ NodesUpTo(nodes, B, GraphCount) /\ i \in 1 .. GraphCount
        /\ \A j \in 1 .. GraphCount : B[j].label = l => i = j
    BY ComposedTree, TheGraphs, LabelsApart DEF Answered, GraphIsComposed, DistinctLabels
  <1>2. /\ \A k : k \in DOMAIN shown <=> k \in Scope /\ Shows(nodes[k], l)
        /\ \A k \in DOMAIN shown : shown[k] = Block(nodes[k].of[l])
    BY PrintedTells, OneNamespace
  <1>3. \A k \in Scope : k \in DOMAIN nodes
    <2>1. DOMAIN nodes = Entries(tree)
      BY ComposedNodes DEF Answered, AsGiven
    <2>2. \A s \in ToSet(command.selectors) : \A k \in Meant(s) : k \in Entries(tree)
      BY <2>1 DEF Meant, MatchedBy, Nodes
    <2>3. QED
      BY <2>1, <2>2 DEF Scope
  <1> HIDE DEF B
  <1>4. \A k \in DOMAIN nodes : l \in DOMAIN nodes[k].of <=> k \in DOMAIN m
    BY <1>1 DEF NodesUpTo
  <1>5. \A k \in DOMAIN m : k \in DOMAIN nodes /\ nodes[k].of[l] = m[k]
    BY <1>1 DEF NodesUpTo
  <1>6. \A x : (~NothingKept(x) <=> Wanted(x)) /\ Block(x) = Told(x)
    BY NodeBlockTells
  <1>7. IsFunction(shown)
    BY PrintedIsFunction
  <1> HIDE DEF l, m, nodes, shown
  <1>8. \A k : k \in DOMAIN shown <=> k \in Scope /\ k \in DOMAIN m /\ Asked(l) /\ Wanted(m[k])
    BY <1>2, <1>3, <1>4, <1>5, <1>6 DEF Shows
  <1>9. \A k \in DOMAIN shown : shown[k] = Told(m[k])
    BY <1>2, <1>5, <1>6, <1>8
  <1>10. shown = tells
    <2>1. CASE Asked(l)
      <3>1. tells = ToldOfNodes(B[i])
        BY <2>1 DEF ToldBy, l
      <3>2. tells = [k \in {j \in DOMAIN m \cap Scope : Wanted(m[j])} |-> Told(m[k])]
        BY <3>1 DEF ToldOfNodes, m
      <3> HIDE DEF tells
      <3>3. IsFunction(tells)
        BY <3>2 DEF IsFunction
      <3>4. \A k : k \in DOMAIN tells <=> k \in DOMAIN m /\ k \in Scope /\ Wanted(m[k])
        BY <3>2
      <3>5. \A k \in DOMAIN tells : tells[k] = Told(m[k])
        BY <3>2
      <3>6. \A k : k \in DOMAIN shown <=> k \in DOMAIN tells
        BY <1>8, <2>1, <3>4
      <3>7. \A k \in DOMAIN shown : shown[k] = tells[k]
        BY <1>9, <3>5, <3>6
      <3>8. QED
        BY <1>7, <3>3, <3>6, <3>7, SameFunction
    <2>2. CASE ~Asked(l)
      <3>1. tells = <<>>
        BY <2>2 DEF ToldBy, l
      <3>2. IsFunction(tells) /\ \A x : x \notin DOMAIN tells
        BY <3>1, ToldIsFunction
      <3> HIDE DEF tells
      <3>3. \A k : k \in DOMAIN shown <=> k \in DOMAIN tells
        BY <1>8, <2>2, <3>2
      <3>4. \A k \in DOMAIN shown : shown[k] = tells[k]
        BY <3>2, <3>3
      <3>5. QED
        BY <1>7, <3>2, <3>3, <3>4, SameFunction
    <2>3. QED
      BY <2>1, <2>2
  <1>11. QED
    BY <1>10 DEF B, l, shown

\* And one of the edges printed, of those whose source is meant.
LEMMA EdgesTold ==
  ASSUME Answered, pc = "printed", command.verb = "edges", NEW i \in DOMAIN BuildSet(tree)
  PROVE  PrintedOf(BuildSet(tree)[i].label) = ToldBy(BuildSet(tree)[i])
  <1> DEFINE B == BuildSet(tree)
             l == B[i].label
             o == B[i].edges
             edges == graph.edges
             shown == PrintedOf(l)
             tells == ToldBy(B[i])
             keys == {e \in Edges : e[1] \in Scope}
             wanted(e) == \E q \in o[e] : Wanted(q)
             kept(e) == {Told(x) : x \in {q \in o[e] : Wanted(q)}}
  <1>1. /\ EdgesUpTo(edges, B, GraphCount) /\ i \in 1 .. GraphCount
        /\ \A j \in 1 .. GraphCount : B[j].label = l => i = j
    BY ComposedTree, TheGraphs, LabelsApart DEF Answered, GraphIsComposed, DistinctLabels
  <1>2. /\ \A k : k \in DOMAIN shown <=> k \in keys /\ Shows(edges[k], l)
        /\ \A k \in DOMAIN shown : shown[k] = Block(edges[k].of[l])
    BY PrintedTells, OneNamespace
  <1>3. \A k : k \in keys <=> k \in DOMAIN edges /\ k[1] \in Scope
    BY DEF Edges
  <1> HIDE DEF B
  <1>4. \A k \in DOMAIN edges : l \in DOMAIN edges[k].of <=> k \in DOMAIN o /\ o[k] # {}
    BY <1>1 DEF EdgesUpTo
  <1>5. \A k \in DOMAIN o : k \in DOMAIN edges /\ (o[k] # {} => edges[k].of[l] = o[k])
    BY <1>1 DEF EdgesUpTo
  <1>6. \A x : x # {} => /\ ~NothingKept(x) <=> \E q \in x : Wanted(q)
                         /\ Block(x) = {Told(q) : q \in {y \in x : Wanted(y)}}
    BY EdgeBlockTells
  <1>7. IsFunction(shown)
    BY PrintedIsFunction
  <1>8. \A k : wanted(k) => o[k] # {}
    OBVIOUS
  <1>9. \A k : o[k] # {} => (~NothingKept(o[k]) <=> wanted(k)) /\ Block(o[k]) = kept(k)
    BY <1>6
  <1> HIDE DEF l, o, edges, shown, keys, wanted, kept
  <1>10. \A k : k \in DOMAIN shown <=> k[1] \in Scope /\ k \in DOMAIN o /\ Asked(l) /\ wanted(k)
    <2>1. ASSUME NEW k \in DOMAIN shown
          PROVE  k[1] \in Scope /\ k \in DOMAIN o /\ Asked(l) /\ wanted(k)
      <3>1. k \in DOMAIN edges /\ k[1] \in Scope /\ l \in DOMAIN edges[k].of /\ Asked(l)
            /\ ~NothingKept(edges[k].of[l])
        BY <1>2, <1>3, <2>1 DEF Shows
      <3>2. k \in DOMAIN o /\ o[k] # {} /\ edges[k].of[l] = o[k]
        BY <1>4, <1>5, <3>1
      <3>3. QED
        BY <1>9, <3>1, <3>2
    <2>2. ASSUME NEW k \in DOMAIN o, k[1] \in Scope, Asked(l), wanted(k)
          PROVE  k \in DOMAIN shown
      <3>1. o[k] # {} /\ k \in DOMAIN edges /\ edges[k].of[l] = o[k] /\ l \in DOMAIN edges[k].of
        BY <1>4, <1>5, <1>8, <2>2
      <3>2. ~NothingKept(edges[k].of[l])
        BY <1>9, <2>2, <3>1
      <3>3. QED
        BY <1>2, <1>3, <2>2, <3>1, <3>2 DEF Shows
    <2>3. QED
      BY <2>1, <2>2
  <1>11. \A k \in DOMAIN shown : shown[k] = kept(k)
    BY <1>2, <1>5, <1>8, <1>9, <1>10
  <1>12. shown = tells
    <2>1. CASE Asked(l)
      <3>1. tells = ToldOfEdges(B[i])
        BY <2>1 DEF ToldBy, l
      <3>2. tells = [e \in {d \in DOMAIN o : d[1] \in Scope /\ wanted(d)} |-> kept(e)]
        BY <3>1 DEF ToldOfEdges, o, wanted, kept
      <3> HIDE DEF tells
      <3>3. IsFunction(tells)
        BY <3>2 DEF IsFunction
      <3>4. \A k : k \in DOMAIN tells <=> k \in DOMAIN o /\ k[1] \in Scope /\ wanted(k)
        BY <3>2
      <3>5. \A k \in DOMAIN tells : tells[k] = kept(k)
        BY <3>2
      <3>6. \A k : k \in DOMAIN shown <=> k \in DOMAIN tells
        BY <1>10, <2>1, <3>4
      <3>7. \A k \in DOMAIN shown : shown[k] = tells[k]
        BY <1>11, <3>5, <3>6
      <3>8. QED
        BY <1>7, <3>3, <3>6, <3>7, SameFunction
    <2>2. CASE ~Asked(l)
      <3>1. tells = <<>>
        BY <2>2 DEF ToldBy, l
      <3>2. IsFunction(tells) /\ \A x : x \notin DOMAIN tells
        BY <3>1, ToldIsFunction
      <3> HIDE DEF tells
      <3>3. \A k : k \in DOMAIN shown <=> k \in DOMAIN tells
        BY <1>10, <2>2, <3>2
      <3>4. \A k \in DOMAIN shown : shown[k] = tells[k]
        BY <3>2, <3>3
      <3>5. QED
        BY <1>7, <3>2, <3>3, <3>4, SameFunction
    <2>3. QED
      BY <2>1, <2>2
  <1>13. QED
    BY <1>12 DEF B, l, shown

\* nodes and edges answer with what each graph asked for says of the paths
\* the selectors stand for, whatever is selected, filtered and configured,
\* from any directory whose names are no patterns (run_nodes, run_edges).
THEOREM SelectorsAnswered ==
  ASSUME PlainDirectories
  PROVE  ReadingSpec => []ProjectionAnswersTheSelectors
  <1>1. AsGiven /\ GraphIsComposed /\ SelectInvariant => ProjectionAnswersTheSelectors
    <2> SUFFICES ASSUME AsGiven, GraphIsComposed, SelectInvariant
                 PROVE  ProjectionAnswersTheSelectors
      OBVIOUS
    <2>1. ASSUME pc = "failed" PROVE Mistaken
      <3>1. Answered
        BY <2>1 DEF Answered
      <3>2. \/ ~(command.namespaces \subseteq Declarable)
            \/ \E s \in ToSet(command.selectors) : NotFound(s)
        BY <2>1 DEF SelectInvariant
      <3>3. QED
        BY <3>1, <3>2, SelectorsMean DEF Mistaken
    <2>2. ASSUME pc = "printed"
          PROVE  /\ ~Mistaken
                 /\ ToSet(said) = {s \in ToSet(command.selectors) : Meant(s) = {}}
                 /\ \A i, j \in DOMAIN said : said[i] = said[j] => i = j
                 /\ \A i \in DOMAIN BuildSet(tree) :
                      PrintedOf(BuildSet(tree)[i].label) = ToldBy(BuildSet(tree)[i])
                 /\ \A k \in DOMAIN printed : Filtering => DOMAIN printed[k] # {}
                 /\ ~Filtering => DOMAIN printed = IF command.verb = "nodes" THEN Scope
                                                   ELSE {e \in Edges : e[1] \in Scope}
      <3>1. Answered
        BY <2>2 DEF Answered
      <3>2. command.verb \in {"nodes", "edges"}
        <4>1. command.verb # "impact"
          <5>1. CASE command.verb = "impact"
            <6>1. pc \in {"build", "walk", "done", "not_found"}
              BY <5>1 DEF SelectInvariant
            <6>2. QED
              BY <2>2, <6>1
          <5>2. QED
            BY <5>1
        <4>2. command.verb \in {"impact", "nodes", "edges"}
          BY ReadingAssumption DEF SelectInvariant
        <4>3. QED
          BY <4>1, <4>2
      <3>3. Selecting /\ Treated = ToSet(command.selectors)
        BY <2>2, <3>1, PickedIsScope
      <3>4. \A s \in ToSet(command.selectors) :
              /\ Resolved(s) = Meant(s)
              /\ NotFound(s) <=> ~s.glob /\ Meant(s) = {} /\ ~IsDirectoryAt(At(s))
        BY <3>1, SelectorsMean
      <3>5. ~Mistaken
        BY <3>3, <3>4 DEF Selecting, Mistaken
      <3>6. ToSet(said) = {s \in ToSet(command.selectors) : Meant(s) = {}}
        <4>1. \A s : s \in ToSet(said) <=> s \in ToSet(command.selectors) /\ Meant(s) = {}
          BY <3>3, <3>4 DEF Selecting
        <4>2. QED
          BY <4>1
      <3>7. \A i, j \in DOMAIN said : said[i] = said[j] => i = j
        BY <3>3 DEF Selecting, Distinct
      <3>8. \A i \in DOMAIN BuildSet(tree) :
              PrintedOf(BuildSet(tree)[i].label) = ToldBy(BuildSet(tree)[i])
        BY <2>2, <3>1, <3>2, NodesTold, EdgesTold
      <3> DEFINE scoped == {e \in Edges : e[1] \in Scope}
                 entries == IF command.verb = "nodes" THEN graph.nodes ELSE graph.edges
                 keys == IF command.verb = "nodes" THEN Scope ELSE scoped
      <3>9. printed = Projection(entries, keys)
        BY <2>2, <3>1, <3>2, PrintedTells
      <3> HIDE DEF entries, keys
      <3>10. /\ \A k : k \in DOMAIN printed <=>
                  k \in keys /\ (Filtering => DOMAIN FilterMetadata(entries[k]) # {})
             /\ \A k \in DOMAIN printed : printed[k] = FilterMetadata(entries[k])
        <4> DEFINE view == Projection(entries, keys)
        <4>1. \A k : k \in DOMAIN view <=>
                k \in keys /\ (Filtering => DOMAIN FilterMetadata(entries[k]) # {})
          BY ProjectionTells
        <4>2. \A k \in DOMAIN view : view[k] = FilterMetadata(entries[k])
          BY ProjectionTells
        <4>3. printed = view
          BY <3>9
        <4> HIDE DEF view
        <4>4. QED
          BY <4>1, <4>2, <4>3
      <3>11. \A k \in DOMAIN printed : Filtering => DOMAIN printed[k] # {}
        BY <3>10
      <3>12. ~Filtering => DOMAIN printed = keys
        BY <3>10
      <3>13. QED
        BY <3>5, <3>6, <3>7, <3>8, <3>11, <3>12 DEF keys
    <2>3. QED
      BY <2>1, <2>2 DEF ProjectionAnswersTheSelectors
  <1>2. QED
    BY <1>1, AsGivenAlways, GraphIsComposedAlways, SelectAlways, PTL

=============================================================================
