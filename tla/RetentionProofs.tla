--------------------------- MODULE RetentionProofs ---------------------------
(***************************************************************************)
(* How many bytes a set of files has: BytesOf folds over the set in an     *)
(* order that CHOOSE picks, and these lemmas show that the order does not  *)
(* matter.  They rest on induction over the natural numbers, as the        *)
(* statement that a set of numbers with 0 and each successor has them all. *)
(***************************************************************************)
EXTENDS Retention, FiniteSetTheorems, TLAPS

LEMMA LeastNumber ==
    ASSUME NEW T \in SUBSET Nat, T # {}
    PROVE  \E x \in T : \A y \in T : x <= y
<1>1. {ss \in Nat \X Nat : ss[1] < ss[2]} = OpToRel(<, Nat)
  BY DEF OpToRel
<1>2. IsWellFoundedOn({ss \in Nat \X Nat : ss[1] < ss[2]}, Nat)
  BY <1>1, NatLessThanWellFounded
<1>3. PICK x \in T : \A y \in T : <<y, x>> \notin {ss \in Nat \X Nat : ss[1] < ss[2]}
  BY <1>2, WFMin
<1>4. ASSUME NEW y \in T, y < x PROVE FALSE
  <2>1. <<y, x>> \in {ss \in Nat \X Nat : ss[1] < ss[2]}
    BY <1>4
  <2> QED BY <1>3, <2>1
<1> QED BY <1>4

LEMMA Induction ==
    ASSUME NEW A \in SUBSET Nat, 0 \in A, \A n \in A : n + 1 \in A
    PROVE  \A n \in Nat : n \in A
<1> SUFFICES ASSUME Nat \ A # {} PROVE FALSE
  OBVIOUS
<1>1. PICK x \in Nat \ A : \A y \in Nat \ A : x <= y
  BY LeastNumber
<1>2. x - 1 \in A
  BY <1>1
<1> QED BY <1>1, <1>2

-----------------------------------------------------------------------------
(* The equation of the fold                                                *)

Picked(S) == CHOOSE n \in S : TRUE

Term(fs, g, S) == IF S = {} THEN 0 ELSE fs[Picked(S)].bytes + g[S \ {Picked(S)}]

LEMMA FoldExists ==
    ASSUME NEW fs, NEW S, IsFiniteSet(S)
    PROVE  \E g : g = [s \in SUBSET S |-> Term(fs, g, s)]
<1> DEFINE Solves(g, n) == \A s \in SUBSET S : Cardinality(s) <= n => g[s] = Term(fs, g, s)
           A == {n \in Nat : \E g : Solves(g, n)}
<1>1. \A s \in SUBSET S : /\ Cardinality(s) \in Nat /\ Cardinality(s) <= Cardinality(S)
                          /\ Cardinality(s) = 0 <=> s = {}
  BY FS_Subset, FS_CardinalityType, FS_EmptySet
<1>2. 0 \in A
  <2>1. Solves([s \in SUBSET S |-> 0], 0)
    BY <1>1 DEF Term
  <2> QED BY <2>1
<1>3. ASSUME NEW n \in A PROVE n + 1 \in A
  <2>1. PICK g : Solves(g, n)
    OBVIOUS
  <2> DEFINE h == [s \in SUBSET S |-> Term(fs, g, s)]
  <2>2. ASSUME NEW s \in SUBSET S, Cardinality(s) <= n + 1
        PROVE  Term(fs, g, s) = Term(fs, h, s)
    <3>1. CASE s = {}
      BY <3>1 DEF Term
    <3>2. CASE s # {}
      <4> DEFINE r == s \ {Picked(s)}
      <4>1. Picked(s) \in s
        BY <3>2 DEF Picked
      <4>2. r \in SUBSET S /\ Cardinality(r) <= n
        BY <1>1, <2>2, <4>1, FS_RemoveElement, FS_Subset
      <4>3. h[r] = g[r]
        BY <2>1, <4>2
      <4> QED BY <3>2, <4>3 DEF Term
    <3> QED BY <3>1, <3>2
  <2>3. Solves(h, n + 1)
    BY <2>2
  <2>4. \E f : Solves(f, n + 1)
    <3> HIDE DEF Solves, h
    <3> QED BY <2>3
  <2>5. n + 1 \in Nat
    OBVIOUS
  <2> QED BY <2>4, <2>5
<1>4. Cardinality(S) \in A
  <2>1. A \in SUBSET Nat
    OBVIOUS
  <2> HIDE DEF A
  <2>2. \A n \in Nat : n \in A
    BY <1>2, <1>3, <2>1, Induction
  <2> QED BY <2>2, FS_CardinalityType
<1>5. PICK g : Solves(g, Cardinality(S))
  <2> HIDE DEF Solves
  <2> QED BY <1>4
<1> DEFINE h == [s \in SUBSET S |-> Term(fs, g, s)]
<1>6. ASSUME NEW s \in SUBSET S PROVE h[s] = g[s]
  BY <1>1, <1>5, <1>6
<1>7. ASSUME NEW s \in SUBSET S PROVE Term(fs, h, s) = Term(fs, g, s)
  <2>1. s # {} => s \ {Picked(s)} \in SUBSET S
    OBVIOUS
  <2> QED BY <1>6, <2>1 DEF Term
<1>8. h = [s \in SUBSET S |-> Term(fs, h, s)]
  BY <1>7
<1> QED BY <1>8

LEMMA FoldOf ==
    ASSUME NEW fs, NEW S, IsFiniteSet(S)
    PROVE  \E g : /\ g = [s \in SUBSET S |-> Term(fs, g, s)]
                  /\ BytesOf(fs, S) = g[S]
<1> DEFINE g == CHOOSE h : h = [s \in SUBSET S |-> Term(fs, h, s)]
<1>1. g = [s \in SUBSET S |-> Term(fs, g, s)]
  BY FoldExists
<1>2. BytesOf(fs, S) = g[S]
  BY DEF BytesOf, MapThenSumSet, MapThenFoldSet, Term, Picked
<1> QED BY <1>1, <1>2

Folds(fs, g, S) == g = [s \in SUBSET S |-> Term(fs, g, s)]

(* A family of subsets of a finite set that has every set all of whose     *)
(* proper subsets it has, has all the subsets.                             *)
LEMMA SubsetInduction ==
    ASSUME NEW S, IsFiniteSet(S), NEW A \in SUBSET (SUBSET S),
           \A s \in SUBSET S : (\A r \in SUBSET s : r # s => r \in A) => s \in A
    PROVE  \A s \in SUBSET S : s \in A
<1> SUFFICES ASSUME NEW b \in SUBSET S, b \notin A PROVE FALSE
  OBVIOUS
<1>1. \A s \in SUBSET S : IsFiniteSet(s) /\ Cardinality(s) \in Nat
  BY FS_Subset, FS_CardinalityType
<1> DEFINE T == {Cardinality(s) : s \in (SUBSET S) \ A}
<1>2. T \in SUBSET Nat /\ T # {}
  BY <1>1
<1>3. PICK c \in T : \A y \in T : c <= y
  <2> HIDE DEF T
  <2> QED BY <1>2, LeastNumber
<1>4. PICK s \in (SUBSET S) \ A : Cardinality(s) = c
  BY <1>3
<1>5. ASSUME NEW r \in SUBSET s, r # s PROVE r \in A
  <2>1. Cardinality(r) < Cardinality(s)
    BY <1>1, <1>5, FS_Subset
  <2>2. Cardinality(r) \notin T
    BY <1>1, <1>3, <1>4, <2>1
  <2> QED BY <2>2
<1> QED BY <1>4, <1>5

WeighAlike(fs, gs, T) == \A n \in T : fs[n].bytes = gs[n].bytes

(* Two folds over files that weigh alike agree, wherever they began.       *)
LEMMA FoldUnique ==
    ASSUME NEW fs, NEW gs, NEW S, IsFiniteSet(S), NEW T \in SUBSET S,
           WeighAlike(fs, gs, T),
           NEW g, Folds(fs, g, S), NEW h, Folds(gs, h, T)
    PROVE  \A t \in SUBSET T : g[t] = h[t]
<1> DEFINE A == {t \in SUBSET T : g[t] = h[t]}
<1>1. \A t \in SUBSET T : g[t] = Term(fs, g, t) /\ h[t] = Term(gs, h, t)
  BY DEF Folds
<1>2. ASSUME NEW t \in SUBSET T, \A r \in SUBSET t : r # t => r \in A
      PROVE  t \in A
  <2>1. CASE t = {}
    BY <1>1, <2>1 DEF Term
  <2>2. CASE t # {}
    <3>1. Picked(t) \in t
      BY <2>2 DEF Picked
    <3>2. t \ {Picked(t)} \in A
      BY <1>2, <3>1
    <3> QED BY <1>1, <2>2, <3>1, <3>2 DEF Term, WeighAlike
  <2> QED BY <2>1, <2>2
<1>3. IsFiniteSet(T)
  BY FS_Subset
<1>4. \A t \in SUBSET T : t \in A
  <2>1. A \in SUBSET (SUBSET T)
    OBVIOUS
  <2> HIDE DEF A
  <2> QED BY <1>2, <1>3, <2>1, SubsetInduction
<1> QED BY <1>4

Weighed(fs, S) == IsFiniteSet(S) /\ \A n \in S : fs[n].bytes \in Nat

(* Any member may be taken out first.                                      *)
LEMMA FoldInAnyOrder ==
    ASSUME NEW fs, NEW S, Weighed(fs, S), NEW g, Folds(fs, g, S)
    PROVE  \A s \in SUBSET S : /\ g[s] \in Nat
                               /\ \A x \in s : g[s] = fs[x].bytes + g[s \ {x}]
<1> DEFINE Good(s) == g[s] \in Nat /\ \A x \in s : g[s] = fs[x].bytes + g[s \ {x}]
           A == {s \in SUBSET S : Good(s)}
<1>1. \A s \in SUBSET S : g[s] = Term(fs, g, s)
  BY DEF Folds
<1>2. ASSUME NEW s \in SUBSET S, \A r \in SUBSET s : r # s => r \in A
      PROVE  s \in A
  <2>1. CASE s = {}
    <3>1. g[s] = Term(fs, g, s)
      BY <1>1
    <3>2. g[s] = 0
      BY <2>1, <3>1 DEF Term
    <3> QED BY <2>1, <3>2
  <2>2. CASE s # {}
    <3> DEFINE p == Picked(s)
    <3>1. p \in s /\ g[s] = fs[p].bytes + g[s \ {p}]
      <4>1. p \in s
        BY <2>2 DEF Picked
      <4>2. g[s] = Term(fs, g, s)
        BY <1>1
      <4> QED BY <2>2, <4>1, <4>2 DEF Term
    <3> HIDE DEF p
    <3>2. \A x \in s : fs[x].bytes \in Nat
      BY DEF Weighed
    <3>3. \A x \in s : Good(s \ {x})
      BY <1>2
    <3>4. g[s] \in Nat
      <4>1. fs[p].bytes \in Nat
        BY <3>1, <3>2
      <4>2. g[s \ {p}] \in Nat
        BY <3>1, <3>3
      <4> QED BY <3>1, <4>1, <4>2
    <3>5. ASSUME NEW x \in s, x # p PROVE g[s] = fs[x].bytes + g[s \ {x}]
      <4>1. (s \ {p}) \ {x} = (s \ {x}) \ {p}
        OBVIOUS
      <4>2. g[s \ {p}] = fs[x].bytes + g[(s \ {p}) \ {x}]
        BY <3>1, <3>3, <3>5
      <4>3. g[s \ {x}] = fs[p].bytes + g[(s \ {x}) \ {p}]
        BY <3>1, <3>3, <3>5
      <4>4. g[(s \ {p}) \ {x}] \in Nat
        <5>1. (s \ {p}) \ {x} \in SUBSET s /\ (s \ {p}) \ {x} # s
          BY <3>5
        <5> DEFINE r == (s \ {p}) \ {x}
        <5>2. r \in A
          BY <1>2, <5>1
        <5> QED BY <5>2
      <4>5. fs[p].bytes \in Nat /\ fs[x].bytes \in Nat
        BY <3>1, <3>2
      <4>6. g[s] = fs[p].bytes + (fs[x].bytes + g[(s \ {p}) \ {x}])
        BY <3>1, <4>2
      <4>7. g[s \ {x}] = fs[p].bytes + g[(s \ {p}) \ {x}]
        BY <4>1, <4>3
      <4> QED BY <4>4, <4>5, <4>6, <4>7
    <3> QED BY <3>1, <3>4, <3>5
  <2> QED BY <2>1, <2>2
<1>3. IsFiniteSet(S)
  BY DEF Weighed
<1>4. \A s \in SUBSET S : s \in A
  <2>1. A \in SUBSET (SUBSET S)
    OBVIOUS
  <2> HIDE DEF A
  <2> QED BY <1>2, <1>3, <2>1, SubsetInduction
<1> QED BY <1>4

-----------------------------------------------------------------------------
(* The bytes of a set of files                                             *)

LEMMA BytesNone == ASSUME NEW fs PROVE BytesOf(fs, {}) = 0
<1>1. IsFiniteSet({})
  BY FS_EmptySet
<1>2. PICK g : g = [s \in SUBSET {} |-> Term(fs, g, s)] /\ BytesOf(fs, {}) = g[{}]
  BY <1>1, FoldOf
<1>3. g[{}] = Term(fs, g, {})
  BY <1>2
<1> QED BY <1>2, <1>3 DEF Term

LEMMA BytesSplit ==
    ASSUME NEW fs, NEW S, Weighed(fs, S)
    PROVE  /\ BytesOf(fs, S) \in Nat
           /\ \A x \in S : BytesOf(fs, S) = fs[x].bytes + BytesOf(fs, S \ {x})
<1>1. PICK g : Folds(fs, g, S) /\ BytesOf(fs, S) = g[S]
  <2>1. IsFiniteSet(S)
    BY DEF Weighed
  <2> QED BY <2>1, FoldOf DEF Folds
<1>2. ASSUME NEW x \in S PROVE BytesOf(fs, S \ {x}) = g[S \ {x}]
  <2>1. IsFiniteSet(S) /\ IsFiniteSet(S \ {x})
    BY FS_Subset DEF Weighed
  <2>2. PICK h : Folds(fs, h, S \ {x}) /\ BytesOf(fs, S \ {x}) = h[S \ {x}]
    BY <2>1, FoldOf DEF Folds
  <2>3. \A t \in SUBSET (S \ {x}) : g[t] = h[t]
    <3> DEFINE r == S \ {x}
    <3>1. r \in SUBSET S
      OBVIOUS
    <3>2. IsFiniteSet(S) /\ Folds(fs, g, S) /\ Folds(fs, h, r)
      BY <1>1, <2>1, <2>2
    <3> HIDE DEF r
    <3>3. \A t \in SUBSET r : g[t] = h[t]
      <4>1. WeighAlike(fs, fs, r)
        BY DEF WeighAlike
      <4>2. IsFiniteSet(S) /\ r \in SUBSET S
        BY <3>1, <3>2
      <4>3. Folds(fs, g, S)
        BY <3>2
      <4>4. Folds(fs, h, r)
        BY <3>2
      <4> QED BY <4>1, <4>2, <4>3, <4>4, FoldUnique
    <3> QED BY <3>3 DEF r
  <2> QED BY <2>2, <2>3
<1>3. g[S] \in Nat /\ \A x \in S : g[S] = fs[x].bytes + g[S \ {x}]
  BY <1>1, FoldInAnyOrder
<1> QED BY <1>1, <1>2, <1>3

(* Files that weigh the same together weigh the same.                      *)
LEMMA BytesSame ==
    ASSUME NEW fs, NEW gs, NEW S, IsFiniteSet(S),
           WeighAlike(fs, gs, S)
    PROVE  BytesOf(fs, S) = BytesOf(gs, S)
<1>1. PICK g : Folds(fs, g, S) /\ BytesOf(fs, S) = g[S]
  BY FoldOf DEF Folds
<1>2. PICK h : Folds(gs, h, S) /\ BytesOf(gs, S) = h[S]
  BY FoldOf DEF Folds
<1>3. \A t \in SUBSET S : g[t] = h[t]
  BY <1>1, <1>2, FoldUnique
<1> QED BY <1>1, <1>2, <1>3

(* A set weighs what a part of it and the rest of it weigh.                *)
LEMMA BytesApart ==
    ASSUME NEW fs, NEW S, Weighed(fs, S), NEW T \in SUBSET S
    PROVE  BytesOf(fs, S) = BytesOf(fs, T) + BytesOf(fs, S \ T)
<1> DEFINE A == {t \in SUBSET S : BytesOf(fs, S) = BytesOf(fs, t) + BytesOf(fs, S \ t)}
<1>1. \A t \in SUBSET S : Weighed(fs, t)
  BY FS_Subset DEF Weighed
<1>2. ASSUME NEW t \in SUBSET S, \A r \in SUBSET t : r # t => r \in A
      PROVE  t \in A
  <2>1. BytesOf(fs, S) \in Nat
    BY BytesSplit
  <2>2. CASE t = {}
    <3>1. S \ t = S
      BY <2>2
    <3> QED BY <2>1, <2>2, <3>1, BytesNone
  <2>3. CASE t # {}
    <3>1. PICK x \in t : TRUE
      BY <2>3
    <3> DEFINE r == t \ {x}
               u == S \ r
    <3>2. r \in A
      BY <1>2, <3>1
    <3>3. x \in u /\ u \ {x} = S \ t
      OBVIOUS
    <3>4. BytesOf(fs, S) = BytesOf(fs, r) + BytesOf(fs, u)
      BY <3>2
    <3>5. Weighed(fs, r) /\ Weighed(fs, u) /\ Weighed(fs, t) /\ Weighed(fs, S \ t)
      BY <1>1
    <3> HIDE DEF u
    <3>6. BytesOf(fs, u) = fs[x].bytes + BytesOf(fs, S \ t)
      BY <3>3, <3>5, BytesSplit
    <3>7. BytesOf(fs, t) = fs[x].bytes + BytesOf(fs, r)
      BY <3>5, BytesSplit
    <3>8. fs[x].bytes \in Nat /\ BytesOf(fs, r) \in Nat /\ BytesOf(fs, S \ t) \in Nat
      <4>1. BytesOf(fs, r) \in Nat
        BY <3>5, BytesSplit
      <4>2. BytesOf(fs, S \ t) \in Nat
        BY <3>5, BytesSplit
      <4> QED BY <3>1, <4>1, <4>2 DEF Weighed
    <3> HIDE DEF r
    <3>9. BytesOf(fs, S) = BytesOf(fs, t) + BytesOf(fs, S \ t)
      BY <3>4, <3>6, <3>7, <3>8
    <3> QED BY <3>9
  <2> QED BY <2>2, <2>3
<1>3. IsFiniteSet(S)
  BY DEF Weighed
<1>4. \A t \in SUBSET S : t \in A
  <2>1. A \in SUBSET (SUBSET S)
    OBVIOUS
  <2> HIDE DEF A
  <2> QED BY <1>2, <1>3, <2>1, SubsetInduction
<1> QED BY <1>4

LEMMA BytesMonotone ==
    ASSUME NEW fs, NEW S, Weighed(fs, S), NEW T \in SUBSET S
    PROVE  BytesOf(fs, T) <= BytesOf(fs, S)
<1>1. Weighed(fs, T) /\ Weighed(fs, S \ T)
  BY FS_Subset DEF Weighed
<1>2. BytesOf(fs, T) \in Nat
  BY <1>1, BytesSplit
<1>3. BytesOf(fs, S \ T) \in Nat
  BY <1>1, BytesSplit
<1> QED BY <1>2, <1>3, BytesApart

-----------------------------------------------------------------------------
(* The weight and the number of the files of a partition                   *)

LEMMA NameIsFinite == IsFiniteSet(Name)
<1> DEFINE K == {"start", "finish", "tmp", "other"}
           f == [n \in Name |-> <<n.kind, n.id>>]
<1>1. IsFiniteSet(K)
  <2>1. K = ({"start"} \cup {"finish"}) \cup ({"tmp"} \cup {"other"})
    OBVIOUS
  <2> HIDE DEF K
  <2> QED BY <2>1, FS_Singleton, FS_Union
<1>2. IsFiniteSet(K \X Id)
  BY <1>1, IdAssumption, FS_Product
<1>3. \A n \in Name : /\ n = [kind |-> n.kind, id |-> n.id]
                      /\ n.kind \in K /\ n.id \in Id
  BY DEF Name, FinalName, TempName, OtherName, Kinds
<1>4. f \in [Name -> K \X Id]
  BY <1>3
<1>5. \A m, n \in Name : f[m] = f[n] => m = n
  BY <1>3
<1>6. f \in Injection(Name, K \X Id)
  <2> HIDE DEF f, K
  <2> QED BY <1>4, <1>5 DEF Injection, IsInjective
<1> QED BY <1>2, <1>6, FS_Injection

LEMMA PresentIsFinite ==
    ASSUME NEW fs \in Partition
    PROVE  /\ Weighed(fs, Present(fs))
           /\ IsFiniteSet(Present(fs))
           /\ Cardinality(Present(fs)) \in Nat
           /\ \A S \in SUBSET Present(fs) : Weighed(fs, S) /\ BytesOf(fs, S) \in Nat
<1>1. Present(fs) \in SUBSET Name
  BY DEF Present
<1>2. IsFiniteSet(Present(fs))
  BY <1>1, NameIsFinite, FS_Subset
<1>3. \A n \in Present(fs) : fs[n].bytes \in Nat
  BY LimitAssumption DEF Present, Partition, File
<1>4. \A S \in SUBSET Present(fs) : Weighed(fs, S)
  BY <1>2, <1>3, FS_Subset DEF Weighed
<1> QED BY <1>2, <1>4, FS_CardinalityType, BytesSplit

(* Two partitions that differ in one name only.                            *)
DifferIn(fs, gs, n) ==
    /\ fs \in Partition /\ gs \in Partition /\ n \in Name
    /\ \A m \in Name \ {n} : gs[m] = fs[m]

LEMMA RestWeighsTheSame ==
    ASSUME NEW fs, NEW gs, NEW n, DifferIn(fs, gs, n)
    PROVE  /\ Present(gs) \ {n} = Present(fs) \ {n}
           /\ BytesOf(gs, Present(fs) \ {n}) = BytesOf(fs, Present(fs) \ {n})
<1>1. Present(gs) \ {n} = Present(fs) \ {n}
  BY DEF DifferIn, Present
<1>2. WeighAlike(gs, fs, Present(fs) \ {n})
  BY DEF DifferIn, WeighAlike, Present
<1>3. IsFiniteSet(Present(fs) \ {n})
  BY PresentIsFinite, FS_RemoveElement DEF DifferIn
<1> QED BY <1>1, <1>2, <1>3, BytesSame

(* Whatever becomes of one file, the others have their bytes.              *)
LEMMA RestStays ==
    ASSUME NEW fs, NEW gs, NEW n, DifferIn(fs, gs, n)
    PROVE  BytesOf(gs, Present(gs) \ {n}) = BytesOf(fs, Present(fs) \ {n})
<1>1. Present(gs) \ {n} = Present(fs) \ {n}
  BY DEF DifferIn, Present
<1>2. BytesOf(gs, Present(fs) \ {n}) = BytesOf(fs, Present(fs) \ {n})
  BY RestWeighsTheSame
<1> QED BY <1>1, <1>2

(* One file less is less in bytes and in number.                           *)
LEMMA Emptied ==
    ASSUME NEW fs, NEW gs, NEW n, DifferIn(fs, gs, n), gs[n] = Absent
    PROVE  /\ BytesOf(gs, Present(gs)) = BytesOf(fs, Present(fs) \ {n})
           /\ Present(gs) = Present(fs) \ {n}
           /\ ~Overfull(fs) => ~Overfull(gs)
<1>1. Present(gs) = Present(fs) \ {n}
  BY DEF DifferIn, Present
<1>2. Present(gs) \ {n} = Present(gs)
  BY <1>1
<1>3. BytesOf(gs, Present(gs)) = BytesOf(fs, Present(fs) \ {n})
  BY <1>1, RestWeighsTheSame
<1>4. BytesOf(fs, Present(fs) \ {n}) <= BytesOf(fs, Present(fs))
  BY PresentIsFinite, BytesMonotone DEF DifferIn
<1>5. Cardinality(Present(gs)) <= Cardinality(Present(fs))
  BY <1>1, PresentIsFinite, FS_RemoveElement DEF DifferIn
<1>6. /\ BytesOf(fs, Present(fs)) \in Nat /\ BytesOf(fs, Present(fs) \ {n}) \in Nat
      /\ Cardinality(Present(fs)) \in Nat /\ Cardinality(Present(gs)) \in Nat
  BY PresentIsFinite DEF DifferIn
<1>7. ~Overfull(fs) => ~Overfull(gs)
  BY <1>3, <1>4, <1>5, <1>6, LimitAssumption DEF Overfull, FilesOf
<1> QED BY <1>1, <1>3, <1>7

(* What a file that is written to weighs beside the others.                *)
LEMMA Written ==
    ASSUME NEW fs, NEW gs, NEW n, DifferIn(fs, gs, n), gs[n] # Absent
    PROVE  /\ BytesOf(gs, Present(gs)) = gs[n].bytes + BytesOf(fs, Present(fs) \ {n})
           /\ BytesOf(gs, Present(gs) \ {n}) = BytesOf(fs, Present(fs) \ {n})
           /\ fs[n] = Absent => FilesOf(Present(gs)) = FilesOf(Present(fs)) + 1
           /\ fs[n] # Absent => FilesOf(Present(gs)) = FilesOf(Present(fs))
<1>1. Present(gs) = Present(fs) \cup {n} /\ n \in Present(gs)
  BY DEF DifferIn, Present
<1>2. BytesOf(gs, Present(gs)) = gs[n].bytes + BytesOf(gs, Present(gs) \ {n})
  BY <1>1, PresentIsFinite, BytesSplit DEF DifferIn
<1>3. BytesOf(gs, Present(gs) \ {n}) = BytesOf(fs, Present(fs) \ {n})
  BY RestWeighsTheSame
<1>4. CASE fs[n] = Absent
  <2>1. n \notin Present(fs)
    BY <1>4 DEF Present
  <2>2. Cardinality(Present(gs)) = Cardinality(Present(fs)) + 1
    BY <1>1, <2>1, PresentIsFinite, FS_AddElement DEF DifferIn
  <2>3. Cardinality(Present(fs)) \in Nat
    BY PresentIsFinite DEF DifferIn
  <2> QED BY <1>2, <1>3, <1>4, <2>2, <2>3 DEF FilesOf
<1>5. CASE fs[n] # Absent
  <2>1. Present(gs) = Present(fs)
    BY <1>1, <1>5 DEF Present, DifferIn
  <2> QED BY <1>2, <1>3, <1>5, <2>1
<1> QED BY <1>4, <1>5

(* A file under another name weighs what it weighed.                       *)
LEMMA Moved ==
    ASSUME NEW fs \in Partition, NEW gs \in Partition, NEW m \in Name, NEW n \in Name, m # n,
           fs[n] # Absent, fs[m] = Absent, gs[m] = fs[n], gs[n] = Absent,
           \A x \in Name \ {m, n} : gs[x] = fs[x]
    PROVE  /\ BytesOf(gs, Present(gs)) = BytesOf(fs, Present(fs))
           /\ FilesOf(Present(gs)) = FilesOf(Present(fs))
<1>1. PICK hs : hs = [fs EXCEPT ![n] = Absent]
  OBVIOUS
<1>2. hs \in Partition /\ hs[n] = Absent /\ \A x \in Name \ {n} : hs[x] = fs[x]
  BY <1>1 DEF Partition
<1>3. DifferIn(fs, hs, n) /\ DifferIn(hs, gs, m) /\ hs[m] = Absent
  BY <1>2 DEF DifferIn
<1>4. Present(hs) = Present(fs) \ {n} /\ BytesOf(hs, Present(hs)) = BytesOf(fs, Present(fs) \ {n})
  BY <1>2, <1>3, Emptied
<1>5. Present(hs) \ {m} = Present(hs)
  BY <1>3 DEF Present
<1>6. /\ BytesOf(gs, Present(gs)) = fs[n].bytes + BytesOf(hs, Present(hs))
      /\ FilesOf(Present(gs)) = FilesOf(Present(hs)) + 1
  <2>1. gs[m] # Absent
    OBVIOUS
  <2>2. BytesOf(gs, Present(gs)) = gs[m].bytes + BytesOf(hs, Present(hs) \ {m})
    BY <1>3, <2>1, Written
  <2>3. FilesOf(Present(gs)) = FilesOf(Present(hs)) + 1
    BY <1>3, <2>1, Written
  <2> QED BY <1>5, <2>2, <2>3
<1>7. n \in Present(fs)
  BY DEF Present
<1>8. BytesOf(fs, Present(fs)) = fs[n].bytes + BytesOf(fs, Present(fs) \ {n})
  BY <1>7, PresentIsFinite, BytesSplit
<1>9. FilesOf(Present(fs)) = FilesOf(Present(hs)) + 1
  <2>1. Cardinality(Present(fs) \ {n}) = Cardinality(Present(fs)) - 1
    BY <1>7, PresentIsFinite, FS_RemoveElement
  <2>2. Cardinality(Present(fs)) \in Nat
    BY PresentIsFinite
  <2> QED BY <1>4, <2>1, <2>2 DEF FilesOf
<1> QED BY <1>4, <1>6, <1>8, <1>9

-----------------------------------------------------------------------------
(* The order of eviction                                                   *)

LEMMA GroupNumbers ==
    ASSUME NEW fs \in Partition, NEW i \in Id
    PROVE  i \in Nat /\ (KnownCoverage(fs, i) => LastTime(fs, i) \in Nat)
<1>1. i \in Nat
  BY IdAssumption
<1>2. ASSUME KnownCoverage(fs, i) PROVE LastTime(fs, i) \in Nat
  <2>1. Finish(i) \in Name /\ fs[Finish(i)] # Absent
    BY <1>2 DEF KnownCoverage, Supported, Finish, Name, FinalName, Kinds
  <2>2. fs[Finish(i)] \in File
    BY <2>1 DEF Partition
  <2>3. fs[Finish(i)].collected \in Time \cup {NoTime} /\ fs[Finish(i)].collected # NoTime
    BY <1>2, <2>2 DEF KnownCoverage, File
  <2> QED BY <2>3, LimitAssumption DEF LastTime, Time
<1> QED BY <1>1, <1>2

(* Keys of two groups tell one way and never both.                         *)
LEMMA EvictionOrder ==
    ASSUME NEW fs \in Partition, NEW i \in Id, NEW j \in Id
    PROVE  /\ EvictedBefore(fs, i, j) => ~EvictedBefore(fs, j, i)
           /\ i # j => EvictedBefore(fs, i, j) \/ EvictedBefore(fs, j, i)
BY GroupNumbers DEF EvictedBefore

LEMMA EvictionTransitive ==
    ASSUME NEW fs \in Partition, NEW i \in Id, NEW j \in Id, NEW k \in Id,
           EvictedBefore(fs, i, j), EvictedBefore(fs, j, k)
    PROVE  EvictedBefore(fs, i, k)
BY GroupNumbers DEF EvictedBefore

(* Among some groups one goes first.                                       *)
LEMMA EvictionFirst ==
    ASSUME NEW fs \in Partition, NEW S \in SUBSET Id, S # {}
    PROVE  \E i \in S : \A j \in S \ {i} : EvictedBefore(fs, i, j)
<1> DEFINE First(i, s) == \A j \in s \ {i} : EvictedBefore(fs, i, j)
           A == {s \in SUBSET Id : s = {} \/ \E i \in s : First(i, s)}
<1>1. ASSUME NEW s \in SUBSET Id, \A r \in SUBSET s : r # s => r \in A
      PROVE  s \in A
  <2>1. CASE s = {}
    BY <2>1
  <2>2. CASE s # {}
    <3>1. PICK x \in s : TRUE
      BY <2>2
    <3>2. s \ {x} \in A
      BY <1>1, <3>1
    <3>3. CASE s \ {x} = {}
      BY <3>1, <3>3
    <3>4. ASSUME NEW y \in s \ {x}, First(y, s \ {x}) PROVE s \in A
      <4>1. CASE EvictedBefore(fs, x, y)
        <5>1. First(x, s)
          BY <3>1, <3>4, <4>1, EvictionTransitive
        <5> QED BY <3>1, <5>1
      <4>2. CASE EvictedBefore(fs, y, x)
        <5>1. First(y, s)
          BY <3>1, <3>4, <4>2
        <5> QED BY <5>1
      <4> QED BY <3>1, <4>1, <4>2, EvictionOrder
    <3> QED BY <3>2, <3>3, <3>4
  <2> QED BY <2>1, <2>2
<1>2. \A s \in SUBSET Id : s \in A
  <2>1. A \in SUBSET (SUBSET Id)
    OBVIOUS
  <2> HIDE DEF A
  <2> QED BY <1>1, <2>1, IdAssumption, SubsetInduction
<1> QED BY <1>2

LEMMA GroupsAreIds ==
    ASSUME NEW fs, NEW r
    PROVE  Groups(fs) \subseteq Id /\ Candidates(fs, r) \subseteq Groups(fs)
BY DEF Groups, Candidates, FinalName

(* Of two evictions in key order one has gone further than the other.      *)
LEMMA PrefixesNest ==
    ASSUME NEW fs \in Partition, NEW t, NEW r,
           NEW D \in Prefixes(fs, t, r), NEW E \in Prefixes(fs, t, r)
    PROVE  D \subseteq E \/ E \subseteq D
BY EvictionOrder, GroupsAreIds DEF Prefixes

-----------------------------------------------------------------------------
(* Plans                                                                   *)

(* A plan removes groups as a whole, and with a group every candidate that *)
(* goes before it.                                                         *)
LEMMA PlansWholeGroups ==
    ASSUME NEW fs, NEW t, NEW r, NEW n \in FinalName
    PROVE  n \in Removals(fs, t, r) <=> fs[n] # Absent /\ n.id \in Evicted(fs, t, r)
BY DEF Removals, Temporaries, Members, Present, FinalName, TempName, Name, Kinds

LEMMA PlansInOrder ==
    ASSUME NEW fs, NEW t, NEW r, NEW i \in Evicted(fs, t, r), NEW j \in Candidates(fs, r),
           EvictedBefore(fs, j, i)
    PROVE  j \in Evicted(fs, t, r)
BY DEF Evicted, Sufficient, Prefixes

(* What is kept is what neither the sweep nor the eviction takes.          *)
LEMMA KeptIsTheRest ==
    ASSUME NEW fs, NEW D
    PROVE  KeptAfter(fs, D) = Present(fs) \ (Temporaries(fs) \cup Members(fs, D))
BY DEF KeptAfter, Members, Temporaries, Present, Name, FinalName, TempName, OtherName, Kinds

=============================================================================
