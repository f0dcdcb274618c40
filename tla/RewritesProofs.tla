--------------------------- MODULE RewritesProofs ---------------------------
(***************************************************************************)
(* For every base table that CatalogsAssumption describes, whatever        *)
(* builders of its engine are stacked in whatever order: the rows of every *)
(* subtree are those its request asks for, row numbers tell the rows       *)
(* apart, and tags mark what is kept.                                      *)
(*                                                                         *)
(* The inductive invariant is TreeInv, the promise of a subtree.  Beyond   *)
(* what the properties say it has that row numbers are among 1 .. n, that  *)
(* a subtree just keyed or tagged holds each row once or with the base     *)
(* table's number of copies, and that only whole tables are keyed or       *)
(* tagged; a reducer and the builders over a keyed table need just that.   *)
(* There is one lemma for each builder.  They rest on laws of the          *)
(* operators of Relations, which count rows as the elements of a set of    *)
(* copies.                                                                 *)
(***************************************************************************)
EXTENDS EquivalenceTrees, FiniteSetTheorems, FunctionTheorems, SequenceTheorems, TLAPS

-----------------------------------------------------------------------------
(* Rows and their copies: what a Total counts.                             *)

\* the copies of the rows, told apart by their numbers
Copies(R) == UNION {{row} \X (1 .. R[row]) : row \in DOMAIN R}
Natural(R) == IsFiniteSet(DOMAIN R) /\ \A x \in DOMAIN R : R[x] \in Nat
Tidy(R) == IsFiniteSet(DOMAIN R) /\ R \in [DOMAIN R -> Nat \ {0}]

\* A copy is a row and one of its numbers.
LEMMA CopiesAre ==
  ASSUME NEW R
  PROVE  /\ \A row, i : <<row, i>> \in Copies(R) <=> row \in DOMAIN R /\ i \in 1 .. R[row]
         /\ \A c \in Copies(R) : /\ c = <<c[1], c[2]>>
                                 /\ c[1] \in DOMAIN R /\ c[2] \in 1 .. R[c[1]]
<1>1. ASSUME NEW row, NEW i
      PROVE  <<row, i>> \in Copies(R) <=> row \in DOMAIN R /\ i \in 1 .. R[row]
  BY DEF Copies
<1>2. ASSUME NEW c \in Copies(R)
      PROVE  c = <<c[1], c[2]>>
  <2>1. PICK row \in DOMAIN R : c \in {row} \X (1 .. R[row])
    BY DEF Copies
  <2> QED
    BY <2>1
<1> QED
  BY <1>1, <1>2

\* The numbers up to n are n.
LEMMA UpTo ==
  ASSUME NEW n \in Nat
  PROVE  IsFiniteSet(1 .. n) /\ Cardinality(1 .. n) = n
<1>1. IsFiniteSet(1 .. n) /\ Cardinality(1 .. n) = IF 1 > n THEN 0 ELSE n - 1 + 1
  BY FS_Interval
<1> QED
  BY <1>1

\* A row has as many copies as it occurs.
LEMMA OneByMany ==
  ASSUME NEW x, NEW n \in Nat
  PROVE  IsFiniteSet({x} \X (1 .. n)) /\ Cardinality({x} \X (1 .. n)) = n
<1>1. IsFiniteSet({x}) /\ Cardinality({x}) = 1
  BY FS_Singleton
<1>2. IsFiniteSet(1 .. n) /\ Cardinality(1 .. n) = n
  BY UpTo
<1>3. IsFiniteSet({x} \X (1 .. n)) /\ Cardinality({x} \X (1 .. n)) = Cardinality({x}) * Cardinality(1 .. n)
  BY <1>1, <1>2, FS_Product
<1>4. Cardinality({x}) * Cardinality(1 .. n) = n
  BY <1>1, <1>2
<1> QED
  BY <1>3, <1>4

\* A total is finite: the copies of finitely many rows.
LEMMA TotalIsNatural ==
  ASSUME NEW R, Natural(R)
  PROVE  IsFiniteSet(Copies(R)) /\ Total(R) \in Nat /\ Total(R) = Cardinality(Copies(R))
<1> DEFINE g == [row \in DOMAIN R |-> {row} \X (1 .. R[row])]
           T == {{row} \X (1 .. R[row]) : row \in DOMAIN R}
<1>1. g \in Surjection(DOMAIN R, T)
  BY DEF Surjection
<1>2. IsFiniteSet(T)
  BY <1>1, FS_Surjection DEF Natural
<1>3. ASSUME NEW row \in DOMAIN R
      PROVE  IsFiniteSet({row} \X (1 .. R[row]))
  BY OneByMany DEF Natural
<1>4. \A t \in T : IsFiniteSet(t)
  BY <1>3
<1>5. IsFiniteSet(UNION T)
  BY <1>2, <1>4, FS_UNION
<1> QED
  BY <1>5, FS_CardinalityType DEF Copies, Total

\* A relation has each of its rows at least once.
LEMMA TidyIsNatural ==
  ASSUME NEW R, Tidy(R)
  PROVE  Natural(R) /\ R = [row \in DOMAIN R |-> R[row]] /\ \A row \in DOMAIN R : R[row] \in Nat /\ R[row] >= 1
  BY DEF Tidy, Natural

\* Copies that correspond are as many.
LEMMA SameTotal ==
  ASSUME NEW R, Natural(R), NEW Q, NEW b \in Bijection(Copies(R), Copies(Q))
  PROVE  Total(Q) = Total(R)
<1>1. ExistsBijection(Copies(R), Copies(Q))
  BY DEF ExistsBijection
<1> QED
  BY <1>1, TotalIsNatural, FS_Bijection DEF Total, Copies

\* A correspondence, by its two halves.
LEMMA IsABijection ==
  ASSUME NEW S, NEW T, NEW f \in [S -> T],
         \A a, b \in S : f[a] = f[b] => a = b,
         \A t \in T : \E a \in S : f[a] = t
  PROVE  f \in Bijection(S, T)
  BY DEF Bijection, Injection, Surjection, IsInjective

\* Rows that correspond and occur as often have one total.
LEMMA TotalReindex ==
  ASSUME NEW R, Natural(R), NEW Q, NEW h \in Bijection(DOMAIN R, DOMAIN Q),
         \A row \in DOMAIN R : Q[h[row]] = R[row]
  PROVE  Total(Q) = Total(R)
<1> DEFINE b == [c \in Copies(R) |-> <<h[c[1]], c[2]>>]
<1>1. /\ h \in [DOMAIN R -> DOMAIN Q] /\ \A x, y \in DOMAIN R : h[x] = h[y] => x = y
      /\ \A y \in DOMAIN Q : \E x \in DOMAIN R : h[x] = y
  BY DEF Bijection, Injection, Surjection, IsInjective
<1>2. ASSUME NEW c \in Copies(R) PROVE b[c] \in Copies(Q)
  <2>1. c[1] \in DOMAIN R /\ c[2] \in 1 .. R[c[1]]
    BY CopiesAre
  <2>2. h[c[1]] \in DOMAIN Q /\ c[2] \in 1 .. Q[h[c[1]]]
    BY <1>1, <2>1
  <2> QED
    BY <2>2, CopiesAre
<1>3. ASSUME NEW c \in Copies(R), NEW d \in Copies(R), b[c] = b[d]
      PROVE  c = d
  <2>1. /\ c = <<c[1], c[2]>> /\ d = <<d[1], d[2]>> /\ c[1] \in DOMAIN R /\ d[1] \in DOMAIN R
    BY CopiesAre
  <2>2. h[c[1]] = h[d[1]] /\ c[2] = d[2]
    BY <1>3
  <2> QED
    BY <1>1, <2>1, <2>2
<1>4. ASSUME NEW d \in Copies(Q) PROVE \E c \in Copies(R) : b[c] = d
  <2>1. d = <<d[1], d[2]>> /\ d[1] \in DOMAIN Q /\ d[2] \in 1 .. Q[d[1]]
    BY CopiesAre
  <2>2. PICK x \in DOMAIN R : h[x] = d[1]
    BY <1>1, <2>1
  <2>3. <<x, d[2]>> \in Copies(R)
    BY <2>1, <2>2, CopiesAre
  <2>4. b[<<x, d[2]>>] = d
    BY <2>1, <2>2, <2>3
  <2> QED
    BY <2>3, <2>4
<1> HIDE DEF b
<1>5. b \in [Copies(R) -> Copies(Q)]
  BY <1>2 DEF b
<1>6. b \in Bijection(Copies(R), Copies(Q))
  BY <1>3, <1>4, <1>5, IsABijection
<1> QED
  BY <1>6, SameTotal

\* The total of one row, where the others do not occur.
LEMMA TotalOfOnlyOne ==
  ASSUME NEW R, NEW x \in DOMAIN R, R[x] \in Nat, \A y \in DOMAIN R : y # x => R[y] = 0
  PROVE  Total(R) = R[x]
<1>1. Copies(R) = {x} \X (1 .. R[x])
  <2>1. ASSUME NEW c \in Copies(R) PROVE c \in {x} \X (1 .. R[x])
    <3>1. c = <<c[1], c[2]>> /\ c[1] \in DOMAIN R /\ c[2] \in 1 .. R[c[1]]
      BY CopiesAre
    <3>2. c[1] = x
      BY <3>1
    <3> QED
      BY <3>1, <3>2
  <2>2. ASSUME NEW c \in {x} \X (1 .. R[x]) PROVE c \in Copies(R)
    <3>1. c = <<x, c[2]>> /\ c[2] \in 1 .. R[x]
      OBVIOUS
    <3> QED
      BY <3>1, CopiesAre
  <2> QED
    BY <2>1, <2>2
<1>2. Cardinality({x} \X (1 .. R[x])) = R[x]
  BY OneByMany
<1> QED
  BY <1>1, <1>2 DEF Total, Copies

\* The total of no rows.
LEMMA TotalOfNone ==
  ASSUME NEW R, \A x \in DOMAIN R : R[x] = 0
  PROVE  Total(R) = 0
<1>1. Copies(R) = {}
  BY CopiesAre
<1> QED
  BY <1>1, FS_EmptySet DEF Total, Copies

\* The total of some row is not 0.
LEMMA TotalOfSome ==
  ASSUME NEW R, Natural(R), NEW x \in DOMAIN R, R[x] # 0
  PROVE  Total(R) \in Nat \ {0}
<1>1. <<x, 1>> \in Copies(R)
  BY CopiesAre DEF Natural
<1> QED
  BY <1>1, TotalIsNatural, FS_EmptySet

\* Of rows that occur once each, the total is their number.
LEMMA TotalOfSet ==
  ASSUME NEW S, IsFiniteSet(S)
  PROVE  Total(SetToBag(S)) = Cardinality(S)
<1> DEFINE R == SetToBag(S)
           b == [x \in S |-> <<x, 1>>]
<1>1. DOMAIN R = S /\ \A x \in S : R[x] = 1
  BY DEF SetToBag
<1> HIDE DEF R
<1>2. b \in [S -> Copies(R)]
  BY <1>1, CopiesAre
<1>3. ASSUME NEW c \in Copies(R) PROVE \E x \in S : b[x] = c
  <2>1. c = <<c[1], c[2]>> /\ c[1] \in S /\ c[2] \in 1 .. 1
    BY <1>1, CopiesAre
  <2> QED
    BY <2>1
<1>4. \A x, y \in S : b[x] = b[y] => x = y
  OBVIOUS
<1> HIDE DEF b
<1>5. b \in Bijection(S, Copies(R))
  BY <1>2, <1>3, <1>4, IsABijection
<1>6. ExistsBijection(S, Copies(R))
  BY <1>5 DEF ExistsBijection
<1>7. Cardinality(Copies(R)) = Cardinality(S)
  BY <1>6, FS_Bijection
<1> QED
  BY <1>7 DEF Total, Copies, R

\* What falls into parts is as much as the parts together.
LEMMA TotalByParts ==
  ASSUME NEW R, Natural(R), NEW I, NEW g \in [DOMAIN R -> I],
         NEW T, DOMAIN T = I, \A i \in I : T[i] = Total(Where(R, {row \in DOMAIN R : g[row] = i}))
  PROVE  Total(T) = Total(R)
<1> DEFINE Part(i) == Where(R, {row \in DOMAIN R : g[row] = i})
<1>1. ASSUME NEW i \in I
      PROVE  /\ DOMAIN Part(i) = {row \in DOMAIN R : g[row] = i}
             /\ \A row \in DOMAIN Part(i) : Part(i)[row] = R[row]
  BY DEF Where
<1>2. ASSUME NEW i \in I
      PROVE  Natural(Part(i))
  <2>1. DOMAIN Part(i) \in SUBSET DOMAIN R
    BY <1>1
  <2>2. IsFiniteSet(DOMAIN Part(i))
    BY <2>1, FS_Subset DEF Natural
  <2> QED
    BY <1>1, <2>1, <2>2 DEF Natural
<1> DEFINE P(i) == Copies(Part(i))
           N(i) == CHOOSE b : b \in Bijection(P(i), 1 .. T[i])
<1>3. ASSUME NEW i \in I
      PROVE  N(i) \in Bijection(P(i), 1 .. T[i])
  <2>1. IsFiniteSet(P(i)) /\ T[i] = Cardinality(P(i)) /\ T[i] \in Nat
    BY <1>2, TotalIsNatural
  <2>2. ExistsBijection(1 .. T[i], P(i))
    BY <2>1, FS_CardinalityType
  <2>3. \E b : b \in Bijection(P(i), 1 .. T[i])
    BY <2>2, Fun_ExistsBijSymmetric DEF ExistsBijection
  <2> QED
    BY <2>3
<1> HIDE DEF N
<1>4. \A i \in I : /\ N(i) \in [P(i) -> 1 .. T[i]] /\ \A c, d \in P(i) : N(i)[c] = N(i)[d] => c = d
                   /\ \A k \in 1 .. T[i] : \E c \in P(i) : N(i)[c] = k
  BY <1>3 DEF Bijection, Injection, Surjection, IsInjective
<1>5. \A i \in I : \A c : c \in P(i) <=> c \in Copies(R) /\ g[c[1]] = i
  <2> SUFFICES ASSUME NEW i \in I, NEW c PROVE c \in P(i) <=> c \in Copies(R) /\ g[c[1]] = i
    OBVIOUS
  <2>1. ASSUME c \in P(i) PROVE c \in Copies(R) /\ g[c[1]] = i
    <3>1. c = <<c[1], c[2]>> /\ c[1] \in DOMAIN Part(i) /\ c[2] \in 1 .. Part(i)[c[1]]
      BY <2>1, CopiesAre
    <3>2. c[1] \in DOMAIN R /\ c[2] \in 1 .. R[c[1]] /\ g[c[1]] = i
      BY <1>1, <3>1
    <3> QED
      BY <3>1, <3>2, CopiesAre
  <2>2. ASSUME c \in Copies(R), g[c[1]] = i PROVE c \in P(i)
    <3>1. c = <<c[1], c[2]>> /\ c[1] \in DOMAIN R /\ c[2] \in 1 .. R[c[1]]
      BY <2>2, CopiesAre
    <3>2. c[1] \in DOMAIN Part(i) /\ c[2] \in 1 .. Part(i)[c[1]]
      BY <1>1, <2>2, <3>1
    <3> QED
      BY <3>1, <3>2, CopiesAre
  <2> QED
    BY <2>1, <2>2
<1> HIDE DEF P
<1> DEFINE b == [c \in Copies(R) |-> <<g[c[1]], N(g[c[1]])[c]>>]
<1>6. ASSUME NEW c \in Copies(R) PROVE b[c] \in Copies(T) /\ g[c[1]] \in I /\ c \in P(g[c[1]])
  <2>1. g[c[1]] \in I
    BY CopiesAre
  <2>2. c \in P(g[c[1]])
    BY <1>5, <2>1
  <2>3. N(g[c[1]])[c] \in 1 .. T[g[c[1]]]
    BY <1>4, <2>1, <2>2
  <2> QED
    BY <2>1, <2>2, <2>3, CopiesAre
<1>7. ASSUME NEW c \in Copies(R), NEW d \in Copies(R), b[c] = b[d] PROVE c = d
  <2>1. g[c[1]] = g[d[1]] /\ N(g[c[1]])[c] = N(g[d[1]])[d]
    BY <1>7
  <2>2. PICK i \in I : i = g[c[1]]
    BY <1>6
  <2>3. c \in P(i) /\ d \in P(i)
    BY <1>6, <2>1, <2>2
  <2>4. N(i)[c] = N(i)[d]
    BY <2>1, <2>2
  <2> QED
    BY <1>4, <2>3, <2>4
<1>8. ASSUME NEW d \in Copies(T) PROVE \E c \in Copies(R) : b[c] = d
  <2>1. d = <<d[1], d[2]>> /\ d[1] \in I /\ d[2] \in 1 .. T[d[1]]
    BY CopiesAre
  <2>2. PICK c \in P(d[1]) : N(d[1])[c] = d[2]
    BY <1>4, <2>1
  <2>3. c \in Copies(R) /\ g[c[1]] = d[1]
    BY <1>5, <2>1, <2>2
  <2>4. b[c] = d
    BY <2>1, <2>2, <2>3
  <2> QED
    BY <2>3, <2>4
<1> HIDE DEF b
<1>9. b \in [Copies(R) -> Copies(T)]
  BY <1>6 DEF b
<1>10. b \in Bijection(Copies(R), Copies(T))
  BY <1>7, <1>8, <1>9, IsABijection
<1> QED
  BY <1>10, SameTotal

-----------------------------------------------------------------------------
(* What Where and Select make of a relation.                               *)

\* The part of a relation that a list of columns maps to `out`, and all it maps rows to.
Maps(R, list, out) == {row \in DOMAIN R : list[row] = out}
Image(R, list) == {list[row] : row \in DOMAIN R}

\* The rows an expression makes one thing of are rows.
LEMMA MapsWithin ==
  ASSUME NEW R, NEW list, NEW out
  PROVE  Maps(R, list, out) \subseteq DOMAIN R
  BY DEF Maps

\* WHERE has the rows that are kept,
LEMMA WhereDomain ==
  ASSUME NEW R, NEW kept
  PROVE  DOMAIN Where(R, kept) = DOMAIN R \cap kept
  BY DEF Where

\* all of those asked for if they are there,
LEMMA WhereOf ==
  ASSUME NEW R, NEW kept, kept \subseteq DOMAIN R
  PROVE  DOMAIN Where(R, kept) = kept
<1>1. DOMAIN R \cap kept = kept
  OBVIOUS
<1> QED
  BY <1>1, WhereDomain

\* each as often as before,
LEMMA WhereAt ==
  ASSUME NEW R, NEW kept, NEW row, row \in DOMAIN R, row \in kept
  PROVE  Where(R, kept)[row] = R[row]
  BY DEF Where

\* A part of a bag of naturals is one,
LEMMA WhereNatural ==
  ASSUME NEW R, Natural(R), NEW kept
  PROVE  Natural(Where(R, kept))
<1>1. IsFiniteSet(DOMAIN R \cap kept) /\ DOMAIN Where(R, kept) = DOMAIN R \cap kept
  BY FS_Subset, WhereDomain DEF Natural
<1>2. ASSUME NEW row \in DOMAIN R \cap kept PROVE Where(R, kept)[row] \in Nat
  <2>1. Where(R, kept)[row] = R[row]
    BY WhereAt
  <2> QED
    BY <2>1 DEF Natural
<1> QED
  BY <1>1, <1>2 DEF Natural

\* and a part of a relation is a relation.
LEMMA WhereTidy ==
  ASSUME NEW R, Tidy(R), NEW kept
  PROVE  Tidy(Where(R, kept))
<1>1. Natural(Where(R, kept))
  BY WhereNatural, TidyIsNatural
<1>2. Where(R, kept) \in [DOMAIN R \cap kept -> Nat \ {0}]
  BY DEF Where, Tidy
<1> QED
  BY <1>1, <1>2, WhereDomain DEF Natural, Tidy

\* Where the condition can be any that agrees on the rows there are.
LEMMA WhereAgrees ==
  ASSUME NEW R, NEW S, NEW T, \A row \in DOMAIN R : row \in S <=> row \in T
  PROVE  Where(R, S) = Where(R, T)
<1>1. DOMAIN R \cap S = DOMAIN R \cap T
  OBVIOUS
<1> QED
  BY <1>1 DEF Where

\* A WHERE that keeps every row changes nothing.
LEMMA WhereAll ==
  ASSUME NEW R, Tidy(R), NEW kept, DOMAIN R \subseteq kept
  PROVE  Where(R, kept) = R
<1>1. DOMAIN R \cap kept = DOMAIN R
  OBVIOUS
<1> QED
  BY <1>1, TidyIsNatural DEF Where

\* One WHERE after another keeps what both keep.
LEMMA WhereWhere ==
  ASSUME NEW R, NEW S, NEW T
  PROVE  Where(Where(R, S), T) = Where(R, S \cap T)
<1>1. DOMAIN Where(R, S) \cap T = DOMAIN R \cap (S \cap T)
  <2>1. DOMAIN Where(R, S) = DOMAIN R \cap S
    BY WhereDomain
  <2> QED
    BY <2>1
<1>2. ASSUME NEW row \in DOMAIN Where(R, S) \cap T PROVE Where(R, S)[row] = R[row]
  <2>1. DOMAIN Where(R, S) = DOMAIN R \cap S
    BY WhereDomain
  <2>2. row \in DOMAIN R /\ row \in S
    BY <2>1
  <2> QED
    BY <2>2, WhereAt
<1> QED
  BY <1>1, <1>2 DEF Where

\* Two relations with the same rows, as often each, are one.
LEMMA SameBag ==
  ASSUME NEW R, Tidy(R), NEW Q, Tidy(Q), DOMAIN R = DOMAIN Q, \A row \in DOMAIN R : R[row] = Q[row]
  PROVE  R = Q
  BY TidyIsNatural

\* What a list of columns makes of the rows,
LEMMA ImageIs ==
  ASSUME NEW R, NEW list
  PROVE  /\ \A row \in DOMAIN R : list[row] \in Image(R, list)
         /\ \A out \in Image(R, list) : \E row \in DOMAIN R : list[row] = out
  BY DEF Image

\* which is finite,
LEMMA ImageFinite ==
  ASSUME NEW R, IsFiniteSet(DOMAIN R), NEW list
  PROVE  IsFiniteSet(Image(R, list))
<1> DEFINE g == [row \in DOMAIN R |-> list[row]]
<1>1. g \in Surjection(DOMAIN R, Image(R, list))
  BY DEF Surjection, Image
<1> QED
  BY <1>1, FS_Surjection

\* is what SELECT has,
LEMMA SelectDomain ==
  ASSUME NEW R, NEW list
  PROVE  DOMAIN Select(R, list) = Image(R, list)
  BY DEF Select, Image

\* as often as the rows it is made of are,
LEMMA SelectAt ==
  ASSUME NEW R, NEW list, NEW out, out \in Image(R, list)
  PROVE  Select(R, list)[out] = Total(Where(R, Maps(R, list, out)))
  BY DEF Select, Image, Maps

\* once at least.
LEMMA SelectTidy ==
  ASSUME NEW R, Tidy(R), NEW list
  PROVE  Tidy(Select(R, list))
<1> DEFINE S == Select(R, list)
<1>1. IsFiniteSet(Image(R, list))
  BY ImageFinite DEF Tidy
<1>2. ASSUME NEW out \in Image(R, list) PROVE S[out] \in Nat \ {0}
  <2>1. PICK row \in DOMAIN R : list[row] = out
    BY ImageIs
  <2>2. Natural(R) /\ R[row] # 0
    BY TidyIsNatural
  <2>3. row \in Maps(R, list, out)
    BY <2>1 DEF Maps
  <2>4. row \in DOMAIN Where(R, Maps(R, list, out)) /\ Where(R, Maps(R, list, out))[row] # 0
    <3>1. Where(R, Maps(R, list, out))[row] = R[row]
      BY <2>3, WhereAt
    <3>2. DOMAIN Where(R, Maps(R, list, out)) = Maps(R, list, out)
      BY MapsWithin, WhereOf
    <3> QED
      BY <2>2, <2>3, <3>1, <3>2
  <2>5. Total(Where(R, Maps(R, list, out))) \in Nat \ {0}
    BY <2>2, <2>4, WhereNatural, TotalOfSome
  <2> QED
    BY <2>5, SelectAt
<1>3. S = [out \in Image(R, list) |-> S[out]]
  BY DEF Select, Image
<1> HIDE DEF S
<1>4. S \in [Image(R, list) -> Nat \ {0}] /\ DOMAIN S = Image(R, list)
  BY <1>2, <1>3
<1> QED
  BY <1>1, <1>4 DEF Tidy, S

\* Two lists of columns that come to the same.
LEMMA SameSelect ==
  ASSUME NEW R, Tidy(R), NEW f, NEW Q, Tidy(Q), Image(R, f) = DOMAIN Q,
         \A out \in Image(R, f) : Total(Where(R, Maps(R, f, out))) = Q[out]
  PROVE  Select(R, f) = Q
<1>1. Tidy(Select(R, f)) /\ DOMAIN Select(R, f) = DOMAIN Q
  BY SelectTidy, SelectDomain
<1>2. \A out \in DOMAIN Select(R, f) : Select(R, f)[out] = Q[out]
  BY SelectAt, SelectDomain
<1> QED
  BY <1>1, <1>2, SameBag

\* A list of columns only matters on the rows there are.
LEMMA SelectAgrees ==
  ASSUME NEW R, NEW f, NEW g, \A row \in DOMAIN R : f[row] = g[row]
  PROVE  Select(R, f) = Select(R, g)
<1>1. {f[row] : row \in DOMAIN R} = {g[row] : row \in DOMAIN R}
  OBVIOUS
<1>2. ASSUME NEW out PROVE {row \in DOMAIN R : f[row] = out} = {row \in DOMAIN R : g[row] = out}
  OBVIOUS
<1> QED
  BY <1>1, <1>2 DEF Select

\* A SELECT that leaves each row as it is changes nothing.
LEMMA SelectIdentity ==
  ASSUME NEW R, Tidy(R), NEW f, \A row \in DOMAIN R : f[row] = row
  PROVE  Select(R, f) = R
<1>1. Image(R, f) = DOMAIN R
  BY DEF Image
<1>2. ASSUME NEW row \in DOMAIN R PROVE Total(Where(R, Maps(R, f, row))) = R[row]
  <2>1. Maps(R, f, row) = {row}
    BY DEF Maps
  <2>2. DOMAIN Where(R, {row}) = {row}
    BY WhereDomain
  <2>3. Where(R, {row})[row] = R[row]
    BY WhereAt
  <2>4. R[row] \in Nat
    BY TidyIsNatural
  <2>5. Total(Where(R, {row})) = R[row]
    BY <2>2, <2>3, <2>4, TotalOfOnlyOne
  <2> QED
    BY <2>1, <2>5
<1> QED
  BY <1>1, <1>2, SameSelect

\* One list of columns after another is one list.
LEMMA SelectComposes ==
  ASSUME NEW R, Tidy(R), NEW f, NEW g, NEW h, \A row \in DOMAIN R : h[row] = g[f[row]]
  PROVE  Select(Select(R, f), g) = Select(R, h)
<1> DEFINE S == Select(R, f)
<1>1. Tidy(S) /\ DOMAIN S = Image(R, f) /\ Tidy(Select(R, h)) /\ DOMAIN Select(R, h) = Image(R, h)
  BY SelectTidy, SelectDomain
<1>2. Image(S, g) = Image(R, h)
  <2>1. ASSUME NEW out \in Image(S, g) PROVE out \in Image(R, h)
    BY <1>1, ImageIs
  <2>2. ASSUME NEW out \in Image(R, h) PROVE out \in Image(S, g)
    BY <1>1, ImageIs
  <2> QED
    BY <2>1, <2>2
<1>3. ASSUME NEW out \in Image(R, h)
      PROVE  Total(Where(S, Maps(S, g, out))) = Select(R, h)[out]
  <2> DEFINE P == Where(R, Maps(R, h, out))
             I == Maps(S, g, out)
             T == Where(S, I)
             k == [row \in DOMAIN P |-> f[row]]
  <2>1. Natural(P)
    BY WhereNatural, TidyIsNatural
  <2>2. DOMAIN P = Maps(R, h, out)
    BY MapsWithin, WhereOf
  <2>3. DOMAIN T = I
    BY MapsWithin, WhereOf
  <2>4. k \in [DOMAIN P -> I]
    BY <1>1, <2>2, ImageIs DEF Maps
  <2>5. ASSUME NEW mid \in I PROVE T[mid] = Total(Where(P, {row \in DOMAIN P : k[row] = mid}))
    <3>1. mid \in Image(R, f) /\ g[mid] = out /\ mid \in DOMAIN S
      BY <1>1 DEF Maps
    <3>2. T[mid] = S[mid]
      BY <3>1, WhereAt
    <3>3. S[mid] = Total(Where(R, Maps(R, f, mid)))
      BY <3>1, SelectAt
    <3>4. Maps(R, h, out) \cap {row \in DOMAIN P : k[row] = mid} = Maps(R, f, mid)
      BY <2>2, <3>1 DEF Maps
    <3>5. Where(P, {row \in DOMAIN P : k[row] = mid})
            = Where(R, Maps(R, h, out) \cap {row \in DOMAIN P : k[row] = mid})
      <4>1. PICK M : M = {row \in DOMAIN P : k[row] = mid}
        OBVIOUS
      <4>2. Where(P, M) = Where(R, Maps(R, h, out) \cap M)
        BY WhereWhere
      <4> QED
        BY <4>1, <4>2
    <3> QED
      BY <3>2, <3>3, <3>4, <3>5
  <2> HIDE DEF P, T, k, I
  <2>6. Total(T) = Total(P)
    BY <2>1, <2>3, <2>4, <2>5, TotalByParts
  <2>7. Select(R, h)[out] = Total(P)
    BY SelectAt DEF P
  <2> QED
    BY <2>6, <2>7 DEF T, I
<1> HIDE DEF S
<1>4. Select(S, g) = Select(R, h)
  BY <1>1, <1>2, <1>3, SameSelect
<1> QED
  BY <1>4 DEF S

\* Rows that correspond one to one give the same.
LEMMA SelectReindex ==
  ASSUME NEW R, Tidy(R), NEW Q, Tidy(Q), NEW h \in Bijection(DOMAIN R, DOMAIN Q), NEW f, NEW g,
         \A row \in DOMAIN R : Q[h[row]] = R[row] /\ g[h[row]] = f[row]
  PROVE  Select(Q, g) = Select(R, f)
<1>1. /\ h \in [DOMAIN R -> DOMAIN Q] /\ \A x, y \in DOMAIN R : h[x] = h[y] => x = y
      /\ \A y \in DOMAIN Q : \E x \in DOMAIN R : h[x] = y
  BY DEF Bijection, Injection, Surjection, IsInjective
<1>2. Tidy(Select(R, f)) /\ DOMAIN Select(R, f) = Image(R, f)
  BY SelectTidy, SelectDomain
<1>3. Image(Q, g) = Image(R, f)
  <2>1. ASSUME NEW out \in Image(Q, g) PROVE out \in Image(R, f)
    <3>1. PICK y \in DOMAIN Q : g[y] = out
      BY ImageIs
    <3>2. PICK x \in DOMAIN R : h[x] = y
      BY <1>1
    <3>3. f[x] = out
      BY <3>1, <3>2
    <3> QED
      BY <3>3, ImageIs
  <2>2. ASSUME NEW out \in Image(R, f) PROVE out \in Image(Q, g)
    <3>1. PICK x \in DOMAIN R : f[x] = out
      BY ImageIs
    <3>2. h[x] \in DOMAIN Q /\ g[h[x]] = out
      BY <1>1, <3>1
    <3> QED
      BY <3>2, ImageIs
  <2> QED
    BY <2>1, <2>2
<1>4. ASSUME NEW out \in Image(R, f) PROVE Total(Where(Q, Maps(Q, g, out))) = Select(R, f)[out]
  <2> DEFINE P == Where(R, Maps(R, f, out))
             T == Where(Q, Maps(Q, g, out))
             k == [row \in DOMAIN P |-> h[row]]
  <2>1. Natural(P)
    BY WhereNatural, TidyIsNatural
  <2>2. DOMAIN P = Maps(R, f, out)
    BY MapsWithin, WhereOf
  <2>3. DOMAIN T = Maps(Q, g, out)
    BY MapsWithin, WhereOf
  <2>4. \A row \in Maps(R, f, out) : row \in DOMAIN R /\ h[row] \in DOMAIN Q /\ h[row] \in Maps(Q, g, out)
    BY <1>1 DEF Maps
  <2>5. k \in [DOMAIN P -> DOMAIN T]
    BY <2>2, <2>3, <2>4
  <2>6. \A x, y \in DOMAIN P : k[x] = k[y] => x = y
    BY <1>1, <2>2, <2>4
  <2>7. ASSUME NEW y \in DOMAIN T PROVE \E x \in DOMAIN P : k[x] = y
    <3>1. y \in DOMAIN Q /\ g[y] = out
      BY <2>3 DEF Maps
    <3>2. PICK x \in DOMAIN R : h[x] = y
      BY <1>1, <3>1
    <3>3. x \in Maps(R, f, out)
      BY <3>1, <3>2 DEF Maps
    <3> QED
      BY <2>2, <3>2, <3>3
  <2>8. ASSUME NEW row \in DOMAIN P PROVE T[k[row]] = P[row]
    <3>1. row \in DOMAIN R /\ row \in Maps(R, f, out) /\ k[row] = h[row]
      BY <2>2, <2>4
    <3>2. h[row] \in DOMAIN Q /\ h[row] \in Maps(Q, g, out)
      BY <2>4, <3>1
    <3>3. P[row] = R[row] /\ T[h[row]] = Q[h[row]]
      BY <3>1, <3>2, WhereAt
    <3> QED
      BY <3>1, <3>3
  <2> HIDE DEF P, T, k
  <2>9. k \in Bijection(DOMAIN P, DOMAIN T)
    BY <2>5, <2>6, <2>7, IsABijection
  <2>10. Total(T) = Total(P)
    BY <2>1, <2>8, <2>9, TotalReindex
  <2>11. Select(R, f)[out] = Total(P)
    BY SelectAt DEF P
  <2> QED
    BY <2>10, <2>11 DEF T
<1> QED
  BY <1>2, <1>3, <1>4, SameSelect

\* No list of columns adds rows or drops any.
LEMMA TotalOfSelect ==
  ASSUME NEW R, Tidy(R), NEW f
  PROVE  Total(Select(R, f)) = Total(R)
<1> DEFINE S == Select(R, f)
           g == [row \in DOMAIN R |-> f[row]]
<1>1. g \in [DOMAIN R -> Image(R, f)] /\ Natural(R) /\ DOMAIN S = Image(R, f)
  BY SelectDomain, TidyIsNatural, ImageIs
<1>2. ASSUME NEW out \in Image(R, f) PROVE S[out] = Total(Where(R, {row \in DOMAIN R : g[row] = out}))
  <2>1. {row \in DOMAIN R : g[row] = out} = Maps(R, f, out)
    BY DEF Maps
  <2>2. S[out] = Total(Where(R, Maps(R, f, out)))
    BY SelectAt
  <2> QED
    BY <2>1, <2>2
<1> HIDE DEF S, g
<1>3. Total(S) = Total(R)
  BY <1>1, <1>2, TotalByParts
<1> QED
  BY <1>3 DEF S

\* The branches of a UNION ALL that take the rows of one relation, each row in one branch.
LEMMA UnionOfParts ==
  ASSUME NEW R, Tidy(R), NEW I, NEW g \in [DOMAIN R -> I], NEW f, NEW branches, DOMAIN branches = I,
         \A i \in I : branches[i] = Select(Where(R, {row \in DOMAIN R : g[row] = i}), f)
  PROVE  UnionAll(branches) = Select(R, f)
<1> DEFINE Of(i) == {row \in DOMAIN R : g[row] = i}
           Part(i) == Where(R, Of(i))
           U == UnionAll(branches)
           T(out) == [i \in I |-> Count(out, branches[i])]
<1>1. ASSUME NEW i \in I PROVE DOMAIN Part(i) = Of(i)
  <2>1. Of(i) \subseteq DOMAIN R
    OBVIOUS
  <2> HIDE DEF Of
  <2> QED
    BY <2>1, WhereOf
<1>2. \A i \in I : DOMAIN branches[i] = Image(Part(i), f)
  BY SelectDomain
<1>3. UNION {DOMAIN branches[i] : i \in I} = Image(R, f)
  <2>1. ASSUME NEW out \in Image(R, f) PROVE \E i \in I : out \in DOMAIN branches[i]
    <3>1. PICK row \in DOMAIN R : f[row] = out
      BY ImageIs
    <3>2. PICK i \in I : i = g[row]
      OBVIOUS
    <3>3. row \in DOMAIN Part(i)
      BY <1>1, <3>2
    <3>4. out \in Image(Part(i), f)
      BY <3>1, <3>3 DEF Image
    <3> QED
      BY <1>2, <3>4
  <2>2. ASSUME NEW i \in I, NEW out \in DOMAIN branches[i] PROVE out \in Image(R, f)
    <3>0. out \in Image(Part(i), f)
      BY <1>2
    <3>1. PICK row \in DOMAIN Part(i) : f[row] = out
      BY <3>0 DEF Image
    <3>2. row \in DOMAIN R
      BY <1>1
    <3> QED
      BY <3>1, <3>2, ImageIs
  <2> QED
    BY <2>1, <2>2
<1>4. U = [out \in Image(R, f) |-> Total(T(out))]
  BY <1>3 DEF UnionAll
<1>5. ASSUME NEW out \in Image(R, f) PROVE Total(T(out)) = Select(R, f)[out]
  <2> DEFINE P == Where(R, Maps(R, f, out))
             k == [row \in DOMAIN P |-> g[row]]
             t == T(out)
  <2>1. Natural(P)
    BY WhereNatural, TidyIsNatural
  <2>2. DOMAIN P = Maps(R, f, out)
    BY MapsWithin, WhereOf
  <2>3. k \in [DOMAIN P -> I]
    BY <2>2 DEF Maps
  <2>4. ASSUME NEW i \in I PROVE t[i] = Total(Where(P, {row \in DOMAIN P : k[row] = i}))
    <3>1. Where(Part(i), Maps(Part(i), f, out)) = Where(P, {row \in DOMAIN P : k[row] = i})
      <4>1. Of(i) \cap Maps(Part(i), f, out) = Maps(R, f, out) \cap {row \in DOMAIN P : k[row] = i}
        BY <1>1, <2>2 DEF Maps
      <4>2. Where(Part(i), Maps(Part(i), f, out)) = Where(R, Of(i) \cap Maps(Part(i), f, out))
        BY WhereWhere
      <4>3. Where(P, {row \in DOMAIN P : k[row] = i})
              = Where(R, Maps(R, f, out) \cap {row \in DOMAIN P : k[row] = i})
        <5>1. PICK M : M = {row \in DOMAIN P : k[row] = i}
          OBVIOUS
        <5>2. Where(P, M) = Where(R, Maps(R, f, out) \cap M)
          BY WhereWhere
        <5> QED
          BY <5>1, <5>2
      <4> QED
        BY <4>1, <4>2, <4>3
    <3>2. CASE out \in DOMAIN branches[i]
      <4>1. out \in Image(Part(i), f)
        BY <1>2, <3>2
      <4>2. branches[i][out] = Total(Where(Part(i), Maps(Part(i), f, out)))
        BY <4>1, SelectAt
      <4> QED
        BY <3>1, <3>2, <4>2 DEF Count
    <3>3. CASE out \notin DOMAIN branches[i]
      <4>1. out \notin Image(Part(i), f)
        BY <1>2, <3>3
      <4>2. Maps(Part(i), f, out) = {}
        BY <4>1 DEF Maps, Image
      <4>3. DOMAIN Where(Part(i), {}) = {}
        BY WhereDomain
      <4>4. Total(Where(Part(i), Maps(Part(i), f, out))) = 0
        BY <4>2, <4>3, TotalOfNone
      <4> QED
        BY <3>1, <3>3, <4>4 DEF Count
    <3> QED
      BY <3>2, <3>3
  <2>5. DOMAIN t = I
    OBVIOUS
  <2>6. Select(R, f)[out] = Total(P)
    BY SelectAt
  <2> HIDE DEF P, k, t, T
  <2>7. Total(t) = Total(P)
    BY <2>1, <2>3, <2>4, <2>5, TotalByParts
  <2> QED
    BY <2>6, <2>7 DEF t
<1>6. Select(R, f) = [out \in Image(R, f) |-> Select(R, f)[out]]
  BY DEF Select, Image
<1> HIDE DEF T, U
<1>7. [out \in Image(R, f) |-> Total(T(out))] = [out \in Image(R, f) |-> Select(R, f)[out]]
  BY <1>5
<1> QED
  BY <1>4, <1>6, <1>7 DEF U

-----------------------------------------------------------------------------
(* Rows of two and three columns, and the casts that SQLite needs.         *)

Rows2 == Value \X Value
Rows3 == Value \X Value \X Value
AnyRows == Rows2 \cup Rows3

\* The parts of a row of the base table,
LEMMA RowsOfTwo ==
  ASSUME NEW row \in Rows2
  PROVE  /\ row = <<row[1], row[2]>> /\ row[1] \in Value /\ row[2] \in Value
         /\ DOMAIN row = 1 .. 2 /\ Len(row) = 2 /\ row \in Seq(Value)
<1>1. PICK a \in Value, b \in Value : row = <<a, b>>
  BY DEF Rows2
<1>2. <<a, b>> \in Seq(Value) /\ Len(<<a, b>>) = 2 /\ DOMAIN <<a, b>> = 1 .. 2
  OBVIOUS
<1> QED
  BY <1>1, <1>2

\* and of one with a key or a tag behind it.
LEMMA RowsOfThree ==
  ASSUME NEW row \in Rows3
  PROVE  /\ row = <<row[1], row[2], row[3]>> /\ row[1] \in Value /\ row[2] \in Value /\ row[3] \in Value
         /\ DOMAIN row = 1 .. 3 /\ Len(row) = 3 /\ row \in Seq(Value) /\ Extra(row) = row[3]
<1>1. PICK a \in Value, b \in Value, c \in Value : row = <<a, b, c>>
  BY DEF Rows3
<1>2. <<a, b, c>> \in Seq(Value) /\ Len(<<a, b, c>>) = 3 /\ DOMAIN <<a, b, c>> = 1 .. 3
  OBVIOUS
<1> QED
  BY <1>1, <1>2 DEF Extra

\* Two tuples of one length.
LEMMA SameTwo ==
  ASSUME NEW s, s = [i \in 1 .. 2 |-> s[i]], NEW t, t = [i \in 1 .. 2 |-> t[i]], s[1] = t[1], s[2] = t[2]
  PROVE  s = t
  OBVIOUS

\* The base columns of a row of the base table are all of it,
LEMMA ColumnsOfTwo ==
  ASSUME NEW row \in Rows2
  PROVE  Columns2(row) = row
<1>1. row \in Seq(Value) /\ Len(row) = 2
  BY RowsOfTwo
<1>2. SubSeq(row, 1, 2) = [i \in 1 .. 2 |-> row[i]]
  BY <1>1 DEF SubSeq
<1>3. row = [i \in 1 .. 2 |-> row[i]]
  BY <1>1
<1> QED
  BY <1>2, <1>3 DEF Columns2

\* and of a longer one are a row of the base table.
LEMMA ColumnsOfThree ==
  ASSUME NEW row \in Rows3
  PROVE  Columns2(row) = <<row[1], row[2]>> /\ Columns2(row) \in Rows2
<1>1. row \in Seq(Value) /\ Len(row) = 3 /\ row[1] \in Value /\ row[2] \in Value
  BY RowsOfThree
<1>2. SubSeq(row, 1, 2) = [i \in 1 .. 2 |-> row[i]]
  BY <1>1 DEF SubSeq
<1>3. <<row[1], row[2]>> = [i \in 1 .. 2 |-> row[i]]
  OBVIOUS
<1>4. Columns2(row) = <<row[1], row[2]>>
  BY <1>2, <1>3 DEF Columns2
<1> QED
  BY <1>1, <1>4 DEF Rows2

\* Appending a value gives one value more.
LEMMA AppendOneMore ==
  ASSUME NEW S, NEW p \in Seq(S), NEW n \in S
  PROVE  /\ Append(p, n) \in Seq(S) /\ Len(p) \in Nat /\ Len(Append(p, n)) = Len(p) + 1
         /\ DOMAIN p = 1 .. Len(p) /\ DOMAIN Append(p, n) = 1 .. Len(p) + 1
         /\ \A x \in 1 .. Len(p) : Append(p, n)[x] = p[x]
         /\ Append(p, n)[Len(p) + 1] = n
  OBVIOUS

\* A value put behind a row of the base table is its extra column, and leaves it as it was.
LEMMA AppendToTwo ==
  ASSUME NEW row \in Rows2, NEW v \in Value
  PROVE  /\ Append(row, v) = <<row[1], row[2], v>> /\ Append(row, v) \in Rows3
         /\ Columns2(Append(row, v)) = row /\ Extra(Append(row, v)) = v
<1>1. row = <<row[1], row[2]>> /\ row[1] \in Value /\ row[2] \in Value
  BY RowsOfTwo
<1>2. Append(<<row[1], row[2]>>, v) = <<row[1], row[2], v>>
  <2>1. PICK s, V : s = <<row[1], row[2]>> /\ V = Value
    OBVIOUS
  <2>2. s \in Seq(V) /\ Len(s) = 2 /\ s[1] = row[1] /\ s[2] = row[2] /\ v \in V
    BY <1>1, <2>1
  <2>3. PICK t : t = Append(s, v)
    OBVIOUS
  <2>4. /\ t \in Seq(V) /\ Len(t) = 3 /\ DOMAIN t = 1 .. 3
        /\ t[1] = s[1] /\ t[2] = s[2] /\ t[3] = v
    <3>1. /\ Append(s, v) \in Seq(V) /\ Len(s) \in Nat /\ Len(Append(s, v)) = Len(s) + 1
          /\ DOMAIN Append(s, v) = 1 .. Len(s) + 1
          /\ \A x \in 1 .. Len(s) : Append(s, v)[x] = s[x]
          /\ Append(s, v)[Len(s) + 1] = v
      <4>1. s \in Seq(V) /\ v \in V
        BY <2>2
      <4> QED
        BY <4>1, AppendOneMore
    <3> QED
      BY <2>2, <2>3, <3>1
  <2>5. t = [i \in 1 .. 3 |-> t[i]]
    BY <2>4
  <2>6. <<t[1], t[2], t[3]>> = [i \in 1 .. 3 |-> t[i]]
    OBVIOUS
  <2> QED
    BY <2>1, <2>2, <2>3, <2>4, <2>5, <2>6
<1>3. Append(row, v) = <<row[1], row[2], v>>
  BY <1>1, <1>2
<1>4. Append(row, v) \in Rows3
  BY <1>1, <1>3 DEF Rows3
<1>5. /\ Columns2(Append(row, v)) = <<Append(row, v)[1], Append(row, v)[2]>>
      /\ Extra(Append(row, v)) = Append(row, v)[3]
  BY <1>4, RowsOfThree, ColumnsOfThree
<1> QED
  BY <1>1, <1>3, <1>4, <1>5

\* The values a row number or a tag has are values.
LEMMA SmallNumbers ==
  /\ \A n \in Nat : n < OtherType => n \in Value
  /\ 0 \in Value /\ 1 \in Value /\ NULL \in Value
<1>1. ASSUME NEW n \in Nat, n < OtherType PROVE n \in (1 - OtherType) .. (OtherType - 1)
  BY <1>1, ValuesAssumption
<1>2. OtherType \in Nat /\ 0 < OtherType /\ 1 < OtherType
  BY ValuesAssumption
<1> QED
  BY <1>1, <1>2 DEF Value

\* The cast to a value's own type undoes what took its type away, and nothing else.
LEMMA CastsBack ==
  ASSUME NEW v \in Value
  PROVE  CastBack(Retyped(v)) = v /\ CastBack(v) = v
<1>1. CASE v \in Int
  <2>1. v < OtherType /\ - v < OtherType /\ OtherType \in Nat
    BY <1>1, ValuesAssumption DEF Value
  <2>2. Retyped(v) = v + 2 * OtherType /\ v + 2 * OtherType \in Int /\ v + 2 * OtherType > OtherType
    BY <1>1, <2>1 DEF Retyped
  <2> QED
    BY <1>1, <2>1, <2>2 DEF CastBack
<1>2. CASE v \notin Int
  BY <1>2 DEF Retyped, CastBack
<1> QED
  BY <1>1, <1>2

\* Every column of another type and back.
LEMMA RowCastsBack ==
  ASSUME NEW row \in AnyRows
  PROVE  /\ [i \in DOMAIN row |-> CastBack(row[i])] = row
         /\ \A other : /\ DOMAIN other = DOMAIN row
                       /\ \A i \in DOMAIN row : other[i] = Retyped(row[i])
                       => [i \in DOMAIN other |-> CastBack(other[i])] = row
<1>1. /\ row = [i \in DOMAIN row |-> row[i]]
      /\ \A i \in DOMAIN row : row[i] \in Value
  <2>1. row \in Seq(Value)
    BY RowsOfTwo, RowsOfThree DEF AnyRows
  <2> QED
    BY <2>1
<1>2. \A i \in DOMAIN row : CastBack(Retyped(row[i])) = row[i] /\ CastBack(row[i]) = row[i]
  BY <1>1, CastsBack
<1>3. [i \in DOMAIN row |-> CastBack(row[i])] = row
  BY <1>1, <1>2
<1>4. ASSUME NEW other, DOMAIN other = DOMAIN row, \A i \in DOMAIN row : other[i] = Retyped(row[i])
      PROVE  [i \in DOMAIN other |-> CastBack(other[i])] = row
  BY <1>1, <1>2, <1>4
<1> QED
  BY <1>3, <1>4

\* A relation of rows of values.
Wide(R) == Tidy(R) /\ DOMAIN R \subseteq AnyRows

\* So casting a relation that has its types changes nothing,
LEMMA TypedIsSame ==
  ASSUME NEW R, Wide(R)
  PROVE  Typed(R) = R
<1> DEFINE f == [row \in DOMAIN R |-> [i \in DOMAIN row |-> CastBack(row[i])]]
<1>1. ASSUME NEW row \in DOMAIN R PROVE f[row] = row
  BY RowCastsBack DEF Wide
<1> HIDE DEF f
<1>2. Select(R, f) = R
  BY <1>1, SelectIdentity DEF Wide
<1> QED
  BY <1>2 DEF Typed, f

\* and casting one that lost them gives it back.
LEMMA TypedTypeless ==
  ASSUME NEW R, Wide(R)
  PROVE  Typed(Typeless(R)) = R
<1> DEFINE f == [row \in DOMAIN R |-> [i \in DOMAIN row |-> Retyped(row[i])]]
           S == Select(R, f)
           g == [row \in DOMAIN S |-> [i \in DOMAIN row |-> CastBack(row[i])]]
           h == [row \in DOMAIN R |-> row]
<1>1. ASSUME NEW row \in DOMAIN R PROVE h[row] = g[f[row]]
  <2>1. f[row] \in DOMAIN S
    BY SelectDomain, ImageIs
  <2>2. g[f[row]] = [i \in DOMAIN f[row] |-> CastBack(f[row][i])]
    BY <2>1
  <2>3. PICK other : other = f[row]
    OBVIOUS
  <2>4. DOMAIN other = DOMAIN row /\ \A i \in DOMAIN row : other[i] = Retyped(row[i])
    BY <2>3
  <2>5. [i \in DOMAIN other |-> CastBack(other[i])] = row
    BY <2>4, RowCastsBack DEF Wide
  <2> QED
    BY <2>2, <2>3, <2>5
<1>2. \A row \in DOMAIN R : h[row] = row
  OBVIOUS
<1> HIDE DEF f, g, h, S
<1>3. Select(Select(R, f), g) = Select(R, h)
  BY <1>1, SelectComposes DEF Wide
<1>4. Select(R, h) = R
  BY <1>2, SelectIdentity DEF Wide
<1> QED
  BY <1>3, <1>4 DEF Typed, Typeless, f, g, S

\* The casts of a query change nothing, whether SQLite needs them or not.
LEMMA CastSignature ==
  ASSUME NEW R, Wide(R)
  PROVE  cast_signature(R) = R
  BY TypedTypeless DEF cast_signature

\* The base columns of what has no others.
LEMMA BaseItemsOfTwo ==
  ASSUME NEW R, Tidy(R), DOMAIN R \subseteq Rows2
  PROVE  base_items(R) = R
<1> DEFINE f == [row \in DOMAIN R |-> Columns2(row)]
<1>1. \A row \in DOMAIN R : f[row] = row
  BY ColumnsOfTwo
<1> HIDE DEF f
<1>2. Select(R, f) = R
  BY <1>1, SelectIdentity
<1> QED
  BY <1>2 DEF base_items, f

-----------------------------------------------------------------------------
(* The promise of a subtree, and what a builder has to show to keep it.    *)

\* What reading a subtree of a shape over the rows of a base table returns.  Of a row number: it
\* is one of 1 .. n, tells the rows apart, and dropped leaves the base table.
KeyedRows(rows, R) ==
  /\ Wide(R) /\ DOMAIN R \subseteq Rows3
  /\ \A row \in DOMAIN R : Extra(row) \in 1 .. Total(rows)
  /\ \A row, other \in DOMAIN R : Extra(row) = Extra(other) => row = other
  /\ base_items(SetToBag(DOMAIN R)) = rows
TaggedRows(rows, R) ==
  /\ Wide(R) /\ DOMAIN R \subseteq Rows3
  /\ base_items(WithExtra(R, {KEEP})) = rows
ReadOf(rows, shape, kept, R) ==
  /\ shape = "rows" => R = Where(rows, kept)
  /\ shape \in {"keyed", "key"} => KeyedRows(rows, R)
  /\ shape = "keyed" => R = SetToBag(DOMAIN R)
  /\ shape \in {"tagged", "tag"} => TaggedRows(rows, R)
  /\ shape = "tagged" => R = Widened(rows, KEEP)

GoodTree(rows, t) ==
  /\ t.node \in {"base", "query", "view", "table"}
  /\ t.shape \in {"rows", "keyed", "key", "tagged", "tag"}
  /\ t.node = "query" => t.shape \in {"rows", "keyed", "tagged"}
  /\ t.kept \subseteq DOMAIN rows
  /\ t.shape # "rows" => t.kept = DOMAIN rows
  /\ \A R \in t.reads : ReadOf(rows, t.shape, t.kept, R)
  /\ t.dml => \E R : t.reads = {R}
TreeInv == catalog \in Catalogs /\ GoodTree(catalog.rows, tree)

\* The base table is a relation
LEMMA BaseIsTidy ==
  ASSUME catalog \in Catalogs
  PROVE  Tidy(Base)
  BY CatalogsAssumption DEF IsCatalog, Tidy, Base

\* of rows of two values,
LEMMA BaseIsWide ==
  ASSUME catalog \in Catalogs
  PROVE  Wide(Base) /\ DOMAIN Base \subseteq Rows2
<1>1. DOMAIN Base \subseteq Rows2
  BY CatalogsAssumption DEF IsCatalog, Base, Rows2
<1> QED
  BY <1>1, BaseIsTidy DEF Wide, AnyRows

\* not more of them than there are numbers to number them.
LEMMA BaseIsSmall ==
  ASSUME catalog \in Catalogs
  PROVE  Total(Base) \in Nat /\ Total(Base) < OtherType
<1>1. Total(Base) < OtherType
  BY CatalogsAssumption DEF IsCatalog, Base
<1> QED
  BY <1>1, BaseIsTidy, TidyIsNatural, TotalIsNatural

\* Its columns are c0 and c1.
LEMMA TwoColumns ==
  ASSUME catalog \in Catalogs
  PROVE  Columns = {1, 2}
<1>1. catalog.types \in SqlTypes \X SqlTypes
  BY CatalogsAssumption DEF IsCatalog
<1>2. PICK a \in SqlTypes, b \in SqlTypes : catalog.types = <<a, b>>
  BY <1>1
<1>3. DOMAIN <<a, b>> = {1, 2}
  OBVIOUS
<1> QED
  BY <1>2, <1>3 DEF Columns

\* The whole table is read whole.
LEMMA BaseWhere ==
  ASSUME catalog \in Catalogs
  PROVE  Where(Base, All) = Base
  BY BaseIsTidy, WhereAll DEF All

\* A part of a relation of rows of values is one.
LEMMA WhereIsWide ==
  ASSUME NEW R, Wide(R), NEW kept
  PROVE  Wide(Where(R, kept))
  BY WhereTidy, WhereDomain DEF Wide

\* What is read has whole rows.
LEMMA ReadsAreWide ==
  ASSUME TreeInv, NEW R \in tree.reads
  PROVE  Wide(R)
<1>1. ReadOf(Base, tree.shape, tree.kept, R)
  BY DEF TreeInv, GoodTree, Base
<1>2. CASE tree.shape = "rows"
  <2>1. R = Where(Base, tree.kept) /\ catalog \in Catalogs
    BY <1>1, <1>2 DEF ReadOf, TreeInv
  <2> QED
    BY <2>1, BaseIsWide, WhereIsWide
<1>3. CASE tree.shape \in {"keyed", "key"}
  BY <1>1, <1>3 DEF ReadOf, KeyedRows
<1>4. CASE tree.shape \in {"tagged", "tag"}
  BY <1>1, <1>4 DEF ReadOf, TaggedRows
<1> QED
  BY <1>2, <1>3, <1>4 DEF TreeInv, GoodTree

\* A step that puts a node whose reads are what was asked for keeps the promise.
LEMMA Put ==
  ASSUME TreeInv, NEW node \in {"query", "view", "table"},
         NEW shape \in {"rows", "keyed", "key", "tagged", "tag"},
         node = "query" => shape \in {"rows", "keyed", "tagged"},
         NEW kept, kept \subseteq All, shape # "rows" => kept = All,
         NEW dml \in BOOLEAN, NEW results,
         \A R \in results : ReadOf(Base, shape, kept, R),
         dml => \E R : results = {R},
         Puts(node, shape, kept, dml, results)
  PROVE  TreeInv'
<1>1. catalog' = catalog /\ catalog \in Catalogs
  BY DEF Puts, TreeInv
<1> DEFINE t == [node |-> node, shape |-> shape, kept |-> kept, dml |-> dml, reads |-> results]
<1>2. tree' = t
  BY DEF Puts
<1>3. GoodTree(catalog.rows, t)
  BY DEF GoodTree, Base, All
<1> HIDE DEF t
<1> QED
  BY <1>1, <1>2, <1>3 DEF TreeInv

\* A query for some rows that returns just those keeps the promise,
LEMMA PutRows ==
  ASSUME TreeInv, NEW kept, kept \subseteq All, NEW results,
         \A R \in results : R = Where(Base, kept),
         PutsQuery(kept, results)
  PROVE  TreeInv'
<1>1. \A R \in results : ReadOf(Base, "rows", kept, R)
  BY DEF ReadOf
<1> QED
  BY <1>1, Put DEF PutsQuery

\* one for all rows that returns the base table,
LEMMA PutAll ==
  ASSUME TreeInv, NEW results, \A R \in results : R = Base, PutsQuery(All, results)
  PROVE  TreeInv'
<1>1. \A R \in results : R = Where(Base, All)
  BY BaseWhere DEF TreeInv
<1> QED
  BY <1>1, PutRows

\* a view that is the base table,
LEMMA PutView ==
  ASSUME TreeInv, NEW results, \A R \in results : R = Base, PutsView(results)
  PROVE  TreeInv'
<1>1. \A R \in results : R = Where(Base, All)
  BY BaseWhere DEF TreeInv
<1>2. \A R \in results : ReadOf(Base, "rows", All, R)
  BY <1>1 DEF ReadOf
<1> QED
  BY <1>2, Put DEF PutsView

\* and an object whose reads are among those of the query it is made of; what can be written to
\* is read one way.
LEMMA PutObject ==
  ASSUME TreeInv, NEW node \in {"view", "table"}, NEW dml \in BOOLEAN, NEW results,
         results \subseteq tree.reads,
         dml => \E R : results = {R},
         PutsObject(node, dml, results)
  PROVE  TreeInv'
<1>1. \A R \in results : ReadOf(Base, tree.shape, tree.kept, R)
  BY DEF TreeInv, GoodTree, Base
<1>2. /\ tree.shape \in {"rows", "keyed", "key", "tagged", "tag"}
      /\ tree.kept \subseteq All /\ (tree.shape # "rows" => tree.kept = All)
  BY DEF TreeInv, GoodTree, Base, All
<1>3. PICK shape, kept : shape = tree.shape /\ kept = tree.kept
  OBVIOUS
<1>4. Puts(node, shape, kept, dml, results)
  BY <1>3 DEF PutsObject
<1> QED
  BY <1>1, <1>2, <1>3, <1>4, Put

\* A view that reads what its query returns.
LEMMA PutViewOf ==
  ASSUME TreeInv, NEW results, results \subseteq tree.reads, PutsObject("view", FALSE, results)
  PROVE  TreeInv'
  BY PutObject

\* One result, fixed, that can be written to.
LEMMA PutTableOf ==
  ASSUME TreeInv, NEW R \in tree.reads, PutsObject("table", TRUE, {R})
  PROVE  TreeInv'
<1>1. {R} \subseteq tree.reads /\ \E Q : {R} = {Q}
  OBVIOUS
<1> QED
  BY <1>1, PutObject

\* What a builder over one source reads: the base table.
LEMMA SourceIsBase ==
  ASSUME TreeInv, dispatch_source, NEW R \in tree.reads
  PROVE  R = Base
<1>1. tree.shape = "rows" /\ tree.kept = All
  BY DEF dispatch_source, AsksRows
<1>2. R = Where(Base, All)
  BY <1>1 DEF TreeInv, GoodTree, ReadOf, Base
<1> QED
  BY <1>2, BaseWhere DEF TreeInv

\* What a builder reads that asks for a source is the base table.
LEMMA SourcesAreBase ==
  ASSUME TreeInv, dispatch_source
  PROVE  \A R \in tree.reads : R = Base
  BY SourceIsBase

\* The one keyed table.
LEMMA KeyedSource ==
  ASSUME TreeInv, materialize_row_key
  PROVE  \E R : tree.reads = {R} /\ KeyedRows(Base, R) /\ R = SetToBag(DOMAIN R)
<1>1. tree.shape = "keyed" /\ tree.dml
  BY DEF materialize_row_key
<1>2. PICK R : tree.reads = {R}
  BY <1>1 DEF TreeInv, GoodTree
<1>3. ReadOf(Base, "keyed", tree.kept, R)
  BY <1>1, <1>2 DEF TreeInv, GoodTree, Base
<1> QED
  BY <1>2, <1>3 DEF ReadOf

-----------------------------------------------------------------------------
(* Query nodes over one source.                                            *)

\* Rows of the base table, any of them.
LEMMA SomeBaseRows ==
  ASSUME catalog \in Catalogs, NEW kept
  PROVE  Wide(Where(Base, kept)) /\ DOMAIN Where(Base, kept) \subseteq Rows2
<1>1. Wide(Where(Base, kept))
  BY BaseIsWide, WhereIsWide
<1>2. DOMAIN Where(Base, kept) \subseteq DOMAIN Base
  BY WhereDomain
<1> QED
  BY <1>1, <1>2, BaseIsWide

\* The base columns of the base table are the base table,
LEMMA BaseItemsOfBase ==
  ASSUME catalog \in Catalogs
  PROVE  base_items(Base) = Base
  BY BaseIsWide, BaseItemsOfTwo DEF Wide

\* and of some of its rows, cast or not, are those rows.
LEMMA ProjectedBaseRows ==
  ASSUME catalog \in Catalogs, NEW kept
  PROVE  cast_signature(base_items(Where(Base, kept))) = Where(Base, kept)
<1> DEFINE R == Where(Base, kept)
<1>1. Wide(R) /\ DOMAIN R \subseteq Rows2
  BY SomeBaseRows
<1> HIDE DEF R
<1>2. base_items(R) = R
  BY <1>1, BaseItemsOfTwo DEF Wide
<1>3. cast_signature(R) = R
  BY <1>1, CastSignature
<1> QED
  BY <1>2, <1>3 DEF R

\* A column more, dropped again.
LEMMA WidenedIs ==
  ASSUME NEW R, Tidy(R), NEW v
  PROVE  Tidy(Widened(R, v)) /\ \A out \in DOMAIN Widened(R, v) : \E row \in DOMAIN R : out = Append(Columns2(row), v)
<1> DEFINE f == [row \in DOMAIN R |-> Append(Columns2(row), v)]
<1>1. \A row \in DOMAIN R : f[row] = Append(Columns2(row), v)
  OBVIOUS
<1>2. Widened(R, v) = Select(R, f)
  BY DEF Widened
<1> HIDE DEF f
<1>3. Tidy(Select(R, f)) /\ DOMAIN Select(R, f) = Image(R, f)
  BY SelectTidy, SelectDomain
<1>4. \A out \in Image(R, f) : \E row \in DOMAIN R : f[row] = out
  BY ImageIs
<1> QED
  BY <1>1, <1>2, <1>3, <1>4

\* A column that was added and is dropped leaves what there was.
LEMMA BaseItemsOfWidened ==
  ASSUME NEW R, Tidy(R), DOMAIN R \subseteq Rows2, NEW v \in Value
  PROVE  base_items(Widened(R, v)) = R
<1> DEFINE f == [row \in DOMAIN R |-> Append(Columns2(row), v)]
           S == Select(R, f)
           g == [row \in DOMAIN S |-> Columns2(row)]
           h == [row \in DOMAIN R |-> row]
<1>1. ASSUME NEW row \in DOMAIN R PROVE h[row] = g[f[row]]
  <2>1. f[row] \in DOMAIN S
    BY SelectDomain, ImageIs
  <2>2. row \in Rows2 /\ Columns2(row) = row
    BY ColumnsOfTwo
  <2>3. f[row] = Append(row, v)
    BY <2>2
  <2>4. Columns2(Append(row, v)) = row
    BY <2>2, AppendToTwo
  <2> QED
    BY <2>1, <2>3, <2>4
<1>2. \A row \in DOMAIN R : h[row] = row
  OBVIOUS
<1>3. base_items(Widened(R, v)) = Select(S, g)
  BY DEF base_items, Widened
<1>4. S = Select(R, f)
  OBVIOUS
<1> HIDE DEF f, g, h, S
<1>5. Select(Select(R, f), g) = Select(R, h)
  BY <1>1, SelectComposes
<1>6. Select(R, h) = R
  BY <1>2, SelectIdentity
<1> QED
  BY <1>3, <1>4, <1>5, <1>6

\* The rows that are widened are whole ones.
LEMMA WidenedIsWide ==
  ASSUME NEW R, Tidy(R), DOMAIN R \subseteq AnyRows, NEW v \in Value
  PROVE  Wide(Widened(R, v)) /\ \A out \in DOMAIN Widened(R, v) : out \in Rows3 /\ Extra(out) = v
<1>1. ASSUME NEW out \in DOMAIN Widened(R, v) PROVE out \in Rows3 /\ Extra(out) = v
  <2>1. PICK row \in DOMAIN R : out = Append(Columns2(row), v)
    BY WidenedIs
  <2>2. Columns2(row) \in Rows2
    BY ColumnsOfTwo, ColumnsOfThree DEF AnyRows
  <2> QED
    BY <2>1, <2>2, AppendToTwo
<1> QED
  BY <1>1, WidenedIs DEF Wide, AnyRows

\* SELECT * FROM source WHERE kept has the rows asked for,
LEMMA SelectStarKeepsRows ==
  ASSUME TreeInv, SelectStarQueryBuilder
  PROVE  TreeInv'
<1>1. PICK kept \in SUBSET All : dispatch_source /\ PutsQuery(kept, SelectStar(tree.reads, kept))
  BY DEF SelectStarQueryBuilder
<1>2. \A R \in SelectStar(tree.reads, kept) : R = Where(Base, kept)
  BY <1>1, SourcesAreBase DEF SelectStar
<1> QED
  BY <1>1, <1>2, PutRows

\* and so has SELECT of the columns by name.
LEMMA ExplicitProjectionKeepsRows ==
  ASSUME TreeInv, ExplicitProjectionQueryBuilder
  PROVE  TreeInv'
<1>1. PICK kept \in SUBSET All : dispatch_source /\ PutsQuery(kept, SelectQuery(tree.reads, kept))
  BY DEF ExplicitProjectionQueryBuilder
<1>2. \A R \in SelectQuery(tree.reads, kept) : R = Where(Base, kept)
  BY <1>1, SourcesAreBase, ProjectedBaseRows DEF SelectQuery, TreeInv
<1> QED
  BY <1>1, <1>2, PutRows

\* A CTE of the rows asked for has them.
LEMMA CteKeepsRows ==
  ASSUME TreeInv, CteQueryBuilder
  PROVE  TreeInv'
<1>1. PICK kept \in SUBSET All : dispatch_source /\ PutsQuery(kept, CteQuery(tree.reads, kept))
  BY DEF CteQueryBuilder
<1>2. \A R \in SelectStar(tree.reads, kept) : R = Where(Base, kept)
  BY <1>1, SourcesAreBase DEF SelectStar
<1>3. Where(Where(Base, kept), DOMAIN Where(Base, kept)) = Where(Base, kept)
  BY SomeBaseRows, WhereAll DEF TreeInv, Wide
<1>4. \A R \in CteQuery(tree.reads, kept) : R = Where(Base, kept)
  BY <1>2, <1>3 DEF CteQuery
<1> QED
  BY <1>1, <1>4, PutRows

\* The columns read again by LATERAL are the columns.
LEMMA LateralReprojectKeepsRows ==
  ASSUME TreeInv, LateralReprojectQueryBuilder
  PROVE  TreeInv'
<1>1. dispatch_source /\ PutsQuery(All, LateralReprojectQuery(tree.reads))
  BY DEF LateralReprojectQueryBuilder
<1>2. \A R \in LateralReprojectQuery(tree.reads) : R = Base
  BY <1>1, SourcesAreBase, BaseItemsOfBase DEF LateralReprojectQuery, TreeInv
<1> QED
  BY <1>1, <1>2, PutAll

\* The column that a view adds the query leaves out.
LEMMA AddDropColumnKeepsRows ==
  ASSUME TreeInv, AddDropColumnQueryBuilder
  PROVE  TreeInv'
<1> DEFINE wider == {Widened(R, NULL) : R \in tree.reads}
           results == {base_items(R) : R \in wider}
<1>1. dispatch_source /\ PutsQuery(All, results)
  BY DEF AddDropColumnQueryBuilder
<1>2. base_items(Widened(Base, NULL)) = Base
  BY BaseIsWide, BaseItemsOfWidened, SmallNumbers DEF TreeInv, Wide
<1>3. \A R \in results : R = Base
  BY <1>1, <1>2, SourcesAreBase
<1> HIDE DEF results
<1> QED
  BY <1>1, <1>3, PutAll

\* An inner ORDER BY changes no row.
LEMMA OrderedScanKeepsRows ==
  ASSUME TreeInv, OrderedScanQueryBuilder
  PROVE  TreeInv'
<1>1. dispatch_source /\ PutsQuery(All, SelectQuery(tree.reads, All))
  BY DEF OrderedScanQueryBuilder
<1>2. \A R \in SelectQuery(tree.reads, All) : R = Where(Base, All)
  BY <1>1, SourcesAreBase, ProjectedBaseRows DEF SelectQuery, TreeInv
<1> QED
  BY <1>1, <1>2, PutRows

(* Rewrites of columns. *)
\* p OR NOT p OR p IS NULL is true of every row, whatever p is.
LEMMA DeterminedIsTrue ==
  ASSUME NEW p \in Predicates
  PROVE  DOMAIN determined_true(p) = All /\ \A row \in All : determined_true(p)[row] = "true"
<1>1. DOMAIN p = All /\ \A row \in All : p[row] \in Truth
  BY DEF Predicates
<1>2. ASSUME NEW row \in All
      PROVE  Or3(Or3(p[row], Not3(p[row])), IsNull3(p[row])) = "true"
  <2>1. p[row] \in {"true", "false", "null"}
    BY <1>1 DEF Truth
  <2>2. CASE p[row] = "true"
    BY <2>2 DEF Or3, Not3, IsNull3
  <2>3. CASE p[row] = "false"
    BY <2>3 DEF Or3, Not3, IsNull3
  <2>4. CASE p[row] = "null"
    BY <2>4 DEF Or3, Not3, IsNull3
  <2> QED
    BY <2>1, <2>2, <2>3, <2>4
<1> QED
  BY <1>1, <1>2 DEF determined_true

\* A list of columns that is each row again.
LEMMA SelectSame ==
  ASSUME TreeInv, dispatch_source, NEW f, \A row \in All : f[row] = row
  PROVE  Select(Base, f) = Base
  BY BaseIsTidy, SelectIdentity DEF TreeInv, All

\* A CASE on what is always true is the column, whichever predicates it is made of.
LEMMA EetCaseColumnKeepsRows ==
  ASSUME TreeInv, EetCaseColumnQueryBuilder
  PROVE  TreeInv'
<1>1. PICK p \in Predicates, q \in Predicates :
        /\ dispatch_source
        /\ PutsQuery(All, {Select(R, [row \in DOMAIN R |->
                                        <<CaseWhen(determined_true(p), row, row[1]),
                                          CaseWhen(determined_true(q), row, row[2])>>]) : R \in tree.reads})
  BY DEF EetCaseColumnQueryBuilder, free_predicate
<1> DEFINE f == [row \in All |-> <<CaseWhen(determined_true(p), row, row[1]),
                                   CaseWhen(determined_true(q), row, row[2])>>]
           results == {Select(R, [row \in DOMAIN R |->
                                        <<CaseWhen(determined_true(p), row, row[1]),
                                          CaseWhen(determined_true(q), row, row[2])>>]) : R \in tree.reads}
<1>2. ASSUME NEW row \in All PROVE f[row] = row
  <2>1. CaseWhen(determined_true(p), row, row[1]) = row[1]
    BY DeterminedIsTrue DEF CaseWhen
  <2>2. CaseWhen(determined_true(q), row, row[2]) = row[2]
    BY DeterminedIsTrue DEF CaseWhen
  <2>3. row = <<row[1], row[2]>>
    BY BaseIsWide, RowsOfTwo DEF TreeInv, All
  <2> QED
    BY <2>1, <2>2, <2>3
<1>3. Select(Base, f) = Base
  BY <1>1, <1>2, SelectSame
<1>4. \A R \in results : R = Base
  <2>1. \A R \in tree.reads : R = Base
    BY <1>1, SourcesAreBase
  <2> QED
    BY <1>3, <2>1 DEF All
<1>5. PutsQuery(All, results)
  BY <1>1
<1> HIDE DEF results
<1> QED
  BY <1>4, <1>5, PutAll

\* A condition that is always true, next to the filter, filters nothing more.
LEMMA EetDeterminedFilterKeepsRows ==
  ASSUME TreeInv, EetDeterminedFilterQueryBuilder
  PROVE  TreeInv'
<1>1. PICK kept \in SUBSET All, p \in Predicates :
        dispatch_source /\ PutsQuery(kept, SelectStar(tree.reads, conjoin(kept, determined_true(p))))
  BY DEF EetDeterminedFilterQueryBuilder, free_predicate
<1>2. conjoin(kept, determined_true(p)) = kept
  BY DeterminedIsTrue DEF conjoin, Keeps
<1>3. \A R \in SelectStar(tree.reads, kept) : R = Where(Base, kept)
  BY <1>1, SourcesAreBase DEF SelectStar
<1> QED
  BY <1>1, <1>2, <1>3, PutRows

\* What was encoded and decoded is what it was, NULL too, whatever the codec makes of NULL.
LEMMA CodecRoundTripKeepsRows ==
  ASSUME TreeInv, CodecRoundTripQueryBuilder
  PROVE  TreeInv'
<1>1. PICK OfNull \in {NULL, 0} :
        /\ dispatch_source
        /\ PutsQuery(All, {Select(R, [row \in DOMAIN R |->
                            [c \in Columns |-> IF c \in plan THEN roundtrip(row[c], OfNull) ELSE row[c]]]) : R \in tree.reads})
  BY DEF CodecRoundTripQueryBuilder
<1> DEFINE f == [row \in All |-> [c \in Columns |-> IF c \in plan THEN roundtrip(row[c], OfNull) ELSE row[c]]]
           results == {Select(R, [row \in DOMAIN R |->
                            [c \in Columns |-> IF c \in plan THEN roundtrip(row[c], OfNull) ELSE row[c]]]) : R \in tree.reads}
<1>2. ASSUME NEW row \in All PROVE f[row] = row
  <2>1. f[row] = [c \in Columns |-> row[c]]
    BY DEF roundtrip
  <2>2. row \in Rows2
    BY BaseIsWide DEF TreeInv, All
  <2>3. row = [c \in 1 .. 2 |-> row[c]]
    BY <2>2, RowsOfTwo
  <2>4. Columns = 1 .. 2
    BY TwoColumns DEF TreeInv
  <2> QED
    BY <2>1, <2>3, <2>4
<1>3. Select(Base, f) = Base
  BY <1>1, <1>2, SelectSame
<1>4. \A R \in results : R = Base
  <2>1. \A R \in tree.reads : R = Base
    BY <1>1, SourcesAreBase
  <2> QED
    BY <1>3, <2>1 DEF All
<1>5. PutsQuery(All, results)
  BY <1>1
<1> HIDE DEF results
<1> QED
  BY <1>4, <1>5, PutAll

-----------------------------------------------------------------------------
(* Row numbers and the window functions.                                   *)

\* A set is a relation with these rows,
LEMMA SetIsTidy ==
  ASSUME NEW S, IsFiniteSet(S)
  PROVE  Tidy(SetToBag(S)) /\ DOMAIN SetToBag(S) = S
  BY DEF Tidy, SetToBag

\* once each,
LEMMA SetAt ==
  ASSUME NEW S, NEW x \in S
  PROVE  SetToBag(S)[x] = 1
  BY DEF SetToBag

\* and what is kept of it is a set.
LEMMA WhereOfSet ==
  ASSUME NEW S, NEW T
  PROVE  Where(SetToBag(S), T) = SetToBag(S \cap T)
<1>1. DOMAIN SetToBag(S) = S
  BY DEF SetToBag
<1>2. ASSUME NEW x \in S \cap T PROVE SetToBag(S)[x] = 1
  BY SetAt
<1> QED
  BY <1>1, <1>2 DEF Where, SetToBag

\* Rows that are told apart, by whatever they correspond to.
LEMMA SelectOfSet ==
  ASSUME NEW I, IsFiniteSet(I), NEW D, NEW a, a \in Bijection(I, D), NEW f, NEW g,
         \A i \in I : g[a[i]] = f[i]
  PROVE  Select(SetToBag(D), g) = Select(SetToBag(I), f)
<1>1. IsFiniteSet(D)
  BY FS_Bijection DEF ExistsBijection
<1>2. PICK R, Q : R = SetToBag(I) /\ Q = SetToBag(D)
  OBVIOUS
<1>3. Tidy(R) /\ Tidy(Q) /\ DOMAIN R = I /\ DOMAIN Q = D
  BY <1>1, <1>2, SetIsTidy
<1>4. a \in Bijection(DOMAIN R, DOMAIN Q)
  BY <1>3
<1>5. \A i \in I : a[i] \in D
  BY DEF Bijection, Injection
<1>6. \A i \in DOMAIN R : Q[a[i]] = R[i] /\ g[a[i]] = f[i]
  BY <1>2, <1>3, <1>5, SetAt
<1>7. Select(Q, g) = Select(R, f)
  BY <1>3, <1>4, <1>6, SelectReindex
<1> QED
  BY <1>2, <1>7

\* A bag is the list of its rows.
LEMMA SelectOfList ==
  ASSUME NEW R, Tidy(R), NEW n \in Nat, NEW f \in [1 .. n -> DOMAIN R],
         \A row \in DOMAIN R : Cardinality({i \in 1 .. n : f[i] = row}) = R[row]
  PROVE  Select(SetToBag(1 .. n), f) = R
<1> DEFINE S == SetToBag(1 .. n)
<1>1. Tidy(S) /\ DOMAIN S = 1 .. n
  BY UpTo, SetIsTidy
<1>2. ASSUME NEW row \in DOMAIN R
      PROVE  Total(Where(S, Maps(S, f, row))) = R[row] /\ \E i \in 1 .. n : f[i] = row
  <2>1. PICK I : I = {i \in 1 .. n : f[i] = row}
    OBVIOUS
  <2>2. Maps(S, f, row) = I /\ 1 .. n \cap I = I
    BY <1>1, <2>1 DEF Maps
  <2>3. Where(S, I) = SetToBag(I)
    BY <2>2, WhereOfSet
  <2>4. IsFiniteSet(I)
    BY <2>1, UpTo, FS_Subset
  <2>5. Total(SetToBag(I)) = R[row]
    BY <2>1, <2>4, TotalOfSet
  <2>6. I # {}
    <3>1. R[row] # 0
      BY TidyIsNatural
    <3> QED
      BY <2>1, <3>1, FS_EmptySet
  <2> QED
    BY <2>1, <2>2, <2>3, <2>5, <2>6
<1> HIDE DEF S
<1>3. Image(S, f) = DOMAIN R
  <2>1. ASSUME NEW row \in DOMAIN R PROVE row \in Image(S, f)
    BY <1>1, <1>2, ImageIs
  <2>2. ASSUME NEW row \in Image(S, f) PROVE row \in DOMAIN R
    BY <1>1, ImageIs
  <2> QED
    BY <2>1, <2>2
<1>4. Select(S, f) = R
  BY <1>1, <1>2, <1>3, SameSelect
<1> QED
  BY <1>4 DEF S

\* Numbering the rows.
LEMMA NumberedIsKeyed ==
  ASSUME catalog \in Catalogs, NEW N \in Numbered(Base)
  PROVE  KeyedRows(Base, N) /\ N = SetToBag(DOMAIN N)
<1>1. PICK n, V : n = Total(Base) /\ V = DOMAIN Base
  OBVIOUS
<1>2. n \in Nat /\ n < OtherType
  BY <1>1, BaseIsSmall
<1>3. PICK f :
        /\ f \in [1 .. n -> V]
        /\ \A row \in V : Cardinality({i \in 1 .. n : f[i] = row}) = Base[row]
        /\ N = SetToBag({Append(f[i], i) : i \in 1 .. n})
  BY <1>1 DEF Numbered
<1>4. PICK a : a = [i \in 1 .. n |-> Append(f[i], i)]
  OBVIOUS
<1>5. PICK D : D = {a[i] : i \in 1 .. n}
  OBVIOUS
<1>6. N = SetToBag(D)
  BY <1>3, <1>4, <1>5
<1>7. ASSUME NEW i \in 1 .. n
      PROVE  f[i] \in V /\ a[i] \in D /\ a[i] \in Rows3 /\ Columns2(a[i]) = f[i] /\ Extra(a[i]) = i
  <2>1. f[i] \in Rows2 /\ f[i] \in V
    BY <1>1, <1>3, BaseIsWide
  <2>2. i \in Value
    <3>1. i \in Nat /\ i < OtherType
      BY <1>2, ValuesAssumption
    <3> QED
      BY <3>1, SmallNumbers
  <2>3. a[i] = Append(f[i], i)
    BY <1>4
  <2> QED
    BY <1>5, <2>1, <2>2, <2>3, AppendToTwo
<1>8. \A row \in D : \E i \in 1 .. n : a[i] = row
  BY <1>5
<1>9. a \in Surjection(1 .. n, D) /\ IsFiniteSet(1 .. n)
  BY <1>2, <1>4, <1>5, UpTo DEF Surjection
<1>10. IsFiniteSet(D)
  BY <1>9, FS_Surjection
<1>11. Tidy(N) /\ DOMAIN N = D
  BY <1>6, <1>10, SetIsTidy
<1>12. base_items(N) = Base
  <2>0. PICK g : g = [row \in DOMAIN N |-> Columns2(row)]
    OBVIOUS
  <2>1. IsFiniteSet(1 .. n)
    BY <1>2, UpTo
  <2>2. a \in [1 .. n -> D]
    BY <1>4, <1>7
  <2>3. \A i, j \in 1 .. n : a[i] = a[j] => i = j
    <3>1. ASSUME NEW i \in 1 .. n, NEW j \in 1 .. n, a[i] = a[j] PROVE i = j
      <4>1. Extra(a[i]) = i
        BY <1>7
      <4>2. Extra(a[j]) = j
        BY <1>7
      <4> QED
        BY <3>1, <4>1, <4>2
    <3> QED
      BY <3>1
  <2>4. a \in Bijection(1 .. n, D)
    BY <1>8, <2>2, <2>3, IsABijection
  <2>5. ASSUME NEW i \in 1 .. n PROVE g[a[i]] = f[i]
    <3>1. a[i] \in D /\ Columns2(a[i]) = f[i]
      BY <1>7
    <3> QED
      BY <1>11, <2>0, <3>1
  <2>6. base_items(N) = Select(N, g)
    BY <2>0 DEF base_items
  <2>7. Select(SetToBag(D), g) = Select(SetToBag(1 .. n), f)
    <3>1. PICK I : I = 1 .. n
      OBVIOUS
    <3>2. IsFiniteSet(I) /\ a \in Bijection(I, D) /\ \A i \in I : g[a[i]] = f[i]
      BY <2>1, <2>4, <2>5, <3>1
    <3>3. Select(SetToBag(D), g) = Select(SetToBag(I), f)
      BY <3>2, SelectOfSet
    <3> QED
      BY <3>1, <3>3
  <2>8. Select(SetToBag(1 .. n), f) = Base
    BY <1>1, <1>2, <1>3, BaseIsTidy, SelectOfList
  <2> QED
    BY <1>6, <2>6, <2>7, <2>8
<1>13. D \subseteq Rows3
  BY <1>7, <1>8
<1>14. \A row \in D : Extra(row) \in 1 .. n
  BY <1>7, <1>8
<1>15. ASSUME NEW row \in D, NEW other \in D, Extra(row) = Extra(other) PROVE row = other
  <2>1. PICK i \in 1 .. n : a[i] = row
    BY <1>8
  <2>2. PICK j \in 1 .. n : a[j] = other
    BY <1>8
  <2>3. i = j
    BY <1>7, <1>15, <2>1, <2>2
  <2> QED
    BY <2>1, <2>2, <2>3
<1>16. Wide(N)
  BY <1>11, <1>13 DEF Wide, AnyRows
<1> QED
  BY <1>1, <1>6, <1>11, <1>12, <1>13, <1>14, <1>15, <1>16 DEF KeyedRows

\* Dropping its row number, the base table again.
LEMMA KeyedBaseItems ==
  ASSUME NEW rows, NEW R, KeyedRows(rows, R), R = SetToBag(DOMAIN R)
  PROVE  base_items(R) = rows
  BY DEF KeyedRows

\* Every row number is at least 1, and QUALIFY that drops none keeps all rows.
LEMMA QualifyKeepsRows ==
  ASSUME TreeInv, QualifyQueryBuilder
  PROVE  TreeInv'
<1> DEFINE results == {base_items(WithExtra(R, Nat \ {0})) : R \in SelectNumbered(tree.reads)}
<1>1. dispatch_source /\ PutsQuery(All, results)
  BY DEF QualifyQueryBuilder
<1>2. ASSUME NEW N \in SelectNumbered(tree.reads) PROVE base_items(WithExtra(N, Nat \ {0})) = Base
  <2>1. N \in Numbered(Base)
    BY <1>1, SourcesAreBase DEF SelectNumbered
  <2>2. KeyedRows(Base, N) /\ N = SetToBag(DOMAIN N)
    BY <2>1, NumberedIsKeyed DEF TreeInv
  <2>3. PICK D : D = {row \in DOMAIN N : Extra(row) \in Nat \ {0}}
    OBVIOUS
  <2>4. DOMAIN N \subseteq D
    BY <2>2, <2>3 DEF KeyedRows
  <2>5. Where(N, D) = N
    BY <2>2, <2>4, WhereAll DEF KeyedRows, Wide
  <2>6. base_items(N) = Base
    BY <2>2, KeyedBaseItems
  <2> QED
    BY <2>3, <2>5, <2>6 DEF WithExtra
<1>3. \A R \in results : R = Base
  BY <1>2
<1> HIDE DEF results
<1> QED
  BY <1>1, <1>3, PutAll

\* A base table whose rows are all tagged to be kept keeps the base table.
LEMMA KeepIsTagged ==
  ASSUME catalog \in Catalogs
  PROVE  TaggedRows(Base, Widened(Base, KEEP))
<1> DEFINE W == Widened(Base, KEEP)
<1>1. KEEP \in Value
  BY SmallNumbers DEF KEEP
<1>2. Wide(W) /\ \A out \in DOMAIN W : out \in Rows3 /\ Extra(out) = KEEP
  BY <1>1, BaseIsWide, WidenedIsWide DEF Wide
<1>3. base_items(W) = Base
  BY <1>1, BaseIsWide, BaseItemsOfWidened DEF Wide
<1> HIDE DEF W
<1>4. PICK D : D = {row \in DOMAIN W : Extra(row) \in {KEEP}}
  OBVIOUS
<1>5. Where(W, D) = W
  BY <1>2, <1>4, WhereAll DEF Wide
<1>6. TaggedRows(Base, W)
  BY <1>2, <1>3, <1>4, <1>5 DEF TaggedRows, WithExtra
<1> QED
  BY <1>6 DEF W

\* ROW_NUMBER() makes a keyed table of the base table, whichever way it numbers the rows, and a
\* constant makes a tagged one.
LEMMA ProjectionKeepsPromise ==
  ASSUME TreeInv, ProjectionQueryBuilder
  PROVE  TreeInv'
<1>1. dispatch_source
  BY DEF ProjectionQueryBuilder
<1>2. CASE Puts("query", "keyed", All, FALSE, SelectNumbered(tree.reads))
  <2>1. ASSUME NEW N \in SelectNumbered(tree.reads) PROVE ReadOf(Base, "keyed", All, N)
    <3>1. N \in Numbered(Base)
      BY <1>1, SourcesAreBase DEF SelectNumbered
    <3> QED
      BY <3>1, NumberedIsKeyed DEF TreeInv, ReadOf
  <2> QED
    BY <1>2, <2>1, Put
<1>3. CASE Puts("query", "tagged", All, FALSE, {Widened(R, KEEP) : R \in tree.reads})
  <2>1. PICK results : results = {Widened(R, KEEP) : R \in tree.reads}
    OBVIOUS
  <2>2. \A R \in results : R = Widened(Base, KEEP)
    BY <1>1, <2>1, SourcesAreBase
  <2>3. \A R \in results : ReadOf(Base, "tagged", All, R)
    BY <2>2, KeepIsTagged DEF TreeInv, ReadOf
  <2>4. Puts("query", "tagged", All, FALSE, results)
    BY <1>3, <2>1
  <2> QED
    BY <2>3, <2>4, Put
<1> QED
  BY <1>2, <1>3 DEF ProjectionQueryBuilder

\* A partition of a column that is no floating point number holds one value.
LEMMA OneValueEach ==
  ASSUME catalog \in Catalogs, NEW row \in All, NEW c \in {1, 2}, catalog.types[c] # "double"
  PROVE  PartitionValues(Base, c, row) = {row[c]}
<1>1. \A other \in All : other[c] # MinusZero
  BY CatalogsAssumption DEF IsCatalog, Base, All
<1>2. \A other \in All : Alike(other[c], row[c]) <=> other[c] = row[c]
  BY <1>1 DEF Alike
<1> QED
  BY <1>2 DEF PartitionValues, All

\* In a column that is not of floating point numbers a partition has one value, which any
\* function returns.
LEMMA WindowListsAreSame ==
  ASSUME catalog \in Catalogs, NEW rewritten, \A c \in rewritten : catalog.types[c] # "double",
         NEW list, list \in WindowLists(Base, rewritten)
  PROVE  Select(Base, list) = Base
<1>1. 1 \in Columns /\ 2 \in Columns
  BY TwoColumns
<1>2. PICK T : T = {row[1] : row \in DOMAIN Base} \X {row[2] : row \in DOMAIN Base}
  OBVIOUS
<1>3. /\ list \in [DOMAIN Base -> T]
      /\ \A row \in DOMAIN Base, c \in Columns :
           list[row][c] \in IF c \in rewritten THEN PartitionValues(Base, c, row) ELSE {row[c]}
  BY <1>2 DEF WindowLists
<1>4. ASSUME NEW row \in DOMAIN Base PROVE list[row] = row
  <2>1. /\ list[row][1] \in IF 1 \in rewritten THEN PartitionValues(Base, 1, row) ELSE {row[1]}
        /\ list[row][2] \in IF 2 \in rewritten THEN PartitionValues(Base, 2, row) ELSE {row[2]}
    BY <1>1, <1>2, <1>3
  <2>2. list[row] \in T
    BY <1>3
  <2>3. PICK v, w : list[row] = <<v, w>>
    BY <1>2, <2>2
  <2>4. list[row][1] = row[1] /\ list[row][2] = row[2]
    BY <2>1, OneValueEach DEF All
  <2>5. row = <<row[1], row[2]>>
    BY BaseIsWide, RowsOfTwo
  <2> QED
    BY <2>3, <2>4, <2>5
<1> QED
  BY <1>4, BaseIsTidy, SelectIdentity

\* So MIN, MAX, FIRST_VALUE and LAST_VALUE over the partition of the column are the column.
LEMMA WindowRewriteKeepsRows ==
  ASSUME TreeInv, WindowRewriteQueryBuilder
  PROVE  TreeInv'
<1>1. PICK function \in WindowFunctions, framed \in BOOLEAN :
        LET ordered == function \in {"FIRST_VALUE", "LAST_VALUE"} \/ framed
            rewritten == {c \in Columns : eligible(catalog.types[c], function, ordered)}
            Runs == function \in {"MIN", "MAX"} => \A c \in rewritten : HasMinMax(catalog.types[c])
        IN /\ rewritten # {} /\ dispatch_source
           /\ PutsQuery(All, IF Runs THEN UNION {{Select(R, list) : list \in WindowLists(R, rewritten)} : R \in tree.reads}
                             ELSE {})
  BY DEF WindowRewriteQueryBuilder
<1> DEFINE ordered == function \in {"FIRST_VALUE", "LAST_VALUE"} \/ framed
           rewritten == {c \in Columns : eligible(catalog.types[c], function, ordered)}
           Runs == function \in {"MIN", "MAX"} => \A c \in rewritten : HasMinMax(catalog.types[c])
           results == IF Runs THEN UNION {{Select(R, list) : list \in WindowLists(R, rewritten)} : R \in tree.reads}
                      ELSE {}
<1>2. dispatch_source /\ PutsQuery(All, results)
  BY <1>1
<1>3. \A c \in rewritten : catalog.types[c] # "double"
  BY DEF eligible
<1> HIDE DEF Runs, rewritten
<1>4. ASSUME NEW R \in results PROVE R = Base
  <2>1. \A Q \in tree.reads : Q = Base
    BY <1>2, SourcesAreBase
  <2>2. PICK list \in WindowLists(Base, rewritten) : R = Select(Base, list)
    BY <2>1
  <2> QED
    BY <1>3, <2>2, WindowListsAreSame DEF TreeInv
<1> HIDE DEF results
<1> QED
  BY <1>2, <1>4, PutAll

-----------------------------------------------------------------------------
(* Sums of relations; tables and views made of a query.                    *)

\* One bag on top of another.
LEMMA SumAt ==
  ASSUME NEW R, NEW Q
  PROVE  /\ DOMAIN (R (+) Q) = DOMAIN R \cup DOMAIN Q
         /\ \A row \in DOMAIN R \cup DOMAIN Q : (R (+) Q)[row] = Count(row, R) + Count(row, Q)
  BY DEF (+)

\* How often a row occurs, or does not.
LEMMA CountIsNatural ==
  ASSUME NEW R, Tidy(R), NEW row
  PROVE  /\ Count(row, R) \in Nat
         /\ row \in DOMAIN R => Count(row, R) = R[row]
         /\ row \notin DOMAIN R => Count(row, R) = 0
  BY TidyIsNatural DEF Count

\* Two relations together are a relation,
LEMMA SumIsTidy ==
  ASSUME NEW R, Tidy(R), NEW Q, Tidy(Q)
  PROVE  Tidy(R (+) Q)
<1>1. IsFiniteSet(DOMAIN R \cup DOMAIN Q)
  BY FS_Union DEF Tidy
<1>2. ASSUME NEW row \in DOMAIN R \cup DOMAIN Q PROVE Count(row, R) + Count(row, Q) \in Nat \ {0}
  <2>1. Count(row, R) \in Nat /\ Count(row, Q) \in Nat
    BY CountIsNatural
  <2>2. CASE row \in DOMAIN R
    <3>1. Count(row, R) = R[row] /\ R[row] >= 1
      BY <2>2, TidyIsNatural DEF Count
    <3> QED
      BY <2>1, <3>1
  <2>3. CASE row \in DOMAIN Q
    <3>1. Count(row, Q) = Q[row] /\ Q[row] >= 1
      BY <2>3, TidyIsNatural DEF Count
    <3> QED
      BY <2>1, <3>1
  <2> QED
    BY <2>2, <2>3
<1>3. R (+) Q \in [DOMAIN R \cup DOMAIN Q -> Nat \ {0}]
  BY <1>2 DEF (+)
<1> QED
  BY <1>1, <1>3 DEF Tidy

\* A bag is known by its counts.
LEMMA SameCounts ==
  ASSUME NEW R, Tidy(R), NEW Q, Tidy(Q), \A row : Count(row, R) = Count(row, Q)
  PROVE  R = Q
<1>1. ASSUME NEW row PROVE row \in DOMAIN R <=> row \in DOMAIN Q
  <2>1. row \in DOMAIN R => Count(row, R) = R[row] /\ R[row] >= 1
    BY TidyIsNatural DEF Count
  <2>2. row \in DOMAIN Q => Count(row, Q) = Q[row] /\ Q[row] >= 1
    BY TidyIsNatural DEF Count
  <2>3. row \notin DOMAIN R => Count(row, R) = 0
    BY DEF Count
  <2>4. row \notin DOMAIN Q => Count(row, Q) = 0
    BY DEF Count
  <2> QED
    BY <2>1, <2>2, <2>3, <2>4
<1>2. DOMAIN R = DOMAIN Q
  BY <1>1
<1>3. \A row \in DOMAIN R : R[row] = Q[row]
  BY <1>2 DEF Count
<1> QED
  BY <1>2, <1>3, SameBag

\* In two relations together a row occurs as often as in both,
LEMMA SumCount ==
  ASSUME NEW R, Tidy(R), NEW Q, Tidy(Q), NEW row
  PROVE  Count(row, R (+) Q) = Count(row, R) + Count(row, Q)
<1>1. CASE row \in DOMAIN R \cup DOMAIN Q
  BY <1>1, SumAt DEF Count
<1>2. CASE row \notin DOMAIN R \cup DOMAIN Q
  <2>1. row \notin DOMAIN (R (+) Q) /\ row \notin DOMAIN R /\ row \notin DOMAIN Q
    BY <1>2, SumAt
  <2> QED
    BY <2>1 DEF Count
<1> QED
  BY <1>1, <1>2

\* and in a part as often as in the whole, or not at all.
LEMMA WhereCount ==
  ASSUME NEW R, NEW kept, NEW row
  PROVE  Count(row, Where(R, kept)) = IF row \in kept THEN Count(row, R) ELSE 0
<1>1. row \in DOMAIN Where(R, kept) <=> row \in DOMAIN R /\ row \in kept
  <2>1. DOMAIN Where(R, kept) = DOMAIN R \cap kept
    BY WhereDomain
  <2> QED
    BY <2>1
<1>2. row \in DOMAIN R /\ row \in kept => Where(R, kept)[row] = R[row]
  BY WhereAt
<1> QED
  BY <1>1, <1>2 DEF Count

\* DELETE leaves what is not deleted.
LEMMA DeleteIsWhere ==
  ASSUME NEW R, NEW kept
  PROVE  Delete(R, kept) = Where(R, DOMAIN R \ kept)
<1>1. DOMAIN R \cap (DOMAIN R \ kept) = DOMAIN R \ kept
  OBVIOUS
<1> QED
  BY <1>1 DEF Delete, Where

\* What is deleted and inserted again is there as before.
LEMMA DeleteAndInsert ==
  ASSUME NEW R, Tidy(R), NEW kept
  PROVE  Insert(Delete(R, kept), Where(R, kept)) = R
<1> DEFINE D == Where(R, DOMAIN R \ kept)
           W == Where(R, kept)
<1>1. Tidy(D) /\ Tidy(W)
  BY WhereTidy
<1>2. ASSUME NEW row PROVE Count(row, D (+) W) = Count(row, R)
  <2>1. Count(row, D (+) W) = Count(row, D) + Count(row, W)
    BY <1>1, SumCount
  <2>2. Count(row, D) = IF row \in DOMAIN R \ kept THEN Count(row, R) ELSE 0
    BY WhereCount
  <2>3. Count(row, W) = IF row \in kept THEN Count(row, R) ELSE 0
    BY WhereCount
  <2>4. Count(row, R) \in Nat /\ (row \notin DOMAIN R => Count(row, R) = 0)
    BY CountIsNatural
  <2> QED
    BY <2>1, <2>2, <2>3, <2>4
<1> HIDE DEF D, W
<1>3. D (+) W = R
  BY <1>1, <1>2, SumIsTidy, SameCounts
<1> QED
  BY <1>3, DeleteIsWhere DEF Insert, D, W

\* A view of a query that keeps the promise keeps it,
LEMMA CreateViewKeepsPromise ==
  ASSUME TreeInv, CreateViewBuilder
  PROVE  TreeInv'
<1>1. tree.reads \subseteq tree.reads /\ PutsObject("view", FALSE, tree.reads)
  BY DEF CreateViewBuilder, CreateView
<1> QED
  BY <1>1, PutViewOf

\* and so does a table, which is one of the query's results, fixed,
LEMMA CreateTableKeepsPromise ==
  ASSUME TreeInv, CreateTableBuilder
  PROVE  TreeInv'
<1>1. PICK rows \in tree.reads : PutsObject("table", TRUE, {rows})
  BY DEF CreateTableBuilder, CreateTable
<1> QED
  BY <1>1, PutTableOf

\* and the temporary view,
LEMMA CreateTemporaryViewKeepsPromise ==
  ASSUME TreeInv, CreateTemporaryViewBuilder
  PROVE  TreeInv'
<1>1. tree.reads \subseteq tree.reads /\ PutsObject("view", FALSE, tree.reads)
  BY DEF CreateTemporaryViewBuilder, CreateTemporaryView
<1> QED
  BY <1>1, PutViewOf

\* the temporary table,
LEMMA CreateTemporaryTableKeepsPromise ==
  ASSUME TreeInv, CreateTemporaryTableBuilder
  PROVE  TreeInv'
<1>1. PICK rows \in tree.reads : PutsObject("table", TRUE, {rows})
  BY DEF CreateTemporaryTableBuilder, CreateTemporaryTable
<1> QED
  BY <1>1, PutTableOf

\* and the materialized view.
LEMMA CreateMaterializedViewKeepsPromise ==
  ASSUME TreeInv, CreateMaterializedViewBuilder
  PROVE  TreeInv'
<1>1. PICK rows \in tree.reads : PutsObject("view", FALSE, {rows})
  BY DEF CreateMaterializedViewBuilder, CreateMaterializedView
<1>2. {rows} \subseteq tree.reads
  OBVIOUS
<1> QED
  BY <1>1, <1>2, PutViewOf

\* What reads all rows reads the base table.
LEMMA AllIsBase ==
  ASSUME TreeInv, AsksRows(All)
  PROVE  \A R \in tree.reads : R = Base
<1>1. tree.shape = "rows" /\ tree.kept = All
  BY DEF AsksRows
<1>2. \A R \in tree.reads : R = Where(Base, All)
  BY <1>1 DEF TreeInv, GoodTree, ReadOf, Base
<1> QED
  BY <1>2, BaseWhere DEF TreeInv

\* One table with the base table's rows, that can be written to.
LEMMA PutBaseTable ==
  ASSUME TreeInv, Puts("table", "rows", All, TRUE, {Base})
  PROVE  TreeInv'
<1>1. PICK results : results = {Base}
  OBVIOUS
<1>2. \A R \in results : ReadOf(Base, "rows", All, R)
  BY <1>1, BaseWhere DEF TreeInv, ReadOf
<1>3. Puts("table", "rows", All, TRUE, results)
  BY <1>1
<1> QED
  BY <1>1, <1>2, <1>3, Put

\* Rows deleted and inserted again from the base table are all there, each as often as before:
\* both statements have one condition, which answers alike both times.
LEMMA DeleteReinsertKeepsRows ==
  ASSUME TreeInv, DeleteReinsertTableBuilder
  PROVE  TreeInv'
<1>1. PICK rows \in tree.reads, predicate \in mutation_predicate :
        AsksRows(All) /\ Puts("table", "rows", All, TRUE, {DeleteReinsertTable(rows, predicate)})
  BY DEF DeleteReinsertTableBuilder
<1>2. rows = Base
  BY <1>1, AllIsBase
<1>3. DeleteReinsertTable(rows, predicate) = Base
  BY <1>2, BaseIsTidy, DeleteAndInsert DEF DeleteReinsertTable, TreeInv
<1> QED
  BY <1>1, <1>3, PutBaseTable

\* SET c0 = c0, c1 = c1 changes no row, whichever rows it updates.
LEMMA NoopUpdateKeepsRows ==
  ASSUME TreeInv, NoopUpdateTableBuilder
  PROVE  TreeInv'
<1>1. PICK rows \in tree.reads, predicate \in mutation_predicate :
        AsksRows(All) /\ Puts("table", "rows", All, TRUE, {NoopUpdateTable(rows, predicate)})
  BY DEF NoopUpdateTableBuilder
<1>2. rows = Base
  BY <1>1, AllIsBase
<1> DEFINE list == [row \in DOMAIN rows |-> row]
           f == [row \in DOMAIN rows |-> IF row \in predicate THEN list[row] ELSE row]
<1>3. \A row \in DOMAIN rows : f[row] = row
  OBVIOUS
<1>4. NoopUpdateTable(rows, predicate) = Select(rows, f)
  BY DEF NoopUpdateTable, Update
<1> HIDE DEF f, list
<1>5. Select(rows, f) = rows
  BY <1>2, <1>3, BaseIsTidy, SelectIdentity DEF TreeInv
<1> QED
  BY <1>1, <1>2, <1>4, <1>5, PutBaseTable

-----------------------------------------------------------------------------
(* Set operations.                                                         *)

\* The branches keep what they were asked for, whichever of them the tree is.
LEMMA BranchesAre ==
  ASSUME TreeInv, NEW kept, NEW branches, branches \in Branches(kept)
  PROVE  /\ DOMAIN branches = DOMAIN kept
         /\ \A i \in DOMAIN kept : \A R \in branches[i] : R = Where(Base, kept[i])
<1>1. PICK own : /\ own \in DOMAIN kept /\ AsksRelation(kept[own])
                 /\ branches = [i \in DOMAIN kept |-> IF i = own THEN tree.reads ELSE Other(kept[i])]
  BY DEF Branches
<1>2. \A R \in tree.reads : R = Where(Base, kept[own])
  <2>1. tree.shape = "rows" /\ tree.kept = kept[own]
    BY <1>1 DEF AsksRelation, AsksRows
  <2> QED
    BY <2>1 DEF TreeInv, GoodTree, ReadOf, Base
<1>3. ASSUME NEW i \in DOMAIN kept, NEW R \in branches[i] PROVE R = Where(Base, kept[i])
  <2>1. CASE i = own
    BY <1>1, <1>2, <2>1
  <2>2. CASE i # own
    BY <1>1, <2>2 DEF Other
  <2> QED
    BY <2>1, <2>2
<1> QED
  BY <1>1, <1>3

\* A UNION ALL of what each returns one thing only.
LEMMA UnionQueryIs ==
  ASSUME NEW I, NEW branches, DOMAIN branches = I, NEW Q, Q = [i \in I |-> Q[i]],
         \A i \in I : \A R \in branches[i] : R = Q[i],
         NEW U, U \in UnionAllQuery(branches)
  PROVE  U = cast_signature(UnionAll(Q))
<1>1. PICK Reads : Reads = UNION {branches[i] : i \in DOMAIN branches}
  OBVIOUS
<1>2. PICK p : /\ p \in [DOMAIN branches -> Reads] /\ \A i \in DOMAIN branches : p[i] \in branches[i]
               /\ U = cast_signature(UnionAll(p))
  BY <1>1 DEF UnionAllQuery
<1>3. p = Q
  <2>1. p = [i \in I |-> p[i]] /\ \A i \in I : p[i] = Q[i]
    BY <1>2
  <2> QED
    BY <2>1
<1> QED
  BY <1>2, <1>3

\* The parts that a function sorts the rows into are the relation again.
LEMMA UnionOfFilters ==
  ASSUME NEW R, Tidy(R), NEW I, NEW g, g \in [DOMAIN R -> I], NEW branches, DOMAIN branches = I,
         \A i \in I : branches[i] = Where(R, {row \in DOMAIN R : g[row] = i})
  PROVE  UnionAll(branches) = R
<1>1. PICK f : f = [row \in DOMAIN R |-> row]
  OBVIOUS
<1>2. ASSUME NEW i \in I PROVE branches[i] = Select(Where(R, {row \in DOMAIN R : g[row] = i}), f)
  <2>1. PICK S : S = {row \in DOMAIN R : g[row] = i}
    OBVIOUS
  <2>2. Tidy(Where(R, S))
    BY WhereTidy
  <2>3. \A row \in DOMAIN Where(R, S) : f[row] = row
    <3>1. DOMAIN Where(R, S) = DOMAIN R \cap S
      BY WhereDomain
    <3> QED
      BY <1>1, <3>1
  <2>4. Select(Where(R, S), f) = Where(R, S)
    BY <2>2, <2>3, SelectIdentity
  <2> QED
    BY <2>1, <2>4
<1>3. UnionAll(branches) = Select(R, f)
  BY <1>2, UnionOfParts
<1> QED
  BY <1>1, <1>3, SelectIdentity

\* The conditions of a filter's branches, of which each row meets one.
LEMMA UnionOfFiltersKeepsRows ==
  ASSUME TreeInv, NEW current, current \subseteq All, NEW I, NEW kept, DOMAIN kept = I,
         NEW g, g \in [current -> I],
         \A i \in I : kept[i] = {row \in current : g[row] = i},
         NEW branches, branches \in Branches(kept),
         PutsQuery(current, UnionAllQuery(branches))
  PROVE  TreeInv'
<1>1. PICK R : R = Where(Base, current)
  OBVIOUS
<1>2. Wide(R) /\ DOMAIN R = current
  BY <1>1, SomeBaseRows, WhereOf DEF TreeInv, All
<1>3. PICK Q : Q = [i \in I |-> Where(Base, kept[i])]
  OBVIOUS
<1>4. ASSUME NEW i \in I PROVE Q[i] = Where(R, {row \in DOMAIN R : g[row] = i})
  <2>1. current \cap kept[i] = kept[i] /\ kept[i] = {row \in DOMAIN R : g[row] = i}
    BY <1>2
  <2>2. Where(R, kept[i]) = Where(Base, current \cap kept[i])
    BY <1>1, WhereWhere
  <2> QED
    BY <1>3, <2>1, <2>2
<1>5. UnionAll(Q) = R
  <2>1. Tidy(R) /\ g \in [DOMAIN R -> I] /\ DOMAIN Q = I
    BY <1>2, <1>3 DEF Wide
  <2> QED
    BY <1>4, <2>1, UnionOfFilters
<1>6. DOMAIN branches = I /\ \A i \in I : \A P \in branches[i] : P = Q[i]
  BY <1>3, BranchesAre
<1>7. ASSUME NEW U, U \in UnionAllQuery(branches) PROVE U = Where(Base, current)
  <2>1. Q = [i \in I |-> Q[i]]
    BY <1>3
  <2>2. U = cast_signature(UnionAll(Q))
    BY <1>6, <1>7, <2>1, UnionQueryIs
  <2> QED
    BY <1>1, <1>2, <1>5, <2>2, CastSignature
<1>8. PICK results : results = UnionAllQuery(branches)
  OBVIOUS
<1> QED
  BY <1>7, <1>8, PutRows

\* Every value of an integer column is even or it is odd or NULL, and never both.
LEMMA EvenOrOdd ==
  ASSUME NEW row, NEW c, row[c] \in Value
  PROVE  even(row, c) = "true" <=> odd(row, c) # "true"
<1>1. CASE row[c] = NULL
  <2>1. SqlMod(row[c], 2) = NULL
    BY <1>1 DEF SqlMod
  <2>2. Compare(SqlMod(row[c], 2), 0) = "null"
    BY <2>1 DEF Compare
  <2> QED
    BY <1>1, <2>2 DEF even, odd, Not3, Or3
<1>2. CASE row[c] # NULL
  <2>1. SqlMod(row[c], 2) \in Int
    <3>1. CASE row[c] = MinusZero
      BY <1>2, <3>1 DEF SqlMod
    <3>2. CASE row[c] # MinusZero
      <4>1. row[c] \in Int
        BY <1>2, <3>2, ValuesAssumption DEF Value
      <4>2. (- row[c]) % 2 \in Int /\ row[c] % 2 \in Int
        BY <4>1
      <4>3. SqlMod(row[c], 2) = IF row[c] < 0 THEN - ((- row[c]) % 2) ELSE row[c] % 2
        BY <1>2, <3>2 DEF SqlMod
      <4> QED
        BY <4>2, <4>3
    <3> QED
      BY <3>1, <3>2
  <2>2. NULL \notin {SqlMod(row[c], 2), 0}
    BY <2>1, ValuesAssumption
  <2>3. Compare(SqlMod(row[c], 2), 0) \in {"true", "false"}
    BY <2>2 DEF Compare
  <2>4. CASE Compare(SqlMod(row[c], 2), 0) = "true"
    BY <1>2, <2>4 DEF even, odd, Not3, Or3
  <2>5. CASE Compare(SqlMod(row[c], 2), 0) = "false"
    BY <1>2, <2>5 DEF even, odd, Not3, Or3
  <2> QED
    BY <2>3, <2>4, <2>5
<1> QED
  BY <1>1, <1>2

\* So the even rows and the others, each with the filter asked for, are the rows asked for.
LEMMA PartitionUnionKeepsRows ==
  ASSUME TreeInv, PartitionUnionQueryBuilder
  PROVE  TreeInv'
<1>1. PICK current \in SUBSET All, key \in integer_keys :
        \E branches \in Branches(<<conjoin(current, [row \in All |-> even(row, key)]),
                                   conjoin(current, [row \in All |-> odd(row, key)])>>) :
          PutsQuery(current, UnionAllQuery(branches))
  BY DEF PartitionUnionQueryBuilder
<1>2. PICK kept : kept = <<conjoin(current, [row \in All |-> even(row, key)]),
                           conjoin(current, [row \in All |-> odd(row, key)])>>
  OBVIOUS
<1>3. PICK branches : branches \in Branches(kept) /\ PutsQuery(current, UnionAllQuery(branches))
  BY <1>1, <1>2
<1>4. PICK I : I = {1, 2}
  OBVIOUS
<1>5. DOMAIN kept = I
  BY <1>2, <1>4
<1>6. PICK g : g = [row \in current |-> IF even(row, key) = "true" THEN 1 ELSE 2]
  OBVIOUS
<1>7. g \in [current -> I]
  BY <1>4, <1>6
<1>8. \A row \in current : even(row, key) = "true" <=> odd(row, key) # "true"
  <2>1. ASSUME NEW row \in current PROVE row[key] \in Value
    <3>1. row[1] \in Value /\ row[2] \in Value
      BY BaseIsWide, RowsOfTwo DEF TreeInv, All
    <3>2. key \in {1, 2}
      BY TwoColumns DEF TreeInv, integer_keys
    <3> QED
      BY <3>1, <3>2
  <2> QED
    BY <2>1, EvenOrOdd
<1>9. kept[1] = {row \in current : g[row] = 1}
  BY <1>2, <1>6 DEF conjoin, Keeps
<1>10. kept[2] = {row \in current : g[row] = 2}
  BY <1>2, <1>6, <1>8 DEF conjoin, Keeps
<1>11. \A i \in I : kept[i] = {row \in current : g[row] = i}
  BY <1>4, <1>9, <1>10
<1> QED
  BY <1>3, <1>5, <1>7, <1>11, UnionOfFiltersKeepsRows

\* The rows a predicate is true of, those it is false of and those it is unknown of are all rows.
LEMMA TlpPartitionUnionKeepsRows ==
  ASSUME TreeInv, TlpPartitionUnionQueryBuilder
  PROVE  TreeInv'
<1>1. PICK current \in SUBSET All, p \in Predicates :
        \E branches \in Branches(<<conjoin(current, p), conjoin(current, Negation(p)),
                                   conjoin(current, Unknown(p))>>) :
          PutsQuery(current, UnionAllQuery(branches))
  BY DEF TlpPartitionUnionQueryBuilder
<1>2. PICK kept : kept = <<conjoin(current, p), conjoin(current, Negation(p)), conjoin(current, Unknown(p))>>
  OBVIOUS
<1>3. PICK branches : branches \in Branches(kept) /\ PutsQuery(current, UnionAllQuery(branches))
  BY <1>1, <1>2
<1>4. PICK I : I = {1, 2, 3}
  OBVIOUS
<1>5. DOMAIN kept = I
  BY <1>2, <1>4
<1>6. PICK g : g = [row \in current |-> IF p[row] = "true" THEN 1 ELSE IF p[row] = "false" THEN 2 ELSE 3]
  OBVIOUS
<1>7. g \in [current -> I]
  BY <1>4, <1>6
<1>8. DOMAIN p = All /\ \A row \in current : p[row] \in {"true", "false", "null"}
  BY DEF Predicates, Truth
<1>9. kept[1] = {row \in current : g[row] = 1}
  BY <1>2, <1>6, <1>8 DEF conjoin, Keeps
<1>10. kept[2] = {row \in current : g[row] = 2}
  <2>1. Keeps(Negation(p)) = {row \in All : p[row] = "false"}
    <3>1. \A row \in All : p[row] \in {"true", "false", "null"}
      BY DEF Predicates, Truth
    <3> QED
      BY <1>8, <3>1 DEF Negation, Not3, Keeps
  <2> QED
    BY <1>2, <1>6, <1>8, <2>1 DEF conjoin
<1>11. kept[3] = {row \in current : g[row] = 3}
  <2>1. Keeps(Unknown(p)) = {row \in All : p[row] = "null"}
    BY <1>8 DEF Unknown, IsNull3, Keeps
  <2> QED
    BY <1>2, <1>6, <1>8, <2>1 DEF conjoin
<1>12. \A i \in I : kept[i] = {row \in current : g[row] = i}
  BY <1>4, <1>9, <1>10, <1>11
<1> QED
  BY <1>3, <1>5, <1>7, <1>12, UnionOfFiltersKeepsRows

\* The base table with no rows is the base table.
LEMMA UnionEmptyKeepsRows ==
  ASSUME TreeInv, UnionEmptyRoundTripBuilder
  PROVE  TreeInv'
<1>1. PICK kept : kept = <<All, {}>>
  OBVIOUS
<1>2. PICK branches : branches \in Branches(kept) /\ PutsQuery(All, UnionAllQuery(branches))
  BY <1>1 DEF UnionEmptyRoundTripBuilder
<1>3. PICK I : I = {1, 2}
  OBVIOUS
<1>4. DOMAIN kept = I
  BY <1>1, <1>3
<1>5. PICK g : g = [row \in All |-> 1]
  OBVIOUS
<1>6. g \in [All -> I]
  BY <1>3, <1>5
<1>7. \A i \in I : kept[i] = {row \in All : g[row] = i}
  BY <1>1, <1>3, <1>5
<1> QED
  BY <1>2, <1>4, <1>6, <1>7, UnionOfFiltersKeepsRows

\* Nothing taken away, and what both have.
LEMMA ExceptNothing ==
  ASSUME NEW R, Tidy(R), NEW Q, DOMAIN Q = {}
  PROVE  ExceptAll(R, Q) = R
<1>1. ASSUME NEW row \in DOMAIN R PROVE Count(row, Q) = 0 /\ R[row] > Count(row, Q) /\ R[row] - Count(row, Q) = R[row]
  <2>1. Count(row, Q) = 0
    BY DEF Count
  <2>2. R[row] \in Nat /\ R[row] >= 1
    BY TidyIsNatural
  <2> QED
    BY <2>1, <2>2
<1>2. {left \in DOMAIN R : R[left] > Count(left, Q)} = DOMAIN R
  BY <1>1
<1>3. ExceptAll(R, Q) = [row \in DOMAIN R |-> R[row] - Count(row, Q)]
  BY <1>2 DEF ExceptAll, (-)
<1>4. [row \in DOMAIN R |-> R[row] - Count(row, Q)] = [row \in DOMAIN R |-> R[row]]
  BY <1>1
<1> QED
  BY <1>3, <1>4, TidyIsNatural

\* A relation has in common with itself all of its rows, each as often as it has it.
LEMMA IntersectSelf ==
  ASSUME NEW R, Tidy(R)
  PROVE  IntersectAll(R, R) = R
<1>1. IntersectAll(R, R) = [row \in DOMAIN R |-> R[row]]
  BY DEF IntersectAll
<1> QED
  BY <1>1, TidyIsNatural

\* No rows are kept of what nothing is kept of.
LEMMA NoBaseRows ==
  DOMAIN Where(Base, {}) = {}
<1>1. DOMAIN Where(Base, {}) = DOMAIN Base \cap {}
  BY WhereDomain
<1> QED
  BY <1>1

\* Two sides, all rows and none.
LEMMA AllAndNone ==
  ASSUME TreeInv, NEW sides, sides \in Branches(<<All, {}>>)
  PROVE  (\A L \in sides[1] : L = Base) /\ (\A R \in sides[2] : DOMAIN R = {})
<1>1. PICK kept : kept = <<All, {}>>
  OBVIOUS
<1>2. 1 \in DOMAIN kept /\ 2 \in DOMAIN kept /\ kept[1] = All /\ kept[2] = {}
  BY <1>1
<1>3. \A i \in DOMAIN kept : \A R \in sides[i] : R = Where(Base, kept[i])
  BY <1>1, BranchesAre
<1>4. \A L \in sides[1] : L = Where(Base, All)
  BY <1>2, <1>3
<1>5. \A R \in sides[2] : R = Where(Base, {})
  BY <1>2, <1>3
<1> QED
  BY <1>4, <1>5, BaseWhere, NoBaseRows DEF TreeInv

\* The base table without no rows is the base table,
LEMMA ExceptEmptyKeepsRows ==
  ASSUME TreeInv, ExceptEmptyRoundTripBuilder
  PROVE  TreeInv'
<1>1. PICK sides : sides \in Branches(<<All, {}>>) /\ PutsQuery(All, ExceptAllQuery(sides[1], sides[2]))
  BY DEF ExceptEmptyRoundTripBuilder
<1>2. ASSUME NEW U, U \in ExceptAllQuery(sides[1], sides[2]) PROVE U = Base
  <2>1. PICK L, R : L \in sides[1] /\ R \in sides[2] /\ U = cast_signature(ExceptAll(L, R))
    BY <1>2 DEF ExceptAllQuery
  <2>2. L = Base /\ DOMAIN R = {}
    BY <1>1, <2>1, AllAndNone
  <2> QED
    BY <2>1, <2>2, BaseIsWide, BaseIsTidy, ExceptNothing, CastSignature DEF TreeInv
<1> QED
  BY <1>1, <1>2, PutAll

\* and so is what it has in common with itself.
LEMMA IntersectSelfKeepsRows ==
  ASSUME TreeInv, IntersectSelfRoundTripBuilder
  PROVE  TreeInv'
<1>1. PICK sides : sides \in Branches(<<All, All>>) /\ PutsQuery(All, IntersectAllQuery(sides[1], sides[2]))
  BY DEF IntersectSelfRoundTripBuilder
<1>2. PICK kept : kept = <<All, All>>
  OBVIOUS
<1>3. 1 \in DOMAIN kept /\ 2 \in DOMAIN kept /\ kept[1] = All /\ kept[2] = All
  BY <1>2
<1>4. \A i \in DOMAIN kept : \A R \in sides[i] : R = Where(Base, kept[i])
  BY <1>1, <1>2, BranchesAre
<1>5. ASSUME NEW U, U \in IntersectAllQuery(sides[1], sides[2]) PROVE U = Base
  <2>1. PICK L, R : L \in sides[1] /\ R \in sides[2] /\ U = cast_signature(IntersectAll(L, R))
    BY <1>5 DEF IntersectAllQuery
  <2>2. L = Base /\ R = Base
    BY <1>3, <1>4, <2>1, BaseWhere DEF TreeInv
  <2> QED
    BY <2>1, <2>2, BaseIsWide, BaseIsTidy, IntersectSelf, CastSignature DEF TreeInv
<1> QED
  BY <1>1, <1>5, PutAll

-----------------------------------------------------------------------------
(* Unions of keyed tables.                                                 *)

\* The row numbers are those of as many rows as the base table has.
LEMMA AsManyRows ==
  ASSUME NEW rows, NEW R, KeyedRows(rows, R), R = SetToBag(DOMAIN R)
  PROVE  Total(R) = Total(rows)
<1>1. PICK f : f = [row \in DOMAIN R |-> Columns2(row)]
  OBVIOUS
<1>2. Tidy(R)
  BY DEF KeyedRows, Wide
<1>3. base_items(R) = Select(R, f)
  BY <1>1 DEF base_items
<1>4. Total(Select(R, f)) = Total(R)
  BY <1>2, TotalOfSelect
<1> QED
  BY <1>3, <1>4, KeyedBaseItems

\* The base columns of a part.
LEMMA BaseItemsOfPart ==
  ASSUME NEW R, NEW S, NEW f, \A row \in DOMAIN R : f[row] = Columns2(row)
  PROVE  base_items(Where(R, S)) = Select(Where(R, S), f)
<1>1. PICK P : P = Where(R, S)
  OBVIOUS
<1>2. PICK g : g = [row \in DOMAIN P |-> Columns2(row)]
  OBVIOUS
<1>3. \A row \in DOMAIN P : row \in DOMAIN R
  <2>1. DOMAIN P = DOMAIN R \cap S
    BY <1>1, WhereDomain
  <2> QED
    BY <2>1
<1>4. \A row \in DOMAIN P : g[row] = f[row]
  BY <1>2, <1>3
<1>5. Select(P, g) = Select(P, f)
  BY <1>4, SelectAgrees
<1>6. base_items(P) = Select(P, g)
  BY <1>2 DEF base_items
<1> QED
  BY <1>1, <1>5, <1>6

\* The rows of one residue of the row number.
\* The row numbers up to n that leave k when divided by m, and the rows f sends to i.
Residues(n, m, k) == {number \in 1 .. n : number % m = k}
Sent(R, f, i) == {row \in DOMAIN R : f[row] = i}

\* The rows with a residue are those that leave it.
LEMMA ResidueIs ==
  ASSUME NEW R, NEW m \in Nat \ {0}, \A row \in DOMAIN R : Extra(row) \in 1 .. Total(R),
         NEW g, \A row \in DOMAIN R : g[row] = (Extra(row) % m) + 1, NEW i \in 1 .. m
  PROVE  WithExtra(R, Residues(Total(R), m, i - 1)) = Where(R, Sent(R, g, i))
<1> DEFINE N == Residues(Total(R), m, i - 1)
<1>1. PICK S : S = {row \in DOMAIN R : Extra(row) \in N}
  OBVIOUS
<1>2. ASSUME NEW row \in DOMAIN R PROVE row \in S <=> g[row] = i
  <2>1. Extra(row) \in 1 .. Total(R) /\ Extra(row) % m \in Int
    OBVIOUS
  <2>2. Extra(row) \in N <=> Extra(row) % m = i - 1
    BY <2>1 DEF Residues
  <2>3. Extra(row) % m = i - 1 <=> (Extra(row) % m) + 1 = i
    BY <2>1
  <2>4. row \in S <=> Extra(row) \in N
    BY <1>1
  <2> QED
    BY <2>2, <2>3, <2>4
<1>3. S = Sent(R, g, i)
  <2>1. S \subseteq DOMAIN R
    BY <1>1
  <2> QED
    BY <1>2, <2>1 DEF Sent
<1> QED
  BY <1>1, <1>3 DEF WithExtra

\* The views of the residues of the row number are disjoint and have every row, for each modulus.
LEMMA RankModUnionKeepsRows ==
  ASSUME TreeInv, RankModUnionQueryBuilder
  PROVE  TreeInv'
<1>1. materialize_row_key
  BY DEF RankModUnionQueryBuilder
<1>2. PICK m \in {2, 3, 4} :
        PutsQuery(All, UnionAllQuery([i \in 1 .. m |->
          {base_items(WithExtra(R, {n \in 1 .. Total(R) : n % m = (i - 1)})) : R \in tree.reads}]))
  BY DEF RankModUnionQueryBuilder
<1>3. PICK R : tree.reads = {R} /\ KeyedRows(Base, R) /\ R = SetToBag(DOMAIN R)
  BY <1>1, KeyedSource
<1>4. /\ Tidy(R) /\ base_items(R) = Base /\ Total(R) = Total(Base)
      /\ \A row \in DOMAIN R : Extra(row) \in 1 .. Total(R)
  BY <1>3, KeyedBaseItems, AsManyRows DEF KeyedRows, Wide
<1>5. PICK I : I = 1 .. m
  OBVIOUS
<1>6. PICK branches : branches = [i \in 1 .. m |->
          {base_items(WithExtra(Q, {n \in 1 .. Total(Q) : n % m = (i - 1)})) : Q \in tree.reads}]
  OBVIOUS
<1>7. DOMAIN branches = I
  BY <1>5, <1>6
<1>8. PICK f : f = [row \in DOMAIN R |-> Columns2(row)]
  OBVIOUS
<1>9. PICK g : g = [row \in DOMAIN R |-> (Extra(row) % m) + 1]
  OBVIOUS
<1>10. g \in [DOMAIN R -> I]
  <2>1. ASSUME NEW row \in DOMAIN R PROVE (Extra(row) % m) + 1 \in 1 .. m
    BY <1>4
  <2> QED
    BY <1>5, <1>9, <2>1
<1>11. PICK Q : Q = [i \in I |-> Select(Where(R, {row \in DOMAIN R : g[row] = i}), f)]
  OBVIOUS
<1>12. ASSUME NEW i \in I, NEW B, B \in branches[i] PROVE B = Q[i]
  <2>1. i \in 1 .. m /\ m \in Nat \ {0}
    BY <1>5
  <2>2. B = base_items(WithExtra(R, {n \in 1 .. Total(R) : n % m = (i - 1)}))
    BY <1>3, <1>6, <1>12, <2>1
  <2>3. PICK S : S = {row \in DOMAIN R : g[row] = i}
    OBVIOUS
  <2>4. WithExtra(R, {n \in 1 .. Total(R) : n % m = (i - 1)}) = Where(R, S)
    <3>1. \A row \in DOMAIN R : g[row] = (Extra(row) % m) + 1
      BY <1>9
    <3>2. WithExtra(R, Residues(Total(R), m, i - 1)) = Where(R, Sent(R, g, i))
      BY <1>4, <2>1, <3>1, ResidueIs
    <3> QED
      BY <2>3, <3>2 DEF Residues, Sent
  <2>5. base_items(Where(R, S)) = Select(Where(R, S), f)
    BY <1>8, BaseItemsOfPart
  <2> QED
    BY <1>11, <2>2, <2>3, <2>4, <2>5
<1>13. UnionAll(Q) = Base
  <2>1. DOMAIN Q = I /\ \A i \in I : Q[i] = Select(Where(R, {row \in DOMAIN R : g[row] = i}), f)
    BY <1>11
  <2>2. UnionAll(Q) = Select(R, f)
    BY <1>4, <1>10, <2>1, UnionOfParts
  <2> QED
    BY <1>4, <1>8, <2>2 DEF base_items
<1>14. PICK results : results = UnionAllQuery(branches)
  OBVIOUS
<1>15. ASSUME NEW U, U \in results PROVE U = Base
  <2>1. Q = [i \in I |-> Q[i]]
    BY <1>11
  <2>2. U = cast_signature(UnionAll(Q))
    BY <1>7, <1>12, <1>14, <1>15, <2>1, UnionQueryIs
  <2> QED
    BY <1>13, <2>2, BaseIsWide, CastSignature DEF TreeInv
<1>16. PutsQuery(All, results)
  BY <1>2, <1>6, <1>14
<1> QED
  BY <1>15, <1>16, PutAll

(* Unions of the same rows. *)
\* The UNION ALL of finitely many relations is a relation, with the rows of each.
LEMMA UnionIsTidy ==
  ASSUME NEW I, IsFiniteSet(I), NEW branches, DOMAIN branches = I, \A i \in I : Tidy(branches[i])
  PROVE  /\ Tidy(UnionAll(branches))
         /\ DOMAIN UnionAll(branches) = UNION {DOMAIN branches[i] : i \in I}
<1>1. PICK D : D = UNION {DOMAIN branches[i] : i \in I}
  OBVIOUS
<1>2. IsFiniteSet(D)
  <2>1. PICK T : T = {DOMAIN branches[i] : i \in I}
    OBVIOUS
  <2>2. PICK h : h = [i \in I |-> DOMAIN branches[i]]
    OBVIOUS
  <2>3. h \in Surjection(I, T)
    BY <2>1, <2>2 DEF Surjection
  <2>4. IsFiniteSet(T)
    BY <2>3, FS_Surjection
  <2>5. \A S \in T : IsFiniteSet(S)
    BY <2>1 DEF Tidy
  <2> QED
    BY <1>1, <2>1, <2>4, <2>5, FS_UNION
<1>3. UnionAll(branches) = [row \in D |-> Total([i \in I |-> Count(row, branches[i])])]
  BY <1>1 DEF UnionAll
<1>4. ASSUME NEW row \in D PROVE Total([i \in I |-> Count(row, branches[i])]) \in Nat \ {0}
  <2>1. PICK t : t = [i \in I |-> Count(row, branches[i])]
    OBVIOUS
  <2>2. PICK i \in I : row \in DOMAIN branches[i]
    BY <1>1
  <2>3. Natural(t)
    BY <2>1, CountIsNatural DEF Natural
  <2>4. i \in DOMAIN t /\ t[i] # 0
    <3>1. Count(row, branches[i]) = branches[i][row]
      BY <2>2 DEF Count
    <3>2. branches[i][row] >= 1 /\ branches[i][row] \in Nat
      BY <2>2, TidyIsNatural
    <3> QED
      BY <2>1, <3>1, <3>2
  <2>5. Total(t) \in Nat \ {0}
    BY <2>3, <2>4, TotalOfSome
  <2> QED
    BY <2>1, <2>5
<1>5. PICK U : U = UnionAll(branches)
  OBVIOUS
<1>6. U \in [D -> Nat \ {0}] /\ DOMAIN U = D
  BY <1>3, <1>4, <1>5
<1> QED
  BY <1>1, <1>2, <1>5, <1>6 DEF Tidy

\* Copies of a keyed relation have its rows, and all it takes is which rows there are.
LEMMA UnionOfCopies ==
  ASSUME NEW I, IsFiniteSet(I), NEW one \in I, NEW R, Wide(R), NEW Q, DOMAIN Q = I, \A i \in I : Q[i] = R
  PROVE  Wide(UnionAll(Q)) /\ DOMAIN UnionAll(Q) = DOMAIN R
<1>1. \A i \in I : Tidy(Q[i])
  BY DEF Wide
<1>2. Tidy(UnionAll(Q)) /\ DOMAIN UnionAll(Q) = UNION {DOMAIN Q[i] : i \in I}
  BY <1>1, UnionIsTidy
<1>3. UNION {DOMAIN Q[i] : i \in I} = DOMAIN R
  OBVIOUS
<1> QED
  BY <1>2, <1>3 DEF Wide

\* A keyed table stays keyed while its rows are the same, each as often as may be.
LEMMA SameRowsKeyed ==
  ASSUME NEW rows, NEW R, KeyedRows(rows, R), NEW Q, Wide(Q), DOMAIN Q = DOMAIN R
  PROVE  KeyedRows(rows, Q)
  BY DEF KeyedRows

\* A union of a keyed source with itself, however often.
LEMMA UnionOfKeyed ==
  ASSUME NEW R, Wide(R), NEW I, IsFiniteSet(I), NEW one \in I,
         NEW branches, DOMAIN branches = I, \A i \in I : branches[i] = {R},
         NEW U, U \in UnionAllQuery(branches)
  PROVE  Wide(U) /\ DOMAIN U = DOMAIN R
<1>1. PICK Q : Q = [i \in I |-> R]
  OBVIOUS
<1>2. U = cast_signature(UnionAll(Q))
  <2>1. Q = [i \in I |-> Q[i]]
    BY <1>1
  <2>2. \A i \in I : \A P \in branches[i] : P = Q[i]
    BY <1>1
  <2> QED
    BY <2>1, <2>2, UnionQueryIs
<1>3. Wide(UnionAll(Q)) /\ DOMAIN UnionAll(Q) = DOMAIN R
  BY <1>1, UnionOfCopies
<1> QED
  BY <1>2, <1>3, CastSignature

\* UNION of a keyed table with itself has each keyed row once, and so each base row as often as
\* the base table has it.
LEMMA DistinctUnionKeepsRows ==
  ASSUME TreeInv, DistinctUnionDuplicateQueryBuilder
  PROVE  TreeInv'
<1>1. materialize_row_key
  BY DEF DistinctUnionDuplicateQueryBuilder
<1>2. PICK branches : branches = <<tree.reads, tree.reads>>
  OBVIOUS
<1>3. PICK U : U \in UnionAllQuery(branches) /\ PutsQuery(All, {base_items(SetToBag(DOMAIN U))})
  BY <1>2 DEF DistinctUnionDuplicateQueryBuilder
<1>4. PICK R : tree.reads = {R} /\ KeyedRows(Base, R) /\ R = SetToBag(DOMAIN R)
  BY <1>1, KeyedSource
<1>5. PICK I : I = {1, 2}
  OBVIOUS
<1>6. DOMAIN branches = I /\ 1 \in I /\ \A i \in I : branches[i] = {R}
  BY <1>2, <1>4, <1>5
<1>7. IsFiniteSet(I)
  <2>1. IsFiniteSet({1} \cup {2}) /\ I = {1} \cup {2}
    BY <1>5, FS_Singleton, FS_Union
  <2> QED
    BY <2>1
<1>8. DOMAIN U = DOMAIN R
  BY <1>3, <1>4, <1>6, <1>7, UnionOfKeyed DEF KeyedRows
<1>9. base_items(SetToBag(DOMAIN U)) = Base
  BY <1>4, <1>8 DEF KeyedRows
<1>10. PICK results : results = {base_items(SetToBag(DOMAIN U))}
  OBVIOUS
<1> QED
  BY <1>3, <1>9, <1>10, PutAll

\* GROUP BY what tells the rows apart: each group is one row.
LEMMA GroupOfOne ==
  ASSUME NEW R, Tidy(R), DOMAIN R \subseteq AnyRows, NEW key, DOMAIN key = DOMAIN R,
         \A row, other \in DOMAIN R : key[row] = key[other] => row = other,
         NEW G, G \in GroupBy(R, key)
  PROVE  G = base_items(SetToBag(DOMAIN R))
<1> DEFINE Group(k) == {row \in DOMAIN R : key[row] = k}
           Mixed(k) == {row[1] : row \in Group(k)} \X {row[2] : row \in Group(k)}
<1>1. PICK K : K = {key[row] : row \in DOMAIN R}
  OBVIOUS
<1>2. PICK C : G = Select(SetToBag(K), C) /\ \A k \in K : C[k] \in Mixed(k)
  BY <1>1 DEF GroupBy
<1>3. ASSUME NEW row \in DOMAIN R PROVE key[row] \in K /\ C[key[row]] = Columns2(row)
  <2>1. key[row] \in K
    BY <1>1
  <2>2. Group(key[row]) = {row}
    OBVIOUS
  <2>3. Mixed(key[row]) = {<<row[1], row[2]>>}
    BY <2>2
  <2>4. C[key[row]] = <<row[1], row[2]>>
    BY <1>2, <2>1, <2>3
  <2>5. Columns2(row) = <<row[1], row[2]>>
    BY ColumnsOfTwo, ColumnsOfThree, RowsOfTwo DEF AnyRows
  <2> QED
    BY <2>1, <2>4, <2>5
<1> HIDE DEF Mixed, Group
<1>4. PICK D : D = DOMAIN R
  OBVIOUS
<1>5. PICK a : a = [row \in D |-> key[row]]
  OBVIOUS
<1>6. a \in [D -> K]
  BY <1>1, <1>4, <1>5
<1>7. \A row, other \in D : a[row] = a[other] => row = other
  BY <1>4, <1>5
<1>8. \A k \in K : \E row \in D : a[row] = k
  BY <1>1, <1>4, <1>5
<1>9. a \in Bijection(D, K)
  BY <1>6, <1>7, <1>8, IsABijection
<1>10. PICK f : f = [row \in DOMAIN SetToBag(D) |-> Columns2(row)]
  OBVIOUS
<1>11. \A row \in D : C[a[row]] = f[row]
  <2>1. DOMAIN SetToBag(D) = D
    BY DEF SetToBag
  <2> QED
    BY <1>3, <1>4, <1>5, <1>10, <2>1
<1>12. IsFiniteSet(D)
  BY <1>4 DEF Tidy
<1>13. Select(SetToBag(K), C) = Select(SetToBag(D), f)
  BY <1>9, <1>11, <1>12, SelectOfSet
<1> QED
  BY <1>2, <1>4, <1>10, <1>13 DEF base_items

\* GROUP BY all columns of a keyed table makes a group of each row.
LEMMA DistinctAsGroupByKeepsRows ==
  ASSUME TreeInv, DistinctAsGroupByQueryBuilder
  PROVE  TreeInv'
<1>1. materialize_row_key
  BY DEF DistinctAsGroupByQueryBuilder
<1>2. PICK results : results = UNION {GroupBy(R, [row \in DOMAIN R |-> row]) : R \in tree.reads}
  OBVIOUS
<1>3. PutsQuery(All, results)
  BY <1>2 DEF DistinctAsGroupByQueryBuilder
<1>4. PICK R : tree.reads = {R} /\ KeyedRows(Base, R) /\ R = SetToBag(DOMAIN R)
  BY <1>1, KeyedSource
<1>5. ASSUME NEW G, G \in results PROVE G = Base
  <2>1. PICK key : key = [row \in DOMAIN R |-> row]
    OBVIOUS
  <2>2. G \in GroupBy(R, key)
    BY <1>2, <1>4, <1>5, <2>1
  <2>3. DOMAIN key = DOMAIN R /\ \A row, other \in DOMAIN R : key[row] = key[other] => row = other
    BY <2>1
  <2>4. Tidy(R) /\ DOMAIN R \subseteq AnyRows
    BY <1>4 DEF KeyedRows, Wide
  <2>5. G = base_items(SetToBag(DOMAIN R))
    BY <2>2, <2>3, <2>4, GroupOfOne
  <2> QED
    BY <1>4, <2>5 DEF KeyedRows
<1> QED
  BY <1>3, <1>5, PutAll

-----------------------------------------------------------------------------
(* Joins: of a relation with nothing, and of two that are keyed alike.     *)

\* Nothing on top of a bag.
LEMMA PlusNothing ==
  ASSUME NEW R, Tidy(R), NEW Q, DOMAIN Q = {}
  PROVE  R (+) Q = R
<1>1. DOMAIN R \cup DOMAIN Q = DOMAIN R
  OBVIOUS
<1>2. ASSUME NEW row \in DOMAIN R PROVE Count(row, R) + Count(row, Q) = R[row]
  <2>1. Count(row, R) = R[row] /\ Count(row, Q) = 0 /\ R[row] \in Nat
    BY TidyIsNatural DEF Count
  <2> QED
    BY <2>1
<1>3. R (+) Q = [row \in DOMAIN R |-> Count(row, R) + Count(row, Q)]
  BY <1>1 DEF (+)
<1>4. [row \in DOMAIN R |-> Count(row, R) + Count(row, Q)] = [row \in DOMAIN R |-> R[row]]
  BY <1>2
<1> QED
  BY <1>3, <1>4, TidyIsNatural

\* A relation next to no rows is that relation.
LEMMA NothingPlus ==
  ASSUME NEW R, Tidy(R), NEW Q, DOMAIN Q = {}
  PROVE  Q (+) R = R
<1>1. DOMAIN Q \cup DOMAIN R = DOMAIN R
  OBVIOUS
<1>2. ASSUME NEW row \in DOMAIN R PROVE Count(row, Q) + Count(row, R) = R[row]
  <2>1. Count(row, R) = R[row] /\ Count(row, Q) = 0 /\ R[row] \in Nat
    BY TidyIsNatural DEF Count
  <2> QED
    BY <2>1
<1>3. Q (+) R = [row \in DOMAIN R |-> Count(row, Q) + Count(row, R)]
  BY <1>1 DEF (+)
<1>4. [row \in DOMAIN R |-> Count(row, Q) + Count(row, R)] = [row \in DOMAIN R |-> R[row]]
  BY <1>2
<1> QED
  BY <1>3, <1>4, TidyIsNatural

\* Rows of the left side, each with none of the right one.
LEMMA LeftAlonePairs ==
  ASSUME NEW L, NEW rows, NEW pair
  PROVE  pair \in DOMAIN LeftAlone(L, rows) <=> \E row \in rows : pair = <<row, NoRow>>
  BY DEF LeftAlone

\* A row that a join leaves alone occurs as often as before,
LEMMA LeftAloneAt ==
  ASSUME NEW L, NEW rows, NEW row, row \in rows
  PROVE  /\ <<row, NoRow>> \in DOMAIN LeftAlone(L, rows)
         /\ LeftAlone(L, rows)[<<row, NoRow>>] = L[row]
  BY DEF LeftAlone

\* in a relation of pairs,
LEMMA LeftAloneIsAFunction ==
  ASSUME NEW L, NEW rows
  PROVE  LeftAlone(L, rows) = [pair \in DOMAIN LeftAlone(L, rows) |-> LeftAlone(L, rows)[pair]]
  BY DEF LeftAlone

\* one for each row,
LEMMA LeftAloneReindex ==
  ASSUME NEW L, NEW rows
  PROVE  [row \in rows |-> <<row, NoRow>>] \in Bijection(rows, DOMAIN LeftAlone(L, rows))
<1>1. PICK none, D, h : none = NoRow /\ D = DOMAIN LeftAlone(L, rows) /\ h = [row \in rows |-> <<row, none>>]
  OBVIOUS
<1>2. \A row \in rows : <<row, none>> \in D
  BY <1>1, LeftAloneAt
<1>3. h \in [rows -> D]
  BY <1>1, <1>2
<1>4. \A row, other \in rows : h[row] = h[other] => row = other
  BY <1>1
<1>5. \A pair \in D : \E row \in rows : h[row] = pair
  BY <1>1, LeftAlonePairs
<1>6. h \in Bijection(rows, D)
  BY <1>3, <1>4, <1>5, IsABijection
<1> QED
  BY <1>1, <1>6

\* Rows left alone are a relation,
LEMMA AloneIsTidy ==
  ASSUME NEW L, Tidy(L)
  PROVE  Tidy(LeftAlone(L, DOMAIN L))
<1>1. PICK A, D : A = LeftAlone(L, DOMAIN L) /\ D = DOMAIN A
  OBVIOUS
<1>2. [row \in DOMAIN L |-> <<row, NoRow>>] \in Bijection(DOMAIN L, D)
  BY <1>1, LeftAloneReindex
<1>3. IsFiniteSet(DOMAIN L)
  BY DEF Tidy
<1>4. IsFiniteSet(D)
  BY <1>2, <1>3, FS_Bijection DEF ExistsBijection
<1>5. ASSUME NEW pair \in D PROVE A[pair] \in Nat \ {0}
  <2>1. PICK row \in DOMAIN L : pair = <<row, NoRow>>
    BY <1>1, LeftAlonePairs
  <2>2. A[pair] = L[row]
    BY <1>1, <2>1, LeftAloneAt
  <2> QED
    BY <2>2, TidyIsNatural
<1>6. A = [pair \in D |-> A[pair]]
  BY <1>1, LeftAloneIsAFunction
<1>7. A \in [D -> Nat \ {0}]
  BY <1>5, <1>6
<1> QED
  BY <1>1, <1>4, <1>7 DEF Tidy

\* of which SELECT makes what it makes of the rows.
LEMMA SelectOfAlone ==
  ASSUME NEW L, Tidy(L), NEW f, NEW g, \A row \in DOMAIN L : g[<<row, NoRow>>] = f[row]
  PROVE  Select(LeftAlone(L, DOMAIN L), g) = Select(L, f)
<1>1. PICK P, h : P = LeftAlone(L, DOMAIN L) /\ h = [row \in DOMAIN L |-> <<row, NoRow>>]
  OBVIOUS
<1>2. h \in Bijection(DOMAIN L, DOMAIN P)
  BY <1>1, LeftAloneReindex
<1>3. \A row \in DOMAIN L : P[h[row]] = L[row] /\ g[h[row]] = f[row]
  BY <1>1, LeftAloneAt
<1>4. Tidy(P)
  BY <1>1, AloneIsTidy
<1>5. Select(P, g) = Select(L, f)
  BY <1>2, <1>3, <1>4, SelectReindex
<1> QED
  BY <1>1, <1>5

\* Where nothing matches.
LEMMA NothingMatches ==
  ASSUME NEW L, NEW matched, matched = {}
  PROVE  {l \in DOMAIN L : \A pair \in matched : pair[1] # l} = DOMAIN L
  OBVIOUS

\* A LEFT JOIN in which nothing matches leaves the left rows alone,
LEMMA LeftJoinNothing ==
  ASSUME NEW L, Tidy(L), NEW R, NEW on, Cross(L, R) \cap on = {}
  PROVE  Joined(L, R, "LEFT OUTER", on) = LeftAlone(L, DOMAIN L)
<1>1. PICK matched : matched = Cross(L, R) \cap on
  OBVIOUS
<1>2. PICK inner : inner = [pair \in matched |-> L[pair[1]] * R[pair[2]]]
  OBVIOUS
<1>3. Joined(L, R, "LEFT OUTER", on) =
        inner (+) LeftAlone(L, {l \in DOMAIN L : \A pair \in matched : pair[1] # l})
  BY <1>1, <1>2 DEF Joined
<1>4. {l \in DOMAIN L : \A pair \in matched : pair[1] # l} = DOMAIN L
  BY <1>1, NothingMatches
<1>5. DOMAIN inner = {}
  BY <1>1, <1>2
<1>6. inner (+) LeftAlone(L, DOMAIN L) = LeftAlone(L, DOMAIN L)
  BY <1>5, AloneIsTidy, NothingPlus
<1> QED
  BY <1>3, <1>4, <1>6

\* and so does an anti join.
LEMMA AntiJoinNothing ==
  ASSUME NEW L, NEW R, NEW on, Cross(L, R) \cap on = {}
  PROVE  Joined(L, R, "ANTI", on) = LeftAlone(L, DOMAIN L)
<1>1. PICK matched : matched = Cross(L, R) \cap on
  OBVIOUS
<1>2. Joined(L, R, "ANTI", on) = LeftAlone(L, {l \in DOMAIN L : \A pair \in matched : pair[1] # l})
  BY <1>1 DEF Joined
<1>3. {l \in DOMAIN L : \A pair \in matched : pair[1] # l} = DOMAIN L
  BY <1>1, NothingMatches
<1> QED
  BY <1>2, <1>3

\* No row pairs with a row of nothing.
LEMMA CrossNothing ==
  ASSUME NEW L, NEW R, DOMAIN R = {}
  PROVE  Cross(L, R) = {}
  BY DEF Cross

\* Keys that pair the rows of two sides one to one.
Paired(D, a, b) == {<<a[d], b[d]>> : d \in D}
Pairs(D, a, b, L, R) ==
  /\ IsFiniteSet(D)
  /\ L = SetToBag(DOMAIN L) /\ R = SetToBag(DOMAIN R)
  /\ \A d \in D : a[d] \in DOMAIN L /\ b[d] \in DOMAIN R /\ Extra(a[d]) = Extra(b[d])
  /\ \A l \in DOMAIN L : \E d \in D : a[d] = l
  /\ \A r \in DOMAIN R : \E d \in D : b[d] = r
  /\ \A d, e \in D : Extra(a[d]) = Extra(a[e]) => d = e

Matched(L, R) == Cross(L, R) \cap SameKey(L, R)

\* Of relations that are paired by their keys the pairs are what matches,
LEMMA MatchedAre ==
  ASSUME NEW D, NEW a, NEW b, NEW L, NEW R, Pairs(D, a, b, L, R)
  PROVE  Matched(L, R) = Paired(D, a, b)
<1>1. ASSUME NEW pair, pair \in Cross(L, R), pair \in SameKey(L, R) PROVE pair \in Paired(D, a, b)
  <2>1. pair = <<pair[1], pair[2]>> /\ pair[1] \in DOMAIN L /\ pair[2] \in DOMAIN R
        /\ Extra(pair[1]) = Extra(pair[2])
    BY <1>1 DEF SameKey, Cross
  <2>2. PICK d \in D : a[d] = pair[1]
    BY <2>1 DEF Pairs
  <2>3. PICK e \in D : b[e] = pair[2]
    BY <2>1 DEF Pairs
  <2>4. Extra(a[d]) = Extra(b[e]) /\ Extra(b[e]) = Extra(a[e])
    BY <2>1, <2>2, <2>3 DEF Pairs
  <2>5. d = e
    BY <2>4 DEF Pairs
  <2> QED
    BY <2>1, <2>2, <2>3, <2>5 DEF Paired
<1>2. ASSUME NEW pair, pair \in Paired(D, a, b) PROVE pair \in Cross(L, R) /\ pair \in SameKey(L, R)
  <2>1. PICK d \in D : pair = <<a[d], b[d]>>
    BY <1>2 DEF Paired
  <2>2. a[d] \in DOMAIN L /\ b[d] \in DOMAIN R /\ Extra(a[d]) = Extra(b[d])
    BY DEF Pairs
  <2> QED
    BY <2>1, <2>2 DEF SameKey, Cross
<1> QED
  BY <1>1, <1>2 DEF Matched

\* Once as often is as often;
LEMMA OneTimes ==
  ASSUME NEW n \in Nat
  PROVE  1 * n = n
  OBVIOUS

Keeping == {"INNER", "LEFT OUTER", "RIGHT OUTER", "FULL OUTER"}

\* so an inner or outer join ON the keys has the pairs, once each, and nothing left alone,
LEMMA JoinedOnKeys ==
  ASSUME NEW D, NEW a, NEW b, NEW L, NEW R, Pairs(D, a, b, L, R),
         NEW type, type \in Keeping
  PROVE  Joined(L, R, type, SameKey(L, R)) = SetToBag(Paired(D, a, b))
<1> DEFINE matched == Cross(L, R) \cap SameKey(L, R)
           LeftOnly == {l \in DOMAIN L : \A pair \in matched : pair[1] # l}
           RightOnly == {r \in DOMAIN R : \A pair \in matched : pair[2] # r}
           inner == [pair \in matched |-> L[pair[1]] * R[pair[2]]]
           left == LeftAlone(L, LeftOnly)
           right == RightAlone(R, RightOnly)
<1>1. PICK P : P = Paired(D, a, b)
  OBVIOUS
<1>2. matched = P
  <2>1. Matched(L, R) = Paired(D, a, b)
    BY MatchedAre
  <2> QED
    BY <1>1, <2>1 DEF Matched
<1>3. \A d \in D : <<a[d], b[d]>> \in P
  BY <1>1 DEF Paired
<1>4. LeftOnly = {}
  <2>1. ASSUME NEW l \in DOMAIN L PROVE \E pair \in matched : pair[1] = l
    <3>1. PICK d \in D : a[d] = l
      BY DEF Pairs
    <3>2. <<a[d], b[d]>> \in matched
      BY <1>2, <1>3
    <3> QED
      BY <3>1, <3>2
  <2> QED
    BY <2>1
<1>5. RightOnly = {}
  <2>1. ASSUME NEW r \in DOMAIN R PROVE \E pair \in matched : pair[2] = r
    <3>1. PICK d \in D : b[d] = r
      BY DEF Pairs
    <3>2. <<a[d], b[d]>> \in matched
      BY <1>2, <1>3
    <3> QED
      BY <3>1, <3>2
  <2> QED
    BY <2>1
<1>6. \A pair \in matched : L[pair[1]] * R[pair[2]] = 1
  <2>1. ASSUME NEW pair \in matched PROVE L[pair[1]] * R[pair[2]] = 1
    <3>1. pair[1] \in DOMAIN L /\ pair[2] \in DOMAIN R
      BY DEF Cross
    <3>2. SetToBag(DOMAIN L)[pair[1]] = 1 /\ SetToBag(DOMAIN R)[pair[2]] = 1
      BY <3>1, SetAt
    <3>3. L = SetToBag(DOMAIN L) /\ R = SetToBag(DOMAIN R)
      BY DEF Pairs
    <3>4. L[pair[1]] = 1 /\ R[pair[2]] = 1
      BY <3>2, <3>3
    <3>5. 1 * 1 = 1
      BY OneTimes
    <3> QED
      BY <3>4, <3>5, Zenon
  <2> QED
    BY <2>1
<1>7. inner = SetToBag(P)
  BY <1>2, <1>6 DEF SetToBag
<1>8. DOMAIN left = {} /\ DOMAIN right = {}
  BY <1>4, <1>5 DEF LeftAlone, RightAlone
<1>9. IsFiniteSet(P)
  <2>1. PICK h : h = [d \in D |-> <<a[d], b[d]>>]
    OBVIOUS
  <2>2. h \in Surjection(D, P)
    BY <1>1, <2>1 DEF Surjection, Paired
  <2> QED
    BY <2>2, FS_Surjection DEF Pairs
<1>10. CASE type = "INNER"
  <2>1. Joined(L, R, type, SameKey(L, R)) = inner
    BY <1>10 DEF Joined
  <2> QED
    BY <1>1, <1>7, <2>1
<1>11. Tidy(inner)
  BY <1>7, <1>9, SetIsTidy
<1>12. CASE type = "LEFT OUTER"
  <2>1. Joined(L, R, type, SameKey(L, R)) = inner (+) left
    BY <1>12 DEF Joined
  <2> HIDE DEF inner, left
  <2>2. inner (+) left = inner
    BY <1>8, <1>11, PlusNothing
  <2> QED
    BY <1>1, <1>7, <2>1, <2>2
<1>13. CASE type = "RIGHT OUTER"
  <2>1. Joined(L, R, type, SameKey(L, R)) = inner (+) right
    BY <1>13 DEF Joined
  <2> HIDE DEF inner, right
  <2>2. inner (+) right = inner
    BY <1>8, <1>11, PlusNothing
  <2> QED
    BY <1>1, <1>7, <2>1, <2>2
<1>14. CASE type = "FULL OUTER"
  <2>1. Joined(L, R, type, SameKey(L, R)) = inner (+) left (+) right
    BY <1>14 DEF Joined
  <2> HIDE DEF inner, left, right
  <2>2. inner (+) left = inner
    BY <1>8, <1>11, PlusNothing
  <2>3. inner (+) right = inner
    BY <1>8, <1>11, PlusNothing
  <2> QED
    BY <1>1, <1>7, <2>1, <2>2, <2>3
<1> QED
  BY <1>10, <1>12, <1>13, <1>14 DEF Keeping

\* and a semi join has every left row.
LEMMA SemiJoinedOnKeys ==
  ASSUME NEW D, NEW a, NEW b, NEW L, NEW R, Pairs(D, a, b, L, R)
  PROVE  Joined(L, R, "SEMI", SameKey(L, R)) = LeftAlone(L, DOMAIN L)
<1> DEFINE matched == Cross(L, R) \cap SameKey(L, R)
           LeftOnly == {l \in DOMAIN L : \A pair \in matched : pair[1] # l}
<1>1. matched = Paired(D, a, b)
  BY MatchedAre DEF Matched
<1>2. LeftOnly = {}
  <2>1. ASSUME NEW l \in DOMAIN L PROVE \E pair \in matched : pair[1] = l
    <3>1. PICK d \in D : a[d] = l
      BY DEF Pairs
    <3>2. <<a[d], b[d]>> \in matched
      BY <1>1 DEF Paired
    <3> QED
      BY <3>1, <3>2
  <2> QED
    BY <2>1
<1>3. Joined(L, R, "SEMI", SameKey(L, R)) = LeftAlone(L, DOMAIN L \ LeftOnly)
  BY DEF Joined
<1>4. DOMAIN L \ LeftOnly = DOMAIN L
  BY <1>2
<1> QED
  BY <1>3, <1>4

\* Columns of the pairs are columns of what they correspond to.
Agree(D, a, b, f, g) == \A d \in D : g[<<a[d], b[d]>>] = f[d]

\* SELECT of the pairs, when it makes of each what another makes of the row behind it.
LEMMA SelectOfPaired ==
  ASSUME NEW D, NEW a, NEW b, NEW L, NEW R, Pairs(D, a, b, L, R),
         NEW f, NEW g, Agree(D, a, b, f, g)
  PROVE  Select(SetToBag(Paired(D, a, b)), g) = Select(SetToBag(D), f)
<1>1. PICK P : P = Paired(D, a, b)
  OBVIOUS
<1>2. PICK h : h = [d \in D |-> <<a[d], b[d]>>]
  OBVIOUS
<1>3. h \in [D -> P]
  BY <1>1, <1>2 DEF Paired
<1>4. ASSUME NEW d \in D, NEW e \in D, h[d] = h[e] PROVE d = e
  <2>1. a[d] = a[e]
    BY <1>2, <1>4
  <2> QED
    BY <2>1 DEF Pairs
<1>5. \A p \in P : \E d \in D : h[d] = p
  BY <1>1, <1>2 DEF Paired
<1>6. h \in Bijection(D, P)
  BY <1>3, <1>4, <1>5, IsABijection
<1>7. IsFiniteSet(D) /\ \A d \in D : g[h[d]] = f[d]
  BY <1>2 DEF Pairs, Agree
<1>8. Select(SetToBag(P), g) = Select(SetToBag(D), f)
  BY <1>6, <1>7, SelectOfSet
<1> QED
  BY <1>1, <1>8

\* Columns that tell the rows apart.
LEMMA SelectDistinct ==
  ASSUME NEW D, IsFiniteSet(D), NEW f, DOMAIN f = D, \A x, y \in D : f[x] = f[y] => x = y
  PROVE  Select(SetToBag(D), f) = SetToBag({f[x] : x \in D})
<1>1. PICK E : E = {f[x] : x \in D}
  OBVIOUS
<1>2. PICK g : g = [x \in E |-> x]
  OBVIOUS
<1>3. PICK h : h = [x \in D |-> f[x]]
  OBVIOUS
<1>4. h \in [D -> E] /\ \A x \in D : h[x] = f[x]
  BY <1>1, <1>3
<1>5. \A x, y \in D : h[x] = h[y] => x = y
  BY <1>4
<1>6. \A e \in E : \E x \in D : h[x] = e
  BY <1>1, <1>4
<1>7. h \in Bijection(D, E)
  BY <1>4, <1>5, <1>6, IsABijection
<1>8. \A x \in D : g[h[x]] = f[x]
  BY <1>2, <1>4
<1>9. Select(SetToBag(E), g) = Select(SetToBag(D), f)
  BY <1>7, <1>8, SelectOfSet
<1>10. IsFiniteSet(E)
  BY <1>7, FS_Bijection DEF ExistsBijection
<1>11. Tidy(SetToBag(E)) /\ DOMAIN SetToBag(E) = E
  BY <1>10, SetIsTidy
<1>12. Select(SetToBag(E), g) = SetToBag(E)
  BY <1>2, <1>11, SelectIdentity
<1> QED
  BY <1>1, <1>9, <1>12

-----------------------------------------------------------------------------
(* The builders that join.                                                 *)

\* The columns of the left side.
LEMMA LeftColumnsAre ==
  ASSUME NEW joins, NEW U, U \in LeftColumns(joins)
  PROVE  \E J \in joins : U = cast_signature(Select(J, [pair \in DOMAIN J |-> Columns2(pair[1])]))
  BY DEF LeftColumns

\* The columns of the left side are the base table if they are for each join.
LEMMA LeftColumnsAreBase ==
  ASSUME catalog \in Catalogs, NEW joins,
         \A J \in joins : Select(J, [pair \in DOMAIN J |-> Columns2(pair[1])]) = Base,
         NEW U, U \in LeftColumns(joins)
  PROVE  U = Base
<1>1. PICK J \in joins : U = cast_signature(Select(J, [pair \in DOMAIN J |-> Columns2(pair[1])]))
  BY LeftColumnsAre
<1>2. U = cast_signature(Base)
  BY <1>1
<1> QED
  BY <1>2, BaseIsWide, CastSignature

\* Of rows left alone they are the base columns.
LEMMA ColumnsOfAlone ==
  ASSUME NEW L, Tidy(L), NEW J, J = LeftAlone(L, DOMAIN L)
  PROVE  Select(J, [pair \in DOMAIN J |-> Columns2(pair[1])]) = base_items(L)
<1>1. PICK f, g : f = [row \in DOMAIN L |-> Columns2(row)] /\ g = [pair \in DOMAIN J |-> Columns2(pair[1])]
  OBVIOUS
<1>2. ASSUME NEW row \in DOMAIN L PROVE g[<<row, NoRow>>] = f[row]
  <2>1. <<row, NoRow>> \in DOMAIN J
    BY LeftAloneAt
  <2>2. g[<<row, NoRow>>] = Columns2(row)
    BY <1>1, <2>1
  <2> QED
    BY <1>1, <2>2
<1>3. Select(J, g) = Select(L, f)
  BY <1>2, SelectOfAlone
<1> QED
  BY <1>1, <1>3 DEF base_items

\* A join ON TRUE is one of what reading its sides may return,
LEMMA JoinsOnTrueAre ==
  ASSUME NEW left, NEW right, NEW type, NEW J, J \in JoinOnTrue(left, right, type)
  PROVE  \E L \in left, Q \in right : J = Joined(L, Q, type, Cross(L, Q))
  BY DEF JoinOnTrue

\* so the base table LEFT JOIN no rows is the base table.
LEMMA LeftJoinEmptyKeepsRows ==
  ASSUME TreeInv, LeftJoinEmptyQueryBuilder
  PROVE  TreeInv'
<1>1. PICK sides : /\ sides \in Branches(<<All, {}>>)
                   /\ PutsQuery(All, LeftColumns(JoinOnTrue(sides[1], sides[2], "LEFT OUTER")))
  BY DEF LeftJoinEmptyQueryBuilder
<1>0. PICK left, right, type : left = sides[1] /\ right = sides[2] /\ type = "LEFT OUTER"
  OBVIOUS
<1>2. PICK joins : joins = JoinOnTrue(left, right, type)
  OBVIOUS
<1>3. catalog \in Catalogs
  BY DEF TreeInv
<1>4. ASSUME NEW J, J \in joins PROVE Select(J, [pair \in DOMAIN J |-> Columns2(pair[1])]) = Base
  <2>1. PICK L \in left, R \in right : J = Joined(L, R, type, Cross(L, R))
    BY <1>2, <1>4, JoinsOnTrueAre
  <2>2. L = Base /\ DOMAIN R = {}
    BY <1>0, <1>1, AllAndNone
  <2>3. Tidy(L) /\ base_items(L) = Base
    BY <1>3, <2>2, BaseIsTidy, BaseItemsOfBase
  <2>4. Cross(L, R) = {}
    BY <2>2, CrossNothing
  <2>5. Cross(L, R) \cap Cross(L, R) = {}
    BY <2>4
  <2>6. J = LeftAlone(L, DOMAIN L)
    BY <1>0, <2>1, <2>3, <2>5, LeftJoinNothing
  <2> QED
    BY <2>3, <2>6, ColumnsOfAlone
<1>5. \A U \in LeftColumns(joins) : U = Base
  BY <1>3, <1>4, LeftColumnsAreBase
<1>6. PICK results : results = LeftColumns(joins)
  OBVIOUS
<1>7. PutsQuery(All, results)
  BY <1>0, <1>1, <1>2, <1>6
<1> QED
  BY <1>5, <1>6, <1>7, PutAll

(* What is made of a keyed table row by row, with the keys of the rows. *)
Carries(R, a) == DOMAIN a = DOMAIN R /\ \A row \in DOMAIN R : Extra(a[row]) = Extra(row)

\* Lists of columns that carry the key tell the rows apart,
LEMMA CarriesDistinct ==
  ASSUME NEW rows, NEW R, KeyedRows(rows, R), NEW a, Carries(R, a),
         NEW x \in DOMAIN R, NEW y \in DOMAIN R, a[x] = a[y]
  PROVE  x = y
  BY DEF KeyedRows, Carries

\* once each,
LEMMA CarriesKeys ==
  ASSUME NEW rows, NEW R, KeyedRows(rows, R), R = SetToBag(DOMAIN R), NEW a, Carries(R, a)
  PROVE  Select(R, a) = SetToBag({a[row] : row \in DOMAIN R})
<1>1. PICK D : D = DOMAIN R
  OBVIOUS
<1>2. IsFiniteSet(D)
  BY <1>1 DEF KeyedRows, Wide, Tidy
<1>3. DOMAIN a = D
  BY <1>1 DEF Carries
<1>4. \A x, y \in D : a[x] = a[y] => x = y
  BY <1>1, CarriesDistinct
<1>5. Select(SetToBag(D), a) = SetToBag({a[x] : x \in D})
  BY <1>2, <1>3, <1>4, SelectDistinct
<1> QED
  BY <1>1, <1>5

\* and two such lists are paired by the key.
LEMMA CarriersPair ==
  ASSUME NEW rows, NEW R, KeyedRows(rows, R), R = SetToBag(DOMAIN R),
         NEW a, Carries(R, a), NEW b, Carries(R, b)
  PROVE  Pairs(DOMAIN R, a, b, Select(R, a), Select(R, b))
<1>1. PICK D, A, B : D = DOMAIN R /\ A = {a[row] : row \in D} /\ B = {b[row] : row \in D}
  OBVIOUS
<1>2. PICK L, Q : L = Select(R, a) /\ Q = Select(R, b)
  OBVIOUS
<1>3. L = SetToBag(A) /\ Q = SetToBag(B)
  <2>1. Select(R, a) = SetToBag({a[row] : row \in DOMAIN R})
    BY CarriesKeys
  <2>2. Select(R, b) = SetToBag({b[row] : row \in DOMAIN R})
    BY CarriesKeys
  <2> QED
    BY <1>1, <1>2, <2>1, <2>2
<1>4. IsFiniteSet(D)
  BY <1>1 DEF KeyedRows, Wide, Tidy
<1>5. DOMAIN L = A /\ DOMAIN Q = B
  BY <1>3 DEF SetToBag
<1>6. L = SetToBag(DOMAIN L) /\ Q = SetToBag(DOMAIN Q)
  BY <1>3, <1>5
<1>7. \A d \in D : a[d] \in A /\ b[d] \in B /\ Extra(a[d]) = Extra(d) /\ Extra(b[d]) = Extra(d)
  BY <1>1 DEF Carries
<1>8. \A d, e \in D : Extra(a[d]) = Extra(a[e]) => d = e
  BY <1>1, <1>7 DEF KeyedRows
<1>9. (\A l \in A : \E d \in D : a[d] = l) /\ (\A r \in B : \E d \in D : b[d] = r)
  BY <1>1
<1>10. Pairs(D, a, b, L, Q)
  BY <1>4, <1>5, <1>6, <1>7, <1>8, <1>9 DEF Pairs
<1> QED
  BY <1>1, <1>2, <1>10

\* The keyed table itself carries its key,
LEMMA SelfCarries ==
  ASSUME NEW rows, NEW R, KeyedRows(rows, R), NEW a, a = [row \in DOMAIN R |-> row]
  PROVE  Carries(R, a) /\ Select(R, a) = R
<1>1. Carries(R, a)
  BY DEF Carries
<1>2. Tidy(R) /\ \A row \in DOMAIN R : a[row] = row
  BY DEF KeyedRows, Wide
<1> QED
  BY <1>1, <1>2, SelectIdentity

\* and so does any column next to it.
LEMMA TwoCarries ==
  ASSUME NEW R, NEW v, NEW a, a = [row \in DOMAIN R |-> <<v[row], Extra(row)>>]
  PROVE  Carries(R, a)
  BY DEF Carries, Extra

\* The rows of a keyed table without their keys, as the pairs' columns or as half of them each.
LEMMA PairsAreBase ==
  ASSUME NEW R, KeyedRows(Base, R), R = SetToBag(DOMAIN R), NEW a, Carries(R, a), NEW b, Carries(R, b),
         NEW g, \A row \in DOMAIN R : g[<<a[row], b[row]>>] = Columns2(row)
  PROVE  Select(SetToBag(Paired(DOMAIN R, a, b)), g) = Base
<1>1. PICK D, f : D = DOMAIN R /\ f = [row \in D |-> Columns2(row)]
  OBVIOUS
<1>2. PICK L, Q : L = Select(R, a) /\ Q = Select(R, b)
  OBVIOUS
<1>3. Pairs(D, a, b, L, Q)
  BY <1>1, <1>2, CarriersPair
<1>4. Agree(D, a, b, f, g)
  BY <1>1 DEF Agree
<1>5. Select(SetToBag(Paired(D, a, b)), g) = Select(SetToBag(D), f)
  BY <1>3, <1>4, SelectOfPaired
<1>6. Select(R, f) = base_items(R)
  BY <1>1 DEF base_items
<1>7. base_items(R) = Base
  BY KeyedBaseItems
<1> QED
  BY <1>1, <1>5, <1>6, <1>7

\* What is made of one keyed table, joined ON the key, pairs the halves of each row.
LEMMA JoinedCarriers ==
  ASSUME NEW R, KeyedRows(Base, R), R = SetToBag(DOMAIN R), NEW a, Carries(R, a), NEW b, Carries(R, b),
         NEW type, type \in Keeping,
         NEW L, L = Select(R, a), NEW Q, Q = Select(R, b)
  PROVE  Joined(L, Q, type, SameKey(L, Q)) = SetToBag(Paired(DOMAIN R, a, b))
<1>1. PICK D : D = DOMAIN R
  OBVIOUS
<1>2. Pairs(D, a, b, L, Q)
  BY <1>1, CarriersPair
<1>3. Joined(L, Q, type, SameKey(L, Q)) = SetToBag(Paired(D, a, b))
  BY <1>2, JoinedOnKeys
<1> QED
  BY <1>1, <1>3

\* A join ON the keys is one of what reading its sides may return.
LEMMA JoinsOnKeysAre ==
  ASSUME NEW left, NEW right, NEW type, NEW J, J \in JoinOnKeys(left, right, type)
  PROVE  \E L \in left, Q \in right : J = Joined(L, Q, lowered(type), SameKey(L, Q))
  BY DEF JoinOnKeys

\* The pair of a row is one of the pairs.
LEMMA PairIsPaired ==
  ASSUME NEW D, NEW a, NEW b, NEW d \in D
  PROVE  <<a[d], b[d]>> \in Paired(D, a, b)
  BY DEF Paired

\* Every keyed row has its flag, and the semi join with the flags drops none.
LEMMA SemiJoinFlagKeepsRows ==
  ASSUME TreeInv, SemiJoinFlagRoundTripBuilder
  PROVE  TreeInv'
<1>1. materialize_row_key
  BY DEF SemiJoinFlagRoundTripBuilder
<1>2. PICK R : tree.reads = {R} /\ KeyedRows(Base, R) /\ R = SetToBag(DOMAIN R)
  BY <1>1, KeyedSource
<1>3. PICK joins : joins = JoinOnKeys(tree.reads, {Flags(R)}, "SEMI")
  OBVIOUS
<1>4. PutsQuery(All, LeftColumns(joins))
  BY <1>2, <1>3 DEF SemiJoinFlagRoundTripBuilder
<1>5. PICK a, v, b : /\ a = [row \in DOMAIN R |-> row] /\ v = [row \in DOMAIN R |-> 1]
                     /\ b = [row \in DOMAIN R |-> <<v[row], Extra(row)>>]
  OBVIOUS
<1>6. Carries(R, a) /\ Select(R, a) = R
  BY <1>2, <1>5, SelfCarries
<1>7. Carries(R, b)
  BY <1>5, TwoCarries
<1>8. Flags(R) = Select(R, b)
  <2>1. b = [row \in DOMAIN R |-> <<1, Extra(row)>>]
    BY <1>5
  <2> QED
    BY <2>1 DEF Flags
<1>9. PICK D, Q : D = DOMAIN R /\ Q = Select(R, b)
  OBVIOUS
<1>10. Pairs(D, a, b, R, Q)
  <2>1. Pairs(DOMAIN R, a, b, Select(R, a), Select(R, b))
    BY <1>2, <1>6, <1>7, CarriersPair
  <2> QED
    BY <1>6, <1>9, <2>1
<1>11. ASSUME NEW J, J \in joins PROVE Select(J, [pair \in DOMAIN J |-> Columns2(pair[1])]) = Base
  <2>1. PICK L \in {R}, P \in {Q} : J = Joined(L, P, lowered("SEMI"), SameKey(L, P))
    BY <1>2, <1>3, <1>8, <1>9, <1>11, JoinsOnKeysAre
  <2>2. L = R /\ P = Q /\ lowered("SEMI") = "SEMI"
    BY DEF lowered
  <2>3. J = LeftAlone(R, DOMAIN R)
    BY <1>10, <2>1, <2>2, SemiJoinedOnKeys
  <2>4. Tidy(R) /\ base_items(R) = Base
    BY <1>2, KeyedBaseItems DEF KeyedRows, Wide
  <2> QED
    BY <2>3, <2>4, ColumnsOfAlone
<1>12. PICK results : results = LeftColumns(joins)
  OBVIOUS
<1>13. catalog \in Catalogs
  BY DEF TreeInv
<1>14. \A U \in results : U = Base
  BY <1>11, <1>12, <1>13, LeftColumnsAreBase
<1>15. PutsQuery(All, results)
  BY <1>4, <1>12
<1> QED
  BY <1>14, <1>15, PutAll

\* The flag of each row.
LEMMA FlagsCarry ==
  ASSUME NEW rows, NEW R, KeyedRows(rows, R)
  PROVE  \E b : Carries(R, b) /\ Flags(R) = Select(R, b) /\ \A row \in DOMAIN R : b[row] = <<1, Extra(row)>>
<1>1. PICK v, b : v = [row \in DOMAIN R |-> 1] /\ b = [row \in DOMAIN R |-> <<v[row], Extra(row)>>]
  OBVIOUS
<1>2. Carries(R, b)
  BY <1>1, TwoCarries
<1>3. b = [row \in DOMAIN R |-> <<1, Extra(row)>>]
  BY <1>1
<1>4. Flags(R) = Select(R, b)
  BY <1>3 DEF Flags
<1>5. \A row \in DOMAIN R : b[row] = <<1, Extra(row)>>
  BY <1>3
<1> QED
  BY <1>2, <1>4, <1>5

\* No flag is NULL and no row is without one, whichever type the join is of, and whether or not
\* FULL OUTER is lowered to LEFT OUTER.
LEMMA FlagTableJoinKeepsRows ==
  ASSUME TreeInv, FlagTableJoinQueryBuilder
  PROVE  TreeInv'
<1>1. materialize_row_key
  BY DEF FlagTableJoinQueryBuilder
<1>2. PICK R : tree.reads = {R} /\ KeyedRows(Base, R) /\ R = SetToBag(DOMAIN R)
  BY <1>1, KeyedSource
<1>3. PICK type, Q, joins, flagged :
        /\ type \in Keeping /\ Q = Flags(R) /\ joins = JoinOnKeys({R}, {Q}, type)
        /\ flagged = {Where(J, {pair \in DOMAIN J : pair[2][1] = 1}) : J \in joins}
        /\ PutsQuery(All, LeftColumns(flagged))
  <2>1. PICK keyed \in tree.reads, type \in {"INNER", "LEFT OUTER", "RIGHT OUTER", "FULL OUTER"} :
          PutsQuery(All, LeftColumns({Where(J, {pair \in DOMAIN J : pair[2][1] = 1}) :
                                        J \in JoinOnKeys(tree.reads, {Flags(keyed)}, type)}))
    BY DEF FlagTableJoinQueryBuilder
  <2>2. keyed = R
    BY <1>2
  <2> QED
    BY <1>2, <2>1, <2>2 DEF Keeping
<1>4. PICK a : a = [row \in DOMAIN R |-> row]
  OBVIOUS
<1>5. Carries(R, a) /\ R = Select(R, a)
  BY <1>2, <1>4, SelfCarries
<1>6. PICK b : Carries(R, b) /\ Q = Select(R, b) /\ \A row \in DOMAIN R : b[row] = <<1, Extra(row)>>
  BY <1>2, <1>3, FlagsCarry
<1>7. PICK D, P : D = DOMAIN R /\ P = Paired(D, a, b)
  OBVIOUS
<1>8. ASSUME NEW J, J \in flagged PROVE Select(J, [pair \in DOMAIN J |-> Columns2(pair[1])]) = Base
  <2>1. PICK Q2 \in joins : J = Where(Q2, {pair \in DOMAIN Q2 : pair[2][1] = 1})
    BY <1>3, <1>8
  <2>2. PICK L \in {R}, F \in {Q} : Q2 = Joined(L, F, lowered(type), SameKey(L, F))
    BY <1>3, <2>1, JoinsOnKeysAre
  <2>3. L = R /\ F = Q /\ lowered(type) \in Keeping
    BY <1>3 DEF lowered, Keeping
  <2>4. Q2 = SetToBag(P)
    BY <1>2, <1>5, <1>6, <1>7, <2>2, <2>3, JoinedCarriers
  <2>5. DOMAIN Q2 = P
    BY <2>4 DEF SetToBag
  <2>6. \A pair \in P : pair[2][1] = 1
    BY <1>6, <1>7 DEF Paired
  <2>7. P \cap {pair \in DOMAIN Q2 : pair[2][1] = 1} = P
    BY <2>5, <2>6
  <2>8. J = SetToBag(P)
    BY <2>1, <2>4, <2>7, WhereOfSet
  <2>9. PICK g : g = [pair \in P |-> Columns2(pair[1])]
    OBVIOUS
  <2>10. \A row \in D : g[<<a[row], b[row]>>] = Columns2(row)
    <3>1. ASSUME NEW row \in D PROVE g[<<a[row], b[row]>>] = Columns2(row)
      <4>1. <<a[row], b[row]>> \in P /\ a[row] = row
        BY <1>4, <1>7, PairIsPaired
      <4> QED
        BY <2>9, <4>1
    <3> QED
      BY <3>1
  <2>11. Select(SetToBag(P), g) = Base
    BY <1>2, <1>5, <1>6, <1>7, <2>10, PairsAreBase
  <2>12. DOMAIN J = P
    BY <2>8 DEF SetToBag
  <2> QED
    BY <2>8, <2>9, <2>11, <2>12
<1>9. PICK results : results = LeftColumns(flagged)
  OBVIOUS
<1>10. catalog \in Catalogs
  BY DEF TreeInv
<1>11. \A U \in results : U = Base
  BY <1>8, <1>9, <1>10, LeftColumnsAreBase
<1>12. PutsQuery(All, results)
  BY <1>3, <1>9
<1> QED
  BY <1>11, <1>12, PutAll

\* Each half of the columns, and both.
LEMMA SequenceOuterJoinKeepsRows ==
  ASSUME TreeInv, SequenceOuterJoinQueryBuilder
  PROVE  TreeInv'
<1>1. materialize_row_key
  BY DEF SequenceOuterJoinQueryBuilder
<1>2. PICK R : tree.reads = {R} /\ KeyedRows(Base, R) /\ R = SetToBag(DOMAIN R)
  BY <1>1, KeyedSource
<1>3. PICK a, b : /\ a = [row \in DOMAIN R |-> <<row[1], Extra(row)>>]
                  /\ b = [row \in DOMAIN R |-> <<row[2], Extra(row)>>]
  OBVIOUS
<1>4. PICK L, Q : L = Select(R, a) /\ Q = Select(R, b)
  OBVIOUS
<1>0. PICK full : full = "FULL OUTER"
  OBVIOUS
<1>5. PICK joins, halves :
        /\ joins = JoinOnKeys({L}, {Q}, full)
        /\ halves = {Select(J, [pair \in DOMAIN J |-> <<pair[1][1], pair[2][1]>>]) : J \in joins}
        /\ PutsQuery(All, halves)
  <2>1. {Select(Read, [row \in DOMAIN Read |-> <<row[1], Extra(row)>>]) : Read \in tree.reads} = {L}
    BY <1>2, <1>3, <1>4
  <2>2. {Select(Read, [row \in DOMAIN Read |-> <<row[2], Extra(row)>>]) : Read \in tree.reads} = {Q}
    BY <1>2, <1>3, <1>4
  <2>3. PutsQuery(All, {Select(J, [pair \in DOMAIN J |-> <<pair[1][1], pair[2][1]>>]) :
                          J \in JoinOnKeys({L}, {Q}, "FULL OUTER")})
    BY <2>1, <2>2 DEF SequenceOuterJoinQueryBuilder
  <2> QED
    BY <1>0, <2>3
<1>6. Carries(R, a) /\ Carries(R, b)
  <2>1. PICK v, w : v = [row \in DOMAIN R |-> row[1]] /\ w = [row \in DOMAIN R |-> row[2]]
    OBVIOUS
  <2>2. a = [row \in DOMAIN R |-> <<v[row], Extra(row)>>] /\ b = [row \in DOMAIN R |-> <<w[row], Extra(row)>>]
    BY <1>3, <2>1
  <2> QED
    BY <2>2, TwoCarries
<1>7. PICK D, P : D = DOMAIN R /\ P = Paired(D, a, b)
  OBVIOUS
<1>8. ASSUME NEW U, U \in halves PROVE U = Base
  <2>1. PICK J \in joins : U = Select(J, [pair \in DOMAIN J |-> <<pair[1][1], pair[2][1]>>])
    BY <1>5, <1>8
  <2>2. PICK M \in {L}, F \in {Q} : J = Joined(M, F, lowered(full), SameKey(M, F))
    BY <1>5, <2>1, JoinsOnKeysAre
  <2>3. M = L /\ F = Q /\ lowered(full) \in Keeping
    BY <1>0 DEF lowered, Keeping
  <2>4. J = SetToBag(P)
    BY <1>2, <1>4, <1>6, <1>7, <2>2, <2>3, JoinedCarriers
  <2>5. DOMAIN J = P
    BY <2>4 DEF SetToBag
  <2>6. PICK g : g = [pair \in P |-> <<pair[1][1], pair[2][1]>>]
    OBVIOUS
  <2>7. \A row \in D : g[<<a[row], b[row]>>] = Columns2(row)
    <3>1. ASSUME NEW row \in D PROVE g[<<a[row], b[row]>>] = Columns2(row)
      <4>1. <<a[row], b[row]>> \in P
        BY <1>7, PairIsPaired
      <4>2. a[row] = <<row[1], Extra(row)>> /\ b[row] = <<row[2], Extra(row)>>
        BY <1>3, <1>7
      <4>3. g[<<a[row], b[row]>>] = <<row[1], row[2]>>
        BY <2>6, <4>1, <4>2
      <4>4. row \in Rows3
        BY <1>2, <1>7 DEF KeyedRows
      <4> QED
        BY <4>3, <4>4, ColumnsOfThree
    <3> QED
      BY <3>1
  <2>8. Select(SetToBag(P), g) = Base
    BY <1>2, <1>6, <1>7, <2>7, PairsAreBase
  <2> QED
    BY <2>1, <2>4, <2>5, <2>6, <2>8
<1> QED
  BY <1>5, <1>8, PutAll

\* Of all pairs those with the same key.
LEMMA CrossOfSets ==
  ASSUME NEW L, NEW R, L = SetToBag(DOMAIN L), R = SetToBag(DOMAIN R)
  PROVE  Joined(L, R, "CROSS", Cross(L, R)) = SetToBag(Cross(L, R))
<1>1. PICK C : C = Cross(L, R)
  OBVIOUS
<1>2. ASSUME NEW pair, pair \in C PROVE L[pair[1]] * R[pair[2]] = 1
  <2>1. pair[1] \in DOMAIN L /\ pair[2] \in DOMAIN R
    BY <1>1, <1>2 DEF Cross
  <2>2. L[pair[1]] = 1 /\ R[pair[2]] = 1
    BY <2>1, SetAt
  <2>3. 1 * 1 = 1
    BY OneTimes
  <2> QED
    BY <2>2, <2>3, Zenon
<1>3. C \cap C = C
  OBVIOUS
<1>4. Joined(L, R, "CROSS", C) = [pair \in C \cap C |-> L[pair[1]] * R[pair[2]]]
  BY <1>1 DEF Joined
<1>5. [pair \in C |-> L[pair[1]] * R[pair[2]]] = [pair \in C |-> 1]
  BY <1>2
<1> QED
  BY <1>1, <1>3, <1>4, <1>5 DEF SetToBag

\* CROSS JOIN and a WHERE on the keys is the join ON the keys.
LEMMA CrossJoinFilterKeepsRows ==
  ASSUME TreeInv, CrossJoinFilterAsInnerBuilder
  PROVE  TreeInv'
<1>1. materialize_row_key
  BY DEF CrossJoinFilterAsInnerBuilder
<1>2. PICK R : tree.reads = {R} /\ KeyedRows(Base, R) /\ R = SetToBag(DOMAIN R)
  BY <1>1, KeyedSource
<1>3. PICK Q, cross, filtered :
        /\ Q = Flags(R) /\ cross = JoinOnTrue({R}, {Q}, "CROSS")
        /\ filtered = {Where(J, {pair \in DOMAIN J : Extra(pair[1]) = Extra(pair[2])}) : J \in cross}
        /\ PutsQuery(All, LeftColumns(filtered))
  <2>1. PICK keyed \in tree.reads :
          PutsQuery(All, LeftColumns({Where(J, {pair \in DOMAIN J : Extra(pair[1]) = Extra(pair[2])}) :
                                        J \in JoinOnTrue(tree.reads, {Flags(keyed)}, "CROSS")}))
    BY DEF CrossJoinFilterAsInnerBuilder
  <2>2. keyed = R
    BY <1>2
  <2> QED
    BY <1>2, <2>1, <2>2
<1>4. PICK a : a = [row \in DOMAIN R |-> row]
  OBVIOUS
<1>5. Carries(R, a) /\ R = Select(R, a)
  BY <1>2, <1>4, SelfCarries
<1>6. PICK b : Carries(R, b) /\ Q = Select(R, b) /\ \A row \in DOMAIN R : b[row] = <<1, Extra(row)>>
  BY <1>2, <1>3, FlagsCarry
<1>7. PICK D, P : D = DOMAIN R /\ P = Paired(D, a, b)
  OBVIOUS
<1>8. Pairs(D, a, b, R, Q)
  <2>1. Pairs(DOMAIN R, a, b, Select(R, a), Select(R, b))
    BY <1>2, <1>5, <1>6, CarriersPair
  <2> QED
    BY <1>5, <1>6, <1>7, <2>1
<1>9. Matched(R, Q) = P
  BY <1>7, <1>8, MatchedAre
<1>10. Q = SetToBag(DOMAIN Q)
  BY <1>8 DEF Pairs
<1>11. ASSUME NEW J, J \in filtered PROVE Select(J, [pair \in DOMAIN J |-> Columns2(pair[1])]) = Base
  <2>1. PICK Q2 \in cross : J = Where(Q2, {pair \in DOMAIN Q2 : Extra(pair[1]) = Extra(pair[2])})
    BY <1>3, <1>11
  <2>2. PICK L \in {R}, F \in {Q} : Q2 = Joined(L, F, "CROSS", Cross(L, F))
    BY <1>3, <2>1, JoinsOnTrueAre
  <2>3. L = R /\ F = Q
    OBVIOUS
  <2>4. Q2 = SetToBag(Cross(R, Q))
    BY <1>2, <1>10, <2>2, <2>3, CrossOfSets
  <2>5. DOMAIN Q2 = Cross(R, Q)
    BY <2>4 DEF SetToBag
  <2>6. Cross(R, Q) \cap {pair \in DOMAIN Q2 : Extra(pair[1]) = Extra(pair[2])} = Matched(R, Q)
    BY <2>5 DEF Matched, SameKey
  <2>8. J = SetToBag(P)
    BY <1>9, <2>1, <2>4, <2>6, WhereOfSet
  <2>9. PICK g : g = [pair \in P |-> Columns2(pair[1])]
    OBVIOUS
  <2>10. \A row \in D : g[<<a[row], b[row]>>] = Columns2(row)
    <3>1. ASSUME NEW row \in D PROVE g[<<a[row], b[row]>>] = Columns2(row)
      <4>1. <<a[row], b[row]>> \in P /\ a[row] = row
        BY <1>4, <1>7, PairIsPaired
      <4> QED
        BY <2>9, <4>1
    <3> QED
      BY <3>1
  <2>11. Select(SetToBag(P), g) = Base
    BY <1>2, <1>5, <1>6, <1>7, <2>10, PairsAreBase
  <2>12. DOMAIN J = P
    BY <2>8 DEF SetToBag
  <2> QED
    BY <2>8, <2>9, <2>11, <2>12
<1>12. PICK results : results = LeftColumns(filtered)
  OBVIOUS
<1>13. catalog \in Catalogs
  BY DEF TreeInv
<1>14. \A U \in results : U = Base
  BY <1>11, <1>12, <1>13, LeftColumnsAreBase
<1>15. PutsQuery(All, results)
  BY <1>3, <1>12
<1> QED
  BY <1>14, <1>15, PutAll

-----------------------------------------------------------------------------
(* Expansions, and what takes them away again.                             *)

\* How often a row is there, of those with some last columns.
LEMMA ExtraCount ==
  ASSUME NEW R, NEW values, NEW row
  PROVE  Count(row, WithExtra(R, values)) = IF Extra(row) \in values THEN Count(row, R) ELSE 0
<1>1. PICK kept : kept = {other \in DOMAIN R : Extra(other) \in values}
  OBVIOUS
<1>2. Count(row, WithExtra(R, values)) = IF row \in kept THEN Count(row, R) ELSE 0
  BY <1>1, WhereCount DEF WithExtra
<1>3. CASE row \in DOMAIN R
  BY <1>1, <1>2, <1>3
<1>4. CASE row \notin DOMAIN R
  BY <1>1, <1>2, <1>4 DEF Count
<1> QED
  BY <1>3, <1>4

\* The rows with some extra values are a relation
LEMMA WithExtraTidy ==
  ASSUME NEW R, Tidy(R), NEW values
  PROVE  Tidy(WithExtra(R, values))
  BY WhereTidy DEF WithExtra

\* of these rows.
LEMMA WithExtraDomain ==
  ASSUME NEW R, NEW values
  PROVE  \A row : row \in DOMAIN WithExtra(R, values) <=> row \in DOMAIN R /\ Extra(row) \in values
<1>1. PICK kept : kept = {other \in DOMAIN R : Extra(other) \in values}
  OBVIOUS
<1>2. DOMAIN WithExtra(R, values) = DOMAIN R \cap kept
  BY <1>1, WhereDomain DEF WithExtra
<1> QED
  BY <1>1, <1>2

\* Rows with another tag do not count.
LEMMA OthersTagged ==
  ASSUME NEW R, Tidy(R), NEW Q, Tidy(Q), \A row \in DOMAIN Q : Extra(row) = THROWAWAY
  PROVE  WithExtra(R (+) Q, {KEEP}) = WithExtra(R, {KEEP})
<1>1. PICK S, L, A, one : S = R (+) Q /\ one = {KEEP} /\ L = WithExtra(S, one) /\ A = WithExtra(R, one)
  OBVIOUS
<1>2. Tidy(S)
  BY <1>1, SumIsTidy
<1>3. Tidy(L) /\ Tidy(A)
  BY <1>1, <1>2, WithExtraTidy
<1>4. ASSUME NEW row PROVE Count(row, L) = Count(row, A)
  <2>1. Count(row, L) = IF Extra(row) \in one THEN Count(row, S) ELSE 0
    BY <1>1, ExtraCount
  <2>2. Count(row, A) = IF Extra(row) \in one THEN Count(row, R) ELSE 0
    BY <1>1, ExtraCount
  <2>3. CASE Extra(row) \in one
    <3>1. row \notin DOMAIN Q
      BY <1>1, <2>3 DEF KEEP, THROWAWAY
    <3>2. Count(row, Q) = 0 /\ Count(row, R) \in Nat
      BY <3>1, CountIsNatural
    <3>3. Count(row, S) = Count(row, R) + Count(row, Q)
      BY <1>1, SumCount
    <3> QED
      BY <2>1, <2>2, <2>3, <3>2, <3>3
  <2> QED
    BY <2>1, <2>2, <2>3
<1>5. L = A
  BY <1>3, <1>4, SameCounts
<1> QED
  BY <1>1, <1>5

\* A table whose kept rows are the base table keeps the promise of a tag channel,
LEMMA PutTag ==
  ASSUME TreeInv, NEW R, TaggedRows(Base, R), Puts("table", "tag", All, TRUE, {R})
  PROVE  TreeInv'
<1>1. PICK results : results = {R}
  OBVIOUS
<1>2. \A Q \in results : ReadOf(Base, "tag", All, Q)
  BY <1>1 DEF ReadOf
<1>3. \E Q : results = {Q}
  BY <1>1
<1>4. Puts("table", "tag", All, TRUE, results)
  BY <1>1
<1> QED
  BY <1>2, <1>3, <1>4, Put

\* and one that is keyed that of a key channel.
LEMMA PutKey ==
  ASSUME TreeInv, NEW R, KeyedRows(Base, R), Puts("table", "key", All, TRUE, {R})
  PROVE  TreeInv'
<1>1. PICK results : results = {R}
  OBVIOUS
<1>2. \A Q \in results : ReadOf(Base, "key", All, Q)
  BY <1>1 DEF ReadOf
<1>3. \E Q : results = {Q}
  BY <1>1
<1>4. Puts("table", "key", All, TRUE, results)
  BY <1>1
<1> QED
  BY <1>2, <1>3, <1>4, Put

\* One branch keeps its rows, the others' are tagged otherwise.
LEMMA ExplodedTags ==
  ASSUME catalog \in Catalogs, NEW keep, keep = Widened(Base, KEEP), NEW throw, throw = Widened(keep, THROWAWAY),
         NEW n \in Nat \ {0}, NEW branches, branches = [i \in 1 .. n |-> IF i = 1 THEN keep ELSE throw]
  PROVE  TaggedRows(Base, UnionAll(branches))
<1>1. KEEP \in Value /\ THROWAWAY \in Value
  BY SmallNumbers DEF KEEP, THROWAWAY
<1>2. Wide(keep) /\ \A out \in DOMAIN keep : out \in Rows3 /\ Extra(out) = KEEP
  <2>1. Tidy(Base) /\ DOMAIN Base \subseteq AnyRows
    BY BaseIsWide DEF Wide
  <2> QED
    BY <1>1, <2>1, WidenedIsWide
<1>3. Wide(throw) /\ \A out \in DOMAIN throw : out \in Rows3 /\ Extra(out) = THROWAWAY
  <2>1. Tidy(keep) /\ DOMAIN keep \subseteq AnyRows
    BY <1>2 DEF Wide
  <2> QED
    BY <1>1, <2>1, WidenedIsWide
<1>4. PICK I : I = 1 .. n
  OBVIOUS
<1>5. IsFiniteSet(I) /\ DOMAIN branches = I /\ 1 \in I
  BY <1>4, UpTo
<1>6. branches[1] = keep /\ \A i \in I : i # 1 => branches[i] = throw
  BY <1>4, <1>5
<1>7. \A i \in I : Tidy(branches[i])
  BY <1>2, <1>3, <1>6 DEF Wide
<1>8. PICK U : U = UnionAll(branches)
  OBVIOUS
<1>9. Tidy(U) /\ DOMAIN U = UNION {DOMAIN branches[i] : i \in I}
  <2>1. PICK Q : Q = branches
    OBVIOUS
  <2>2. DOMAIN Q = I /\ \A i \in I : Tidy(Q[i])
    BY <1>5, <1>7, <2>1
  <2>3. Tidy(UnionAll(Q)) /\ DOMAIN UnionAll(Q) = UNION {DOMAIN Q[i] : i \in I}
    BY <1>5, <2>2, UnionIsTidy
  <2> QED
    BY <1>8, <2>1, <2>3
<1>10. ASSUME NEW row, row \in DOMAIN U PROVE row \in DOMAIN keep \/ row \in DOMAIN throw
  <2>1. PICK i \in I : row \in DOMAIN branches[i]
    BY <1>9, <1>10
  <2> QED
    BY <1>6, <2>1
<1>11. DOMAIN U \subseteq Rows3
  BY <1>2, <1>3, <1>10
<1>12. ASSUME NEW row \in DOMAIN keep PROVE row \in DOMAIN U /\ U[row] = keep[row]
  <2>1. row \in DOMAIN U
    BY <1>5, <1>6, <1>9
  <2>2. row \notin DOMAIN throw
    BY <1>2, <1>3 DEF KEEP, THROWAWAY
  <2>3. PICK c : c = [i \in DOMAIN branches |-> Count(row, branches[i])]
    OBVIOUS
  <2>4. U[row] = Total(c)
    BY <1>8, <2>1, <2>3 DEF UnionAll
  <2>5. 1 \in DOMAIN c /\ c[1] = keep[row] /\ keep[row] \in Nat
    <3>1. Count(row, keep) = keep[row] /\ Count(row, keep) \in Nat
      BY <1>2, CountIsNatural DEF Wide
    <3> QED
      BY <1>5, <1>6, <2>3, <3>1
  <2>6. \A i \in DOMAIN c : i # 1 => c[i] = 0
    BY <1>5, <1>6, <2>2, <2>3 DEF Count
  <2>7. Total(c) = c[1]
    BY <2>5, <2>6, TotalOfOnlyOne
  <2> QED
    BY <2>1, <2>4, <2>5, <2>7
<1>13. PICK one, W : one = {KEEP} /\ W = WithExtra(U, one)
  OBVIOUS
<1>14. Tidy(W)
  BY <1>9, <1>13, WithExtraTidy
<1>15. ASSUME NEW row PROVE row \in DOMAIN W <=> row \in DOMAIN keep
  <2>1. row \in DOMAIN W <=> row \in DOMAIN U /\ Extra(row) \in one
    BY <1>13, WithExtraDomain
  <2>2. CASE row \in DOMAIN keep
    BY <1>2, <1>12, <1>13, <2>1, <2>2
  <2>3. CASE row \in DOMAIN W
    BY <1>3, <1>10, <1>13, <2>1, <2>3 DEF KEEP, THROWAWAY
  <2> QED
    BY <2>2, <2>3
<1>16. DOMAIN W = DOMAIN keep
  BY <1>15
<1>17. ASSUME NEW row \in DOMAIN W PROVE W[row] = keep[row]
  <2>1. Count(row, W) = IF Extra(row) \in one THEN Count(row, U) ELSE 0
    BY <1>13, ExtraCount
  <2>2. row \in DOMAIN keep /\ row \in DOMAIN U /\ Extra(row) \in one
    BY <1>2, <1>12, <1>13, <1>16
  <2>3. Count(row, W) = W[row] /\ Count(row, U) = U[row]
    BY <2>2 DEF Count
  <2> QED
    BY <1>12, <2>1, <2>2, <2>3
<1>18. W = keep
  BY <1>2, <1>14, <1>16, <1>17, SameBag DEF Wide
<1>19. base_items(keep) = Base
  <2>1. Tidy(Base) /\ DOMAIN Base \subseteq Rows2
    BY BaseIsWide DEF Wide
  <2> QED
    BY <1>1, <2>1, BaseItemsOfWidened
<1>20. base_items(WithExtra(U, {KEEP})) = Base
  BY <1>13, <1>18, <1>19
<1>21. Wide(U)
  BY <1>9, <1>11 DEF Wide, AnyRows
<1> QED
  BY <1>8, <1>11, <1>20, <1>21 DEF TaggedRows

\* However often a tagged row is written out, one copy is tagged to be kept.
LEMMA TagExplodeKeepsTags ==
  ASSUME TreeInv, TagExplodeExpansionBuilder
  PROVE  TreeInv'
<1>1. tree.shape = "tagged"
  BY DEF TagExplodeExpansionBuilder
<1>2. PICK keep \in tree.reads, n \in Rowcounts :
        Puts("table", "tag", All, TRUE,
             {UnionAll([i \in 1 .. n |-> IF i = 1 THEN keep ELSE Widened(keep, THROWAWAY)])})
  BY DEF TagExplodeExpansionBuilder
<1>3. keep = Widened(Base, KEEP)
  BY <1>1 DEF TreeInv, GoodTree, ReadOf, Base
<1>4. PICK throw, branches : /\ throw = Widened(keep, THROWAWAY)
                             /\ branches = [i \in 1 .. n |-> IF i = 1 THEN keep ELSE throw]
  OBVIOUS
<1>5. n \in Nat \ {0}
  BY DEF Rowcounts
<1>6. catalog \in Catalogs
  BY DEF TreeInv
<1>7. TaggedRows(Base, UnionAll(branches))
  BY <1>3, <1>4, <1>5, <1>6, ExplodedTags
<1>8. Puts("table", "tag", All, TRUE, {UnionAll(branches)})
  BY <1>2, <1>4
<1> QED
  BY <1>7, <1>8, PutTag

\* What a channel of tags is read as.
LEMMA TaggedSource ==
  ASSUME TreeInv, AsksChannel("tag"), NEW R \in tree.reads
  PROVE  TaggedRows(Base, R)
  BY DEF TreeInv, GoodTree, ReadOf, Base, AsksChannel

\* What reads a key channel reads a keyed table.
LEMMA KeyedChannel ==
  ASSUME TreeInv, AsksChannel("key"), NEW R \in tree.reads
  PROVE  KeyedRows(Base, R)
  BY DEF TreeInv, GoodTree, ReadOf, Base, AsksChannel

\* The extra rows carry the other tag, and what is kept is what was.
LEMMA TagInsertExtrasKeepsTags ==
  ASSUME TreeInv, TagInsertExtrasExpansionBuilder
  PROVE  TreeInv'
<1>1. PICK rows \in tree.reads :
        /\ AsksChannel("tag")
        /\ Puts("table", "tag", All, TRUE,
                {InsertExtrasExpansion(rows, Widened(WithExtra(rows, {KEEP}), THROWAWAY))})
  BY DEF TagInsertExtrasExpansionBuilder
<1>2. TaggedRows(Base, rows)
  BY <1>1, TaggedSource
<1>3. PICK K, W, S : /\ K = WithExtra(rows, {KEEP}) /\ W = Widened(K, THROWAWAY) /\ S = rows (+) W
  OBVIOUS
<1>4. Tidy(rows) /\ DOMAIN rows \subseteq Rows3 /\ base_items(K) = Base
  BY <1>2, <1>3 DEF TaggedRows, Wide
<1>5. Tidy(K) /\ DOMAIN K \subseteq AnyRows
  <2>1. Tidy(K)
    BY <1>3, <1>4, WithExtraTidy
  <2>2. DOMAIN K \subseteq DOMAIN rows
    BY <1>3, WithExtraDomain
  <2> QED
    BY <1>4, <2>1, <2>2 DEF AnyRows
<1>6. THROWAWAY \in Value
  BY SmallNumbers DEF THROWAWAY
<1>7. Wide(W) /\ \A out \in DOMAIN W : out \in Rows3 /\ Extra(out) = THROWAWAY
  BY <1>3, <1>5, <1>6, WidenedIsWide
<1>8. Tidy(W)
  BY <1>7 DEF Wide
<1>9. WithExtra(S, {KEEP}) = K
  BY <1>3, <1>4, <1>7, <1>8, OthersTagged
<1>10. Tidy(S)
  BY <1>3, <1>4, <1>8, SumIsTidy
<1>11. DOMAIN S = DOMAIN rows \cup DOMAIN W
  BY <1>3, SumAt
<1>12. DOMAIN S \subseteq Rows3
  BY <1>4, <1>7, <1>11
<1>13. TaggedRows(Base, S)
  BY <1>4, <1>9, <1>10, <1>12 DEF TaggedRows, Wide, AnyRows
<1>14. Puts("table", "tag", All, TRUE, {S})
  BY <1>1, <1>3 DEF InsertExtrasExpansion, Insert
<1> QED
  BY <1>13, <1>14, PutTag

\* Without the rows that are not kept the base columns are the base table,
LEMMA PrunedTags ==
  ASSUME NEW R, TaggedRows(Base, R)
  PROVE  TagPruneDeleteTable(R) = Base
<1>1. PICK others, kept : others = {row \in DOMAIN R : Extra(row) # KEEP} /\ kept = {row \in DOMAIN R : Extra(row) \in {KEEP}}
  OBVIOUS
<1>2. Delete(R, others) = Where(R, DOMAIN R \ others)
  BY DeleteIsWhere
<1>3. PICK S : S = DOMAIN R \ others
  OBVIOUS
<1>4. \A row \in DOMAIN R : row \in S <=> row \in kept
  BY <1>1, <1>3
<1>5. Where(R, S) = Where(R, kept)
  BY <1>4, WhereAgrees
<1>6. base_items(Where(R, kept)) = Base
  BY <1>1 DEF TaggedRows, WithExtra
<1> QED
  BY <1>1, <1>2, <1>3, <1>5, <1>6 DEF TagPruneDeleteTable

\* whether they are deleted in place
LEMMA TagPruneDeleteKeepsRows ==
  ASSUME TreeInv, TagPruneDeleteReduceBuilder
  PROVE  TreeInv'
<1>1. AsksChannel("tag") /\ PutsView({TagPruneDeleteTable(R) : R \in tree.reads})
  BY DEF TagPruneDeleteReduceBuilder
<1>2. \A R \in tree.reads : TagPruneDeleteTable(R) = Base
  BY <1>1, TaggedSource, PrunedTags
<1>3. PICK results : results = {TagPruneDeleteTable(R) : R \in tree.reads}
  OBVIOUS
<1>4. \A R \in results : R = Base
  BY <1>2, <1>3
<1>5. PutsView(results)
  BY <1>1, <1>3
<1> QED
  BY <1>4, <1>5, PutView

\* or a view leaves them out.
LEMMA TagPruneFilterKeepsRows ==
  ASSUME TreeInv, TagPruneFilterReduceBuilder
  PROVE  TreeInv'
<1>1. AsksChannel("tag") /\ PutsView({base_items(WithExtra(R, {KEEP})) : R \in tree.reads})
  BY DEF TagPruneFilterReduceBuilder
<1>2. \A R \in tree.reads : base_items(WithExtra(R, {KEEP})) = Base
  BY <1>1, TaggedSource DEF TaggedRows
<1>3. PICK results : results = {base_items(WithExtra(R, {KEEP})) : R \in tree.reads}
  OBVIOUS
<1>4. \A R \in results : R = Base
  BY <1>2, <1>3
<1>5. PutsView(results)
  BY <1>1, <1>3
<1> QED
  BY <1>4, <1>5, PutView

\* A keyed table written out several times has the same rows: its key still tells them apart,
LEMMA KeyExplodeKeepsKeys ==
  ASSUME TreeInv, KeyExplodeExpansionBuilder
  PROVE  TreeInv'
<1>1. materialize_row_key
  BY DEF KeyExplodeExpansionBuilder
<1>2. PICK n \in Rowcounts :
        \E rows \in UnionAllQuery([i \in 1 .. n |-> tree.reads]) : Puts("table", "key", All, TRUE, {rows})
  BY DEF KeyExplodeExpansionBuilder
<1>3. PICK R : tree.reads = {R} /\ KeyedRows(Base, R) /\ R = SetToBag(DOMAIN R)
  BY <1>1, KeyedSource
<1>4. PICK I, branches : I = 1 .. n /\ branches = [i \in I |-> tree.reads]
  OBVIOUS
<1>5. PICK rows : rows \in UnionAllQuery(branches) /\ Puts("table", "key", All, TRUE, {rows})
  BY <1>2, <1>4
<1>6. n \in Nat /\ 1 \in 1 .. n
  BY DEF Rowcounts
<1>7. IsFiniteSet(I) /\ 1 \in I /\ DOMAIN branches = I /\ \A i \in I : branches[i] = {R}
  BY <1>3, <1>4, <1>6, UpTo
<1>8. Wide(R)
  BY <1>3 DEF KeyedRows
<1>9. Wide(rows) /\ DOMAIN rows = DOMAIN R
  BY <1>5, <1>7, <1>8, UnionOfKeyed
<1>10. KeyedRows(Base, rows)
  BY <1>3, <1>9, SameRowsKeyed
<1> QED
  BY <1>5, <1>10, PutKey

\* and so it does when its rows are inserted into it once more.
LEMMA KeyInsertExtrasKeepsKeys ==
  ASSUME TreeInv, KeyInsertExtrasExpansionBuilder
  PROVE  TreeInv'
<1>1. PICK rows \in tree.reads :
        AsksChannel("key") /\ Puts("table", "key", All, TRUE, {InsertExtrasExpansion(rows, rows)})
  BY DEF KeyInsertExtrasExpansionBuilder
<1>2. KeyedRows(Base, rows)
  BY <1>1, KeyedChannel
<1>3. PICK S : S = rows (+) rows
  OBVIOUS
<1>4. Tidy(rows) /\ DOMAIN rows \subseteq AnyRows
  BY <1>2 DEF KeyedRows, Wide
<1>5. Tidy(S)
  BY <1>3, <1>4, SumIsTidy
<1>6. DOMAIN S = DOMAIN rows \cup DOMAIN rows
  BY <1>3, SumAt
<1>7. DOMAIN S = DOMAIN rows
  BY <1>6
<1>8. Wide(S)
  BY <1>4, <1>5, <1>7 DEF Wide
<1>9. KeyedRows(Base, S)
  BY <1>2, <1>7, <1>8, SameRowsKeyed
<1>10. Puts("table", "key", All, TRUE, {S})
  BY <1>1, <1>3 DEF InsertExtrasExpansion, Insert
<1> QED
  BY <1>9, <1>10, PutKey

\* DISTINCT leaves one row for each key,
LEMMA KeyDistinctKeepsRows ==
  ASSUME TreeInv, KeyDistinctReduceBuilder
  PROVE  TreeInv'
<1>1. AsksChannel("key") /\ PutsView({base_items(SetToBag(DOMAIN R)) : R \in tree.reads})
  BY DEF KeyDistinctReduceBuilder
<1>2. \A R \in tree.reads : base_items(SetToBag(DOMAIN R)) = Base
  BY <1>1, KeyedChannel DEF KeyedRows
<1>3. PICK results : results = {base_items(SetToBag(DOMAIN R)) : R \in tree.reads}
  OBVIOUS
<1>4. \A R \in results : R = Base
  BY <1>2, <1>3
<1>5. PutsView(results)
  BY <1>1, <1>3
<1> QED
  BY <1>4, <1>5, PutView

\* GROUP BY key with ANY_VALUE another such row, which is the same, as rows of one key agree,
LEMMA KeyGroupAggregateKeepsRows ==
  ASSUME TreeInv, KeyGroupAggregateReduceBuilder
  PROVE  TreeInv'
<1>1. PICK results : /\ results = UNION {GroupBy(R, [row \in DOMAIN R |-> Extra(row)]) : R \in tree.reads}
                     /\ PutsView(results)
  BY DEF KeyGroupAggregateReduceBuilder
<1>2. AsksChannel("key")
  BY DEF KeyGroupAggregateReduceBuilder
<1>3. ASSUME NEW G, G \in results PROVE G = Base
  <2>1. PICK R \in tree.reads : G \in GroupBy(R, [row \in DOMAIN R |-> Extra(row)])
    BY <1>1, <1>3
  <2>2. KeyedRows(Base, R)
    BY <1>2, KeyedChannel
  <2>3. PICK key : key = [row \in DOMAIN R |-> Extra(row)]
    OBVIOUS
  <2>4. Tidy(R) /\ DOMAIN R \subseteq AnyRows /\ DOMAIN key = DOMAIN R
    BY <2>2, <2>3 DEF KeyedRows, Wide
  <2>5. \A row, other \in DOMAIN R : key[row] = key[other] => row = other
    BY <2>2, <2>3 DEF KeyedRows
  <2>6. G = base_items(SetToBag(DOMAIN R))
    BY <2>1, <2>3, <2>4, <2>5, GroupOfOne
  <2> QED
    BY <2>2, <2>6 DEF KeyedRows
<1> QED
  BY <1>1, <1>3, PutView

\* MAX of equal values is the value, NULL too,
LEMMA LargestOfOne ==
  ASSUME NEW v \in Value
  PROVE  Largest({v}) = v
<1>1. CASE v = NULL
  BY <1>1 DEF Largest
<1>2. CASE v # NULL
  <2>1. {v} \ {NULL} = {v} /\ {v} # {NULL}
    BY <1>2
  <2>2. v = MinusZero \/ \A w \in {v} \ {NULL, MinusZero} : w <= v
    BY <1>2 DEF Value
  <2>3. Largest({v}) = CHOOSE u \in {v} : u = MinusZero \/ \A w \in {v} \ {NULL, MinusZero} : w <= u
    BY <2>1 DEF Largest
  <2> QED
    BY <2>2, <2>3
<1> QED
  BY <1>1, <1>2

\* so MAX over the partition of a key changes no row,
LEMMA WindowedIs ==
  ASSUME NEW R, KeyedRows(Base, R)
  PROVE  {<<Largest({other[1] : other \in {r \in DOMAIN R : Extra(r) = Extra(row)}}),
            Largest({other[2] : other \in {r \in DOMAIN R : Extra(r) = Extra(row)}}), Extra(row)>> :
            row \in DOMAIN R} = DOMAIN R
<1>1. ASSUME NEW row \in DOMAIN R
      PROVE  <<Largest({other[1] : other \in {r \in DOMAIN R : Extra(r) = Extra(row)}}),
               Largest({other[2] : other \in {r \in DOMAIN R : Extra(r) = Extra(row)}}), Extra(row)>> = row
  <2>1. {r \in DOMAIN R : Extra(r) = Extra(row)} = {row}
    BY DEF KeyedRows
  <2>2. row \in Rows3
    BY DEF KeyedRows
  <2>3. row[1] \in Value /\ row[2] \in Value /\ row = <<row[1], row[2], row[3]>> /\ Extra(row) = row[3]
    BY <2>2, RowsOfThree
  <2>4. {other[1] : other \in {row}} = {row[1]} /\ {other[2] : other \in {row}} = {row[2]}
    OBVIOUS
  <2>5. Largest({row[1]}) = row[1] /\ Largest({row[2]}) = row[2]
    BY <2>3, LargestOfOne
  <2> QED
    BY <2>1, <2>3, <2>4, <2>5
<1> QED
  BY <1>1

\* and with DISTINCT leaves one row for each key,
LEMMA KeyWindowAggregateKeepsRows ==
  ASSUME TreeInv, KeyWindowAggregateReduceBuilder
  PROVE  TreeInv'
<1>1. AsksChannel("key")
  BY DEF KeyWindowAggregateReduceBuilder
<1>2. PICK results :
        /\ \/ results = {}
           \/ results = {base_items(SetToBag(
                {<<Largest({other[1] : other \in {r \in DOMAIN R : Extra(r) = Extra(row)}}),
                   Largest({other[2] : other \in {r \in DOMAIN R : Extra(r) = Extra(row)}}), Extra(row)>> :
                   row \in DOMAIN R})) : R \in tree.reads}
        /\ PutsView(results)
  BY DEF KeyWindowAggregateReduceBuilder
<1>3. ASSUME NEW U, U \in results PROVE U = Base
  <2>1. PICK R \in tree.reads : U = base_items(SetToBag(
                {<<Largest({other[1] : other \in {r \in DOMAIN R : Extra(r) = Extra(row)}}),
                   Largest({other[2] : other \in {r \in DOMAIN R : Extra(r) = Extra(row)}}), Extra(row)>> :
                   row \in DOMAIN R}))
    BY <1>2, <1>3
  <2>2. KeyedRows(Base, R)
    BY <1>1, KeyedChannel
  <2>3. U = base_items(SetToBag(DOMAIN R))
    BY <2>1, <2>2, WindowedIs
  <2> QED
    BY <2>2, <2>3 DEF KeyedRows
<1> QED
  BY <1>2, <1>3, PutView

\* as the first row of each partition of a key does.
LEMMA KeyQualifyDedupKeepsRows ==
  ASSUME TreeInv, KeyQualifyDedupReduceBuilder
  PROVE  TreeInv'
<1>1. AsksChannel("key") /\ PutsView({base_items(one) : one \in UNION {OnePerKey(R) : R \in tree.reads}})
  BY DEF KeyQualifyDedupReduceBuilder
<1>2. ASSUME NEW R \in tree.reads, NEW one, one \in OnePerKey(R) PROVE base_items(one) = Base
  <2>1. KeyedRows(Base, R)
    BY <1>1, KeyedChannel
  <2>2. PICK D, Keys : D = DOMAIN R /\ Keys = {Extra(row) : row \in D}
    OBVIOUS
  <2>3. PICK f : f \in [Keys -> D] /\ (\A k \in Keys : Extra(f[k]) = k) /\ one = SetToBag({f[k] : k \in Keys})
    <3>1. PICK F : F = {g \in [Keys -> D] : \A k \in Keys : Extra(g[k]) = k}
      OBVIOUS
    <3>2. OnePerKey(R) = {SetToBag({g[k] : k \in Keys}) : g \in F}
      BY <2>2, <3>1 DEF OnePerKey
    <3>3. PICK f \in F : one = SetToBag({f[k] : k \in Keys})
      BY <1>2, <3>2
    <3>4. f \in [Keys -> D] /\ \A k \in Keys : Extra(f[k]) = k
      BY <3>1
    <3> QED
      BY <3>3, <3>4
  <2>4. ASSUME NEW row \in D PROVE f[Extra(row)] = row /\ Extra(row) \in Keys
    <3>1. Extra(row) \in Keys
      BY <2>2
    <3>2. f[Extra(row)] \in D /\ Extra(f[Extra(row)]) = Extra(row)
      BY <2>3, <3>1
    <3> QED
      BY <2>1, <2>2, <3>1, <3>2 DEF KeyedRows
  <2>5. {f[k] : k \in Keys} = D
    BY <2>3, <2>4
  <2> QED
    BY <2>1, <2>2, <2>3, <2>5 DEF KeyedRows
<1>3. PICK results : results = {base_items(one) : one \in UNION {OnePerKey(R) : R \in tree.reads}}
  OBVIOUS
<1>4. \A U \in results : U = Base
  BY <1>2, <1>3
<1>5. PutsView(results)
  BY <1>1, <1>3
<1> QED
  BY <1>4, <1>5, PutView

-----------------------------------------------------------------------------
(* The query that a body is made of.                                       *)

\* The base columns of a row of any length,
LEMMA ColumnsAre ==
  ASSUME NEW row \in AnyRows
  PROVE  Columns2(row) = <<row[1], row[2]>> /\ row[1] \in Value /\ row[2] \in Value
<1>1. CASE row \in Rows2
  BY <1>1, ColumnsOfTwo, RowsOfTwo
<1>2. CASE row \in Rows3
  BY <1>2, ColumnsOfThree, RowsOfThree
<1> QED
  BY <1>1, <1>2 DEF AnyRows

\* and its places.
LEMMA PlaceInAnyRow ==
  ASSUME NEW row \in AnyRows
  PROVE  /\ row = [i \in DOMAIN row |-> row[i]] /\ 1 \in DOMAIN row /\ 2 \in DOMAIN row
         /\ DOMAIN row \subseteq 1 .. 3 /\ \A i \in DOMAIN row : row[i] \in Value
<1>1. CASE row \in Rows2
  BY <1>1, RowsOfTwo
<1>2. CASE row \in Rows3
  BY <1>2, RowsOfThree
<1> QED
  BY <1>1, <1>2 DEF AnyRows

\* What the rows of a widened table are.
LEMMA WidenedRows ==
  ASSUME catalog \in Catalogs, NEW v \in Value, NEW row, row \in DOMAIN Widened(Base, v)
  PROVE  \E r \in All : row = Append(r, v) /\ Columns2(row) = r /\ row \in Rows3
<1>1. Tidy(Base) /\ DOMAIN Base \subseteq Rows2
  BY BaseIsWide DEF Wide
<1>2. PICK r \in DOMAIN Base : row = Append(Columns2(r), v)
  BY <1>1, WidenedIs
<1>3. r \in Rows2
  BY <1>1
<1>4. Columns2(r) = r
  BY <1>3, ColumnsOfTwo
<1>5. Append(r, v) \in Rows3 /\ Columns2(Append(r, v)) = r
  BY <1>3, AppendToTwo
<1> QED
  BY <1>2, <1>4, <1>5 DEF All

\* The rows of a query, but for the last column, are rows of the base table.
LEMMA QueryRows ==
  ASSUME TreeInv, AsksQuery, NEW body \in tree.reads, NEW row \in DOMAIN body
  PROVE  row \in AnyRows /\ Columns2(row) \in All
<1>1. catalog \in Catalogs /\ tree.shape \in {"rows", "keyed", "tagged"} /\ ReadOf(Base, tree.shape, tree.kept, body)
  BY DEF TreeInv, GoodTree, AsksQuery, Base
<1>2. row \in AnyRows
  BY ReadsAreWide DEF Wide
<1>3. CASE tree.shape = "rows"
  <2>1. body = Where(Base, tree.kept)
    BY <1>1, <1>3 DEF ReadOf
  <2>2. row \in DOMAIN Base
    BY <2>1, WhereDomain
  <2>3. row \in Rows2
    BY <1>1, <2>2, BaseIsWide
  <2> QED
    BY <1>2, <2>2, <2>3, ColumnsOfTwo DEF All
<1>4. CASE tree.shape = "keyed"
  <2>1. KeyedRows(Base, body) /\ body = SetToBag(DOMAIN body)
    BY <1>1, <1>4 DEF ReadOf
  <2>2. base_items(body) = Base
    BY <2>1, KeyedBaseItems
  <2>3. PICK f : f = [other \in DOMAIN body |-> Columns2(other)]
    OBVIOUS
  <2>4. Select(body, f) = Base
    BY <2>2, <2>3 DEF base_items
  <2>5. f[row] \in Image(body, f) /\ DOMAIN Select(body, f) = Image(body, f)
    BY ImageIs, SelectDomain
  <2> QED
    BY <1>2, <2>3, <2>4, <2>5 DEF All
<1>5. CASE tree.shape = "tagged"
  <2>1. body = Widened(Base, KEEP)
    BY <1>1, <1>5 DEF ReadOf
  <2>2. KEEP \in Value
    BY SmallNumbers DEF KEEP
  <2>3. row \in DOMAIN Widened(Base, KEEP)
    BY <2>1
  <2>4. \E r \in All : row = Append(r, KEEP) /\ Columns2(row) = r /\ row \in Rows3
    BY <1>1, <2>2, <2>3, WidenedRows
  <2> QED
    BY <1>2, <2>4
<1> QED
  BY <1>1, <1>3, <1>4, <1>5

\* c_pk is a whole number that tells the rows of a query apart.
LEMMA PkIsWhole ==
  ASSUME TreeInv, HasPk, NEW row \in All
  PROVE  row[1] \in Int /\ Base[row] = 1 /\ \A other \in All : row[1] = other[1] => row = other
<1>1. catalog \in Catalogs
  BY DEF TreeInv
<1>2. row[1] # NULL /\ Base[row] = 1 /\ \A other \in All : row[1] = other[1] => row = other
  BY <1>1, CatalogsAssumption DEF IsCatalog, HasPk, All, Base
<1>3. row[1] # MinusZero
  BY <1>1, CatalogsAssumption DEF IsCatalog, HasPk, All, Base
<1>4. row \in Rows2
  BY <1>1, BaseIsWide DEF All
<1>5. row[1] \in Value
  BY <1>4, RowsOfTwo
<1> QED
  BY <1>2, <1>3, <1>5 DEF Value

\* A query made for rows of a table with a c_pk has a number in c0,
LEMMA PkOfQuery ==
  ASSUME TreeInv, AsksQuery, HasPk, NEW body \in tree.reads, NEW row \in DOMAIN body
  PROVE  row[1] \in Int
<1>1. row \in AnyRows /\ Columns2(row) \in All
  BY QueryRows
<1>2. Columns2(row) = <<row[1], row[2]>>
  BY <1>1, ColumnsAre
<1>3. PICK r : r = Columns2(row)
  OBVIOUS
<1>4. r[1] \in Int
  BY <1>1, <1>3, PkIsWhole
<1> QED
  BY <1>2, <1>3, <1>4

\* and rows that share it share the base columns,
LEMMA PkSameRow ==
  ASSUME TreeInv, HasPk, NEW body, NEW row \in DOMAIN body, NEW other \in DOMAIN body,
         row \in AnyRows, Columns2(row) \in All, other \in AnyRows, Columns2(other) \in All, row[1] = other[1]
  PROVE  Columns2(row) = Columns2(other)
<1>1. PICK r, o : r = Columns2(row) /\ o = Columns2(other)
  OBVIOUS
<1>2. r = <<row[1], row[2]>> /\ o = <<other[1], other[2]>>
  BY <1>1, ColumnsAre
<1>3. r[1] = o[1]
  BY <1>2
<1>4. r \in All /\ o \in All
  BY <1>1
<1>5. r = o
  BY <1>3, <1>4, PkIsWhole
<1> QED
  BY <1>1, <1>5

\* so that it has each row once, told apart by c_pk.
LEMMA OneRowEach ==
  ASSUME TreeInv, AsksQuery, HasPk, NEW body \in tree.reads, NEW row \in DOMAIN body, NEW other \in DOMAIN body,
         row[1] = other[1]
  PROVE  row = other /\ body[row] = 1
<1>1. catalog \in Catalogs /\ tree.shape \in {"rows", "keyed", "tagged"} /\ ReadOf(Base, tree.shape, tree.kept, body)
  BY DEF TreeInv, GoodTree, AsksQuery, Base
<1>2. row \in AnyRows /\ Columns2(row) \in All /\ other \in AnyRows /\ Columns2(other) \in All
  BY QueryRows
<1>3. Columns2(row) = Columns2(other)
  BY <1>2, PkSameRow
<1>4. PICK c : c = Columns2(row)
  OBVIOUS
<1>5. c \in All /\ Base[c] = 1
  BY <1>2, <1>4, PkIsWhole
<1>6. CASE tree.shape = "rows"
  <2>1. body = Where(Base, tree.kept)
    BY <1>1, <1>6 DEF ReadOf
  <2>2. DOMAIN body = DOMAIN Base \cap tree.kept
    BY <2>1, WhereDomain
  <2>3. row \in Rows2 /\ other \in Rows2
    BY <1>1, <2>2, BaseIsWide
  <2>4. row = c /\ other = c
    BY <1>3, <1>4, <2>3, ColumnsOfTwo
  <2>5. body[row] = Base[row]
    BY <2>1, <2>2, WhereAt
  <2> QED
    BY <1>5, <2>4, <2>5
<1>7. CASE tree.shape = "keyed"
  <2>1. KeyedRows(Base, body) /\ body = SetToBag(DOMAIN body)
    BY <1>1, <1>7 DEF ReadOf
  <2>2. base_items(body) = Base
    BY <2>1, KeyedBaseItems
  <2>3. PICK f, D : f = [r \in DOMAIN body |-> Columns2(r)] /\ D = DOMAIN body
    OBVIOUS
  <2>4. Select(body, f) = Base
    BY <2>2, <2>3 DEF base_items
  <2>5. c \in Image(body, f)
    BY <1>4, <2>3, ImageIs
  <2>6. Total(Where(body, Maps(body, f, c))) = 1
    BY <1>5, <2>4, <2>5, SelectAt
  <2>7. PICK M : M = D \cap Maps(body, f, c)
    OBVIOUS
  <2>8. Where(body, Maps(body, f, c)) = SetToBag(M)
    BY <2>1, <2>3, <2>7, WhereOfSet
  <2>9. IsFiniteSet(D)
    BY <2>1, <2>3 DEF KeyedRows, Wide, Tidy
  <2>10. IsFiniteSet(M)
    BY <2>7, <2>9, FS_Subset
  <2>11. Cardinality(M) = 1
    BY <2>6, <2>8, <2>10, TotalOfSet
  <2>12. row \in M /\ other \in M
    BY <1>3, <1>4, <2>3, <2>7 DEF Maps
  <2>13. row = other
    BY <2>10, <2>11, <2>12, FS_Singleton
  <2>14. body[row] = 1
    BY <2>1, SetAt
  <2> QED
    BY <2>13, <2>14
<1>8. CASE tree.shape = "tagged"
  <2>1. body = Widened(Base, KEEP)
    BY <1>1, <1>8 DEF ReadOf
  <2>2. KEEP \in Value
    BY SmallNumbers DEF KEEP
  <2>3. row \in DOMAIN Widened(Base, KEEP) /\ other \in DOMAIN Widened(Base, KEEP)
    BY <2>1
  <2>4. \E r \in All : row = Append(r, KEEP) /\ Columns2(row) = r /\ row \in Rows3
    BY <1>1, <2>2, <2>3, WidenedRows
  <2>5. \E r \in All : other = Append(r, KEEP) /\ Columns2(other) = r /\ other \in Rows3
    BY <1>1, <2>2, <2>3, WidenedRows
  <2>6. row = Append(c, KEEP) /\ other = Append(c, KEEP)
    BY <1>3, <1>4, <2>4, <2>5
  <2>7. PICK f : f = [r \in DOMAIN Base |-> Append(Columns2(r), KEEP)]
    OBVIOUS
  <2>8. body = Select(Base, f)
    BY <2>1, <2>7 DEF Widened
  <2>9. row \in Image(Base, f)
    BY <2>8, SelectDomain
  <2>10. body[row] = Total(Where(Base, Maps(Base, f, row)))
    BY <2>8, <2>9, SelectAt
  <2>11. PICK W : W = Where(Base, Maps(Base, f, row))
    OBVIOUS
  <2>12. ASSUME NEW r \in DOMAIN Base PROVE r \in Maps(Base, f, row) <=> r = c
    <3>1. r \in Rows2 /\ c \in Rows2
      BY <1>1, <1>5, BaseIsWide DEF All
    <3>2. f[r] = Append(r, KEEP)
      BY <2>7, <3>1, ColumnsOfTwo
    <3>3. Columns2(Append(r, KEEP)) = r /\ Columns2(Append(c, KEEP)) = c
      BY <2>2, <3>1, AppendToTwo
    <3> QED
      BY <2>6, <3>2, <3>3 DEF Maps
  <2>13. DOMAIN W = {c}
    <3>1. DOMAIN W = DOMAIN Base \cap Maps(Base, f, row)
      BY <2>11, WhereDomain
    <3> QED
      BY <1>5, <2>12, <3>1 DEF All
  <2>14. W[c] = 1
    BY <1>5, <2>11, <2>12, WhereAt DEF All
  <2>15. Total(W) = 1
    BY <2>13, <2>14, TotalOfOnlyOne
  <2> QED
    BY <2>6, <2>10, <2>11, <2>15
<1> QED
  BY <1>1, <1>6, <1>7, <1>8

-----------------------------------------------------------------------------
(* What the builders of several engines have in common.                    *)

\* A view or a table of the body, or of nothing.
LEMMA BodyOnly ==
  ASSUME NEW body \in tree.reads, NEW results, \A R \in results : R = body
  PROVE  results \subseteq tree.reads
  OBVIOUS

\* What is made of a body, and is the body, is the view of it.
LEMMA PutViewOfBody ==
  ASSUME TreeInv, NEW body \in tree.reads, NEW results, \A R \in results : R = body,
         PutsObject("view", FALSE, results)
  PROVE  TreeInv'
<1>1. results \subseteq tree.reads
  BY BodyOnly
<1> QED
  BY <1>1, PutViewOf

\* Filling an empty table.
LEMMA FilledIsSame ==
  ASSUME NEW R, Tidy(R)
  PROVE  Filled(R) = R
<1>1. PICK f : f = [row \in DOMAIN R |-> row]
  OBVIOUS
<1>2. Select(R, f) = R
  BY <1>1, SelectIdentity
<1>3. DOMAIN EmptyBag = {}
  BY DEF EmptyBag, SetToBag
<1>4. EmptyBag (+) R = R
  BY <1>3, NothingPlus
<1>5. Filled(R) = EmptyBag (+) Select(R, f)
  BY <1>1 DEF Filled, Insert
<1> QED
  BY <1>2, <1>4, <1>5

\* A column appended and left out again.
LEMMA FrontOfAppend ==
  ASSUME NEW row \in AnyRows, NEW v
  PROVE  SubSeq(Append(row, v), 1, Len(Append(row, v)) - 1) = row
<1>1. row = [i \in DOMAIN row |-> row[i]] /\ Len(row) \in Nat /\ DOMAIN row = 1 .. Len(row) /\ row \in Seq(Value)
  <2>1. CASE row \in Rows2
    BY <2>1, RowsOfTwo
  <2>2. CASE row \in Rows3
    BY <2>2, RowsOfThree
  <2> QED
    BY <2>1, <2>2 DEF AnyRows
<1>2. PICK S : S = Value \cup {v}
  OBVIOUS
<1>3. row \in Seq(S) /\ v \in S
  BY <1>1, <1>2
<1>4. PICK t : t = Append(row, v)
  OBVIOUS
<1>5. t \in Seq(S) /\ Len(t) = Len(row) + 1 /\ \A x \in 1 .. Len(row) : t[x] = row[x]
  BY <1>3, <1>4, AppendOneMore
<1>6. SubSeq(t, 1, Len(row)) = [i \in 1 .. Len(row) |-> t[i]]
  BY <1>1, <1>5 DEF SubSeq
<1>7. [i \in 1 .. Len(row) |-> t[i]] = [i \in 1 .. Len(row) |-> row[i]]
  BY <1>5
<1>8. Len(t) - 1 = Len(row)
  BY <1>1, <1>5
<1> QED
  BY <1>1, <1>4, <1>6, <1>7, <1>8

\* A column appended to every row, and left out again: nothing has changed.
LEMMA AppendedAndLeftOut ==
  ASSUME NEW R, Wide(R), NEW f, NEW g,
         \A row \in DOMAIN R : \E v : f[row] = Append(row, v),
         \A out \in Image(R, f) : g[out] = SubSeq(out, 1, Len(out) - 1)
  PROVE  Select(Select(R, f), g) = R
<1>1. PICK h : h = [row \in DOMAIN R |-> row]
  OBVIOUS
<1>2. ASSUME NEW row \in DOMAIN R PROVE h[row] = g[f[row]]
  <2>1. PICK v : f[row] = Append(row, v)
    OBVIOUS
  <2>2. f[row] \in Image(R, f)
    BY ImageIs
  <2>3. g[f[row]] = SubSeq(f[row], 1, Len(f[row]) - 1)
    BY <2>2
  <2>4. row \in AnyRows
    BY DEF Wide
  <2>5. SubSeq(Append(row, v), 1, Len(Append(row, v)) - 1) = row
    BY <2>4, FrontOfAppend
  <2> QED
    BY <1>1, <2>1, <2>3, <2>5
<1>3. Select(Select(R, f), g) = Select(R, h)
  BY <1>2, SelectComposes DEF Wide
<1>4. Select(R, h) = R
  BY <1>1, SelectIdentity DEF Wide
<1> QED
  BY <1>3, <1>4

\* A list of columns that is each row again.
LEMMA SelectOfSame ==
  ASSUME NEW R, Wide(R), NEW f, \A row \in DOMAIN R : f[row] = row
  PROVE  Select(R, f) = R
  BY SelectIdentity DEF Wide

\* Rows packed and unpacked.
LEMMA PackedAndUnpacked ==
  ASSUME NEW R, Wide(R), NEW f, NEW g, \A row \in DOMAIN R : g[f[row]] = row
  PROVE  Select(Select(R, f), g) = R
<1>1. PICK h : h = [row \in DOMAIN R |-> row]
  OBVIOUS
<1>2. \A row \in DOMAIN R : h[row] = g[f[row]]
  BY <1>1
<1>3. Select(Select(R, f), g) = Select(R, h)
  BY <1>2, SelectComposes DEF Wide
<1>4. Select(R, h) = R
  BY <1>1, SelectIdentity DEF Wide
<1> QED
  BY <1>3, <1>4

\* A union with what has no rows.
LEMMA UnionWithNothing ==
  ASSUME NEW R, Tidy(R), NEW Q, Q = Where(R, {})
  PROVE  UnionAll(<<R, Q>>) = R
<1>1. PICK I, g : I = {1, 2} /\ g = [row \in DOMAIN R |-> 1]
  OBVIOUS
<1>2. PICK branches : branches = <<R, Q>>
  OBVIOUS
<1>3. DOMAIN branches = I /\ g \in [DOMAIN R -> I]
  BY <1>1, <1>2
<1>4. ASSUME NEW i \in I PROVE branches[i] = Where(R, {row \in DOMAIN R : g[row] = i})
  <2>1. CASE i = 1
    <3>1. {row \in DOMAIN R : g[row] = i} = DOMAIN R
      BY <1>1, <2>1
    <3>2. Where(R, DOMAIN R) = R
      BY WhereAll
    <3> QED
      BY <1>2, <2>1, <3>1, <3>2
  <2>2. CASE i = 2
    <3>1. {row \in DOMAIN R : g[row] = i} = {}
      BY <1>1, <2>2
    <3> QED
      BY <1>2, <2>2, <3>1
  <2> QED
    BY <1>1, <2>1, <2>2
<1>5. UnionAll(branches) = R
  BY <1>3, <1>4, UnionOfFilters
<1> QED
  BY <1>2, <1>5

\* A relation below no rows is that relation.
LEMMA UnionUnderNothing ==
  ASSUME NEW R, Tidy(R), NEW Q, Q = Where(R, {})
  PROVE  UnionAll(<<Q, R>>) = R
<1>1. PICK I, g : I = {1, 2} /\ g = [row \in DOMAIN R |-> 2]
  OBVIOUS
<1>2. PICK branches : branches = <<Q, R>>
  OBVIOUS
<1>3. DOMAIN branches = I /\ g \in [DOMAIN R -> I]
  BY <1>1, <1>2
<1>4. ASSUME NEW i \in I PROVE branches[i] = Where(R, {row \in DOMAIN R : g[row] = i})
  <2>1. CASE i = 2
    <3>1. {row \in DOMAIN R : g[row] = i} = DOMAIN R
      BY <1>1, <2>1
    <3>2. Where(R, DOMAIN R) = R
      BY WhereAll
    <3> QED
      BY <1>2, <2>1, <3>1, <3>2
  <2>2. CASE i = 1
    <3>1. {row \in DOMAIN R : g[row] = i} = {}
      BY <1>1, <2>2
    <3> QED
      BY <1>2, <2>2, <3>1
  <2> QED
    BY <1>1, <2>1, <2>2
<1>5. UnionAll(branches) = R
  BY <1>3, <1>4, UnionOfFilters
<1> QED
  BY <1>2, <1>5

\* WHERE 1 = 0 has no rows.
LEMMA NoRows ==
  ASSUME NEW R
  PROVE  Where(R, {}) = EmptyBag
  BY DEF Where, EmptyBag, SetToBag

\* One column changed and changed back.
LEMMA ExceptSame ==
  ASSUME NEW row \in AnyRows, NEW c, NEW v, v = row[c]
  PROVE  [row EXCEPT ![c] = v] = row
<1>1. row = [i \in DOMAIN row |-> row[i]]
  BY PlaceInAnyRow
<1> QED
  BY <1>1

\* Columns that a builder picks are columns.
LEMMA PickedColumns ==
  ASSUME catalog \in Catalogs, NEW columns, columns \subseteq Columns, NEW c \in FirstOf(columns)
  PROVE  c \in {1, 2}
  BY TwoColumns DEF FirstOf

\* The column a rewrite is aimed at is a column.
LEMMA TargetIsColumn ==
  ASSUME catalog \in Catalogs, NEW c \in target
  PROVE  c \in {1, 2}
<1>1. Columns \ (IF HasPk THEN {1} ELSE {}) \subseteq Columns
  OBVIOUS
<1> QED
  BY <1>1, PickedColumns DEF target

\* The two columns of a row of the base table, each through an expression of the same value.
LEMMA EachColumnSame ==
  ASSUME TreeInv, dispatch_source, NEW rewriter, \A v \in ColumnValues : rewriter[v] = v
  PROVE  EachColumn(Base, rewriter) = Base
<1>1. PICK f : f = [row \in DOMAIN Base |-> [c \in Columns |-> rewriter[row[c]]]]
  OBVIOUS
<1>2. ASSUME NEW row \in All PROVE f[row] = row
  <2>1. row \in Rows2
    BY BaseIsWide DEF TreeInv, All
  <2>2. row = [c \in 1 .. 2 |-> row[c]]
    BY <2>1, RowsOfTwo
  <2>3. Columns = 1 .. 2
    BY TwoColumns DEF TreeInv
  <2>4. \A c \in Columns : row[c] \in ColumnValues
    BY DEF ColumnValues
  <2>5. f[row] = [c \in Columns |-> rewriter[row[c]]]
    BY <1>1 DEF All
  <2> QED
    BY <2>2, <2>3, <2>4, <2>5
<1>3. Select(Base, f) = Base
  BY <1>2, SelectSame
<1> QED
  BY <1>1, <1>3 DEF EachColumn

\* A query that puts every column through an expression of the same value keeps the rows.
LEMMA EachColumnKeepsRows ==
  ASSUME TreeInv, dispatch_source, NEW rewriter, \A v \in ColumnValues : rewriter[v] = v,
         PutsQuery(All, {EachColumn(R, rewriter) : R \in tree.reads})
  PROVE  TreeInv'
<1>1. EachColumn(Base, rewriter) = Base
  BY EachColumnSame
<1>2. PICK results : results = {EachColumn(R, rewriter) : R \in tree.reads}
  OBVIOUS
<1>3. \A R \in results : R = Base
  BY <1>1, <1>2, SourcesAreBase
<1> QED
  BY <1>2, <1>3, PutAll

-----------------------------------------------------------------------------
(* PostgreSQL.                                                             *)

\* DISTINCT ON c_pk drops no row: no two share it.
LEMMA PostgresDistinctOnKeepsRows ==
  ASSUME TreeInv, PostgresDistinctOnQueryBuilder
  PROVE  TreeInv'
<1>1. HasPk /\ dispatch_source /\ PutsQuery(All, PostgresDistinctOnQuery(tree.reads))
  BY DEF PostgresDistinctOnQueryBuilder
<1>2. ASSUME NEW Q \in visit_postgres_distinct_on_query(Base) PROVE Q = Base
  <2> DEFINE K == {row[1] : row \in All}
             F == {f \in [K -> All] : \A k \in K : f[k][1] = k}
  <2>1. K = {row[1] : row \in All}
    OBVIOUS
  <2>2. PICK one : one \in [K -> All] /\ (\A k \in K : one[k][1] = k) /\ Q = SetToBag({one[k] : k \in K})
    <3>1. F = {f \in [K -> All] : \A k \in K : f[k][1] = k}
      OBVIOUS
    <3>2. Q \in {SetToBag({one[k] : k \in K}) : one \in F}
      BY DEF visit_postgres_distinct_on_query, All
    <3> HIDE DEF K, F
    <3>3. PICK one : one \in F /\ Q = SetToBag({one[k] : k \in K})
      BY <3>2
    <3> QED
      BY <3>1, <3>3
  <2> HIDE DEF K, F
  <2>3. \A row, other \in All : row[1] = other[1] => row = other
    BY <1>1, PkIsWhole
  <2>4. \A row \in All : one[row[1]] = row
    BY <2>1, <2>2, <2>3
  <2>5. {one[k] : k \in K} = All
    <3>1. \A row \in All : row[1] \in K
      BY <2>1
    <3>2. \A row \in All : row \in {one[k] : k \in K}
      BY <2>4, <3>1
    <3>3. \A row \in {one[k] : k \in K} : row \in All
      BY <2>2
    <3> QED
      BY <3>2, <3>3
  <2>6. Tidy(Base)
    BY BaseIsTidy DEF TreeInv
  <2>7. Tidy(SetToBag(All)) /\ DOMAIN SetToBag(All) = All
    BY <2>6, SetIsTidy DEF Tidy, All
  <2>8. ASSUME NEW row \in All PROVE SetToBag(All)[row] = Base[row]
    <3>1. Base[row] = 1
      BY <1>1, PkIsWhole
    <3> QED
      BY <3>1, SetAt
  <2>9. PICK S : S = SetToBag(All)
    OBVIOUS
  <2>10. Tidy(S) /\ DOMAIN S = DOMAIN Base /\ \A row \in DOMAIN S : S[row] = Base[row]
    BY <2>7, <2>8, <2>9 DEF All
  <2>11. S = Base
    BY <2>6, <2>10, SameBag
  <2> QED
    BY <2>2, <2>5, <2>9, <2>11
<1>3. PICK results : results = PostgresDistinctOnQuery(tree.reads)
  OBVIOUS
<1>4. \A R \in results : R = Base
  BY <1>1, <1>2, <1>3, SourcesAreBase DEF PostgresDistinctOnQuery
<1> QED
  BY <1>1, <1>3, <1>4, PutAll

\* What is packed into an array is taken out of it as it was.
LEMMA PostgresArrayPackKeepsRows ==
  ASSUME TreeInv, PostgresArrayPackRoundTripBuilder
  PROVE  TreeInv'
<1>1. PICK results : results = {Typed(Typeless(R)) : R \in tree.reads}
  OBVIOUS
<1>2. dispatch_source /\ PutsQuery(All, results)
  BY <1>1 DEF PostgresArrayPackRoundTripBuilder
<1>3. Typed(Typeless(Base)) = Base
  BY BaseIsWide, TypedTypeless DEF TreeInv
<1>4. \A R \in results : R = Base
  BY <1>1, <1>2, <1>3, SourcesAreBase
<1> QED
  BY <1>2, <1>4, PutAll

\* A row through one jsonb object and back is the row: each field is cast to its column's type again.
LEMMA PostgresWholeRowJsonPackKeepsRows ==
  ASSUME TreeInv, PostgresWholeRowJsonPackBuilder
  PROVE  TreeInv'
<1> DEFINE unpacked(T) == [row \in DOMAIN T |-> [c \in Columns |-> CastBack(row[c])]]
<1>1. PICK results : results = {Select(Typeless(R), unpacked(Typeless(R))) : R \in tree.reads}
  OBVIOUS
<1>2. dispatch_source /\ PutsQuery(All, results)
  BY <1>1 DEF PostgresWholeRowJsonPackBuilder
<1>3. PICK f : f = [row \in DOMAIN Base |-> [i \in DOMAIN row |-> Retyped(row[i])]]
  OBVIOUS
<1>4. PICK T, g : T = Typeless(Base) /\ g = unpacked(Typeless(Base))
  OBVIOUS
<1>5. T = Select(Base, f)
  BY <1>3, <1>4 DEF Typeless
<1>6. ASSUME NEW row \in DOMAIN Base PROVE g[f[row]] = row
  <2>1. row \in Rows2
    BY BaseIsWide DEF TreeInv
  <2>2. row = [c \in 1 .. 2 |-> row[c]] /\ DOMAIN row = 1 .. 2 /\ row[1] \in Value /\ row[2] \in Value
    BY <2>1, RowsOfTwo
  <2>3. Columns = 1 .. 2
    BY TwoColumns DEF TreeInv
  <2>4. f[row] \in DOMAIN T
    BY <1>5, SelectDomain, ImageIs
  <2>5. g[f[row]] = [c \in Columns |-> CastBack(f[row][c])]
    BY <1>4, <2>4
  <2>6. \A c \in 1 .. 2 : f[row][c] = Retyped(row[c])
    BY <1>3, <2>2
  <2>7. \A c \in 1 .. 2 : CastBack(Retyped(row[c])) = row[c]
    BY <2>2, CastsBack
  <2>8. g[f[row]] = [c \in 1 .. 2 |-> row[c]]
    BY <2>3, <2>5, <2>6, <2>7
  <2> QED
    BY <2>2, <2>8
<1>7. Select(Select(Base, f), g) = Base
  BY <1>6, BaseIsWide, PackedAndUnpacked DEF TreeInv
<1>8. \A R \in results : R = Base
  BY <1>1, <1>2, <1>4, <1>5, <1>7, SourcesAreBase
<1> QED
  BY <1>2, <1>8, PutAll

\* An index, of whichever of the nine kinds, changes no row,
LEMMA PostgresIndexKeepsPromise ==
  ASSUME TreeInv, PostgresIndexBuilder
  PROVE  TreeInv'
<1>1. PICK body \in tree.reads, index \in index_args :
        PutsObject("view", FALSE, visit_postgres_index_object(PostgresCreateIndex(index), body))
  BY DEF PostgresIndexBuilder, PostgresCreateIndex
<1>2. PICK results : results = visit_postgres_index_object(PostgresCreateIndex(index), body)
  OBVIOUS
<1>3. \A R \in results : R = body
  BY <1>2 DEF visit_postgres_index_object
<1>4. PutsObject("view", FALSE, results)
  BY <1>1, <1>2
<1> QED
  BY <1>3, <1>4, PutViewOfBody

\* nor does a primary key, which the rows of a table with a c_pk satisfy.
LEMMA PostgresPrimaryKeyKeepsPromise ==
  ASSUME TreeInv, PostgresPrimaryKeyMatBuilder
  PROVE  TreeInv'
<1>1. PICK body \in tree.reads :
        PutsObject("view", FALSE, visit_postgres_primary_key_object(PostgresCreatePrimaryKey, body))
  BY DEF PostgresPrimaryKeyMatBuilder, PostgresCreatePrimaryKey
<1>2. PICK results : results = visit_postgres_primary_key_object(PostgresCreatePrimaryKey, body)
  OBVIOUS
<1>3. \A R \in results : R = body
  BY <1>2 DEF visit_postgres_primary_key_object, PrimaryKey
<1>4. PutsObject("view", FALSE, results)
  BY <1>1, <1>2
<1> QED
  BY <1>3, <1>4, PutViewOfBody

\* One view that reads its body and can be written to.
LEMMA PutWritableBody ==
  ASSUME TreeInv, NEW body \in tree.reads, PutsObject("view", TRUE, {body})
  PROVE  TreeInv'
<1>1. {body} \subseteq tree.reads /\ \E R : {body} = {R}
  OBVIOUS
<1> QED
  BY <1>1, PutObject

\* A row matches itself, and nothing else.
LEMMA PostgresMergeUpsertKeepsPromise ==
  ASSUME TreeInv, PostgresMergeUpsertBuilder
  PROVE  TreeInv'
<1>1. PICK body \in tree.reads :
        /\ HasPk /\ AsksQuery
        /\ PutsObject("view", TRUE, visit_postgres_merge_upsert_object(PostgresMergeUpsert, body))
  BY DEF PostgresMergeUpsertBuilder, PostgresMergeUpsert
<1> DEFINE Matching(row) == {s \in DOMAIN body : Compare(row[1], s[1]) = "true"}
           Updated(row) == IF Matching(row) = {} THEN row ELSE CHOOSE s \in Matching(row) : TRUE
<1>2. ASSUME NEW row \in DOMAIN body, NEW s \in Matching(row) PROVE s = row /\ body[s] = 1
  <2>1. row[1] = s[1] /\ s \in DOMAIN body
    BY DEF Compare
  <2>2. row = s /\ body[row] = 1
    BY <1>1, <2>1, OneRowEach
  <2> QED
    BY <2>2
<1>3. \A row \in DOMAIN body : Updated(row) = row
  BY <1>2
<1>4. PICK f : f = [row \in DOMAIN body |-> Updated(row)]
  OBVIOUS
<1>5. Select(body, f) = body
  <2>1. Wide(body)
    BY ReadsAreWide
  <2>2. \A row \in DOMAIN body : f[row] = row
    BY <1>3, <1>4
  <2> QED
    BY <2>1, <2>2, SelectOfSame
<1>6. visit_postgres_merge_upsert_object(PostgresMergeUpsert, body)
        = IF \A row \in DOMAIN body : \A s, t \in Matching(row) : s = t /\ body[s] = 1
          THEN {Select(body, [row \in DOMAIN body |-> Updated(row)])} ELSE {}
  BY DEF visit_postgres_merge_upsert_object, PostgresMergeUpsert
<1>7. \A row \in DOMAIN body : \A s, t \in Matching(row) : s = t /\ body[s] = 1
  <2>1. ASSUME NEW row \in DOMAIN body, NEW s \in Matching(row), NEW t \in Matching(row)
        PROVE  s = t /\ body[s] = 1
    <3>1. s = row /\ body[s] = 1
      BY <1>2
    <3>2. t = row
      BY <1>2
    <3> QED
      BY <3>1, <3>2
  <2> QED
    BY <2>1
<1> HIDE DEF Matching, Updated
<1>8. visit_postgres_merge_upsert_object(PostgresMergeUpsert, body) = {Select(body, f)}
  BY <1>4, <1>6, <1>7
<1>9. PutsObject("view", TRUE, {body})
  BY <1>1, <1>5, <1>8
<1> QED
  BY <1>9, PutWritableBody

\* What the view shows for a column is computed from it and cast to its type: the column's value.
LEMMA PostgresGeneratedColumnKeepsPromise ==
  ASSUME TreeInv, PostgresGeneratedColumnBuilder
  PROVE  TreeInv'
<1>1. PICK body \in tree.reads, c \in target :
        PutsObject("view", FALSE, visit_postgres_generated_column_object(PostgresGeneratedColumn(c), body))
  BY DEF PostgresGeneratedColumnBuilder, PostgresGeneratedColumn
<1>2. c \in {1, 2}
  BY TargetIsColumn DEF TreeInv
<1> DEFINE computed == [row \in DOMAIN body |-> Append(row, CastBack(row[c]))]
<1>3. PICK f : f = [row \in DOMAIN body |-> [row EXCEPT ![c] = computed[row][Len(row) + 1]]]
  OBVIOUS
<1>4. visit_postgres_generated_column_object(PostgresGeneratedColumn(c), body) = {Select(body, f)}
  BY <1>3 DEF visit_postgres_generated_column_object, PostgresGeneratedColumn
<1>5. Wide(body)
  BY ReadsAreWide
<1>6. ASSUME NEW row \in DOMAIN body PROVE f[row] = row
  <2>1. row \in AnyRows
    BY <1>5 DEF Wide
  <2>2. row[c] \in Value /\ row \in Seq(Value)
    <3>1. row[c] \in Value
      BY <1>2, <2>1, PlaceInAnyRow
    <3>2. row \in Seq(Value)
      BY <2>1, RowsOfTwo, RowsOfThree DEF AnyRows
    <3> QED
      BY <3>1, <3>2
  <2>3. CastBack(row[c]) = row[c]
    BY <2>2, CastsBack
  <2>4. PICK v : v = CastBack(row[c])
    OBVIOUS
  <2>5. Append(row, v)[Len(row) + 1] = v
    BY <2>2, <2>3, <2>4, AppendOneMore
  <2>6. computed[row][Len(row) + 1] = v
    BY <2>4, <2>5
  <2>7. f[row] = [row EXCEPT ![c] = v]
    BY <1>3, <2>6
  <2>8. [row EXCEPT ![c] = v] = row
    BY <2>1, <2>3, <2>4, ExceptSame
  <2> QED
    BY <2>7, <2>8
<1>7. Select(body, f) = body
  BY <1>5, <1>6, SelectOfSame
<1>8. PICK results : results = {Select(body, f)}
  OBVIOUS
<1>9. PutsObject("view", FALSE, results) /\ \A R \in results : R = body
  BY <1>1, <1>4, <1>7, <1>8
<1> QED
  BY <1>9, PutViewOfBody

\* A scan of an empty parent and its child returns the child's rows.
LEMMA PostgresLegacyInheritanceKeepsPromise ==
  ASSUME TreeInv, PostgresLegacyInheritanceBuilder
  PROVE  TreeInv'
<1>1. PICK body \in tree.reads :
        PutsObject("view", FALSE, visit_postgres_legacy_inheritance_object(PostgresLegacyInheritance, body))
  BY DEF PostgresLegacyInheritanceBuilder, PostgresLegacyInheritance
<1>2. visit_postgres_legacy_inheritance_object(PostgresLegacyInheritance, body) = {UnionAll(<<EmptyBag, body>>)}
  BY DEF visit_postgres_legacy_inheritance_object, PostgresLegacyInheritance
<1>3. UnionAll(<<EmptyBag, body>>) = body
  <2>1. Tidy(body)
    BY ReadsAreWide DEF Wide
  <2>2. PICK Q : Q = EmptyBag
    OBVIOUS
  <2>3. Q = Where(body, {})
    BY <2>2, NoRows
  <2>4. UnionAll(<<Q, body>>) = body
    BY <2>1, <2>3, UnionUnderNothing
  <2> QED
    BY <2>2, <2>4
<1>4. PICK results : results = {UnionAll(<<EmptyBag, body>>)}
  OBVIOUS
<1>5. PutsObject("view", FALSE, results) /\ \A R \in results : R = body
  BY <1>1, <1>2, <1>3, <1>4
<1> QED
  BY <1>5, PutViewOfBody

\* A column in a domain over its type, cast back by the view, is as it was.
LEMMA PostgresDomainColumnKeepsPromise ==
  ASSUME TreeInv, PostgresDomainColumnBuilder
  PROVE  TreeInv'
<1>1. PICK body \in tree.reads, c \in target :
        PutsObject("view", FALSE, visit_postgres_domain_column_object(PostgresDomainColumn(c), body))
  BY DEF PostgresDomainColumnBuilder, PostgresDomainColumn
<1>2. c \in {1, 2}
  BY TargetIsColumn DEF TreeInv
<1>3. PICK f : f = [row \in DOMAIN body |-> [row EXCEPT ![c] = Retyped(row[c])]]
  OBVIOUS
<1>4. PICK altered : altered = Select(body, f)
  OBVIOUS
<1>5. PICK g : g = [row \in DOMAIN altered |-> [row EXCEPT ![c] = CastBack(row[c])]]
  OBVIOUS
<1>6. visit_postgres_domain_column_object(PostgresDomainColumn(c), body) = {Select(altered, g)}
  BY <1>3, <1>4, <1>5 DEF visit_postgres_domain_column_object, PostgresDomainColumn
<1>7. Wide(body)
  BY ReadsAreWide
<1>8. ASSUME NEW row \in DOMAIN body PROVE g[f[row]] = row
  <2>1. row \in AnyRows
    BY <1>7 DEF Wide
  <2>2. row[c] \in Value /\ c \in DOMAIN row /\ row = [i \in DOMAIN row |-> row[i]]
    BY <1>2, <2>1, PlaceInAnyRow
  <2>3. CastBack(Retyped(row[c])) = row[c]
    BY <2>2, CastsBack
  <2>4. f[row] \in DOMAIN altered
    BY <1>4, SelectDomain, ImageIs
  <2>5. PICK other : other = f[row]
    OBVIOUS
  <2>6. other = [row EXCEPT ![c] = Retyped(row[c])]
    BY <1>3, <2>5
  <2>7. g[other] = [other EXCEPT ![c] = CastBack(other[c])]
    BY <1>5, <2>4, <2>5
  <2>8. other[c] = Retyped(row[c]) /\ DOMAIN other = DOMAIN row
    BY <2>2, <2>6
  <2>9. [other EXCEPT ![c] = row[c]] = row
    BY <2>2, <2>6
  <2> QED
    BY <2>3, <2>5, <2>7, <2>8, <2>9
<1>9. Select(altered, g) = body
  BY <1>4, <1>7, <1>8, PackedAndUnpacked
<1>10. PICK results : results = {Select(altered, g)}
  OBVIOUS
<1>11. PutsObject("view", FALSE, results) /\ \A R \in results : R = body
  BY <1>1, <1>6, <1>9, <1>10
<1> QED
  BY <1>11, PutViewOfBody

\* An unlogged table is a table.
LEMMA PostgresUnloggedTableKeepsPromise ==
  ASSUME TreeInv, PostgresUnloggedTableBuilder
  PROVE  TreeInv'
  BY PutTableOf DEF PostgresUnloggedTableBuilder

\* A view with a security barrier is the view.
LEMMA PostgresSecurityBarrierViewKeepsPromise ==
  ASSUME TreeInv, PostgresSecurityBarrierViewBuilder
  PROVE  TreeInv'
<1>1. PutsObject("view", FALSE, tree.reads)
  BY DEF PostgresSecurityBarrierViewBuilder, PostgresCreateSecurityBarrierView,
         visit_postgres_security_barrier_view_object
<1> QED
  BY <1>1, PutViewOf

\* Statistics change no row.
LEMMA PostgresExtendedStatisticsKeepsPromise ==
  ASSUME TreeInv, PostgresExtendedStatisticsBuilder
  PROVE  TreeInv'
<1>1. PICK body \in tree.reads :
        PutsObject("view", FALSE, visit_postgres_extended_statistics_object(PostgresCreateExtendedStatistics, body))
  BY DEF PostgresExtendedStatisticsBuilder, PostgresCreateExtendedStatistics
<1>2. PICK results : results = visit_postgres_extended_statistics_object(PostgresCreateExtendedStatistics, body)
  OBVIOUS
<1>3. \A R \in results : R = body
  BY <1>2 DEF visit_postgres_extended_statistics_object
<1>4. PutsObject("view", FALSE, results)
  BY <1>1, <1>2
<1> QED
  BY <1>3, <1>4, PutViewOfBody

\* Nor do settings of the session.
LEMMA PostgresParallelToggleKeepsPromise ==
  ASSUME TreeInv, PostgresParallelToggleMatBuilder
  PROVE  TreeInv'
<1>1. PICK body \in tree.reads :
        PutsObject("view", FALSE, visit_postgres_parallel_toggle_object(PostgresCreateParallelToggle, body))
  BY DEF PostgresParallelToggleMatBuilder, PostgresCreateParallelToggle
<1>2. PICK results : results = visit_postgres_parallel_toggle_object(PostgresCreateParallelToggle, body)
  OBVIOUS
<1>3. \A R \in results : R = body
  BY <1>2 DEF visit_postgres_parallel_toggle_object
<1>4. PutsObject("view", FALSE, results)
  BY <1>1, <1>2
<1> QED
  BY <1>3, <1>4, PutViewOfBody

\* The two ranges hold every key.
LEMMA PostgresPartitionedTableKeepsPromise ==
  ASSUME TreeInv, PostgresPartitionedTableMatBuilder
  PROVE  TreeInv'
<1>1. PICK body \in tree.reads :
        /\ HasPk /\ AsksQuery
        /\ PutsObject("view", TRUE, visit_postgres_partitioned_table_object(PostgresCreatePartitionedTable(5), body))
  BY DEF PostgresPartitionedTableMatBuilder, PostgresCreatePartitionedTable
<1>2. PICK lo, hi : /\ lo = {row \in DOMAIN body : row[1] # NULL /\ row[1] < 5}
                    /\ hi = {row \in DOMAIN body : row[1] # NULL /\ row[1] >= 5}
  OBVIOUS
<1>3. \A row \in DOMAIN body : row[1] \in Int /\ row[1] # NULL
  BY <1>1, PkOfQuery, ValuesAssumption
<1>4. lo \cup hi = DOMAIN body /\ lo \cap hi = {}
  BY <1>2, <1>3
<1>5. PICK branches : branches = <<Where(body, lo), Where(body, hi)>>
  OBVIOUS
<1>6. visit_postgres_partitioned_table_object(PostgresCreatePartitionedTable(5), body) = {UnionAll(branches)}
  BY <1>2, <1>4, <1>5 DEF visit_postgres_partitioned_table_object, PostgresCreatePartitionedTable
<1>7. UnionAll(branches) = body
  <2>1. PICK I, g : I = {1, 2} /\ g = [row \in DOMAIN body |-> IF row \in lo THEN 1 ELSE 2]
    OBVIOUS
  <2>2. DOMAIN branches = I /\ g \in [DOMAIN body -> I]
    BY <1>5, <2>1
  <2>3. lo = {row \in DOMAIN body : g[row] = 1}
    BY <1>4, <2>1
  <2>4. hi = {row \in DOMAIN body : g[row] = 2}
    BY <1>4, <2>1
  <2>5. ASSUME NEW i \in I PROVE branches[i] = Where(body, {row \in DOMAIN body : g[row] = i})
    <3>1. CASE i = 1
      BY <1>5, <2>3, <3>1
    <3>2. CASE i = 2
      BY <1>5, <2>4, <3>2
    <3> QED
      BY <2>1, <3>1, <3>2
  <2>6. Tidy(body)
    BY ReadsAreWide DEF Wide
  <2> QED
    BY <2>2, <2>5, <2>6, UnionOfFilters
<1>8. PutsObject("view", TRUE, {body})
  BY <1>1, <1>6, <1>7
<1> QED
  BY <1>8, PutWritableBody

\* PostgreSQL's builders keep the promise.
LEMMA PostgresKeepsPromise ==
  ASSUME TreeInv, PostgresBuilders
  PROVE  TreeInv'
  BY PostgresDistinctOnKeepsRows, PostgresArrayPackKeepsRows, PostgresWholeRowJsonPackKeepsRows,
     PostgresIndexKeepsPromise, PostgresPrimaryKeyKeepsPromise, PostgresMergeUpsertKeepsPromise,
     PostgresGeneratedColumnKeepsPromise, PostgresLegacyInheritanceKeepsPromise,
     PostgresDomainColumnKeepsPromise, PostgresUnloggedTableKeepsPromise,
     PostgresSecurityBarrierViewKeepsPromise, PostgresExtendedStatisticsKeepsPromise,
     PostgresParallelToggleKeepsPromise, PostgresPartitionedTableKeepsPromise
     DEF PostgresBuilders

-----------------------------------------------------------------------------
(* SQLite.                                                                 *)

\* A table that is one result of the query it is made of keeps the promise,
LEMMA PutTableOfBody ==
  ASSUME TreeInv, NEW body \in tree.reads, NEW results, \A R \in results : R = body,
         PutsObject("table", FALSE, results)
  PROVE  TreeInv'
<1>1. results \subseteq tree.reads
  BY BodyOnly
<1> QED
  BY <1>1, PutObject

\* The types come back when a typed table is filled.
LEMMA TypedBody ==
  ASSUME TreeInv, NEW body \in tree.reads
  PROVE  Typed(body) = body
  BY ReadsAreWide, TypedIsSame

\* and so does one created empty that the result is inserted into.
LEMMA FilledBody ==
  ASSUME TreeInv, NEW body \in tree.reads
  PROVE  Filled(body) = body
  BY ReadsAreWide, FilledIsSame DEF Wide

\* An index changes no row:
LEMMA SqliteCreateIndexKeepsPromise ==
  ASSUME TreeInv, SqliteCreateIndexBuilder
  PROVE  TreeInv'
<1>1. PICK body \in tree.reads :
        PutsObject("view", FALSE, visit_sqlite_index_object(SqliteCreateIndex(index_column, FALSE), body))
  BY DEF SqliteCreateIndexBuilder, SqliteCreateIndex
<1>2. PICK results : results = visit_sqlite_index_object(SqliteCreateIndex(index_column, FALSE), body)
  OBVIOUS
<1>3. \A R \in results : R = body
  BY <1>2 DEF visit_sqlite_index_object, SqliteCreateIndex, UniqueIndex
<1>4. PutsObject("view", FALSE, results)
  BY <1>1, <1>2
<1> QED
  BY <1>3, <1>4, PutViewOfBody

\* a unique one on c_pk, which the rows satisfy,
LEMMA SqliteUniqueIndexMatKeepsPromise ==
  ASSUME TreeInv, SqliteUniqueIndexMatBuilder
  PROVE  TreeInv'
<1>1. PICK body \in tree.reads :
        PutsObject("view", FALSE, visit_sqlite_index_object(SqliteCreateIndex(1, TRUE), body))
  BY DEF SqliteUniqueIndexMatBuilder, SqliteCreateIndex
<1>2. PICK results : results = visit_sqlite_index_object(SqliteCreateIndex(1, TRUE), body)
  OBVIOUS
<1>3. \A R \in results : R = body
  BY <1>2 DEF visit_sqlite_index_object, SqliteCreateIndex, UniqueIndex
<1>4. PutsObject("view", FALSE, results)
  BY <1>1, <1>2
<1> QED
  BY <1>3, <1>4, PutViewOfBody

\* a partial one,
LEMMA SqlitePartialIndexKeepsPromise ==
  ASSUME TreeInv, SqlitePartialIndexBuilder
  PROVE  TreeInv'
<1>1. PICK body \in tree.reads, where \in target :
        PutsObject("view", FALSE, visit_sqlite_index_object(SqliteCreateIndex(IF HasPk THEN 1 ELSE where, FALSE), body))
  BY DEF SqlitePartialIndexBuilder, SqliteCreateIndex
<1>2. PICK results : results = visit_sqlite_index_object(SqliteCreateIndex(IF HasPk THEN 1 ELSE where, FALSE), body)
  OBVIOUS
<1>3. \A R \in results : R = body
  BY <1>2 DEF visit_sqlite_index_object, SqliteCreateIndex, UniqueIndex
<1>4. PutsObject("view", FALSE, results)
  BY <1>1, <1>2
<1> QED
  BY <1>3, <1>4, PutViewOfBody

\* one whose condition is a column,
LEMMA SqliteTruthyPartialIndexKeepsPromise ==
  ASSUME TreeInv, SqliteTruthyPartialIndexBuilder
  PROVE  TreeInv'
<1>1. PICK body \in tree.reads, where \in FirstOf(other_columns \cap OfType(sqlite_numeric \cup {"text"})) :
        PutsObject("view", FALSE, visit_sqlite_index_object(SqliteCreateIndex(where, FALSE), body))
  BY DEF SqliteTruthyPartialIndexBuilder, SqliteCreateIndex
<1>2. PICK results : results = visit_sqlite_index_object(SqliteCreateIndex(where, FALSE), body)
  OBVIOUS
<1>3. \A R \in results : R = body
  BY <1>2 DEF visit_sqlite_index_object, SqliteCreateIndex, UniqueIndex
<1>4. PutsObject("view", FALSE, results)
  BY <1>1, <1>2
<1> QED
  BY <1>3, <1>4, PutViewOfBody

\* or a constant,
LEMMA SqliteConstantPartialIndexKeepsPromise ==
  ASSUME TreeInv, SqliteConstantPartialIndexBuilder
  PROVE  TreeInv'
<1>1. PICK body \in tree.reads :
        PutsObject("view", FALSE, visit_sqlite_index_object(SqliteCreateIndex(index_column, FALSE), body))
  BY DEF SqliteConstantPartialIndexBuilder, SqliteCreateIndex
<1>2. PICK results : results = visit_sqlite_index_object(SqliteCreateIndex(index_column, FALSE), body)
  OBVIOUS
<1>3. \A R \in results : R = body
  BY <1>2 DEF visit_sqlite_index_object, SqliteCreateIndex, UniqueIndex
<1>4. PutsObject("view", FALSE, results)
  BY <1>1, <1>2
<1> QED
  BY <1>3, <1>4, PutViewOfBody

\* one that is analyzed,
LEMMA SqliteAnalyzeIndexMatKeepsPromise ==
  ASSUME TreeInv, SqliteAnalyzeIndexMatBuilder
  PROVE  TreeInv'
<1>1. PICK body \in tree.reads :
        PutsObject("view", FALSE, visit_sqlite_analyze_index_object(SqliteCreateAnalyzeIndex(index_column), body))
  BY DEF SqliteAnalyzeIndexMatBuilder, SqliteCreateAnalyzeIndex
<1>2. PICK results : results = visit_sqlite_analyze_index_object(SqliteCreateAnalyzeIndex(index_column), body)
  OBVIOUS
<1>3. \A R \in results : R = body
  BY <1>2 DEF visit_sqlite_analyze_index_object
<1>4. PutsObject("view", FALSE, results)
  BY <1>1, <1>2
<1> QED
  BY <1>3, <1>4, PutViewOfBody

\* and one on an expression.
LEMMA SqliteExpressionIndexMatKeepsPromise ==
  ASSUME TreeInv, SqliteExpressionIndexMatBuilder
  PROVE  TreeInv'
<1>1. PICK body, column : body \in tree.reads /\
        PutsObject("view", FALSE, visit_sqlite_expr_index_object(SqliteCreateExprIndex(column), body))
  BY DEF SqliteExpressionIndexMatBuilder, SqliteCreateExprIndex
<1>2. PICK results : results = visit_sqlite_expr_index_object(SqliteCreateExprIndex(column), body)
  OBVIOUS
<1>3. \A R \in results : R = body
  BY <1>2 DEF visit_sqlite_expr_index_object
<1>4. PutsObject("view", FALSE, results)
  BY <1>1, <1>2
<1> QED
  BY <1>1, <1>3, <1>4, PutViewOfBody

\* A table in an attached database is the table.
LEMMA SqliteAttachKeepsPromise ==
  ASSUME TreeInv, SqliteAttachRoundTripBuilder
  PROVE  TreeInv'
<1>1. PICK body \in tree.reads :
        PutsObject("table", FALSE, visit_sqlite_attach_object(SqliteCreateAttach, body))
  BY DEF SqliteAttachRoundTripBuilder, SqliteCreateAttach
<1>2. PICK results : results = visit_sqlite_attach_object(SqliteCreateAttach, body)
  OBVIOUS
<1>3. \A R \in results : R = body
  BY <1>2 DEF visit_sqlite_attach_object
<1>4. PutsObject("table", FALSE, results)
  BY <1>1, <1>2
<1> QED
  BY <1>3, <1>4, PutTableOfBody

\* A table without rowids takes every row of a body with a c_pk, once each,
LEMMA SqliteWithoutRowidKeepsPromise ==
  ASSUME TreeInv, SqliteWithoutRowidTableBuilder
  PROVE  TreeInv'
<1>1. PICK body \in tree.reads :
        PutsObject("view", FALSE, visit_sqlite_without_rowid_object(SqliteCreateWithoutRowid, body))
  BY DEF SqliteWithoutRowidTableBuilder, SqliteCreateWithoutRowid
<1>2. PICK results : results = visit_sqlite_without_rowid_object(SqliteCreateWithoutRowid, body)
  OBVIOUS
<1>3. \A R \in results : R = body
  BY <1>2, TypedBody DEF visit_sqlite_without_rowid_object, PrimaryKey
<1>4. PutsObject("view", FALSE, results)
  BY <1>1, <1>2
<1> QED
  BY <1>3, <1>4, PutViewOfBody

\* with an index or without.
LEMMA SqliteWithoutRowidIndexedKeepsPromise ==
  ASSUME TreeInv, SqliteWithoutRowidIndexedBuilder
  PROVE  TreeInv'
<1>1. PICK body \in tree.reads, column \in target :
        PutsObject("view", FALSE, visit_sqlite_without_rowid_index_object(SqliteCreateWithoutRowidIndex(column), body))
  BY DEF SqliteWithoutRowidIndexedBuilder, SqliteCreateWithoutRowidIndex
<1>2. PICK results : results = visit_sqlite_without_rowid_index_object(SqliteCreateWithoutRowidIndex(column), body)
  OBVIOUS
<1>3. \A R \in results : R = body
  BY <1>2, TypedBody DEF visit_sqlite_without_rowid_index_object, PrimaryKey
<1>4. PutsObject("view", FALSE, results)
  BY <1>1, <1>2
<1> QED
  BY <1>3, <1>4, PutViewOfBody

\* The copy of c_pk is left out.
LEMMA GeneratedIsSame ==
  ASSUME TreeInv, NEW body \in tree.reads, NEW stored
  PROVE  \A R \in visit_sqlite_generated_object(SqliteCreateGenerated(stored), body) : R = body
<1>1. Typed(body) = body
  BY TypedBody
<1>2. PICK f : f = [row \in DOMAIN body |-> Append(row, row[1])]
  OBVIOUS
<1>3. PICK child : child = Select(body, f)
  OBVIOUS
<1>4. PICK g : g = [row \in DOMAIN child |-> SubSeq(row, 1, Len(row) - 1)]
  OBVIOUS
<1>5. visit_sqlite_generated_object(SqliteCreateGenerated(stored), body) = {Select(child, g)}
  BY <1>1, <1>2, <1>3, <1>4 DEF visit_sqlite_generated_object, SqliteCreateGenerated
<1>6. Select(Select(body, f), g) = body
  <2>1. Wide(body)
    BY ReadsAreWide
  <2>2. \A row \in DOMAIN body : \E v : f[row] = Append(row, v)
    BY <1>2
  <2>3. \A out \in Image(body, f) : g[out] = SubSeq(out, 1, Len(out) - 1)
    BY <1>3, <1>4, SelectDomain
  <2> QED
    BY <2>1, <2>2, <2>3, AppendedAndLeftOut
<1> QED
  BY <1>3, <1>5, <1>6

\* The generated copy of c_pk is left out of the view again, virtual
LEMMA SqliteGeneratedColumnKeepsPromise ==
  ASSUME TreeInv, SqliteGeneratedColumnRoundTripBuilder
  PROVE  TreeInv'
<1>1. PICK body \in tree.reads :
        PutsObject("view", FALSE, visit_sqlite_generated_object(SqliteCreateGenerated(FALSE), body))
  BY DEF SqliteGeneratedColumnRoundTripBuilder, SqliteCreateGenerated
<1>2. PICK results : results = visit_sqlite_generated_object(SqliteCreateGenerated(FALSE), body)
  OBVIOUS
<1>3. \A R \in results : R = body
  BY <1>2, GeneratedIsSame
<1>4. PutsObject("view", FALSE, results)
  BY <1>1, <1>2
<1> QED
  BY <1>3, <1>4, PutViewOfBody

\* or stored.
LEMMA SqliteStoredGeneratedColumnKeepsPromise ==
  ASSUME TreeInv, SqliteStoredGeneratedColumnRoundTripBuilder
  PROVE  TreeInv'
<1>1. PICK body \in tree.reads :
        PutsObject("view", FALSE, visit_sqlite_generated_object(SqliteCreateGenerated(TRUE), body))
  BY DEF SqliteStoredGeneratedColumnRoundTripBuilder, SqliteCreateGenerated
<1>2. PICK results : results = visit_sqlite_generated_object(SqliteCreateGenerated(TRUE), body)
  OBVIOUS
<1>3. \A R \in results : R = body
  BY <1>2, GeneratedIsSame
<1>4. PutsObject("view", FALSE, results)
  BY <1>1, <1>2
<1> QED
  BY <1>3, <1>4, PutViewOfBody

\* A strict table takes every value of its column's own type, as all of a body are.
LEMMA SqliteStrictTableKeepsPromise ==
  ASSUME TreeInv, SqliteStrictTableBuilder
  PROVE  TreeInv'
<1>1. PICK body \in tree.reads :
        PutsObject("view", FALSE, visit_sqlite_strict_object(SqliteCreateStrict, body))
  BY DEF SqliteStrictTableBuilder, SqliteCreateStrict
<1>2. PICK results : results = visit_sqlite_strict_object(SqliteCreateStrict, body)
  OBVIOUS
<1>3. \A R \in results : R = body
  BY <1>2 DEF visit_sqlite_strict_object
<1>4. PutsObject("view", FALSE, results)
  BY <1>1, <1>2
<1> QED
  BY <1>3, <1>4, PutViewOfBody

\* A recursive CTE that adds nothing has the rows it starts from.
LEMMA SqliteRecursiveCteKeepsRows ==
  ASSUME TreeInv, SqliteRecursiveCteIdentityBuilder
  PROVE  TreeInv'
<1>1. PICK results : results = {cast_signature(UnionAll(<<R, Where(R, {})>>)) : R \in tree.reads}
  OBVIOUS
<1>2. AsksRows(All) /\ PutsQuery(All, results)
  BY <1>1 DEF SqliteRecursiveCteIdentityBuilder, SqliteRecursiveCteQuery, AsksRelation
<1>3. cast_signature(UnionAll(<<Base, Where(Base, {})>>)) = Base
  <2>1. Wide(Base)
    BY BaseIsWide DEF TreeInv
  <2>2. UnionAll(<<Base, Where(Base, {})>>) = Base
    BY <2>1, UnionWithNothing DEF Wide
  <2>3. cast_signature(Base) = Base
    BY <2>1, CastSignature
  <2> QED
    BY <2>2, <2>3
<1>4. \A R \in results : R = Base
  BY <1>1, <1>2, <1>3, AllIsBase
<1> QED
  BY <1>2, <1>4, PutAll

\* A CTE of a CTE has the rows of the inner one.
LEMMA SqliteNestedMaterializedCteKeepsRows ==
  ASSUME TreeInv, SqliteNestedMaterializedCteBuilder
  PROVE  TreeInv'
<1>1. PICK results : results = {cast_signature(Where(R, DOMAIN R)) : R \in tree.reads}
  OBVIOUS
<1>2. AsksRows(All) /\ PutsQuery(All, results)
  BY <1>1 DEF SqliteNestedMaterializedCteBuilder, SqliteNestedMaterializedCteQuery, AsksRelation
<1>3. cast_signature(Where(Base, DOMAIN Base)) = Base
  <2>1. Wide(Base)
    BY BaseIsWide DEF TreeInv
  <2>2. Where(Base, DOMAIN Base) = Base
    BY <2>1, WhereAll DEF Wide
  <2>3. cast_signature(Base) = Base
    BY <2>1, CastSignature
  <2> QED
    BY <2>2, <2>3
<1>4. \A R \in results : R = Base
  BY <1>1, <1>2, <1>3, AllIsBase
<1> QED
  BY <1>2, <1>4, PutAll

\* SQLite's builders keep the promise.
LEMMA SqliteKeepsPromise ==
  ASSUME TreeInv, SqliteBuilders
  PROVE  TreeInv'
  BY SqliteCreateIndexKeepsPromise, SqliteUniqueIndexMatKeepsPromise, SqlitePartialIndexKeepsPromise,
     SqliteTruthyPartialIndexKeepsPromise, SqliteConstantPartialIndexKeepsPromise,
     SqliteAnalyzeIndexMatKeepsPromise, SqliteExpressionIndexMatKeepsPromise, SqliteAttachKeepsPromise,
     SqliteWithoutRowidKeepsPromise, SqliteWithoutRowidIndexedKeepsPromise,
     SqliteGeneratedColumnKeepsPromise, SqliteStoredGeneratedColumnKeepsPromise,
     SqliteStrictTableKeepsPromise, SqliteRecursiveCteKeepsRows, SqliteNestedMaterializedCteKeepsRows
     DEF SqliteBuilders

-----------------------------------------------------------------------------
(* CrateDB, MySQL and TiDB.                                                *)

\* How CrateDB indexes a column changes no row,
LEMMA CrateDbColumnIndexKeepsPromise ==
  ASSUME TreeInv, NEW mode, NEW columns, CrateDbColumnIndexBuilder(mode, columns)
  PROVE  TreeInv'
<1>1. PICK body \in tree.reads :
        PutsObject("view", FALSE, visit_cratedb_column_index_object(CrateCreateColumnIndex(mode, columns), body))
  BY DEF CrateDbColumnIndexBuilder, CrateCreateColumnIndex
<1>2. PICK results : results = visit_cratedb_column_index_object(CrateCreateColumnIndex(mode, columns), body)
  OBVIOUS
<1>3. \A R \in results : R = body
  BY <1>2, FilledBody DEF visit_cratedb_column_index_object
<1>4. PutsObject("view", FALSE, results)
  BY <1>1, <1>2
<1> QED
  BY <1>3, <1>4, PutViewOfBody

\* The bucket is appended and left out.
LEMMA PartitionedIsSame ==
  ASSUME TreeInv, NEW body \in tree.reads, NEW c
  PROVE  \A R \in visit_cratedb_partitioned_object(CrateCreatePartitioned(c), body) : R = body
<1>1. PICK bucket : bucket = [row \in DOMAIN body |-> SqlMod(row[c], 4)]
  OBVIOUS
<1>2. PICK f : f = [row \in DOMAIN body |-> Append(row, bucket[row])]
  OBVIOUS
<1>3. PICK child : child = Select(body, f)
  OBVIOUS
<1>4. PICK g : g = [row \in DOMAIN child |-> Front(row)]
  OBVIOUS
<1>5. \A R \in visit_cratedb_partitioned_object(CrateCreatePartitioned(c), body) : R = Select(child, g)
  BY <1>1, <1>2, <1>3, <1>4 DEF visit_cratedb_partitioned_object, CrateCreatePartitioned
<1>6. Select(Select(body, f), g) = body
  <2>1. Wide(body)
    BY ReadsAreWide
  <2>2. \A row \in DOMAIN body : \E v : f[row] = Append(row, v)
    BY <1>2
  <2>3. \A out \in Image(body, f) : g[out] = SubSeq(out, 1, Len(out) - 1)
    BY <1>3, <1>4, SelectDomain DEF Front
  <2> QED
    BY <2>1, <2>2, <2>3, AppendedAndLeftOut
<1> QED
  BY <1>3, <1>5, <1>6

\* nor does what it partitions the table by,
LEMMA CrateDbPartitionedKeepsPromise ==
  ASSUME TreeInv, CrateDbPartitionedBuilder
  PROVE  TreeInv'
<1>1. PICK body \in tree.reads, c \in FirstOf(bucketable_columns) :
        PutsObject("view", FALSE, visit_cratedb_partitioned_object(CrateCreatePartitioned(c), body))
  BY DEF CrateDbPartitionedBuilder, CrateCreatePartitioned
<1>2. PICK results : results = visit_cratedb_partitioned_object(CrateCreatePartitioned(c), body)
  OBVIOUS
<1>3. \A R \in results : R = body
  BY <1>2, PartitionedIsSame
<1>4. PutsObject("view", FALSE, results)
  BY <1>1, <1>2
<1> QED
  BY <1>3, <1>4, PutViewOfBody

\* What is packed into an object is taken out of it as it was,
LEMMA ObjectPackIsSame ==
  ASSUME TreeInv, NEW body \in tree.reads
  PROVE  \A R \in visit_cratedb_object_pack_object(CrateCreateObjectPack, body) : R = body
<1>1. PICK f : f = [row \in DOMAIN body |-> [obj |-> row]]
  OBVIOUS
<1>2. PICK packed : packed = Select(body, f)
  OBVIOUS
<1>3. PICK g : g = [struct \in DOMAIN packed |-> [c \in DOMAIN struct.obj |-> struct.obj[c]]]
  OBVIOUS
<1>4. visit_cratedb_object_pack_object(CrateCreateObjectPack, body) = {Select(packed, g)}
  BY <1>1, <1>2, <1>3 DEF visit_cratedb_object_pack_object
<1>5. Wide(body)
  BY ReadsAreWide
<1>6. ASSUME NEW row \in DOMAIN body PROVE g[f[row]] = row
  <2>1. row = [i \in DOMAIN row |-> row[i]]
    BY <1>5, PlaceInAnyRow DEF Wide
  <2>2. f[row] \in DOMAIN packed
    BY <1>2, SelectDomain, ImageIs
  <2>3. f[row].obj = row
    BY <1>1
  <2>4. g[f[row]] = [c \in DOMAIN f[row].obj |-> f[row].obj[c]]
    BY <1>3, <2>2
  <2> QED
    BY <2>1, <2>3, <2>4
<1>7. Select(Select(body, f), g) = body
  BY <1>5, <1>6, PackedAndUnpacked
<1> QED
  BY <1>2, <1>4, <1>7

\* so the view of the packed table has its rows,
LEMMA CrateDbObjectPackKeepsPromise ==
  ASSUME TreeInv, CrateDbObjectRoundTripBuilder
  PROVE  TreeInv'
<1>1. PICK body \in tree.reads :
        PutsObject("view", FALSE, visit_cratedb_object_pack_object(CrateCreateObjectPack, body))
  BY DEF CrateDbObjectRoundTripBuilder, CrateCreateObjectPack
<1>2. PICK results : results = visit_cratedb_object_pack_object(CrateCreateObjectPack, body)
  OBVIOUS
<1>3. \A R \in results : R = body
  BY <1>2, ObjectPackIsSame
<1>4. PutsObject("view", FALSE, results)
  BY <1>1, <1>2
<1> QED
  BY <1>3, <1>4, PutViewOfBody

\* however many shards it has.
LEMMA CrateDbShardLayoutKeepsPromise ==
  ASSUME TreeInv, NEW columns, CrateDbShardLayoutBuilder(columns)
  PROVE  TreeInv'
<1>1. PICK body \in tree.reads :
        PutsObject("view", FALSE, visit_cratedb_shard_layout_object(CrateCreateShardLayout(columns), body))
  BY DEF CrateDbShardLayoutBuilder, CrateCreateShardLayout
<1>2. PICK results : results = visit_cratedb_shard_layout_object(CrateCreateShardLayout(columns), body)
  OBVIOUS
<1>3. \A R \in results : R = body
  BY <1>2, FilledBody DEF visit_cratedb_shard_layout_object
<1>4. PutsObject("view", FALSE, results)
  BY <1>1, <1>2
<1> QED
  BY <1>3, <1>4, PutViewOfBody

\* CrateDB's builders keep the promise.
LEMMA CrateDBKeepsPromise ==
  ASSUME TreeInv, CrateDBBuilders
  PROVE  TreeInv'
<1>1. CASE \E mode, columns : CrateDbColumnIndexBuilder(mode, columns)
  BY <1>1, CrateDbColumnIndexKeepsPromise
<1>2. CASE \E columns : CrateDbShardLayoutBuilder(columns)
  BY <1>2, CrateDbShardLayoutKeepsPromise
<1>3. CASE CrateDbPartitionedBuilder
  BY <1>3, CrateDbPartitionedKeepsPromise
<1>4. CASE CrateDbObjectRoundTripBuilder
  BY <1>4, CrateDbObjectPackKeepsPromise
<1> QED
  BY <1>1, <1>2, <1>3, <1>4
     DEF CrateDBBuilders, CrateDbIndexOffBuilder, CrateDbColumnstoreOffBuilder,
         CrateDbNamedFulltextIndexBuilder, CrateDbShardCountBuilder, CrateDbClusteredByBuilder

\* An index changes no row,
LEMMA MySqlIndexKeepsPromise ==
  ASSUME TreeInv, NEW KIND, NEW columns, MySqlIndexBuilderBase(KIND, columns)
  PROVE  TreeInv'
<1>1. PICK body \in tree.reads, c \in columns :
        PutsObject("view", FALSE, visit_mysql_index_object(MySqlCreateIndex(KIND, c), body))
  BY DEF MySqlIndexBuilderBase, MySqlCreateIndex
<1>2. PICK results : results = visit_mysql_index_object(MySqlCreateIndex(KIND, c), body)
  OBVIOUS
<1>3. \A R \in results : R = body
  BY <1>2 DEF visit_mysql_index_object, UniqueIndex
<1>4. PutsObject("view", FALSE, results)
  BY <1>1, <1>2
<1> QED
  BY <1>3, <1>4, PutViewOfBody

\* and a typed table of InnoDB filled from the body has the body's rows.
LEMMA MySqlInnodbTableKeepsPromise ==
  ASSUME TreeInv, MySqlInnodbTableBuilder
  PROVE  TreeInv'
<1>1. PICK body \in tree.reads :
        PutsObject("view", FALSE, visit_mysql_table_option_object(MySqlCreateTableOption, body))
  BY DEF MySqlInnodbTableBuilder, MySqlCreateTableOption
<1>2. PICK results : results = visit_mysql_table_option_object(MySqlCreateTableOption, body)
  OBVIOUS
<1>3. \A R \in results : R = body
  BY <1>2, FilledBody DEF visit_mysql_table_option_object
<1>4. PutsObject("view", FALSE, results)
  BY <1>1, <1>2
<1> QED
  BY <1>3, <1>4, PutViewOfBody

\* A value packed plainly or in quotes is taken out again.
LEMMA PlainValue ==
  ASSUME NEW v \in Value, v # NULL
  PROVE  Retyped(v) # JsonNull /\ CastBack(Retyped(v)) = v
<1>1. CastBack(Retyped(v)) = v
  BY CastsBack
<1>2. CASE v = MinusZero
  <2>1. Retyped(v) = MinusZero /\ JsonNull \in Int
    BY <1>2, ValuesAssumption DEF Retyped, JsonNull
  <2> QED
    BY <1>1, <2>1, ValuesAssumption
<1>3. CASE v # MinusZero
  <2>1. v \in Int /\ v < OtherType /\ OtherType \in Nat \ {0, 1}
    BY <1>3, ValuesAssumption DEF Value
  <2>2. Retyped(v) = v + 2 * OtherType
    BY <2>1 DEF Retyped
  <2> QED
    BY <1>1, <2>1, <2>2 DEF JsonNull
<1> QED
  BY <1>2, <1>3

\* A value that comes out of JSON with quotes is the value once they are taken off.
LEMMA QuotedValue ==
  ASSUME NEW v \in Value, v # NULL, v # MinusZero
  PROVE  Quoted(Retyped(v)) # JsonNull /\ CastBack(Quoted(Retyped(v)) - 4 * OtherType) = v
<1>1. v \in Int /\ v < OtherType /\ v > - OtherType /\ OtherType \in Nat \ {0, 1}
  BY ValuesAssumption DEF Value
<1>2. Retyped(v) = v + 2 * OtherType
  BY <1>1 DEF Retyped
<1>3. v + 2 * OtherType # 4 * OtherType
  BY <1>1
<1>4. Quoted(Retyped(v)) = v + 2 * OtherType + 4 * OtherType
  BY <1>2, <1>3 DEF Quoted, JsonNull
<1>5. Quoted(Retyped(v)) # JsonNull
  BY <1>1, <1>4 DEF JsonNull
<1>6. Quoted(Retyped(v)) - 4 * OtherType = Retyped(v)
  BY <1>1, <1>2, <1>4
<1> QED
  BY <1>5, <1>6, CastsBack

\* What a text, say, cannot be.
LEMMA NotMinusZero ==
  ASSUME TreeInv, AsksQuery, NEW body \in tree.reads, NEW row \in DOMAIN body,
         NEW c \in Columns, catalog.types[c] # "double"
  PROVE  row[c] # MinusZero
<1>1. row \in AnyRows /\ Columns2(row) \in All
  BY QueryRows
<1>2. c = 1 \/ c = 2
  BY TwoColumns DEF TreeInv
<1>3. PICK r : r = Columns2(row)
  OBVIOUS
<1>4. r[c] # MinusZero
  <2>1. r \in DOMAIN catalog.rows
    BY <1>1, <1>3 DEF All, Base
  <2> QED
    BY <1>2, <2>1, CatalogsAssumption DEF TreeInv, IsCatalog
<1>5. r = <<row[1], row[2]>>
  BY <1>1, <1>3, ColumnsAre
<1> QED
  BY <1>2, <1>4, <1>5

\* So a row packed into a JSON object, its columns unpacked, unquoted and cast, is the row.
LEMMA JsonPackIsSame ==
  ASSUME TreeInv, AsksQuery, NEW body \in tree.reads
  PROVE  \A R \in visit_mysql_json_pack_round_trip_object(
             MySqlJsonPackRoundTrip(Columns \ OfType({"boolean", "double", "integer", "decimal"})), body) : R = body
<1> DEFINE unquote == Columns \ OfType({"boolean", "double", "integer", "decimal"})
           packed(v, c) == IF v = NULL THEN JsonNull
                           ELSE IF c \in OfType({"text", "date", "jsonb", "int4range", "uuid"})
                                THEN Quoted(Retyped(v)) ELSE Retyped(v)
           unquoted(j, c) == IF c \in unquote THEN j - 4 * OtherType ELSE j
           extract(j, c) == IF j = JsonNull THEN NULL ELSE CastBack(unquoted(j, c))
<1>1. PICK f : f = [row \in DOMAIN body |-> [c \in DOMAIN row |-> extract(packed(row[c], c), c)]]
  OBVIOUS
<1>2. visit_mysql_json_pack_round_trip_object(MySqlJsonPackRoundTrip(unquote), body) = {Select(body, f)}
  BY <1>1 DEF visit_mysql_json_pack_round_trip_object, MySqlJsonPackRoundTrip
<1>3. unquote = OfType({"text", "date", "jsonb", "int4range", "uuid"})
  <2>1. ASSUME NEW c \in Columns PROVE catalog.types[c] \in SqlTypes
    <3>1. catalog.types \in SqlTypes \X SqlTypes
      BY CatalogsAssumption DEF TreeInv, IsCatalog
    <3>2. c \in {1, 2}
      BY TwoColumns DEF TreeInv
    <3> QED
      BY <3>1, <3>2
  <2> QED
    BY <2>1 DEF OfType, SqlTypes
<1>4. \A c \in unquote : c \in Columns /\ catalog.types[c] # "double"
  BY DEF OfType
<1> HIDE DEF unquote
<1>5. ASSUME NEW row \in DOMAIN body, NEW c \in DOMAIN row PROVE extract(packed(row[c], c), c) = row[c]
  <2>1. row[c] \in Value
    <3>1. row \in AnyRows
      BY QueryRows
    <3> QED
      BY <3>1, PlaceInAnyRow
  <2>2. CASE row[c] = NULL
    BY <2>2
  <2>3. CASE row[c] # NULL /\ c \in unquote
    <3>1. row[c] # MinusZero
      BY <1>4, <2>3, NotMinusZero
    <3>2. packed(row[c], c) = Quoted(Retyped(row[c]))
      BY <1>3, <2>3
    <3>3. Quoted(Retyped(row[c])) # JsonNull /\ CastBack(Quoted(Retyped(row[c])) - 4 * OtherType) = row[c]
      BY <2>1, <2>3, <3>1, QuotedValue
    <3> QED
      BY <2>3, <3>2, <3>3
  <2>4. CASE row[c] # NULL /\ c \notin unquote
    <3>1. packed(row[c], c) = Retyped(row[c])
      BY <1>3, <2>4
    <3>2. Retyped(row[c]) # JsonNull /\ CastBack(Retyped(row[c])) = row[c]
      BY <2>1, <2>4, PlainValue
    <3> QED
      BY <2>4, <3>1, <3>2
  <2> QED
    BY <2>2, <2>3, <2>4
<1>6. ASSUME NEW row \in DOMAIN body PROVE f[row] = row
  <2>1. row = [c \in DOMAIN row |-> row[c]]
    <3>1. row \in AnyRows
      BY QueryRows
    <3> QED
      BY <3>1, PlaceInAnyRow
  <2>2. f[row] = [c \in DOMAIN row |-> extract(packed(row[c], c), c)]
    BY <1>1
  <2>3. \A c \in DOMAIN row : extract(packed(row[c], c), c) = row[c]
    BY <1>5
  <2> HIDE DEF extract, packed
  <2> QED
    BY <2>1, <2>2, <2>3
<1>7. Select(body, f) = body
  <2>1. Wide(body)
    BY ReadsAreWide
  <2> QED
    BY <1>6, <2>1, SelectOfSame
<1> QED
  BY <1>2, <1>7 DEF unquote

\* MySQL's JSON pack keeps the rows.
LEMMA MySqlJsonPackKeepsPromise ==
  ASSUME TreeInv, MySqlJsonPackRoundTripBuilder
  PROVE  TreeInv'
<1>1. PICK quoted : quoted = Columns \ OfType({"boolean", "double", "integer", "decimal"})
  OBVIOUS
<1>2. PICK body \in tree.reads :
        /\ AsksQuery
        /\ PutsObject("view", FALSE, visit_mysql_json_pack_round_trip_object(MySqlJsonPackRoundTrip(quoted), body))
  BY <1>1 DEF MySqlJsonPackRoundTripBuilder, MySqlJsonPackRoundTrip
<1>3. PICK results : results = visit_mysql_json_pack_round_trip_object(MySqlJsonPackRoundTrip(quoted), body)
  OBVIOUS
<1>4. \A R \in results : R = body
  BY <1>1, <1>2, <1>3, JsonPackIsSame
<1>5. PutsObject("view", FALSE, results)
  BY <1>2, <1>3
<1> QED
  BY <1>4, <1>5, PutViewOfBody

\* A cached table is the table.
LEMMA TiDbCachedTableKeepsPromise ==
  ASSUME TreeInv, TiDbCachedTableBuilder
  PROVE  TreeInv'
<1>1. PICK body \in tree.reads :
        PutsObject("view", FALSE, visit_tidb_cached_table_object(TiCreateCachedTable, body))
  BY DEF TiDbCachedTableBuilder, TiCreateCachedTable
<1>2. PICK results : results = visit_tidb_cached_table_object(TiCreateCachedTable, body)
  OBVIOUS
<1>3. \A R \in results : R = body
  BY <1>2, FilledBody DEF visit_tidb_cached_table_object
<1>4. PutsObject("view", FALSE, results)
  BY <1>1, <1>2
<1> QED
  BY <1>3, <1>4, PutViewOfBody

\* MySQL's and TiDB's builders keep the promise.
LEMMA MySQLKeepsPromise ==
  ASSUME TreeInv, MySQLBuilders
  PROVE  TreeInv'
<1>1. CASE \E KIND, columns : MySqlIndexBuilderBase(KIND, columns)
  BY <1>1, MySqlIndexKeepsPromise
<1>2. CASE MySqlInnodbTableBuilder
  BY <1>2, MySqlInnodbTableKeepsPromise
<1>3. CASE MySqlJsonPackRoundTripBuilder
  BY <1>3, MySqlJsonPackKeepsPromise
<1>4. CASE TiDbCachedTableBuilder
  BY <1>4, TiDbCachedTableKeepsPromise
<1> QED
  BY <1>1, <1>2, <1>3, <1>4
     DEF MySQLBuilders, MySqlPlainIndexBuilder, MySqlPrefixIndexBuilder, MySqlInvisibleIndexBuilder,
         MySqlUniqueIndexBuilder

-----------------------------------------------------------------------------
(* ClickHouse.                                                             *)

\* A projection changes no row,
LEMMA ClickHouseProjectionKeepsPromise ==
  ASSUME TreeInv, ClickHouseProjectionBuilder
  PROVE  TreeInv'
<1>1. PICK body \in tree.reads, order_by \in Columns :
        PutsObject("view", FALSE, visit_clickhouse_projection_object(ClickHouseCreateProjection(order_by), body))
  BY DEF ClickHouseProjectionBuilder, ClickHouseCreateProjection
<1>2. PICK results : results = visit_clickhouse_projection_object(ClickHouseCreateProjection(order_by), body)
  OBVIOUS
<1>3. \A R \in results : R = body
  BY <1>2, FilledBody DEF visit_clickhouse_projection_object
<1>4. PutsObject("view", FALSE, results)
  BY <1>1, <1>2
<1> QED
  BY <1>3, <1>4, PutViewOfBody

\* nor does a skip index
LEMMA ClickHouseSkipIndexKeepsPromise ==
  ASSUME TreeInv, NEW TYPE, NEW safe, ClickHouseSkipIndexBuilder(TYPE, safe)
  PROVE  TreeInv'
<1>1. PICK body \in tree.reads, column \in safe :
        PutsObject("view", FALSE, visit_clickhouse_skip_index_object(ClickHouseCreateSkipIndex(TYPE, column), body))
  BY DEF ClickHouseSkipIndexBuilder, ClickHouseCreateSkipIndex
<1>2. PICK results : results = visit_clickhouse_skip_index_object(ClickHouseCreateSkipIndex(TYPE, column), body)
  OBVIOUS
<1>3. \A R \in results : R = body
  BY <1>2, FilledBody DEF visit_clickhouse_skip_index_object
<1>4. PutsObject("view", FALSE, results)
  BY <1>1, <1>2
<1> QED
  BY <1>3, <1>4, PutViewOfBody

\* or a column's codec.
LEMMA ClickHouseCodecKeepsPromise ==
  ASSUME TreeInv, NEW codec, NEW columns, ClickHouseCodecBuilder(codec, columns)
  PROVE  TreeInv'
<1>1. PICK body \in tree.reads :
        PutsObject("view", FALSE, visit_clickhouse_codec_object(ClickHouseCreateCodec(codec, columns), body))
  BY DEF ClickHouseCodecBuilder, ClickHouseCreateCodec
<1>2. PICK results : results = visit_clickhouse_codec_object(ClickHouseCreateCodec(codec, columns), body)
  OBVIOUS
<1>3. \A R \in results : R = body
  BY <1>2, FilledBody DEF visit_clickhouse_codec_object
<1>4. PutsObject("view", FALSE, results)
  BY <1>1, <1>2
<1> QED
  BY <1>3, <1>4, PutViewOfBody

\* A remainder of 4 is one of -3 .. 3.
LEMMA ModFour ==
  ASSUME NEW v \in Value, v # NULL
  PROVE  SqlMod(v, 4) \in Int /\ SqlMod(v, 4) + 4 \in 1 .. 7
<1>1. CASE v = MinusZero
  BY <1>1, ValuesAssumption DEF SqlMod
<1>2. CASE v # MinusZero /\ v < 0
  <2>1. v \in Int
    BY <1>2, ValuesAssumption DEF Value
  <2>2. SqlMod(v, 4) = - ((- v) % 4)
    BY <1>2 DEF SqlMod
  <2>3. (- v) % 4 \in 0 .. 3
    BY <2>1
  <2> QED
    BY <2>2, <2>3
<1>3. CASE v # MinusZero /\ ~ (v < 0)
  <2>1. v \in Int
    BY <1>3, ValuesAssumption DEF Value
  <2>2. SqlMod(v, 4) = v % 4
    BY <1>3 DEF SqlMod
  <2>3. v % 4 \in 0 .. 3
    BY <2>1
  <2> QED
    BY <2>2, <2>3
<1> QED
  BY <1>1, <1>2, <1>3

Layouts == {"sorted", "fine_granules", "partitioned"}

\* The parts together are the table.
LEMMA PartLayoutIsSame ==
  ASSUME TreeInv, NEW body \in tree.reads, NEW c \in {1, 2}, NEW layout, layout \in Layouts
  PROVE  \A R \in visit_clickhouse_part_layout_object(ClickHouseCreatePartLayout(layout, c), body) : R = body
<1> DEFINE Part(row) == IF row[c] = NULL THEN 0 ELSE SqlMod(row[c], 4)
<1>1. PICK parts : parts = [i \in 1 .. 7 |-> Filled(Where(body, {row \in DOMAIN body : Part(row) = i - 4}))]
  OBVIOUS
<1>2. \A R \in visit_clickhouse_part_layout_object(ClickHouseCreatePartLayout(layout, c), body) :
        R = Filled(body) \/ R = UnionAll(parts)
  BY <1>1 DEF visit_clickhouse_part_layout_object, ClickHouseCreatePartLayout, Layouts
<1>3. Wide(body)
  BY ReadsAreWide
<1>4. ASSUME NEW row \in DOMAIN body PROVE Part(row) \in Int /\ Part(row) + 4 \in 1 .. 7
  <2>1. row[c] \in Value
    BY <1>3, PlaceInAnyRow DEF Wide
  <2> QED
    BY <2>1, ModFour
<1>5. PICK g : g = [row \in DOMAIN body |-> Part(row) + 4]
  OBVIOUS
<1>6. PICK I : I = 1 .. 7
  OBVIOUS
<1>7. g \in [DOMAIN body -> I]
  BY <1>4, <1>5, <1>6
<1>8. ASSUME NEW i \in I PROVE parts[i] = Where(body, {row \in DOMAIN body : g[row] = i})
  <2>1. {row \in DOMAIN body : Part(row) = i - 4} = {row \in DOMAIN body : g[row] = i}
    <3>1. \A row \in DOMAIN body : Part(row) = i - 4 <=> g[row] = i
      BY <1>4, <1>5, <1>6
    <3> QED
      BY <3>1
  <2>2. PICK K : K = {row \in DOMAIN body : Part(row) = i - 4}
    OBVIOUS
  <2>3. parts[i] = Filled(Where(body, K))
    BY <1>1, <1>6, <2>2
  <2>4. Tidy(Where(body, K))
    BY <1>3, WhereTidy DEF Wide
  <2>5. Filled(Where(body, K)) = Where(body, K)
    BY <2>4, FilledIsSame
  <2> QED
    BY <2>1, <2>2, <2>3, <2>5
<1>9. UnionAll(parts) = body
  <2>1. DOMAIN parts = I
    BY <1>1, <1>6
  <2>2. Tidy(body)
    BY <1>3 DEF Wide
  <2> QED
    BY <1>7, <1>8, <2>1, <2>2, UnionOfFilters
<1>10. Filled(body) = body
  BY FilledBody
<1> QED
  BY <1>2, <1>9, <1>10

\* A table sorted, in fine granules or partitioned has the rows inserted into it.
LEMMA ClickHousePartLayoutKeepsPromise ==
  ASSUME TreeInv, NEW KIND, KIND \in Layouts, NEW columns, columns \subseteq Columns,
         ClickHousePartLayoutBuilder(KIND, columns)
  PROVE  TreeInv'
<1>1. PICK body \in tree.reads, c \in columns :
        PutsObject("view", FALSE, visit_clickhouse_part_layout_object(ClickHouseCreatePartLayout(KIND, c), body))
  BY DEF ClickHousePartLayoutBuilder, ClickHouseCreatePartLayout
<1>2. c \in {1, 2}
  BY TwoColumns DEF TreeInv
<1>3. PICK results : results = visit_clickhouse_part_layout_object(ClickHouseCreatePartLayout(KIND, c), body)
  OBVIOUS
<1>4. \A R \in results : R = body
  BY <1>3, <1>2, PartLayoutIsSame
<1>5. PutsObject("view", FALSE, results)
  BY <1>1, <1>3
<1> QED
  BY <1>4, <1>5, PutViewOfBody

\* What packs each value and takes it out again keeps the rows:
LEMMA ClickHouseExpressionKeepsRows ==
  ASSUME TreeInv, NEW rewrite, \A v \in ColumnValues : rewrite[v] = v,
         ClickHouseExpressionRoundTripBuilder(rewrite)
  PROVE  TreeInv'
<1>1. dispatch_source /\ PutsQuery(All, {EachColumn(R, rewrite) : R \in tree.reads})
  BY DEF ClickHouseExpressionRoundTripBuilder
<1> QED
  BY <1>1, EachColumnKeepsRows

\* a tuple's element,
LEMMA ClickHouseTupleElementKeepsRows ==
  ASSUME TreeInv, ClickHouseTupleElementRoundTripBuilder
  PROVE  TreeInv'
<1>1. PICK rewrite : rewrite = [v \in ColumnValues |-> <<v>>[1]]
  OBVIOUS
<1>2. \A v \in ColumnValues : rewrite[v] = v
  BY <1>1
<1>3. ClickHouseExpressionRoundTripBuilder(rewrite)
  BY <1>1 DEF ClickHouseTupleElementRoundTripBuilder
<1> QED
  BY <1>2, <1>3, ClickHouseExpressionKeepsRows

\* an array's,
LEMMA ClickHouseArrayElementKeepsRows ==
  ASSUME TreeInv, ClickHouseArrayElementRoundTripBuilder
  PROVE  TreeInv'
<1>1. PICK rewrite : rewrite = [v \in ColumnValues |-> Head(<<v>>)]
  OBVIOUS
<1>2. \A v \in ColumnValues : rewrite[v] = v
  BY <1>1
<1>3. ClickHouseExpressionRoundTripBuilder(rewrite)
  BY <1>1 DEF ClickHouseArrayElementRoundTripBuilder
<1> QED
  BY <1>2, <1>3, ClickHouseExpressionKeepsRows

\* a map's,
LEMMA ClickHouseMapElementKeepsRows ==
  ASSUME TreeInv, ClickHouseMapElementRoundTripBuilder
  PROVE  TreeInv'
<1>1. PICK rewrite : rewrite = [v \in ColumnValues |-> [k \in {"k"} |-> v]["k"]]
  OBVIOUS
<1>2. \A v \in ColumnValues : rewrite[v] = v
  BY <1>1
<1>3. ClickHouseExpressionRoundTripBuilder(rewrite)
  BY <1>1 DEF ClickHouseMapElementRoundTripBuilder
<1> QED
  BY <1>2, <1>3, ClickHouseExpressionKeepsRows

\* and coalesce of a column with itself.
LEMMA ClickHouseCoalesceSelfKeepsRows ==
  ASSUME TreeInv, ClickHouseCoalesceSelfRoundTripBuilder
  PROVE  TreeInv'
<1>1. PICK rewrite : rewrite = [v \in ColumnValues |-> IF v # NULL THEN v ELSE v]
  OBVIOUS
<1>2. \A v \in ColumnValues : rewrite[v] = v
  BY <1>1
<1>3. ClickHouseExpressionRoundTripBuilder(rewrite)
  BY <1>1 DEF ClickHouseCoalesceSelfRoundTripBuilder
<1> QED
  BY <1>2, <1>3, ClickHouseExpressionKeepsRows

\* What a table is sorted by are columns of it.
LEMMA KeysAreColumns ==
  /\ FirstOf(keys) \subseteq Columns
  /\ (IF keys \ (IF HasPk THEN {1} ELSE {}) # {} THEN keys \ (IF HasPk THEN {1} ELSE {}) ELSE FirstOf(keys)) \subseteq Columns
<1>1. keys \subseteq Columns
  BY DEF keys, numeric_columns, OfType
<1>2. FirstOf(keys) \subseteq Columns
  BY <1>1 DEF FirstOf
<1> QED
  BY <1>1, <1>2

\* ClickHouse's builders keep the promise.
LEMMA ClickHouseKeepsPromise ==
  ASSUME TreeInv, ClickHouseBuilders
  PROVE  TreeInv'
<1>1. CASE \E TYPE, safe : ClickHouseSkipIndexBuilder(TYPE, safe)
  BY <1>1, ClickHouseSkipIndexKeepsPromise
<1>2. CASE \E codec, columns : ClickHouseCodecBuilder(codec, columns)
  BY <1>2, ClickHouseCodecKeepsPromise
<1>3. CASE \E KIND \in Layouts : \E columns \in SUBSET Columns : ClickHousePartLayoutBuilder(KIND, columns)
  BY <1>3, ClickHousePartLayoutKeepsPromise
<1>4. CASE ClickHouseSortedTableBuilder \/ ClickHousePartitionedTableBuilder \/ ClickHouseFineGranuleTableBuilder
  <2>1. PICK sorted, partitioned, fine :
          /\ sorted = "sorted" /\ partitioned = "partitioned" /\ fine = "fine_granules"
          /\ sorted \in Layouts /\ partitioned \in Layouts /\ fine \in Layouts
    BY DEF Layouts
  <2>2. PICK first, other :
          /\ first = FirstOf(keys)
          /\ other = IF keys \ (IF HasPk THEN {1} ELSE {}) # {} THEN keys \ (IF HasPk THEN {1} ELSE {}) ELSE FirstOf(keys)
          /\ first \in SUBSET Columns /\ other \in SUBSET Columns
    BY KeysAreColumns
  <2>3. \/ ClickHousePartLayoutBuilder(sorted, other) \/ ClickHousePartLayoutBuilder(partitioned, first)
        \/ ClickHousePartLayoutBuilder(fine, first)
    BY <1>4, <2>1, <2>2
       DEF ClickHouseSortedTableBuilder, ClickHousePartitionedTableBuilder, ClickHouseFineGranuleTableBuilder
  <2> QED
    BY <1>3, <2>1, <2>2, <2>3
<1>5. CASE ClickHouseProjectionBuilder
  BY <1>5, ClickHouseProjectionKeepsPromise
<1>6. CASE \/ ClickHouseTupleElementRoundTripBuilder \/ ClickHouseArrayElementRoundTripBuilder
           \/ ClickHouseMapElementRoundTripBuilder \/ ClickHouseCoalesceSelfRoundTripBuilder
  BY <1>6, ClickHouseTupleElementKeepsRows, ClickHouseArrayElementKeepsRows,
     ClickHouseMapElementKeepsRows, ClickHouseCoalesceSelfKeepsRows
<1>7. CASE \/ ClickHouseMinMaxIndexBuilder \/ ClickHouseSetIndexBuilder \/ ClickHouseBloomIndexBuilder
           \/ ClickHouseTokenBfIndexBuilder \/ ClickHouseNgramBfIndexBuilder
  BY <1>1, <1>7 DEF ClickHouseMinMaxIndexBuilder, ClickHouseSetIndexBuilder, ClickHouseBloomIndexBuilder,
     ClickHouseTokenBfIndexBuilder, ClickHouseNgramBfIndexBuilder
<1>8. CASE ClickHouseZstdCodecBuilder \/ ClickHouseDeltaCodecBuilder
  BY <1>2, <1>8 DEF ClickHouseZstdCodecBuilder, ClickHouseDeltaCodecBuilder
<1> QED
  BY <1>4, <1>5, <1>6, <1>7, <1>8 DEF ClickHouseBuilders

-----------------------------------------------------------------------------
(* DuckDB.                                                                 *)

\* An anti join with no rows keeps all,
LEMMA DuckDBAntiJoinKeepsRows ==
  ASSUME TreeInv, DuckDBAntiJoinEmptyRoundTripBuilder
  PROVE  TreeInv'
<1>1. PICK sides : /\ sides \in Branches(<<All, {}>>)
                   /\ PutsQuery(All, LeftColumns(JoinOnTrue(sides[1], sides[2], "ANTI")))
  BY DEF DuckDBAntiJoinEmptyRoundTripBuilder
<1>2. PICK left, right, type : left = sides[1] /\ right = sides[2] /\ type = "ANTI"
  OBVIOUS
<1>3. PICK joins : joins = JoinOnTrue(left, right, type)
  OBVIOUS
<1>4. catalog \in Catalogs
  BY DEF TreeInv
<1>5. ASSUME NEW J, J \in joins PROVE Select(J, [pair \in DOMAIN J |-> Columns2(pair[1])]) = Base
  <2>1. PICK L \in left, R \in right : J = Joined(L, R, type, Cross(L, R))
    BY <1>3, <1>5, JoinsOnTrueAre
  <2>2. L = Base /\ DOMAIN R = {}
    BY <1>1, <1>2, AllAndNone
  <2>3. Tidy(L) /\ base_items(L) = Base
    BY <1>4, <2>2, BaseIsTidy, BaseItemsOfBase
  <2>4. Cross(L, R) = {}
    BY <2>2, CrossNothing
  <2>5. Cross(L, R) \cap Cross(L, R) = {}
    BY <2>4
  <2>6. J = LeftAlone(L, DOMAIN L)
    BY <1>2, <2>1, <2>5, AntiJoinNothing
  <2> QED
    BY <2>3, <2>6, ColumnsOfAlone
<1>6. \A U \in LeftColumns(joins) : U = Base
  BY <1>4, <1>5, LeftColumnsAreBase
<1>7. PICK results : results = LeftColumns(joins)
  OBVIOUS
<1>8. PutsQuery(All, results)
  BY <1>1, <1>2, <1>3, <1>7
<1> QED
  BY <1>6, <1>7, <1>8, PutAll

\* and so does EXCEPT ALL of no rows.
LEMMA DuckDBExceptAllEmptyTableKeepsRows ==
  ASSUME TreeInv, DuckDBExceptAllEmptyTableRoundTripBuilder
  PROVE  TreeInv'
<1>1. PICK sides : /\ sides \in Branches(<<All, {}>>)
                   /\ \E right \in sides[2] : PutsQuery(All, ExceptAllQuery(sides[1], {right}))
  BY DEF DuckDBExceptAllEmptyTableRoundTripBuilder
<1>2. PICK right \in sides[2] : PutsQuery(All, ExceptAllQuery(sides[1], {right}))
  BY <1>1
<1>3. ASSUME NEW U, U \in ExceptAllQuery(sides[1], {right}) PROVE U = Base
  <2>1. PICK L : L \in sides[1] /\ U = cast_signature(ExceptAll(L, right))
    BY <1>3 DEF ExceptAllQuery
  <2>2. L = Base /\ DOMAIN right = {}
    BY <1>1, <2>1, AllAndNone
  <2> QED
    BY <2>1, <2>2, BaseIsWide, BaseIsTidy, ExceptNothing, CastSignature DEF TreeInv
<1> QED
  BY <1>2, <1>3, PutAll

\* Nothing is as late as what there is none of.
LEMMA DuckDBAsofLeftKeepsRows ==
  ASSUME TreeInv, DuckDBAsofLeftEmptyRoundTripBuilder
  PROVE  TreeInv'
<1>1. PICK sides, temporal :
        /\ sides \in Branches(<<All, {}>>)
        /\ \E left \in sides[1], right \in sides[2] :
             PutsQuery(All, LeftColumns({Joined(left, right, "LEFT OUTER",
               {pair \in Cross(left, right) : pair[1][temporal] >= pair[2][temporal]})}))
  BY DEF DuckDBAsofLeftEmptyRoundTripBuilder
<1>2. PICK left, right :
        /\ left \in sides[1] /\ right \in sides[2]
        /\ PutsQuery(All, LeftColumns({Joined(left, right, "LEFT OUTER",
               {pair \in Cross(left, right) : pair[1][temporal] >= pair[2][temporal]})}))
  BY <1>1
<1>3. catalog \in Catalogs
  BY DEF TreeInv
<1>4. left = Base /\ DOMAIN right = {}
  BY <1>1, <1>2, AllAndNone
<1>5. PICK upto : upto = {pair \in Cross(left, right) : pair[1][temporal] >= pair[2][temporal]}
  OBVIOUS
<1>6. PICK J : J = Joined(left, right, "LEFT OUTER", upto)
  OBVIOUS
<1>7. Cross(left, right) \cap upto = {}
  BY <1>4, CrossNothing
<1>8. Tidy(left) /\ base_items(left) = Base
  BY <1>3, <1>4, BaseIsTidy, BaseItemsOfBase
<1>9. J = LeftAlone(left, DOMAIN left)
  BY <1>6, <1>7, <1>8, LeftJoinNothing
<1>10. Select(J, [pair \in DOMAIN J |-> Columns2(pair[1])]) = Base
  BY <1>8, <1>9, ColumnsOfAlone
<1>11. PICK joins : joins = {J}
  OBVIOUS
<1>12. \A U \in LeftColumns(joins) : U = Base
  BY <1>3, <1>10, <1>11, LeftColumnsAreBase
<1>13. PICK results : results = LeftColumns(joins)
  OBVIOUS
<1>14. PutsQuery(All, results)
  BY <1>2, <1>5, <1>6, <1>11, <1>13
<1> QED
  BY <1>12, <1>13, <1>14, PutAll

\* A macro of a query is the query,
LEMMA DuckDBMacroKeepsPromise ==
  ASSUME TreeInv, DuckDBCreateMacroBuilder
  PROVE  TreeInv'
<1>1. PutsObject("view", FALSE, tree.reads)
  BY DEF DuckDBCreateMacroBuilder, DuckDBCreateMacro, visit_duckdb_macro_object
<1> QED
  BY <1>1, PutViewOf

\* an index changes no row,
LEMMA DuckDBIndexKeepsPromise ==
  ASSUME TreeInv, DuckDBCreateIndexBuilder
  PROVE  TreeInv'
<1>1. PICK body \in tree.reads :
        PutsObject("view", FALSE, visit_duckdb_index_object(DuckDBCreateIndex(FALSE), body))
  BY DEF DuckDBCreateIndexBuilder, DuckDBCreateIndex
<1>2. PICK results : results = visit_duckdb_index_object(DuckDBCreateIndex(FALSE), body)
  OBVIOUS
<1>3. \A R \in results : R = body
  BY <1>2 DEF visit_duckdb_index_object, UniqueIndex
<1>4. PutsObject("view", FALSE, results)
  BY <1>1, <1>2
<1> QED
  BY <1>3, <1>4, PutViewOfBody

\* nor does a unique one on c_pk, which the rows satisfy,
LEMMA DuckDBUniqueIndexMatKeepsPromise ==
  ASSUME TreeInv, DuckDBUniqueIndexMatBuilder
  PROVE  TreeInv'
<1>1. PICK body \in tree.reads :
        PutsObject("view", FALSE, visit_duckdb_index_object(DuckDBCreateIndex(TRUE), body))
  BY DEF DuckDBUniqueIndexMatBuilder, DuckDBCreateIndex
<1>2. PICK results : results = visit_duckdb_index_object(DuckDBCreateIndex(TRUE), body)
  OBVIOUS
<1>3. \A R \in results : R = body
  BY <1>2 DEF visit_duckdb_index_object, UniqueIndex
<1>4. PutsObject("view", FALSE, results)
  BY <1>1, <1>2
<1> QED
  BY <1>3, <1>4, PutViewOfBody

\* and a table in an attached database is the table.
LEMMA DuckDBAttachedDatabaseKeepsPromise ==
  ASSUME TreeInv, DuckDBAttachedDatabaseBuilder
  PROVE  TreeInv'
<1>1. PICK body \in tree.reads :
        PutsObject("view", FALSE, visit_duckdb_attach_object(DuckDBCreateAttach, body))
  BY DEF DuckDBAttachedDatabaseBuilder, DuckDBCreateAttach
<1>2. PICK results : results = visit_duckdb_attach_object(DuckDBCreateAttach, body)
  OBVIOUS
<1>3. \A R \in results : R = body
  BY <1>2 DEF visit_duckdb_attach_object
<1>4. PutsObject("view", FALSE, results)
  BY <1>1, <1>2
<1> QED
  BY <1>3, <1>4, PutViewOfBody

\* A column added and dropped again.
LEMMA AddedAndDropped ==
  ASSUME TreeInv, NEW body \in tree.reads, NEW rows,
         rows = Select(body, [row \in DOMAIN body |-> Append(row, 42)])
  PROVE  Select(rows, [row \in DOMAIN rows |-> SubSeq(row, 1, Len(row) - 1)]) = body
<1>1. PICK f : f = [row \in DOMAIN body |-> Append(row, 42)]
  OBVIOUS
<1>2. PICK g : g = [row \in DOMAIN rows |-> SubSeq(row, 1, Len(row) - 1)]
  OBVIOUS
<1>3. Wide(body)
  BY ReadsAreWide
<1>4. \A row \in DOMAIN body : \E v : f[row] = Append(row, v)
  BY <1>1
<1>5. \A out \in Image(body, f) : g[out] = SubSeq(out, 1, Len(out) - 1)
  BY <1>1, <1>2, SelectDomain
<1>6. Select(Select(body, f), g) = body
  BY <1>3, <1>4, <1>5, AppendedAndLeftOut
<1> QED
  BY <1>1, <1>2, <1>6

\* What DuckDB does to a table by way of its catalog leaves the rows of the table.
LEMMA CatalogObjectIsSame ==
  ASSUME TreeInv, NEW body \in tree.reads, NEW KIND, KIND \in DuckDBCatalogKind \ {"enum_round_trip"}
  PROVE  \A R \in visit_duckdb_catalog_object(DuckDBCreateCatalog(KIND, 0), {body}) : R = body
<1>1. PICK rows : rows = Select(body, [row \in DOMAIN body |-> Append(row, 42)])
  OBVIOUS
<1>2. PICK dropped : dropped = Select(rows, [row \in DOMAIN rows |-> SubSeq(row, 1, Len(row) - 1)])
  OBVIOUS
<1>3. dropped = body
  BY <1>1, <1>2, AddedAndDropped
<1>4. \/ visit_duckdb_catalog_object(DuckDBCreateCatalog(KIND, 0), {body}) = {body}
      \/ visit_duckdb_catalog_object(DuckDBCreateCatalog(KIND, 0), {body}) = {dropped}
  BY <1>1, <1>2 DEF visit_duckdb_catalog_object, DuckDBCreateCatalog, DuckDBCatalogKind
<1> QED
  BY <1>3, <1>4

\* So its catalog objects keep the promise.
LEMMA DuckDBCatalogKeepsPromise ==
  ASSUME TreeInv, DuckDBCatalogObjectBuilder
  PROVE  TreeInv'
<1>1. PICK body \in tree.reads, KIND \in DuckDBCatalogKind \ {"enum_round_trip"} :
        PutsObject("view", FALSE, visit_duckdb_catalog_object(DuckDBCreateCatalog(KIND, 0), {body}))
  BY DEF DuckDBCatalogObjectBuilder, DuckDBCreateCatalog
<1>2. PICK results : results = visit_duckdb_catalog_object(DuckDBCreateCatalog(KIND, 0), {body})
  OBVIOUS
<1>3. \A R \in results : R = body
  BY <1>2, CatalogObjectIsSame
<1>4. PutsObject("view", FALSE, results)
  BY <1>1, <1>2
<1> QED
  BY <1>3, <1>4, PutViewOfBody

\* A label CAST to its type and back.
LEMMA EnumIsSame ==
  ASSUME TreeInv, NEW c \in {1, 2}, NEW labels, NEW body \in tree.reads
  PROVE  \A R \in EnumRoundTrip(c, labels, body) : R = body
<1>1. PICK f : f = [row \in DOMAIN body |-> [row EXCEPT ![c] = CastBack(Retyped(row[c]))]]
  OBVIOUS
<1>2. \A R \in EnumRoundTrip(c, labels, body) : R = Select(body, f)
  BY <1>1 DEF EnumRoundTrip
<1>3. Wide(body)
  BY ReadsAreWide
<1>4. ASSUME NEW row \in DOMAIN body PROVE f[row] = row
  <2>1. row \in AnyRows
    BY <1>3 DEF Wide
  <2>2. row[c] \in Value
    BY <2>1, PlaceInAnyRow
  <2>3. PICK v : v = CastBack(Retyped(row[c]))
    OBVIOUS
  <2>4. v = row[c]
    BY <2>2, <2>3, CastsBack
  <2>5. [row EXCEPT ![c] = v] = row
    BY <2>1, <2>4, ExceptSame
  <2> QED
    BY <1>1, <2>3, <2>5
<1>5. Select(body, f) = body
  BY <1>3, <1>4, SelectOfSame
<1> QED
  BY <1>2, <1>5

\* Cast to an ENUM of its own values and back, a column is as it was: both reads of the query that
\* the type and the view are made of have the same values.
LEMMA DuckDBEnumTypeKeepsPromise ==
  ASSUME TreeInv, DuckDBEnumTypeRoundTripBuilder
  PROVE  TreeInv'
<1>1. PICK c \in FirstOf(OfType({"text"})) :
        PutsObject("view", FALSE, visit_duckdb_catalog_object(DuckDBCreateCatalog("enum_round_trip", c), tree.reads))
  BY DEF DuckDBEnumTypeRoundTripBuilder, DuckDBCreateCatalog
<1>2. PICK results : results = visit_duckdb_catalog_object(DuckDBCreateCatalog("enum_round_trip", c), tree.reads)
  OBVIOUS
<1>3. c \in {1, 2}
  BY TwoColumns DEF TreeInv, FirstOf, OfType
<1>4. ASSUME NEW R \in results PROVE \E labels : \E again \in tree.reads : R \in EnumRoundTrip(c, labels, again)
  <2>1. PICK node : node = DuckDBCreateCatalog("enum_round_trip", c)
    OBVIOUS
  <2>2. node.catalog = "enum_round_trip" /\ node.text_col = c
    BY <2>1 DEF DuckDBCreateCatalog
  <2>3. visit_duckdb_catalog_object(node, tree.reads)
          = UNION {EnumRoundTrip(c, Labels(c, body), again) : body \in tree.reads, again \in tree.reads}
    BY <2>2 DEF visit_duckdb_catalog_object
  <2> QED
    BY <1>2, <2>1, <2>3
<1>5. results \subseteq tree.reads
  BY <1>3, <1>4, EnumIsSame
<1>6. PutsObject("view", FALSE, results)
  BY <1>1, <1>2
<1> QED
  BY <1>5, <1>6, PutViewOf

\* A number among 1 .. n that is not above, or not below, another of them.
LEMMA NotAbove ==
  ASSUME NEW n \in Nat, NEW a \in 1 .. n, NEW b \in 1 .. n, a = b \/ a < b
  PROVE  a \in 1 .. b
OBVIOUS

LEMMA NotBelow ==
  ASSUME NEW n \in Nat, NEW a \in 1 .. n, NEW b \in 1 .. n, a = b \/ b < a
  PROVE  a \in b .. n
OBVIOUS

\* n numbers of 1 .. n, each greater than the one before.
LEMMA Increasing ==
  ASSUME NEW n \in Nat, NEW e \in [1 .. n -> 1 .. n], \A i, j \in 1 .. n : i < j => e[i] < e[j],
         NEW i \in 1 .. n
  PROVE  e[i] = i
<1>1. \A x, y \in 1 .. n : e[x] = e[y] => x = y
  <2>1. ASSUME NEW x \in 1 .. n, NEW y \in 1 .. n, e[x] = e[y] PROVE x = y
    <3>1. e[x] \in Int /\ e[y] \in Int /\ (x < y \/ y < x \/ x = y)
      OBVIOUS
    <3> QED
      BY <2>1, <3>1
  <2> QED
    BY <2>1
<1>2. i <= e[i]
  <2>1. PICK S, T : S = 1 .. i /\ T = 1 .. e[i]
    OBVIOUS
  <2>2. PICK f : f = [x \in S |-> e[x]]
    OBVIOUS
  <2>3. ASSUME NEW x \in S PROVE x \in 1 .. n /\ e[x] \in T
    <3>1. x \in 1 .. n /\ e[x] \in 1 .. n /\ e[i] \in 1 .. n /\ (x = i \/ x < i)
      BY <2>1
    <3>2. e[x] = e[i] \/ e[x] < e[i]
      BY <3>1
    <3>3. e[x] \in 1 .. e[i]
      BY <3>1, <3>2, NotAbove
    <3> QED
      BY <2>1, <3>1, <3>3
  <2>4. f \in [S -> T] /\ \A x, y \in S : f[x] = f[y] => x = y
    BY <1>1, <2>2, <2>3
  <2>5. f \in Injection(S, T)
    BY <2>4 DEF Injection, IsInjective
  <2>6. IsFiniteSet(T) /\ Cardinality(T) = e[i] /\ Cardinality(S) = i
    BY <2>1, UpTo
  <2> QED
    BY <2>5, <2>6, FS_Injection
<1>3. e[i] <= i
  <2>1. PICK S, T : S = i .. n /\ T = e[i] .. n
    OBVIOUS
  <2>2. PICK f : f = [x \in S |-> e[x]]
    OBVIOUS
  <2>3. ASSUME NEW x \in S PROVE x \in 1 .. n /\ e[x] \in T
    <3>1. x \in 1 .. n /\ (i = x \/ i < x)
      BY <2>1
    <3>2. e[x] \in 1 .. n /\ e[i] \in 1 .. n /\ (e[x] = e[i] \/ e[i] < e[x])
      BY <3>1
    <3>3. e[x] \in e[i] .. n
      BY <3>2, NotBelow
    <3> QED
      BY <2>1, <3>1, <3>3
  <2>4. f \in [S -> T] /\ \A x, y \in S : f[x] = f[y] => x = y
    BY <1>1, <2>2, <2>3
  <2>5. f \in Injection(S, T)
    BY <2>4 DEF Injection, IsInjective
  <2>6. IsFiniteSet(T) /\ Cardinality(T) = n - e[i] + 1 /\ Cardinality(S) = n - i + 1
    <3>1. i \in Int /\ n \in Int /\ e[i] \in Int /\ ~ (i > n) /\ ~ (e[i] > n)
      OBVIOUS
    <3>2. IsFiniteSet(e[i] .. n) /\ Cardinality(e[i] .. n) = n - e[i] + 1
      BY <3>1, FS_Interval
    <3>3. Cardinality(i .. n) = n - i + 1
      BY <3>1, FS_Interval
    <3> QED
      BY <2>1, <3>2, <3>3
  <2>7. Cardinality(S) <= Cardinality(T)
    BY <2>5, <2>6, FS_Injection
  <2> QED
    BY <2>6, <2>7
<1> QED
  BY <1>2, <1>3

\* Ordered by their keys, the rows of a keyed table stand where their keys say.
LEMMA PositionsAre ==
  ASSUME NEW rows, NEW K, KeyedRows(rows, K), K = SetToBag(DOMAIN K), Total(rows) \in Nat,
         NEW l, l \in Positions(K), NEW i \in 1 .. Total(rows)
  PROVE  DOMAIN l = 1 .. Total(rows) /\ l[i] \in DOMAIN K /\ Extra(l[i]) = i
<1>1. PICK n, D : n = Total(rows) /\ D = DOMAIN K
  OBVIOUS
<1>2. Total(K) = n
  BY <1>1, AsManyRows
<1>3. /\ l \in [1 .. n -> D]
      /\ \A row \in D : Cardinality({x \in DOMAIN l : l[x] = row}) = K[row]
      /\ \A x, y \in DOMAIN l : x < y => Extra(l[x]) <= Extra(l[y])
  BY <1>1, <1>2 DEF Positions
<1>4. DOMAIN l = 1 .. n
  BY <1>3
<1>5. PICK e : e = [x \in 1 .. n |-> Extra(l[x])]
  OBVIOUS
<1>6. e \in [1 .. n -> 1 .. n]
  BY <1>1, <1>3, <1>5 DEF KeyedRows
<1>7. ASSUME NEW x \in 1 .. n, NEW y \in 1 .. n, l[x] = l[y] PROVE x = y
  <2>1. PICK row : row = l[x]
    OBVIOUS
  <2>2. row \in D
    BY <1>3, <2>1
  <2>3. K[row] = 1
    BY <1>1, <2>2, SetAt
  <2>4. PICK S : S = {z \in DOMAIN l : l[z] = row}
    OBVIOUS
  <2>5. Cardinality(S) = 1
    BY <1>3, <2>2, <2>3, <2>4
  <2>6. IsFiniteSet(S)
    <3>1. IsFiniteSet(DOMAIN l)
      BY <1>1, <1>4, UpTo
    <3> QED
      BY <2>4, <3>1, FS_Subset
  <2>7. x \in S /\ y \in S
    BY <1>4, <1>7, <2>1, <2>4
  <2> QED
    BY <2>5, <2>6, <2>7, FS_Singleton
<1>8. ASSUME NEW x \in 1 .. n, NEW y \in 1 .. n, x < y PROVE e[x] < e[y]
  <2>1. e[x] <= e[y] /\ e[x] \in Int /\ e[y] \in Int
    BY <1>3, <1>4, <1>5, <1>6, <1>8
  <2>2. e[x] # e[y]
    <3>1. SUFFICES ASSUME e[x] = e[y] PROVE FALSE
      OBVIOUS
    <3>2. l[x] \in D /\ l[y] \in D
      BY <1>3
    <3>3. Extra(l[x]) = Extra(l[y])
      BY <1>5, <3>1
    <3>4. l[x] = l[y]
      BY <1>1, <3>2, <3>3 DEF KeyedRows
    <3>5. x = y
      BY <1>7, <3>4
    <3> QED
      BY <1>8, <3>5
  <2> QED
    BY <2>1, <2>2
<1>9. n \in Nat /\ i \in 1 .. n
  BY <1>1
<1>10. e[i] = i
  BY <1>6, <1>8, <1>9, Increasing
<1> QED
  BY <1>1, <1>3, <1>4, <1>5, <1>9, <1>10

\* The halves of a keyed table, numbered in the order of the key and joined by position, are the
\* base table.
LEMMA JoinedByPosition ==
  ASSUME TreeInv, NEW K, KeyedRows(Base, K), K = SetToBag(DOMAIN K),
         NEW l, l \in Positions(K), NEW r, r \in Positions(K)
  PROVE  JoinedAt(l, r) = Base
<1>1. PICK n, D, I : n = Total(Base) /\ D = DOMAIN K /\ I = 1 .. n
  OBVIOUS
<1>2. n \in Nat
  BY <1>1, BaseIsSmall DEF TreeInv
<1>3. ASSUME NEW i \in I
      PROVE  DOMAIN l = I /\ l[i] \in D /\ Extra(l[i]) = i /\ r[i] = l[i]
  <2>1. DOMAIN l = I /\ l[i] \in D /\ Extra(l[i]) = i
    BY <1>1, <1>2, PositionsAre
  <2>2. r[i] \in D /\ Extra(r[i]) = i
    BY <1>1, <1>2, PositionsAre
  <2> QED
    BY <1>1, <2>1, <2>2 DEF KeyedRows
<1>4. DOMAIN l = I
  <2>1. Total(K) = n
    BY <1>1, AsManyRows
  <2> QED
    BY <1>1, <2>1 DEF Positions
<1>5. PICK branches : branches = [i \in DOMAIN l |-> SetToBag({<<l[i][1], r[i][2]>>})]
  OBVIOUS
<1>6. PICK f, g : f = [row \in D |-> Columns2(row)] /\ g = [row \in D |-> Extra(row)]
  OBVIOUS
<1>7. g \in [D -> I]
  BY <1>1, <1>6 DEF KeyedRows
<1>8. ASSUME NEW i \in I PROVE branches[i] = Select(Where(K, {row \in DOMAIN K : g[row] = i}), f)
  <2>1. PICK one : one = l[i]
    OBVIOUS
  <2>2. one \in D /\ Extra(one) = i /\ r[i] = one
    BY <1>3, <2>1
  <2>3. {row \in DOMAIN K : g[row] = i} = {one}
    BY <1>1, <1>6, <2>2 DEF KeyedRows
  <2>4. Where(K, {one}) = SetToBag({one})
    <3>1. D \cap {one} = {one}
      BY <2>2
    <3> QED
      BY <1>1, <3>1, WhereOfSet
  <2>5. one \in AnyRows
    BY <1>1, <2>2 DEF KeyedRows, Wide
  <2>6. Columns2(one) = <<one[1], one[2]>>
    BY <2>5, ColumnsAre
  <2>7. Select(SetToBag({one}), f) = SetToBag({f[one]})
    <3>1. PICK S, h : S = {one} /\ h = [x \in {one} |-> f[x]]
      OBVIOUS
    <3>2. IsFiniteSet(S) /\ DOMAIN h = S /\ \A x, y \in S : h[x] = h[y] => x = y
      BY <3>1, FS_Singleton
    <3>3. Select(SetToBag(S), h) = SetToBag({h[x] : x \in S})
      BY <3>2, SelectDistinct
    <3>4. {h[x] : x \in S} = {f[one]}
      BY <3>1
    <3>5. Select(SetToBag(S), f) = Select(SetToBag(S), h)
      <4>1. DOMAIN SetToBag(S) = S
        BY <3>2, SetIsTidy
      <4>2. \A x \in DOMAIN SetToBag(S) : f[x] = h[x]
        BY <3>1, <4>1
      <4> QED
        BY <4>2, SelectAgrees
    <3> QED
      BY <3>1, <3>3, <3>4, <3>5
  <2>8. f[one] = <<one[1], one[2]>>
    BY <1>6, <2>2, <2>6
  <2>9. branches[i] = SetToBag({<<one[1], one[2]>>})
    BY <1>4, <1>5, <2>1, <2>2
  <2> QED
    BY <2>3, <2>4, <2>7, <2>8, <2>9
<1>9. UnionAll(branches) = Select(K, f)
  <2>1. Tidy(K) /\ DOMAIN branches = I /\ DOMAIN K = D
    BY <1>1, <1>4, <1>5 DEF KeyedRows, Wide
  <2> QED
    BY <1>7, <1>8, <2>1, UnionOfParts
<1>10. Select(K, f) = Base
  BY <1>1, <1>6, KeyedBaseItems DEF base_items
<1> QED
  BY <1>5, <1>9, <1>10 DEF JoinedAt

\* A POSITIONAL JOIN of the two halves keeps the rows.
LEMMA DuckDBPositionalJoinKeepsRows ==
  ASSUME TreeInv, DuckDBPositionalJoinRoundTripBuilder
  PROVE  TreeInv'
<1>1. materialize_row_key /\ PutsQuery(All, DuckDBPositionalJoinQuery(tree.reads))
  BY DEF DuckDBPositionalJoinRoundTripBuilder
<1>2. PICK K : tree.reads = {K} /\ KeyedRows(Base, K) /\ K = SetToBag(DOMAIN K)
  BY <1>1, KeyedSource
<1>3. ASSUME NEW U, U \in DuckDBPositionalJoinQuery(tree.reads) PROVE U = Base
  <2>1. PICK l, r : /\ l \in Positions(K) /\ r \in Positions(K)
                    /\ U = JoinedAt(l, r)
    <3>1. PICK L \in tree.reads, R \in tree.reads : U \in visit_duckdb_positional_join_query(L, R)
      BY <1>3 DEF DuckDBPositionalJoinQuery
    <3>2. L = K /\ R = K
      BY <1>2
    <3>3. U \in visit_duckdb_positional_join_query(K, K)
      BY <3>1, <3>2
    <3> QED
      BY <3>3 DEF visit_duckdb_positional_join_query
  <2> QED
    BY <1>2, <2>1, JoinedByPosition
<1> QED
  BY <1>1, <1>3, PutAll

\* No table reaches the bound.
LEMMA DuckDBRowNumberBoundKeepsRows ==
  ASSUME TreeInv, DuckDBRowNumberBoundQualifyBuilder
  PROVE  TreeInv'
<1>1. PICK results : results = {base_items(Where(R, {row \in DOMAIN R : Extra(row) <= ROW_NUMBER_BOUND})) :
                                  R \in SelectNumbered(tree.reads)}
  OBVIOUS
<1>2. dispatch_source /\ PutsQuery(All, results)
  BY <1>1 DEF DuckDBRowNumberBoundQualifyBuilder
<1>3. ASSUME NEW N \in SelectNumbered(tree.reads)
      PROVE  base_items(Where(N, {row \in DOMAIN N : Extra(row) <= ROW_NUMBER_BOUND})) = Base
  <2>1. N \in Numbered(Base)
    BY <1>2, SourcesAreBase DEF SelectNumbered
  <2>2. KeyedRows(Base, N) /\ N = SetToBag(DOMAIN N)
    BY <2>1, NumberedIsKeyed DEF TreeInv
  <2>3. Total(Base) \in Nat /\ Total(Base) <= ROW_NUMBER_BOUND
    BY BaseIsSmall, BoundAssumption DEF TreeInv, Base
  <2>4. \A row \in DOMAIN N : Extra(row) <= ROW_NUMBER_BOUND
    BY <2>2, <2>3 DEF KeyedRows, ROW_NUMBER_BOUND
  <2>5. PICK kept : kept = {row \in DOMAIN N : Extra(row) <= ROW_NUMBER_BOUND}
    OBVIOUS
  <2>6. DOMAIN N \subseteq kept
    BY <2>4, <2>5
  <2>7. Where(N, kept) = N
    BY <2>2, <2>6, WhereAll DEF KeyedRows, Wide
  <2> QED
    BY <2>2, <2>5, <2>7, KeyedBaseItems
<1>4. \A R \in results : R = Base
  BY <1>1, <1>3
<1> QED
  BY <1>2, <1>4, PutAll

\* A recursive CTE that adds nothing has the rows it starts from.
LEMMA DuckDBRecursiveCteKeepsRows ==
  ASSUME TreeInv, DuckDBRecursiveCteIdentityBuilder
  PROVE  TreeInv'
<1>1. PICK results : results = {UnionAll(<<R, Where(R, {})>>) : R \in tree.reads}
  OBVIOUS
<1>2. AsksRows(All) /\ PutsQuery(All, results)
  BY <1>1 DEF DuckDBRecursiveCteIdentityBuilder, DuckDBRecursiveCteQuery, AsksRelation
<1>3. UnionAll(<<Base, Where(Base, {})>>) = Base
  BY BaseIsTidy, UnionWithNothing DEF TreeInv
<1>4. \A R \in results : R = Base
  BY <1>1, <1>2, <1>3, AllIsBase
<1> QED
  BY <1>2, <1>4, PutAll

\* SELECT * REPLACE of each column by itself is the row.
LEMMA DuckDBStarReplaceKeepsRows ==
  ASSUME TreeInv, DuckDBStarReplaceIdentityBuilder
  PROVE  TreeInv'
<1>1. PICK results : results = {Select(R, [row \in DOMAIN R |-> [row EXCEPT ![1] = row[1]]]) : R \in tree.reads}
  OBVIOUS
<1>2. AsksRows(All) /\ PutsQuery(All, results)
  BY <1>1 DEF DuckDBStarReplaceIdentityBuilder, DuckDBStarReplaceQuery, AsksRelation
<1>3. Select(Base, [row \in DOMAIN Base |-> [row EXCEPT ![1] = row[1]]]) = Base
  <2>1. PICK f : f = [row \in DOMAIN Base |-> [row EXCEPT ![1] = row[1]]]
    OBVIOUS
  <2>2. Wide(Base)
    BY BaseIsWide DEF TreeInv
  <2>3. ASSUME NEW row \in DOMAIN Base PROVE f[row] = row
    <3>1. row = [i \in DOMAIN row |-> row[i]]
      BY <2>2, PlaceInAnyRow DEF Wide
    <3> QED
      BY <2>1, <3>1
  <2>4. Select(Base, f) = Base
    BY <2>2, <2>3, SelectOfSame
  <2> QED
    BY <2>1, <2>4
<1>4. \A R \in results : R = Base
  BY <1>1, <1>2, <1>3, AllIsBase
<1> QED
  BY <1>2, <1>4, PutAll

\* The first row of a group of one.
LEMMA PivotIsBase ==
  ASSUME TreeInv, HasPk, NEW K, K = {row[1] : row \in All}, NEW one, one \in [K -> All],
         \A k \in K : one[k][1] = k
  PROVE  SetToBag({<<k, one[k][2]>> : k \in K}) = Base
<1>1. \A row, other \in All : row[1] = other[1] => row = other
  BY PkIsWhole
<1>2. \A row \in All : row = <<row[1], row[2]>>
  BY BaseIsWide, RowsOfTwo DEF TreeInv, All
<1>3. \A row \in All : row[1] \in K /\ one[row[1]] = row
  BY <1>1
<1>4. \A k \in K : one[k] \in All /\ <<k, one[k][2]>> = one[k]
  BY <1>2
<1>5. {<<k, one[k][2]>> : k \in K} = All
  <2>1. \A row \in All : row \in {<<k, one[k][2]>> : k \in K}
    BY <1>3, <1>4
  <2>2. \A row \in {<<k, one[k][2]>> : k \in K} : row \in All
    BY <1>4
  <2> QED
    BY <2>1, <2>2
<1>6. Tidy(Base)
  BY BaseIsTidy DEF TreeInv
<1>7. PICK S : S = SetToBag(All)
  OBVIOUS
<1>8. Tidy(S) /\ DOMAIN S = DOMAIN Base
  BY <1>6, <1>7, SetIsTidy DEF Tidy, All
<1>9. ASSUME NEW row \in DOMAIN S PROVE S[row] = Base[row]
  <2>1. row \in All
    BY <1>8 DEF All
  <2>2. Base[row] = 1
    BY <2>1, PkIsWhole
  <2> QED
    BY <1>7, <2>1, <2>2, SetAt
<1>10. S = Base
  BY <1>6, <1>8, <1>9, SameBag
<1> QED
  BY <1>5, <1>7, <1>10

\* A PIVOT on the key has one row for each, from which the struct gives the row back.
LEMMA DuckDBPivotStructKeepsRows ==
  ASSUME TreeInv, DuckDBPivotStructRoundTripBuilder
  PROVE  TreeInv'
<1>1. HasPk /\ AsksRows(All) /\ PutsQuery(All, DuckDBPivotStructQuery(tree.reads))
  BY DEF DuckDBPivotStructRoundTripBuilder, AsksRelation
<1> DEFINE K(R) == {row[1] : row \in DOMAIN R}
           First(R) == {one \in [K(R) -> DOMAIN R] : \A k \in K(R) : one[k][1] = k}
<1>2. ASSUME NEW U, U \in DuckDBPivotStructQuery(tree.reads) PROVE U = Base
  <2>1. PICK R \in tree.reads : U \in {SetToBag({<<k, one[k][2]>> : k \in K(R)}) : one \in First(R)}
    BY <1>2 DEF DuckDBPivotStructQuery
  <2>2. R = Base
    BY <1>1, AllIsBase
  <2> HIDE DEF First
  <2>3. PICK one : one \in First(R) /\ U = SetToBag({<<k, one[k][2]>> : k \in K(R)})
    BY <2>1
  <2>4. PICK keys_ : keys_ = K(R)
    OBVIOUS
  <2>5. keys_ = {row[1] : row \in All} /\ one \in [keys_ -> All] /\ \A k \in keys_ : one[k][1] = k
    BY <2>2, <2>3, <2>4 DEF First, All
  <2>6. SetToBag({<<k, one[k][2]>> : k \in keys_}) = Base
    BY <1>1, <2>5, PivotIsBase
  <2> QED
    BY <2>3, <2>4, <2>6
<1> QED
  BY <1>1, <1>2, PutAll

\* What each value is packed into gives it back: a list,
LEMMA DuckDBListPackKeepsRows ==
  ASSUME TreeInv, DuckDBListPackRoundTripBuilder
  PROVE  TreeInv'
<1>1. PICK rewrite : rewrite = [v \in ColumnValues |-> <<v>>[1]]
  OBVIOUS
<1>2. ASSUME NEW v \in ColumnValues PROVE rewrite[v] = v
  <2>1. PICK one : one = <<v>>
    OBVIOUS
  <2>2. 1 \in DOMAIN one /\ one[1] = v
    BY <2>1
  <2> QED
    BY <1>1, <2>1, <2>2
<1>3. dispatch_source /\ PutsQuery(All, {EachColumn(R, rewrite) : R \in tree.reads})
  BY <1>1 DEF DuckDBListPackRoundTripBuilder
<1> QED
  BY <1>2, <1>3, EachColumnKeepsRows

\* a list transformed by the identity,
LEMMA DuckDBListTransformKeepsRows ==
  ASSUME TreeInv, DuckDBListTransformRoundTripBuilder
  PROVE  TreeInv'
<1>1. PICK rewrite : rewrite = [v \in ColumnValues |-> [i \in DOMAIN <<v>> |-> <<v>>[i]][1]]
  OBVIOUS
<1>2. ASSUME NEW v \in ColumnValues PROVE rewrite[v] = v
  <2>1. PICK one : one = <<v>>
    OBVIOUS
  <2>2. 1 \in DOMAIN one /\ one[1] = v
    BY <2>1
  <2> QED
    BY <1>1, <2>1, <2>2
<1>3. dispatch_source /\ PutsQuery(All, {EachColumn(R, rewrite) : R \in tree.reads})
  BY <1>1 DEF DuckDBListTransformRoundTripBuilder
<1> QED
  BY <1>2, <1>3, EachColumnKeepsRows

\* a list filtered by what is always true,
LEMMA DuckDBListFilterKeepsRows ==
  ASSUME TreeInv, DuckDBListFilterRoundTripBuilder
  PROVE  TreeInv'
<1>1. PICK rewrite : rewrite = [v \in ColumnValues |-> [i \in {j \in DOMAIN <<v>> : 1 = 1} |-> <<v>>[i]][1]]
  OBVIOUS
<1>2. ASSUME NEW v \in ColumnValues PROVE rewrite[v] = v
  <2>1. PICK one : one = <<v>>
    OBVIOUS
  <2>2. 1 \in DOMAIN one /\ one[1] = v
    BY <2>1
  <2> QED
    BY <1>1, <2>1, <2>2
<1>3. dispatch_source /\ PutsQuery(All, {EachColumn(R, rewrite) : R \in tree.reads})
  BY <1>1 DEF DuckDBListFilterRoundTripBuilder
<1> QED
  BY <1>2, <1>3, EachColumnKeepsRows

\* a map
LEMMA DuckDBMapPackKeepsRows ==
  ASSUME TreeInv, DuckDBMapPackRoundTripBuilder
  PROVE  TreeInv'
<1>1. PICK rewrite : rewrite = [v \in ColumnValues |-> [k \in {"k"} |-> v]["k"]]
  OBVIOUS
<1>2. ASSUME NEW v \in ColumnValues PROVE rewrite[v] = v
  <2>1. PICK one : one = <<v>>
    OBVIOUS
  <2>2. 1 \in DOMAIN one /\ one[1] = v
    BY <2>1
  <2> QED
    BY <1>1, <2>1, <2>2
<1>3. dispatch_source /\ PutsQuery(All, {EachColumn(R, rewrite) : R \in tree.reads})
  BY <1>1 DEF DuckDBMapPackRoundTripBuilder
<1> QED
  BY <1>2, <1>3, EachColumnKeepsRows

\* and a struct.
LEMMA DuckDBStructPackKeepsRows ==
  ASSUME TreeInv, DuckDBStructPackRoundTripBuilder
  PROVE  TreeInv'
<1> DEFINE packed(R) == Select(R, [row \in DOMAIN R |-> [s |-> row]])
           fields(V) == Select(V, [struct \in DOMAIN V |-> <<struct.s[1], struct.s[2]>>])
<1>1. PICK results : results = {fields(packed(R)) : R \in tree.reads}
  OBVIOUS
<1>2. dispatch_source /\ PutsQuery(All, results)
  BY <1>1 DEF DuckDBStructPackRoundTripBuilder
<1>3. fields(packed(Base)) = Base
  <2>1. PICK f : f = [row \in DOMAIN Base |-> [s |-> row]]
    OBVIOUS
  <2>2. PICK V : V = Select(Base, f)
    OBVIOUS
  <2>3. PICK g : g = [struct \in DOMAIN V |-> <<struct.s[1], struct.s[2]>>]
    OBVIOUS
  <2>4. Wide(Base) /\ DOMAIN Base \subseteq Rows2
    BY BaseIsWide DEF TreeInv
  <2>5. ASSUME NEW row \in DOMAIN Base PROVE g[f[row]] = row
    <3>1. row = <<row[1], row[2]>>
      BY <2>4, RowsOfTwo
    <3>2. f[row] \in DOMAIN V
      BY <2>2, SelectDomain, ImageIs
    <3>3. f[row].s = row
      BY <2>1
    <3>4. g[f[row]] = <<f[row].s[1], f[row].s[2]>>
      BY <2>3, <3>2
    <3> QED
      BY <3>1, <3>3, <3>4
  <2>6. Select(Select(Base, f), g) = Base
    BY <2>4, <2>5, PackedAndUnpacked
  <2> QED
    BY <2>1, <2>2, <2>3, <2>6
<1>4. \A R \in results : R = Base
  BY <1>1, <1>2, <1>3, SourcesAreBase
<1> QED
  BY <1>2, <1>4, PutAll

\* DuckDB's builders keep the promise.
LEMMA DuckDBKeepsPromise ==
  ASSUME TreeInv, DuckDBBuilders
  PROVE  TreeInv'
  BY DuckDBAntiJoinKeepsRows, DuckDBExceptAllEmptyTableKeepsRows, DuckDBAsofLeftKeepsRows,
     DuckDBMacroKeepsPromise, DuckDBIndexKeepsPromise, DuckDBUniqueIndexMatKeepsPromise,
     DuckDBAttachedDatabaseKeepsPromise, DuckDBCatalogKeepsPromise, DuckDBEnumTypeKeepsPromise,
     DuckDBPositionalJoinKeepsRows, DuckDBRowNumberBoundKeepsRows, DuckDBRecursiveCteKeepsRows,
     DuckDBStarReplaceKeepsRows, DuckDBPivotStructKeepsRows, DuckDBListPackKeepsRows,
     DuckDBListTransformKeepsRows, DuckDBListFilterKeepsRows, DuckDBMapPackKeepsRows,
     DuckDBStructPackKeepsRows
     DEF DuckDBBuilders

-----------------------------------------------------------------------------
(* Every builder, and the theorems.                                        *)

\* A query node keeps the promise of its subtree.
LEMMA QueriesKeepPromise ==
  ASSUME TreeInv, Queries
  PROVE  TreeInv'
  BY SelectStarKeepsRows, ExplicitProjectionKeepsRows, CteKeepsRows, LateralReprojectKeepsRows,
     AddDropColumnKeepsRows, QualifyKeepsRows, OrderedScanKeepsRows, ProjectionKeepsPromise,
     EetCaseColumnKeepsRows, EetDeterminedFilterKeepsRows, CodecRoundTripKeepsRows,
     WindowRewriteKeepsRows, PartitionUnionKeepsRows, TlpPartitionUnionKeepsRows,
     RankModUnionKeepsRows, UnionEmptyKeepsRows, ExceptEmptyKeepsRows, IntersectSelfKeepsRows,
     DistinctUnionKeepsRows, DistinctAsGroupByKeepsRows, LeftJoinEmptyKeepsRows,
     SemiJoinFlagKeepsRows, FlagTableJoinKeepsRows, SequenceOuterJoinKeepsRows,
     CrossJoinFilterKeepsRows
     DEF Queries

\* So does a table or view made of a query.
LEMMA ObjectsKeepPromise ==
  ASSUME TreeInv, Objects
  PROVE  TreeInv'
  BY CreateViewKeepsPromise, CreateTableKeepsPromise, CreateTemporaryViewKeepsPromise,
     CreateTemporaryTableKeepsPromise, CreateMaterializedViewKeepsPromise,
     DeleteReinsertKeepsRows, NoopUpdateKeepsRows
     DEF Objects

\* So does an expansion, and what takes it away again.
LEMMA ExpansionsKeepPromise ==
  ASSUME TreeInv, Expansions
  PROVE  TreeInv'
  BY TagExplodeKeepsTags, TagInsertExtrasKeepsTags, TagPruneDeleteKeepsRows,
     TagPruneFilterKeepsRows, KeyExplodeKeepsKeys, KeyInsertExtrasKeepsKeys,
     KeyDistinctKeepsRows, KeyGroupAggregateKeepsRows, KeyWindowAggregateKeepsRows,
     KeyQualifyDedupKeepsRows
     DEF Expansions

\* Every portable builder keeps the promise,
LEMMA PortableKeepsPromise ==
  ASSUME TreeInv, Portable
  PROVE  TreeInv'
  BY QueriesKeepPromise, ObjectsKeepPromise, ExpansionsKeepPromise DEF Portable

\* and every builder of an engine's own.
LEMMA DialectKeepsPromise ==
  ASSUME TreeInv, Dialect
  PROVE  TreeInv'
  BY PostgresKeepsPromise, SqliteKeepsPromise, DuckDBKeepsPromise, ClickHouseKeepsPromise,
     CrateDBKeepsPromise, MySQLKeepsPromise DEF Dialect

\* The base table itself is the first subtree.
LEMMA InitKeepsPromise ==
  ASSUME Init
  PROVE  TreeInv
<1>1. catalog \in Catalogs /\ tree = BaseTableSource
  BY DEF Init
<1>2. Where(Base, All) = Base
  BY <1>1, BaseWhere
<1>3. ReadOf(Base, "rows", All, Base)
  BY <1>2 DEF ReadOf
<1>4. GoodTree(Base, tree)
  BY <1>1, <1>3 DEF GoodTree, BaseTableSource, All
<1> QED
  BY <1>1, <1>4 DEF TreeInv, Base

\* Every step keeps the promise.
LEMMA NextKeepsPromise ==
  ASSUME TreeInv, [Next]_vars
  PROVE  TreeInv'
<1>1. CASE Portable
  BY <1>1, PortableKeepsPromise
<1>2. CASE Dialect
  BY <1>2, DialectKeepsPromise
<1>3. CASE UNCHANGED vars
  BY <1>3 DEF vars, TreeInv
<1> QED
  BY <1>1, <1>2, <1>3 DEF Next

\* However deep the builders are stacked, every subtree keeps its promise.
THEOREM TreesKeepPromise == Spec => []TreeInv
<1>1. Init => TreeInv
  BY InitKeepsPromise
<1>2. TreeInv /\ [Next]_vars => TreeInv'
  BY NextKeepsPromise
<1> QED
  BY <1>1, <1>2, PTL DEF Spec

\* Whatever builders were stacked in whatever order, every read of the subtree returns exactly the
\* rows of the base table that its request asks for, each as often: the promise dispatch_source,
\* dispatch_view and dispatch_table rely on at the next level.
THEOREM EveryRewriteKeepsRows == Spec => []RowsKept
<1>1. TreeInv => RowsKept
  BY DEF TreeInv, GoodTree, ReadOf, RowsKept, Base
<1> QED
  BY <1>1, TreesKeepPromise, PTL

\* As many row numbers as rows, when they tell the rows apart.
LEMMA AsManyKeys ==
  ASSUME NEW R, IsFiniteSet(DOMAIN R),
         \A row, other \in DOMAIN R : Extra(row) = Extra(other) => row = other
  PROVE  Cardinality({Extra(row) : row \in DOMAIN R}) = Cardinality(DOMAIN R)
<1> DEFINE Keys == {Extra(row) : row \in DOMAIN R}
           f == [row \in DOMAIN R |-> Extra(row)]
<1>1. f \in Surjection(DOMAIN R, Keys) /\ f \in Injection(DOMAIN R, Keys)
  BY DEF Surjection, Injection, IsInjective
<1>2. ExistsBijection(DOMAIN R, Keys)
  BY <1>1 DEF ExistsBijection, Bijection
<1>3. Cardinality(Keys) = Cardinality(DOMAIN R)
  BY <1>2, FS_Bijection
<1> QED
  BY <1>3

\* A row number tells the rows apart and stays with its row, through expansions too: what the
\* builders that ask for materialize_row_key rely on.
THEOREM RowNumbersTellApart == Spec => []KeysTellRowsApart
<1>1. ASSUME TreeInv, NEW R \in tree.reads, tree.shape \in {"keyed", "key"}
      PROVE  /\ Cardinality({Extra(row) : row \in DOMAIN R}) = Cardinality(DOMAIN R)
             /\ base_items(SetToBag(DOMAIN R)) = Where(Base, tree.kept)
             /\ tree.shape = "keyed" => \A row \in DOMAIN R : R[row] = 1
  <2>1. ReadOf(Base, tree.shape, tree.kept, R) /\ tree.kept = All /\ catalog \in Catalogs
    BY <1>1 DEF TreeInv, GoodTree, Base, All
  <2>2. KeyedRows(Base, R)
    BY <2>1, <1>1 DEF ReadOf
  <2>3. IsFiniteSet(DOMAIN R) /\ \A row, other \in DOMAIN R : Extra(row) = Extra(other) => row = other
    BY <2>2 DEF KeyedRows, Wide, Tidy
  <2>4. Cardinality({Extra(row) : row \in DOMAIN R}) = Cardinality(DOMAIN R)
    BY <2>3, AsManyKeys
  <2>5. base_items(SetToBag(DOMAIN R)) = Base
    BY <2>2 DEF KeyedRows
  <2>6. Where(Base, tree.kept) = Base
    BY <2>1, BaseWhere
  <2>7. ASSUME tree.shape = "keyed" PROVE \A row \in DOMAIN R : R[row] = 1
    <3>1. R = SetToBag(DOMAIN R)
      BY <2>1, <2>7 DEF ReadOf
    <3>2. \A row \in DOMAIN R : SetToBag(DOMAIN R)[row] = 1
      BY SetAt
    <3> QED
      BY <3>1, <3>2
  <2> QED
    BY <2>4, <2>5, <2>6, <2>7
<1>2. TreeInv => KeysTellRowsApart
  BY <1>1 DEF KeysTellRowsApart
<1> QED
  BY <1>2, TreesKeepPromise, PTL

\* What is tagged to be kept is the base table, however often an expansion was extended.
THEOREM TaggedRowsStayMarked == Spec => []TaggedRowsKept
<1>1. TreeInv => TaggedRowsKept
  BY DEF TreeInv, GoodTree, ReadOf, TaggedRows, TaggedRowsKept, Base
<1> QED
  BY <1>1, TreesKeepPromise, PTL

\* What AcceptsDmlConstraint was met by is read the same by every reader.
THEOREM WritableIsReadAlike == Spec => []WritableReadsAgree
<1>1. TreeInv => WritableReadsAgree
  BY FS_Singleton DEF TreeInv, GoodTree, WritableReadsAgree
<1> QED
  BY <1>1, TreesKeepPromise, PTL
=============================================================================
