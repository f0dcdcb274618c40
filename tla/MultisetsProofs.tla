-------------------------- MODULE MultisetsProofs --------------------------
(***************************************************************************)
(* The oracle is right about results of any length: compare_multisets      *)
(* passes no mismatch, makes none up as long as agreement is transitive,   *)
(* and reports exactly the rows it cannot account for.  Behind all three   *)
(* is a pairing of the rows that no variable of the program holds: each    *)
(* turn of a loop pairs off the rows it consumes.                          *)
(***************************************************************************)
EXTENDS Multisets, FiniteSetTheorems, TLAPS

\* The numbers up to n are n.
LEMMA UpTo == \A n \in Nat : IsFiniteSet(1..n) /\ Cardinality(1..n) = n
<1> SUFFICES ASSUME NEW n \in Nat
             PROVE  IsFiniteSet(1..n) /\ Cardinality(1..n) = n
  OBVIOUS
<1>1. IsFiniteSet(1..n) /\ Cardinality(1..n) = IF 1 > n THEN 0 ELSE n - 1 + 1
  BY FS_Interval
<1> QED
  BY <1>1

\* Taking a part out of a finite set, and adding what it does not have.
LEMMA SetsAddUp ==
  ASSUME NEW S, IsFiniteSet(S), NEW T, IsFiniteSet(T)
  PROVE  /\ Cardinality(S) \in Nat /\ Cardinality(T) \in Nat
         /\ T \subseteq S => Cardinality(S \ T) = Cardinality(S) - Cardinality(T)
         /\ S \cap T = {} =>
              Cardinality(S \cup T) = Cardinality(S) + Cardinality(T)
<1>1. Cardinality(S) \in Nat /\ Cardinality(T) \in Nat
  BY FS_CardinalityType
<1>2. ASSUME T \subseteq S
      PROVE  Cardinality(S \ T) = Cardinality(S) - Cardinality(T)
  <2>1. S \cap T = T
    BY <1>2
  <2> QED
    BY <2>1, FS_Difference
<1>3. ASSUME S \cap T = {}
      PROVE  Cardinality(S \cup T) = Cardinality(S) + Cardinality(T)
  <2>1. Cardinality(S \cup T) = Cardinality(S) + Cardinality(T) - 0
    BY <1>3, FS_Union, FS_EmptySet
  <2> QED
    BY <2>1, <1>1
<1> QED
  BY <1>1, <1>2, <1>3

\* What the proofs use of the tolerance.
LEMMA CloseLaws ==
  /\ \A a \in Cells : _values_close(a, a)
  /\ \A a, b \in Cells : _values_close(a, b) => _values_close(b, a)
BY MultisetsAssumption DEF _values_close

\* A finite set has subsets of every size up to its own.
LEMMA SubsetOfSize ==
  ASSUME NEW S, IsFiniteSet(S), NEW n \in Nat, n <= Cardinality(S)
  PROVE  \E A \in SUBSET S : IsFiniteSet(A) /\ Cardinality(A) = n
<1>1. Cardinality(S) \in Nat /\ ExistsBijection(1..Cardinality(S), S)
  BY FS_CardinalityType
<1>2. PICK g : g \in Bijection(1..Cardinality(S), S)
  BY <1>1 DEF ExistsBijection
<1> DEFINE A == {g[k] : k \in 1..n}
           h == [k \in 1..n |-> g[k]]
<1>3. 1..n \subseteq 1..Cardinality(S)
  BY <1>1
<1>4. /\ g \in [1..Cardinality(S) -> S]
      /\ \A k, l \in 1..Cardinality(S) : g[k] = g[l] => k = l
  BY <1>2 DEF Bijection, Injection, IsInjective
<1>5. A \in SUBSET S
  BY <1>3, <1>4
<1>6. h \in [1..n -> A] /\ (\A k, l \in 1..n : h[k] = h[l] => k = l)
  BY <1>3, <1>4
<1>7. \A x \in A : \E k \in 1..n : h[k] = x
  OBVIOUS
<1> HIDE DEF A, h
<1>8. h \in Bijection(1..n, A)
  BY <1>6, <1>7 DEF Bijection, Injection, Surjection, IsInjective
<1>9. Cardinality(A) = n
  BY <1>8, FS_CountingElements DEF ExistsBijection
<1>10. IsFiniteSet(A)
  BY <1>5, FS_Subset
<1> QED
  BY <1>5, <1>9, <1>10

\* The positions of a result are finitely many, and so are those a pairing
\* leaves over or pairs up.
LEMMA Positions ==
  ASSUME TypeOK
  PROVE  /\ DOMAIN base = 1..Len(base) /\ IsFiniteSet(DOMAIN base)
         /\ DOMAIN other = 1..Len(other) /\ IsFiniteSet(DOMAIN other)
         /\ Len(base) \in Nat /\ Cardinality(DOMAIN base) = Len(base)
         /\ Len(other) \in Nat /\ Cardinality(DOMAIN other) = Len(other)
<1>1. /\ DOMAIN base = 1..Len(base) /\ Len(base) \in Nat
      /\ DOMAIN other = 1..Len(other) /\ Len(other) \in Nat
  BY DEF TypeOK
<1> QED
  BY <1>1, UpTo

LEMMA PairingParts ==
  ASSUME TypeOK, NEW domain \in SUBSET DOMAIN base, NEW f \in Pairings(domain)
  PROVE  /\ DOMAIN f = domain /\ f \in [domain -> DOMAIN other]
         /\ IsFiniteSet(Inexact(f)) /\ Cardinality(Inexact(f)) \in Nat
         /\ \A c : /\ IsFiniteSet(BaseLeft(f, c))
                   /\ Cardinality(BaseLeft(f, c)) \in Nat
                   /\ IsFiniteSet(OtherLeft(f, c))
                   /\ Cardinality(OtherLeft(f, c)) \in Nat
                   /\ IsFiniteSet(Exact(f, c))
                   /\ Cardinality(Exact(f, c)) \in Nat
<1>1. DOMAIN f = domain /\ f \in [domain -> DOMAIN other]
  BY DEF Pairings
<1>2. Inexact(f) \in SUBSET DOMAIN base
  BY <1>1 DEF Inexact
<1>3. \A c : /\ BaseLeft(f, c) \in SUBSET DOMAIN base
             /\ OtherLeft(f, c) \in SUBSET DOMAIN other
             /\ Exact(f, c) \in SUBSET DOMAIN base
  BY <1>1 DEF BaseLeft, OtherLeft, Exact
<1>4. \A S \in SUBSET DOMAIN base : IsFiniteSet(S) /\ Cardinality(S) \in Nat
  BY Positions, FS_Subset, FS_CardinalityType
<1>5. \A S \in SUBSET DOMAIN other : IsFiniteSet(S) /\ Cardinality(S) \in Nat
  BY Positions, FS_Subset, FS_CardinalityType
<1> QED
  BY <1>1, <1>2, <1>3, <1>4, <1>5

\* The heart of the matter: n left-over rows of a kind on one side and n of a
\* kind that agrees on the other can be added to a pairing.
LEMMA ExtendPairing ==
  ASSUME TypeOK, NEW domain \in SUBSET DOMAIN base, NEW f \in Pairings(domain),
         Agreeing(f), NEW b \in Cells, NEW o \in Cells, _values_close(b, o),
         NEW n \in Nat, n <= Cardinality(BaseLeft(f, b)),
         n <= Cardinality(OtherLeft(f, o))
  PROVE  \E larger \in SUBSET DOMAIN base : \E g \in Pairings(larger) :
           /\ Agreeing(g)
           /\ \A c \in Cells :
                /\ Cardinality(BaseLeft(g, c)) =
                     Cardinality(BaseLeft(f, c)) - (IF c = b THEN n ELSE 0)
                /\ Cardinality(OtherLeft(g, c)) =
                     Cardinality(OtherLeft(f, c)) - (IF c = o THEN n ELSE 0)
                /\ Cardinality(Exact(g, c)) =
                     Cardinality(Exact(f, c)) + (IF c = b /\ c = o THEN n ELSE 0)
           /\ Cardinality(Inexact(g)) =
                Cardinality(Inexact(f)) + (IF b = o THEN 0 ELSE n)
<1>1. /\ DOMAIN f = domain /\ f \in [domain -> DOMAIN other]
      /\ IsFiniteSet(Inexact(f)) /\ Cardinality(Inexact(f)) \in Nat
      /\ \A c : /\ IsFiniteSet(BaseLeft(f, c))
                /\ Cardinality(BaseLeft(f, c)) \in Nat
                /\ IsFiniteSet(OtherLeft(f, c))
                /\ Cardinality(OtherLeft(f, c)) \in Nat
                /\ IsFiniteSet(Exact(f, c))
                /\ Cardinality(Exact(f, c)) \in Nat
  BY PairingParts
<1>2. PICK A \in SUBSET BaseLeft(f, b) : IsFiniteSet(A) /\ Cardinality(A) = n
  BY <1>1, SubsetOfSize
<1>3. PICK C \in SUBSET OtherLeft(f, o) : IsFiniteSet(C) /\ Cardinality(C) = n
  BY <1>1, SubsetOfSize
<1>4. PICK h : h \in Bijection(A, C)
  BY <1>2, <1>3, FS_SameCardinalityBij DEF ExistsBijection
<1>5. /\ h \in [A -> C]
      /\ \A k, l \in A : h[k] = h[l] => k = l
      /\ \A m \in C : \E k \in A : h[k] = m
  BY <1>4 DEF Bijection, Injection, Surjection, IsInjective
<1>6. /\ A \subseteq DOMAIN base /\ A \cap domain = {}
      /\ \A k \in A : base[k] = b
  BY <1>1, <1>2 DEF BaseLeft
<1>7. /\ C \subseteq DOMAIN other
      /\ \A m \in C : other[m] = o /\ \A l \in domain : f[l] # m
  BY <1>1, <1>3 DEF OtherLeft
<1>8. \A k, l \in domain : f[k] = f[l] => k = l
  BY <1>1 DEF Pairings, Injective
<1>9. \A k \in domain : _values_close(base[k], other[f[k]])
  BY <1>1 DEF Agreeing
<1> DEFINE g == [k \in domain \cup A |-> IF k \in A THEN h[k] ELSE f[k]]
<1>10. /\ DOMAIN g = domain \cup A
       /\ \A k \in A : g[k] = h[k] /\ h[k] \in C
       /\ \A k \in domain : g[k] = f[k] /\ k \notin A /\ f[k] \in DOMAIN other
  BY <1>1, <1>5, <1>6
<1>11. g \in [domain \cup A -> DOMAIN other]
  BY <1>10, <1>7
<1> HIDE DEF g
<1>12. \A k, l \in domain \cup A : g[k] = g[l] => k = l
  BY <1>10, <1>8, <1>5, <1>7
<1>13. domain \cup A \in SUBSET DOMAIN base /\ g \in Pairings(domain \cup A)
  BY <1>6, <1>10, <1>11, <1>12 DEF Pairings, Injective
<1>14. Agreeing(g)
  BY <1>10, <1>9, <1>6, <1>7 DEF Agreeing
<1>15. ASSUME NEW c \in Cells
       PROVE  /\ Cardinality(BaseLeft(g, c)) =
                   Cardinality(BaseLeft(f, c)) - (IF c = b THEN n ELSE 0)
              /\ Cardinality(OtherLeft(g, c)) =
                   Cardinality(OtherLeft(f, c)) - (IF c = o THEN n ELSE 0)
              /\ Cardinality(Exact(g, c)) =
                   Cardinality(Exact(f, c)) + (IF c = b /\ c = o THEN n ELSE 0)
  <2>1. BaseLeft(g, c) = IF c = b THEN BaseLeft(f, c) \ A ELSE BaseLeft(f, c)
    BY <1>1, <1>6, <1>10 DEF BaseLeft
  <2>2. OtherLeft(g, c) = IF c = o THEN OtherLeft(f, c) \ C ELSE OtherLeft(f, c)
    <3>1. \A m \in DOMAIN other :
            (\A l \in DOMAIN g : g[l] # m)
            <=> m \notin C /\ \A l \in DOMAIN f : f[l] # m
      BY <1>1, <1>5, <1>7, <1>10
    <3> QED
      BY <3>1, <1>7 DEF OtherLeft
  <2>3. Exact(g, c) = IF c = b /\ c = o THEN Exact(f, c) \cup A ELSE Exact(f, c)
    BY <1>1, <1>6, <1>7, <1>10 DEF Exact
  <2>4. Exact(f, c) \cap A = {}
    BY <1>1, <1>6 DEF Exact
  <2>5. c = b => Cardinality(BaseLeft(f, c) \ A) = Cardinality(BaseLeft(f, c)) - n
    BY <1>1, <1>2, SetsAddUp
  <2>6. c = o => Cardinality(OtherLeft(f, c) \ C) = Cardinality(OtherLeft(f, c)) - n
    BY <1>1, <1>3, SetsAddUp
  <2>7. Cardinality(Exact(f, c) \cup A) = Cardinality(Exact(f, c)) + n
    BY <1>1, <1>2, <2>4, SetsAddUp
  <2> QED
    BY <1>1, <2>1, <2>2, <2>3, <2>5, <2>6, <2>7
<1>16. Cardinality(Inexact(g)) =
         Cardinality(Inexact(f)) + (IF b = o THEN 0 ELSE n)
  <2>1. Inexact(g) = IF b = o THEN Inexact(f) ELSE Inexact(f) \cup A
    BY <1>1, <1>6, <1>7, <1>10 DEF Inexact
  <2>2. Inexact(f) \cap A = {}
    BY <1>1, <1>6 DEF Inexact
  <2>3. Cardinality(Inexact(f) \cup A) = Cardinality(Inexact(f)) + n
    BY <1>1, <1>2, <2>2, SetsAddUp
  <2> QED
    BY <1>1, <2>1, <2>3
<1> QED
  BY <1>13, <1>14, <1>15, <1>16

-----------------------------------------------------------------------------
(* One step of the loops *)

\* What is said of a pairing depends on the rows only.
LEMMA RowsStay ==
  ASSUME UNCHANGED <<base, other>>
  PROVE  /\ \A S : Pairings(S)' = Pairings(S)
         /\ \A f : Agreeing(f)' = Agreeing(f) /\ Inexact(f)' = Inexact(f)
         /\ \A f, c : /\ BaseLeft(f, c)' = BaseLeft(f, c)
                      /\ OtherLeft(f, c)' = OtherLeft(f, c)
                      /\ Exact(f, c)' = Exact(f, c)
         /\ Counter(base)' = Counter(base) /\ Counter(other)' = Counter(other)
BY DEF Pairings, Injective, Agreeing, Inexact, BaseLeft, OtherLeft, Exact,
       Counter

\* Rows only leave the two Counters.
LEMMA ConsumeShrinks ==
  ASSUME TypeOK, NEW b \in Cells, NEW o \in Cells, NEW n \in Nat,
         n <= missing[b], n <= extra[o], Consume(b, o, n)
  PROVE  /\ missing' \in [Cells -> Nat] /\ extra' \in [Cells -> Nat]
         /\ \A c \in Cells :
              /\ missing'[c] = missing[c] - (IF c = b THEN n ELSE 0)
              /\ extra'[c] = extra[c] - (IF c = o THEN n ELSE 0)
              /\ missing[c] = 0 => missing'[c] = 0
              /\ extra[c] = 0 => extra'[c] = 0
<1>1. missing \in [Cells -> Nat] /\ extra \in [Cells -> Nat]
  BY DEF TypeOK
<1>2. missing[b] - n \in Nat /\ extra[o] - n \in Nat
  BY <1>1
<1>3. missing' \in [Cells -> Nat] /\ extra' \in [Cells -> Nat]
  BY <1>1, <1>2 DEF Consume
<1>4. ASSUME NEW c \in Cells
      PROVE  /\ missing'[c] = missing[c] - (IF c = b THEN n ELSE 0)
             /\ extra'[c] = extra[c] - (IF c = o THEN n ELSE 0)
  BY <1>1 DEF Consume
<1>5. ASSUME NEW c \in Cells
      PROVE  /\ missing[c] = 0 => missing'[c] = 0
             /\ extra[c] = 0 => extra'[c] = 0
  BY <1>1, <1>3, <1>4
<1> QED
  BY <1>3, <1>4, <1>5

\* What agrees and leaves both Counters can be paired off.
LEMMA ConsumeExplained ==
  ASSUME TypeOK, NEW domain \in SUBSET DOMAIN base, NEW f \in Pairings(domain),
         Explains(f), NEW b \in Cells, NEW o \in Cells, _values_close(b, o),
         NEW n \in Nat, n <= missing[b], n <= extra[o], Consume(b, o, n),
         UNCHANGED <<base, other>>,
         reconciled' = reconciled + (IF b = o THEN 0 ELSE n)
  PROVE  \E larger \in SUBSET DOMAIN base : \E g \in Pairings(larger) :
           /\ Explains(g)'
           /\ \A c \in Cells : Cardinality(Exact(g, c)) =
                Cardinality(Exact(f, c)) + (IF c = b /\ c = o THEN n ELSE 0)
<1>1. /\ Agreeing(f) /\ reconciled = Cardinality(Inexact(f))
      /\ \A c \in Cells : /\ missing[c] = Cardinality(BaseLeft(f, c))
                          /\ extra[c] = Cardinality(OtherLeft(f, c))
  BY DEF Explains
<1>2. n <= Cardinality(BaseLeft(f, b)) /\ n <= Cardinality(OtherLeft(f, o))
  BY <1>1
<1>3. PICK larger \in SUBSET DOMAIN base : \E g \in Pairings(larger) :
        /\ Agreeing(g)
        /\ \A c \in Cells :
             /\ Cardinality(BaseLeft(g, c)) =
                  Cardinality(BaseLeft(f, c)) - (IF c = b THEN n ELSE 0)
             /\ Cardinality(OtherLeft(g, c)) =
                  Cardinality(OtherLeft(f, c)) - (IF c = o THEN n ELSE 0)
             /\ Cardinality(Exact(g, c)) =
                  Cardinality(Exact(f, c)) + (IF c = b /\ c = o THEN n ELSE 0)
        /\ Cardinality(Inexact(g)) =
             Cardinality(Inexact(f)) + (IF b = o THEN 0 ELSE n)
  BY <1>1, <1>2, ExtendPairing
<1>4. PICK g \in Pairings(larger) :
        /\ Agreeing(g)
        /\ \A c \in Cells :
             /\ Cardinality(BaseLeft(g, c)) =
                  Cardinality(BaseLeft(f, c)) - (IF c = b THEN n ELSE 0)
             /\ Cardinality(OtherLeft(g, c)) =
                  Cardinality(OtherLeft(f, c)) - (IF c = o THEN n ELSE 0)
             /\ Cardinality(Exact(g, c)) =
                  Cardinality(Exact(f, c)) + (IF c = b /\ c = o THEN n ELSE 0)
        /\ Cardinality(Inexact(g)) =
             Cardinality(Inexact(f)) + (IF b = o THEN 0 ELSE n)
  BY <1>3
<1>5. \A c \in Cells : /\ missing'[c] = Cardinality(BaseLeft(g, c))
                       /\ extra'[c] = Cardinality(OtherLeft(g, c))
  BY <1>1, <1>4, ConsumeShrinks
<1>6. reconciled' = Cardinality(Inexact(g))
  BY <1>1, <1>4
<1>7. Explains(g)'
  <2>1. Agreeing(g)' /\ Inexact(g)' = Inexact(g)
    BY <1>4, RowsStay
  <2>2. \A c \in Cells : /\ missing'[c] = Cardinality(BaseLeft(g, c)')
                         /\ extra'[c] = Cardinality(OtherLeft(g, c)')
    BY <1>5, RowsStay
  <2> QED
    BY <2>1, <2>2, <1>6 DEF Explains
<1> QED
  BY <1>4, <1>7

\* Counting rows, and a row that is none of the keys.
LEMMA CounterLaws ==
  ASSUME TypeOK
  PROVE  /\ Counter(base) \in [Cells -> Nat] /\ Counter(other) \in [Cells -> Nat]
         /\ \A c \in Cells : (\A k \in DOMAIN base : base[k] # c)
                               => Counter(base)[c] = 0
<1>1. ASSUME NEW c \in Cells
      PROVE  /\ Cardinality({k \in DOMAIN base : base[k] = c}) \in Nat
             /\ Cardinality({k \in DOMAIN other : other[k] = c}) \in Nat
  <2>1. {k \in DOMAIN base : base[k] = c} \in SUBSET DOMAIN base
    OBVIOUS
  <2>2. {k \in DOMAIN other : other[k] = c} \in SUBSET DOMAIN other
    OBVIOUS
  <2> QED
    BY <2>1, <2>2, Positions, FS_Subset, FS_CardinalityType
<1>2. ASSUME NEW c \in Cells, \A k \in DOMAIN base : base[k] # c
      PROVE  Counter(base)[c] = 0
  <2>1. {k \in DOMAIN base : base[k] = c} = {}
    BY <1>2
  <2>2. Counter(base)[c] = Cardinality({k \in DOMAIN base : base[k] = c})
    BY DEF Counter
  <2> QED
    BY <2>1, <2>2, FS_EmptySet
<1> QED
  BY <1>1, <1>2 DEF Counter

LEMMA RowsAreCells ==
  ASSUME TypeOK
  PROVE  /\ \A k \in 1..Len(base) : base[k] \in Cells
         /\ \A k \in 1..Len(other) : other[k] \in Cells
<1>1. base \in Seq(Cells) /\ other \in Seq(Cells)
  BY DEF TypeOK
<1>2. \A k \in 1..Len(base) : base[k] \in Cells
  BY <1>1
<1>3. \A k \in 1..Len(other) : other[k] \in Cells
  BY <1>1
<1> QED
  BY <1>2, <1>3

LEMMA NotAKey ==
  ASSUME NEW rows, NEW k, ~IsKey(rows, k)
  PROVE  \E l \in 1..(k - 1) : rows[l] = rows[k]
BY DEF IsKey

\* A step of the loops that consumes nothing.
LEMMA StillExplained ==
  ASSUME TypeOK, UNCHANGED <<base, other, missing, extra, reconciled>>,
         NEW f, Explains(f)
  PROVE  Explains(f)'
<1>1. Agreeing(f)' /\ Inexact(f)' = Inexact(f)
  BY RowsStay DEF Explains
<1>2. \A c \in Cells : /\ missing'[c] = Cardinality(BaseLeft(f, c)')
                       /\ extra'[c] = Cardinality(OtherLeft(f, c)')
  BY RowsStay DEF Explains
<1> QED
  BY <1>1, <1>2 DEF Explains

-----------------------------------------------------------------------------
(* The invariant *)

LEMMA InitIInv == Init => IInv
<1> SUFFICES ASSUME Init PROVE IInv
  OBVIOUS
<1>1. TypeOK
  BY DEF Init, TypeOK
<1> QED
  BY <1>1 DEF Init, IInv, Accounted, Visited

LEMMA FetchBaseStep == IInv /\ FetchBase => IInv'
<1> SUFFICES ASSUME IInv, FetchBase PROVE IInv'
  OBVIOUS
<1>1. TypeOK'
  <2>1. PICK row \in Cells : base' = Append(base, row)
    BY DEF FetchBase
  <2>2. base' \in Seq(Cells) /\ Len(base') = Len(base) + 1 /\ Len(base) \in Nat
    BY <2>1 DEF IInv, TypeOK
  <2> QED
    BY <2>2 DEF IInv, TypeOK, FetchBase
<1> QED
  BY <1>1 DEF IInv, FetchBase, Accounted, Visited

LEMMA FetchOtherStep == IInv /\ FetchOther => IInv'
<1> SUFFICES ASSUME IInv, FetchOther PROVE IInv'
  OBVIOUS
<1>1. TypeOK'
  <2>1. PICK row \in Cells : other' = Append(other, row)
    BY DEF FetchOther
  <2>2. /\ other' \in Seq(Cells) /\ Len(other') = Len(other) + 1
        /\ Len(other) \in Nat
    BY <2>1 DEF IInv, TypeOK
  <2> QED
    BY <2>2 DEF IInv, TypeOK, FetchOther
<1> QED
  BY <1>1 DEF IInv, FetchOther, Accounted, Visited

\* Before the first row is consumed the empty pairing accounts for it all.
LEMMA CountStep == IInv /\ Count => IInv'
<1> SUFFICES ASSUME IInv, Count PROVE IInv'
  OBVIOUS
<1> USE DEF IInv
<1>1. TypeOK'
  BY CounterLaws DEF TypeOK, Count
<1>2. Visited'
  BY DEF Count, Visited, TypeOK
<1>3. Accounted'
  <2> DEFINE none == [k \in {} |-> k]
  <2>1. none \in [{} -> DOMAIN other] /\ DOMAIN none = {}
    OBVIOUS
  <2> HIDE DEF none
  <2>2. {} \in SUBSET DOMAIN base /\ none \in Pairings({})
    BY <2>1 DEF Pairings, Injective
  <2>3. /\ Agreeing(none) /\ Inexact(none) = {}
        /\ \A c : Exact(none, c) = {}
        /\ \A c : /\ BaseLeft(none, c) = {k \in DOMAIN base : base[k] = c}
                  /\ OtherLeft(none, c) = {k \in DOMAIN other : other[k] = c}
    BY <2>1 DEF Agreeing, Inexact, Exact, BaseLeft, OtherLeft
  <2>4. \A c \in Cells :
          /\ missing'[c] = Cardinality(BaseLeft(none, c))
          /\ extra'[c] = Cardinality(OtherLeft(none, c))
          /\ missing'[c] = Counter(base)[c] /\ missing'[c] \in Nat
          /\ extra'[c] = Counter(other)[c] /\ extra'[c] \in Nat
          /\ Cardinality(Exact(none, c)) = 0
    BY <2>3, CounterLaws, FS_EmptySet DEF Count, Counter
  <2>5. reconciled' = Cardinality(Inexact(none))
    BY <2>3, FS_EmptySet DEF Count, Visited
  <2>6. UNCHANGED <<base, other>> /\ pc' = "exact"
    BY DEF Count
  <2>7. Explains(none)'
    <3>1. Agreeing(none)' /\ Inexact(none)' = Inexact(none)
      BY <2>3, <2>6, RowsStay
    <3>2. \A c \in Cells : /\ missing'[c] = Cardinality(BaseLeft(none, c)')
                           /\ extra'[c] = Cardinality(OtherLeft(none, c)')
      BY <2>4, <2>6, RowsStay
    <3> QED
      BY <3>1, <3>2, <2>5 DEF Explains
  <2>8. ExactSoFar(none)'
    <3>1. ASSUME NEW c \in Cells
          PROVE  /\ Cardinality(Exact(none, c)') + missing'[c] = Counter(base')[c]
                 /\ Cardinality(Exact(none, c)') + extra'[c] = Counter(other')[c]
      BY <2>4, <2>6, RowsStay
    <3> QED
      BY <3>1, <2>6 DEF ExactSoFar
  <2> QED
    BY <2>2, <2>6, <2>7, <2>8, RowsStay DEF Accounted
<1> QED
  BY <1>1, <1>2, <1>3

LEMMA LeastLaws ==
  ASSUME NEW m \in Nat, NEW n \in Nat
  PROVE  /\ Least(m, n) \in Nat /\ Least(m, n) <= m /\ Least(m, n) <= n
         /\ m - Least(m, n) = 0 \/ n - Least(m, n) = 0
BY DEF Least

LEMMA ExactRowStep == IInv /\ ExactRow => IInv'
<1> SUFFICES ASSUME IInv, ExactRow PROVE IInv'
  OBVIOUS
<1> USE DEF IInv
<1> DEFINE row == base[i]
           n == Least(missing[row], extra[row])
<1>1. /\ pc = "exact" /\ pc' = "exact" /\ i \in 1..Len(base) /\ i' = i + 1
      /\ UNCHANGED <<base, other, reconciled, j>>
  BY DEF ExactRow, TypeOK
<1>2. row \in Cells /\ missing \in [Cells -> Nat] /\ extra \in [Cells -> Nat]
  BY <1>1, RowsAreCells DEF TypeOK
<1>3. /\ n \in Nat /\ n <= missing[row] /\ n <= extra[row]
      /\ missing[row] - n = 0 \/ extra[row] - n = 0
  BY <1>2, LeastLaws
<1>4. /\ j = 1
      /\ \A k \in 1..(i - 1) : missing[base[k]] = 0 \/ extra[base[k]] = 0
  BY <1>1 DEF Visited
<1>5. PICK domain \in SUBSET DOMAIN base : \E f \in Pairings(domain) :
        Explains(f) /\ ExactSoFar(f)
  BY <1>1 DEF Accounted
<1>6. PICK f \in Pairings(domain) : Explains(f) /\ ExactSoFar(f)
  BY <1>5
<1>7. \A c \in Cells :
        /\ Cardinality(Exact(f, c)) + missing[c] = Counter(base)[c]
        /\ Cardinality(Exact(f, c)) + extra[c] = Counter(other)[c]
        /\ Cardinality(Exact(f, c)) \in Nat
  BY <1>1, <1>6, PairingParts DEF ExactSoFar
<1> HIDE DEF n, row
<1>8. CASE IsKey(base, i) /\ Consume(row, row, n)
  <2>1. /\ missing' \in [Cells -> Nat] /\ extra' \in [Cells -> Nat]
        /\ \A c \in Cells :
             /\ missing'[c] = missing[c] - (IF c = row THEN n ELSE 0)
             /\ extra'[c] = extra[c] - (IF c = row THEN n ELSE 0)
             /\ missing[c] = 0 => missing'[c] = 0
             /\ extra[c] = 0 => extra'[c] = 0
    BY <1>8, <1>2, <1>3, ConsumeShrinks
  <2>t. i + 1 \in 1..(Len(base) + 1)
    BY <1>1 DEF TypeOK
  <2>2. TypeOK'
    BY <2>1, <2>t, <1>1, SMTT(30) DEF TypeOK
  <2>3. Visited'
    <3>1. ASSUME NEW k \in 1..i
          PROVE  missing'[base[k]] = 0 \/ extra'[base[k]] = 0
      <4>1. base[k] \in Cells
        BY <1>1, RowsAreCells
      <4>2. CASE k = i
        BY <4>2, <2>1, <1>2, <1>3 DEF row
      <4>3. CASE k # i
        <5>1. k \in 1..(i - 1)
          BY <4>3, <1>1
        <5> QED
          BY <5>1, <4>1, <2>1, <1>4
      <4> QED
        BY <4>2, <4>3
    <3> QED
      BY <3>1, <1>1, <1>4 DEF Visited
  <2>4. reconciled' = reconciled + (IF row = row THEN 0 ELSE n)
    BY <1>1 DEF TypeOK
  <2>5. _values_close(row, row)
    BY <1>2, CloseLaws
  <2>6. PICK larger \in SUBSET DOMAIN base : \E g \in Pairings(larger) :
          /\ Explains(g)'
          /\ \A c \in Cells : Cardinality(Exact(g, c)) =
               Cardinality(Exact(f, c)) + (IF c = row /\ c = row THEN n ELSE 0)
    BY <1>1, <1>2, <1>3, <1>6, <1>8, <2>4, <2>5, ConsumeExplained
  <2>7. PICK g \in Pairings(larger) :
          /\ Explains(g)'
          /\ \A c \in Cells : Cardinality(Exact(g, c)) =
               Cardinality(Exact(f, c)) + (IF c = row /\ c = row THEN n ELSE 0)
    BY <2>6
  <2>8. ExactSoFar(g)'
    <3>1. ASSUME NEW c \in Cells
          PROVE  /\ Cardinality(Exact(g, c)) + missing'[c] = Counter(base)[c]
                 /\ Cardinality(Exact(g, c)) + extra'[c] = Counter(other)[c]
      BY <2>7, <2>1, <1>2, <1>3, <1>7
    <3>2. ASSUME NEW c \in Cells
          PROVE  /\ Cardinality(Exact(g, c)') + missing'[c] = Counter(base')[c]
                 /\ Cardinality(Exact(g, c)') + extra'[c] = Counter(other')[c]
      BY <3>1, <1>1, RowsStay
    <3> QED
      BY <3>2, <1>1 DEF ExactSoFar
  <2>9. Accounted'
    BY <2>7, <2>8, <1>1, RowsStay DEF Accounted
  <2> QED
    BY <2>2, <2>3, <2>9
<1>9. CASE ~IsKey(base, i) /\ UNCHANGED <<missing, extra>>
  <2>1. TypeOK'
    BY <1>9, <1>1 DEF TypeOK
  <2>2. Visited'
    <3>1. PICK l \in 1..(i - 1) : base[l] = base[i]
      BY <1>9, NotAKey
    <3>2. ASSUME NEW k \in 1..i
          PROVE  missing'[base[k]] = 0 \/ extra'[base[k]] = 0
      <4>1. missing[base[k]] = 0 \/ extra[base[k]] = 0
        <5>1. CASE k = i
          BY <5>1, <3>1, <1>4
        <5>2. CASE k # i
          BY <5>2, <1>1, <1>4
        <5> QED
          BY <5>1, <5>2
      <4> QED
        BY <4>1, <1>9
    <3> QED
      BY <3>2, <1>1, <1>4 DEF Visited
  <2>3. Explains(f)'
    BY <1>1, <1>6, <1>9, StillExplained
  <2>4. ExactSoFar(f)'
    <3>1. ASSUME NEW c \in Cells
          PROVE  /\ Cardinality(Exact(f, c)') + missing'[c] = Counter(base')[c]
                 /\ Cardinality(Exact(f, c)') + extra'[c] = Counter(other')[c]
      BY <1>1, <1>7, <1>9, RowsStay
    <3> QED
      BY <3>1, <1>1 DEF ExactSoFar
  <2>5. Accounted'
    BY <2>3, <2>4, <1>1, <1>6, RowsStay DEF Accounted
  <2> QED
    BY <2>1, <2>2, <2>5
<1> QED
  BY <1>8, <1>9 DEF ExactRow, n, row

\* With the first loop done, every row of a kind that both sides have has
\* been paired with itself.
LEMMA ExactDoneStep == IInv /\ ExactDone => IInv'
<1> SUFFICES ASSUME IInv, ExactDone PROVE IInv'
  OBVIOUS
<1> USE DEF IInv
<1>1. /\ pc = "exact" /\ pc' = "approximate" /\ i = Len(base) + 1 /\ i' = 1
      /\ UNCHANGED <<base, other, missing, extra, reconciled, j>>
  BY DEF ExactDone
<1>2. /\ missing \in [Cells -> Nat] /\ extra \in [Cells -> Nat]
      /\ Len(base) \in Nat /\ DOMAIN base = 1..Len(base)
  BY DEF TypeOK
<1>3. PICK domain \in SUBSET DOMAIN base : \E f \in Pairings(domain) :
        Explains(f) /\ ExactSoFar(f)
  BY <1>1 DEF Accounted
<1>4. PICK f \in Pairings(domain) : Explains(f) /\ ExactSoFar(f)
  BY <1>3
<1>5. \A c \in Cells :
        /\ Cardinality(Exact(f, c)) + missing[c] = Counter(base)[c]
        /\ Cardinality(Exact(f, c)) + extra[c] = Counter(other)[c]
        /\ Cardinality(Exact(f, c)) \in Nat
  BY <1>1, <1>4, PairingParts DEF ExactSoFar
<1>6. ASSUME NEW c \in Cells
      PROVE  missing[c] = 0 \/ extra[c] = 0
  <2>1. CASE \E k \in DOMAIN base : base[k] = c
    BY <2>1, <1>1, <1>2 DEF Visited
  <2>2. CASE \A k \in DOMAIN base : base[k] # c
    <3>1. Counter(base)[c] = 0
      BY <2>2, CounterLaws
    <3> QED
      BY <3>1, <1>2, <1>5
  <2> QED
    BY <2>1, <2>2
<1>7. TypeOK'
  BY <1>1, <1>2 DEF TypeOK
<1>8. Visited'
  BY <1>1, <1>2, <1>6 DEF Visited
<1>9. Explains(f)'
  BY <1>1, <1>4, StillExplained
<1>10. ExactSoFar(f)'
  <2>1. ASSUME NEW c \in Cells
        PROVE  Cardinality(Exact(f, c)) = Least(Counter(base)[c], Counter(other)[c])
    BY <1>2, <1>5, <1>6 DEF Least
  <2>2. ASSUME NEW c \in Cells
        PROVE  Cardinality(Exact(f, c)') =
                 Least(Counter(base')[c], Counter(other')[c])
    BY <2>1, <1>1, RowsStay
  <2> QED
    BY <2>2, <1>1 DEF ExactSoFar
<1>11. Accounted'
  BY <1>9, <1>10, <1>1, <1>4, RowsStay DEF Accounted
<1> QED
  BY <1>7, <1>8, <1>11

\* The second loop takes the pairs of the first as they are.
LEMMA ExactSettled ==
  ASSUME pc # "exact", pc' # "exact", UNCHANGED <<base, other>>,
         NEW f, ExactSoFar(f), NEW g,
         \A c \in Cells : Cardinality(Exact(g, c)) = Cardinality(Exact(f, c))
  PROVE  ExactSoFar(g)'
<1>1. \A c \in Cells : Cardinality(Exact(g, c)) =
                         Least(Counter(base)[c], Counter(other)[c])
  BY DEF ExactSoFar
<1>2. \A c \in Cells : Cardinality(Exact(g, c)') =
                         Least(Counter(base')[c], Counter(other')[c])
  BY <1>1, RowsStay
<1> QED
  BY <1>2 DEF ExactSoFar

\* Turns that only move on keep the account.
LEMMA AccountKept ==
  ASSUME TypeOK, Accounted, pc \in {"approximate", "done"}, pc' # "exact",
         UNCHANGED <<base, other, missing, extra, reconciled>>
  PROVE  Accounted'
<1>1. PICK domain \in SUBSET DOMAIN base : \E f \in Pairings(domain) :
        Explains(f) /\ ExactSoFar(f)
  BY DEF Accounted
<1>2. PICK f \in Pairings(domain) : Explains(f) /\ ExactSoFar(f)
  BY <1>1
<1>3. Explains(f)'
  BY <1>2, StillExplained
<1>4. ExactSoFar(f)'
  BY <1>2, ExactSettled
<1> QED
  BY <1>2, <1>3, <1>4, RowsStay DEF Accounted

LEMMA NextBaseRowStep == IInv /\ NextBaseRow => IInv'
<1> SUFFICES ASSUME IInv, NextBaseRow PROVE IInv'
  OBVIOUS
<1> USE DEF IInv
<1>1. /\ pc = "approximate" /\ i \in 1..Len(base) /\ i' = i + 1 /\ j' = 1
      /\ UNCHANGED <<pc, base, other, missing, extra, reconciled>>
      /\ Len(base) \in Nat /\ Len(other) \in Nat
  BY DEF NextBaseRow, TypeOK
<1>2. TypeOK'
  BY <1>1 DEF TypeOK
<1>3. /\ \A c \in Cells : missing[c] = 0 \/ extra[c] = 0
      /\ \A k \in 1..(i - 1), l \in 1..Len(other) : Clear(base[k], other[l])
      /\ \A l \in 1..(j - 1) : Clear(base[i], other[l])
  BY <1>1 DEF Visited
<1>4. ASSUME NEW l \in 1..Len(other)
      PROVE  Clear(base[i], other[l])
  <2>1. CASE ~IsKey(base, i)
    <3>1. PICK k \in 1..(i - 1) : base[k] = base[i]
      BY <2>1, NotAKey
    <3> QED
      BY <3>1, <1>3
  <2>2. CASE missing[base[i]] = 0
    BY <2>2 DEF Clear
  <2>3. CASE j = Len(other) + 1
    BY <2>3, <1>1, <1>3
  <2> QED
    BY <2>1, <2>2, <2>3 DEF NextBaseRow
<1>5. ASSUME NEW k \in 1..i, NEW l \in 1..Len(other)
      PROVE  Clear(base[k], other[l])
  <2>1. CASE k = i
    BY <2>1, <1>4
  <2>2. CASE k # i
    BY <2>2, <1>1, <1>3
  <2> QED
    BY <2>1, <2>2
<1>6. ASSUME NEW k \in 1..i, NEW l \in 1..Len(other)
      PROVE  Clear(base[k], other[l])'
  BY <1>5, <1>1 DEF Clear
<1>7. Visited'
  <2>1. 1..(i' - 1) = 1..i /\ 1..(j' - 1) = {}
    BY <1>1
  <2> QED
    BY <2>1, <1>1, <1>3, <1>6 DEF Visited
<1>8. Accounted'
  BY <1>1, AccountKept
<1> QED
  BY <1>2, <1>7, <1>8

LEMMA ReturnStep == IInv /\ Return => IInv'
<1> SUFFICES ASSUME IInv, Return PROVE IInv'
  OBVIOUS
<1> USE DEF IInv
<1>1. TypeOK'
  BY DEF TypeOK, Return
<1>2. Visited'
  BY DEF Visited, Return, Clear, TypeOK
<1>3. Accounted'
  BY AccountKept DEF Return
<1> QED
  BY <1>1, <1>2, <1>3

LEMMA PairStep == IInv /\ Pair => IInv'
<1> SUFFICES ASSUME IInv, Pair PROVE IInv'
  OBVIOUS
<1> USE DEF IInv
<1>b. PICK b : b = base[i]
  OBVIOUS
<1>o. PICK o : o = other[j]
  OBVIOUS
<1>n. PICK n : n = Least(missing[b], extra[o])
  OBVIOUS
<1> DEFINE close == IsKey(other, j) /\ o # b /\ _values_close(b, o)
<1>1. /\ pc = "approximate" /\ pc' = "approximate"
      /\ i \in 1..Len(base) /\ j \in 1..Len(other) /\ j' = j + 1
      /\ UNCHANGED <<base, other, i>>
      /\ Len(base) \in Nat /\ Len(other) \in Nat
  <2>1. /\ Len(base) \in Nat /\ Len(other) \in Nat
        /\ i \in 1..(Len(base) + 1) /\ j \in 1..(Len(other) + 1)
    BY DEF TypeOK
  <2> QED
    BY <2>1 DEF Pair
<1>2. \/ close /\ Consume(b, o, n) /\ reconciled' = reconciled + n
      \/ ~close /\ UNCHANGED <<missing, extra, reconciled>>
  BY <1>b, <1>o, <1>n DEF Pair
<1>3. /\ b \in Cells /\ o \in Cells
      /\ missing \in [Cells -> Nat] /\ extra \in [Cells -> Nat]
  BY <1>1, <1>b, <1>o, RowsAreCells DEF TypeOK
<1>4. /\ n \in Nat /\ n <= missing[b] /\ n <= extra[o]
      /\ missing[b] - n = 0 \/ extra[o] - n = 0
  BY <1>3, <1>n, LeastLaws
<1>5. /\ \A c \in Cells : missing[c] = 0 \/ extra[c] = 0
      /\ \A k \in 1..(i - 1), l \in 1..Len(other) : Clear(base[k], other[l])
      /\ \A l \in 1..(j - 1) : Clear(base[i], other[l])
  BY <1>1 DEF Visited
<1> HIDE DEF close
\* Either way, what was clear stays clear, and the pair at hand becomes it.
<1>6. /\ missing' \in [Cells -> Nat] /\ extra' \in [Cells -> Nat]
      /\ reconciled' \in Nat
      /\ \A c \in Cells : /\ missing[c] = 0 => missing'[c] = 0
                          /\ extra[c] = 0 => extra'[c] = 0
      /\ Clear(b, o)'
  <2>1. CASE close /\ Consume(b, o, n) /\ reconciled' = reconciled + n
    <3>1. /\ missing' \in [Cells -> Nat] /\ extra' \in [Cells -> Nat]
          /\ \A c \in Cells :
               /\ missing'[c] = missing[c] - (IF c = b THEN n ELSE 0)
               /\ extra'[c] = extra[c] - (IF c = o THEN n ELSE 0)
               /\ missing[c] = 0 => missing'[c] = 0
               /\ extra[c] = 0 => extra'[c] = 0
      BY <2>1, <1>3, <1>4, ConsumeShrinks
    <3>2. missing'[b] = 0 \/ extra'[o] = 0
      BY <3>1, <1>3, <1>4
    <3>3. reconciled' \in Nat
      BY <2>1, <1>4 DEF TypeOK
    <3> QED
      BY <3>1, <3>2, <3>3, <1>1 DEF Clear
  <2>2. CASE ~close /\ UNCHANGED <<missing, extra, reconciled>>
    <3>1. CASE ~IsKey(other, j)
      <4>1. PICK l \in 1..(j - 1) : other[l] = other[j]
        BY <3>1, NotAKey
      <4>2. Clear(base[i], other[l])
        BY <4>1, <1>5
      <4> QED
        BY <4>1, <4>2, <2>2, <1>b, <1>o, <1>3 DEF Clear, TypeOK
    <3>2. CASE o = b
      <4>1. missing[b] = 0 \/ extra[o] = 0
        BY <3>2, <1>3, <1>5
      <4> QED
        BY <4>1, <2>2, <1>1, <1>3 DEF Clear, TypeOK
    <3>3. CASE ~_values_close(b, o)
      BY <3>3, <2>2, <1>1, <1>3 DEF Clear, TypeOK
    <3> QED
      BY <3>1, <3>2, <3>3, <2>2 DEF close
  <2> QED
    BY <2>1, <2>2, <1>2
<1>7. TypeOK'
  <2>1. j' \in 1..(Len(other') + 1) /\ i' \in 1..(Len(base') + 1)
    BY <1>1
  <2> QED
    BY <2>1, <1>1, <1>6 DEF TypeOK
<1>8. Visited'
  <2>1. ASSUME NEW k \in 1..(i - 1), NEW l \in 1..Len(other)
        PROVE  Clear(base[k], other[l])'
    <3>1. base[k] \in Cells /\ other[l] \in Cells
      BY <1>1, RowsAreCells
    <3> QED
      BY <3>1, <1>1, <1>5, <1>6 DEF Clear
  <2>2. ASSUME NEW l \in 1..j
        PROVE  Clear(base[i], other[l])'
    <3>1. CASE l = j
      BY <3>1, <1>1, <1>6, <1>b, <1>o
    <3>2. CASE l # j
      <4>1. l \in 1..(j - 1) /\ other[l] \in Cells
        BY <3>2, <1>1, RowsAreCells
      <4>2. Clear(base[i], other[l])
        BY <4>1, <1>5
      <4> QED
        BY <4>1, <4>2, <1>b, <1>1, <1>3, <1>6 DEF Clear
    <3> QED
      BY <3>1, <3>2
  <2>3. 1..(j' - 1) = 1..j
    BY <1>1
  <2>4. \A c \in Cells : missing'[c] = 0 \/ extra'[c] = 0
    BY <1>5, <1>6
  <2> QED
    BY <2>1, <2>2, <2>3, <2>4, <1>1 DEF Visited
<1>9. Accounted'
  <2>1. CASE close /\ Consume(b, o, n) /\ reconciled' = reconciled + n
    <3>1. PICK domain \in SUBSET DOMAIN base : \E f \in Pairings(domain) :
            Explains(f) /\ ExactSoFar(f)
      BY <1>1 DEF Accounted
    <3>2. PICK f \in Pairings(domain) : Explains(f) /\ ExactSoFar(f)
      BY <3>1
    <3>3. /\ reconciled' = reconciled + (IF b = o THEN 0 ELSE n)
          /\ b # o /\ _values_close(b, o)
      BY <2>1 DEF close
    <3>4. PICK larger \in SUBSET DOMAIN base : \E g \in Pairings(larger) :
            /\ Explains(g)'
            /\ \A c \in Cells : Cardinality(Exact(g, c)) =
                 Cardinality(Exact(f, c)) + (IF c = b /\ c = o THEN n ELSE 0)
      BY <1>1, <1>3, <1>4, <2>1, <3>2, <3>3, ConsumeExplained, SMTT(30)
    <3>5. PICK g \in Pairings(larger) :
            /\ Explains(g)'
            /\ \A c \in Cells : Cardinality(Exact(g, c)) =
                 Cardinality(Exact(f, c)) + (IF c = b /\ c = o THEN n ELSE 0)
      BY <3>4
    <3>6. \A c \in Cells : Cardinality(Exact(f, c)) \in Nat
      BY <3>2, PairingParts
    <3>7. \A c \in Cells : Cardinality(Exact(g, c)) = Cardinality(Exact(f, c))
      BY <3>3, <3>5, <3>6
    <3>8. ExactSoFar(g)'
      BY <3>2, <3>7, <1>1, ExactSettled
    <3> QED
      BY <3>5, <3>8, <1>1, RowsStay DEF Accounted
  <2>2. CASE ~close /\ UNCHANGED <<missing, extra, reconciled>>
    BY <2>2, <1>1, AccountKept
  <2> QED
    BY <2>1, <2>2, <1>2
<1> QED
  BY <1>7, <1>8, <1>9

\* compare_multisets keeps its account at every turn of its loops: some pairing
\* of the rows explains what has left the Counters, and nothing the loops are
\* done with could still be paired off.
THEOREM AccountIsKept == Spec => []IInv
<1>1. IInv /\ [Next]_vars => IInv'
  <2> SUFFICES ASSUME IInv, [Next]_vars PROVE IInv'
    OBVIOUS
  <2>1. CASE Next
    BY <2>1, FetchBaseStep, FetchOtherStep, CountStep, ExactRowStep,
       ExactDoneStep, NextBaseRowStep, PairStep, ReturnStep DEF Next
  <2>2. CASE UNCHANGED vars
    <3> USE DEF vars, IInv
    <3>1. TypeOK'
      BY <2>2 DEF TypeOK
    <3>2. Visited'
      BY <2>2 DEF Visited, Clear
    <3>3. Accounted'
      <4>1. CASE pc = "fetch"
        BY <4>1, <2>2 DEF Accounted
      <4>2. CASE pc # "fetch"
        <5>1. PICK domain \in SUBSET DOMAIN base : \E f \in Pairings(domain) :
                Explains(f) /\ ExactSoFar(f)
          BY <4>2 DEF Accounted
        <5>2. PICK f \in Pairings(domain) : Explains(f) /\ ExactSoFar(f)
          BY <5>1
        <5>3. Explains(f)'
          BY <5>2, <2>2, StillExplained
        <5>4. ExactSoFar(f)'
          BY <5>2, <2>2, RowsStay DEF ExactSoFar
        <5> QED
          BY <5>2, <5>3, <5>4, <2>2, RowsStay DEF Accounted
      <4> QED
        BY <4>1, <4>2
    <3> QED
      BY <3>1, <3>2, <3>3
  <2> QED
    BY <2>1, <2>2
<1> QED
  BY InitIInv, <1>1, PTL DEF Spec

-----------------------------------------------------------------------------
(* What the answer means *)

\* A row is left over when its Counter says so.
LEMMA LeftOver ==
  ASSUME TypeOK, NEW domain \in SUBSET DOMAIN base, NEW f \in Pairings(domain),
         Explains(f), NEW c \in Cells
  PROVE  /\ missing[c] = 0 <=> BaseLeft(f, c) = {}
         /\ extra[c] = 0 <=> OtherLeft(f, c) = {}
<1>1. /\ missing[c] = Cardinality(BaseLeft(f, c))
      /\ extra[c] = Cardinality(OtherLeft(f, c))
  BY DEF Explains
<1> QED
  BY <1>1, PairingParts, FS_EmptySet

\* Of a result that has been reported, no row left over on one side agrees with
\* one left over on the other.
LEMMA NothingLeftAgrees ==
  ASSUME IInv, pc = "done", NEW b \in Cells, NEW o \in Cells,
         missing[b] > 0, extra[o] > 0
  PROVE  ~_values_close(b, o)
<1> USE DEF IInv
<1>1. PICK domain \in SUBSET DOMAIN base : \E f \in Pairings(domain) :
        Explains(f) /\ ExactSoFar(f)
  BY DEF Accounted
<1>2. PICK f \in Pairings(domain) : Explains(f)
  BY <1>1
<1>3. missing[b] # 0 /\ extra[o] # 0
  BY DEF TypeOK
<1>4. BaseLeft(f, b) # {} /\ OtherLeft(f, o) # {}
  BY <1>2, <1>3, LeftOver
<1>5. PICK k \in DOMAIN base, l \in DOMAIN other : base[k] = b /\ other[l] = o
  BY <1>4 DEF BaseLeft, OtherLeft
<1>6. /\ DOMAIN base = 1..Len(base) /\ DOMAIN other = 1..Len(other)
      /\ i = Len(base) + 1 /\ Len(base) \in Nat
  BY Positions DEF Visited
<1>7. k \in 1..(i - 1) /\ l \in 1..Len(other)
  BY <1>6
<1>8. Clear(base[k], other[l])
  BY <1>7 DEF Visited
<1> QED
  BY <1>3, <1>5, <1>8 DEF Clear

\* What is reported is what cannot be accounted for, for results of any length:
\* the diff that the campaign writes into its findings is right.
THEOREM ReportIsTheRemainder == Spec => []ReportsTheRemainder
<1>1. IInv => ReportsTheRemainder
  <2> SUFFICES ASSUME IInv, pc = "done" PROVE ReportsTheRemainder
    BY DEF ReportsTheRemainder
  <2>1. \E domain \in SUBSET DOMAIN base : \E f \in Pairings(domain) :
          /\ Explains(f)
          /\ \A c \in Cells : Cardinality(Exact(f, c)) =
                                Least(Counter(base)[c], Counter(other)[c])
    BY DEF IInv, Accounted, ExactSoFar
  <2> QED
    BY <2>1, NothingLeftAgrees DEF ReportsTheRemainder
<1> QED
  BY <1>1, AccountIsKept, PTL

\* A pairing that leaves nothing over on the one side, or on either.
LEMMA FullPairing ==
  ASSUME TypeOK, NEW domain \in SUBSET DOMAIN base, NEW f \in Pairings(domain),
         Explains(f), \A c \in Cells : missing[c] = 0
  PROVE  /\ domain = DOMAIN base /\ f \in Injection(DOMAIN base, DOMAIN other)
         /\ (\A c \in Cells : extra[c] = 0)
              <=> f \in Surjection(DOMAIN base, DOMAIN other)
<1>1. DOMAIN f = domain /\ f \in [domain -> DOMAIN other]
  BY PairingParts
<1>2. /\ \A k \in DOMAIN base : base[k] \in Cells
      /\ \A k \in DOMAIN other : other[k] \in Cells
  BY Positions, RowsAreCells
<1>3. \A c \in Cells : BaseLeft(f, c) = {}
  BY LeftOver
<1>4. domain = DOMAIN base
  BY <1>1, <1>2, <1>3 DEF BaseLeft
<1>5. f \in Injection(DOMAIN base, DOMAIN other)
  BY <1>1, <1>4 DEF Pairings, Injective, Injection, IsInjective
<1>6. (\A c \in Cells : extra[c] = 0) <=> \A c \in Cells : OtherLeft(f, c) = {}
  BY LeftOver
<1>7. (\A c \in Cells : OtherLeft(f, c) = {})
        <=> \A l \in DOMAIN other : \E k \in DOMAIN base : f[k] = l
  BY <1>1, <1>2, <1>4 DEF OtherLeft
<1> QED
  BY <1>1, <1>4, <1>5, <1>6, <1>7 DEF Surjection

\* A mismatch is never passed, whatever the two results: what compare_multisets
\* calls equal can be paired off row by row.
THEOREM MismatchIsNeverPassed == Spec => []NoFalsePass
<1>1. IInv => NoFalsePass
  <2> SUFFICES ASSUME IInv, pc = "done", Equal PROVE CanBePaired
    BY DEF NoFalsePass
  <2> USE DEF IInv
  <2>1. PICK domain \in SUBSET DOMAIN base : \E f \in Pairings(domain) :
          Explains(f) /\ ExactSoFar(f)
    BY DEF Accounted
  <2>2. PICK f \in Pairings(domain) : Explains(f)
    BY <2>1
  <2>3. /\ domain = DOMAIN base /\ f \in Injection(DOMAIN base, DOMAIN other)
        /\ f \in Surjection(DOMAIN base, DOMAIN other)
    BY <2>2, FullPairing DEF Equal
  <2>4. Len(base) = Len(other)
    BY <2>3, Positions, FS_Injection
  <2> QED
    BY <2>2, <2>3, <2>4 DEF CanBePaired, Explains
<1> QED
  BY <1>1, AccountIsKept, PTL

\* Nor is a mismatch made up, as long as agreement is transitive among the rows
\* at hand.  Suppose all rows can be paired off and a row b is left over.  The
\* rows that agree with b are as many on both sides; but those of the other
\* side are all consumed, each by another row that agrees with b than the one
\* left over.
THEOREM MismatchIsNeverMadeUp == Spec => []NoFalseMismatch
<1>1. IInv => NoFalseMismatch
  <2> SUFFICES ASSUME IInv, pc = "done", Transitive, CanBePaired PROVE Equal
    BY DEF NoFalseMismatch
  <2> USE DEF IInv
  <2>1. PICK domain \in SUBSET DOMAIN base : \E f \in Pairings(domain) :
          Explains(f) /\ ExactSoFar(f)
    BY DEF Accounted
  <2>2. PICK f \in Pairings(domain) : Explains(f)
    BY <2>1
  <2>3. PICK g \in Pairings(DOMAIN base) : Agreeing(g)
    BY DEF CanBePaired
  <2>4. /\ IsFiniteSet(DOMAIN base) /\ IsFiniteSet(DOMAIN other)
        /\ Cardinality(DOMAIN base) = Cardinality(DOMAIN other)
        /\ \A k \in DOMAIN base : base[k] \in Cells /\ base[k] \in Rows
        /\ \A l \in DOMAIN other : other[l] \in Cells /\ other[l] \in Rows
    BY Positions, RowsAreCells DEF CanBePaired, Rows
  <2>5. ASSUME NEW b \in Cells, missing[b] # 0
        PROVE  FALSE
    <3> DEFINE K == {k \in DOMAIN base : _values_close(base[k], b)}
               L == {l \in DOMAIN other : _values_close(other[l], b)}
               D == {k \in domain : f[k] \in L}
    <3>1. /\ DOMAIN f = domain /\ f \in [domain -> DOMAIN other]
          /\ \A k \in domain : _values_close(base[k], other[f[k]])
      BY <2>2, PairingParts DEF Explains, Agreeing
    <3>2. /\ g \in [DOMAIN base -> DOMAIN other] /\ DOMAIN g = DOMAIN base
          /\ \A k, l \in DOMAIN base : g[k] = g[l] => k = l
          /\ \A k \in DOMAIN base : _values_close(base[k], other[g[k]])
      BY <2>3 DEF Pairings, Injective, Agreeing
    <3>3. PICK first \in DOMAIN base \ domain : base[first] = b
      <4>1. BaseLeft(f, b) # {}
        BY <2>2, <2>5, LeftOver
      <4> QED
        BY <4>1, <3>1 DEF BaseLeft
    <3>4. b \in Rows
      BY <3>3, <2>4
    <3>5. IsFiniteSet(K) /\ IsFiniteSet(L) /\ IsFiniteSet(D)
      <4>1. K \in SUBSET DOMAIN base /\ L \in SUBSET DOMAIN other
            /\ D \in SUBSET DOMAIN base
        OBVIOUS
      <4> QED
        BY <4>1, <2>4, FS_Subset
    \* The rows of base that agree with b are no more than those of other.
    <3>6. Cardinality(K) <= Cardinality(L)
      <4> DEFINE gK == [k \in K |-> g[k]]
      <4>1. ASSUME NEW k \in K PROVE g[k] \in L
        <5>1. /\ base[k] \in Cells /\ base[k] \in Rows
              /\ other[g[k]] \in Cells /\ other[g[k]] \in Rows
              /\ _values_close(base[k], b) /\ _values_close(base[k], other[g[k]])
          BY <2>4, <3>2
        <5>2. _values_close(other[g[k]], base[k])
          BY <5>1, CloseLaws
        <5>3. _values_close(other[g[k]], b)
          BY <5>1, <5>2, <3>4 DEF Transitive
        <5> QED
          BY <5>3, <3>2
      <4>2. gK \in [K -> L] /\ \A k, l \in K : gK[k] = gK[l] => k = l
        BY <4>1, <3>2
      <4> HIDE DEF gK, K, L
      <4>3. gK \in Injection(K, L)
        BY <4>2 DEF Injection, IsInjective
      <4> QED
        BY <4>3, <3>5, FS_Injection
    \* The rows of other that agree with b are all consumed.
    <3>7. Cardinality(L) <= Cardinality(D)
      <4> DEFINE fD == [k \in D |-> f[k]]
      <4>1. ASSUME NEW l \in L PROVE \E k \in D : f[k] = l
        <5>1. other[l] \in Cells /\ _values_close(b, other[l])
          BY <2>4, CloseLaws
        <5>2. missing[b] > 0
          BY <2>5 DEF TypeOK
        <5>3. extra[other[l]] \in Nat /\ ~(extra[other[l]] > 0)
          BY <5>1, <5>2, NothingLeftAgrees DEF TypeOK
        <5>4. OtherLeft(f, other[l]) = {}
          BY <5>1, <5>3, <2>2, LeftOver
        <5> QED
          BY <5>4, <3>1 DEF OtherLeft
      <4>2. fD \in [D -> L] /\ \A l \in L : \E k \in D : fD[k] = l
        BY <4>1
      <4> HIDE DEF fD, D, L
      <4>3. fD \in Surjection(D, L)
        BY <4>2 DEF Surjection
      <4> QED
        BY <4>3, <3>5, FS_Surjection
    \* They are consumed by rows of base that agree with b, but not by all.
    <3>8. Cardinality(D) < Cardinality(K)
      <4>1. ASSUME NEW k \in D PROVE k \in K \ {first}
        <5>1. /\ k \in DOMAIN base /\ base[k] \in Rows /\ other[f[k]] \in Rows
              /\ _values_close(base[k], other[f[k]])
              /\ _values_close(other[f[k]], b)
          BY <2>4, <3>1
        <5>2. _values_close(base[k], b)
          BY <5>1, <3>4 DEF Transitive
        <5> QED
          BY <5>1, <5>2, <3>3
      <4>2. first \in K
        BY <3>3, CloseLaws
      <4>3. D \in SUBSET K /\ D # K
        BY <4>1, <4>2
      <4> HIDE DEF D, K
      <4>4. /\ Cardinality(D) <= Cardinality(K) /\ Cardinality(D) # Cardinality(K)
            /\ Cardinality(D) \in Nat /\ Cardinality(K) \in Nat
        BY <4>3, <3>5, FS_Subset, FS_CardinalityType
      <4> QED
        BY <4>4
    <3> HIDE DEF D, K, L
    <3>9. /\ Cardinality(D) \in Nat /\ Cardinality(K) \in Nat
          /\ Cardinality(L) \in Nat
      BY <3>5, FS_CardinalityType
    <3> QED
      BY <3>6, <3>7, <3>8, <3>9
  <2>6. \A c \in Cells : missing[c] = 0
    BY <2>5
  \* With nothing left over in base, as many rows leave nothing in other.
  <2>7. /\ f \in Injection(DOMAIN base, DOMAIN other)
        /\ (\A c \in Cells : extra[c] = 0)
             <=> f \in Surjection(DOMAIN base, DOMAIN other)
    BY <2>2, <2>6, FullPairing
  <2>8. f \in Surjection(DOMAIN base, DOMAIN other)
    BY <2>4, <2>7, FS_Injection
  <2> QED
    BY <2>6, <2>7, <2>8 DEF Equal
<1> QED
  BY <1>1, AccountIsKept, PTL
=============================================================================
