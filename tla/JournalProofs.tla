--------------------------- MODULE JournalProofs ---------------------------
(***************************************************************************)
(* A log reads back as the queries that were begun, each with its own      *)
(* verdict, and a log cut off anywhere loses its tail only: for queries    *)
(* and logs of any length, as long as no verdict has a line of text of its *)
(* own.  (MCJournalReplay shows what happens when one has.)                *)
(***************************************************************************)
EXTENDS Journal, SequenceTheorems, FiniteSetTheorems, WellFoundedInduction, TLAPS

\* Two files start with the same n lines.
Agree(a, b, n) == \A i \in 1..n : a[i] = b[i]

\* Every non-empty set of natural numbers has a least element.
LEMMA LeastNumber ==
  ASSUME NEW S \in SUBSET Nat, S # {}
  PROVE  \E m \in S : \A k \in S : m <= k
<1>1. PICK m \in S : \A k \in S : ~(<<k, m>> \in OpToRel(<, Nat))
  BY NatLessThanWellFounded, WFMin
<1>2. \A k \in S : ~(k < m)
  BY <1>1 DEF OpToRel
<1> QED
  BY <1>2

-----------------------------------------------------------------------------
(* The loop of parse_journal                                               *)

\* What has been read after each line.
IsReading(f, file, n) ==
  f = [i \in 0..n |-> IF i = 0 THEN Nothing ELSE ReadLine(f[i - 1], file[i])]

LEMMA ReadingExists ==
  ASSUME NEW file, NEW n \in Nat
  PROVE  \E f : IsReading(f, file, n)
<1> DEFINE S == {m \in Nat : ~\E f : IsReading(f, file, m)}
<1>1. SUFFICES ASSUME S # {} PROVE FALSE
  OBVIOUS
<1>2. PICK m \in S : \A k \in S : m <= k
  BY <1>1, LeastNumber
<1>3. m # 0
  <2>1. IsReading([i \in 0..0 |-> Nothing], file, 0)
    BY DEF IsReading
  <2> QED
    BY <1>2, <2>1
<1>4. PICK g : IsReading(g, file, m - 1)
  <2>1. m - 1 \in Nat /\ m - 1 \notin S
    BY <1>2, <1>3
  <2> QED
    BY <2>1
<1> DEFINE f == [i \in 0..m |-> IF i = m THEN ReadLine(g[m - 1], file[m]) ELSE g[i]]
<1>5. IsReading(f, file, m)
  <2>1. ASSUME NEW i \in 0..m
        PROVE  f[i] = IF i = 0 THEN Nothing ELSE ReadLine(f[i - 1], file[i])
    <3>1. CASE i = 0
      BY <1>2, <1>3, <1>4, <3>1 DEF IsReading
    <3>2. CASE i # 0 /\ i # m
      <4>1. f[i] = g[i] /\ f[i - 1] = g[i - 1]
        BY <1>2, <1>3, <3>2
      <4>2. g[i] = ReadLine(g[i - 1], file[i])
        BY <1>2, <1>3, <1>4, <3>2 DEF IsReading
      <4> QED
        BY <3>2, <4>1, <4>2
    <3>3. CASE i = m
      <4>1. f[i - 1] = g[m - 1]
        BY <1>2, <1>3, <3>3
      <4> QED
        BY <1>2, <1>3, <3>3, <4>1
    <3> QED
      BY <3>1, <3>2, <3>3
  <2> HIDE DEF f
  <2>2. f = [i \in 0..m |-> f[i]]
    BY DEF f
  <2> QED
    BY <2>1, <2>2 DEF IsReading
<1> QED
  BY <1>2, <1>5

\* Two readings of the same lines are the same.
LEMMA ReadingUnique ==
  ASSUME NEW a, NEW b, NEW n \in Nat, NEW m \in Nat, n <= m,
         Agree(a, b, n), NEW f, IsReading(f, a, n), NEW g, IsReading(g, b, m)
  PROVE  f[n] = g[n]
<1> DEFINE S == {i \in 0..n : f[i] # g[i]}
<1>1. SUFFICES ASSUME S # {} PROVE FALSE
  OBVIOUS
<1>2. PICK i \in S : \A k \in S : i <= k
  <2>1. S \in SUBSET Nat
    OBVIOUS
  <2> QED
    BY <1>1, <2>1, LeastNumber
<1>3. i # 0
  BY <1>2 DEF IsReading
<1>4. i - 1 \in 0..n /\ i - 1 \notin S
  BY <1>2, <1>3
<1>5. f[i - 1] = g[i - 1]
  BY <1>4
<1>6. f[i] = ReadLine(f[i - 1], a[i]) /\ g[i] = ReadLine(g[i - 1], b[i])
  BY <1>2, <1>3 DEF IsReading
<1> QED
  BY <1>2, <1>3, <1>5, <1>6 DEF Agree

LEMMA ReadUpToIsReading ==
  ASSUME NEW file, NEW n \in Nat
  PROVE  \E f : IsReading(f, file, n) /\ ReadUpTo(file, n) = f[n]
<1> DEFINE f == CHOOSE f : IsReading(f, file, n)
<1>1. IsReading(f, file, n)
  BY ReadingExists
<1>2. ReadUpTo(file, n) = f[n]
  BY DEF ReadUpTo, IsReading
<1> QED
  BY <1>1, <1>2

\* Nothing is read of no lines.
LEMMA ReadOfNone == ASSUME NEW file PROVE ReadUpTo(file, 0) = Nothing
<1>1. PICK f : IsReading(f, file, 0) /\ ReadUpTo(file, 0) = f[0]
  BY ReadUpToIsReading
<1> QED
  BY <1>1 DEF IsReading

\* One turn of the loop.
LEMMA ReadOfOneMore ==
  ASSUME NEW file, NEW n \in Nat
  PROVE  ReadUpTo(file, n + 1) = ReadLine(ReadUpTo(file, n), file[n + 1])
<1>1. PICK f : IsReading(f, file, n) /\ ReadUpTo(file, n) = f[n]
  BY ReadUpToIsReading
<1>2. PICK g : IsReading(g, file, n + 1) /\ ReadUpTo(file, n + 1) = g[n + 1]
  BY ReadUpToIsReading
<1>3. f[n] = g[n]
  <2>1. n + 1 \in Nat /\ n <= n + 1 /\ Agree(file, file, n)
    BY DEF Agree
  <2> QED
    BY <1>1, <1>2, <2>1, ReadingUnique
<1>4. g[n + 1] = ReadLine(g[n], file[n + 1])
  BY <1>2 DEF IsReading
<1> QED
  BY <1>1, <1>2, <1>3, <1>4

\* What has been read depends on the lines read only.
LEMMA ReadDependsOnLines ==
  ASSUME NEW a, NEW b, NEW n \in Nat, \A i \in 1..n : a[i] = b[i]
  PROVE  ReadUpTo(a, n) = ReadUpTo(b, n)
<1>1. PICK f : IsReading(f, a, n) /\ ReadUpTo(a, n) = f[n]
  BY ReadUpToIsReading
<1>2. PICK g : IsReading(g, b, n) /\ ReadUpTo(b, n) = g[n]
  BY ReadUpToIsReading
<1>3. n <= n /\ Agree(a, b, n)
  BY DEF Agree
<1>4. f[n] = g[n]
  BY ONLY <1>1, <1>2, <1>3, n \in Nat, ReadingUnique
<1> QED
  BY <1>1, <1>2, <1>4

\* Comments and blank lines are passed over, however many.
LEMMA SkippedLines ==
  ASSUME NEW file, NEW n \in Nat, NEW m \in Nat, n <= m,
         \A i \in (n + 1)..m : file[i].kind \in {"comment", "blank"}
  PROVE  ReadUpTo(file, m) = ReadUpTo(file, n)
<1> DEFINE S == {i \in n..m : ReadUpTo(file, i) # ReadUpTo(file, n)}
<1>1. SUFFICES ASSUME S # {} PROVE FALSE
  OBVIOUS
<1>2. PICK i \in S : \A k \in S : i <= k
  <2>1. S \in SUBSET Nat
    OBVIOUS
  <2> QED
    BY <1>1, <2>1, LeastNumber
<1>3. i # n
  BY <1>2
<1>4. i - 1 \in n..m /\ i - 1 \notin S /\ i - 1 \in Nat /\ i \in (n + 1)..m
  BY <1>2, <1>3
<1>5. ReadUpTo(file, i - 1) = ReadUpTo(file, n)
  BY <1>4
<1>6. ReadUpTo(file, i) = ReadLine(ReadUpTo(file, i - 1), file[i])
  <2>1. PICK j : j = i - 1
    OBVIOUS
  <2>2. j \in Nat /\ i = j + 1
    BY <1>4, <2>1
  <2> QED
    BY <2>1, <2>2, ReadOfOneMore
<1>7. ReadLine(ReadUpTo(file, i - 1), file[i]) = ReadUpTo(file, i - 1)
  BY <1>4 DEF ReadLine
<1> QED
  BY <1>2, <1>5, <1>6, <1>7

-----------------------------------------------------------------------------
(* A query is read back                                                    *)

\* IsText, for a query that need not be in the log.
TextOf(sql, query, n, m) ==
  /\ {<<line.of, line.pos>> : line \in Range(sql)} =
       {n} \X {i \in 1..m : query[i] # "blank"}
  /\ \A i, j \in DOMAIN sql : i < j => sql[i].pos < sql[j].pos

\* One more line of text, or a blank one.
LEMMA TextGrows ==
  ASSUME NEW sql \in Seq(Lines), NEW query, NEW n \in Nat, NEW m \in Nat,
         TextOf(sql, query, n, m), query[m + 1] # "blank",
         NEW line \in Lines, line.of = n, line.pos = m + 1
  PROVE  TextOf(Append(sql, line), query, n, m + 1) /\ Append(sql, line) \in Seq(Lines)
<1> DEFINE more == Append(sql, line)
           Of(m0) == {i \in 1..m0 : query[i] # "blank"}
<1>1. /\ more \in Seq(Lines) /\ Len(more) = Len(sql) + 1 /\ Len(sql) \in Nat
      /\ DOMAIN more = 1..(Len(sql) + 1) /\ DOMAIN sql = 1..Len(sql)
      /\ \A i \in 1..Len(sql) : more[i] = sql[i] /\ sql[i] \in Lines
      /\ more[Len(sql) + 1] = line
  OBVIOUS
<1>2. \A i \in DOMAIN sql : sql[i].of = n /\ sql[i].pos \in Of(m)
  <2> SUFFICES ASSUME NEW i \in DOMAIN sql PROVE sql[i].of = n /\ sql[i].pos \in Of(m)
    OBVIOUS
  <2>1. sql[i] \in Range(sql)
    BY DEF Range
  <2>2. <<sql[i].of, sql[i].pos>> \in {n} \X Of(m)
    BY <2>1 DEF TextOf
  <2> QED
    BY <2>2
<1>3. \A k \in Of(m) : \E i \in DOMAIN sql : sql[i].of = n /\ sql[i].pos = k
  <2> SUFFICES ASSUME NEW k \in Of(m)
               PROVE  \E i \in DOMAIN sql : sql[i].of = n /\ sql[i].pos = k
    OBVIOUS
  <2>1. <<n, k>> \in {<<l.of, l.pos>> : l \in Range(sql)}
    BY DEF TextOf
  <2>2. PICK l \in Range(sql) : <<n, k>> = <<l.of, l.pos>>
    BY <2>1
  <2>3. PICK i \in DOMAIN sql : sql[i] = l
    BY DEF Range
  <2> QED
    BY <2>2, <2>3
<1>4. Of(m + 1) = Of(m) \cup {m + 1}
  OBVIOUS
<1>5. \A k \in Of(m) : k \in Nat /\ k < m + 1
  OBVIOUS
<1> HIDE DEF more, Of
<1>6. {<<l.of, l.pos>> : l \in Range(more)} = {n} \X Of(m + 1)
  <2>1. ASSUME NEW l \in Range(more) PROVE l.of = n /\ l.pos \in Of(m + 1)
    <3>1. PICK i \in DOMAIN more : more[i] = l
      BY DEF Range
    <3>2. CASE i <= Len(sql)
      BY <1>1, <1>2, <1>4, <3>1, <3>2
    <3>3. CASE i = Len(sql) + 1
      BY <1>1, <1>4, <3>1, <3>3
    <3> QED
      BY <1>1, <3>2, <3>3
  <2>2. ASSUME NEW k \in Of(m + 1) PROVE \E l \in Range(more) : l.of = n /\ l.pos = k
    <3>1. CASE k = m + 1
      <4>1. line \in Range(more)
        BY <1>1 DEF Range
      <4> QED
        BY <3>1, <4>1
    <3>2. CASE k \in Of(m)
      <4>1. PICK i \in DOMAIN sql : sql[i].of = n /\ sql[i].pos = k
        BY <1>3, <3>2
      <4>2. sql[i] \in Range(more)
        BY <1>1, <4>1 DEF Range
      <4> QED
        BY <4>1, <4>2
    <3> QED
      BY <1>4, <3>1, <3>2
  <2> QED
    BY <2>1, <2>2
<1>7. ASSUME NEW i \in DOMAIN more, NEW j \in DOMAIN more, i < j
      PROVE  more[i].pos < more[j].pos
  <2>1. i \in DOMAIN sql /\ more[i] = sql[i]
    BY <1>1, <1>7
  <2>2. CASE j <= Len(sql)
    BY <1>1, <1>7, <2>1, <2>2 DEF TextOf
  <2>3. CASE j = Len(sql) + 1
    BY <1>1, <1>2, <1>5, <2>1, <2>3
  <2> QED
    BY <1>1, <2>2, <2>3
<1> QED
  BY <1>1, <1>6, <1>7 DEF TextOf, Of, more

LEMMA TextStays ==
  ASSUME NEW sql, NEW query, NEW n, NEW m \in Nat,
         TextOf(sql, query, n, m), query[m + 1] = "blank"
  PROVE  TextOf(sql, query, n, m + 1)
<1>1. {i \in 1..(m + 1) : query[i] # "blank"} = {i \in 1..m : query[i] # "blank"}
  OBVIOUS
<1> QED
  BY <1>1 DEF TextOf

LEMMA NoText == ASSUME NEW query, NEW n PROVE TextOf(<<>>, query, n, 0)
<1>1. Range(<<>>) = {} /\ DOMAIN <<>> = {} /\ {i \in 1..0 : query[i] # "blank"} = {}
  BY DEF Range
<1> QED
  BY <1>1 DEF TextOf

\* The lines of a query.
LEMMA LinesOfQuery ==
  ASSUME NEW query \in Queries, NEW n \in Nat
  PROVE  /\ Len(query) \in Nat \ {0} /\ DOMAIN query = 1..Len(query)
         /\ QueryLines(query, n) \in Seq(Lines)
         /\ Len(QueryLines(query, n)) = Len(query)
         /\ query[1] = "text" /\ query[Len(query)] = "text"
         /\ \A i \in 1..Len(query) :
              /\ query[i] \in {"text", "blank"}
              /\ QueryLines(query, n)[i] =
                   Line(IF i = Len(query) THEN "semi" ELSE query[i], n, i, 0)
<1>1. /\ query \in Seq({"text", "blank"}) /\ query # <<>>
      /\ query[1] = "text" /\ query[Len(query)] = "text"
  BY JournalAssumption
<1>2. Len(query) \in Nat \ {0} /\ DOMAIN query = 1..Len(query)
  BY <1>1
<1>3. \A i \in 1..Len(query) : query[i] \in {"text", "blank"}
  BY <1>1
<1>4. \A i \in 1..Len(query) :
        Line(IF i = Len(query) THEN "semi" ELSE query[i], n, i, 0) \in Lines
  <2> SUFFICES ASSUME NEW i \in 1..Len(query)
               PROVE  Line(IF i = Len(query) THEN "semi" ELSE query[i], n, i, 0) \in Lines
    OBVIOUS
  <2>1. PICK kind : kind = IF i = Len(query) THEN "semi" ELSE query[i]
    OBVIOUS
  <2>2. kind \in {"text", "semi", "blank"} /\ i \in Nat
    <3>1. kind = "semi" \/ kind = query[i]
      BY <2>1
    <3>2. query[i] \in {"text", "blank"}
      BY <1>3
    <3> QED
      BY <3>1, <3>2
  <2>3. Line(kind, n, i, 0) \in Lines
    BY <2>2 DEF Line, Lines
  <2> QED
    BY <2>1, <2>3
<1>5. QueryLines(query, n) =
        [i \in 1..Len(query) |->
           Line(IF i = Len(query) THEN "semi" ELSE query[i], n, i, 0)]
  BY <1>2 DEF QueryLines
<1> DEFINE F == QueryLines(query, n)
<1>6. F \in [1..Len(query) -> Lines]
  BY <1>4, <1>5
<1>7. F \in Seq(Lines) /\ Len(F) = Len(query)
  <2> HIDE DEF F
  <2> QED
    BY <1>2, <1>6
<1> QED
  BY <1>1, <1>2, <1>3, <1>5, <1>7

LEMMA LineOfQuery ==
  ASSUME NEW query \in Queries, NEW n \in Nat, NEW i \in 1..Len(query)
  PROVE  LET line == QueryLines(query, n)[i] IN
         /\ line.of = n /\ line.pos = i /\ line.verdict = 0
         /\ line.kind = IF i = Len(query) THEN "semi" ELSE query[i]
<1>1. PICK kind : kind = IF i = Len(query) THEN "semi" ELSE query[i]
  OBVIOUS
<1>2. QueryLines(query, n)[i] = Line(kind, n, i, 0)
  BY <1>1, LinesOfQuery
<1>3. /\ Line(kind, n, i, 0).of = n /\ Line(kind, n, i, 0).pos = i
      /\ Line(kind, n, i, 0).verdict = 0 /\ Line(kind, n, i, 0).kind = kind
  BY DEF Line
<1> QED
  BY <1>1, <1>2, <1>3

\* Where a query stands in a file.
StandsAt(file, at, query, n) ==
  \A i \in 1..Len(query) : file[at + i] = QueryLines(query, n)[i]

\* The lines of a query but the last wait for it.
LEMMA QueryWaits ==
  ASSUME NEW file, NEW at \in Nat, NEW query \in Queries, NEW n \in Nat, NEW E,
         StandsAt(file, at, query, n), ReadUpTo(file, at) = Read(E, <<>>)
  PROVE  \A j \in 0..(Len(query) - 1) :
           \E sql \in Seq(Lines) :
             ReadUpTo(file, at + j) = Read(E, sql) /\ TextOf(sql, query, n, j)
<1> DEFINE Waits(j) == \E sql \in Seq(Lines) :
                         ReadUpTo(file, at + j) = Read(E, sql) /\ TextOf(sql, query, n, j)
           S == {j \in 0..(Len(query) - 1) : ~Waits(j)}
<1>1. SUFFICES ASSUME S # {} PROVE FALSE
  OBVIOUS
<1>2. PICK j \in S : \A k \in S : j <= k
  <2>1. S \in SUBSET Nat
    OBVIOUS
  <2> QED
    BY <1>1, <2>1, LeastNumber
<1>3. Len(query) \in Nat \ {0} /\ j \in Nat
  BY <1>2, LinesOfQuery
<1>4. j # 0
  <2>1. at + 0 = at /\ <<>> \in Seq(Lines)
    OBVIOUS
  <2>2. Waits(0)
    BY <2>1, NoText
  <2> QED
    BY <1>2, <2>2
<1>5. PICK m \in Nat : j = m + 1
  BY <1>3, <1>4
<1>6. m \in 0..(Len(query) - 1) /\ m \notin S /\ m + 1 \in 1..Len(query) /\ m + 1 # Len(query)
  BY <1>2, <1>3, <1>5
<1>7. PICK sql \in Seq(Lines) :
        ReadUpTo(file, at + m) = Read(E, sql) /\ TextOf(sql, query, n, m)
  BY <1>6
<1> HIDE DEF S
<1>8. ReadUpTo(file, at + j) = ReadLine(Read(E, sql), file[at + j])
  <2>1. PICK k : k = at + m
    OBVIOUS
  <2>2. k \in Nat /\ at + j = k + 1
    BY <1>5, <2>1
  <2> QED
    BY <1>7, <2>1, <2>2, ReadOfOneMore
<1>9. /\ file[at + j] = Line(query[m + 1], n, m + 1, 0)
      /\ query[m + 1] \in {"text", "blank"} /\ file[at + j] \in Lines
  <2>1. /\ query[m + 1] \in {"text", "blank"}
        /\ QueryLines(query, n)[m + 1] = Line(query[m + 1], n, m + 1, 0)
        /\ QueryLines(query, n)[m + 1] \in Lines
    BY <1>6, LinesOfQuery
  <2>2. file[at + j] = QueryLines(query, n)[m + 1]
    BY <1>5, <1>6 DEF StandsAt
  <2> QED
    BY <2>1, <2>2
<1> DEFINE line == file[at + j]
<1>10. line.kind = query[m + 1] /\ line.of = n /\ line.pos = m + 1
  BY <1>9 DEF Line
<1>11. CASE query[m + 1] = "blank"
  <2>1. ReadLine(Read(E, sql), line) = Read(E, sql)
    BY <1>10, <1>11 DEF ReadLine
  <2>2. TextOf(sql, query, n, m + 1)
    BY <1>7, <1>11, TextStays
  <2>3. Waits(j)
    BY <1>5, <1>8, <2>1, <2>2
  <2> QED
    BY <1>2, <2>3 DEF S
<1>12. CASE query[m + 1] = "text"
  <2>1. ReadLine(Read(E, sql), line) = Read(E, Append(sql, line))
    BY <1>10, <1>12 DEF ReadLine, Read
  <2>2. /\ TextOf(Append(sql, line), query, n, m + 1)
        /\ Append(sql, line) \in Seq(Lines)
    BY <1>7, <1>9, <1>10, <1>12, TextGrows
  <2>3. Waits(j)
    BY <1>5, <1>8, <2>1, <2>2
  <2> QED
    BY <1>2, <2>3 DEF S
<1> QED
  BY <1>9, <1>11, <1>12

\* The last one, with the semicolon, makes it an entry.
LEMMA QueryIsRead ==
  ASSUME NEW file, NEW at \in Nat, NEW query \in Queries, NEW n \in Nat, NEW E,
         StandsAt(file, at, query, n), ReadUpTo(file, at) = Read(E, <<>>)
  PROVE  \E sql \in Seq(Lines) :
           /\ ReadUpTo(file, at + Len(query)) = Read(Append(E, JournalEntry(sql, 0)), <<>>)
           /\ TextOf(sql, query, n, Len(query))
<1>1. /\ Len(query) \in Nat \ {0} /\ query[Len(query)] = "text"
      /\ QueryLines(query, n)[Len(query)] = Line("semi", n, Len(query), 0)
      /\ QueryLines(query, n)[Len(query)] \in Lines
  BY LinesOfQuery
<1>2. PICK m \in Nat : Len(query) = m + 1
  BY <1>1
<1>3. m \in 0..(Len(query) - 1)
  BY <1>2
<1>4. PICK sql \in Seq(Lines) :
        ReadUpTo(file, at + m) = Read(E, sql) /\ TextOf(sql, query, n, m)
  BY <1>3, QueryWaits, SMTT(30)
<1> DEFINE line == file[at + Len(query)]
<1>5. /\ line \in Lines /\ line = Line("semi", n, m + 1, 0)
  BY <1>1, <1>2 DEF StandsAt
<1>6. line.kind = "semi" /\ line.of = n /\ line.pos = m + 1
  BY <1>5 DEF Line
<1>7. ReadUpTo(file, at + Len(query)) = ReadLine(Read(E, sql), line)
  <2>1. PICK k : k = at + m
    OBVIOUS
  <2>2. k \in Nat /\ at + Len(query) = k + 1
    BY <1>2, <2>1
  <2> QED
    BY <1>4, <2>1, <2>2, ReadOfOneMore
<1> HIDE DEF line
<1>8. ReadLine(Read(E, sql), line) = Read(Append(E, JournalEntry(Append(sql, line), 0)), <<>>)
  BY <1>6 DEF ReadLine, Read
<1>9. TextOf(Append(sql, line), query, n, m + 1) /\ Append(sql, line) \in Seq(Lines)
  <2>1. query[m + 1] # "blank"
    BY <1>1, <1>2
  <2> QED
    BY <1>4, <1>5, <1>6, <2>1, TextGrows
<1> QED
  BY <1>2, <1>7, <1>8, <1>9

-----------------------------------------------------------------------------
(* The log of a round that goes on                                         *)

EntryType == [sql : Seq(Lines), verdict : Nat]

LEMMA WholeIsText ==
  \A sql, n, m : IsText(sql, n, m) <=> TextOf(sql, begun[n], n, m)
BY DEF IsText, TextOf

\* A verdict goes to the entry that was read last.
LEMMA LastIsAnnotated ==
  ASSUME NEW E \in Seq(EntryType), NEW sql \in Seq(Lines), NEW old \in Nat,
         NEW line, line.kind = "annotation"
  PROVE  ReadLine(Read(Append(E, JournalEntry(sql, old)), <<>>), line)
           = Read(Append(E, JournalEntry(sql, line.verdict)), <<>>)
<1> DEFINE x == JournalEntry(sql, old)
           y == JournalEntry(sql, line.verdict)
           X == Append(E, x)
<1>1. x.sql = sql
  BY DEF JournalEntry
<1>2. /\ Len(X) = Len(E) + 1 /\ DOMAIN X = 1..(Len(E) + 1) /\ Len(E) \in Nat
      /\ X[Len(E) + 1] = x /\ \A i \in 1..Len(E) : X[i] = E[i]
  OBVIOUS
<1>3. Annotated(X, line.verdict) = [X EXCEPT ![Len(E) + 1] = y]
  <2> HIDE DEF X, x
  <2> QED
    BY <1>1, <1>2 DEF Annotated
<1>4. [X EXCEPT ![Len(E) + 1] = y] = Append(E, y)
  <2> DEFINE T == EntryType \cup {x, y}
  <2> HIDE DEF x, y
  <2>1. E \in Seq(T) /\ x \in T /\ y \in T
    OBVIOUS
  <2> HIDE DEF T
  <2>2. X \in Seq(T) /\ Append(E, y) \in Seq(T) /\ Len(Append(E, y)) = Len(E) + 1
    BY <2>1
  <2>3. \A i \in 1..(Len(E) + 1) : Append(E, y)[i] = IF i = Len(E) + 1 THEN y ELSE E[i]
    BY <2>1
  <2> DEFINE Y == [X EXCEPT ![Len(E) + 1] = y]
  <2>4. Len(E) + 1 \in 1..Len(X)
    BY <1>2
  <2> HIDE DEF X
  <2>5. /\ Y \in Seq(T) /\ Len(Y) = Len(E) + 1
        /\ \A i \in 1..(Len(E) + 1) : Y[i] = IF i = Len(E) + 1 THEN y ELSE X[i]
    BY <1>2, <2>1, <2>2, <2>4, ExceptSeq
  <2> HIDE DEF Y
  <2>6. \A i \in 1..Len(Y) : Y[i] = Append(E, y)[i]
    BY <1>2, <2>3, <2>5
  <2>7. Y = Append(E, y)
    BY <2>2, <2>5, <2>6, SeqEqual
  <2> QED
    BY <2>7 DEF Y
<1>5. X # <<>>
  <2> HIDE DEF x
  <2> QED
    OBVIOUS
<1>6. Read(X, <<>>).entries = X /\ Read(X, <<>>).pending = <<>>
  BY DEF Read
<1> HIDE DEF X, x, y
<1>7. ReadLine(Read(X, <<>>), line) = Read(Annotated(X, line.verdict), <<>>)
  BY <1>5, <1>6 DEF ReadLine
<1> QED
  BY <1>3, <1>4, <1>7 DEF X, x, y

\* The place of the last query, with its lines and what was read before them.
LEMMA LastPlace ==
  ASSUME TypeOK, begun # <<>>, NEW at \in 0..Len(lines), LastStandsAfter(at),
         NEW n, n = Len(begun), NEW query, query = begun[n]
  PROVE  /\ n \in Nat \ {0} /\ query \in Queries /\ Len(query) \in Nat \ {0}
         /\ at \in Nat /\ Len(lines) \in Nat /\ at + Len(query) <= Len(lines)
         /\ StandsAt(lines, at, query, n)
         /\ \E E \in Seq(EntryType) :
              /\ ReadUpTo(lines, at) = Read(E, <<>>) /\ Len(E) = n - 1
              /\ \A i \in 1..(n - 1) : IsWhole(E[i].sql, i) /\ E[i].verdict = i
<1>1. n \in Nat \ {0} /\ query \in Queries /\ at \in Nat /\ Len(lines) \in Nat
  BY DEF TypeOK
<1>2. Len(query) \in Nat \ {0}
  BY <1>1, LinesOfQuery
<1>3. at + Len(query) <= Len(lines)
  BY DEF LastStandsAfter
<1>4. StandsAt(lines, at, query, n)
  BY DEF LastStandsAfter, StandsAt
<1>5. Done(ReadUpTo(lines, at), n - 1)
  BY DEF LastStandsAfter
<1> QED
  BY <1>1, <1>2, <1>3, <1>4, <1>5 DEF Done, EntryType

\* What is read of it without its verdict and with it, and of the log as a whole.
ReadsAs(sql, at, query, n, E) ==
  /\ TextOf(sql, query, n, Len(query))
  /\ ReadUpTo(lines, at + Len(query)) = Read(Append(E, JournalEntry(sql, 0)), <<>>)
  /\ ~open => \A k \in (at + Len(query) + 1)..Len(lines) :
                ReadUpTo(lines, k) = Read(Append(E, JournalEntry(sql, n)), <<>>)

LEMMA LastIsRead ==
  ASSUME TypeOK, begun # <<>>, NEW at \in 0..Len(lines), LastStandsAfter(at),
         NEW n, n = Len(begun), NEW query, query = begun[n],
         NEW E \in Seq(EntryType),
         ReadUpTo(lines, at) = Read(E, <<>>)
  PROVE  \E sql \in Seq(Lines) :
           ReadsAs(sql, at, query, n, E)
<1>1. query = begun[n]
  OBVIOUS
<1>2. /\ n \in Nat \ {0} /\ query \in Queries /\ Len(query) \in Nat \ {0}
      /\ at \in Nat /\ Len(lines) \in Nat /\ at + Len(query) <= Len(lines)
      /\ StandsAt(lines, at, query, n)
  BY <1>1, LastPlace
<1>3. PICK sql \in Seq(Lines) :
        /\ ReadUpTo(lines, at + Len(query)) = Read(Append(E, JournalEntry(sql, 0)), <<>>)
        /\ TextOf(sql, query, n, Len(query))
  BY <1>2, QueryIsRead
<1>4. PICK last \in Nat : last = at + Len(query)
  BY <1>2
<1>5. ASSUME ~open, NEW k \in (last + 1)..Len(lines)
      PROVE  ReadUpTo(lines, k) = Read(Append(E, JournalEntry(sql, n)), <<>>)
  <2>1. /\ lines[last + 1] = Line("annotation", 0, 0, n)
        /\ \A i \in (last + 2)..Len(lines) : lines[i] = Plain("blank")
    BY <1>1, <1>4, <1>5 DEF LastStandsAfter
  <2>2. lines[last + 1].kind = "annotation" /\ lines[last + 1].verdict = n
    BY <2>1 DEF Line
  <2>3. ReadUpTo(lines, last + 1) =
          ReadLine(Read(Append(E, JournalEntry(sql, 0)), <<>>), lines[last + 1])
    BY <1>3, <1>4, ReadOfOneMore
  <2>4. ReadUpTo(lines, last + 1) = Read(Append(E, JournalEntry(sql, n)), <<>>)
    BY <2>2, <2>3, LastIsAnnotated
  <2>5. PICK m \in Nat : m = last + 1
    OBVIOUS
  <2>6. \A i \in (m + 1)..k : lines[i].kind \in {"comment", "blank"}
    <3>1. \A i \in (m + 1)..k : i \in (last + 2)..Len(lines)
      BY <1>2, <2>5
    <3>2. Plain("blank").kind = "blank"
      BY DEF Plain, Line
    <3> QED
      BY <2>1, <3>1, <3>2
  <2>7. ReadUpTo(lines, k) = ReadUpTo(lines, m)
    <3>1. k \in Nat /\ m <= k
      BY <1>2, <2>5
    <3> QED
      BY <2>6, <3>1, SkippedLines
  <2> QED
    BY <2>4, <2>5, <2>7
<1> QED
  BY <1>1, <1>3, <1>4, <1>5 DEF ReadsAs

LEMMA WholeLog ==
  ASSUME TypeOK, begun # <<>>, NEW at \in 0..Len(lines), LastStandsAfter(at),
         NEW n, n = Len(begun)
  PROVE  \E E \in Seq(EntryType), sql \in Seq(Lines) :
           /\ ReadUpTo(lines, Len(lines)) =
                Read(Append(E, JournalEntry(sql, IF open THEN 0 ELSE n)), <<>>)
           /\ IsWhole(sql, n) /\ Len(E) = n - 1
           /\ \A i \in 1..(n - 1) : IsWhole(E[i].sql, i) /\ E[i].verdict = i
<1>1. PICK query : query = begun[n]
  OBVIOUS
<1>2. /\ n \in Nat \ {0} /\ Len(query) \in Nat \ {0}
      /\ at \in Nat /\ Len(lines) \in Nat /\ at + Len(query) <= Len(lines)
  BY <1>1, LastPlace
<1>3. PICK E \in Seq(EntryType) :
        /\ ReadUpTo(lines, at) = Read(E, <<>>) /\ Len(E) = n - 1
        /\ \A i \in 1..(n - 1) : IsWhole(E[i].sql, i) /\ E[i].verdict = i
  BY <1>1, LastPlace
<1>4. PICK sql \in Seq(Lines) : ReadsAs(sql, at, query, n, E)
  BY <1>1, <1>3, LastIsRead
<1>5. IsWhole(sql, n)
  BY <1>1, <1>4, WholeIsText DEF IsWhole, ReadsAs
<1>6. ReadUpTo(lines, Len(lines)) =
        Read(Append(E, JournalEntry(sql, IF open THEN 0 ELSE n)), <<>>)
  <2>1. CASE open
    <3>1. Len(lines) = at + Len(query)
      BY <1>1, <2>1 DEF LastStandsAfter
    <3> QED
      BY <1>4, <2>1, <3>1 DEF ReadsAs
  <2>2. CASE ~open
    <3>1. Len(lines) > at + Len(query)
      BY <1>1, <2>2 DEF LastStandsAfter
    <3>2. Len(lines) \in (at + Len(query) + 1)..Len(lines)
      BY <1>2, <3>1
    <3> QED
      BY <1>4, <2>2, <3>2 DEF ReadsAs
  <2> QED
    BY <2>1, <2>2
<1> QED
  BY <1>3, <1>5, <1>6

\* So a log that goes on reads back as the round.
LEMMA GoesOn ==
  ASSUME IInv, ~torn
  PROVE  Replays /\ VerdictsStayWithQueries
<1>1. CASE begun = <<>>
  <2>1. Entries = <<>>
    BY <1>1 DEF IInv, Entries, parse_journal, Nothing, Read
  <2> QED
    BY <1>1, <2>1 DEF Replays, VerdictsStayWithQueries
<1>2. CASE begun # <<>>
  <2>0. PICK n : n = Len(begun)
    OBVIOUS
  <2> DEFINE v == IF open THEN 0 ELSE n
  <2>1. PICK at \in 0..Len(lines) : LastStandsAfter(at)
    BY <1>2 DEF IInv
  <2>2. PICK E \in Seq(EntryType), sql \in Seq(Lines) :
          /\ ReadUpTo(lines, Len(lines)) = Read(Append(E, JournalEntry(sql, v)), <<>>)
          /\ IsWhole(sql, n) /\ Len(E) = n - 1
          /\ \A i \in 1..(n - 1) : IsWhole(E[i].sql, i) /\ E[i].verdict = i
    BY <1>2, <2>0, <2>1, WholeLog DEF IInv
  <2> DEFINE x == JournalEntry(sql, v)
  <2>3. Entries = Append(E, x)
    BY <2>2 DEF Entries, parse_journal, Read
  <2>4. n \in Nat \ {0} /\ DOMAIN begun = 1..n
    BY <1>2, <2>0 DEF IInv, TypeOK
  <2>5. x.sql = sql /\ x.verdict = v
    BY DEF JournalEntry
  <2> HIDE DEF x, v
  <2>6. /\ Len(Entries) = n /\ DOMAIN Entries = 1..n /\ Entries[n] = x
        /\ \A i \in 1..(n - 1) : Entries[i] = E[i]
    BY <2>2, <2>3, <2>4
  <2>7. \A i \in 1..n : i = n \/ i \in 1..(n - 1)
    BY <2>4
  <2>8. Replays
    BY <2>0, <2>2, <2>4, <2>5, <2>6, <2>7 DEF Replays
  <2>9. \A i \in 1..n : Entries[i].verdict = IF i = n /\ open THEN 0 ELSE i
    <3> SUFFICES ASSUME NEW i \in 1..n
                 PROVE  Entries[i].verdict = IF i = n /\ open THEN 0 ELSE i
      OBVIOUS
    <3>1. CASE i = n
      BY <2>5, <2>6, <3>1 DEF v
    <3>2. CASE i # n
      BY <2>2, <2>6, <2>7, <3>2
    <3> QED
      BY <3>1, <3>2
  <2> QED
    BY <2>0, <2>6, <2>8, <2>9 DEF VerdictsStayWithQueries
<1> QED
  BY <1>1, <1>2

\* The log starts with its header.
LEMMA InitIInv == Init => IInv
<1> SUFFICES ASSUME Init PROVE IInv
  OBVIOUS
<1>1. lines = <<Plain("comment")>> /\ begun = <<>> /\ open = FALSE /\ torn = FALSE
  BY DEF Init
<1>2. Plain("comment") \in Lines /\ Plain("comment").kind = "comment"
      /\ Plain("comment").of = 0
  BY DEF Plain, Line, Lines
<1>3. Len(lines) = 1 /\ lines[1] = Plain("comment") /\ DOMAIN lines = {1}
  BY <1>1
<1>4. ReadUpTo(lines, 1) = Nothing
  <2>1. ReadUpTo(lines, 0) = Nothing
    BY ReadOfNone
  <2>2. ReadUpTo(lines, 0 + 1) = ReadLine(ReadUpTo(lines, 0), lines[0 + 1])
    BY ReadOfOneMore
  <2>3. ReadLine(Nothing, lines[1]) = Nothing
    BY <1>2, <1>3 DEF ReadLine
  <2> QED
    BY <2>1, <2>2, <2>3
<1>5. TypeOK
  <2>1. <<Plain("comment")>> \in Seq(Lines)
    BY <1>2
  <2>2. begun \in Seq(Queries)
    BY <1>1
  <2>3. open \in BOOLEAN /\ torn \in BOOLEAN
    BY <1>1
  <2> QED
    BY <1>1, <2>1, <2>2, <2>3 DEF TypeOK
<1> QED
  BY <1>1, <1>2, <1>3, <1>4, <1>5 DEF IInv, CutOffLosesTheTailOnly

\* What is appended to a log leaves what has been read of it.
LEMMA AppendedLater ==
  ASSUME lines \in Seq(Lines), NEW more \in Seq(Lines), lines' = lines \o more
  PROVE  /\ lines' \in Seq(Lines) /\ Len(lines') = Len(lines) + Len(more)
         /\ Len(lines) \in Nat /\ Len(more) \in Nat
         /\ \A i \in 1..Len(lines) : lines'[i] = lines[i]
         /\ \A i \in 1..Len(more) : lines'[Len(lines) + i] = more[i]
         /\ \A k \in 0..Len(lines) : ReadUpTo(lines', k) = ReadUpTo(lines, k)
<1>1. Len(lines) \in Nat /\ Len(more) \in Nat
  OBVIOUS
<1>2. /\ lines' \in Seq(Lines) /\ Len(lines') = Len(lines) + Len(more)
      /\ \A i \in 1..(Len(lines) + Len(more)) :
           lines'[i] = IF i <= Len(lines) THEN lines[i] ELSE more[i - Len(lines)]
  BY ConcatProperties
<1>3. \A i \in 1..Len(lines) : lines'[i] = lines[i]
  BY <1>1, <1>2
<1>4. ASSUME NEW i \in 1..Len(more) PROVE lines'[Len(lines) + i] = more[i]
  <2>1. PICK j : j = Len(lines) + i
    OBVIOUS
  <2>2. j \in 1..(Len(lines) + Len(more)) /\ ~(j <= Len(lines)) /\ j - Len(lines) = i
    BY <1>1, <2>1
  <2>3. lines'[j] = more[j - Len(lines)]
    BY <1>2, <2>2
  <2> QED
    BY <2>1, <2>2, <2>3
<1>5. ASSUME NEW k \in 0..Len(lines) PROVE ReadUpTo(lines', k) = ReadUpTo(lines, k)
  <2>1. k \in Nat /\ \A i \in 1..k : lines'[i] = lines[i]
    BY <1>1, <1>3
  <2> QED
    BY <2>1, ReadDependsOnLines
<1> QED
  BY <1>1, <1>2, <1>3, <1>4, <1>5

\* The catalog, the builders and the DDL are passed over.
LEMMA NoteKeeps == IInv /\ NoteAndRecord => IInv'
<1> SUFFICES ASSUME IInv, NoteAndRecord PROVE IInv'
  OBVIOUS
<1> DEFINE more == <<Plain("annotation"), Plain("comment"), Plain("comment")>>
<1>1. /\ ~torn /\ begun = <<>> /\ Len(lines) = 1 /\ lines' = lines \o more
      /\ UNCHANGED <<begun, open, torn>>
      /\ TypeOK /\ ~open /\ ReadUpTo(lines, Len(lines)) = Nothing
      /\ \A i \in DOMAIN lines : lines[i].of = 0
  BY DEF NoteAndRecord, IInv
<1>2. \A kind \in {"annotation", "comment"} :
        Plain(kind) \in Lines /\ Plain(kind).kind = kind /\ Plain(kind).of = 0
  BY DEF Plain, Line, Lines
<1>3. /\ more \in Seq(Lines) /\ Len(more) = 3 /\ more[1] = Plain("annotation")
      /\ more[2] = Plain("comment") /\ more[3] = Plain("comment")
  BY <1>2
<1> HIDE DEF more
<1>4. /\ lines' \in Seq(Lines) /\ Len(lines') = Len(lines) + Len(more)
      /\ \A i \in 1..Len(lines) : lines'[i] = lines[i]
      /\ \A i \in 1..Len(more) : lines'[Len(lines) + i] = more[i]
      /\ \A k \in 0..Len(lines) : ReadUpTo(lines', k) = ReadUpTo(lines, k)
  BY <1>1, <1>3, AppendedLater DEF TypeOK
<1>5. /\ Len(lines') = 4 /\ lines'[1].of = 0 /\ lines'[2] = Plain("annotation")
      /\ lines'[3] = Plain("comment") /\ lines'[4] = Plain("comment")
  <2>1. /\ Len(lines') = 4 /\ lines'[1] = lines[1] /\ lines'[1 + 1] = more[1]
        /\ lines'[1 + 2] = more[2] /\ lines'[1 + 3] = more[3]
    BY <1>1, <1>3, <1>4
  <2>2. 1 \in DOMAIN lines
    BY <1>1 DEF TypeOK
  <2> QED
    BY <1>1, <1>3, <2>1, <2>2
<1>6. ReadUpTo(lines', 1) = Nothing
  BY <1>1, <1>4
<1>7. ReadUpTo(lines', 2) = Nothing
  <2>1. ReadUpTo(lines', 1 + 1) = ReadLine(ReadUpTo(lines', 1), lines'[1 + 1])
    BY ReadOfOneMore
  <2>2. ReadLine(Nothing, Plain("annotation")) = Nothing
    BY <1>2 DEF ReadLine, Nothing, Read
  <2> QED
    BY <1>5, <1>6, <2>1, <2>2
<1>8. ReadUpTo(lines', 4) = ReadUpTo(lines', 2)
  <2>1. \A i \in (2 + 1)..4 : lines'[i].kind \in {"comment", "blank"}
    BY <1>2, <1>5
  <2> QED
    BY <2>1, SkippedLines
<1>9. \A i \in DOMAIN lines' : lines'[i].of = 0
  <2>1. DOMAIN lines' = 1..4
    <3>1. DOMAIN lines' = 1..Len(lines')
      BY <1>4
    <3> QED
      BY <1>5, <3>1
  <2>2. \A i \in 1..4 : i = 1 \/ i = 2 \/ i = 3 \/ i = 4
    OBVIOUS
  <2> QED
    BY <1>2, <1>5, <2>1, <2>2
<1> QED
  BY <1>1, <1>4, <1>5, <1>7, <1>8, <1>9 DEF IInv, TypeOK, CutOffLosesTheTailOnly

\* What was read of a query does not depend on later ones.
LEMMA DoneStays ==
  ASSUME NEW read, NEW n \in Nat, \A i \in 1..n : begun'[i] = begun[i], Done(read, n)
  PROVE  Done(read, n)'
BY DEF Done, IsWhole, IsText

\* A log in which every query has its verdict.
LEMMA AllDone ==
  ASSUME IInv, ~torn, ~open
  PROVE  /\ Done(ReadUpTo(lines, Len(lines)), Len(begun))
         /\ \A i \in 1..Len(lines) : lines[i].of < Len(begun) + 1
<1>1. PICK n : n = Len(begun)
  OBVIOUS
<1>2. TypeOK /\ n \in Nat /\ Len(lines) \in Nat /\ DOMAIN lines = 1..Len(lines)
  BY <1>1 DEF IInv, TypeOK
<1>3. CASE begun = <<>>
  <2>1. n = 0 /\ ReadUpTo(lines, Len(lines)) = Nothing /\ \A i \in 1..Len(lines) : lines[i].of = 0
    BY <1>1, <1>2, <1>3 DEF IInv
  <2>2. Done(Nothing, 0)
    BY DEF Done, Nothing, Read
  <2> QED
    BY <1>1, <2>1, <2>2
<1>4. CASE begun # <<>>
  <2>1. PICK at \in 0..Len(lines) : LastStandsAfter(at)
    BY <1>4 DEF IInv
  <2>2. PICK E \in Seq(EntryType), sql \in Seq(Lines) :
          /\ ReadUpTo(lines, Len(lines)) = Read(Append(E, JournalEntry(sql, n)), <<>>)
          /\ IsWhole(sql, n) /\ Len(E) = n - 1
          /\ \A i \in 1..(n - 1) : IsWhole(E[i].sql, i) /\ E[i].verdict = i
    BY <1>1, <1>2, <1>4, <2>1, WholeLog
  <2>3. PICK query : query = begun[n]
    OBVIOUS
  <2>4. /\ n \in Nat \ {0} /\ query \in Queries /\ Len(query) \in Nat \ {0}
        /\ at \in Nat /\ at + Len(query) <= Len(lines) /\ StandsAt(lines, at, query, n)
    BY <1>1, <1>2, <1>4, <2>1, <2>3, LastPlace
  <2>5. Done(ReadUpTo(lines, Len(lines)), n)
    <3> DEFINE x == JournalEntry(sql, n)
               X == Append(E, x)
    <3>1. x \in EntryType /\ x.sql = sql /\ x.verdict = n
      BY <2>4 DEF JournalEntry, EntryType
    <3> HIDE DEF x
    <3>2. /\ X \in Seq(EntryType) /\ Len(X) = n /\ X[n] = x
          /\ \A i \in 1..(n - 1) : X[i] = E[i]
      BY <2>2, <2>4, <3>1
    <3>3. \A i \in 1..n : i = n \/ i \in 1..(n - 1)
      BY <2>4
    <3>4. Read(X, <<>>).entries = X
      BY DEF Read
    <3>5. ReadUpTo(lines, Len(lines)) = Read(X, <<>>)
      BY <2>2 DEF x
    <3> HIDE DEF X
    <3>6. \A i \in 1..n : IsWhole(X[i].sql, i) /\ X[i].verdict = i
      BY <2>2, <3>1, <3>2, <3>3
    <3> QED
      BY <3>2, <3>4, <3>5, <3>6 DEF Done, EntryType
  <2>6. ASSUME NEW i \in 1..Len(lines) PROVE lines[i].of < n + 1
    <3>1. CASE i <= at
      <4>1. i \in 1..at /\ lines[i] \in Lines
        BY <1>2, <2>4, <3>1 DEF TypeOK
      <4>2. lines[i].of < n /\ lines[i].of \in Nat
        BY <1>1, <2>1, <4>1 DEF LastStandsAfter, Lines
      <4> QED
        BY <2>4, <4>2
    <3>2. CASE i > at /\ i <= at + Len(query)
      <4>1. PICK j : j = i - at
        OBVIOUS
      <4>2. j \in 1..Len(query) /\ i = at + j
        BY <2>4, <3>2, <4>1
      <4>3. lines[i] = QueryLines(query, n)[j]
        BY <2>4, <4>2 DEF StandsAt
      <4>4. QueryLines(query, n)[j].of = n
        BY <2>4, <4>2, LineOfQuery
      <4> QED
        BY <2>4, <4>3, <4>4
    <3>3. CASE i > at + Len(query)
      <4>1. i = at + Len(query) + 1 \/ i \in (at + Len(query) + 2)..Len(lines)
        BY <1>2, <2>4, <3>3
      <4>2. lines[i] = Line("annotation", 0, 0, n) \/ lines[i] = Plain("blank")
        BY <1>1, <2>1, <2>3, <4>1 DEF LastStandsAfter
      <4>3. lines[i].of = 0
        BY <4>2 DEF Line, Plain
      <4> QED
        BY <2>4, <4>3
    <3> QED
      BY <1>2, <2>4, <3>1, <3>2, <3>3
  <2> QED
    BY <1>1, <2>5, <2>6
<1> QED
  BY <1>3, <1>4

\* A query is begun after the others are done.
LEMMA BeginKeeps == IInv /\ Begin => IInv'
<1> SUFFICES ASSUME IInv, Begin PROVE IInv'
  OBVIOUS
<1>1. PICK n : n = Len(begun)
  OBVIOUS
<1>2. PICK query \in Queries :
        lines' = lines \o QueryLines(query, n + 1) /\ begun' = Append(begun, query)
  BY <1>1 DEF Begin
<1>3. ~torn /\ ~open /\ open' /\ UNCHANGED torn /\ open' \in BOOLEAN
  BY DEF Begin
<1>4. PICK at : at = Len(lines)
  OBVIOUS
<1>5. TypeOK /\ n \in Nat /\ at \in Nat
  BY <1>1, <1>4 DEF IInv, TypeOK
<1>6. /\ QueryLines(query, n + 1) \in Seq(Lines)
      /\ Len(QueryLines(query, n + 1)) = Len(query) /\ Len(query) \in Nat \ {0}
  BY <1>5, LinesOfQuery
<1>7. /\ lines' \in Seq(Lines) /\ Len(lines') = at + Len(query)
      /\ \A i \in 1..at : lines'[i] = lines[i]
      /\ \A i \in 1..Len(query) : lines'[at + i] = QueryLines(query, n + 1)[i]
      /\ ReadUpTo(lines', at) = ReadUpTo(lines, at)
  <2>1. at \in 0..Len(lines)
    BY <1>4, <1>5
  <2> QED
    BY <1>2, <1>4, <1>5, <1>6, <2>1, AppendedLater DEF TypeOK
<1>8. /\ begun' \in Seq(Queries) /\ Len(begun') = n + 1 /\ begun'[n + 1] = query
      /\ \A i \in 1..n : begun'[i] = begun[i]
  BY <1>1, <1>2, <1>5 DEF TypeOK
<1>9. Done(ReadUpTo(lines, at), n) /\ \A i \in 1..at : lines[i].of < n + 1
  BY <1>1, <1>3, <1>4, AllDone
<1>10. Done(ReadUpTo(lines, at), n)'
  <2>1. PICK read : read = ReadUpTo(lines, at)
    OBVIOUS
  <2>2. Done(read, n)'
    BY <1>5, <1>8, <1>9, <2>1, DoneStays
  <2>3. ReadUpTo(lines, at)' = read
    BY <1>7, <2>1
  <2> QED
    BY <2>2, <2>3 DEF Done
<1>11. LastStandsAfter(at)'
  <2>0. PICK m : m = n + 1
    OBVIOUS
  <2>1. Done(ReadUpTo(lines, at), m - 1)'
    <3>1. m - 1 = n
      BY <1>5, <2>0
    <3> QED
      BY <1>10, <3>1
  <2>2. \A i \in 1..at : lines'[i].of < m
    BY <1>7, <1>9, <2>0
  <2>3. at + Len(query) <= Len(lines')
    BY <1>5, <1>6, <1>7
  <2>4. Len(begun') = m /\ begun'[m] = query
    BY <1>8, <2>0
  <2>5. \A i \in 1..Len(query) : lines'[at + i] = QueryLines(query, m)[i]
    BY <1>7, <2>0
  <2>6. Len(lines') = at + Len(query) /\ open'
    BY <1>3, <1>7
  <2> QED
    BY <2>1, <2>2, <2>3, <2>4, <2>5, <2>6 DEF LastStandsAfter
<1>12. at \in 0..Len(lines') /\ begun' # <<>>
  BY <1>5, <1>6, <1>7, <1>8
<1>13. TypeOK'
  BY <1>3, <1>5, <1>7, <1>8 DEF TypeOK
<1> QED
  BY <1>3, <1>11, <1>12, <1>13 DEF IInv, CutOffLosesTheTailOnly

\* A verdict follows its query.
LEMMA EndKeeps ==
  ASSUME OneLineVerdicts, IInv, End
  PROVE  IInv'
<1>1. PICK n : n = Len(begun)
  OBVIOUS
<1>2. PICK verdict \in Verdicts :
        lines' = lines \o <<Line("annotation", 0, 0, n)>>
                       \o [i \in DOMAIN verdict |-> Plain(verdict[i])]
  BY <1>1 DEF End
<1>3. /\ ~torn /\ open /\ ~open' /\ UNCHANGED <<begun, torn>>
      /\ open' \in BOOLEAN /\ TypeOK /\ begun # <<>> /\ n \in Nat
  <2>1. ~torn /\ open /\ ~open' /\ UNCHANGED <<begun, torn>> /\ open' \in BOOLEAN
    BY DEF End
  <2>2. TypeOK /\ begun # <<>>
    BY <2>1 DEF IInv
  <2>3. n \in Nat
    BY <1>1, <2>2 DEF TypeOK
  <2> QED
    BY <2>1, <2>2, <2>3
<1>4. PICK at \in 0..Len(lines) : LastStandsAfter(at)
  BY <1>3 DEF IInv
<1>5. PICK query : query = begun[n]
  OBVIOUS
<1>6. /\ Len(query) \in Nat \ {0} /\ at \in Nat /\ Len(lines) \in Nat
      /\ Len(lines) = at + Len(query) /\ at + Len(query) \in Nat
  <2>1. /\ Len(query) \in Nat \ {0} /\ at \in Nat /\ Len(lines) \in Nat
    BY <1>1, <1>3, <1>4, <1>5, LastPlace
  <2>2. Len(lines) = at + Len(query)
    BY <1>1, <1>3, <1>4, <1>5 DEF LastStandsAfter
  <2> QED
    BY <2>1, <2>2
<1> DEFINE first == <<Line("annotation", 0, 0, n)>>
           rest == [i \in DOMAIN verdict |-> Plain(verdict[i])]
           more == first \o rest
<1>7. /\ more \in Seq(Lines) /\ Len(more) \in Nat /\ Len(more) >= 1
      /\ more[1] = Line("annotation", 0, 0, n)
      /\ \A i \in 2..Len(more) : more[i] = Plain("blank")
  <2>1. verdict \in Seq({"blank"})
    BY DEF OneLineVerdicts
  <2>2. /\ Len(verdict) \in Nat /\ DOMAIN verdict = 1..Len(verdict)
        /\ \A i \in 1..Len(verdict) : verdict[i] = "blank"
    BY <2>1
  <2>3. Plain("blank") \in Lines
    BY DEF Plain, Line, Lines
  <2>4. rest = [i \in 1..Len(verdict) |-> Plain("blank")]
    BY <2>2
  <2>5. /\ rest \in Seq(Lines) /\ Len(rest) = Len(verdict)
        /\ \A i \in 1..Len(verdict) : rest[i] = Plain("blank")
    <3> DEFINE F == [i \in 1..Len(verdict) |-> Plain("blank")]
    <3>1. F \in [1..Len(verdict) -> Lines]
      BY <2>3
    <3>2. \A i \in 1..Len(verdict) : F[i] = Plain("blank")
      OBVIOUS
    <3> HIDE DEF F
    <3>3. F \in Seq(Lines) /\ Len(F) = Len(verdict)
      BY <2>2, <3>1
    <3> QED
      BY <2>4, <3>2, <3>3 DEF F
  <2>6. Line("annotation", 0, 0, n) \in Lines
    BY <1>3 DEF Line, Lines
  <2>7. first \in Seq(Lines) /\ Len(first) = 1 /\ first[1] = Line("annotation", 0, 0, n)
    BY <2>6
  <2> HIDE DEF first, rest
  <2>8. /\ more \in Seq(Lines) /\ Len(more) = 1 + Len(verdict)
        /\ \A i \in 1..(1 + Len(verdict)) :
             more[i] = IF i <= 1 THEN first[i] ELSE rest[i - 1]
    <3>1. /\ more \in Seq(Lines) /\ Len(more) = Len(first) + Len(rest)
          /\ \A i \in 1..(Len(first) + Len(rest)) :
               more[i] = IF i <= Len(first) THEN first[i] ELSE rest[i - Len(first)]
      BY <2>5, <2>7, ConcatProperties
    <3> HIDE DEF more
    <3> QED
      BY <2>5, <2>7, <3>1
  <2> HIDE DEF more
  <2>9. ASSUME NEW i \in 2..Len(more) PROVE more[i] = Plain("blank")
    <3>1. i \in 1..(1 + Len(verdict)) /\ ~(i <= 1) /\ i - 1 \in 1..Len(verdict)
      BY <2>2, <2>8
    <3> QED
      BY <2>5, <2>8, <3>1
  <2> QED
    BY <2>2, <2>7, <2>8, <2>9
<1>8. lines' = lines \o more
  <2>1. lines \in Seq(Lines) /\ first \in Seq(Lines) /\ rest \in Seq(Lines)
    <3>1. Line("annotation", 0, 0, n) \in Lines
      BY <1>3 DEF Line, Lines
    <3>2. verdict \in Seq({"blank"}) /\ Plain("blank") \in Lines
      BY DEF OneLineVerdicts, Plain, Line, Lines
    <3>3. rest \in Seq(Lines)
      <4>1. /\ Len(verdict) \in Nat /\ rest = [i \in 1..Len(verdict) |-> Plain("blank")]
        BY <3>2
      <4> QED
        BY <3>2, <4>1
    <3> QED
      BY <1>3, <3>1, <3>3 DEF TypeOK
  <2> HIDE DEF first, rest
  <2>2. lines' = (lines \o first) \o rest
    BY <1>2 DEF first, rest
  <2>3. (lines \o first) \o rest = lines \o (first \o rest)
    BY <2>1, ConcatAssociative
  <2> QED
    BY <2>2, <2>3
<1> HIDE DEF more
<1>9. PICK last \in Nat : last = at + Len(query)
  BY <1>6
<1>10. /\ lines' \in Seq(Lines) /\ Len(lines') = last + Len(more)
       /\ \A i \in 1..last : lines'[i] = lines[i]
       /\ \A i \in 1..Len(more) : lines'[last + i] = more[i]
       /\ ReadUpTo(lines', at) = ReadUpTo(lines, at)
  BY <1>3, <1>4, <1>6, <1>7, <1>8, <1>9, AppendedLater DEF TypeOK
<1>11. /\ Len(lines') > last /\ lines'[last + 1] = Line("annotation", 0, 0, n)
       /\ \A i \in (last + 2)..Len(lines') : lines'[i] = Plain("blank")
  <2>1. Len(lines') > last /\ lines'[last + 1] = Line("annotation", 0, 0, n)
    BY <1>7, <1>10
  <2>2. ASSUME NEW i \in (last + 2)..Len(lines') PROVE lines'[i] = Plain("blank")
    <3>1. PICK j : j = i - last
      OBVIOUS
    <3>2. j \in 2..Len(more) /\ j \in 1..Len(more) /\ i = last + j
      BY <1>7, <1>9, <1>10, <3>1
    <3> QED
      BY <1>7, <1>10, <3>2
  <2> QED
    BY <2>1, <2>2
<1>12. LastStandsAfter(at)'
  <2>1. /\ Done(ReadUpTo(lines, at), n - 1)
        /\ \A i \in 1..at : lines[i].of < n
        /\ \A i \in 1..Len(query) : lines[at + i] = QueryLines(query, n)[i]
    BY <1>1, <1>4, <1>5 DEF LastStandsAfter
  <2>2. Done(ReadUpTo(lines, at), n - 1)'
    <3>1. PICK read : read = ReadUpTo(lines, at)
      OBVIOUS
    <3>2. Done(read, n - 1)'
      BY <1>3, <2>1, <3>1 DEF Done, IsWhole, IsText
    <3>3. ReadUpTo(lines, at)' = read
      BY <1>10, <3>1
    <3> QED
      BY <3>2, <3>3 DEF Done
  <2>3. \A i \in 1..at : lines'[i].of < n
    <3>1. \A i \in 1..at : i \in 1..last
      BY <1>6, <1>9
    <3> QED
      BY <1>10, <2>1, <3>1
  <2>4. \A i \in 1..Len(query) : lines'[at + i] = QueryLines(query, n)[i]
    <3>1. \A i \in 1..Len(query) : at + i \in 1..last
      BY <1>6, <1>9
    <3> QED
      BY <1>10, <2>1, <3>1
  <2>5. last <= Len(lines')
    BY <1>7, <1>9, <1>10
  <2> QED
    BY <1>1, <1>3, <1>5, <1>9, <1>11, <2>2, <2>3, <2>4, <2>5 DEF LastStandsAfter
<1>13. at \in 0..Len(lines')
  BY <1>6, <1>7, <1>9, <1>10
<1>14. TypeOK'
  BY <1>3, <1>10 DEF TypeOK
<1> QED
  BY <1>3, <1>12, <1>13, <1>14 DEF IInv, CutOffLosesTheTailOnly

-----------------------------------------------------------------------------
(* The log of a round that was cut off                                     *)

\* No text is of no line, and some text is of every query.
LEMMA TextOfNothing ==
  ASSUME NEW sql \in Seq(Lines), NEW query, NEW n, NEW m,
         TextOf(sql, query, n, m), sql # <<>>
  PROVE  \E i \in 1..m : query[i] # "blank"
<1>1. 1 \in DOMAIN sql
  OBVIOUS
<1>2. sql[1] \in Range(sql)
  BY <1>1 DEF Range
<1>3. <<sql[1].of, sql[1].pos>> \in {n} \X {i \in 1..m : query[i] # "blank"}
  BY <1>2 DEF TextOf
<1> QED
  BY <1>3

LEMMA TextOfSomething ==
  ASSUME NEW sql, NEW query \in Queries, NEW n, TextOf(sql, query, n, Len(query))
  PROVE  sql # <<>>
<1>1. Len(query) \in Nat \ {0} /\ query[1] = "text"
  <2>1. 0 \in Nat
    OBVIOUS
  <2> QED
    BY <2>1, LinesOfQuery
<1>2. <<n, 1>> \in {n} \X {i \in 1..Len(query) : query[i] # "blank"}
  BY <1>1
<1>3. PICK line \in Range(sql) : TRUE
  BY <1>2 DEF TextOf
<1> QED
  BY <1>3 DEF Range

\* What may be read back of it.
Part(sql, n) == sql # <<>> /\ \E m \in DOMAIN begun[n] : IsText(sql, n, m)
Before(e, n) == \A i \in 1..(n - 1) : IsWhole(e[i].sql, i) /\ e[i].verdict = i
OnlyTail(e) ==
  LET n == Len(begun) IN
  /\ Len(e) >= n - 1 /\ Before(e, n)
  /\ Len(e) >= n => Part(e[n].sql, n)

LEMMA NothingOfTheLast ==
  ASSUME NEW n \in Nat \ {0}, n = Len(begun), NEW E \in Seq(EntryType), Len(E) = n - 1,
         Before(E, n)
  PROVE  OnlyTail(E)
BY DEF OnlyTail

LEMMA PartOfTheLast ==
  ASSUME NEW n \in Nat \ {0}, n = Len(begun), NEW E \in Seq(EntryType), Len(E) = n - 1,
         Before(E, n), NEW sql \in Seq(Lines), Part(sql, n), NEW v \in Nat
  PROVE  OnlyTail(Append(E, JournalEntry(sql, v)))
<1> DEFINE x == JournalEntry(sql, v)
<1>1. x.sql = sql
  BY DEF JournalEntry
<1> HIDE DEF x
<1> DEFINE X == Append(E, x)
<1>2. Len(X) = n /\ X[n] = x /\ \A i \in 1..(n - 1) : X[i] = E[i]
  OBVIOUS
<1> HIDE DEF X
<1>3. OnlyTail(X)
  BY <1>1, <1>2, SMTT(30) DEF OnlyTail, Before
<1> QED
  BY <1>3 DEF X, x

LEMMA MoreThanTheLast ==
  ASSUME NEW n \in Nat \ {0}, n = Len(begun), NEW E \in Seq(EntryType), Len(E) = n - 1,
         Before(E, n), NEW sql \in Seq(Lines), Part(sql, n), NEW v \in Nat, NEW y
  PROVE  OnlyTail(Append(Append(E, JournalEntry(sql, v)), y))
<1> DEFINE x == JournalEntry(sql, v)
<1>1. x.sql = sql
  BY DEF JournalEntry
<1> HIDE DEF x
<1> DEFINE X == Append(E, x)
           Y == Append(X, y)
           T == EntryType \cup {x, y}
<1>2. Len(X) = n /\ X[n] = x /\ \A i \in 1..(n - 1) : X[i] = E[i]
  OBVIOUS
<1>3. X \in Seq(T)
  OBVIOUS
<1> HIDE DEF X, T
<1>4. Len(Y) = n + 1 /\ \A i \in 1..n : Y[i] = X[i]
  BY <1>2, <1>3
<1> HIDE DEF Y
<1>5. /\ Y[n] = x /\ \A i \in 1..(n - 1) : Y[i] = E[i]
      /\ Len(Y) >= n - 1
  <2>1. n \in 1..n /\ \A i \in 1..(n - 1) : i \in 1..n
    OBVIOUS
  <2> QED
    BY <1>2, <1>4, <2>1
<1>6. OnlyTail(Y)
  BY <1>1, <1>5 DEF OnlyTail, Before
<1> QED
  BY <1>6 DEF Y, X, x

\* The place of the cut: behind the line before the last query, and behind that
\* query if it has its verdict.
CutAt(k, s) ==
  /\ k \in 1..Len(lines)
  /\ open \/ lines[k].of = 0
  /\ s = Line(s.kind, lines[k].of, lines[k].pos, 0) /\ s.kind \in Stump(lines[k])
  /\ lines' = Append(SubSeq(lines, 1, k - 1), s)

LEMMA CutIsInTheLast ==
  ASSUME TypeOK, CutOff, begun # <<>>, NEW at \in 0..Len(lines), LastStandsAfter(at)
  PROVE  \E k \in (at + 1)..Len(lines) : \E s : CutAt(k, s)
<1>1. PICK n : n = Len(begun)
  OBVIOUS
<1>2. PICK query : query = begun[n]
  OBVIOUS
<1>3. /\ n \in Nat \ {0} /\ query \in Queries /\ Len(query) \in Nat \ {0}
      /\ at \in Nat /\ Len(lines) \in Nat /\ at + Len(query) <= Len(lines)
      /\ StandsAt(lines, at, query, n)
  BY <1>1, <1>2, LastPlace
<1>4. 1 \in 1..Len(query) /\ at + 1 \in DOMAIN lines /\ DOMAIN lines = 1..Len(lines)
  BY <1>3 DEF TypeOK
<1>5. lines[at + 1].of = n /\ lines[at + 1].pos = 1
  <2>1. lines[at + 1] = QueryLines(query, n)[1]
    BY <1>4, <1>3 DEF StandsAt
  <2> QED
    BY <1>3, <1>4, <2>1, LineOfQuery
<1>6. PICK first : first = CHOOSE i \in DOMAIN lines : lines[i].of = n /\ lines[i].pos = 1
  OBVIOUS
<1>7. first \in DOMAIN lines /\ lines[first].of = n
  BY <1>4, <1>5, <1>6
<1>8. first > at
  <2>1. \A i \in 1..at : lines[i].of < n
    BY <1>1 DEF LastStandsAfter
  <2> QED
    BY <1>3, <1>4, <1>7, <2>1
<1>9. PICK k \in first..Len(lines) :
        /\ open \/ lines[k].of = 0
        /\ \E kind \in Stump(lines[k]) :
             lines' = Append(SubSeq(lines, 1, k - 1),
                             Line(kind, lines[k].of, lines[k].pos, 0))
  BY <1>1, <1>6 DEF CutOff
<1>10. PICK kind \in Stump(lines[k]) :
         lines' = Append(SubSeq(lines, 1, k - 1), Line(kind, lines[k].of, lines[k].pos, 0))
  BY <1>9
<1> DEFINE s == Line(kind, lines[k].of, lines[k].pos, 0)
<1>11. s.kind = kind
  BY DEF Line
<1>12. k \in (at + 1)..Len(lines) /\ k \in 1..Len(lines)
  BY <1>3, <1>4, <1>7, <1>8
<1>13. CutAt(k, s)
  BY <1>9, <1>10, <1>11, <1>12 DEF CutAt
<1> QED
  BY <1>12, <1>13

\* The kinds that can be left.
LEMMA Stumps ==
  ASSUME NEW line \in Lines, NEW kind \in Stump(line)
  PROVE  /\ kind \in {"text", "blank", "comment", "annotation"}
         /\ line.kind \in {"text", "semi"} => kind \in {"text", "blank"}
         /\ line.kind = "blank" => kind = "blank"
<1>1. line.kind \in {"text", "semi", "blank", "comment", "annotation"}
  BY DEF Lines
<1> QED
  BY <1>1 DEF Stump

\* The last turn of the loop reads what is left of the line.
LEMMA CutLog ==
  ASSUME TypeOK, NEW k, NEW s, CutAt(k, s)
  PROVE  /\ lines' \in Seq(Lines) /\ Len(lines') = k /\ s \in Lines
         /\ s.of = lines[k].of /\ s.pos = lines[k].pos /\ s.verdict = 0
         /\ ReadUpTo(lines', k) = ReadLine(ReadUpTo(lines, k - 1), s)
<1>1. k \in 1..Len(lines) /\ Len(lines) \in Nat /\ lines[k] \in Lines /\ lines \in Seq(Lines)
  BY DEF CutAt, TypeOK
<1>2. PICK kind : kind = s.kind
  OBVIOUS
<1>3. kind \in {"text", "blank", "comment", "annotation"}
  BY <1>1, <1>2, Stumps DEF CutAt
<1>4. PICK of \in Nat, pos \in Nat : of = lines[k].of /\ pos = lines[k].pos
  BY <1>1 DEF Lines
<1>5. s = Line(kind, of, pos, 0)
  BY <1>2, <1>4 DEF CutAt
<1>6. s \in Lines /\ s.of = of /\ s.pos = pos /\ s.verdict = 0
  BY <1>3, <1>5 DEF Line, Lines
<1>7. PICK m \in Nat : k = m + 1
  BY <1>1
<1>8. k - 1 = m /\ m <= Len(lines)
  BY <1>1, <1>7
<1> DEFINE head == SubSeq(lines, 1, m)
<1>9. /\ head \in Seq(Lines) /\ Len(head) = m
      /\ \A i \in 1..m : head[i] = lines[i]
  BY <1>1, <1>7, <1>8
<1> HIDE DEF head
<1>10. lines' = Append(head, s)
  BY <1>8 DEF CutAt, head
<1>11. /\ lines' \in Seq(Lines) /\ Len(lines') = m + 1 /\ lines'[m + 1] = s
       /\ \A i \in 1..m : lines'[i] = lines[i]
  BY <1>6, <1>9, <1>10
<1>12. ReadUpTo(lines', m) = ReadUpTo(lines, m)
  BY <1>11, ReadDependsOnLines
<1>13. ReadUpTo(lines', m + 1) = ReadLine(ReadUpTo(lines', m), lines'[m + 1])
  BY ReadOfOneMore
<1> QED
  BY <1>4, <1>6, <1>7, <1>8, <1>11, <1>12, <1>13

\* What the end of the file makes of what is pending.
LEMMA EndOfLog ==
  ASSUME NEW k, Len(lines') = k, NEW e, NEW pending,
         ReadUpTo(lines', k) = Read(e, pending)
  PROVE  Entries' = IF pending = <<>> THEN e ELSE Append(e, JournalEntry(pending, 0))
<1>1. Read(e, pending).entries = e /\ Read(e, pending).pending = pending
  BY DEF Read
<1> QED
  BY <1>1 DEF Entries, parse_journal

\* A cut inside the query written last leaves a part of it.
LEMMA CutInQuery ==
  ASSUME TypeOK, begun # <<>>, open, NEW at \in 0..Len(lines), LastStandsAfter(at),
         NEW k \in (at + 1)..Len(lines), NEW s, CutAt(k, s)
  PROVE  OnlyTail(Entries')
<1>1. PICK n : n = Len(begun)
  OBVIOUS
<1>2. PICK query : query = begun[n]
  OBVIOUS
<1>3. /\ n \in Nat \ {0} /\ query \in Queries /\ Len(query) \in Nat \ {0}
      /\ at \in Nat /\ Len(lines) \in Nat
      /\ StandsAt(lines, at, query, n)
  BY <1>1, <1>2, LastPlace
<1>4. PICK E \in Seq(EntryType) :
        ReadUpTo(lines, at) = Read(E, <<>>) /\ Len(E) = n - 1 /\ Before(E, n)
  <2>1. \E E \in Seq(EntryType) :
          /\ ReadUpTo(lines, at) = Read(E, <<>>) /\ Len(E) = n - 1
          /\ \A i \in 1..(n - 1) : IsWhole(E[i].sql, i) /\ E[i].verdict = i
    BY <1>1, <1>2, LastPlace
  <2> QED
    BY <2>1 DEF Before
<1>5. Len(lines) = at + Len(query)
  BY <1>1, <1>2 DEF LastStandsAfter
<1>6. PICK j : j = k - 1 - at
  OBVIOUS
<1>7. j \in 0..(Len(query) - 1) /\ j + 1 \in 1..Len(query) /\ k - 1 = at + j
      /\ k = at + (j + 1) /\ j \in Nat
  BY <1>3, <1>5, <1>6
<1>8. PICK sql \in Seq(Lines) :
        ReadUpTo(lines, at + j) = Read(E, sql) /\ TextOf(sql, query, n, j)
  BY <1>3, <1>4, <1>7, QueryWaits, SMTT(30)
<1>9. /\ lines' \in Seq(Lines) /\ Len(lines') = k /\ s \in Lines
      /\ s.of = lines[k].of /\ s.pos = lines[k].pos
      /\ ReadUpTo(lines', k) = ReadLine(Read(E, sql), s)
  BY <1>7, <1>8, CutLog
<1>10. /\ lines[k].of = n /\ lines[k].pos = j + 1
       /\ lines[k].kind = IF j + 1 = Len(query) THEN "semi" ELSE query[j + 1]
  <2>1. lines[k] = QueryLines(query, n)[j + 1]
    BY <1>3, <1>7 DEF StandsAt
  <2> QED
    BY <1>3, <1>7, <2>1, LineOfQuery
<1>11. s.kind \in {"text", "blank"} /\ (s.kind = "text" => query[j + 1] # "blank")
  <2>1. lines[k] \in Lines
    BY DEF CutAt, TypeOK
  <2>2. s.kind \in Stump(lines[k])
    BY DEF CutAt
  <2>3. query[j + 1] \in {"text", "blank"} /\ query[Len(query)] = "text"
    BY <1>3, <1>7, LinesOfQuery
  <2>4. /\ lines[k].kind \in {"text", "semi"} => s.kind \in {"text", "blank"}
        /\ lines[k].kind = "blank" => s.kind = "blank"
    BY <2>1, <2>2, Stumps
  <2>5. CASE j + 1 = Len(query)
    BY <1>10, <2>3, <2>4, <2>5
  <2>6. CASE j + 1 # Len(query)
    BY <1>10, <2>3, <2>4, <2>6
  <2> QED
    BY <2>5, <2>6
<1>12. DOMAIN begun[n] = 1..Len(query)
  BY <1>2, <1>3, LinesOfQuery
<1>13. CASE s.kind = "blank"
  <2>1. ReadLine(Read(E, sql), s) = Read(E, sql)
    BY <1>13 DEF ReadLine
  <2>2. Entries' = IF sql = <<>> THEN E ELSE Append(E, JournalEntry(sql, 0))
    BY <1>9, <2>1, EndOfLog
  <2>3. CASE sql = <<>>
    BY <1>1, <1>3, <1>4, <2>2, <2>3, NothingOfTheLast
  <2>4. CASE sql # <<>>
    <3>1. j \in 1..Len(query)
      <4>1. \E i \in 1..j : query[i] # "blank"
        BY <1>8, <2>4, TextOfNothing
      <4> QED
        BY <1>3, <1>7, <4>1
    <3>2. Part(sql, n)
      BY <1>2, <1>8, <1>12, <2>4, <3>1, WholeIsText DEF Part
    <3>3. 0 \in Nat
      OBVIOUS
    <3> QED
      BY <1>1, <1>3, <1>4, <2>2, <2>4, <3>2, <3>3, PartOfTheLast
  <2> QED
    BY <2>3, <2>4
<1>14. CASE s.kind = "text"
  <2> DEFINE more == Append(sql, s)
  <2>1. ReadLine(Read(E, sql), s) = Read(E, more)
    BY <1>14 DEF ReadLine, Read
  <2>2. TextOf(more, query, n, j + 1) /\ more \in Seq(Lines)
    BY <1>3, <1>7, <1>8, <1>9, <1>10, <1>11, <1>14, TextGrows
  <2>3. more # <<>>
    OBVIOUS
  <2> HIDE DEF more
  <2>4. Entries' = Append(E, JournalEntry(more, 0))
    BY <1>9, <2>1, <2>3, EndOfLog
  <2>5. Part(more, n)
    BY <1>2, <1>7, <1>12, <2>2, <2>3, WholeIsText DEF Part
  <2>6. 0 \in Nat
    OBVIOUS
  <2> QED
    BY <1>1, <1>3, <1>4, <2>2, <2>4, <2>5, <2>6, PartOfTheLast
<1> QED
  BY <1>11, <1>13, <1>14

\* A cut inside the verdict leaves the whole query, and at most a line more.
LEMMA CutInVerdict ==
  ASSUME TypeOK, begun # <<>>, ~open, NEW at \in 0..Len(lines), LastStandsAfter(at),
         NEW k \in (at + 1)..Len(lines), NEW s, CutAt(k, s)
  PROVE  OnlyTail(Entries')
<1>1. PICK n : n = Len(begun)
  OBVIOUS
<1>2. PICK query : query = begun[n]
  OBVIOUS
<1>3. /\ n \in Nat \ {0} /\ query \in Queries /\ Len(query) \in Nat \ {0}
      /\ at \in Nat /\ Len(lines) \in Nat
      /\ StandsAt(lines, at, query, n)
  BY <1>1, <1>2, LastPlace
<1>4. PICK E \in Seq(EntryType) :
        ReadUpTo(lines, at) = Read(E, <<>>) /\ Len(E) = n - 1 /\ Before(E, n)
  <2>1. \E E \in Seq(EntryType) :
          /\ ReadUpTo(lines, at) = Read(E, <<>>) /\ Len(E) = n - 1
          /\ \A i \in 1..(n - 1) : IsWhole(E[i].sql, i) /\ E[i].verdict = i
    BY <1>1, <1>2, LastPlace
  <2> QED
    BY <2>1 DEF Before
<1>5. PICK sql \in Seq(Lines) : ReadsAs(sql, at, query, n, E)
  BY <1>1, <1>2, <1>4, LastIsRead
<1>6. k > at + Len(query)
  <2>1. SUFFICES ASSUME k <= at + Len(query) PROVE FALSE
    BY <1>3
  <2>2. PICK j : j = k - at
    OBVIOUS
  <2>3. j \in 1..Len(query) /\ k = at + j
    BY <1>3, <2>1, <2>2
  <2>4. lines[k] = QueryLines(query, n)[j]
    BY <1>3, <2>3 DEF StandsAt
  <2>5. lines[k].of = n
    BY <1>3, <2>3, <2>4, LineOfQuery
  <2> QED
    BY <1>3, <2>5 DEF CutAt
<1>7. PICK v \in Nat : ReadUpTo(lines, k - 1) = Read(Append(E, JournalEntry(sql, v)), <<>>)
  <2>1. CASE k - 1 = at + Len(query)
    <3>1. 0 \in Nat /\ ReadUpTo(lines, k - 1) = Read(Append(E, JournalEntry(sql, 0)), <<>>)
      BY <1>5, <2>1 DEF ReadsAs
    <3> QED
      BY <3>1
  <2>2. CASE k - 1 # at + Len(query)
    <3>1. k - 1 \in (at + Len(query) + 1)..Len(lines)
      BY <1>3, <1>6, <2>2
    <3> QED
      BY <1>3, <1>5, <3>1 DEF ReadsAs
  <2> QED
    BY <2>1, <2>2
<1> DEFINE X == Append(E, JournalEntry(sql, v))
<1>8. /\ Len(lines') = k /\ s \in Lines /\ s.verdict = 0
      /\ ReadUpTo(lines', k) = ReadLine(Read(X, <<>>), s)
  BY <1>7, CutLog
<1>9. s.kind \in {"text", "blank", "comment", "annotation"}
  <2>1. lines[k] \in Lines /\ s.kind \in Stump(lines[k])
    BY DEF CutAt, TypeOK
  <2> QED
    BY <2>1, Stumps
<1>10. Part(sql, n)
  <2>1. sql # <<>>
    BY <1>3, <1>5, TextOfSomething DEF ReadsAs
  <2>2. Len(query) \in DOMAIN begun[n]
    BY <1>2, <1>3, LinesOfQuery
  <2> QED
    BY <1>2, <1>5, <2>1, <2>2, WholeIsText DEF Part, ReadsAs
<1>11. CASE s.kind = "annotation"
  <2> DEFINE Y == Append(E, JournalEntry(sql, 0))
  <2>1. ReadUpTo(lines', k) = Read(Y, <<>>)
    BY <1>8, <1>11, LastIsAnnotated
  <2>2. OnlyTail(Y)
    <3>1. 0 \in Nat
      OBVIOUS
    <3> QED
      BY <1>1, <1>3, <1>4, <1>10, <3>1, PartOfTheLast
  <2> HIDE DEF Y
  <2>3. Entries' = Y
    BY <1>8, <2>1, EndOfLog
  <2> QED
    BY <2>2, <2>3
<1>12. CASE s.kind \in {"comment", "blank"}
  <2>1. OnlyTail(X)
    BY <1>1, <1>3, <1>4, <1>10, PartOfTheLast
  <2> HIDE DEF X
  <2>2. ReadUpTo(lines', k) = Read(X, <<>>)
    BY <1>8, <1>12 DEF ReadLine
  <2>3. Entries' = X
    BY <1>8, <2>2, EndOfLog
  <2> QED
    BY <2>1, <2>3
<1>13. CASE s.kind = "text"
  <2> DEFINE y == JournalEntry(Append(<<>>, s), 0)
  <2> HIDE DEF y
  <2>1. OnlyTail(Append(X, y))
    BY <1>1, <1>3, <1>4, <1>10, MoreThanTheLast
  <2> HIDE DEF X
  <2>2. ReadUpTo(lines', k) = Read(X, Append(<<>>, s))
    BY <1>8, <1>13 DEF ReadLine, Read
  <2>3. Append(<<>>, s) # <<>>
    OBVIOUS
  <2>4. Entries' = Append(X, y)
    BY <1>8, <2>2, <2>3, EndOfLog DEF y
  <2> QED
    BY <2>1, <2>4
<1> QED
  BY <1>9, <1>11, <1>12, <1>13

\* A crash cuts the log off.
LEMMA CutOffKeeps == IInv /\ CutOff => IInv'
<1> SUFFICES ASSUME IInv, CutOff PROVE IInv'
  OBVIOUS
<1>1. ~torn /\ begun # <<>> /\ torn' = TRUE /\ UNCHANGED <<begun, open>>
  BY DEF CutOff
<1>2. TypeOK
  BY DEF IInv
<1>3. PICK at \in 0..Len(lines) : LastStandsAfter(at)
  BY <1>1 DEF IInv
<1>4. PICK k \in (at + 1)..Len(lines) : \E s : CutAt(k, s)
  BY <1>1, <1>2, <1>3, CutIsInTheLast
<1>5. PICK s : CutAt(k, s)
  BY <1>4
<1>6. OnlyTail(Entries')
  <2>1. CASE open
    BY <1>1, <1>2, <1>3, <1>5, <2>1, CutInQuery
  <2>2. CASE ~open
    BY <1>1, <1>2, <1>3, <1>5, <2>2, CutInVerdict
  <2> QED
    BY <2>1, <2>2
<1>7. CutOffLosesTheTailOnly'
  <2>1. PICK e : e = Entries'
    OBVIOUS
  <2>2. OnlyTail(e)
    BY <1>6, <2>1
  <2> QED
    BY <1>1, <2>1, <2>2
       DEF CutOffLosesTheTailOnly, OnlyTail, Before, Part, IsWhole, IsText
<1>8. lines' \in Seq(Lines)
  BY <1>2, <1>5, CutLog
<1>9. TypeOK'
  BY <1>1, <1>2, <1>8 DEF TypeOK
<1> QED
  BY <1>1, <1>7, <1>9 DEF IInv

LEMMA NextIInv ==
  ASSUME OneLineVerdicts
  PROVE  IInv /\ [Next]_vars => IInv'
<1> SUFFICES ASSUME IInv, [Next]_vars PROVE IInv'
  OBVIOUS
<1>1. CASE NoteAndRecord
  BY <1>1, NoteKeeps
<1>2. CASE Begin
  BY <1>2, BeginKeeps
<1>3. CASE End
  BY <1>3, EndKeeps
<1>4. CASE CutOff
  BY <1>4, CutOffKeeps
<1>5. CASE UNCHANGED vars
  BY <1>5, ZenonT(60) DEF vars, IInv, TypeOK, LastStandsAfter, Done, CutOffLosesTheTailOnly,
              Entries, IsWhole, IsText
<1> QED
  BY <1>1, <1>2, <1>3, <1>4, <1>5 DEF Next

-----------------------------------------------------------------------------
(* The results                                                             *)

\* The last query begun stands in the log line for line behind what reads back as
\* the queries before it, and its verdict is behind it: what QueryJournal's begin
\* and end have written, as parse_journal sees it.
THEOREM JournalInvariant ==
  ASSUME OneLineVerdicts
  PROVE  Spec => []IInv
<1>1. Init => IInv
  BY InitIInv
<1>2. IInv /\ [Next]_vars => IInv'
  BY NextIInv
<1> QED
  BY <1>1, <1>2, PTL DEF Spec

\* A log that was not cut off replays as the round: parse_journal returns the
\* queries begun so far, each whole and once, and nothing of the catalog or DDL.
THEOREM LogReplaysTheRound ==
  ASSUME OneLineVerdicts
  PROVE  Spec => []ReplaysTheRound
<1>1. IInv => ReplaysTheRound
  BY GoesOn DEF ReplaysTheRound
<1> QED
  BY <1>1, JournalInvariant, PTL

\* parse_journal gives every query the verdict that end wrote for it, and the one
\* in flight none.
THEOREM VerdictsAreTheirQueries ==
  ASSUME OneLineVerdicts
  PROVE  Spec => []VerdictsStayWithQueries
<1>1. IInv => VerdictsStayWithQueries
  BY GoesOn DEF VerdictsStayWithQueries
<1> QED
  BY <1>1, JournalInvariant, PTL

\* A log that a crash cuts off inside any line of the query or verdict written last
\* still gives back the queries before it, whole and with their verdicts.
THEOREM OnlyTheTailIsLost ==
  ASSUME OneLineVerdicts
  PROVE  Spec => []CutOffLosesTheTailOnly
<1>1. IInv => CutOffLosesTheTailOnly
  BY DEF IInv
<1> QED
  BY <1>1, JournalInvariant, PTL
=============================================================================
