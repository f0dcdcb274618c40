------------------------------ MODULE Journal ------------------------------
(***************************************************************************)
(* The round's log (eqgen/fuzz/journal.py): QueryJournal writes it, a line *)
(* at a time, and parse_journal reads it back so that the round can be     *)
(* replayed.  A crash may cut the file off inside the last line written.   *)
(*                                                                         *)
(* A physical line is abstracted to what the parser tells apart: its kind  *)
(* and, for a line of a query, which query and which line of it.  The      *)
(* kinds are "text", "semi" (text that ends in a semicolon), "blank",      *)
(* "comment" (starts with two dashes) and "annotation" (a verdict or note).*)
(***************************************************************************)
EXTENDS Naturals, SequencesExt, FiniteSets

CONSTANTS
  MaxQueries,  \* bound: queries in a round
  Queries,     \* the shapes of a query: the kinds of its lines
  Verdicts     \* the shapes of a verdict: the kinds of the lines after its first

\* A query arrives stripped and without a semicolon that ends a line.
ASSUME JournalAssumption ==
  /\ MaxQueries \in Nat
  /\ \A q \in Queries : q \in Seq({"text", "blank"}) /\ q # <<>>
                          /\ q[1] = "text" /\ q[Len(q)] = "text"
  /\ \A v \in Verdicts : v \in Seq({"text", "semi", "blank"})

VARIABLES
  lines,   \* the file
  begun,   \* the queries recorded so far
  open,    \* the last query has no verdict yet
  torn     \* the file was cut off: nothing is written any more

vars == <<lines, begun, open, torn>>

\* of = 0 for a line that belongs to no query; verdict = the query it closes.
Line(kind, of, pos, verdict) ==
  [kind |-> kind, of |-> of, pos |-> pos, verdict |-> verdict]
Plain(kind) == Line(kind, 0, 0, 0)
Lines == [kind : {"text", "semi", "blank", "comment", "annotation"},
          of : Nat, pos : Nat, verdict : Nat]

-----------------------------------------------------------------------------
(* QueryJournal *)

Init ==
  /\ lines = <<Plain("comment")>>  \* the header
  /\ begun = <<>> /\ open = FALSE /\ torn = FALSE

\* note and record, for the catalog, the builders and the DDL: every line of a
\* recorded block is a comment.  Both come before the first query.
NoteAndRecord ==
  /\ ~torn /\ begun = <<>> /\ Len(lines) = 1
  /\ lines' = lines \o <<Plain("annotation"), Plain("comment"),
                         Plain("comment")>>
  /\ UNCHANGED <<begun, open, torn>>

\* Mutant: the semicolon is not written.
QueryLinesUnended(query, n) ==
  [i \in DOMAIN query |-> Line(query[i], n, i, 0)]

\* The lines begin writes for the n-th query: its text, ended by a semicolon.
QueryLines(query, n) ==
  [i \in DOMAIN query |->
     Line(IF i = Len(query) THEN "semi" ELSE query[i], n, i, 0)]

Begin ==
  /\ ~torn /\ ~open /\ Len(begun) < MaxQueries
  /\ \E query \in Queries :
       /\ lines' = lines \o QueryLines(query, Len(begun) + 1)
       /\ begun' = Append(begun, query)
  /\ open' = TRUE
  /\ UNCHANGED torn

\* end writes the prefix and the verdict as it is, with any line ends inside.
End ==
  /\ ~torn /\ open
  /\ \E verdict \in Verdicts :
       lines' = lines \o <<Line("annotation", 0, 0, Len(begun))>>
                      \o [i \in DOMAIN verdict |-> Plain(verdict[i])]
  /\ open' = FALSE
  /\ UNCHANGED <<begun, torn>>

\* What can be left of a line cut off inside: a verdict may keep its prefix and
\* lose its end, and a single dash is not a comment.
Stump(line) ==
  CASE line.kind = "semi" -> {"text", "blank"}
    [] line.kind = "comment" -> {"comment", "blank", "text"}
    [] line.kind = "annotation" -> {"annotation", "comment", "blank", "text"}
    [] OTHER -> {line.kind, "blank"}

\* The process or the machine goes down before the last write is on disk: the
\* file ends inside one of the lines of the query or verdict written last.
CutOff ==
  /\ ~torn /\ begun # <<>>
  /\ LET n == Len(begun)
         first == CHOOSE i \in DOMAIN lines : lines[i].of = n /\ lines[i].pos = 1
     IN  \E k \in first..Len(lines) :
           /\ open \/ lines[k].of = 0
           /\ \E kind \in Stump(lines[k]) :
                lines' = Append(SubSeq(lines, 1, k - 1),
                                Line(kind, lines[k].of, lines[k].pos, 0))
  /\ torn' = TRUE
  /\ UNCHANGED <<begun, open>>

Next == NoteAndRecord \/ Begin \/ End \/ CutOff

Spec == Init /\ [][Next]_vars

-----------------------------------------------------------------------------
(* parse_journal *)

Read(entries, pending) == [entries |-> entries, pending |-> pending]
JournalEntry(sql, verdict) == [sql |-> sql, verdict |-> verdict]
Nothing == Read(<<>>, <<>>)

\* Mutant: an annotation goes to the first entry.
AnnotatedFirst(entries, verdict) ==
  [entries EXCEPT ![1] = JournalEntry(@.sql, verdict)]

\* The last entry gets a verdict.
Annotated(entries, verdict) ==
  [entries EXCEPT ![Len(entries)] = JournalEntry(@.sql, verdict)]

\* One turn of the loop: an annotation goes to the last entry, unless a query is
\* being read; a line that ends in a semicolon completes an entry.
ReadLine(read, line) ==
  CASE line.kind = "annotation" ->
         IF read.entries # <<>> /\ read.pending = <<>>
           THEN Read(Annotated(read.entries, line.verdict), <<>>)
           ELSE read
    [] line.kind \in {"comment", "blank"} -> read
    [] line.kind = "text" -> Read(read.entries, Append(read.pending, line))
    [] line.kind = "semi" ->
         Read(Append(read.entries, JournalEntry(Append(read.pending, line), 0)),
              <<>>)

\* What the loop has read after n lines of the file.
ReadUpTo(file, n) ==
  LET read[i \in 0..n] == IF i = 0 THEN Nothing ELSE ReadLine(read[i - 1], file[i])
  IN  read[n]

\* What is still pending at the end of the file is an entry too.
parse_journal(file) ==
  LET read == ReadUpTo(file, Len(file))
  IN  IF read.pending = <<>> THEN read.entries
      ELSE Append(read.entries, JournalEntry(read.pending, 0))

Entries == parse_journal(lines)

\* Text read back that is of the n-th query, up to line m and its blank lines left
\* out: all of these lines, in order, and no other.
IsText(sql, n, m) ==
  /\ {<<line.of, line.pos>> : line \in Range(sql)} =
       {n} \X {i \in 1..m : begun[n][i] # "blank"}
  /\ \A i, j \in DOMAIN sql : i < j => sql[i].pos < sql[j].pos
IsWhole(sql, n) == IsText(sql, n, Len(begun[n]))

-----------------------------------------------------------------------------
(* Properties *)

\* What is read back is the queries begun so far.
Replays ==
  /\ Len(Entries) = Len(begun)
  /\ \A n \in DOMAIN begun : IsWhole(Entries[n].sql, n)

\* At every moment the log replays as the queries begun so far, in order, each
\* once, and nothing else: not the DDL, and not without the one in flight.
ReplaysTheRound == ~torn => Replays

\* A query keeps its own verdict, and the one in flight has none.
VerdictsStayWithQueries ==
  ~torn => \A n \in DOMAIN Entries :
             Entries[n].verdict = IF n = Len(begun) /\ open THEN 0 ELSE n

\* A file cut off mid-write loses no more than the query or the verdict being
\* written: the queries before it come back whole.  This is less than the
\* docstring of parse_journal says, that parsing stops "at the last complete
\* entry" (StopsAtCompleteEntry below): what is left of the last query comes back
\* as an entry too, though its text may be a part only; it is never mixed with
\* another.
CutOffLosesTheTailOnly ==
  torn =>
    LET n == Len(begun) IN
    /\ Len(Entries) >= n - 1
    /\ \A i \in 1..(n - 1) : IsWhole(Entries[i].sql, i) /\ Entries[i].verdict = i
    /\ Len(Entries) >= n =>
         Entries[n].sql # <<>> /\ \E m \in DOMAIN begun[n] : IsText(Entries[n].sql, n, m)

\* The docstring of parse_journal: of a file cut off mid-write, "parsing stops
\* cleanly at the last complete entry instead of failing".  It does not hold, as
\* MCJournalCut.cfg shows.
StopsAtCompleteEntry ==
  torn => \A n \in DOMAIN Entries : n \in DOMAIN begun /\ IsWhole(Entries[n].sql, n)

\* The docstring of the module: "queries_from_journal reads a finished log back,
\* so a run can be replayed query for query", whatever the verdicts say.
ReplaysQueryForQuery == ~torn /\ ~open => Replays

-----------------------------------------------------------------------------
(* The inductive invariant behind the properties, where no verdict has a   *)
(* line of text of its own: such a line is read as part of a query.        *)
OneLineVerdicts == \A v \in Verdicts : v \in Seq({"blank"})

\* The first n queries have been read, and each has its verdict.
Done(read, n) ==
  /\ read = Read(read.entries, <<>>)
  /\ read.entries \in Seq([sql : Seq(Lines), verdict : Nat])
  /\ Len(read.entries) = n
  /\ \A i \in 1..n : IsWhole(read.entries[i].sql, i) /\ read.entries[i].verdict = i

\* The last query begun stands after line at, with its verdict behind it.
LastStandsAfter(at) ==
  LET n == Len(begun)
      query == begun[n]
      last == at + Len(query)
  IN  /\ Done(ReadUpTo(lines, at), n - 1)
      /\ \A i \in 1..at : lines[i].of < n
      /\ last <= Len(lines)
      /\ \A i \in 1..Len(query) : lines[at + i] = QueryLines(query, n)[i]
      /\ open => Len(lines) = last
      /\ ~open => /\ Len(lines) > last
                  /\ lines[last + 1] = Line("annotation", 0, 0, n)
                  /\ \A i \in (last + 2)..Len(lines) : lines[i] = Plain("blank")

TypeOK ==
  /\ lines \in Seq(Lines)
  /\ begun \in Seq(Queries) /\ open \in BOOLEAN /\ torn \in BOOLEAN

IInv ==
  /\ TypeOK
  /\ ~torn /\ begun = <<>> =>
       /\ ~open /\ \A i \in DOMAIN lines : lines[i].of = 0
       /\ ReadUpTo(lines, Len(lines)) = Nothing
  /\ ~torn /\ begun # <<>> => \E at \in 0..Len(lines) : LastStandsAfter(at)
  /\ CutOffLosesTheTailOnly
=============================================================================
