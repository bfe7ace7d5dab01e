---------------------------- MODULE ScreenProofs ----------------------------
(***************************************************************************)
(* Theorems about the home screen.  About its windows and the lists of the *)
(* panels, for every size of text, window, list and terminal: what is to   *)
(* be seen is seen, and what is not to move does not.  About the screen as *)
(* a whole, for every text, width, height and order of keys, pointer,      *)
(* resizes and turns: what a second key confirms, that the state the       *)
(* composer and the layout keep of each other is sound (Sound, Mounted),   *)
(* that the caret stays in view, that a copy takes what is highlighted,    *)
(* that the parts of the screen fit the terminal, and that a reader who    *)
(* has scrolled up is held.                                                *)
(***************************************************************************)
EXTENDS ScreenProperties, NaturalOrder

USE DEF AtLeast, AtMost, Clamp

-----------------------------------------------------------------------------
(* Texts, and the rows they wrap into *)

\* The columns before each index grow by the width of each grapheme.
LEMMA WidthsBefore ==
  ASSUME NEW text \in Text
  PROVE  LET before == DisplayWidthBeforeIndex(text)
         IN  /\ before \in [0..Len(text) -> Nat] /\ before[0] = 0
             /\ \A i \in 1..Len(text) : before[i] = before[i - 1] + Width[text[i]]
  <1> DEFINE n == Len(text)
             E(f) == f = [i \in 0..n |-> IF i = 0 THEN 0 ELSE f[i - 1] + Width[text[i]]]
             before == CHOOSE f : E(f)
             g == [p \in (1..n) \X Nat |-> p[2] + Width[text[p[1]]]]
  <1>1. n \in Nat /\ \A i \in 1..n : Width[text[i]] \in Nat
    BY TextAssumption DEF Text
  <1>2. g \in [(1..n) \X Nat -> Nat]
    BY <1>1
  <1> HIDE DEF n
  <1>3. PICK f \in [0..n -> Nat] : Iterates(f, n, 0, g)
    <2> HIDE DEF g, E, before
    <2> QED BY <1>1, <1>2, IterationExists
  <1>4. f[0] = 0 /\ f = [i \in 0..n |-> f[i]]
    BY <1>3 DEF Iterates
  <1>5. ASSUME NEW i \in 1..n PROVE f[i] = f[i - 1] + Width[text[i]]
    <2>1. <<i, f[i - 1]>> \in (1..n) \X Nat
      BY <1>1, <1>3
    <2>2. f[i] = g[<<i, f[i - 1]>>]
      BY <1>3 DEF Iterates
    <2> QED BY <2>1, <2>2
  <1>6. E(f)
    <2>1. \A i \in 0..n : i = 0 \/ i \in 1..n
      BY <1>1
    <2>2. \A i \in 0..n : f[i] = IF i = 0 THEN 0 ELSE f[i - 1] + Width[text[i]]
      BY <1>4, <1>5, <2>1
    <2> QED BY <1>4, <2>2
  <1>7. E(before)
    <2> HIDE DEF E
    <2> QED BY <1>6
  <1>8. DisplayWidthBeforeIndex(text) = before
    BY Zenon DEF DisplayWidthBeforeIndex, n
  <1> HIDE DEF before
  <1>9. /\ before = [i \in 0..n |-> before[i]]
        /\ \A i \in 0..n : before[i] = IF i = 0 THEN 0 ELSE before[i - 1] + Width[text[i]]
    BY <1>7
  <1>10. before[0] = 0 /\ \A i \in 1..n : before[i] = before[i - 1] + Width[text[i]]
    <2>1. 0 \in 0..n /\ \A i \in 1..n : i \in 0..n /\ i # 0
      BY <1>1
    <2> QED BY <1>9, <2>1
  <1>11. \A i \in 0..n : before[i] \in Nat
    <2> DEFINE T == {i \in 0..n : before[i] \in Nat}
    <2>1. 0 \in T
      BY <1>1, <1>10
    <2>2. ASSUME NEW i \in 1..n, i - 1 \in T PROVE i \in T
      <3>1. i \in 0..n /\ before[i - 1] \in Nat /\ Width[text[i]] \in Nat
        BY <1>1, <2>2
      <3>2. before[i] \in Nat
        BY <1>10, <3>1
      <3> QED BY <3>1, <3>2
    <2>3. 0..n \subseteq T
      <3> HIDE DEF T
      <3> QED BY <1>1, <2>1, <2>2, InductionUpTo
    <2> QED BY <2>3
  <1> QED BY <1>8, <1>9, <1>10, <1>11 DEF n

LEMMA WidthsGrow ==
  ASSUME NEW text \in Text, NEW i \in 0..Len(text), NEW j \in i..Len(text)
  PROVE  LET before == DisplayWidthBeforeIndex(text) IN before[i] <= before[j]
  <1> DEFINE before == DisplayWidthBeforeIndex(text)
             n == Len(text)
             T == {k \in 0..(n - i) : before[i] <= before[i + k]}
  <1>1. /\ n \in Nat /\ before \in [0..n -> Nat]
        /\ \A k \in 1..n : before[k] = before[k - 1] + Width[text[k]] /\ Width[text[k]] \in Nat
    BY WidthsBefore, TextAssumption DEF Text
  <1> HIDE DEF before, n
  <1>2. i \in 0..n /\ j \in i..n
    BY DEF n
  <1>3. 0 \in T
    BY <1>1, <1>2
  <1>4. ASSUME NEW k \in 1..(n - i), k - 1 \in T PROVE k \in T
    <2>1. i + k \in 1..n /\ i + (k - 1) \in 0..n /\ (i + k) - 1 = i + (k - 1) /\ i \in 0..n
      BY <1>1, <1>2
    <2>2. before[i + k] = before[i + (k - 1)] + Width[text[i + k]] /\ Width[text[i + k]] \in Nat
      BY <1>1, <2>1
    <2>3. before[i] <= before[i + (k - 1)]
      BY <1>4
    <2>4. before[i] \in Nat /\ before[i + (k - 1)] \in Nat
      BY <1>1, <2>1
    <2>5. before[i] <= before[i + k]
      BY <2>2, <2>3, <2>4
    <2> QED BY <1>1, <1>2, <2>5
  <1>5. 0..(n - i) \subseteq T
    <2>1. n - i \in Nat
      BY <1>1, <1>2
    <2> HIDE DEF T
    <2> QED BY <1>3, <1>4, <2>1, InductionUpTo
  <1>6. j - i \in 0..(n - i) /\ i + (j - i) = j
    BY <1>1, <1>2
  <1>7. before[i] <= before[i + (j - i)]
    BY <1>5, <1>6
  <1> QED BY <1>6, <1>7 DEF before

\* The index at a column: the first there, or else the last before it.
LEMMA ColumnIndex ==
  ASSUME NEW text \in Text, NEW column \in Int
  PROVE  LET before == DisplayWidthBeforeIndex(text)
             index  == IndexAtDisplayColumn(text, column)
             safe   == AtLeast(0, column)
         IN  /\ index \in 0..Len(text) /\ before[index] <= safe
             /\ \A i \in 0..Len(text) : before[i] <= safe /\ before[i] # safe => i <= index
             /\ \A i \in 0..Len(text) : before[i] = safe => before[index] = safe /\ index <= i
             /\ before[index] # safe => \A i \in 0..Len(text) : before[i] <= safe => i <= index
  <1> DEFINE before == DisplayWidthBeforeIndex(text)
             n == Len(text)
             index  == IndexAtDisplayColumn(text, column)
             safe   == AtLeast(0, column)
             there  == {i \in 0..n : before[i] = safe}
             upTo   == {i \in 0..n : before[i] <= safe}
  <1>1. n \in Nat /\ before \in [0..n -> Nat] /\ before[0] = 0 /\ safe \in Nat
    BY WidthsBefore DEF Text
  <1>2. \A i \in 0..n, j \in 0..n : i <= j => before[i] <= before[j]
    <2>1. \A i \in 0..n, j \in 0..n : i <= j => j \in i..n
      BY <1>1
    <2> QED BY <2>1, WidthsGrow
  <1>3. index = IF there # {} THEN Min(there) ELSE Max(upTo)
    BY DEF IndexAtDisplayColumn
  <1> HIDE DEF before, n, index, safe
  <1>4. there \in SUBSET Nat /\ upTo \in SUBSET (0..n) /\ 0 \in upTo
    BY <1>1
  <1>5. there # {} => Min(there) \in there /\ \A y \in there : Min(there) <= y
    <2> HIDE DEF there
    <2> QED BY <1>4, MinIs
  <1>6. Max(upTo) \in upTo /\ \A y \in upTo : y <= Max(upTo)
    <2> HIDE DEF upTo
    <2> QED BY <1>1, <1>4, MaxIs
  <1>7. CASE there # {}
    <2>1. index \in 0..n /\ before[index] = safe /\ \A i \in 0..n : before[i] = safe => index <= i
      BY <1>3, <1>5, <1>7
    <2>2. ASSUME NEW i \in 0..n, before[i] <= safe, before[i] # safe PROVE i <= index
      <3>1. ~(index <= i)
        BY <1>1, <1>2, <2>1, <2>2
      <3> QED BY <1>1, <2>1, <3>1
    <2> QED BY <1>1, <2>1, <2>2 DEF before, n, index, safe
  <1>8. CASE there = {}
    <2>1. /\ index \in 0..n /\ before[index] <= safe /\ before[index] # safe
          /\ \A i \in 0..n : before[i] <= safe => i <= index
      BY <1>3, <1>6, <1>8
    <2>2. \A i \in 0..n : before[i] # safe
      BY <1>8
    <2> QED BY <2>1, <2>2 DEF before, n, index, safe
  <1> QED BY <1>7, <1>8

HIDE DEF AtLeast, AtMost, Clamp

\* The positions in order, each once, and all of them.
LEMMA PositionsIs ==
  ASSUME NEW n \in Nat, NEW T
  PROVE  /\ Positions(n, T) \in Seq(1..n)
         /\ \A i \in DOMAIN Positions(n, T) : Positions(n, T)[i] \in T
         /\ \A j \in 1..n : j \in T => \E i \in DOMAIN Positions(n, T) : Positions(n, T)[i] = j
         /\ \A i, j \in DOMAIN Positions(n, T) : i < j => Positions(n, T)[i] < Positions(n, T)[j]
  <1> DEFINE all == [i \in 1..n |-> i]
             q == Positions(n, T)
  <1>1. all \in Seq(1..n) /\ Len(all) = n /\ \A i \in 1..n : all[i] = i
    <2>1. all = [i \in 1..n |-> all[i]] /\ \A i \in 1..n : all[i] \in 1..n
      OBVIOUS
    <2> QED BY <2>1, SeqOfN
  <1> HIDE DEF all
  <1>2. q \in Seq(1..n) /\ \E at : Picks(q, at, all, Len(all), T)
    BY <1>1, OnlyPicks DEF Positions, all
  <1> HIDE DEF q
  <1>3. PICK at : Picks(q, at, all, n, T)
    BY <1>1, <1>2
  <1>4. DOMAIN q = 1..Len(q) /\ at \in [1..Len(q) -> 1..n]
    BY <1>2, <1>3 DEF Picks
  <1>5. \A i \in DOMAIN q : q[i] = at[i] /\ q[i] \in T
    BY <1>1, <1>3, <1>4 DEF Picks
  <1>6. \A j \in 1..n : j \in T => \E i \in DOMAIN q : q[i] = j
    <2>1. \A j \in 1..n : all[j] \in T => \E i \in 1..Len(q) : at[i] = j
      BY <1>3 DEF Picks
    <2> QED BY <1>1, <1>4, <1>5, <2>1
  <1>7. \A i, j \in DOMAIN q : i < j => q[i] < q[j]
    <2>1. \A i, j \in 1..Len(q) : i < j => at[i] < at[j]
      BY <1>3 DEF Picks
    <2> QED BY <1>4, <1>5, <2>1
  <1> QED BY <1>2, <1>5, <1>6, <1>7 DEF q

\* Rows of a text: parts of it; and that they leave out no index from a to b.
RowsIn(text) == {row \in [start: Nat, end: Nat] : row.start <= row.end /\ row.end <= Len(text)}
Covers(rows, a, b) == \A i \in a..b : \E row \in Range(rows) : row.start <= i /\ i <= row.end

\* The hard lines of a text are parts of it and leave out no index.
LEMMA HardLinesAre ==
  ASSUME NEW text \in Text
  PROVE  HardLines(text) \in Seq(RowsIn(text)) /\ Covers(HardLines(text), 0, Len(text))
  <1> DEFINE n == Len(text)
             q == Positions(n, {i \in DOMAIN text : text[i] = Newline})
             m == Len(q)
             e == <<0>> \o q \o <<n + 1>>
             lines == HardLines(text)
  <1>1. n \in Nat
    BY DEF Text
  <1>2. q \in Seq(1..n) /\ \A i, j \in DOMAIN q : i < j => q[i] < q[j]
    BY <1>1, PositionsIs
  <1>3. m \in Nat /\ DOMAIN q = 1..m /\ \A k \in 1..m : q[k] \in 1..n
    BY <1>2
  <1>4. /\ Len(e) = m + 2 /\ e[1] = 0 /\ e[m + 2] = n + 1
        /\ \A k \in 1..m : e[k + 1] = q[k]
    <2>1. /\ <<0>> \in Seq(0..(n + 1)) /\ <<n + 1>> \in Seq(0..(n + 1))
          /\ Len(<<0>>) = 1 /\ Len(<<n + 1>>) = 1 /\ <<0>>[1] = 0 /\ <<n + 1>>[1] = n + 1
      BY <1>1
    <2>2. q \in Seq(0..(n + 1))
      <3>1. 1..n \subseteq 0..(n + 1)
        BY <1>1
      <3> HIDE DEF q
      <3> QED BY <1>2, <3>1, SeqMonotonic
    <2> HIDE DEF q, n
    <2> DEFINE h == <<0>> \o q
    <2>3. /\ h \in Seq(0..(n + 1)) /\ Len(h) = 1 + m
          /\ \A k \in 1..(1 + m) : h[k] = IF k <= 1 THEN <<0>>[k] ELSE q[k - 1]
      BY <2>1, <2>2, ConcatProperties
    <2> HIDE DEF h
    <2>4. /\ Len(h \o <<n + 1>>) = Len(h) + 1
          /\ \A k \in 1..(Len(h) + 1) : (h \o <<n + 1>>)[k] = IF k <= Len(h) THEN h[k] ELSE <<n + 1>>[k - Len(h)]
      BY <2>1, <2>3, ConcatProperties
    <2>5. e = h \o <<n + 1>>
      BY DEF h
    <2> HIDE DEF e, m
    <2>6. e[1] = 0
      BY <1>3, <2>1, <2>3, <2>4, <2>5
    <2>7. e[m + 2] = n + 1
      <3>1. m + 2 \in 1..(Len(h) + 1) /\ ~(m + 2 <= Len(h)) /\ (m + 2) - Len(h) = 1
        BY <1>3, <2>3
      <3> QED BY <2>1, <2>4, <2>5, <3>1
    <2>8. ASSUME NEW k \in 1..m PROVE e[k + 1] = q[k]
      <3>1. k + 1 \in 1..(Len(h) + 1) /\ k + 1 <= Len(h) /\ k + 1 \in 1..(1 + m) /\ ~(k + 1 <= 1) /\ (k + 1) - 1 = k
        BY <1>3, <2>3
      <3> QED BY <2>3, <2>4, <2>5, <3>1
    <2> QED BY <1>3, <2>3, <2>4, <2>5, <2>6, <2>7, <2>8
  <1>5. lines = [k \in 1..(Len(e) - 1) |-> [start |-> e[k], end |-> e[k + 1] - 1]]
    BY DEF HardLines, LinesBetween
  <1> HIDE DEF lines, e, q, n, m
  <1>6. \A k \in 1..(m + 1) : e[k] \in 0..n /\ e[k + 1] \in 1..(n + 1) /\ e[k] < e[k + 1]
    <2> SUFFICES ASSUME NEW k \in 1..(m + 1) PROVE e[k] \in 0..n /\ e[k + 1] \in 1..(n + 1) /\ e[k] < e[k + 1]
      OBVIOUS
    <2>1. k = 1 \/ (k - 1 \in 1..m /\ (k - 1) + 1 = k)
      BY <1>3
    <2>2. k = m + 1 \/ k \in 1..m
      BY <1>3
    <2>3. (m + 1) + 1 = m + 2
      BY <1>3
    <2>4. e[k] = 0 \/ (k - 1 \in 1..m /\ e[k] = q[k - 1])
      BY <1>4, <2>1
    <2>5. e[k + 1] = n + 1 \/ (k \in 1..m /\ e[k + 1] = q[k])
      BY <1>4, <2>2, <2>3
    <2>6. k - 1 \in 1..m => q[k - 1] \in 1..n
      BY <1>3
    <2>7. k \in 1..m => q[k] \in 1..n
      BY <1>3
    <2>8. k - 1 \in 1..m /\ k \in 1..m => q[k - 1] < q[k]
      BY <1>2, <1>3
    <2> QED BY <1>1, <2>4, <2>5, <2>6, <2>7, <2>8
  <1>7. lines = [k \in 1..(m + 1) |-> [start |-> e[k], end |-> e[k + 1] - 1]]
    <2>1. Len(e) - 1 = m + 1
      BY <1>3, <1>4
    <2> QED BY <1>5, <2>1
  <1>8. \A k \in 1..(m + 1) : lines[k] \in RowsIn(text) /\ lines[k].start = e[k] /\ lines[k].end = e[k + 1] - 1
    BY <1>1, <1>6, <1>7 DEF RowsIn, n
  <1>9. lines \in Seq(RowsIn(text)) /\ DOMAIN lines = 1..(m + 1)
    <2>1. m + 1 \in Nat /\ lines = [k \in 1..(m + 1) |-> lines[k]]
      BY <1>3, <1>7
    <2> QED BY <1>8, <2>1, SeqOfN
  <1>10. ASSUME NEW i \in 0..n PROVE \E k \in 1..(m + 1) : e[k] <= i /\ i <= e[k + 1] - 1
    <2> DEFINE K == {k \in 1..(m + 1) : e[k] <= i}
    <2>1. 1 \in K /\ K \in SUBSET (0..(m + 1)) /\ m + 1 \in Nat
      BY <1>1, <1>3, <1>4
    <2>2. Max(K) \in K /\ \A y \in K : y <= Max(K)
      <3> HIDE DEF K
      <3> QED BY <2>1, MaxIs
    <2>3. PICK k \in 1..(m + 1) : e[k] <= i /\ \A y \in K : y <= k
      BY <2>2
    <2>4. CASE k = m + 1
      <3>1. e[k + 1] = n + 1
        <4>1. (m + 1) + 1 = m + 2
          BY <1>3
        <4> QED BY <1>4, <2>4, <4>1
      <3> QED BY <1>1, <2>3, <3>1
    <2>5. CASE k # m + 1
      <3>1. k + 1 \in 1..(m + 1) /\ ~(k + 1 <= k)
        BY <1>3, <2>5
      <3>2. ~(e[k + 1] <= i)
        BY <2>3, <3>1
      <3>3. e[k + 1] \in 1..(n + 1)
        BY <1>6
      <3> QED BY <1>1, <2>3, <3>2, <3>3
    <2> QED BY <2>4, <2>5
  <1>11. Covers(lines, 0, n)
    <2> SUFFICES ASSUME NEW i \in 0..n PROVE \E row \in Range(lines) : row.start <= i /\ i <= row.end
      BY DEF Covers
    <2>1. PICK k \in 1..(m + 1) : e[k] <= i /\ i <= e[k + 1] - 1
      BY <1>10
    <2>2. lines[k] \in Range(lines)
      BY <1>9 DEF Range
    <2> QED BY <1>8, <2>1, <2>2
  <1> QED BY <1>9, <1>11 DEF lines, n

\* The rows a hard line wraps into are parts of it and leave out no index.
LEMMA LineRowsAre ==
  ASSUME NEW text \in Text, NEW line \in RowsIn(text), NEW columns
  PROVE  LET rows == AppendLineRows(text, line, columns)
         IN  rows \in Seq(RowsIn(text)) /\ Covers(rows, line.start, line.end)
  <1> DEFINE a == line.start
             b == line.end
             fits(i, j) == j = i + 1 \/ DisplayWidth(SubSeq(text, i + 1, j)) <= columns
             endOf(i) == Max({j \in (i + 1)..b : fits(i, j)})
             E(f) == f = [i \in a..b |-> IF i = b THEN <<>>
                                         ELSE <<[start |-> i, end |-> endOf(i)]>> \o f[endOf(i)]]
             rows == CHOOSE f : E(f)
             S == RowsIn(text)
  <1>1. a \in Nat /\ b \in Nat /\ a <= b /\ b <= Len(text) /\ Len(text) \in Nat
    BY DEF RowsIn, Text
  <1>2. AppendLineRows(text, line, columns) = IF a = b THEN <<line>> ELSE rows[a]
    BY Zenon DEF AppendLineRows
  <1>3. ASSUME NEW i \in a..(b - 1) PROVE endOf(i) \in (i + 1)..b
    <2> DEFINE q == {j \in (i + 1)..b : fits(i, j)}
    <2>1. i + 1 \in q /\ q \in SUBSET (0..b)
      BY <1>1
    <2>2. Max(q) \in q
      <3> HIDE DEF q
      <3> QED BY <1>1, <2>1, MaxIs
    <2> QED BY <2>2
  <1> HIDE DEF a, b, endOf, S
  <1>4. ASSUME NEW i \in a..(b - 1) PROVE [start |-> i, end |-> endOf(i)] \in S
    <2>1. endOf(i) \in Nat /\ i \in Nat /\ i <= endOf(i) /\ endOf(i) <= b
      BY <1>1, <1>3
    <2> QED BY <1>1, <2>1 DEF S, RowsIn
  <1> DEFINE jump == [i \in a..(b - 1) |-> endOf(i)]
             head == [i \in a..(b - 1) |-> <<[start |-> i, end |-> endOf(i)]>>]
  <1>5. \A i \in a..(b - 1) : jump[i] \in (i + 1)..b
    BY <1>3
  <1>17. \A i \in a..(b - 1) : head[i] \in Seq(S)
    BY <1>4
  <1>6. \A i \in a..(b - 1) : jump[i] = endOf(i) /\ head[i] = <<[start |-> i, end |-> endOf(i)]>>
    OBVIOUS
  <1> HIDE DEF jump, head
  <1>7. PICK t \in [a..b -> Seq(S)] : Jumps(t, a, b, head, jump)
    <2> HIDE DEF rows
    <2> QED BY <1>1, <1>5, <1>17, JumpsExist
  <1>8. \A i \in a..b : i = b \/ i \in a..(b - 1)
    BY <1>1
  <1>9. E(t)
    <2>1. \A i \in a..b : t[i] = IF i = b THEN <<>>
                                 ELSE <<[start |-> i, end |-> endOf(i)]>> \o t[endOf(i)]
      BY <1>6, <1>7, <1>8 DEF Jumps
    <2>2. t = [i \in a..b |-> t[i]]
      OBVIOUS
    <2> QED BY <2>1, <2>2
  <1>10. E(rows)
    <2> HIDE DEF E
    <2> QED BY <1>9
  <1> HIDE DEF rows
  <1>11. \A i \in a..b : rows[i] = IF i = b THEN <<>>
                                   ELSE <<[start |-> i, end |-> endOf(i)]>> \o rows[endOf(i)]
    BY <1>10
  <1> HIDE DEF E
  <1> DEFINE Good(i) == rows[i] \in Seq(S) /\ (i < b => Covers(rows[i], i, b))
             n == b - a
             T == {k \in 0..n : \A i \in (b - k)..b : Good(i)}
  <1>12. 0 \in T
    <2>1. b \in a..b /\ \A i \in (b - 0)..b : i = b /\ ~(i < b)
      BY <1>1
    <2>2. rows[b] = <<>>
      BY <1>11, <2>1
    <2>3. Good(b)
      BY <2>1, <2>2
    <2> HIDE DEF Good
    <2>4. \A i \in (b - 0)..b : Good(i)
      BY <2>1, <2>3
    <2> QED BY <1>1, <2>4
  <1>13. ASSUME NEW k \in 1..n, k - 1 \in T PROVE k \in T
    <2> DEFINE i == b - k
               j == endOf(i)
               r == [start |-> i, end |-> j]
    <2>1. i \in a..(b - 1) /\ i \in a..b /\ i # b /\ k \in 0..n
      BY <1>1
    <2> HIDE DEF i
    <2>2. j \in (i + 1)..b /\ r \in S
      BY <1>3, <1>4, <2>1
    <2>3. j \in (b - (k - 1))..b
      BY <1>1, <2>2 DEF i
    <2>4. Good(j)
      <3>1. \A x \in (b - (k - 1))..b : Good(x)
        BY <1>13
      <3> HIDE DEF Good, j
      <3> QED BY <2>3, <3>1
    <2>5. rows[i] = <<r>> \o rows[j]
      BY <1>11, <2>1
    <2> HIDE DEF j, r
    <2>6. rows[i] \in Seq(S) /\ Range(rows[i]) = Range(<<r>>) \cup Range(rows[j])
      <3>1. <<r>> \in Seq(S) /\ rows[j] \in Seq(S)
        BY <2>2, <2>4
      <3> HIDE DEF Good
      <3>2. rows[i] \in Seq(S)
        BY <2>5, <3>1, ConcatProperties
      <3>3. Range(rows[i]) = Range(<<r>>) \cup Range(rows[j])
        <4>1. Range(<<r>> \o rows[j]) = Range(<<r>>) \cup Range(rows[j])
          BY <3>1, RangeConcatenation, Zenon
        <4> QED BY <2>5, <4>1, Zenon
      <3> QED BY <3>2, <3>3
    <2>7. r \in Range(<<r>>)
      BY SingleRange
    <2>8. Covers(rows[i], i, b)
      <3> SUFFICES ASSUME NEW x \in i..b
                   PROVE  \E row \in Range(rows[i]) : row.start <= x /\ x <= row.end
        BY DEF Covers
      <3>1. CASE x <= j
        <4>1. r.start <= x /\ x <= r.end
          BY <1>1, <2>1, <3>1 DEF r
        <4> HIDE DEF Good
        <4> QED BY <2>6, <2>7, <4>1
      <3>2. CASE ~(x <= j)
        <4>1. j < b /\ x \in j..b
          BY <1>1, <2>1, <2>2, <3>2
        <4>2. \E row \in Range(rows[j]) : row.start <= x /\ x <= row.end
          BY <2>4, <4>1 DEF Covers
        <4> HIDE DEF Good
        <4> QED BY <2>6, <4>2
      <3> QED BY <3>1, <3>2
    <2>9. Good(i)
      BY <2>6, <2>8
    <2>10. \A x \in (b - k)..b : x = i \/ x \in (b - (k - 1))..b
      BY <1>1 DEF i
    <2> HIDE DEF Good
    <2>11. \A x \in (b - k)..b : Good(x)
      BY <1>13, <2>9, <2>10
    <2> QED BY <2>1, <2>11
  <1>14. Good(a)
    <2>1. n \in Nat /\ n \in 0..n /\ a \in (b - n)..b
      BY <1>1
    <2>2. 0..n \subseteq T
      <3> HIDE DEF T, n
      <3> QED BY <1>12, <1>13, <2>1, InductionUpTo
    <2>3. \A i \in (b - n)..b : Good(i)
      <3> HIDE DEF Good, n
      <3> QED BY <2>1, <2>2
    <2> HIDE DEF Good, n
    <2> QED BY <2>1, <2>3
  <1>15. CASE a = b
    <2>1. <<line>> \in Seq(S) /\ line \in Range(<<line>>)
      BY SingleRange DEF S
    <2>2. \A x \in a..b : line.start <= x /\ x <= line.end
      BY <1>1, <1>15 DEF a, b
    <2>3. Covers(<<line>>, a, b)
      BY <2>1, <2>2 DEF Covers
    <2> QED BY <1>2, <1>15, <2>1, <2>3 DEF a, b, S
  <1>16. CASE a # b
    <2>1. a < b
      BY <1>1, <1>16
    <2> QED BY <1>2, <1>14, <1>16, <2>1 DEF a, b, S
  <1> QED BY <1>15, <1>16

\* The rows the prompt wraps into are parts of it, leave out no index, and are never none.
LEMMA WrappedRowsAre ==
  ASSUME NEW text \in Text, NEW columns
  PROVE  LET rows == WrapPromptText(text, columns)
         IN  rows \in Seq(RowsIn(text)) /\ Covers(rows, 0, Len(text)) /\ rows # <<>>
  <1> DEFINE lines == HardLines(text)
             wide == AtLeast(1, columns)
             S == RowsIn(text)
             ss == [k \in DOMAIN lines |-> AppendLineRows(text, lines[k], wide)]
             rows == WrapPromptText(text, columns)
  <1>1. lines \in Seq(S) /\ Covers(lines, 0, Len(text)) /\ Len(text) \in Nat
    BY HardLinesAre DEF Text
  <1>2. rows = FlattenSeq(ss)
    BY DEF WrapPromptText, FlatMap
  <1> HIDE DEF rows, lines, S, wide
  <1>3. DOMAIN lines = 1..Len(lines) /\ Len(lines) \in Nat /\ \A k \in DOMAIN lines : lines[k] \in S
    BY <1>1
  <1>4. \A k \in DOMAIN lines : ss[k] = AppendLineRows(text, lines[k], wide)
    OBVIOUS
  <1>5. ss = [k \in 1..Len(lines) |-> ss[k]]
    BY <1>3
  <1> HIDE DEF ss
  <1>6. \A k \in DOMAIN lines : ss[k] \in Seq(S) /\ Covers(ss[k], lines[k].start, lines[k].end)
    BY <1>3, <1>4, LineRowsAre DEF S
  <1>7. ss \in Seq(Seq(S)) /\ DOMAIN ss = DOMAIN lines
    BY <1>3, <1>5, <1>6, SeqOfN
  <1>8. rows \in Seq(S) /\ Range(rows) = UNION {Range(ss[k]) : k \in DOMAIN ss}
    BY <1>2, <1>7, FlattenIs
  <1>9. Covers(rows, 0, Len(text))
    <2> SUFFICES ASSUME NEW x \in 0..Len(text)
                 PROVE  \E row \in Range(rows) : row.start <= x /\ x <= row.end
      BY DEF Covers
    <2>1. PICK line \in Range(lines) : line.start <= x /\ x <= line.end
      BY <1>1 DEF Covers
    <2>2. PICK k \in DOMAIN lines : line = lines[k]
      BY DEF Range
    <2>3. x \in lines[k].start..lines[k].end
      <3>1. lines[k].start \in Nat /\ lines[k].end \in Nat /\ x \in Nat
        BY <1>1, <1>3 DEF S, RowsIn
      <3> QED BY <2>1, <2>2, <3>1
    <2>4. \E row \in Range(ss[k]) : row.start <= x /\ x <= row.end
      BY <1>6, <2>3 DEF Covers
    <2>5. Range(ss[k]) \subseteq Range(rows)
      BY <1>7, <1>8
    <2> QED BY <2>4, <2>5
  <1>10. rows # <<>>
    <2>1. 0 \in 0..Len(text)
      BY <1>1
    <2>2. Range(rows) # {}
      BY <1>9, <2>1 DEF Covers
    <2>3. Range(<<>>) = {}
      BY DEF Range
    <2> QED BY <2>2, <2>3
  <1> QED BY <1>8, <1>9, <1>10 DEF rows, S

LEMMA SubText ==
  ASSUME NEW text \in Text, NEW m \in Nat \ {0}, NEW n \in Int, n <= Len(text)
  PROVE  /\ SubSeq(text, m, n) \in Text
         /\ Len(SubSeq(text, m, n)) = IF m <= n THEN n - m + 1 ELSE 0
         /\ \A i \in 1..(n - m + 1) : SubSeq(text, m, n)[i] = text[m + i - 1]
  <1>1. Len(text) \in Nat /\ \A i \in 1..Len(text) : text[i] \in Grapheme
    BY DEF Text
  <1>2. \A i \in m..n : text[i] \in Grapheme
    <2>1. \A i \in m..n : i \in 1..Len(text)
      BY <1>1
    <2> QED BY <1>1, <2>1
  <1> QED BY <1>2, SubSeqProperties DEF Text

LEMMA TrimIsText ==
  ASSUME NEW text \in Text
  PROVE  Trim(text) \in Text /\ TrimEnd(text) \in Text
  <1> DEFINE kept == {i \in DOMAIN text : text[i] \notin Blank}
             n == Len(text)
  <1>1. n \in Nat /\ kept \in SUBSET (1..n) /\ <<>> \in Text
    BY DEF Text
  <1> HIDE DEF kept, n
  <1>2. ASSUME kept # {} PROVE Min(kept) \in 1..n /\ Max(kept) \in 1..n
    <2>1. kept \in SUBSET Nat /\ kept \in SUBSET (0..n)
      BY <1>1
    <2>2. Min(kept) \in kept /\ Max(kept) \in kept
      BY <1>1, <1>2, <2>1, MinIs, MaxIs
    <2> QED BY <1>1, <2>2
  <1>3. Trim(text) \in Text
    <2>1. Trim(text) = IF kept = {} THEN <<>> ELSE SubSeq(text, Min(kept), Max(kept))
      BY DEF Trim, kept
    <2>2. CASE kept # {}
      <3>1. Min(kept) \in Nat \ {0} /\ Max(kept) \in Int /\ Max(kept) <= Len(text)
        BY <1>1, <1>2, <2>2 DEF n
      <3> QED BY <2>1, <2>2, <3>1, SubText
    <2> QED BY <1>1, <2>1, <2>2
  <1>4. TrimEnd(text) \in Text
    <2> DEFINE q == {0} \cup kept
    <2>1. q \in SUBSET (0..n) /\ q # {}
      BY <1>1
    <2>2. Max(q) \in 0..n
      <3> HIDE DEF q
      <3> QED BY <1>1, <2>1, MaxIs
    <2>3. TrimEnd(text) = SubSeq(text, 1, Max(q))
      BY DEF TrimEnd, kept
    <2> HIDE DEF q
    <2>4. Max(q) \in Int /\ Max(q) <= Len(text)
      BY <1>1, <2>2 DEF n
    <2> QED BY <2>3, <2>4, SubText
  <1> QED BY <1>3, <1>4

\* Rows of a text are rows.
LEMMA RowsInText ==
  ASSUME NEW text, NEW rows \in Seq(RowsIn(text)), NEW k \in 1..Len(rows)
  PROVE  /\ rows \in Seq([start: Nat, end: Nat])
         /\ rows[k].start \in Nat /\ rows[k].end \in Nat
         /\ rows[k].start <= rows[k].end /\ rows[k].end <= Len(text)
  <1>1. RowsIn(text) \subseteq [start: Nat, end: Nat]
    BY DEF RowsIn
  <1>2. rows \in Seq([start: Nat, end: Nat])
    BY <1>1, SeqMonotonic
  <1>3. rows[k] \in RowsIn(text)
    OBVIOUS
  <1> QED BY <1>2, <1>3 DEF RowsIn

\* The cursor's row holds it.
LEMMA CursorRowHolds ==
  ASSUME NEW text \in Text, NEW columns, NEW index \in 0..Len(text)
  PROVE  LET rows == WrapPromptText(text, columns)
             row  == ResolveCursorRowIndex(rows, index)
         IN  /\ row \in 0..(Len(rows) - 1)
             /\ rows[row + 1].start <= index /\ index <= rows[row + 1].end
  <1> DEFINE rows == WrapPromptText(text, columns)
             holding == {k \in DOMAIN rows : rows[k].start <= index /\ index <= rows[k].end}
             row  == ResolveCursorRowIndex(rows, index)
  <1>1. rows \in Seq(RowsIn(text)) /\ Covers(rows, 0, Len(text))
    BY WrappedRowsAre
  <1>2. row = IF holding = {} THEN 0 ELSE Min(holding) - 1
    BY DEF ResolveCursorRowIndex
  <1> HIDE DEF rows, row
  <1>3. DOMAIN rows = 1..Len(rows) /\ Len(rows) \in Nat
    BY <1>1
  <1>4. holding # {} /\ holding \in SUBSET Nat
    <2>1. \E r \in Range(rows) : r.start <= index /\ index <= r.end
      BY <1>1 DEF Covers
    <2>2. \E k \in DOMAIN rows : rows[k].start <= index /\ index <= rows[k].end
      BY <2>1 DEF Range
    <2>3. holding # {}
      BY <2>2
    <2> QED BY <1>3, <2>3
  <1>5. Min(holding) \in holding
    <2> HIDE DEF holding
    <2> QED BY <1>4, MinIs
  <1>6. row + 1 = Min(holding) /\ row \in Int
    <2>1. Min(holding) \in Nat
      BY <1>4, <1>5
    <2> DEFINE m == Min(holding)
    <2>2. row = m - 1
      <3> HIDE DEF holding
      <3> QED BY <1>2, <1>4, Zenon
    <2> HIDE DEF m
    <2>3. m \in Nat
      BY <2>1 DEF m
    <2>4. row + 1 = m /\ row \in Int
      BY <2>2, <2>3
    <2> QED BY <2>4 DEF m
  <1>7. row + 1 \in 1..Len(rows) /\ rows[row + 1].start <= index /\ index <= rows[row + 1].end
    BY <1>3, <1>5, <1>6
  <1>9. row \in 0..(Len(rows) - 1)
    BY <1>3, <1>6, <1>7
  <1> QED BY <1>7, <1>9 DEF rows, row

\* The index under a column of a row is an index of the row.
LEMMA ColumnInRow ==
  ASSUME NEW text \in Text, NEW rows \in Seq(RowsIn(text)), NEW k \in 1..Len(rows), NEW column \in Int
  PROVE  LET index == rows[k].start + IndexAtDisplayColumn(Slice(text, rows[k]), column)
         IN  index \in rows[k].start..rows[k].end /\ index \in 0..Len(text)
  <1> DEFINE a == rows[k].start
             b == rows[k].end
             slice == Slice(text, rows[k])
             at == IndexAtDisplayColumn(slice, column)
  <1>1. a \in Nat /\ b \in Nat /\ a <= b /\ b <= Len(text) /\ Len(text) \in Nat
    BY RowsInText DEF Text
  <1>2. slice = SubSeq(text, a + 1, b)
    BY DEF Slice
  <1> HIDE DEF a, b
  <1>3. slice \in Text /\ Len(slice) = b - a
    <2>1. a + 1 \in Nat \ {0} /\ b \in Int
      BY <1>1
    <2>2. LET part == SubSeq(text, a + 1, b)
          IN  part \in Text /\ Len(part) = IF a + 1 <= b THEN b - (a + 1) + 1 ELSE 0
      BY <1>1, <2>1, SubText
    <2> HIDE DEF slice
    <2> QED BY <1>1, <1>2, <2>2
  <1>4. at \in 0..Len(slice)
    <2> HIDE DEF slice
    <2> QED BY <1>3, ColumnIndex
  <1> HIDE DEF at, slice
  <1>5. a + at \in a..b /\ a + at \in 0..Len(text)
    BY <1>1, <1>3, <1>4
  <1> QED BY <1>5 DEF a, b, at, slice

\* Where a step up or down puts the caret is an index of the text.
LEMMA VerticalTarget ==
  ASSUME NEW c, c.text \in Text, c.cursor \in 0..Len(c.text), NEW columns, NEW step \in Int
  PROVE  LET target == ResolveVerticalCursorIndex(c, columns, step)
         IN  target = NoTarget \/ target \in 0..Len(c.text)
  <1> DEFINE rows    == WrapPromptText(c.text, columns)
             current == ResolveCursorRowIndex(rows, c.cursor)
             from    == rows[current + 1]
             to      == rows[current + step + 1]
             slice   == Slice(c.text, from)
             before  == DisplayWidthBeforeIndex(slice)
             target  == ResolveVerticalCursorIndex(c, columns, step)
             column  == before[c.cursor - from.start]
  <1>1. target = IF current + step \in 0..(Len(rows) - 1)
                 THEN to.start + IndexAtDisplayColumn(Slice(c.text, to), column)
                 ELSE NoTarget
    BY DEF ResolveVerticalCursorIndex
  <1>2. /\ current \in 0..(Len(rows) - 1) /\ from.start <= c.cursor /\ c.cursor <= from.end
        /\ rows \in Seq(RowsIn(c.text)) /\ Len(rows) \in Nat
    BY WrappedRowsAre, CursorRowHolds
  <1> HIDE DEF rows, current
  <1>3. CASE current + step \in 0..(Len(rows) - 1)
    <2>1. current + 1 \in 1..Len(rows) /\ current + step + 1 \in 1..Len(rows)
      BY <1>2, <1>3
    <2>2. /\ from.start \in Nat /\ from.end \in Nat /\ from.start <= from.end
          /\ from.end <= Len(c.text) /\ Len(c.text) \in Nat
      BY <1>2, <2>1, RowsInText DEF Text
    <2>3. slice \in Text /\ Len(slice) = from.end - from.start
      <3> DEFINE a == from.start
                 b == from.end
      <3>1. a \in Nat /\ b \in Nat /\ a <= b /\ b <= Len(c.text)
        BY <2>2
      <3>2. slice = SubSeq(c.text, a + 1, b)
        BY DEF Slice
      <3> HIDE DEF slice, a, b
      <3>3. a + 1 \in Nat \ {0} /\ b \in Int
        BY <3>1
      <3>4. slice \in Text /\ Len(slice) = IF a + 1 <= b THEN b - (a + 1) + 1 ELSE 0
        BY <3>1, <3>2, <3>3, SubText
      <3>5. Len(slice) = b - a
        BY <3>1, <3>4
      <3> QED BY <3>4, <3>5 DEF a, b
    <2> HIDE DEF slice, from
    <2>4. before \in [0..Len(slice) -> Nat]
      BY <2>3, WidthsBefore
    <2>5. c.cursor - from.start \in 0..Len(slice)
      BY <1>2, <2>2, <2>3
    <2> HIDE DEF before
    <2>6. column \in Int
      BY <2>4, <2>5
    <2> HIDE DEF column
    <2>7. to.start + IndexAtDisplayColumn(Slice(c.text, to), column) \in 0..Len(c.text)
      BY <1>2, <2>1, <2>6, ColumnInRow
    <2> QED BY <1>1, <1>3, <2>7
  <1>4. CASE ~(current + step \in 0..(Len(rows) - 1))
    BY <1>1, <1>4
  <1> QED BY <1>3, <1>4 DEF target

-----------------------------------------------------------------------------
(* The composer: its caret is in its text *)

USE DEF AtLeast, AtMost, Clamp

ComposerFields == {"text", "cursor", "offset", "error"}

\* A composer whose caret is in its text.
Caret(c) ==
  /\ DOMAIN c = ComposerFields
  /\ c.text \in Text /\ c.cursor \in 0..Len(c.text) /\ c.offset \in Int

LEMMA ClampIs ==
  ASSUME NEW low \in Int, NEW high \in Int, low <= high, NEW value \in Int
  PROVE  /\ Clamp(value, low, high) \in low..high
         /\ value \in low..high => Clamp(value, low, high) = value
  OBVIOUS

LEMMA NewText ==
  ASSUME NEW text \in Text, NEW error
  PROVE  Caret(WithText(text, error)) /\ Caret(EmptyComposer)
  <1>1. Len(text) \in 0..Len(text) /\ <<>> \in Text /\ Len(<<>>) = 0
    BY DEF Text
  <1> QED BY <1>1 DEF WithText, EmptyComposer, Caret, ComposerFields

LEMMA EditedCaret ==
  ASSUME NEW c, Caret(c), NEW text \in Text, NEW cursor \in 0..Len(text), NEW error
  PROVE  Caret([c EXCEPT !.text = text, !.cursor = cursor, !.error = error])
  BY DEF Caret, ComposerFields

LEMMA MovedCaret ==
  ASSUME NEW c, Caret(c), NEW cursor \in 0..Len(c.text), NEW offset \in Int
  PROVE  Caret([c EXCEPT !.cursor = cursor]) /\ Caret([c EXCEPT !.offset = offset])
         /\ Caret([c EXCEPT !.cursor = cursor, !.offset = offset])
  BY DEF Caret, ComposerFields

LEMMA CaretAt ==
  ASSUME NEW c, Caret(c)
  PROVE  /\ Len(c.text) \in Nat /\ c.cursor \in Nat /\ c.cursor <= Len(c.text)
         /\ ClampToGraphemeBoundary(c.text, c.cursor) = c.cursor
  <1>1. Len(c.text) \in Nat
    BY DEF Caret, Text
  <1> QED BY <1>1 DEF Caret, ClampToGraphemeBoundary

LEMMA InsertedCaret ==
  ASSUME NEW c, Caret(c), NEW inserted \in Text
  PROVE  Caret(InsertText(c, inserted))
  <1> DEFINE at == c.cursor
             n == Len(c.text)
             left == SubSeq(c.text, 1, at)
             right == SubSeq(c.text, at + 1, n)
             text == left \o inserted \o right
  <1>1. c.text \in Text /\ n \in Nat /\ at \in 0..n /\ Len(inserted) \in Nat
    BY CaretAt DEF Caret, Text
  <1>2. InsertText(c, inserted) = IF inserted = <<>> THEN c
          ELSE [c EXCEPT !.text = text, !.cursor = at + Len(inserted), !.error = OverLimit(text)]
    BY CaretAt DEF InsertText
  <1>3. left \in Text /\ Len(left) = at /\ right \in Text /\ Len(right) = n - at
    <2> HIDE DEF at
    <2>1. 1 \in Nat \ {0} /\ at \in Int /\ at <= n /\ at + 1 \in Nat \ {0} /\ n \in Int /\ n <= n
      BY <1>1
    <2>2. left \in Text /\ Len(left) = IF 1 <= at THEN at - 1 + 1 ELSE 0
      BY <1>1, <2>1, SubText
    <2>3. right \in Text /\ Len(right) = IF at + 1 <= n THEN n - (at + 1) + 1 ELSE 0
      BY <1>1, <2>1, SubText
    <2> HIDE DEF left, right, n
    <2> QED BY <1>1, <2>2, <2>3
  <1> HIDE DEF left, right, n, at
  <1>4. text \in Text /\ Len(text) = at + Len(inserted) + (n - at)
    <2> DEFINE most == left \o inserted
    <2>1. most \in Text /\ Len(most) = Len(left) + Len(inserted)
      BY <1>3, ConcatProperties DEF Text
    <2> HIDE DEF most
    <2>2. most \o right \in Text /\ Len(most \o right) = Len(most) + Len(right)
      BY <1>3, <2>1, ConcatProperties DEF Text
    <2> QED BY <1>3, <2>1, <2>2 DEF most
  <1> HIDE DEF text
  <1>5. at + Len(inserted) \in 0..Len(text)
    BY <1>1, <1>4
  <1>6. Caret([c EXCEPT !.text = text, !.cursor = at + Len(inserted), !.error = OverLimit(text)])
    BY <1>4, <1>5, EditedCaret
  <1> QED BY <1>2, <1>6, Zenon

LEMMA DeletedCaret ==
  ASSUME NEW c, Caret(c)
  PROVE  Caret(DeleteBackward(c))
  <1> DEFINE at == c.cursor
             n == Len(c.text)
             left == SubSeq(c.text, 1, at - 1)
             right == SubSeq(c.text, at + 1, n)
             text == left \o right
             error == OverLimit(text)
  <1>1. c.text \in Text /\ n \in Nat /\ at \in 0..n
    BY CaretAt DEF Caret
  <1>2. CASE at = 0
    BY <1>2, CaretAt DEF DeleteBackward
  <1>3. CASE at # 0
    <2>1. PreviousGraphemeStart(at) = at - 1 /\ at - 1 \in Nat
      <3> HIDE DEF at, n
      <3> QED BY <1>1, <1>3 DEF PreviousGraphemeStart
    <2>2. DeleteBackward(c) = [c EXCEPT !.text = text, !.cursor = at - 1, !.error = error]
      BY <1>3, <2>1, CaretAt DEF DeleteBackward
    <2>3. left \in Text /\ Len(left) = at - 1 /\ right \in Text /\ Len(right) = n - at
      <3> HIDE DEF at
      <3>1. 1 \in Nat \ {0} /\ at - 1 \in Int /\ at - 1 <= n /\ at + 1 \in Nat \ {0} /\ n \in Int /\ n <= n
        BY <1>1, <2>1
      <3>2. left \in Text /\ Len(left) = IF 1 <= at - 1 THEN (at - 1) - 1 + 1 ELSE 0
        BY <1>1, <3>1, SubText
      <3>3. right \in Text /\ Len(right) = IF at + 1 <= n THEN n - (at + 1) + 1 ELSE 0
        BY <1>1, <3>1, SubText
      <3> HIDE DEF left, right, n
      <3> QED BY <1>1, <2>1, <3>2, <3>3
    <2> HIDE DEF left, right, n, at, error
    <2>4. text \in Text /\ Len(text) = Len(left) + Len(right)
      BY <2>3, ConcatProperties DEF Text
    <2> HIDE DEF text
    <2>5. at - 1 \in 0..Len(text)
      BY <1>1, <2>1, <2>3, <2>4
    <2>6. Caret([c EXCEPT !.text = text, !.cursor = at - 1, !.error = error])
      BY <2>4, <2>5, EditedCaret
    <2> QED BY <2>2, <2>6, Zenon
  <1> QED BY <1>2, <1>3

LEMMA SteppedCaret ==
  ASSUME NEW c, Caret(c), NEW step \in Int
  PROVE  /\ Caret(MoveCursor(c, step))
         /\ \A columns : Caret(MoveCursorVertically(c, columns, step))
  <1>1. Len(c.text) \in Nat /\ c.cursor \in 0..Len(c.text) /\ c.text \in Text
    BY CaretAt DEF Caret
  <1>2. Caret(MoveCursor(c, step))
    <2> DEFINE n == Len(c.text)
               at == c.cursor
               to == IF step < 0 THEN PreviousGraphemeStart(at) ELSE NextGraphemeEnd(c.text, at)
    <2>1. to \in 0..n
      <3> HIDE DEF n, at
      <3>1. n \in Nat /\ at \in 0..n /\ NextGraphemeEnd(c.text, at) = AtMost(n, at + 1)
        BY <1>1 DEF n, at, NextGraphemeEnd
      <3> QED BY <3>1 DEF PreviousGraphemeStart
    <2>2. MoveCursor(c, step) = [c EXCEPT !.cursor = to]
      BY DEF MoveCursor
    <2> HIDE DEF to
    <2>3. Caret([c EXCEPT !.cursor = to])
      <3>1. c.offset \in Int
        BY DEF Caret
      <3> QED BY <2>1, <3>1, MovedCaret
    <2> QED BY <2>2, <2>3, Zenon
  <1>3. ASSUME NEW columns PROVE Caret(MoveCursorVertically(c, columns, step))
    <2> DEFINE target == ResolveVerticalCursorIndex(c, columns, step)
    <2>1. target = NoTarget \/ target \in 0..Len(c.text)
      BY <1>1, VerticalTarget
    <2>2. MoveCursorVertically(c, columns, step)
            = IF target = NoTarget THEN c ELSE [c EXCEPT !.cursor = target]
      BY DEF MoveCursorVertically
    <2> HIDE DEF target
    <2> QED BY <2>1, <2>2, MovedCaret
  <1> QED BY <1>2, <1>3

\* Where a click puts the caret is in the text, on one of the rows seen.
LEMMA ClickedCaret ==
  ASSUME NEW c, Caret(c), NEW columns, NEW visible \in Int, NEW visibleRow \in Int, NEW column \in Int
  PROVE  Caret(ResolveClickResult(c, columns, visible, visibleRow, column))
  <1> DEFINE rows  == WrapPromptText(c.text, columns)
             seen  == AtLeast(1, visible)
             start == BoundsOn(rows, c, visible).visibleStart
             row   == rows[start + visibleRow + 1]
             index == row.start + IndexAtDisplayColumn(Slice(c.text, row), column)
             held  == HoldWindow(Len(rows), seen, ResolveCursorRowIndex(rows, index), start)
             result == ResolveClickResult(c, columns, visible, visibleRow, column)
  <1>1. c.text \in Text /\ Len(c.text) \in Nat /\ c.cursor \in 0..Len(c.text) /\ c.offset \in Int
        /\ ClampToGraphemeBoundary(c.text, c.cursor) = c.cursor
    BY CaretAt DEF Caret
  <1>2. result = IF visibleRow < 0 \/ visibleRow >= seen \/ start + visibleRow >= Len(rows)
                 THEN c
                 ELSE [c EXCEPT !.cursor = ClampToGraphemeBoundary(c.text, index), !.offset = held]
    BY DEF ResolveClickResult
  <1>3. /\ rows \in Seq(RowsIn(c.text)) /\ rows # <<>> /\ Len(rows) \in Nat /\ Len(rows) > 0
        /\ ResolveCursorRowIndex(rows, c.cursor) \in 0..(Len(rows) - 1)
    BY <1>1, WrappedRowsAre, CursorRowHolds
  <1>4. seen \in Nat \ {0}
    OBVIOUS
  <1>5. start \in 0..(Len(rows) - 1)
    <2> DEFINE total == Len(rows)
               at == ResolveCursorRowIndex(rows, c.cursor)
    <2>1. BoundsOn(rows, c, visible) = ResolveWindowBounds(total, seen, at, c.offset)
      BY <1>1 DEF BoundsOn
    <2> HIDE DEF seen, rows, total, at
    <2>2. total \in Nat /\ at \in 0..(total - 1)
      BY <1>3 DEF total, at
    <2>3. ResolveWindowBounds(total, seen, at, c.offset).visibleStart \in 0..(total - 1)
      BY <1>1, <1>4, <2>2 DEF ResolveWindowBounds
    <2> QED BY <2>1, <2>3 DEF total
  <1>6. CASE visibleRow < 0 \/ visibleRow >= seen \/ start + visibleRow >= Len(rows)
    BY <1>2, <1>6
  <1>7. CASE ~(visibleRow < 0 \/ visibleRow >= seen \/ start + visibleRow >= Len(rows))
    <2> HIDE DEF rows, start, seen, result
    <2>1. start + visibleRow + 1 \in 1..Len(rows)
      BY <1>3, <1>5, <1>7
    <2>2. index \in 0..Len(c.text)
      BY <1>1, <1>3, <2>1, ColumnInRow
    <2> HIDE DEF index, held
    <2>3. ClampToGraphemeBoundary(c.text, index) = index
      BY <1>1, <2>2 DEF ClampToGraphemeBoundary
    <2>4. held \in Int
      <3>1. ResolveCursorRowIndex(rows, index) \in 0..(Len(rows) - 1)
        BY <1>1, <2>2, CursorRowHolds DEF rows
      <3> QED BY <1>3, <1>4, <1>5, <3>1 DEF held, HoldWindow
    <2>5. Caret([c EXCEPT !.cursor = index, !.offset = held])
      BY <2>2, <2>4, MovedCaret
    <2> QED BY <1>2, <1>7, <2>3, <2>5, Zenon DEF result
  <1> HIDE DEF result
  <1> QED BY <1>6, <1>7 DEF result

LEMMA PastedIsText ==
  ASSUME NEW text \in Text
  PROVE  SanitizePastedText(text) \in Text
  <1> DEFINE T == {i \in DOMAIN text :
                    /\ text[i] \notin Control
                    /\ ~(text[i] = Newline /\ i > 1 /\ text[i - 1] = Return)}
             kept == Positions(Len(text), T)
             out == [k \in DOMAIN kept |-> IF text[kept[k]] = Return THEN Newline ELSE text[kept[k]]]
  <1>1. Len(text) \in Nat /\ \A i \in 1..Len(text) : text[i] \in Grapheme
    BY DEF Text
  <1>2. Newline \in Grapheme
    BY TextAssumption DEF Blank
  <1>3. kept \in Seq(1..Len(text))
    <2> HIDE DEF T
    <2> QED BY <1>1, PositionsIs
  <1>4. SanitizePastedText(text) = out
    BY DEF SanitizePastedText
  <1> HIDE DEF kept
  <1>5. DOMAIN kept = 1..Len(kept) /\ Len(kept) \in Nat /\ \A k \in DOMAIN kept : kept[k] \in 1..Len(text)
    BY <1>3
  <1>6. \A k \in 1..Len(kept) : out[k] \in Grapheme
    BY <1>1, <1>2, <1>5
  <1>7. out = [k \in 1..Len(kept) |-> out[k]]
    BY <1>5
  <1> HIDE DEF out
  <1>8. out \in Seq(Grapheme)
    BY <1>5, <1>6, <1>7, SeqOfN
  <1> QED BY <1>4, <1>8 DEF Text

-----------------------------------------------------------------------------
\* A ring of texts, walked or not.
Ring(r) ==
  /\ r \in [entries: Seq(Text), active: Nat, draft: Text] /\ r.active <= Len(r.entries)

LEMMA RingAppended ==
  ASSUME NEW r, Ring(r), NEW text \in Text
  PROVE  Ring(AppendRecallEntry(r, text)) /\ Ring(EmptyRing)
  <1>1. Ring(EmptyRing)
    BY DEF EmptyRing, Ring, NoRecall, Text
  <1> DEFINE entries == IF r.entries # <<>> /\ Last(r.entries) = text
                        THEN r.entries ELSE Append(r.entries, text)
             from == 1 + AtLeast(0, Len(entries) - MaxRing)
             kept == SubSeq(entries, from, Len(entries))
  <1>2. entries \in Seq(Text)
    BY DEF Ring
  <1>3. AppendRecallEntry(r, text) = [EmptyRing EXCEPT !.entries = kept]
    BY DEF AppendRecallEntry
  <1> HIDE DEF entries
  <1>4. kept \in Seq(Text)
    <2>1. Len(entries) \in Nat /\ from \in Nat \ {0}
      BY <1>2, RingAssumption
    <2> HIDE DEF from
    <2>2. \A i \in from..Len(entries) : entries[i] \in Text
      BY <1>2, <2>1
    <2> QED BY <2>1, <2>2, SubSeqProperties
  <1> HIDE DEF kept
  <1>5. Ring([EmptyRing EXCEPT !.entries = kept])
    <2>1. Len(kept) \in Nat /\ <<>> \in Text
      BY <1>4 DEF Text
    <2> QED BY <1>4, <2>1 DEF EmptyRing, Ring, NoRecall
  <1> QED BY <1>1, <1>3, <1>5

LEMMA RingWalked ==
  ASSUME NEW r, Ring(r), NEW draft \in Text
  PROVE  /\ Ring(RecallPrevious(r, draft).ring) /\ RecallPrevious(r, draft).text \in Text
         /\ Ring(RecallNext(r).ring) /\ RecallNext(r).text \in Text
  <1> DEFINE n == Len(r.entries)
  <1>1. r.entries \in Seq(Text) /\ n \in Nat /\ r.active \in 0..n /\ r.draft \in Text /\ <<>> \in Text
    BY DEF Ring, Text
  <1>2. \A active \in 0..n : Ring([r EXCEPT !.active = active])
    BY <1>1 DEF Ring
  <1>3. \A active \in 0..n : \A d \in Text : Ring([r EXCEPT !.active = active, !.draft = d])
    <2> TAKE active \in 0..n
    <2> TAKE d \in Text
    <2> DEFINE q == [r EXCEPT !.active = active, !.draft = d]
    <2>1. active \in Nat /\ active <= n /\ r \in [entries: Seq(Text), active: Nat, draft: Text]
      BY <1>1 DEF Ring
    <2>2. q \in [entries: Seq(Text), active: Nat, draft: Text]
      BY <2>1
    <2>3. q.entries = r.entries /\ q.active = active
      BY <2>1
    <2> HIDE DEF q, n
    <2> QED BY <2>1, <2>2, <2>3 DEF Ring, n
  <1>4. Ring(RecallPrevious(r, draft).ring) /\ RecallPrevious(r, draft).text \in Text
    <2> DEFINE first  == r.active = NoRecall
               active == IF first THEN n ELSE AtLeast(1, r.active - 1)
               d == IF first THEN draft ELSE r.draft
    <2>1. CASE r.entries = <<>>
      BY <1>1, <2>1 DEF RecallPrevious, Recalled
    <2>2. CASE r.entries # <<>>
      <3>1. n # 0
        BY <1>1, <2>2
      <3>2. active \in 1..n /\ d \in Text
        <4> HIDE DEF n
        <4> QED BY <1>1, <3>1 DEF NoRecall
      <3>3. r.entries[active] \in Text
        BY <1>1, <3>2
      <3>4. RecallPrevious(r, draft)
              = Recalled([r EXCEPT !.active = active, !.draft = d], TRUE, r.entries[active])
        BY <2>2 DEF RecallPrevious
      <3> HIDE DEF active, d, n
      <3>5. Ring([r EXCEPT !.active = active, !.draft = d])
        <4>1. active \in 0..n
          BY <1>1, <3>2
        <4> QED BY <1>3, <3>2, <4>1, Zenon
      <3> QED BY <3>3, <3>4, <3>5 DEF Recalled
    <2> QED BY <2>1, <2>2
  <1>5. Ring(RecallNext(r).ring) /\ RecallNext(r).text \in Text
    <2>1. CASE r.active = NoRecall
      <3>1. RecallNext(r) = Recalled(r, FALSE, <<>>)
        <4>1. r.active \notin 1..(n - 1)
          BY <1>1, <2>1 DEF NoRecall
        <4> QED BY <2>1, <4>1 DEF RecallNext
      <3> QED BY <1>1, <3>1 DEF Recalled
    <2>2. CASE r.active # NoRecall /\ r.active \in 1..(n - 1)
      <3>1. r.active + 1 \in 1..n /\ r.active + 1 \in 0..n
        BY <1>1, <2>2
      <3>2. r.entries[r.active + 1] \in Text
        BY <1>1, <3>1
      <3>3. RecallNext(r) = Recalled([r EXCEPT !.active = r.active + 1], TRUE, r.entries[r.active + 1])
        BY <2>2 DEF RecallNext
      <3> HIDE DEF n
      <3>4. Ring([r EXCEPT !.active = r.active + 1])
        BY <1>2, <3>1
      <3> QED BY <3>2, <3>3, <3>4 DEF Recalled
    <2>3. CASE r.active # NoRecall /\ ~(r.active \in 1..(n - 1))
      <3>1. RecallNext(r) = Recalled([r EXCEPT !.active = NoRecall, !.draft = <<>>], TRUE, r.draft)
        BY <2>3 DEF RecallNext
      <3>2. Ring([r EXCEPT !.active = NoRecall, !.draft = <<>>])
        <4>1. NoRecall \in 0..n
          BY <1>1 DEF NoRecall
        <4> QED BY <1>1, <1>3, <4>1, Zenon
      <3> QED BY <1>1, <3>1, <3>2 DEF Recalled
    <2> QED BY <2>1, <2>2, <2>3
  <1> QED BY <1>4, <1>5

-----------------------------------------------------------------------------
(* The command menu *)

\* The entries of the command menu.
Subcommand == [id: STRING, name: Text]
Command    == [id: STRING, name: Text, subs: Seq(Subcommand)]
MenuEntry  == [command: Command, sub: Subcommand \cup {NoSub}]

LEMMA EntriesAre ==
  ASSUME NEW command \in Command
  PROVE  /\ CommandEntry(command) \in MenuEntry /\ SubEntries(command) \in Seq(MenuEntry)
         /\ <<CommandEntry(command)>> \o SubEntries(command) \in Seq(MenuEntry)
  <1>1. CommandEntry(command) \in MenuEntry
    BY DEF CommandEntry, MenuEntry
  <1> DEFINE subs == command.subs
             all == [k \in DOMAIN subs |-> [command |-> command, sub |-> subs[k]]]
  <1>2. subs \in Seq(Subcommand)
    BY DEF Command
  <1> HIDE DEF subs
  <1>3. Len(subs) \in Nat /\ DOMAIN subs = 1..Len(subs) /\ \A k \in DOMAIN subs : subs[k] \in Subcommand
    BY <1>2
  <1>4. all \in Seq(MenuEntry)
    <2>1. \A k \in 1..Len(subs) : all[k] \in MenuEntry
      BY <1>3 DEF MenuEntry
    <2>2. all = [k \in 1..Len(subs) |-> all[k]]
      BY <1>3
    <2> HIDE DEF all
    <2> QED BY <1>3, <2>1, <2>2, SeqOfN
  <1>5. SubEntries(command) \in Seq(MenuEntry)
    BY <1>4 DEF SubEntries, subs
  <1>6. <<CommandEntry(command)>> \in Seq(MenuEntry)
    BY <1>1
  <1>7. <<CommandEntry(command)>> \o SubEntries(command) \in Seq(MenuEntry)
    BY <1>5, <1>6, ConcatProperties
  <1> QED BY <1>1, <1>5, <1>7

LEMMA RegistryIs == Registry \in Seq(Command) /\ Len(Registry) \in Nat /\ DOMAIN Registry = 1..Len(Registry)
  <1>1. Registry \in Seq(Command)
    BY RegistryAssumption DEF Command, Subcommand
  <1> QED BY <1>1

LEMMA FilteredAre ==
  ASSUME NEW text
  PROVE  FilterCommands(text) \in Seq(MenuEntry)
  <1> DEFINE query == NormalizeCommandQuery(text)
             all == [k \in DOMAIN Registry |-> CommandEntry(Registry[k])]
             some == {e \in ToSet(all) : IsPrefix(query, CommandMatchKey(e.command))}
  <1>1. all \in Seq(MenuEntry)
    <2>1. \A k \in 1..Len(Registry) : all[k] \in MenuEntry
      BY RegistryIs, EntriesAre
    <2>2. all = [k \in 1..Len(Registry) |-> all[k]]
      BY RegistryIs
    <2> HIDE DEF all
    <2> QED BY <2>1, <2>2, RegistryIs, SeqOfN
  <1>2. Only(all, some) \in Seq(MenuEntry)
    <2> HIDE DEF all, some
    <2> QED BY <1>1, OnlyPicks
  <1>3. FilterSubcommands(query) \in Seq(MenuEntry)
    <2> DEFINE words == {i \in DOMAIN Collapse(query) : Collapse(query)[i] = Space}
               parent == IF words = {} THEN Collapse(query) ELSE SubSeq(Collapse(query), 1, Min(words) - 1)
               K == {c \in ToSet(Registry) : CommandMatchKey(c) = parent /\ c.subs # <<>>}
               named == Only(Registry, K)
               prefix == SubSeq(Collapse(query), Min(words) + 1, Len(Collapse(query)))
               subs == SubEntries(named[1])
               J == {e \in ToSet(subs) : IsPrefix(prefix, e.sub.name)}
    <2>1. named \in Seq(Command)
      <3> HIDE DEF K
      <3> QED BY RegistryIs, OnlyPicks
    <2>2. FilterSubcommands(query)
            = CASE named = <<>> -> <<>>
                [] named # <<>> /\ words = {} -> <<CommandEntry(named[1])>> \o subs
                [] OTHER -> Only(subs, J)
      BY DEF FilterSubcommands
    <2> HIDE DEF named, words, J
    <2>3. CASE named = <<>>
      BY <2>2, <2>3
    <2>4. CASE named # <<>>
      <3>1. named[1] \in Command
        BY <2>1, <2>4
      <3>2. subs \in Seq(MenuEntry) /\ <<CommandEntry(named[1])>> \o subs \in Seq(MenuEntry)
        BY <3>1, EntriesAre
      <3> HIDE DEF subs
      <3>3. Only(subs, J) \in Seq(MenuEntry)
        BY <3>2, OnlyPicks
      <3> QED BY <2>2, <2>4, <3>2, <3>3
    <2> QED BY <2>3, <2>4
  <1>4. FilterCommands(text) = IF HasSubcommandFilter(query) THEN FilterSubcommands(query) ELSE Only(all, some)
    BY DEF FilterCommands
  <1> HIDE DEF all, some, query
  <1> QED BY <1>2, <1>3, <1>4

LEMMA ExactAre ==
  ASSUME NEW text
  PROVE  ExactCommandMatch(text) \in Seq(MenuEntry)
  <1> DEFINE query == Collapse(NormalizeCommandQuery(text))
             ss == [k \in DOMAIN Registry |-> <<CommandEntry(Registry[k])>> \o SubEntries(Registry[k])]
             all == FlattenSeq(ss)
             some == {e \in ToSet(all) : Tail(EntryFullName(e)) = query}
  <1>1. ss \in Seq(Seq(MenuEntry))
    <2>1. \A k \in 1..Len(Registry) : ss[k] \in Seq(MenuEntry)
      <3>1. \A k \in 1..Len(Registry) : Registry[k] \in Command
        BY RegistryIs
      <3> QED BY <3>1, RegistryIs, EntriesAre
    <2>2. ss = [k \in 1..Len(Registry) |-> ss[k]]
      BY RegistryIs
    <2> HIDE DEF ss
    <2> QED BY <2>1, <2>2, RegistryIs, SeqOfN
  <1>2. all \in Seq(MenuEntry)
    <2> HIDE DEF ss
    <2> QED BY <1>1, FlattenIs
  <1>3. ExactCommandMatch(text) = Only(all, some)
    BY DEF ExactCommandMatch
  <1> HIDE DEF all, some
  <1> QED BY <1>2, <1>3, OnlyPicks

LEMMA NameIsText ==
  ASSUME NEW entry \in MenuEntry
  PROVE  EntryFullName(entry) \in Text
  <1>1. entry.command.name \in Text /\ (entry.sub # NoSub => entry.sub.name \in Text)
    BY DEF MenuEntry, Command, Subcommand
  <1>2. <<Space>> \in Text
    BY TextAssumption DEF Blank, Text
  <1>3. entry.sub # NoSub => entry.command.name \o <<Space>> \o entry.sub.name \in Text
    <2>1. entry.command.name \o <<Space>> \in Text
      BY <1>1, <1>2, ConcatProperties DEF Text
    <2> QED BY <1>1, <2>1, ConcatProperties DEF Text
  <1> QED BY <1>1, <1>3 DEF EntryFullName

LEMMA TokenIsText ==
  ASSUME NEW text \in Text
  PROVE  UnknownCommandToken(text) \in Text
  <1> DEFINE trimmed == Trim(text)
             blanks  == {i \in DOMAIN trimmed : trimmed[i] \in Blank}
             T == {Len(trimmed) + 1} \cup blanks
  <1>1. trimmed \in Text /\ Len(trimmed) \in Nat
    BY TrimIsText DEF Text
  <1> HIDE DEF trimmed
  <1>2. T \in SUBSET Nat /\ Len(trimmed) + 1 \in T
    BY <1>1 DEF Text
  <1>3. Min(T) \in Nat /\ Min(T) <= Len(trimmed) + 1
    <2> HIDE DEF T
    <2>1. Min(T) \in T /\ \A y \in T : Min(T) <= y
      BY <1>2, MinIs
    <2> QED BY <1>2, <2>1
  <1>4. UnknownCommandToken(text) = SubSeq(trimmed, 1, Min(T) - 1)
    BY DEF UnknownCommandToken, trimmed
  <1> HIDE DEF T
  <1>5. Min(T) - 1 \in Int /\ Min(T) - 1 <= Len(trimmed)
    BY <1>1, <1>3
  <1> QED BY <1>1, <1>4, <1>5, SubText

LEMMA HighlightIs ==
  ASSUME NEW matches \in Seq(MenuEntry), NEW highlight \in Int, NEW step \in Int
  PROVE  /\ HighlightedEntry(matches, highlight) \in Seq(MenuEntry)
         /\ MoveHighlight(matches, highlight, step) \in Int
  <1>1. Len(matches) \in Nat
    OBVIOUS
  <1>2. CASE matches = <<>>
    BY <1>2 DEF HighlightedEntry, MoveHighlight
  <1>3. CASE matches # <<>>
    <2> DEFINE at == Clamp(highlight, 0, Len(matches) - 1)
    <2>1. at \in 0..(Len(matches) - 1)
      BY <1>1, <1>3
    <2>2. HighlightedEntry(matches, highlight) = <<matches[at + 1]>>
      BY <1>3 DEF HighlightedEntry
    <2>3. MoveHighlight(matches, highlight, step) = Clamp(at + step, 0, Len(matches) - 1)
      BY <1>3 DEF MoveHighlight
    <2> HIDE DEF at
    <2>4. matches[at + 1] \in MenuEntry
      <3>1. at + 1 \in 1..Len(matches)
        BY <1>1, <2>1
      <3> QED BY <3>1
    <2>5. Clamp(at + step, 0, Len(matches) - 1) \in Int
      BY <1>1, <2>1
    <2> QED BY <2>2, <2>3, <2>4, <2>5
  <1> QED BY <1>2, <1>3

-----------------------------------------------------------------------------
(* The composer's window *)

\* The window lies within the wrapped rows, wherever it is scrolled to.
LEMMA WindowInText ==
  ASSUME NEW total \in Nat, NEW visible \in Nat \ {0}, NEW row \in 0..(total - 1),
         NEW offset \in Int
  PROVE  LET bounds == ResolveWindowBounds(total, visible, row, offset)
         IN  /\ bounds.visibleStart \in 0..bounds.lastStart
             /\ bounds.visibleStart < total
             /\ bounds.visibleStart + visible <= total \/ bounds.visibleStart = 0
  BY DEF ResolveWindowBounds

\* Where scrolling to the edge leaves the window.
LEMMA PinnedStart ==
  ASSUME NEW total \in Nat, NEW visible \in Nat \ {0}, NEW row \in 0..(total - 1),
         NEW offset \in Int
  PROVE  LET pinned == PinToEdge(total, visible, row, offset)
             start  == ResolveWindowBounds(total, visible, row, pinned).visibleStart
         IN  pinned \in Int /\ start <= row /\ row < start + visible
  <1> DEFINE bounds == ResolveWindowBounds(total, visible, row, offset)
             pinned == PinToEdge(total, visible, row, offset)
             start  == ResolveWindowBounds(total, visible, row, pinned).visibleStart
  <1>1. CASE row < bounds.visibleStart
    <2>1. pinned = bounds.baseStart - row
      BY <1>1 DEF PinToEdge, RowVisible
    <2>2. start = row
      BY <1>1, <2>1 DEF ResolveWindowBounds
    <2> QED BY <2>1, <2>2 DEF ResolveWindowBounds
  <1>2. CASE row >= bounds.visibleStart + visible
    <2>1. pinned = bounds.baseStart - (row - visible + 1)
      BY <1>2 DEF PinToEdge, RowVisible, ResolveWindowBounds
    <2>2. start = row - visible + 1
      BY <1>2, <2>1 DEF ResolveWindowBounds
    <2> QED BY <2>1, <2>2 DEF ResolveWindowBounds
  <1>3. CASE bounds.visibleStart <= row /\ row < bounds.visibleStart + visible
    <2>1. pinned = offset
      BY <1>3 DEF PinToEdge, RowVisible, ResolveWindowBounds
    <2> QED BY <1>3, <2>1
  <1>4. bounds.visibleStart \in Int
    BY DEF ResolveWindowBounds
  <1> QED BY <1>1, <1>2, <1>3, <1>4

\* The row a cursor is on is one of the rows, whatever the rows are.
LEMMA CursorRowInText ==
  ASSUME NEW rows \in Seq([start : Nat, end : Nat]), rows # <<>>, NEW index
  PROVE  ResolveCursorRowIndex(rows, index) \in 0..(Len(rows) - 1)
  <1> DEFINE holding == {k \in DOMAIN rows : rows[k].start <= index /\ index <= rows[k].end}
  <1>1. Len(rows) \in Nat \ {0} /\ DOMAIN rows = 1..Len(rows)
    OBVIOUS
  <1>2. CASE holding = {}
    BY <1>1, <1>2 DEF ResolveCursorRowIndex
  <1>3. CASE holding # {}
    <2>1. holding \in SUBSET Nat
      BY <1>1
    <2>2. \E x \in holding : \A y \in holding : x <= y
      <3> HIDE DEF holding
      <3> QED BY <1>3, <2>1, LeastElement
    <2>3. Min(holding) \in holding
      <3> HIDE DEF holding
      <3> QED BY <2>2 DEF Min
    <2>4. ResolveCursorRowIndex(rows, index) = Min(holding) - 1
      BY <1>3 DEF ResolveCursorRowIndex
    <2>5. Min(holding) \in 1..Len(rows)
      BY <1>1, <2>3
    <2> HIDE DEF holding
    <2> QED BY <1>1, <2>4, <2>5
  <1> QED BY <1>2, <1>3

\* scrollComposerCursorIntoViewAtom does what its name says: whatever the text wraps
\* into, wherever the cursor is, however far the user had scrolled and however few rows
\* are left to the composer, the caret's row is then one of those shown.
THEOREM ScrolledIntoView ==
  ASSUME NEW rows \in Seq([start : Nat, end : Nat]), rows # <<>>,
         NEW c, c.offset \in Int, ClampToGraphemeBoundary(c.text, c.cursor) = c.cursor,
         NEW visible \in Int,
         NEW d, d.text = c.text, d.cursor = c.cursor, d.offset = PinOn(rows, c, visible)
  PROVE  WindowOn(rows, d, visible).cursorVisible
  <1> DEFINE seen  == AtLeast(1, visible)
             total == Len(rows)
             row   == ResolveCursorRowIndex(rows, c.cursor)
  <1>1. total \in Nat /\ seen \in Nat \ {0} /\ row \in 0..(total - 1)
    BY CursorRowInText
  <1>2. d.offset = PinToEdge(total, seen, row, c.offset)
    BY DEF PinOn
  <1>3. BoundsOn(rows, d, visible) = ResolveWindowBounds(total, seen, row, d.offset)
    BY DEF BoundsOn
  <1>4. LET start == BoundsOn(rows, d, visible).visibleStart
        IN  start <= row /\ row < start + seen
    <2> HIDE DEF seen, total, row
    <2> QED BY <1>1, <1>2, <1>3, PinnedStart
  <1> QED BY <1>4 DEF WindowOn, RowVisible

\* A click leaves the window where it is: once the cursor is on the row that was
\* clicked, the window computed for it starts where the window clicked in started, so
\* the text does not jump under the pointer.  (resolveClickResult)
THEOREM ClickHoldsWindow ==
  ASSUME NEW total \in Nat, NEW visible \in Nat \ {0}, NEW row \in 0..(total - 1),
         NEW start \in 0..AtLeast(0, total - visible)
  PROVE  ResolveWindowBounds(total, visible, row, HoldWindow(total, visible, row, start)).visibleStart
           = start
  BY DEF ResolveWindowBounds, HoldWindow

-----------------------------------------------------------------------------
(* The transcript's window *)

\* The window is that many rows of the transcript, or all of them.
LEMMA BodyWindowInRows ==
  ASSUME NEW total \in Nat, NEW visible \in Nat \ {0}, NEW offset \in Int
  PROVE  LET window == BodyWindow(total, visible, offset)
         IN  /\ 0 <= window.startIndex /\ window.startIndex <= window.end /\ window.end <= total
             /\ window.end - window.startIndex = AtMost(total, visible)
  BY DEF BodyWindow

\* A reader who has scrolled up sees the same rows after the transcript has grown or
\* shrunk below the window, unless that leaves the window at the very end.
\* (resolveFollowScrollOffset)
THEOREM FollowHoldsReader ==
  ASSUME NEW visible \in Nat \ {0}, NEW total \in Nat, NEW grown \in Nat,
         total > visible, grown > visible, NEW offset \in 1..(total - visible),
         BodyWindow(total, visible, offset).end <= grown
  PROVE  BodyWindow(grown, visible,
             ResolveFollowScrollOffset(offset, AtLeast(0, total - visible), AtLeast(0, grown - visible)))
           = BodyWindow(total, visible, offset)
  <1> DEFINE next == ResolveFollowScrollOffset(offset, AtLeast(0, total - visible),
                                               AtLeast(0, grown - visible))
  <1>1. grown - total + offset \in 0..(grown - visible)
    BY DEF BodyWindow
  <1>2. next = grown - total + offset
    BY <1>1 DEF ResolveFollowScrollOffset
  <1>3. grown - next = total - offset
    BY <1>2
  <1> QED BY <1>1, <1>2, <1>3 DEF BodyWindow

-----------------------------------------------------------------------------
(* The lists of the panels *)

\* The highlighted entry of a list is in its window, wherever the window was, and a
\* window that shows it and lies within the list does not move.  (resolveWindowOffset)
THEOREM ListFollowsHighlight ==
  ASSUME NEW total \in Nat, NEW visible \in Nat \ {0}, NEW index \in 0..(total - 1),
         NEW offset \in Nat
  PROVE  LET next == ResolveWindowOffset(index, offset, visible, total)
         IN  /\ InWindow(index, next, visible)
             /\ next \in 0..AtLeast(0, total - visible)
             /\ InWindow(index, offset, visible) /\ offset <= AtLeast(0, total - visible)
                  => next = offset
  BY DEF ResolveWindowOffset, InWindow

-----------------------------------------------------------------------------
(* The rows of the terminal *)

\* On a terminal of the least height or more, a composer as high as the layout lets it
\* be, with its borders and an error under it, leaves the transcript a row, whatever
\* the header and the folder's line take; and the rows handed out are all there.
\* (resolveHomeScreenLayout)
THEOREM ComposerLeavesRoom ==
  ASSUME NEW rows \in Nat, rows >= MinRows, NEW entries \in Nat, NEW header \in 0..HeaderRows,
         NEW cwd \in 0..3, NEW shown \in Nat, NEW composer,
         shown >= 1,
         shown <= ResolveHomeScreenLayout(rows, entries, composer, cwd, 0, 0, header).composerRows,
         composer = shown + PaddingRows + ErrorReserveRows
  PROVE  LET layout == ResolveHomeScreenLayout(rows, entries, composer, cwd, 0, 0, header)
         IN  /\ layout.bodyRows >= 1
             /\ header + layout.bodyRows + CwdGapRows + layout.cwdRows + composer + 1 <= rows
  BY DEF ResolveHomeScreenLayout, MinRows, HeaderRows, CwdGapRows, PaddingRows, ErrorReserveRows,
     MaxHeightDivisor

\* A docked popup leaves the header and a row of the transcript, whatever it asks for.
\* (resolveDockedPanelRows, resolveHomeScreenLayout)
THEOREM PopupLeavesRoom ==
  ASSUME NEW rows \in Nat, rows >= MinRows, NEW entries \in Nat, NEW header \in 0..HeaderRows,
         NEW desired \in Nat \ {0}, NEW composer, NEW cwd, NEW menu
  PROVE  LET docked == ResolveDockedPanelRows(rows, desired)
             layout == ResolveHomeScreenLayout(rows, entries, composer, cwd, menu, docked, header)
         IN  docked >= 1 /\ layout.bodyRows >= 1 /\ header + layout.bodyRows + docked <= rows
  BY DEF ResolveHomeScreenLayout, ResolveDockedPanelRows, MinRows, HeaderRows, MaxHeightDivisor

-----------------------------------------------------------------------------
(* The confirmation of a second key *)

ScreenFields ==
  {"term", "locked", "exited", "surface", "popup", "helpOffset", "composer", "composerRows", "ring",
   "dismissed", "highlight", "armed", "queue", "notices", "sequence", "restore", "bodyOffset",
   "selection", "region", "lastPress", "boundsLocked", "clipboard", "reading", "suppress",
   "armedText", "unannounced", "peeked", "budget"}

Shaped(u) ==
  DOMAIN u = ScreenFields /\ DOMAIN u.composer = ComposerFields /\ u.unannounced \in BOOLEAN

\* The screens on which a pending confirmation is of the text shown; and those without one.
Confirmed(u) ==
  Shaped(u) /\ (u.armed # "none" => u.unannounced \/ u.composer.text = u.armedText)
Unarmed(u) == Shaped(u) /\ u.armed = "none"

\* v asks for nothing that u did not ask for, and about the same text.
Follows(u, v) ==
  /\ Shaped(v)
  /\ \/ v.armed = "none"
     \/ /\ v.armed = u.armed /\ v.unannounced = u.unannounced /\ v.armedText = u.armedText
        /\ v.composer.text = u.composer.text

LEMMA FollowsConfirmed ==
  ASSUME NEW u, NEW v, Confirmed(u), Follows(u, v)
  PROVE  Confirmed(v)
  BY DEF Confirmed, Follows

LEMMA FollowsUnarmed ==
  ASSUME NEW u, NEW v, Unarmed(u), Follows(u, v)
  PROVE  Unarmed(v)
  BY DEF Unarmed, Follows

\* Edits of the composer's record leave its fields.
LEMMA ComposerShape ==
  ASSUME NEW c, DOMAIN c = ComposerFields
  PROVE  /\ DOMAIN EmptyComposer = ComposerFields /\ DOMAIN DeleteBackward(c) = ComposerFields
         /\ \A text, error : DOMAIN WithText(text, error) = ComposerFields
         /\ \A inserted : DOMAIN InsertText(c, inserted) = ComposerFields
         /\ \A step : DOMAIN MoveCursor(c, step) = ComposerFields /\ MoveCursor(c, step).text = c.text
         /\ \A columns, step : DOMAIN MoveCursorVertically(c, columns, step) = ComposerFields
         /\ \A columns, visible, row, column :
              LET d == ResolveClickResult(c, columns, visible, row, column)
              IN  DOMAIN d = ComposerFields /\ d.text = c.text
  <1>1. DOMAIN EmptyComposer = ComposerFields /\ DOMAIN DeleteBackward(c) = ComposerFields
    BY DEF EmptyComposer, DeleteBackward, ComposerFields
  <1>2. \A text, error : DOMAIN WithText(text, error) = ComposerFields
    BY DEF WithText, ComposerFields
  <1>3. \A inserted : DOMAIN InsertText(c, inserted) = ComposerFields
    BY DEF InsertText
  <1>4. \A step : DOMAIN MoveCursor(c, step) = ComposerFields /\ MoveCursor(c, step).text = c.text
    BY DEF MoveCursor, ComposerFields
  <1>5. \A columns, step : DOMAIN MoveCursorVertically(c, columns, step) = ComposerFields
    BY DEF MoveCursorVertically
  <1>6. \A columns, visible, row, column :
              LET d == ResolveClickResult(c, columns, visible, row, column)
              IN  DOMAIN d = ComposerFields /\ d.text = c.text
    BY DEF ResolveClickResult, ComposerFields
  <1> QED BY <1>1, <1>2, <1>3, <1>4, <1>5, <1>6

\* Without a confirmation pending an edit may change the text.
LEMMA EditUnarmed ==
  ASSUME NEW u, Unarmed(u), NEW c, DOMAIN c = ComposerFields
  PROVE  Unarmed([u EXCEPT !.composer = c])
  BY DEF Unarmed, Shaped, ScreenFields

-----------------------------------------------------------------------------
(* The composer's keys *)

LEMMA SubmitUnarmed ==
  ASSUME NEW u, Unarmed(u), NEW entries
  PROVE  Unarmed(Submit(u, entries))
  <1>1. Unarmed(ShowOverLimit(u))
    BY DEF Unarmed, Shaped, ScreenFields, ComposerFields, ShowOverLimit
  <1>2. ASSUME NEW v, Unarmed(v) PROVE Unarmed(ClearComposer(v))
    BY <1>2, ComposerShape DEF Unarmed, Shaped, ScreenFields, ClearComposer, EmptyComposer, ComposerFields
  <1>3. ASSUME NEW text PROVE Unarmed(Capture(u, text))
    BY DEF Unarmed, Shaped, ScreenFields, Capture
  <1>4. ASSUME NEW v, Unarmed(v), NEW entry PROVE Unarmed(ExecuteCommand(v, entry))
    BY <1>4 DEF Unarmed, Shaped, ScreenFields, ExecuteCommand, ClearTranscript
  <1>5. ASSUME NEW entry PROVE Unarmed(RunEntry(u, entry))
    BY <1>2, <1>3, <1>4 DEF RunEntry
  <1>6. ASSUME NEW v, Unarmed(v), NEW text, NEW sequence
        PROVE  Unarmed(AppendNotice(v, text, sequence)) /\ Unarmed(EnqueuePrompt(v, text, sequence))
    BY <1>6 DEF Unarmed, Shaped, ScreenFields, AppendNotice, EnqueuePrompt
  <1>7. ASSUME NEW text
        PROVE  /\ Unarmed(PostUnknown(u, text))
               /\ Unarmed(ClearComposer(EnqueuePrompt(Capture(u, text), text, u.sequence)))
    BY <1>2, <1>3, <1>6 DEF PostUnknown
  <1> QED BY <1>1, <1>5, <1>7 DEF Submit

LEMMA MenuUnarmed ==
  ASSUME NEW u, Unarmed(u), NEW key \in MenuKeys, NEW matches
  PROVE  Unarmed(HandleMenuKey(u, key, matches))
  <1>1. CASE key = "enter"
    BY <1>1, SubmitUnarmed DEF HandleMenuKey
  <1>2. CASE key = "tab"
    <2>1. DOMAIN EmptyComposer = ComposerFields
      BY DEF EmptyComposer, ComposerFields
    <2>2. \A name : DOMAIN InsertText(EmptyComposer, name) = ComposerFields
      BY <2>1, ComposerShape
    <2>3. \A name : Unarmed([u EXCEPT !.composer = InsertText(EmptyComposer, name)])
      BY <2>2, EditUnarmed
    <2> QED BY <1>2, <2>3 DEF HandleMenuKey
  <1>3. CASE key \in {"up", "down", "esc"}
    BY <1>3 DEF HandleMenuKey, Unarmed, Shaped, ScreenFields
  <1> QED BY <1>1, <1>2, <1>3 DEF MenuKeys

LEMMA TextUnarmed ==
  ASSUME NEW u, Unarmed(u), NEW key
  PROVE  Unarmed(HandleTextEdit(u, key)) /\ Unarmed(HandleNewline(u, key))
  <1>1. DOMAIN u.composer = ComposerFields
    BY DEF Unarmed, Shaped
  <1>2. ASSUME NEW c, DOMAIN c = ComposerFields PROVE Unarmed(Edited(u, c))
    BY <1>2 DEF Edited, Unarmed, Shaped, ScreenFields
  <1>3. Unarmed(HandleTextEdit(u, key))
    BY <1>1, <1>2, ComposerShape DEF HandleTextEdit
  <1>4. Unarmed(HandleNewline(u, key))
    BY <1>1, ComposerShape, EditUnarmed DEF HandleNewline
  <1> QED BY <1>3, <1>4

LEMMA VerticalUnarmed ==
  ASSUME NEW u, Unarmed(u), NEW step
  PROVE  Unarmed(HandleVertical(u, step))
  <1>1. DOMAIN u.composer = ComposerFields
    BY DEF Unarmed, Shaped
  <1>2. Unarmed([u EXCEPT !.composer = MoveCursorVertically(u.composer, InputColumns(u), step)])
    BY <1>1, ComposerShape, EditUnarmed
  <1>3. ASSUME NEW ring, NEW text, NEW error
        PROVE  Unarmed([u EXCEPT !.ring = ring, !.dismissed = TRUE, !.composer = WithText(text, error)])
    <2>1. DOMAIN WithText(text, error) = ComposerFields
      BY DEF WithText, ComposerFields
    <2> QED BY <2>1 DEF Unarmed, Shaped, ScreenFields
  <1> QED BY <1>2, <1>3 DEF HandleVertical

LEMMA DispatchUnarmed ==
  ASSUME NEW u, Unarmed(u), NEW key, key # "esc"
  PROVE  Unarmed(Dispatch(u, key))
  <1>1. DOMAIN u.composer = ComposerFields
    BY DEF Unarmed, Shaped
  <1>2. \A step : Unarmed([u EXCEPT !.composer = MoveCursor(u.composer, step)])
    BY <1>1, ComposerShape, EditUnarmed
  <1>3. Unarmed(PasteFromClipboard(u)) /\ Unarmed(CopyLastResponse(u))
    BY DEF PasteFromClipboard, CopyLastResponse, Unarmed, Shaped, ScreenFields
  <1>4. Unarmed(HandleSubmit(u))
    BY SubmitUnarmed DEF HandleSubmit
  <1>5. key \in MenuKeys => Unarmed(HandleMenuKey(u, key, Matches(u)))
    BY MenuUnarmed
  <1>6. \A step : Unarmed(HandleVertical(u, step))
    BY VerticalUnarmed
  <1> QED BY <1>2, <1>3, <1>4, <1>5, <1>6, TextUnarmed DEF Dispatch

\* Esc asks for a confirmation of the text there is, or clears it.
LEMMA EscConfirmed ==
  ASSUME NEW u, Confirmed(u)
  PROVE  Confirmed(Dispatch(u, "esc"))
  <1>1. Confirmed(HandleMenuKey(u, "esc", Matches(u)))
    BY DEF HandleMenuKey, Confirmed, Shaped, ScreenFields
  <1>2. Confirmed(HandleEsc(u))
    BY DEF HandleEsc, ClearComposer, EmptyComposer, Confirmed, Shaped, ScreenFields, ComposerFields
  <1>3. "esc" \in MenuKeys
    BY DEF MenuKeys
  <1>4. Dispatch(u, "esc") \in {HandleMenuKey(u, "esc", Matches(u)), HandleEsc(u)}
    BY <1>3 DEF Dispatch
  <1> QED BY <1>1, <1>2, <1>4

LEMMA ComposerKeyConfirmed ==
  ASSUME NEW u, Confirmed(u), NEW key
  PROVE  Confirmed(ComposerKey(u, key))
  <1>1. CASE key = "esc"
    BY <1>1, EscConfirmed DEF ComposerKey, Disarm
  <1>2. CASE key # "esc"
    <2>1. Unarmed(Disarm(u, key))
      BY <1>2 DEF Disarm, Confirmed, Unarmed, Shaped, ScreenFields
    <2>2. Unarmed(Dispatch(Disarm(u, key), key))
      BY <1>2, <2>1, DispatchUnarmed
    <2> QED BY <2>2 DEF ComposerKey, Unarmed, Confirmed
  <1> QED BY <1>1, <1>2

-----------------------------------------------------------------------------
(* The other keys, and a repaint *)

LEMMA OtherKeysConfirmed ==
  ASSUME NEW u, Confirmed(u), NEW key
  PROVE  Confirmed(HelpKey(u, key)) /\ Confirmed(HomeKey(u, key)) /\ Confirmed(ShellKey(u, key))
  <1>1. Confirmed(HelpKey(u, key))
    BY DEF HelpKey, ScrollHelp, Confirmed, Shaped, ScreenFields
  <1>2. Confirmed(HomeKey(u, key))
    BY DEF HomeKey, ScrollPage, ScrollBody, Confirmed, Shaped, ScreenFields
  <1>3. Confirmed(ShellKey(u, key))
    BY DEF ShellKey, Confirmed, Shaped, ScreenFields
  <1> QED BY <1>1, <1>2, <1>3

LEMMA GlobalKeyConfirmed ==
  ASSUME NEW u, Confirmed(u), NEW key, NEW selected
  PROVE  Confirmed(GlobalKey(u, key, selected))
  <1>1. ASSUME NEW v, Confirmed(v) PROVE Confirmed(CtrlC(v))
    BY <1>1 DEF CtrlC, ClearComposer, EmptyComposer, Confirmed, Shaped, ScreenFields, ComposerFields
  <1>2. Confirmed([u EXCEPT !.selection = NoSelection])
    BY DEF Confirmed, Shaped, ScreenFields
  <1>3. ASSUME NEW v, Confirmed(v)
        PROVE  /\ Confirmed([v EXCEPT !.clipboard = selected, !.armed = "none"])
               /\ Confirmed([v EXCEPT !.armed = "none"])
    BY <1>3 DEF Confirmed, Shaped, ScreenFields
  <1>4. ASSUME NEW v, Confirmed(v)
        PROVE  Confirmed(CASE key = "ctrlC" /\ selected # <<>> ->
                                [v EXCEPT !.clipboard = selected, !.armed = "none"]
                           [] key = "ctrlC" /\ selected = <<>> -> CtrlC(v)
                           [] key # "ctrlC" /\ key # "esc" /\ u.armed = "exit" -> [v EXCEPT !.armed = "none"]
                           [] OTHER -> v)
    BY <1>1, <1>3, <1>4
  <1> QED BY <1>2, <1>4 DEF GlobalKey

\* A repaint moves the caret into view; a draft it restores is not announced.
LEMMA RepaintConfirmed ==
  ASSUME NEW old, NEW u, Confirmed(u)
  PROVE  Confirmed(Repaint(old, u))
  <1>1. Confirmed(LeaveHome(u))
    BY DEF LeaveHome, Confirmed, Shaped, ScreenFields
  <1>2. Confirmed(RestoreDraft(u))
    BY DEF RestoreDraft, WithText, Confirmed, Shaped, ScreenFields, ComposerFields
  <1>3. ASSUME NEW v, Confirmed(v) PROVE Confirmed(ReportRows(old, v))
    BY <1>3 DEF ReportRows, Confirmed, Shaped, ScreenFields
  <1>4. ASSUME NEW v, Confirmed(v), NEW offset PROVE Confirmed([v EXCEPT !.composer.offset = offset])
    BY <1>4 DEF Confirmed, Shaped, ScreenFields, ComposerFields
  <1>5. ASSUME NEW v, Confirmed(v) PROVE Confirmed(ComposerEffects(old, v))
    BY <1>3, <1>4, <1>5 DEF ComposerEffects
  <1> QED BY <1>1, <1>2, <1>5 DEF Repaint

LEMMA CommitConfirmed ==
  ASSUME NEW u, Confirmed(u), Commit(u)
  PROVE  Confirmed(s')
  BY RepaintConfirmed DEF Commit

LEMMA SpendConfirmed ==
  ASSUME Confirmed(s), NEW kind
  PROVE  Confirmed(Spend(kind))
  BY DEF Spend, Confirmed, Shaped, ScreenFields

LEMMA KeyPressConfirmed ==
  ASSUME Confirmed(s), NEW key, KeyPress(key)
  PROVE  Confirmed(s')
  <1> DEFINE u == HelpKey(ComposerKey(Spend("keys"), key), key)
             v == ShellKey(HomeKey(u, key), key)
  <1>1. Confirmed(u)
    BY SpendConfirmed, ComposerKeyConfirmed, OtherKeysConfirmed
  <1>2. Commit(GlobalKey(v, key, CopySelection(s)))
    BY DEF KeyPress
  <1> HIDE DEF u
  <1>3. Confirmed(v)
    BY <1>1, OtherKeysConfirmed
  <1> HIDE DEF v
  <1> QED BY <1>2, <1>3, GlobalKeyConfirmed, CommitConfirmed

-----------------------------------------------------------------------------
(* The mouse *)

LEMMA PointedConfirmed ==
  ASSUME Confirmed(s)
  PROVE  Confirmed(Pointed(Spend("pointer")))
  <1>1. ASSUME NEW u, Confirmed(u) PROVE Confirmed(Pointed(u))
    BY <1>1 DEF Pointed, Confirmed, Shaped, ScreenFields
  <1> QED BY <1>1, SpendConfirmed

LEMMA LeftPressConfirmed ==
  ASSUME Confirmed(s), NEW row, NEW column, NEW soon, LeftPress(row, column, soon)
  PROVE  Confirmed(s')
  <1>1. ASSUME NEW u, Confirmed(u), NEW view PROVE Confirmed(SelectionPress(u, view, row, column, soon))
    BY <1>1 DEF SelectionPress, Confirmed, Shaped, ScreenFields
  <1>2. ASSUME NEW u, Confirmed(u) PROVE Confirmed(PositionComposerCaret(u, row, column))
    <2>1. DOMAIN u.composer = ComposerFields
      BY <1>2 DEF Confirmed, Shaped
    <2>2. ASSUME NEW d, DOMAIN d = ComposerFields, d.text = u.composer.text
          PROVE  Confirmed([u EXCEPT !.composer = d])
      BY <1>2, <2>2 DEF Confirmed, Shaped, ScreenFields
    <2>3. \A columns, visible, r, c :
            Confirmed([u EXCEPT !.composer = ResolveClickResult(@, columns, visible, r, c)])
      BY <2>1, <2>2, ComposerShape
    <2> QED BY <1>2, <2>3 DEF PositionComposerCaret
  <1> DEFINE v == [Pointed(Spend("pointer")) EXCEPT !.region = GestureRegion(s, row)]
  <1>3. Confirmed(v)
    BY PointedConfirmed DEF Confirmed, Shaped, ScreenFields
  <1>4. Commit(CASE v.region = "body" -> SelectionPress(v, BodyView(v), row, column, soon)
                 [] v.region = "composer" -> PositionComposerCaret(v, row, column)
                 [] OTHER -> v)
    BY DEF LeftPress
  <1> HIDE DEF v
  <1>5. Confirmed(CASE v.region = "body" -> SelectionPress(v, BodyView(v), row, column, soon)
                 [] v.region = "composer" -> PositionComposerCaret(v, row, column)
                 [] OTHER -> v)
    BY <1>1, <1>2, <1>3
  <1> QED BY <1>4, <1>5, CommitConfirmed

LEMMA LeftDragConfirmed ==
  ASSUME Confirmed(s), NEW row, NEW column, NEW released, LeftDrag(row, column, released)
  PROVE  Confirmed(s')
  <1> DEFINE u == Pointed(Spend("pointer"))
             v == IF u.region = "body"
                  THEN SelectionDrag(u, BodyView(u), row, column, released) ELSE u
  <1>1. Commit(IF released THEN [v EXCEPT !.region = "none"] ELSE v)
    BY DEF LeftDrag
  <1>2. Confirmed(u)
    BY PointedConfirmed
  <1> HIDE DEF u
  <1>3. \A view : Confirmed(SelectionDrag(u, view, row, column, released))
    BY <1>2 DEF SelectionDrag, Confirmed, Shaped, ScreenFields
  <1>4. Confirmed(v)
    BY <1>2, <1>3
  <1> HIDE DEF v
  <1>5. Confirmed(IF released THEN [v EXCEPT !.region = "none"] ELSE v)
    BY <1>4 DEF Confirmed, Shaped, ScreenFields
  <1> QED BY <1>1, <1>5, CommitConfirmed

LEMMA WheelConfirmed ==
  ASSUME Confirmed(s), NEW row, NEW column, NEW up, Wheel(row, column, up)
  PROVE  Confirmed(s')
  <1> DEFINE u == Pointed(Spend("pointer"))
  <1>1. \E target :
          Commit(CASE target = "composer" -> ScrollComposer(u, up)
                   [] target = "body" -> ScrollBody(u, IF up THEN WheelRows ELSE -WheelRows)
                   [] OTHER -> u)
    BY DEF Wheel
  <1>2. Confirmed(u)
    BY PointedConfirmed
  <1> HIDE DEF u
  <1>3. Confirmed(ScrollComposer(u, up))
    BY <1>2 DEF ScrollComposer, Confirmed, Shaped, ScreenFields, ComposerFields
  <1>4. \A step : Confirmed(ScrollBody(u, step))
    BY <1>2 DEF ScrollBody, Confirmed, Shaped, ScreenFields
  <1> QED BY <1>1, <1>2, <1>3, <1>4, CommitConfirmed

LEMMA RightClickConfirmed ==
  ASSUME Confirmed(s), RightClick
  PROVE  Confirmed(s')
  <1> DEFINE u == [Pointed(Spend("pointer")) EXCEPT !.suppress = TRUE, !.selection = NoSelection]
  <1>1. Confirmed(u)
    BY PointedConfirmed DEF Confirmed, Shaped, ScreenFields
  <1>2. Commit(RightClicked(u, CopySelection(s)))
    BY DEF RightClick
  <1> HIDE DEF u
  <1>3. Confirmed(RightClicked(u, CopySelection(s)))
    BY <1>1 DEF RightClicked, PasteFromClipboard, Confirmed, Shaped, ScreenFields
  <1> QED BY <1>2, <1>3, CommitConfirmed

-----------------------------------------------------------------------------
(* Pastes and events *)

\* A paste under a confirmation is remembered.
LEMMA InsertedConfirmed ==
  ASSUME NEW u, Confirmed(u), NEW text
  PROVE  Confirmed(Inserted(u, text))
  <1>1. DOMAIN u.composer = ComposerFields
    BY DEF Confirmed, Shaped
  <1>2. ASSUME NEW c, DOMAIN c = ComposerFields
        PROVE  Confirmed([u EXCEPT !.composer = c,
                                   !.unannounced = @ \/ (u.armed # "none" /\ c # u.composer)])
    BY <1>2 DEF Confirmed, Shaped, ScreenFields
  <1>3. DOMAIN InsertText(u.composer, SanitizePastedText(text)) = ComposerFields
    BY <1>1, ComposerShape
  <1> QED BY <1>2, <1>3 DEF Inserted

LEMMA PasteConfirmed ==
  ASSUME Confirmed(s), NEW text,
         ClipboardFails \/ ClipboardRead(text) \/ \E soon \in BOOLEAN : PasteArrives(text, soon)
  PROVE  Confirmed(s')
  <1>1. ASSUME NEW u, Confirmed(u)
        PROVE  Confirmed([u EXCEPT !.suppress = FALSE]) /\ Confirmed([u EXCEPT !.reading = FALSE])
    BY <1>1 DEF Confirmed, Shaped, ScreenFields
  <1>2. CASE ClipboardFails
    BY <1>1, <1>2, CommitConfirmed DEF ClipboardFails
  <1>3. CASE ClipboardRead(text)
    BY <1>1, <1>3, InsertedConfirmed, CommitConfirmed DEF ClipboardRead
  <1>4. CASE \E soon \in BOOLEAN : PasteArrives(text, soon)
    BY <1>1, <1>4, SpendConfirmed, InsertedConfirmed, CommitConfirmed DEF PasteArrives
  <1> QED BY <1>2, <1>3, <1>4

LEMMA EventConfirmed ==
  ASSUME Confirmed(s), NEW i, TranscriptEvent(i) \/ SubmitFails(i) \/ DiscardLocalSubmit(i)
  PROVE  Confirmed(s')
  <1> DEFINE u == Spend("events")
  <1>1. Confirmed(u)
    BY SpendConfirmed
  <1>2. \A queue : Confirmed(ApplyTranscriptEvent(u, queue))
    <2> HIDE DEF u
    <2> QED BY <1>1 DEF ApplyTranscriptEvent, Confirmed, Shaped, ScreenFields
  <1>3. ASSUME NEW v, Confirmed(v), NEW text
        PROVE  Confirmed([v EXCEPT !.restore = text, !.surface = "docked"])
    BY <1>3 DEF Confirmed, Shaped, ScreenFields
  <1>4. CASE ActivateTurn(i) \/ AppendDelta(i) \/ RemoveTurn(i) \/ \E result : SettleTurn(i, result)
    <2>1. \E queue : Commit(ApplyTranscriptEvent(u, queue))
      BY <1>4 DEF ActivateTurn, AppendDelta, RemoveTurn, SettleTurn
    <2> QED BY <1>2, <2>1, CommitConfirmed
  <1>5. CASE SettleUnauthorised(i)
    <2>1. PICK queue, text :
            LET v == ApplyTranscriptEvent(u, queue)
            IN  Commit(IF s.restore = <<>>
                       THEN [v EXCEPT !.restore = text, !.surface = "docked"] ELSE v)
      BY <1>5 DEF SettleUnauthorised
    <2>2. Confirmed(ApplyTranscriptEvent(u, queue))
      BY <1>2
    <2> QED BY <1>3, <2>1, <2>2, CommitConfirmed
  <1>6. CASE SubmitFails(i)
    <2>1. \E notices, queue : Commit([u EXCEPT !.notices = notices, !.queue = queue])
      BY <1>6 DEF SubmitFails
    <2>2. \A notices, queue : Confirmed([u EXCEPT !.notices = notices, !.queue = queue])
      <3> HIDE DEF u
      <3> QED BY <1>1 DEF Confirmed, Shaped, ScreenFields
    <2> QED BY <2>1, <2>2, CommitConfirmed
  <1>7. CASE DiscardLocalSubmit(i)
    <2>1. \E queue : Commit([u EXCEPT !.queue = queue])
      BY <1>7 DEF DiscardLocalSubmit
    <2>2. \A queue : Confirmed([u EXCEPT !.queue = queue])
      <3> HIDE DEF u
      <3> QED BY <1>1 DEF Confirmed, Shaped, ScreenFields
    <2> QED BY <2>1, <2>2, CommitConfirmed
  <1> QED BY <1>4, <1>5, <1>6, <1>7 DEF TranscriptEvent

LEMMA ElseConfirmed ==
  ASSUME Confirmed(s),
         \/ \E turns : HydrateTranscript(turns)
         \/ AskQuestion \/ ClosePanel \/ StartupDone
         \/ \E rows, columns : Resize(rows, columns)
  PROVE  Confirmed(s')
  <1>1. \A kind : Confirmed(Spend(kind))
    BY SpendConfirmed
  <1>2. ASSUME NEW u, Confirmed(u), NEW x
        PROVE  /\ Confirmed([u EXCEPT !.queue = x, !.notices = <<>>, !.bodyOffset = 0, !.popup = "none"])
               /\ Confirmed([u EXCEPT !.popup = x]) /\ Confirmed([u EXCEPT !.surface = x])
               /\ Confirmed([u EXCEPT !.locked = x]) /\ Confirmed([u EXCEPT !.term = x])
    BY <1>2 DEF Confirmed, Shaped, ScreenFields
  <1>3. CASE \E turns : HydrateTranscript(turns)
    BY <1>1, <1>2, <1>3, CommitConfirmed DEF HydrateTranscript
  <1>4. CASE AskQuestion \/ ClosePanel
    BY <1>1, <1>2, <1>4, CommitConfirmed DEF AskQuestion, ClosePanel
  <1>5. CASE StartupDone
    BY <1>2, <1>5, CommitConfirmed DEF StartupDone
  <1>6. CASE \E rows, columns : Resize(rows, columns)
    BY <1>1, <1>2, <1>6, CommitConfirmed DEF Resize
  <1> QED BY <1>3, <1>4, <1>5, <1>6

LEMMA ConfirmedStart == Init => Confirmed(s)
  <1>1. ASSUME NEW term, NEW queue, NEW budget
        PROVE  Unarmed(InitialScreen(term, queue, budget))
    BY DEF InitialScreen, EmptyComposer, Unarmed, Shaped, ScreenFields, ComposerFields
  <1>2. ASSUME NEW u, Unarmed(u), NEW text PROVE Unarmed(Begun(u, text))
    BY <1>2 DEF Begun, Capture, EnqueuePrompt, Unarmed, Shaped, ScreenFields
  <1>3. Init => Unarmed(s)
    BY <1>1, <1>2 DEF Init
  <1> QED BY <1>3 DEF Unarmed, Confirmed

LEMMA ConfirmedStep == Confirmed(s) /\ [Next]_s => Confirmed(s)'
  <1> SUFFICES ASSUME Confirmed(s), Next PROVE Confirmed(s')
    OBVIOUS
  <1> QED BY KeyPressConfirmed, LeftPressConfirmed, LeftDragConfirmed, WheelConfirmed,
             RightClickConfirmed, PasteConfirmed, EventConfirmed, ElseConfirmed DEF Next

\* The second key confirms what the first one asked about: whatever handlers, popups,
\* panels, pastes, events and resizes come between them, a confirmation still pending is
\* of the text in the composer, or a paste or a restored draft changed it since.
THEOREM ConfirmsTextShown == Spec => []ArmedOverShown
  <1>1. Confirmed(s) => ArmedOverShown
    BY DEF Confirmed, ArmedOverShown
  <1> QED BY <1>1, ConfirmedStart, ConfirmedStep, PTL DEF Spec

-----------------------------------------------------------------------------
(* The transcript: its entries and its rows *)

Kind    == {"none", "user", "pending", "assistant", "muted", "error"} \cup STRING
Entry   == [kind: Kind, text: Text]
Turns   == [state: {"queued", "active", "settled"}, text: Text, result: Entry, stream: Text, sequence: Int]
Notices == [sequence: Int, text: Text]
Line    == [text: Text, more: BOOLEAN]
Painted == [text: Text, marker: Nat, more: BOOLEAN, decorative: BOOLEAN, segments: BOOLEAN]

\* What a sequence becomes element by element is a sequence as long.
LEMMA EachIs ==
  ASSUME NEW S, NEW q \in Seq(S), NEW R, NEW f, f = [k \in DOMAIN q |-> f[k]],
         \A k \in 1..Len(q) : f[k] \in R
  PROVE  f \in Seq(R) /\ Len(f) = Len(q) /\ DOMAIN f = 1..Len(q)
  <1>1. Len(q) \in Nat /\ DOMAIN q = 1..Len(q)
    OBVIOUS
  <1>2. f = [k \in 1..Len(q) |-> f[k]]
    BY <1>1, Zenon
  <1> QED BY <1>1, <1>2, SeqOfN

\* Groups put in the order of their sequence numbers are the same groups.
LEMMA InOrderIs ==
  ASSUME NEW S, NEW groups \in Seq(S), \A i \in DOMAIN groups : groups[i].sequence \in Int
  PROVE  InOrder(groups) \in Seq(S) /\ Len(InOrder(groups)) = Len(groups)
  <1> DEFINE n == Len(groups)
             W == 1..n
             earlier(i, j) == \/ groups[i].sequence < groups[j].sequence
                              \/ groups[i].sequence = groups[j].sequence /\ i < j
             ahead(i) == {j \in DOMAIN groups : earlier(j, i)}
             rank == [i \in W |-> Cardinality(ahead(i))]
             q == InOrder(groups)
  <1>1. n \in Nat /\ DOMAIN groups = W
    OBVIOUS
  <1>2. IsFiniteSet(W) /\ Cardinality(W) = n
    <2>1. 1 \in Int /\ n \in Int
      BY <1>1
    <2>2. IsFiniteSet(W) /\ Cardinality(W) = IF n >= 1 THEN n - 1 + 1 ELSE 0
      BY <1>1, <2>1, FS_Interval
    <2> HIDE DEF n, W
    <2> QED BY <1>1, <2>2
  <1> HIDE DEF W, n
  <1>3. \A i \in W : groups[i].sequence \in Int /\ i \in Int
    BY <1>1 DEF W
  <1>4. \A i, j, k \in W : earlier(i, j) /\ earlier(j, k) => earlier(i, k)
    BY <1>3
  <1>5. \A i \in W : ~earlier(i, i)
    BY <1>3
  <1>6. \A i, j \in W : i # j => earlier(i, j) \/ earlier(j, i)
    BY <1>3
  <1> HIDE DEF earlier
  <1>7. ASSUME NEW A \in SUBSET W, NEW i \in W, i \notin A
        PROVE  Cardinality(A) \in 0..(n - 1)
    <2>1. IsFiniteSet(A) /\ Cardinality(A) <= Cardinality(W) /\ Cardinality(A) # Cardinality(W)
      BY <1>2, <1>7, FS_Subset
    <2>2. Cardinality(A) \in Nat
      BY <2>1, FS_CardinalityType
    <2> QED BY <1>1, <1>2, <2>1, <2>2
  <1>8. rank \in [W -> 0..(Cardinality(W) - 1)]
    <2>1. \A i \in W : ahead(i) \in SUBSET W /\ i \notin ahead(i)
      BY <1>1, <1>5
    <2> HIDE DEF ahead
    <2>2. \A i \in W : Cardinality(ahead(i)) \in 0..(n - 1)
      BY <1>7, <2>1
    <2> QED BY <1>2, <2>2
  <1>9. ASSUME NEW i \in W, NEW j \in W, earlier(i, j) PROVE rank[i] # rank[j]
    <2>1. ahead(i) \in SUBSET ahead(j) /\ i \in ahead(j) /\ i \notin ahead(i) /\ ahead(j) \in SUBSET W
      BY <1>1, <1>4, <1>5, <1>9
    <2> HIDE DEF ahead
    <2>2. IsFiniteSet(ahead(j))
      BY <1>2, <2>1, FS_Subset
    <2>3. Cardinality(ahead(i)) # Cardinality(ahead(j))
      BY <2>1, <2>2, FS_Subset
    <2> QED BY <2>3
  <1> HIDE DEF rank
  <1>10. \A i, j \in W : rank[i] = rank[j] => i = j
    BY <1>6, <1>9
  <1>11. \A k \in 0..(Cardinality(W) - 1) : \E i \in W : rank[i] = k
    BY <1>2, <1>8, <1>10, Ranks
  <1>12. \A k \in W : \E i \in W : Cardinality(ahead(i)) + 1 = k
    <2> TAKE k \in W
    <2>1. k - 1 \in 0..(Cardinality(W) - 1) /\ k - 1 + 1 = k
      BY <1>1, <1>2 DEF W
    <2>2. PICK i \in W : rank[i] = k - 1
      BY <1>11, <2>1
    <2>3. rank[i] = Cardinality(ahead(i))
      BY DEF rank
    <2> QED BY <2>1, <2>2, <2>3, Zenon
  <1>13. q = [k \in DOMAIN groups |-> groups[CHOOSE i \in DOMAIN groups : Cardinality(ahead(i)) + 1 = k]]
    BY DEF InOrder, earlier
  <1> HIDE DEF ahead, q
  <1>14. \A k \in W : q[k] \in S
    <2> TAKE k \in W
    <2> DEFINE i == CHOOSE j \in DOMAIN groups : Cardinality(ahead(j)) + 1 = k
    <2>1. i \in W
      BY <1>1, <1>12
    <2>2. q[k] = groups[i]
      BY <1>1, <1>13
    <2> HIDE DEF i
    <2> QED BY <1>1, <2>1, <2>2
  <1>15. q = [k \in 1..n |-> q[k]]
    BY <1>1, <1>13 DEF W
  <1>16. q \in Seq(S) /\ Len(q) = n
    BY <1>1, <1>14, <1>15, SeqOfN DEF W
  <1> QED BY <1>16 DEF q, n

LEMMA ItemEntriesAre ==
  ASSUME NEW item \in Turns
  PROVE  BuildItemEntries(item) \in Seq(Entry)
  <1> DEFINE prompt == [kind |-> IF item.state = "queued" THEN "pending" ELSE "user", text |-> item.text]
  <1>1. prompt \in Entry /\ item.result \in Entry /\ Result("assistant", item.stream) \in Entry
    <2>1. item.text \in Text /\ item.result \in Entry /\ item.stream \in Text
      BY DEF Turns
    <2>2. \A kind \in Kind, text \in Text : [kind |-> kind, text |-> text] \in Entry
      BY DEF Entry
    <2>3. "pending" \in Kind /\ "user" \in Kind /\ "assistant" \in Kind
      BY DEF Kind
    <2> QED BY <2>1, <2>2, <2>3 DEF Result
  <1> HIDE DEF prompt
  <1>2. \A e, f \in Entry : <<e>> \in Seq(Entry) /\ <<e, f>> \in Seq(Entry)
    OBVIOUS
  <1>3. BuildItemEntries(item) \in {<<prompt, item.result>>, <<prompt, Result("assistant", item.stream)>>, <<prompt>>}
    BY DEF BuildItemEntries, prompt
  <1> QED BY <1>1, <1>2, <1>3

LEMMA ComposedRowsAre ==
  ASSUME NEW queue \in Seq(Turns), NEW notices \in Seq(Notices)
  PROVE  ComposeTranscriptRows(queue, notices) \in Seq(Entry)
  <1> DEFINE Group == [sequence: Int, entries: Seq(Entry)]
             turns == [i \in DOMAIN queue |-> [sequence |-> queue[i].sequence,
                                               entries |-> BuildItemEntries(queue[i])]]
             notes == [i \in DOMAIN notices |-> [sequence |-> notices[i].sequence,
                                                 entries |-> <<Result("error", notices[i].text)>>]]
             groups == InOrder(turns \o notes)
             ss == [k \in DOMAIN groups |-> groups[k].entries]
  <1>1. turns \in Seq(Group)
    <2>1. \A i \in 1..Len(queue) : turns[i] \in Group
      <3>1. \A i \in 1..Len(queue) : queue[i] \in Turns
        OBVIOUS
      <3>2. \A t \in Turns : t.sequence \in Int /\ BuildItemEntries(t) \in Seq(Entry)
        BY ItemEntriesAre DEF Turns
      <3> QED BY <3>1, <3>2
    <2>2. turns = [k \in DOMAIN queue |-> turns[k]]
      OBVIOUS
    <2> HIDE DEF turns, Group
    <2> QED BY <2>1, <2>2, EachIs
  <1>2. notes \in Seq(Group)
    <2>1. \A i \in 1..Len(notices) : notes[i] \in Group
      <3>1. \A i \in 1..Len(notices) : notices[i] \in Notices
        OBVIOUS
      <3>2. \A t \in Notices : t.sequence \in Int /\ <<Result("error", t.text)>> \in Seq(Entry)
        <4>1. \A text \in Text : Result("error", text) \in Entry
          BY DEF Result, Entry, Kind
        <4>2. \A e \in Entry : <<e>> \in Seq(Entry)
          OBVIOUS
        <4> QED BY <4>1, <4>2 DEF Notices
      <3> QED BY <3>1, <3>2
    <2>2. notes = [k \in DOMAIN notices |-> notes[k]]
      OBVIOUS
    <2> HIDE DEF notes, Group
    <2> QED BY <2>1, <2>2, EachIs
  <1> HIDE DEF turns, notes
  <1>3. groups \in Seq(Group)
    <2>1. turns \o notes \in Seq(Group)
      <3> HIDE DEF Group
      <3> QED BY <1>1, <1>2, ConcatProperties
    <2>2. \A g \in Group : g.sequence \in Int
      OBVIOUS
    <2> HIDE DEF Group
    <2>3. \A i \in DOMAIN (turns \o notes) : (turns \o notes)[i].sequence \in Int
      <3> DEFINE all == turns \o notes
      <3>1. all \in Seq(Group)
        BY <2>1
      <3> HIDE DEF all
      <3>2. \A i \in DOMAIN all : all[i].sequence \in Int
        BY <2>2, <3>1
      <3> QED BY <3>2 DEF all
    <2> QED BY <2>1, <2>3, InOrderIs
  <1>4. ComposeTranscriptRows(queue, notices) = FlattenSeq(ss)
    BY DEF ComposeTranscriptRows, FlatMap, turns, notes
  <1> HIDE DEF groups
  <1>5. ss \in Seq(Seq(Entry))
    <2>1. \A k \in 1..Len(groups) : ss[k] \in Seq(Entry)
      <3>1. \A g \in Group : g.entries \in Seq(Entry)
        OBVIOUS
      <3> HIDE DEF Group
      <3> QED BY <1>3, <3>1
    <2>2. ss = [k \in DOMAIN groups |-> ss[k]]
      OBVIOUS
    <2> HIDE DEF ss, Group
    <2> QED BY <1>3, <2>1, <2>2, EachIs
  <1> HIDE DEF ss
  <1> QED BY <1>4, <1>5, FlattenIs

-----------------------------------------------------------------------------
(* Rows *)

LEMMA CellsAre ==
  ASSUME NEW S, NEW n \in Nat, NEW cell \in S
  PROVE  Cells(n, cell) \in Seq(S) /\ Len(Cells(n, cell)) = n
  <1> DEFINE f == Cells(n, cell)
  <1>1. f = [i \in 1..n |-> f[i]] /\ \A i \in 1..n : f[i] \in S
    BY DEF Cells
  <1> HIDE DEF f
  <1>2. f \in Seq(S) /\ Len(f) = n
    BY <1>1, SeqOfN
  <1> QED BY <1>2 DEF f

LEMMA LabelIsText ==
  ASSUME NEW entry \in Entry
  PROVE  LabelForEntry(entry) \in Text
  <1>1. entry.text \in Text /\ <<"E", Space>> \in Text /\ <<Space, "p">> \in Text
    BY TextAssumption, ChromeAssumption DEF Entry, Text, Blank
  <1>2. <<"E", Space>> \o entry.text \in Text /\ entry.text \o <<Space, "p">> \in Text
    BY <1>1, ConcatProperties DEF Text
  <1> QED BY <1>1, <1>2 DEF LabelForEntry

\* The lines of an entry are parts of its text.
LEMMA BodyLinesAre ==
  ASSUME NEW text \in Text, NEW columns \in Nat \ {0}
  PROVE  WrapBodyLines(text, columns) \in Seq(Line)
  <1> DEFINE lines == HardLines(text)
             count(line) == (line.end - line.start + columns - 1) \div columns
             piece(line, k) == [text |-> SubSeq(text, line.start + (k - 1) * columns + 1,
                                                AtMost(line.end, line.start + k * columns)),
                                more |-> k > 1]
             pieces(line) == IF line.start = line.end THEN <<BlankLine>>
                             ELSE [k \in 1..count(line) |-> piece(line, k)]
             ss == [i \in DOMAIN lines |-> pieces(lines[i])]
  <1>1. lines \in Seq(RowsIn(text)) /\ Len(text) \in Nat
    BY HardLinesAre DEF Text
  <1>2. WrapBodyLines(text, columns) = FlattenSeq(ss)
    BY DEF WrapBodyLines, FlatMap
  <1>3. ASSUME NEW line, line.start \in Nat, line.end \in Nat, line.start <= line.end, line.end <= Len(text)
        PROVE  pieces(line) \in Seq(Line)
    <2>1. BlankLine \in Line
      BY DEF BlankLine, Line, Text
    <2>2. count(line) \in Nat
      <3>1. line.end - line.start + columns - 1 \in Nat
        BY <1>3
      <3> QED BY <3>1
    <2>3. ASSUME NEW k \in 1..count(line) PROVE piece(line, k) \in Line
      <3> DEFINE before == (k - 1) * columns
                 after == k * columns
                 from == line.start + before + 1
                 to == AtMost(line.end, line.start + after)
      <3>1. before \in Nat /\ after \in Nat
        BY <2>2
      <3> HIDE DEF before, after
      <3>2. from \in Nat \ {0} /\ to \in Int /\ to <= Len(text)
        <4>1. from \in Nat \ {0}
          BY <1>3, <3>1
        <4>2. to \in Int /\ to <= line.end
          BY <1>3, <3>1
        <4> HIDE DEF from, to
        <4> QED BY <1>1, <1>3, <4>1, <4>2
      <3> HIDE DEF from, to
      <3>3. SubSeq(text, from, to) \in Text
        BY <1>1, <3>2, SubText
      <3>4. piece(line, k) = [text |-> SubSeq(text, from, to), more |-> k > 1]
        BY DEF from, to, before, after
      <3> HIDE DEF piece
      <3> QED BY <3>3, <3>4 DEF Line
    <2> DEFINE f == [k \in 1..count(line) |-> piece(line, k)]
    <2>4. f \in Seq(Line)
      <3>1. f = [k \in 1..count(line) |-> f[k]] /\ \A k \in 1..count(line) : f[k] \in Line
        BY <2>3
      <3> HIDE DEF f, count
      <3> QED BY <2>2, <3>1, SeqOfN
    <2>5. <<BlankLine>> \in Seq(Line)
      BY <2>1
    <2> HIDE DEF f, count, piece
    <2>6. pieces(line) = IF line.start = line.end THEN <<BlankLine>> ELSE f
      BY DEF f
    <2> QED BY <2>4, <2>5, <2>6
  <1> HIDE DEF pieces, lines
  <1>4. ss \in Seq(Seq(Line))
    <2>1. \A i \in 1..Len(lines) : ss[i] \in Seq(Line)
      <3>1. \A i \in 1..Len(lines) : pieces(lines[i]) \in Seq(Line)
        BY <1>1, <1>3, RowsInText
      <3> QED BY <1>1, <3>1
    <2>2. ss = [k \in DOMAIN lines |-> ss[k]]
      OBVIOUS
    <2> HIDE DEF ss
    <2> QED BY <1>1, <2>1, <2>2, EachIs
  <1> HIDE DEF ss
  <1> QED BY <1>2, <1>4, FlattenIs

\* A row painted from a line.
LEMMA PaintedLine ==
  ASSUME NEW line \in Line
  PROVE  /\ PlainRow(line) \in Painted
         /\ BodyRow(line, AssistantPrefix, TRUE) \in Painted
  BY DEF PlainRow, BodyRow, AssistantPrefix, Painted, Line

LEMMA PaintedEach ==
  ASSUME NEW lines \in Seq(Line)
  PROVE  /\ Each(lines, PlainRow) \in Seq(Painted)
         /\ Each(lines, LAMBDA line : BodyRow(line, AssistantPrefix, TRUE)) \in Seq(Painted)
  <1>0. DOMAIN lines = 1..Len(lines) /\ \A k \in 1..Len(lines) : lines[k] \in Line
    OBVIOUS
  <1> DEFINE f == [k \in DOMAIN lines |-> PlainRow(lines[k])]
             g == [k \in DOMAIN lines |-> BodyRow(lines[k], AssistantPrefix, TRUE)]
  <1>1. f \in Seq(Painted)
    <2>1. \A k \in 1..Len(lines) : f[k] \in Painted
      BY <1>0, PaintedLine
    <2>2. f = [k \in DOMAIN lines |-> f[k]]
      OBVIOUS
    <2> HIDE DEF f
    <2> QED BY <2>1, <2>2, EachIs
  <1>2. g \in Seq(Painted)
    <2>1. \A k \in 1..Len(lines) : g[k] \in Painted
      BY <1>0, PaintedLine
    <2>2. g = [k \in DOMAIN lines |-> g[k]]
      OBVIOUS
    <2> HIDE DEF g
    <2> QED BY <2>1, <2>2, EachIs
  <1> QED BY <1>1, <1>2 DEF Each

LEMMA IndentedAre ==
  ASSUME NEW lines \in Seq(Line)
  PROVE  Indented(lines) \in Seq(Painted)
  <1> DEFINE prefix(k) == IF k = 1 THEN PromptPrefix ELSE Cells(Len(PromptPrefix), Space)
             f == [k \in DOMAIN lines |-> PlainRow([lines[k] EXCEPT !.text = prefix(k) \o @])]
  <1>1. PromptPrefix \in Text /\ Cells(Len(PromptPrefix), Space) \in Text
    <2>1. PromptPrefix \in Text /\ Space \in Grapheme
      BY TextAssumption, ChromeAssumption DEF PromptPrefix, Text, Blank
    <2>2. Len(PromptPrefix) \in Nat
      BY <2>1 DEF Text
    <2> QED BY <2>1, <2>2, CellsAre DEF Text
  <1>2. \A k : prefix(k) \in Text
    BY <1>1
  <1>3. ASSUME NEW k \in 1..Len(lines) PROVE f[k] \in Painted
    <2>1. lines[k] \in Line /\ k \in DOMAIN lines
      OBVIOUS
    <2>2. lines[k].text \in Text
      BY <2>1 DEF Line
    <2> DEFINE text == prefix(k) \o lines[k].text
    <2>3. text \in Text
      BY <1>2, <2>2, ConcatProperties DEF Text
    <2>4. f[k] = PlainRow([lines[k] EXCEPT !.text = text])
      BY <2>1
    <2> HIDE DEF text, f
    <2>5. [lines[k] EXCEPT !.text = text] \in Line
      BY <2>1, <2>3 DEF Line
    <2> QED BY <2>4, <2>5, PaintedLine
  <1>4. f = [k \in DOMAIN lines |-> f[k]]
    OBVIOUS
  <1>5. Indented(lines) = f
    BY DEF Indented
  <1> HIDE DEF f
  <1>6. f \in Seq(Painted)
    BY <1>3, <1>4, EachIs
  <1> QED BY <1>5, <1>6

LEMMA PromptRowsAre ==
  ASSUME NEW text \in Text, NEW columns \in Nat
  PROVE  ToPromptRows(text, columns) \in Seq(Painted)
  <1> DEFINE wide == AtLeast(1, columns - Len(PromptPrefix) - PromptPadding)
             half == HalfLineRow(columns)
             middle == Indented(WrapBodyLines(TrimEnd(text), wide))
  <1>1. half \in Painted
    <2>1. Cells(columns, "#") \in Text
      BY CellsAre, ChromeAssumption DEF Text
    <2>2. PlainRow(BlankLine) \in Painted
      <3>1. BlankLine \in Line
        BY DEF BlankLine, Line, Text
      <3> QED BY <3>1, PaintedLine
    <2> QED BY <2>1, <2>2 DEF HalfLineRow, Painted
  <1>2. middle \in Seq(Painted)
    <2>1. wide \in Nat \ {0}
      <3>1. Len(PromptPrefix) = 4
        BY DEF PromptPrefix
      <3> QED BY <3>1 DEF PromptPadding
    <2> HIDE DEF wide
    <2>2. WrapBodyLines(TrimEnd(text), wide) \in Seq(Line)
      BY <2>1, TrimIsText, BodyLinesAre
    <2> QED BY <2>2, IndentedAre
  <1>3. ToPromptRows(text, columns) = <<half>> \o middle \o <<half>>
    BY DEF ToPromptRows
  <1> HIDE DEF half, middle
  <1>4. <<half>> \in Seq(Painted)
    BY <1>1
  <1>5. <<half>> \o middle \in Seq(Painted)
    BY <1>2, <1>4, ConcatProperties
  <1>6. (<<half>> \o middle) \o <<half>> \in Seq(Painted)
    BY <1>4, <1>5, ConcatProperties
  <1> QED BY <1>3, <1>6

LEMMA BodyRowsAre ==
  ASSUME NEW entry \in Entry, NEW columns \in Nat \ {0}
  PROVE  ToBodyRows(entry, columns) \in Seq(Painted)
  <1>1. entry.text \in Text
    BY DEF Entry
  <1>2. ToPromptRows(entry.text, columns) \in Seq(Painted)
    BY <1>1, PromptRowsAre
  <1>3. ToAssistantRows(entry.text, columns) \in Seq(Painted)
    <2> DEFINE wide == AtLeast(1, columns - AssistantPrefix)
    <2>1. wide \in Nat \ {0}
      BY DEF AssistantPrefix
    <2> HIDE DEF wide
    <2>2. WrapBodyLines(entry.text, wide) \in Seq(Line)
      BY <1>1, <2>1, BodyLinesAre
    <2> QED BY <2>2, PaintedEach DEF ToAssistantRows, wide
  <1>4. Each(WrapBodyLines(LabelForEntry(entry), columns), PlainRow) \in Seq(Painted)
    BY LabelIsText, BodyLinesAre, PaintedEach
  <1> QED BY <1>2, <1>3, <1>4 DEF ToBodyRows

\* The rows of a transcript, however wide it is and however many rows show.
LEMMA StructuralRowsAre ==
  ASSUME NEW entries \in Seq(Entry), NEW columns \in Int, NEW visible
  PROVE  StructuralBodyRows(entries, columns, visible) \in Seq(Painted)
  <1>1. ASSUME NEW wide \in Nat \ {0} PROVE RowsOf(entries, wide) \in Seq(Painted)
    <2> DEFINE ss == [k \in DOMAIN entries |-> ToBodyRows(entries[k], wide)]
    <2>1. RowsOf(entries, wide) = FlattenSeq(ss)
      BY DEF RowsOf, FlatMap
    <2>2. ss = [k \in DOMAIN entries |-> ss[k]] /\ \A k \in 1..Len(entries) : ss[k] \in Seq(Painted)
      <3>1. \A k \in 1..Len(entries) : entries[k] \in Entry
        OBVIOUS
      <3> QED BY <3>1, BodyRowsAre
    <2> HIDE DEF ss
    <2>3. ss \in Seq(Seq(Painted))
      BY <2>2, EachIs
    <2> QED BY <2>1, <2>3, FlattenIs
  <1>2. AtLeast(1, columns) \in Nat \ {0} /\ AtLeast(1, columns - 1) \in Nat \ {0}
    OBVIOUS
  <1>3. RowsOf(entries, AtLeast(1, columns)) \in Seq(Painted)
        /\ RowsOf(entries, AtLeast(1, columns - 1)) \in Seq(Painted)
    BY <1>1, <1>2
  <1> QED BY <1>3 DEF StructuralBodyRows, WrapAgain

-----------------------------------------------------------------------------
(* The state of the screen *)

Place      == [row: Int, column: Int]
Selections == [anchor: Place, focus: Place]

\* A screen whose parts are what they are meant to be: the caret in its text, texts in
\* the transcript and in the ring; p is what `peeked` was before the handlers ran.
Sound(u, p) ==
  /\ DOMAIN u = ScreenFields
  /\ Caret(u.composer) /\ Ring(u.ring) /\ u.restore \in Text
  /\ u.queue \in Seq(Turns) /\ u.notices \in Seq(Notices) /\ u.sequence \in Int
  /\ u.term \in [rows: Nat, columns: Nat]
  /\ u.composerRows \in Int /\ u.bodyOffset \in Nat /\ u.highlight \in Int
  /\ u.selection \in Selections
  /\ u.peeked = p

\* What the composer told the layout is still so while it is on the screen.
Mounted(u) ==
  ComposerMounted(u) =>
    /\ u.restore = <<>>
    /\ u.composerRows = CountVisibleComposerRows(ComposerWindow(u).rows, u.composer.error)
    /\ (~u.peeked => ComposerWindow(u).cursorVisible)

LEMMA NewComposer ==
  ASSUME NEW u, NEW p, Sound(u, p), NEW c, Caret(c)
  PROVE  Sound([u EXCEPT !.composer = c], p)
  BY DEF Sound, ScreenFields

LEMMA NewQueue ==
  ASSUME NEW u, NEW p, Sound(u, p), NEW queue \in Seq(Turns)
  PROVE  Sound([u EXCEPT !.queue = queue], p)
  BY DEF Sound, ScreenFields

LEMMA NewOffset ==
  ASSUME NEW u, NEW p, Sound(u, p), NEW offset \in Nat
  PROVE  Sound([u EXCEPT !.bodyOffset = offset], p)
  BY DEF Sound, ScreenFields

LEMMA NewSelection ==
  ASSUME NEW u, NEW p, Sound(u, p), NEW selection \in Selections
  PROVE  Sound([u EXCEPT !.selection = selection], p)
  BY DEF Sound, ScreenFields

\* The fields that have no part in it.
LEMMA NewElse ==
  ASSUME NEW u, NEW p, Sound(u, p), NEW x, NEW y
  PROVE  /\ Sound([u EXCEPT !.armed = x], p) /\ Sound([u EXCEPT !.locked = x], p)
         /\ Sound([u EXCEPT !.popup = x], p) /\ Sound([u EXCEPT !.surface = x], p)
         /\ Sound([u EXCEPT !.clipboard = x], p) /\ Sound([u EXCEPT !.reading = x], p)
         /\ Sound([u EXCEPT !.suppress = x], p) /\ Sound([u EXCEPT !.region = x], p)
         /\ Sound([u EXCEPT !.exited = x], p) /\ Sound([u EXCEPT !.dismissed = x], p)
         /\ Sound([u EXCEPT !.helpOffset = x], p) /\ Sound([u EXCEPT !.boundsLocked = x], p)
         /\ Sound([u EXCEPT !.lastPress = x], p)
         /\ Sound([u EXCEPT !.surface = x, !.armed = y], p)
         /\ Sound([u EXCEPT !.surface = x, !.helpOffset = y], p)
         /\ Sound([u EXCEPT !.clipboard = x, !.armed = y], p)
         /\ Sound([u EXCEPT !.armed = x, !.exited = y], p)
  BY DEF Sound, ScreenFields

LEMMA NewArmed ==
  ASSUME NEW u, NEW p, Sound(u, p), NEW x, NEW y
  PROVE  Sound([u EXCEPT !.armed = x, !.armedText = y, !.unannounced = FALSE], p)
  BY DEF Sound, ScreenFields

LEMMA SpendSound ==
  ASSUME Sound(s, s.peeked), NEW kind
  PROVE  Sound(Spend(kind), s.peeked)
  BY DEF Spend, Sound, ScreenFields

-----------------------------------------------------------------------------
(* What is computed from it *)

LEMMA Measures ==
  ASSUME NEW u, NEW p, Sound(u, p)
  PROVE  /\ Rows(u) \in Nat /\ Rows(u) >= 15
         /\ SafeColumns(u) \in Nat \ {0} /\ InputColumns(u) \in Nat \ {0}
         /\ HeaderOf(u) \in 0..1 /\ DockedRowsOf(u) \in Nat /\ CwdRows(u) \in Nat
         /\ MenuRowsOf(u) \in 0..8
  <1>1. u.term.rows \in Nat /\ u.term.columns \in Nat /\ u.composerRows \in Int
    BY DEF Sound
  <1>2. Rows(u) \in Nat /\ Rows(u) >= 15
    BY <1>1 DEF Rows, MinRows
  <1>3. SafeColumns(u) \in Nat \ {0} /\ InputColumns(u) \in Nat \ {0}
    <2>1. SafeColumns(u) \in Nat \ {0}
      BY <1>1 DEF SafeColumns, SafeColumnGuard
    <2> QED BY <2>1 DEF InputColumns, PromptPrefixColumns
  <1>4. HeaderOf(u) \in 0..1
    BY DEF HeaderOf, HeaderRows
  <1>5. DockedRowsOf(u) \in Nat
    BY <1>2 DEF DockedRowsOf, ResolveDockedPanelRows, DockedRows, HeaderRows, MaxHeightDivisor
  <1>6. CwdRows(u) \in Nat
    <2> DEFINE wide == SafeColumns(u)
               n == (CwdLength + wide - 1) \div wide
    <2>1. CwdLength + wide - 1 \in Nat
      BY <1>3, SizeAssumption
    <2>2. n \in Nat
      <3> HIDE DEF wide
      <3> QED BY <1>3, <2>1 DEF wide
    <2>3. CwdRows(u) = IF MenuOpen(u) \/ Docked(u) THEN 0 ELSE AtLeast(1, n)
      BY DEF CwdRows
    <2> HIDE DEF n
    <2> QED BY <2>2, <2>3
  <1>7. MenuRowsOf(u) \in 0..8
    <2> DEFINE free == Rows(u) - HeaderOf(u) - CwdGapRows - CwdRows(u) - 1 - u.composerRows - 1
    <2>1. free \in Int
      BY <1>1, <1>2, <1>4, <1>6 DEF CwdGapRows
    <2>2. MenuRowsOf(u) = IF Docked(u) \/ ~MenuOpen(u) THEN 0 ELSE AtMost(8, AtLeast(0, free))
      BY DEF MenuRowsOf, MenuRows
    <2> HIDE DEF free
    <2> QED BY <2>1, <2>2
  <1> QED BY <1>2, <1>3, <1>4, <1>5, <1>6, <1>7

LEMMA LayoutIs ==
  ASSUME NEW u, NEW p, Sound(u, p), NEW n \in Nat
  PROVE  /\ LayoutFor(u, n).bodyRows \in 1..(n + 1)
         /\ LayoutFor(u, n).composerRows \in Nat \ {0}
         /\ LayoutFor(u, n).cwdRows = IF DockedRowsOf(u) > 0 THEN 0 ELSE CwdRows(u)
  <1> DEFINE rows == Rows(u)
             cwd == CwdRows(u)
             menu == MenuRowsOf(u)
             docked == DockedRowsOf(u)
             header == HeaderOf(u)
             composer == u.composerRows
  <1>1. rows \in Nat /\ cwd \in Nat /\ menu \in Nat /\ docked \in Nat /\ header \in Nat /\ composer \in Int
    <2>1. u.composerRows \in Int
      BY DEF Sound
    <2> QED BY <2>1, Measures
  <1>2. LayoutFor(u, n) = ResolveHomeScreenLayout(rows, n, composer, cwd, menu, docked, header)
    BY DEF LayoutFor
  <1> HIDE DEF rows, cwd, menu, docked, header, composer
  <1>3. LET layout == ResolveHomeScreenLayout(rows, n, composer, cwd, menu, docked, header)
        IN  /\ layout.bodyRows \in 1..(n + 1) /\ layout.composerRows \in Nat \ {0}
            /\ layout.cwdRows = IF docked > 0 THEN 0 ELSE cwd
    BY <1>1 DEF ResolveHomeScreenLayout, CwdGapRows, MaxHeightDivisor, PaddingRows, ErrorReserveRows
  <1> QED BY <1>2, <1>3 DEF docked, cwd

LEMMA EntriesOf ==
  ASSUME NEW u, NEW p, Sound(u, p)
  PROVE  /\ Entries(u) \in Seq(Entry)
         /\ \A visible : /\ StructuralBodyRows(Entries(u), SafeColumns(u), visible) \in Seq(Painted)
                         /\ Len(StructuralBodyRows(Entries(u), SafeColumns(u), visible)) \in Nat
  <1>1. Entries(u) \in Seq(Entry)
    BY ComposedRowsAre DEF Sound, Entries
  <1>2. ASSUME NEW visible
        PROVE  StructuralBodyRows(Entries(u), SafeColumns(u), visible) \in Seq(Painted)
    BY <1>1, Measures, StructuralRowsAre
  <1>3. \A q \in Seq(Painted) : Len(q) \in Nat
    OBVIOUS
  <1> QED BY <1>1, <1>2, <1>3

LEMMA LayoutOf ==
  ASSUME NEW u, NEW p, Sound(u, p)
  PROVE  /\ Layout(u).bodyRows \in Nat \ {0} /\ ComposerVisibleRows(u) \in Nat \ {0}
         /\ Layout(u).cwdRows = IF DockedRowsOf(u) > 0 THEN 0 ELSE CwdRows(u)
  <1> DEFINE n == Len(StructuralBodyRows(Entries(u), SafeColumns(u), Rows(u)))
  <1>1. n \in Nat
    BY EntriesOf
  <1>2. Layout(u) = LayoutFor(u, n)
    BY DEF Layout
  <1> HIDE DEF n
  <1>3. Layout(u).bodyRows \in Nat \ {0} /\ Layout(u).cwdRows = IF DockedRowsOf(u) > 0 THEN 0 ELSE CwdRows(u)
    BY <1>1, <1>2, LayoutIs
  <1>4. ComposerVisibleRows(u) \in Nat \ {0}
    BY LayoutIs DEF ComposerVisibleRows
  <1> QED BY <1>3, <1>4

\* A view of rows; it shows some of them if there are any.
View(view) ==
  /\ view.rows \in Seq(Painted) /\ Len(view.rows) \in Nat /\ view.visible \in Nat \ {0}
  /\ view.window.startIndex \in 0..view.window.end /\ view.window.end \in 0..Len(view.rows)
  /\ view.rows # <<>> => view.window.startIndex < view.window.end
  /\ view.window.end - view.window.startIndex = AtMost(Len(view.rows), view.visible)

LEMMA ViewIs ==
  ASSUME NEW u, NEW p, Sound(u, p)
  PROVE  View(BodyView(u)) /\ MaxBodyOffset(u) \in Nat
  <1> DEFINE visible == Layout(u).bodyRows
             rows == StructuralBodyRows(Entries(u), SafeColumns(u), visible)
             n == Len(rows)
             view == BodyView(u)
             window == BodyWindow(n, visible, u.bodyOffset)
  <1>1. visible \in Nat \ {0} /\ rows \in Seq(Painted) /\ n \in Nat /\ u.bodyOffset \in Int
    BY LayoutOf, EntriesOf DEF Sound
  <1>2. view.rows = rows /\ view.visible = visible /\ view.window = window
    BY DEF BodyView, BodyViewAt, BodyViewOf
  <1> HIDE DEF visible, view
  <1>3. rows # <<>> => n > 0
    BY <1>1
  <1> HIDE DEF rows, n
  <1>4. /\ window.startIndex \in 0..window.end /\ window.end \in 0..n
        /\ window.end - window.startIndex = AtMost(n, visible)
        /\ n > 0 => window.startIndex < window.end
    <2>1. window.startIndex \in Int /\ window.end \in Int
      BY <1>1 DEF BodyWindow
    <2> HIDE DEF window
    <2>2. /\ 0 <= window.startIndex /\ window.startIndex <= window.end /\ window.end <= n
          /\ window.end - window.startIndex = AtMost(n, visible)
      BY <1>1, BodyWindowInRows DEF window
    <2> QED BY <1>1, <2>1, <2>2
  <1> HIDE DEF window
  <1>5. View(view)
    <2>1. Len(view.rows) = n /\ (view.rows # <<>> => n > 0)
      BY <1>2, <1>3 DEF n
    <2>2. view.rows \in Seq(Painted) /\ Len(view.rows) \in Nat /\ view.visible \in Nat \ {0}
      BY <1>1, <1>2, <2>1
    <2>3. /\ view.window.startIndex \in 0..view.window.end /\ view.window.end \in 0..Len(view.rows)
          /\ view.window.end - view.window.startIndex = AtMost(Len(view.rows), view.visible)
          /\ view.rows # <<>> => view.window.startIndex < view.window.end
      BY <1>2, <1>4, <2>1
    <2> QED BY <2>2, <2>3 DEF View
  <1>6. MaxBodyOffset(u) = AtLeast(0, n - visible)
    BY <1>2 DEF MaxBodyOffset, MaxOffsetOf, n, view
  <1> QED BY <1>1, <1>5, <1>6 DEF view

-----------------------------------------------------------------------------
(* The keys leave the screen sound *)

LEMMA Empty == <<>> \in Text /\ 0 \in Int /\ 1 \in Int /\ -1 \in Int
  <1>1. <<>> \in Text
    BY DEF Text
  <1> QED BY <1>1

LEMMA CapturedSound ==
  ASSUME NEW u, NEW p, Sound(u, p), NEW text \in Text
  PROVE  Sound(Capture(u, text), p)
  <1>1. Ring(AppendRecallEntry(u.ring, text))
    BY RingAppended DEF Sound
  <1>2. ASSUME NEW ring, Ring(ring)
        PROVE  Sound([u EXCEPT !.sequence = @ + 1, !.ring = ring], p)
    BY <1>2 DEF Sound, ScreenFields
  <1> QED BY <1>1, <1>2 DEF Capture

LEMMA EnqueuedSound ==
  ASSUME NEW u, NEW p, Sound(u, p), NEW text \in Text, NEW sequence \in Int
  PROVE  /\ Sound(EnqueuePrompt(u, text, sequence), p) /\ Sound(AppendNotice(u, text, sequence), p)
         /\ Sound(ClearTranscript(u), p) /\ Sound(ClearComposer(u), p)
  <1> DEFINE turn == [state |-> "active", text |-> text, result |-> NoResult,
                      stream |-> <<>>, sequence |-> sequence]
             note == [sequence |-> sequence, text |-> text]
  <1>1. turn \in Turns
    <2>1. NoResult \in Entry /\ <<>> \in Text
      BY DEF NoResult, Result, Entry, Kind, Text
    <2> QED BY <2>1 DEF Turns
  <1>2. note \in Notices
    BY DEF Notices
  <1>3. u.queue \in Seq(Turns) /\ u.notices \in Seq(Notices)
    BY DEF Sound
  <1>4. ASSUME NEW queue \in Seq(Turns), NEW notices \in Seq(Notices)
        PROVE  /\ Sound([u EXCEPT !.queue = queue, !.bodyOffset = 0], p)
               /\ Sound([u EXCEPT !.notices = notices, !.bodyOffset = 0], p)
               /\ Sound([u EXCEPT !.queue = queue, !.notices = notices, !.bodyOffset = 0], p)
    BY <1>4 DEF Sound, ScreenFields
  <1> HIDE DEF turn, note
  <1>5. Append(u.queue, turn) \in Seq(Turns) /\ Append(u.notices, note) \in Seq(Notices)
        /\ <<>> \in Seq(Turns) /\ <<>> \in Seq(Notices)
    BY <1>1, <1>2, <1>3
  <1>6. Sound(EnqueuePrompt(u, text, sequence), p)
    BY <1>4, <1>5, Zenon DEF EnqueuePrompt, turn
  <1>7. Sound(AppendNotice(u, text, sequence), p) /\ Sound(ClearTranscript(u), p)
    BY <1>4, <1>5 DEF AppendNotice, ClearTranscript, note
  <1>8. Sound(ClearComposer(u), p)
    <2>1. Caret(EmptyComposer)
      <3>1. <<>> \in Text
        BY Empty
      <3> QED BY <3>1, NewText
    <2> QED BY <2>1, NewComposer DEF ClearComposer
  <1> QED BY <1>6, <1>7, <1>8

LEMMA RanSound ==
  ASSUME NEW u, NEW p, Sound(u, p), NEW entry \in MenuEntry
  PROVE  Sound(RunEntry(u, entry), p)
  <1> DEFINE v == Capture(u, EntryFullName(entry))
             w == ExecuteCommand(v, entry)
  <1>1. Sound(v, p)
    BY NameIsText, CapturedSound
  <1> HIDE DEF v
  <1>2. <<>> \in Text /\ 0 \in Int
    BY Empty
  <1>3. /\ Sound([v EXCEPT !.exited = TRUE], p) /\ Sound(ClearTranscript(v), p)
        /\ Sound([v EXCEPT !.surface = "help", !.helpOffset = 0], p)
        /\ Sound([v EXCEPT !.popup = "resume"], p) /\ Sound([v EXCEPT !.surface = "docked"], p)
    BY <1>1, <1>2, NewElse, EnqueuedSound, Zenon
  <1>4. w \in {[v EXCEPT !.exited = TRUE], ClearTranscript(v),
               [v EXCEPT !.surface = "help", !.helpOffset = 0],
               [v EXCEPT !.popup = "resume"], [v EXCEPT !.surface = "docked"]}
    BY Zenon DEF ExecuteCommand
  <1> HIDE DEF w
  <1>5. Sound(w, p)
    BY <1>3, <1>4
  <1>6. Sound(ClearComposer(w), p)
    BY <1>2, <1>5, EnqueuedSound
  <1> QED BY <1>6 DEF RunEntry, v, w

LEMMA SubmittedSound ==
  ASSUME NEW u, NEW p, Sound(u, p), NEW entries \in Seq(MenuEntry)
  PROVE  Sound(Submit(u, entries), p)
  <1> DEFINE text == Trim(u.composer.text)
             sent == ClearComposer(EnqueuePrompt(Capture(u, text), text, u.sequence))
  <1>1. u.composer.text \in Text /\ u.sequence \in Int /\ Caret(u.composer) /\ DOMAIN u = ScreenFields
    BY DEF Sound, Caret
  <1>2. text \in Text
    BY <1>1, TrimIsText
  <1>3. Sound(ShowOverLimit(u), p)
    <2>1. Caret([u.composer EXCEPT !.error = TRUE])
      BY <1>1 DEF Caret, ComposerFields
    <2>2. [u EXCEPT !.composer = [u.composer EXCEPT !.error = TRUE]] = ShowOverLimit(u)
      BY Zenon DEF ShowOverLimit
    <2>3. Sound([u EXCEPT !.composer = [u.composer EXCEPT !.error = TRUE]], p)
      BY <2>1, NewComposer
    <2> QED BY <2>2, <2>3, Zenon
  <1>4. entries # <<>> => Sound(RunEntry(u, entries[1]), p)
    BY RanSound
  <1>5. Sound(PostUnknown(u, text), p)
    <2>1. UnknownCommandToken(text) \in Text
      BY <1>2, TokenIsText
    <2>2. Sound(Capture(u, text), p)
      BY <1>2, CapturedSound
    <2>3. Sound(AppendNotice(Capture(u, text), UnknownCommandToken(text), u.sequence), p)
      BY <1>1, <2>1, <2>2, EnqueuedSound
    <2> QED BY <1>1, <1>2, <2>3, EnqueuedSound DEF PostUnknown
  <1>6. Sound(sent, p)
    <2>1. Sound(Capture(u, text), p)
      BY <1>2, CapturedSound
    <2>2. Sound(EnqueuePrompt(Capture(u, text), text, u.sequence), p)
      BY <1>1, <1>2, <2>1, EnqueuedSound
    <2> QED BY <1>1, <1>2, <2>2, EnqueuedSound
  <1> HIDE DEF text
  <1>7. \/ Submit(u, entries) \in {ShowOverLimit(u), u, PostUnknown(u, text), sent}
        \/ entries # <<>> /\ Submit(u, entries) = RunEntry(u, entries[1])
    <2> DEFINE verdict == ValidateComposerSubmit(u.composer.text)
    <2>1. Submit(u, entries)
            = CASE verdict = "over-limit" -> ShowOverLimit(u)
                [] verdict = "empty" -> u
                [] verdict = "ok" /\ entries # <<>> -> RunEntry(u, entries[1])
                [] verdict = "ok" /\ entries = <<>> /\ Head(text) = Slash -> PostUnknown(u, text)
                [] OTHER -> sent
      BY DEF Submit, text
    <2> HIDE DEF verdict, sent
    <2> QED BY <2>1
  <1> HIDE DEF sent
  <1> QED BY <1>3, <1>4, <1>5, <1>6, <1>7

LEMMA EditedSound ==
  ASSUME NEW u, NEW p, Sound(u, p), NEW c, Caret(c)
  PROVE  Sound(Edited(u, c), p)
  BY DEF Edited, Sound, ScreenFields

LEMMA MenuSound ==
  ASSUME NEW u, NEW p, Sound(u, p), NEW key \in MenuKeys, NEW matches \in Seq(MenuEntry)
  PROVE  Sound(HandleMenuKey(u, key, matches), p)
  <1> DEFINE chosen == HighlightedEntry(matches, u.highlight)
             name == EntryFullName(chosen[1])
             filled == InsertText(EmptyComposer, name)
  <1>1. u.highlight \in Int
    BY DEF Sound
  <1>2. chosen \in Seq(MenuEntry)
    <2>1. 1 \in Int
      OBVIOUS
    <2> QED BY <1>1, <2>1, HighlightIs
  <1> HIDE DEF chosen
  <1>3. CASE key = "enter"
    BY <1>2, <1>3, SubmittedSound DEF HandleMenuKey, chosen
  <1>4. CASE key = "tab"
    <2>1. CASE chosen = <<>>
      BY <1>4, <2>1 DEF HandleMenuKey, chosen
    <2>2. CASE chosen # <<>>
      <3>1. chosen[1] \in MenuEntry
        BY <1>2, <2>2
      <3>2. Caret(filled)
        <4>1. name \in Text /\ Caret(EmptyComposer)
          <5>1. <<>> \in Text
            BY Empty
          <5> QED BY <3>1, <5>1, NameIsText, NewText
        <4> QED BY <4>1, InsertedCaret
      <3> HIDE DEF filled
      <3>3. Sound([u EXCEPT !.composer = filled], p)
        BY <3>2, NewComposer
      <3> QED BY <1>4, <3>3 DEF HandleMenuKey, chosen, filled
    <2> QED BY <2>1, <2>2
  <1>5. CASE key \in {"up", "down", "esc"}
    <2>1. ASSUME NEW h \in Int PROVE Sound([u EXCEPT !.highlight = h], p)
      BY DEF Sound, ScreenFields
    <2>2. MoveHighlight(matches, u.highlight, -1) \in Int /\ MoveHighlight(matches, u.highlight, 1) \in Int
      <3>1. -1 \in Int /\ 1 \in Int
        BY Empty
      <3> QED BY <1>1, <3>1, HighlightIs
    <2>3. /\ Sound([u EXCEPT !.highlight = MoveHighlight(matches, u.highlight, -1)], p)
          /\ Sound([u EXCEPT !.highlight = MoveHighlight(matches, u.highlight, 1)], p)
          /\ Sound([u EXCEPT !.dismissed = TRUE], p)
      BY <2>1, <2>2, NewElse, Zenon
    <2>4. HandleMenuKey(u, key, matches)
            \in {[u EXCEPT !.highlight = MoveHighlight(matches, u.highlight, -1)],
                 [u EXCEPT !.highlight = MoveHighlight(matches, u.highlight, 1)],
                 [u EXCEPT !.dismissed = TRUE]}
      BY <1>5 DEF HandleMenuKey
    <2> QED BY <2>3, <2>4, Zenon
  <1> QED BY <1>3, <1>4, <1>5 DEF MenuKeys

LEMMA TextSound ==
  ASSUME NEW u, NEW p, Sound(u, p), NEW key
  PROVE  Sound(HandleTextEdit(u, key), p) /\ Sound(HandleNewline(u, key), p)
  <1>1. Caret(u.composer)
    BY DEF Sound
  <1>2. Caret(DeleteBackward(u.composer))
    BY <1>1, DeletedCaret
  <1>3. Sound(HandleTextEdit(u, key), p)
    <2>1. CASE key = "backspace"
      <3>1. Sound(Edited(u, DeleteBackward(u.composer)), p)
        BY <1>2, EditedSound
      <3>2. key \in Typed => Sound(Edited(u, InsertText(u.composer, <<key>>)), p)
        <4>1. key \in Typed => <<key>> \in Text
          BY InputAssumption DEF Text
        <4> QED BY <1>1, <4>1, InsertedCaret, EditedSound
      <3> QED BY <2>1, <3>1, <3>2 DEF HandleTextEdit
    <2>2. CASE key # "backspace"
      <3>1. key \in Typed => Sound(Edited(u, InsertText(u.composer, <<key>>)), p)
        <4>1. key \in Typed => <<key>> \in Text
          BY InputAssumption DEF Text
        <4> QED BY <1>1, <4>1, InsertedCaret, EditedSound
      <3> QED BY <2>2, <3>1 DEF HandleTextEdit
    <2> QED BY <2>1, <2>2
  <1>4. Sound(HandleNewline(u, key), p)
    <2> DEFINE c == IF key = "enter" THEN DeleteBackward(u.composer) ELSE u.composer
               d == InsertText(c, <<Newline>>)
    <2>1. Caret(c)
      BY <1>1, <1>2
    <2>2. <<Newline>> \in Text
      BY TextAssumption DEF Text, Blank
    <2>3. HandleNewline(u, key) = [u EXCEPT !.composer = d]
      BY DEF HandleNewline
    <2> HIDE DEF c
    <2>4. Caret(d)
      BY <2>1, <2>2, InsertedCaret
    <2> HIDE DEF d
    <2> QED BY <2>3, <2>4, NewComposer
  <1> QED BY <1>3, <1>4

LEMMA VerticalSound ==
  ASSUME NEW u, NEW p, Sound(u, p), NEW step \in Int
  PROVE  Sound(HandleVertical(u, step), p)
  <1> DEFINE recall == IF step < 0 THEN RecallPrevious(u.ring, u.composer.text) ELSE RecallNext(u.ring)
             c == MoveCursorVertically(u.composer, InputColumns(u), step)
             d == WithText(recall.text, OverLimit(recall.text))
  <1>1. Caret(u.composer) /\ u.composer.text \in Text /\ Ring(u.ring)
    BY DEF Sound, Caret
  <1>2. Caret(c)
    BY <1>1, SteppedCaret
  <1>3. Ring(recall.ring) /\ recall.text \in Text
    BY <1>1, RingWalked
  <1>4. HandleVertical(u, step) \in {[u EXCEPT !.composer = c], u,
          [u EXCEPT !.ring = recall.ring, !.dismissed = TRUE, !.composer = d]}
    BY DEF HandleVertical
  <1> HIDE DEF c, recall
  <1>5. Caret(d)
    BY <1>3, NewText
  <1> HIDE DEF d
  <1>6. Sound([u EXCEPT !.composer = c], p)
    BY <1>2, NewComposer
  <1>7. Sound([u EXCEPT !.ring = recall.ring, !.dismissed = TRUE, !.composer = d], p)
    BY <1>3, <1>5 DEF Sound, ScreenFields
  <1> QED BY <1>4, <1>6, <1>7

LEMMA EscSound ==
  ASSUME NEW u, NEW p, Sound(u, p)
  PROVE  Sound(HandleEsc(u), p)
  <1>1. <<>> \in Text /\ 0 \in Int
    BY Empty
  <1>2. Sound([ClearComposer(u) EXCEPT !.armed = "none"], p)
    BY <1>1, EnqueuedSound, NewElse, Zenon
  <1>3. Sound([u EXCEPT !.armed = "clearInput", !.armedText = u.composer.text, !.unannounced = FALSE], p)
    BY NewArmed
  <1> QED BY <1>2, <1>3 DEF HandleEsc

LEMMA DispatchSound ==
  ASSUME NEW u, NEW p, Sound(u, p), NEW key
  PROVE  Sound(Dispatch(u, key), p)
  <1>1. Caret(u.composer)
    BY DEF Sound
  <1>2. /\ Sound([u EXCEPT !.composer = MoveCursor(@, -1)], p)
        /\ Sound([u EXCEPT !.composer = MoveCursor(@, 1)], p)
    <2>1. -1 \in Int /\ 1 \in Int
      BY Empty
    <2>2. Caret(MoveCursor(u.composer, -1)) /\ Caret(MoveCursor(u.composer, 1))
      BY <1>1, <2>1, SteppedCaret, Zenon
    <2> QED BY <2>2, NewComposer
  <1>3. Sound(PasteFromClipboard(u), p) /\ Sound(CopyLastResponse(u), p)
    BY NewElse, Zenon DEF PasteFromClipboard, CopyLastResponse
  <1>4. Sound(HandleSubmit(u), p)
    <2> DEFINE text == Trim(u.composer.text)
               slashed == Head(text \o <<Space>>) = Slash
               entries == IF slashed THEN ExactCommandMatch(text) ELSE <<>>
    <2>1. HandleSubmit(u) = Submit(u, entries)
      BY DEF HandleSubmit
    <2>2. entries \in Seq(MenuEntry)
      <3> HIDE DEF text, slashed
      <3>1. ExactCommandMatch(text) \in Seq(MenuEntry) /\ <<>> \in Seq(MenuEntry)
        BY ExactAre
      <3> QED BY <3>1
    <2> HIDE DEF entries
    <2> QED BY <2>1, <2>2, SubmittedSound
  <1>5. key \in MenuKeys => Sound(HandleMenuKey(u, key, Matches(u)), p)
    <2>1. Matches(u) \in Seq(MenuEntry)
      BY FilteredAre DEF Matches
    <2> QED BY <2>1, MenuSound
  <1>6. Sound(HandleVertical(u, -1), p) /\ Sound(HandleVertical(u, 1), p)
    <2>1. -1 \in Int /\ 1 \in Int
      BY Empty
    <2> QED BY <2>1, VerticalSound
  <1> QED BY <1>2, <1>3, <1>4, <1>5, <1>6, TextSound, EscSound DEF Dispatch

LEMMA ComposerKeySound ==
  ASSUME NEW u, NEW p, Sound(u, p), NEW key
  PROVE  Sound(ComposerKey(u, key), p)
  <1>1. Sound(Disarm(u, key), p)
    BY NewElse, Zenon DEF Disarm
  <1> QED BY <1>1, DispatchSound, Zenon DEF ComposerKey

LEMMA ScrolledSound ==
  ASSUME NEW u, NEW p, Sound(u, p), NEW step \in Int
  PROVE  Sound(ScrollBody(u, step), p)
  <1> DEFINE offset == Clamp(u.bodyOffset + step, 0, MaxBodyOffset(u))
  <1>1. offset \in Nat
    <2>1. u.bodyOffset \in Nat /\ MaxBodyOffset(u) \in Nat
      BY ViewIs, Zenon DEF Sound
    <2> QED BY <2>1
  <1>2. ScrollBody(u, step) = [u EXCEPT !.bodyOffset = offset]
    BY DEF ScrollBody
  <1> HIDE DEF offset
  <1> QED BY <1>1, <1>2, NewOffset

LEMMA OtherKeysSound ==
  ASSUME NEW u, NEW p, Sound(u, p), NEW key
  PROVE  Sound(HelpKey(u, key), p) /\ Sound(HomeKey(u, key), p) /\ Sound(ShellKey(u, key), p)
  <1>1. Sound(HelpKey(u, key), p)
    BY NewElse, Zenon DEF HelpKey, ScrollHelp
  <1>2. Sound(HomeKey(u, key), p)
    <2> DEFINE page == AtLeast(1, Layout(u).bodyRows - 2)
    <2>1. page \in Int
      BY LayoutOf
    <2>2. ScrollPage(u, 1) = ScrollBody(u, 1 * page) /\ ScrollPage(u, -1) = ScrollBody(u, (-1) * page)
      BY DEF ScrollPage
    <2> HIDE DEF page
    <2>3. 1 * page \in Int /\ (-1) * page \in Int
      BY <2>1
    <2>4. Sound(ScrollPage(u, 1), p) /\ Sound(ScrollPage(u, -1), p)
      BY <2>2, <2>3, ScrolledSound
    <2>5. Sound([u EXCEPT !.bodyOffset = 0], p)
      BY NewOffset, Zenon
    <2> QED BY <2>4, <2>5 DEF HomeKey
  <1>3. Sound(ShellKey(u, key), p)
    BY NewElse, Zenon DEF ShellKey
  <1> QED BY <1>1, <1>2, <1>3

LEMMA GlobalKeySound ==
  ASSUME NEW u, NEW p, Sound(u, p), NEW key, NEW selected
  PROVE  Sound(GlobalKey(u, key, selected), p)
  <1>1. ASSUME NEW v, Sound(v, p) PROVE Sound(CtrlC(v), p)
    <2>1. <<>> \in Text /\ 0 \in Int
      BY Empty
    <2>2. Sound([ClearComposer(v) EXCEPT !.armed = "none"], p)
      BY <1>1, <2>1, EnqueuedSound, NewElse, Zenon
    <2>3. /\ Sound([v EXCEPT !.armed = "none"], p) /\ Sound([v EXCEPT !.armed = "none", !.exited = TRUE], p)
          /\ Sound([v EXCEPT !.armed = "exit", !.armedText = v.composer.text, !.unannounced = FALSE], p)
      BY <1>1, NewArmed, NewElse, Zenon
    <2> QED BY <2>2, <2>3, Zenon DEF CtrlC
  <1>2. Sound([u EXCEPT !.selection = NoSelection], p)
    <2>1. NoSelection \in Selections
      BY Empty DEF NoSelection, Selection, Point, Selections, Place
    <2> QED BY <2>1, NewSelection
  <1>3. ASSUME NEW v, Sound(v, p)
        PROVE  /\ Sound([v EXCEPT !.clipboard = selected, !.armed = "none"], p)
               /\ Sound([v EXCEPT !.armed = "none"], p)
    BY <1>3, NewElse, Zenon
  <1>4. ASSUME NEW v, Sound(v, p)
        PROVE  Sound(CASE key = "ctrlC" /\ selected # <<>> ->
                                [v EXCEPT !.clipboard = selected, !.armed = "none"]
                           [] key = "ctrlC" /\ selected = <<>> -> CtrlC(v)
                           [] key # "ctrlC" /\ key # "esc" /\ u.armed = "exit" -> [v EXCEPT !.armed = "none"]
                           [] OTHER -> v, p)
    BY <1>1, <1>3, <1>4
  <1> QED BY <1>2, <1>4 DEF GlobalKey

-----------------------------------------------------------------------------
(* The mouse leaves the screen sound *)

\* What two clicks take are columns of the row.
LEMMA WordIs ==
  ASSUME NEW text \in Text, NEW column \in Int
  PROVE  \/ WordBounds(text, column) = <<>>
         \/ \E a, b \in Nat : WordBounds(text, column) = <<a, b>>
  <1> DEFINE n == Len(text)
             before == DisplayWidthBeforeIndex(text)
             at == {i \in DOMAIN text : before[i - 1] <= column /\ column < before[i]}
             i == Min(at)
             F == {0} \cup {j \in 1..(i - 1) : text[j] \in Blank}
             T == {n + 1} \cup {j \in (i + 1)..n : text[j] \in Blank}
  <1>1. n \in Nat /\ DOMAIN text = 1..n /\ before \in [0..n -> Nat]
    BY WidthsBefore DEF Text
  <1>2. WordBounds(text, column)
          = IF at = {} \/ text[i] \in Blank THEN <<>> ELSE <<before[Max(F)], before[Min(T) - 1]>>
    BY DEF WordBounds
  <1>3. CASE at = {}
    BY <1>2, <1>3
  <1>4. CASE at # {}
    <2>1. i \in 1..n
      <3>1. at \in SUBSET Nat /\ at \subseteq 1..n
        BY <1>1
      <3> HIDE DEF at
      <3> QED BY <1>4, <3>1, MinIs
    <2> HIDE DEF i, before, n
    <2>2. Max(F) \in 0..n
      <3>1. F \in SUBSET (0..n) /\ F # {}
        BY <1>1, <2>1
      <3> HIDE DEF F
      <3> QED BY <1>1, <3>1, MaxIs
    <2>3. Min(T) - 1 \in 0..n
      <3>1. T \in SUBSET Nat /\ n + 1 \in T /\ T \subseteq 1..(n + 1)
        BY <1>1, <2>1
      <3> HIDE DEF T
      <3>2. Min(T) \in 1..(n + 1)
        BY <3>1, MinIs
      <3> QED BY <1>1, <3>2
    <2> HIDE DEF F, T
    <2>4. before[Max(F)] \in Nat /\ before[Min(T) - 1] \in Nat
      BY <1>1, <2>2, <2>3
    <2> HIDE DEF at
    <2> QED BY <1>2, <2>4
  <1> QED BY <1>3, <1>4

LEMMA RangeIs ==
  ASSUME NEW row \in Painted, NEW index \in Int, NEW column \in Int, NEW count
  PROVE  ResolveMultiClickRange(row, index, column, count) \in Selections
  <1> DEFINE word == WordBounds(row.text, AtLeast(0, column - row.marker))
             span(from, to) == Selection(Point(index, from), Point(index, row.marker + to))
  <1>1. row.text \in Text /\ row.marker \in Nat
    BY DEF Painted
  <1>2. NoSelection \in Selections
    BY DEF NoSelection, Selection, Point, Selections, Place
  <1>3. \A from, to \in Int : span(from, to) \in Selections
    BY <1>1 DEF Selection, Point, Selections, Place
  <1>4. 0 \in Int /\ DisplayWidth(row.text) \in Int
    <2>1. Len(row.text) \in Nat /\ DisplayWidthBeforeIndex(row.text) \in [0..Len(row.text) -> Nat]
      BY <1>1, WidthsBefore DEF Text
    <2>2. Len(row.text) \in 0..Len(row.text)
      BY <2>1
    <2> QED BY <2>1, <2>2 DEF DisplayWidth
  <1>5. word # <<>> => row.marker + word[1] \in Int /\ word[2] \in Int
    <2>1. AtLeast(0, column - row.marker) \in Int
      BY <1>1
    <2>2. word = <<>> \/ \E a, b \in Nat : word = <<a, b>>
      BY <1>1, <2>1, WordIs
    <2> HIDE DEF word
    <2> QED BY <1>1, <2>2
  <1>6. \/ ResolveMultiClickRange(row, index, column, count) \in {NoSelection, span(0, DisplayWidth(row.text))}
        \/ /\ word # <<>>
           /\ ResolveMultiClickRange(row, index, column, count) = span(row.marker + word[1], word[2])
    <2> HIDE DEF word, span
    <2>1. ResolveMultiClickRange(row, index, column, count)
            = CASE row.decorative -> NoSelection
                [] ~row.decorative /\ count >= 3 ->
                     IF row.text = <<>> THEN NoSelection ELSE span(0, DisplayWidth(row.text))
                [] ~row.decorative /\ count = 2 ->
                     IF word = <<>> THEN NoSelection ELSE span(row.marker + word[1], word[2])
                [] OTHER -> NoSelection
      BY Zenon DEF ResolveMultiClickRange, word, span
    <2> QED BY <2>1
  <1> HIDE DEF word, span
  <1> QED BY <1>2, <1>3, <1>4, <1>5, <1>6

LEMMA PointIs ==
  ASSUME NEW u, NEW p, Sound(u, p), NEW view, View(view), NEW row \in Int, NEW column \in Int
  PROVE  /\ PointUnder(u, view, row, column) \in Place
         /\ view.rows # <<>> => PointUnder(u, view, row, column).row \in 0..(Len(view.rows) - 1)
  <1> DEFINE top == BodyTop(u)
             start == view.window.startIndex
             end == view.window.end
             n == Len(view.rows)
             r == Clamp(start + Clamp(row - 1 - top, 0, end - start - 1), 0, AtLeast(0, n - 1))
             c == AtLeast(0, column - 1)
  <1>1. top \in Int
    BY Measures DEF BodyTop
  <1>2. start \in Int /\ end \in Int /\ n \in Nat /\ (view.rows # <<>> => n > 0)
    BY DEF View
  <1>3. PointUnder(u, view, row, column) = Point(r, c)
    BY DEF PointUnder
  <1> HIDE DEF top, start, end, n
  <1>4. r \in 0..AtLeast(0, n - 1) /\ c \in Int
    <2> DEFINE at == start + Clamp(row - 1 - top, 0, end - start - 1)
               last == AtLeast(0, n - 1)
    <2>1. at \in Int /\ last \in Nat
      BY <1>1, <1>2
    <2>2. r = Clamp(at, 0, last)
      OBVIOUS
    <2> HIDE DEF at, last, r
    <2> QED BY <2>1, <2>2 DEF last
  <1> HIDE DEF r, c
  <1>5. n > 0 => AtLeast(0, n - 1) = n - 1
    BY <1>2
  <1>6. r \in Int
    BY <1>2, <1>4
  <1>7. Point(r, c) \in Place /\ Point(r, c).row = r
    BY <1>4, <1>6 DEF Point, Place
  <1> QED BY <1>2, <1>3, <1>4, <1>5, <1>7 DEF n

LEMMA PressedSound ==
  ASSUME NEW u, NEW p, Sound(u, p), NEW view, View(view), NEW row \in Int, NEW column \in Int, NEW soon
  PROVE  Sound(SelectionPress(u, view, row, column, soon), p)
  <1> DEFINE point == PointUnder(u, view, row, column)
             count == ClassifyClick(u.lastPress, row, column, soon)
             range == ResolveMultiClickRange(view.rows[point.row + 1], point.row, point.column, count)
             press == [row |-> row, column |-> column, count |-> count]
             v == [u EXCEPT !.lastPress = press]
  <1>1. Sound(v, p)
    BY NewElse, Zenon
  <1>2. SelectionPress(u, view, row, column, soon)
          = CASE view.rows = <<>> -> u
              [] view.rows # <<>> /\ range # NoSelection ->
                   [v EXCEPT !.selection = range, !.boundsLocked = TRUE]
              [] OTHER -> [v EXCEPT !.selection = Selection(point, point), !.boundsLocked = FALSE]
    BY DEF SelectionPress
  <1> HIDE DEF v
  <1>3. ASSUME NEW selection \in Selections, NEW locked
        PROVE  Sound([v EXCEPT !.selection = selection, !.boundsLocked = locked], p)
    BY <1>1 DEF Sound, ScreenFields
  <1>4. CASE view.rows = <<>>
    BY <1>2, <1>4, Zenon
  <1>5. CASE view.rows # <<>>
    <2>1. point \in Place /\ point.row \in 0..(Len(view.rows) - 1)
      BY <1>5, PointIs
    <2> HIDE DEF point, count
    <2>2. point.row \in Int /\ point.column \in Int /\ Selection(point, point) \in Selections
      BY <2>1 DEF Place, Selection, Selections
    <2>3. view.rows[point.row + 1] \in Painted
      <3>1. point.row + 1 \in 1..Len(view.rows) /\ view.rows \in Seq(Painted)
        BY <2>1, <2>2 DEF View
      <3> QED BY <3>1
    <2>4. range \in Selections
      BY <2>2, <2>3, RangeIs
    <2> HIDE DEF range
    <2>5. /\ Sound([v EXCEPT !.selection = range, !.boundsLocked = TRUE], p)
          /\ Sound([v EXCEPT !.selection = Selection(point, point), !.boundsLocked = FALSE], p)
      BY <1>3, <2>2, <2>4
    <2> QED BY <1>2, <1>5, <2>5, Zenon
  <1> QED BY <1>4, <1>5

LEMMA DraggedSound ==
  ASSUME NEW u, NEW p, Sound(u, p), NEW view, View(view), NEW row \in Int, NEW column \in Int, NEW released
  PROVE  Sound(SelectionDrag(u, view, row, column, released), p)
  <1> DEFINE point == PointUnder(u, view, row, column)
             anchor == IF u.selection = NoSelection THEN point ELSE u.selection.anchor
  <1>1. point \in Place
    BY PointIs
  <1>2. SelectionDrag(u, view, row, column, released)
          \in {u, [u EXCEPT !.boundsLocked = ~released], [u EXCEPT !.selection = Selection(anchor, point)]}
    BY DEF SelectionDrag
  <1> HIDE DEF point
  <1>3. Selection(anchor, point) \in Selections
    <2>1. u.selection.anchor \in Place
      BY DEF Sound, Selections
    <2> QED BY <1>1, <2>1 DEF Selection, Selections
  <1> HIDE DEF anchor
  <1>4. Sound([u EXCEPT !.selection = Selection(anchor, point)], p)
    BY <1>3, NewSelection
  <1>5. Sound([u EXCEPT !.boundsLocked = ~released], p)
    BY NewElse, Zenon
  <1> QED BY <1>2, <1>4, <1>5

\* What the composer's window is: rows of the text, as many as there are or fit.
LEMMA WindowIs ==
  ASSUME NEW c, Caret(c), NEW columns, NEW visible \in Nat \ {0}
  PROVE  LET rows   == WrapPromptText(c.text, columns)
             row    == ResolveCursorRowIndex(rows, c.cursor)
             bounds == BoundsOn(rows, c, visible)
             window == ResolveComposerWindow(c, columns, visible)
         IN  /\ rows \in Seq(RowsIn(c.text)) /\ Len(rows) \in Nat \ {0} /\ row \in 0..(Len(rows) - 1)
             /\ bounds.visibleStart \in 0..(Len(rows) - 1)
             /\ window.rows = AtMost(Len(rows), visible)
             /\ window.minOffset \in Int /\ window.maxOffset \in Int
             /\ window.cursorVisible <=> bounds.visibleStart <= row /\ row < bounds.visibleStart + visible
             /\ c.offset = 0 => window.cursorVisible
             /\ bounds.visibleStart + visible <= Len(rows) \/ bounds.visibleStart = 0
  <1> DEFINE rows   == WrapPromptText(c.text, columns)
             row    == ResolveCursorRowIndex(rows, c.cursor)
             bounds == BoundsOn(rows, c, visible)
             window == ResolveComposerWindow(c, columns, visible)
             total  == Len(rows)
  <1>1. c.text \in Text /\ c.cursor \in 0..Len(c.text) /\ c.offset \in Int
        /\ ClampToGraphemeBoundary(c.text, c.cursor) = c.cursor
    BY CaretAt DEF Caret
  <1>2. rows \in Seq(RowsIn(c.text)) /\ rows # <<>> /\ row \in 0..(total - 1)
    BY <1>1, WrappedRowsAre, CursorRowHolds
  <1>3. total \in Nat \ {0}
    BY <1>2
  <1>4. AtLeast(1, visible) = visible
    OBVIOUS
  <1>5. bounds = ResolveWindowBounds(total, visible, row, c.offset)
    BY <1>1, <1>4 DEF BoundsOn
  <1>6. window = [rows |-> AtMost(total, visible),
                  cursorVisible |-> RowVisible(row, bounds, visible),
                  canScroll |-> total > visible,
                  minOffset |-> bounds.baseStart - bounds.lastStart,
                  maxOffset |-> bounds.baseStart]
    BY <1>4 DEF ResolveComposerWindow, WindowOn
  <1> HIDE DEF rows, row, total, window, bounds
  <1>7. /\ bounds.visibleStart \in 0..(total - 1) /\ bounds.baseStart \in Int /\ bounds.lastStart \in Int
        /\ bounds.visibleStart + visible <= total \/ bounds.visibleStart = 0
    BY <1>1, <1>2, <1>3, <1>5 DEF ResolveWindowBounds
  <1>8. c.offset = 0 => bounds.visibleStart <= row /\ row < bounds.visibleStart + visible
    BY <1>2, <1>3, <1>5 DEF ResolveWindowBounds
  <1>9. window.cursorVisible <=> bounds.visibleStart <= row /\ row < bounds.visibleStart + visible
    BY <1>6 DEF RowVisible
  <1>10. window.rows = AtMost(total, visible) /\ window.minOffset \in Int /\ window.maxOffset \in Int
    BY <1>6, <1>7
  <1>11. Len(rows) = total
    BY DEF total
  <1>12. /\ rows \in Seq(RowsIn(c.text)) /\ total \in Nat \ {0} /\ row \in 0..(total - 1)
         /\ bounds.visibleStart \in 0..(total - 1)
         /\ window.rows = AtMost(total, visible)
         /\ window.minOffset \in Int /\ window.maxOffset \in Int
         /\ window.cursorVisible <=> bounds.visibleStart <= row /\ row < bounds.visibleStart + visible
         /\ c.offset = 0 => window.cursorVisible
         /\ bounds.visibleStart + visible <= total \/ bounds.visibleStart = 0
    BY <1>2, <1>3, <1>7, <1>8, <1>9, <1>10
  <1> QED BY <1>12 DEF rows, row, bounds, window, total

LEMMA ComposerScrolledSound ==
  ASSUME NEW u, NEW p, Sound(u, p), NEW up
  PROVE  Sound(ScrollComposer(u, up), p)
  <1> DEFINE window == ComposerWindow(u)
             visible == ComposerVisibleRows(u)
             step == Clamp(visible - 1, 1, WheelRows)
             to == Clamp(u.composer.offset + (IF up THEN step ELSE -step), window.minOffset, window.maxOffset)
  <1>1. visible \in Nat \ {0} /\ Caret(u.composer) /\ u.composer.offset \in Int /\ DOMAIN u = ScreenFields
    BY LayoutOf DEF Sound, Caret
  <1>2. window.minOffset \in Int /\ window.maxOffset \in Int
    BY <1>1, WindowIs DEF ComposerWindow
  <1>3. ScrollComposer(u, up) = [u EXCEPT !.composer.offset = to]
    BY DEF ScrollComposer
  <1> HIDE DEF window, visible
  <1>4. to \in Int
    BY <1>1, <1>2 DEF WheelRows
  <1> HIDE DEF to
  <1>5. Caret([u.composer EXCEPT !.offset = to])
    BY <1>1, <1>4 DEF Caret, ComposerFields
  <1>6. Sound([u EXCEPT !.composer = [u.composer EXCEPT !.offset = to]], p)
    BY <1>5, NewComposer
  <1>7. [u EXCEPT !.composer.offset = to] = [u EXCEPT !.composer = [u.composer EXCEPT !.offset = to]]
    BY Zenon
  <1> QED BY <1>3, <1>6, <1>7, Zenon

LEMMA PlacedSound ==
  ASSUME NEW u, NEW p, Sound(u, p), NEW row \in Int, NEW column \in Int
  PROVE  Sound(PositionComposerCaret(u, row, column), p)
  <1> DEFINE visible == ComposerVisibleRows(u)
             r == row - 1 - (ComposerTop(u) + 1)
             x == column - 1 - PromptPrefixColumns
             c == ResolveClickResult(u.composer, InputColumns(u), visible, r, x)
  <1>1. visible \in Int /\ Caret(u.composer) /\ u.composerRows \in Int
    BY LayoutOf DEF Sound
  <1>2. r \in Int /\ x \in Int
    BY <1>1, Measures DEF ComposerTop, PromptPrefixColumns
  <1>3. PositionComposerCaret(u, row, column) \in {u, [u EXCEPT !.composer = c]}
    BY DEF PositionComposerCaret
  <1> HIDE DEF visible, r, x
  <1>4. Caret(c)
    BY <1>1, <1>2, ClickedCaret
  <1> HIDE DEF c
  <1> QED BY <1>3, <1>4, NewComposer

LEMMA PointedSound ==
  ASSUME Sound(s, s.peeked)
  PROVE  Sound(Pointed(Spend("pointer")), s.peeked)
  <1>1. Sound(Spend("pointer"), s.peeked)
    BY SpendSound
  <1> QED BY <1>1, NewElse, Zenon DEF Pointed

-----------------------------------------------------------------------------
(* Pastes and events leave the screen sound *)

LEMMA PutSound ==
  ASSUME NEW u, NEW p, Sound(u, p), NEW text \in Text
  PROVE  Sound(Inserted(u, text), p)
  <1> DEFINE c == InsertText(u.composer, SanitizePastedText(text))
  <1>1. Caret(u.composer)
    BY DEF Sound
  <1>2. Caret(c)
    BY <1>1, PastedIsText, InsertedCaret
  <1>3. ASSUME NEW d, Caret(d), NEW x
        PROVE  Sound([u EXCEPT !.composer = d, !.unannounced = x], p)
    BY <1>3 DEF Sound, ScreenFields
  <1> DEFINE x == u.unannounced \/ (u.armed # "none" /\ c # u.composer)
  <1>4. Inserted(u, text) = [u EXCEPT !.composer = c, !.unannounced = x]
    BY DEF Inserted
  <1> HIDE DEF c, x
  <1>5. Sound([u EXCEPT !.composer = c, !.unannounced = x], p)
    BY <1>2, <1>3
  <1> QED BY <1>4, <1>5, Zenon

LEMMA FollowedSound ==
  ASSUME NEW u, NEW p, Sound(u, p), NEW queue \in Seq(Turns)
  PROVE  Sound(ApplyTranscriptEvent(u, queue), p)
  <1> DEFINE v == [u EXCEPT !.queue = queue]
             offset == ResolveFollowScrollOffset(v.bodyOffset, MaxBodyOffset(u), MaxBodyOffset(v))
  <1>1. Sound(v, p)
    BY NewQueue
  <1>2. ApplyTranscriptEvent(u, queue) = [v EXCEPT !.bodyOffset = offset]
    BY DEF ApplyTranscriptEvent
  <1> HIDE DEF v
  <1>3. v.bodyOffset \in Int /\ MaxBodyOffset(u) \in Nat /\ MaxBodyOffset(v) \in Nat
    <2>1. v.bodyOffset \in Nat
      BY <1>1 DEF Sound
    <2> QED BY <1>1, <2>1, ViewIs
  <1>4. offset \in Nat
    BY <1>3 DEF ResolveFollowScrollOffset
  <1> HIDE DEF offset
  <1> QED BY <1>1, <1>2, <1>4, NewOffset

\* What an event makes of the turns.
LEMMA QueuesAre ==
  ASSUME NEW u, NEW p, Sound(u, p), NEW i \in Unsettled(u), NEW result \in Entry
  PROVE  /\ u.queue[i] \in Turns /\ RemoveAt(u.queue, i) \in Seq(Turns)
         /\ [u.queue EXCEPT ![i].stream = @ \o Chunk] \in Seq(Turns)
         /\ [u.queue EXCEPT ![i].state = "settled"] \in Seq(Turns)
         /\ Settle(u, i, result) \in Seq(Turns)
         /\ [k \in DOMAIN u.queue |->
               IF k \in Unsettled(u)
               THEN [u.queue[k] EXCEPT !.state = IF k = i THEN "active" ELSE "queued"]
               ELSE u.queue[k]] \in Seq(Turns)
  <1> DEFINE q == u.queue
             n == Len(q)
  <1>1. q \in Seq(Turns) /\ n \in Nat /\ i \in 1..n /\ DOMAIN q = 1..n
    BY DEF Sound, Unsettled
  <1>2. \A k \in 1..n : q[k] \in Turns
    BY <1>1
  <1>3. RemoveAt(q, i) \in Seq(Turns)
    <2>1. SubSeq(q, 1, i - 1) \in Seq(Turns) /\ SubSeq(q, i + 1, n) \in Seq(Turns)
      <3>1. \A k \in 1..(i - 1) : q[k] \in Turns
        BY <1>1, <1>2
      <3>2. \A k \in (i + 1)..n : q[k] \in Turns
        BY <1>1, <1>2
      <3>3. 1 \in Int /\ i - 1 \in Int /\ i + 1 \in Int /\ n \in Int
        BY <1>1
      <3> HIDE DEF q, n
      <3> QED BY <1>1, <3>1, <3>2, <3>3, SubSeqProperties
    <2> QED BY <2>1, ConcatProperties DEF RemoveAt
  <1> HIDE DEF q
  <1>4. ASSUME NEW t \in Turns PROVE [q EXCEPT ![i] = t] \in Seq(Turns)
    BY <1>1
  <1>5. q[i] \in Turns
    BY <1>1, <1>2
  <1>6. [q EXCEPT ![i].stream = @ \o Chunk] \in Seq(Turns)
    <2> DEFINE stream == q[i].stream \o Chunk
    <2>1. stream \in Text
      <3>1. q[i].stream \in Text /\ Chunk \in Text
        BY <1>5, InputAssumption DEF Turns
      <3> QED BY <3>1, ConcatProperties DEF Text
    <2> HIDE DEF stream
    <2>2. [q[i] EXCEPT !.stream = stream] \in Turns
      BY <1>5, <2>1 DEF Turns
    <2>3. [q EXCEPT ![i].stream = @ \o Chunk] = [q EXCEPT ![i] = [q[i] EXCEPT !.stream = stream]]
      BY Zenon DEF stream
    <2> QED BY <1>4, <2>2, <2>3, Zenon
  <1>7. [q EXCEPT ![i].state = "settled"] \in Seq(Turns)
    <2>1. [q[i] EXCEPT !.state = "settled"] \in Turns
      BY <1>5 DEF Turns
    <2>2. [q EXCEPT ![i].state = "settled"] = [q EXCEPT ![i] = [q[i] EXCEPT !.state = "settled"]]
      BY Zenon
    <2> QED BY <1>4, <2>1, <2>2, Zenon
  <1>8. Settle(u, i, result) \in Seq(Turns)
    <2> DEFINE t == [q[i] EXCEPT !.state = "settled", !.stream = <<>>, !.result = result]
    <2>1. t \in Turns
      BY <1>5, Empty DEF Turns
    <2>2. Settle(u, i, result) = [q EXCEPT ![i] = t]
      <3>1. Settle(u, i, result)
              = [q EXCEPT ![i].state = "settled", ![i].stream = <<>>, ![i].result = result]
        BY DEF Settle, q
      <3>2. q[i] = [q[i] EXCEPT !.state = q[i].state] /\ i \in DOMAIN q
        BY <1>1, <1>5 DEF Turns
      <3>3. \A r : [q EXCEPT ![i] = r][i] = r
        BY <3>2
      <3> QED BY <1>1, <1>5, <3>1, <3>2, <3>3
    <2> HIDE DEF t
    <2> QED BY <1>4, <2>1, <2>2, Zenon
  <1> DEFINE all == [k \in DOMAIN q |->
               IF k \in Unsettled(u)
               THEN [q[k] EXCEPT !.state = IF k = i THEN "active" ELSE "queued"]
               ELSE q[k]]
  <1>9. all \in Seq(Turns)
    <2>1. \A k \in 1..n : all[k] \in Turns
      <3>1. \A t \in Turns : /\ [t EXCEPT !.state = "active"] \in Turns
                             /\ [t EXCEPT !.state = "queued"] \in Turns
        BY DEF Turns
      <3> QED BY <1>1, <1>2, <3>1
    <2>2. all = [k \in DOMAIN q |-> all[k]]
      OBVIOUS
    <2> HIDE DEF all
    <2> QED BY <1>1, <2>1, <2>2, EachIs DEF n
  <1> QED BY <1>3, <1>5, <1>6, <1>7, <1>8, <1>9 DEF q

LEMMA HydratedAre ==
  ASSUME NEW turns \in Transcripts
  PROVE  HydrateResumeTranscript(turns) \in Seq(Turns)
  <1> DEFINE q == HydrateResumeTranscript(turns)
             R == [text: Text, result: [kind: STRING, text: Text]]
  <1>1. turns \in Seq(R)
    BY InputAssumption
  <1> HIDE DEF R
  <1>2. Len(turns) \in Nat /\ DOMAIN turns = 1..Len(turns) /\ \A i \in 1..Len(turns) : turns[i] \in R
    BY <1>1
  <1>3. \A r \in R : r.text \in Text /\ r.result \in Entry
    BY DEF R, Entry, Kind
  <1>4. q = [i \in DOMAIN turns |-> [state |-> "settled", text |-> turns[i].text, result |-> turns[i].result,
                                     stream |-> <<>>, sequence |-> i - 1 - Len(turns)]]
    BY DEF HydrateResumeTranscript
  <1> HIDE DEF q
  <1>5. \A i \in 1..Len(turns) : q[i] \in Turns
    <2> TAKE i \in 1..Len(turns)
    <2>1. i - 1 - Len(turns) \in Int
      BY <1>2
    <2>2. turns[i].text \in Text /\ turns[i].result \in Entry
      BY <1>2, <1>3
    <2>3. \A text \in Text, result \in Entry, n \in Int :
            [state |-> "settled", text |-> text, result |-> result, stream |-> <<>>, sequence |-> n] \in Turns
      BY Empty DEF Turns
    <2> QED BY <1>2, <1>4, <2>1, <2>2, <2>3
  <1>6. q = [i \in DOMAIN turns |-> q[i]]
    BY <1>4
  <1> QED BY <1>1, <1>5, <1>6, EachIs DEF q

-----------------------------------------------------------------------------
(* A repaint *)

\* What the composer's window depends on.
LEMMA SameWindow ==
  ASSUME NEW u, NEW v,
         \A f \in ScreenFields \ {"composerRows", "peeked"} : v[f] = u[f]
  PROVE  /\ ComposerMounted(v) = ComposerMounted(u) /\ InputColumns(v) = InputColumns(u)
         /\ SafeColumns(v) = SafeColumns(u) /\ Rows(v) = Rows(u)
         /\ ComposerVisibleRows(v) = ComposerVisibleRows(u) /\ ComposerWindow(v) = ComposerWindow(u)
  <1>1. /\ v.term = u.term /\ v.exited = u.exited /\ v.surface = u.surface /\ v.popup = u.popup
        /\ v.composer = u.composer /\ v.locked = u.locked /\ v.dismissed = u.dismissed
        /\ v.queue = u.queue /\ v.notices = u.notices
    BY Zenon DEF ScreenFields
  <1>2. InputColumns(v) = InputColumns(u) /\ SafeColumns(v) = SafeColumns(u) /\ Rows(v) = Rows(u)
    BY <1>1, Zenon DEF InputColumns, SafeColumns, Rows
  <1>3. Docked(v) = Docked(u) /\ MenuOpen(v) = MenuOpen(u) /\ HeaderOf(v) = HeaderOf(u)
    BY <1>1, Zenon DEF Docked, MenuOpen, HeaderOf
  <1>4. CwdRows(v) = CwdRows(u) /\ DockedRowsOf(v) = DockedRowsOf(u)
    BY <1>2, <1>3, Zenon DEF CwdRows, DockedRowsOf
  <1>5. ComposerVisibleRows(v) = ComposerVisibleRows(u)
    BY <1>2, <1>3, <1>4 DEF ComposerVisibleRows, LayoutFor, ResolveHomeScreenLayout
  <1>6. ComposerMounted(v) = ComposerMounted(u)
    BY <1>1, <1>3, Zenon DEF ComposerMounted, HomeMounted, TooSmall
  <1>7. ComposerWindow(v) = ComposerWindow(u)
    BY <1>1, <1>2, <1>5, Zenon DEF ComposerWindow
  <1> QED BY <1>2, <1>5, <1>6, <1>7
LEMMA WithOffset ==
  ASSUME NEW u, NEW p, Sound(u, p), NEW offset \in Int
  PROVE  LET v == [u EXCEPT !.composer.offset = offset]
         IN  /\ Sound(v, p)
             /\ \A f \in ScreenFields \ {"composer"} : v[f] = u[f]
             /\ v.composer = [u.composer EXCEPT !.offset = offset]
             /\ v.composer.text = u.composer.text /\ v.composer.cursor = u.composer.cursor
             /\ v.composer.offset = offset
  <1> DEFINE c == [u.composer EXCEPT !.offset = offset]
             v == [u EXCEPT !.composer = c]
  <1>1. Caret(u.composer) /\ DOMAIN u = ScreenFields
    BY DEF Sound
  <1>2. Caret(c) /\ c.text = u.composer.text /\ c.cursor = u.composer.cursor /\ c.offset = offset
    BY <1>1 DEF Caret, ComposerFields
  <1>3. [u EXCEPT !.composer.offset = offset] = v
    BY Zenon
  <1>4. v.composer = c
    BY <1>1 DEF ScreenFields
  <1>5. Sound(v, p)
    BY <1>2, NewComposer
  <1>6. \A f \in ScreenFields \ {"composer"} : v[f] = u[f]
    BY <1>1
  <1>7. /\ v.composer.text = u.composer.text /\ v.composer.cursor = u.composer.cursor
        /\ v.composer.offset = offset
    BY <1>2, <1>4
  <1> HIDE DEF v
  <1> QED BY <1>3, <1>4, <1>5, <1>6, <1>7, Zenon DEF c

\* A restored draft is used up.
LEMMA RestoredSound ==
  ASSUME NEW u, NEW p, Sound(u, p)
  PROVE  /\ Sound(RestoreDraft(u), p) /\ RestoreDraft(u).restore = <<>>
         /\ ComposerMounted(RestoreDraft(u)) = ComposerMounted(u)
  <1> DEFINE c == WithText(u.restore, FALSE)
             x == u.unannounced \/ u.armed # "none"
             v == [u EXCEPT !.composer = c, !.restore = <<>>, !.unannounced = x]
  <1>1. DOMAIN u = ScreenFields /\ u.restore \in Text /\ Caret(c) /\ <<>> \in Text
    <2>1. DOMAIN u = ScreenFields /\ u.restore \in Text
      BY DEF Sound
    <2> QED BY <2>1, Empty, NewText
  <1>2. RestoreDraft(u) = IF u.restore = <<>> THEN u ELSE v
    BY DEF RestoreDraft
  <1> HIDE DEF c, x
  <1>3. Sound(v, p)
    BY <1>1 DEF Sound, ScreenFields
  <1>4. /\ v.restore = <<>> /\ v.term = u.term /\ v.exited = u.exited /\ v.surface = u.surface
        /\ v.popup = u.popup
    BY <1>1 DEF ScreenFields
  <1> HIDE DEF v
  <1>5. ComposerMounted(v) = ComposerMounted(u)
    BY <1>4 DEF ComposerMounted, HomeMounted, TooSmall, Docked
  <1> QED BY <1>2, <1>3, <1>4, <1>5

\* The composer's effects leave its row count right and, once the caret has moved, the
\* caret in view.
LEMMA EffectsSound ==
  ASSUME Sound(s, s.peeked), Mounted(s), NEW u, Sound(u, s.peeked), u.restore = <<>>,
         ComposerMounted(u), NEW v, v = ComposerEffects(s, u)
  PROVE  Sound(v, v.peeked) /\ Mounted(v)
  <1> DEFINE offset == ScrollIntoView(s, u)
             w == [u EXCEPT !.composer.offset = offset]
             window == ComposerWindow(w)
             rows == CountVisibleComposerRows(window.rows, w.composer.error)
             peeked == ~CaretMoved(s, w) /\ (w.peeked \/ WindowChanged(s, w))
             wrapped == WrapPromptText(u.composer.text, InputColumns(u))
             visible == ComposerVisibleRows(u)
  <1>1. Caret(u.composer) /\ visible \in Nat \ {0} /\ u.composer.offset \in Int
    BY LayoutOf DEF Sound, Caret
  <1>2. wrapped \in Seq(RowsIn(u.composer.text)) /\ wrapped # <<>>
    <2>1. u.composer.text \in Text
      BY <1>1 DEF Caret
    <2> QED BY <2>1, WrappedRowsAre
  <1>3. offset = IF CaretMoved(s, u) THEN PinOn(wrapped, u.composer, visible) ELSE u.composer.offset
    BY DEF ScrollIntoView, ResolveScrollIntoViewOffset
  <1>4. v = [w EXCEPT !.peeked = peeked, !.composerRows = rows]
    BY DEF ComposerEffects, ReportRows
  <1> HIDE DEF offset, wrapped, visible
  <1>5. offset \in Int
    <2>1. PinOn(wrapped, u.composer, visible) \in Int
      <3> DEFINE total == Len(wrapped)
                 row == ResolveCursorRowIndex(wrapped, u.composer.cursor)
      <3>1. total \in Nat /\ row \in 0..(total - 1)
        <4>1. u.composer.text \in Text /\ u.composer.cursor \in 0..Len(u.composer.text)
          BY <1>1 DEF Caret
        <4> QED BY <1>2, <4>1, CursorRowHolds DEF wrapped
      <3>2. AtLeast(1, visible) = visible
        BY <1>1
      <3>3. PinOn(wrapped, u.composer, visible) = PinToEdge(total, visible, row, u.composer.offset)
        BY <3>2 DEF PinOn
      <3> HIDE DEF total, row
      <3> QED BY <1>1, <3>1, <3>3, PinnedStart
    <2> QED BY <1>1, <1>3, <2>1
  <1> DEFINE same == ScreenFields \ {"composer"}
  <1>6. /\ Sound(w, s.peeked) /\ \A f \in same : w[f] = u[f]
        /\ w.composer = [u.composer EXCEPT !.offset = offset]
        /\ w.composer.text = u.composer.text /\ w.composer.cursor = u.composer.cursor
        /\ w.composer.offset = offset
    BY <1>5, WithOffset
  <1> HIDE DEF w, window, rows, peeked, same
  <1>7. /\ w.term = u.term /\ w.exited = u.exited /\ w.surface = u.surface /\ w.popup = u.popup
        /\ w.restore = u.restore /\ w.locked = u.locked /\ w.dismissed = u.dismissed
        /\ w.queue = u.queue /\ w.notices = u.notices /\ w.peeked = s.peeked /\ DOMAIN w = ScreenFields
    <2>1. \A f \in {"term", "exited", "surface", "popup", "restore", "locked", "dismissed", "queue",
                    "notices"} : w[f] = u[f]
      BY <1>6 DEF same, ScreenFields
    <2>2. w.peeked = s.peeked /\ DOMAIN w = ScreenFields
      BY <1>6 DEF Sound
    <2> QED BY <2>1, <2>2
  <1>8. /\ ComposerMounted(w) /\ InputColumns(w) = InputColumns(u)
        /\ ComposerVisibleRows(w) = visible /\ CaretMoved(s, w) = CaretMoved(s, u)
    <2>1. ComposerMounted(w)
      BY <1>7 DEF ComposerMounted, HomeMounted, TooSmall, Docked
    <2>2. InputColumns(w) = InputColumns(u) /\ SafeColumns(w) = SafeColumns(u) /\ Rows(w) = Rows(u)
      BY <1>7 DEF InputColumns, SafeColumns, Rows
    <2>3. Docked(w) = Docked(u) /\ MenuOpen(w) = MenuOpen(u) /\ HeaderOf(w) = HeaderOf(u)
      BY <1>6, <1>7, Zenon DEF Docked, MenuOpen, HeaderOf
    <2>4. CwdRows(w) = CwdRows(u) /\ DockedRowsOf(w) = DockedRowsOf(u)
      BY <2>2, <2>3, Zenon DEF CwdRows, DockedRowsOf
    <2>5. ComposerVisibleRows(w) = visible
      BY <2>2, <2>3, <2>4 DEF ComposerVisibleRows, LayoutFor, ResolveHomeScreenLayout, visible
    <2>6. CaretMoved(s, w) = CaretMoved(s, u)
      BY <1>6, Zenon DEF CaretMoved
    <2> QED BY <2>1, <2>2, <2>5, <2>6
  <1>9. window = WindowOn(wrapped, w.composer, visible)
    BY <1>6, <1>8 DEF window, ComposerWindow, ResolveComposerWindow, wrapped
  <1>10. rows \in Int
    <2>1. Caret(w.composer)
      BY <1>6 DEF Sound
    <2>2. window.rows \in Int
      <3>1. window = ResolveComposerWindow(w.composer, InputColumns(w), visible)
        BY <1>8 DEF window, ComposerWindow
      <3>2. \A total \in Nat : AtMost(total, visible) \in Int
        BY <1>1
      <3> QED BY <1>1, <2>1, <3>1, <3>2, WindowIs
    <2> QED BY <2>2 DEF rows, CountVisibleComposerRows, PaddingRows
  <1>11. Sound(v, peeked) /\ v.peeked = peeked
    <2>1. DOMAIN w = ScreenFields
      BY <1>7
    <2> QED BY <1>4, <1>6, <1>10, <2>1, Zenon DEF Sound, ScreenFields
  <1>12. \A f \in ScreenFields \ {"composerRows", "peeked"} : v[f] = w[f]
    BY <1>4, <1>7
  <1>13. /\ ComposerMounted(v) = ComposerMounted(w) /\ ComposerWindow(v) = window
         /\ v.composer = w.composer /\ v.restore = <<>> /\ v.composerRows = rows
    <2>1. ComposerMounted(v) = ComposerMounted(w) /\ ComposerWindow(v) = window
      BY <1>12, SameWindow DEF window
    <2>2. v.composer = w.composer /\ v.restore = <<>> /\ v.composerRows = rows
      BY <1>4, <1>7 DEF ScreenFields
    <2> QED BY <2>1, <2>2
  <1>14. ASSUME ~peeked PROVE window.cursorVisible
    <2>1. CASE CaretMoved(s, u)
      <3>1. offset = PinOn(wrapped, u.composer, visible)
        BY <1>3, <2>1
      <3>2. ClampToGraphemeBoundary(u.composer.text, u.composer.cursor) = u.composer.cursor
        BY <1>1, CaretAt
      <3>3. wrapped \in Seq([start : Nat, end : Nat])
        <4> DEFINE R == RowsIn(u.composer.text)
                   S == [start : Nat, end : Nat]
        <4>1. R \subseteq S /\ wrapped \in Seq(R)
          BY <1>2 DEF RowsIn
        <4> HIDE DEF R, S
        <4>2. wrapped \in Seq(S)
          BY <4>1
        <4> QED BY <4>2 DEF S
      <3>4. visible \in Int
        BY <1>1
      <3>5. w.composer.offset = PinOn(wrapped, u.composer, visible)
        BY <1>6, <3>1
      <3> QED BY <1>1, <1>2, <1>6, <1>9, <3>2, <3>3, <3>4, <3>5, ScrolledIntoView
    <2>2. CASE ~CaretMoved(s, u)
      <3>1. /\ ComposerMounted(s) /\ s.composer.text = w.composer.text
            /\ s.composer.cursor = w.composer.cursor
        BY <1>6, <2>2 DEF CaretMoved
      <3>2. ~s.peeked /\ ~WindowChanged(s, w)
        BY <1>7, <1>8, <1>14, <2>2 DEF peeked
      <3>3. /\ s.composer.offset = w.composer.offset /\ InputColumns(s) = InputColumns(w)
            /\ ComposerVisibleRows(s) = ComposerVisibleRows(w)
        BY <3>2, Zenon DEF WindowChanged
      <3>4. ComposerWindow(s).cursorVisible
        BY <3>1, <3>2 DEF Mounted
      <3>5. ComposerWindow(s) = window
        BY <3>1, <3>3 DEF ComposerWindow, window, ResolveComposerWindow, WindowOn, BoundsOn
      <3> QED BY <3>4, <3>5
    <2> QED BY <2>1, <2>2
  <1>15. Mounted(v)
    <2>1. ~v.peeked => ComposerWindow(v).cursorVisible
      BY <1>11, <1>13, <1>14
    <2>2. v.composerRows = CountVisibleComposerRows(ComposerWindow(v).rows, v.composer.error)
      BY <1>13 DEF rows
    <2> QED BY <1>13, <2>1, <2>2 DEF Mounted
  <1> QED BY <1>11, <1>15

LEMMA CommitMounted ==
  ASSUME Sound(s, s.peeked), Mounted(s), NEW u, Sound(u, s.peeked), Commit(u)
  PROVE  Sound(s', s'.peeked) /\ Mounted(s')
  <1>1. s' = Repaint(s, u)
    BY DEF Commit
  <1>2. CASE ComposerMounted(u)
    <2>1. s' = ComposerEffects(s, RestoreDraft(u))
      BY <1>1, <1>2 DEF Repaint
    <2>2. /\ Sound(RestoreDraft(u), s.peeked) /\ RestoreDraft(u).restore = <<>>
          /\ ComposerMounted(RestoreDraft(u))
      BY <1>2, RestoredSound
    <2> QED BY <2>1, <2>2, EffectsSound
  <1>3. CASE ~ComposerMounted(u)
    <2>1. s' \in {u, LeaveHome(u)}
      BY <1>1, <1>3 DEF Repaint
    <2>2. Sound(LeaveHome(u), s.peeked) /\ LeaveHome(u).peeked = u.peeked
          /\ ComposerMounted(LeaveHome(u)) = ComposerMounted(u)
      <3> DEFINE v == [u EXCEPT !.region = "none", !.lastPress = NoPress, !.boundsLocked = FALSE]
      <3>1. LeaveHome(u) = v
        BY DEF LeaveHome
      <3>2. DOMAIN u = ScreenFields
        BY DEF Sound
      <3>3. /\ Sound(v, s.peeked) /\ v.peeked = u.peeked /\ v.term = u.term /\ v.exited = u.exited
            /\ v.surface = u.surface /\ v.popup = u.popup
        BY <3>2 DEF Sound, ScreenFields
      <3> HIDE DEF v
      <3>4. ComposerMounted(v) = ComposerMounted(u)
        BY <3>3 DEF ComposerMounted, HomeMounted, TooSmall, Docked
      <3> QED BY <3>1, <3>3, <3>4
    <2>3. u.peeked = s.peeked
      BY DEF Sound
    <2>4. Sound(s', s.peeked) /\ s'.peeked = s.peeked /\ ~ComposerMounted(s')
      BY <1>3, <2>1, <2>2, <2>3
    <2> QED BY <2>4 DEF Mounted
  <1> QED BY <1>2, <1>3

-----------------------------------------------------------------------------
(* The actions keep the screen sound *)

Kept == Sound(s, s.peeked) /\ Mounted(s)

LEMMA CommitKept ==
  ASSUME Kept, NEW u, Sound(u, s.peeked), Commit(u)
  PROVE  Kept'
  <1>1. Sound(s, s.peeked) /\ Mounted(s)
    BY DEF Kept
  <1>2. Sound(s', s'.peeked) /\ Mounted(s')
    BY <1>1, CommitMounted
  <1> QED BY <1>2 DEF Kept

LEMMA KeyPressKept ==
  ASSUME Kept, NEW key, KeyPress(key)
  PROVE  Kept'
  <1> DEFINE u == HelpKey(ComposerKey(Spend("keys"), key), key)
             v == ShellKey(HomeKey(u, key), key)
             w == GlobalKey(v, key, CopySelection(s))
  <1>1. Sound(u, s.peeked)
    BY SpendSound, ComposerKeySound, OtherKeysSound DEF Kept
  <1>2. Commit(w)
    BY DEF KeyPress
  <1> HIDE DEF u
  <1>3. Sound(v, s.peeked)
    BY <1>1, OtherKeysSound
  <1> HIDE DEF v
  <1>4. Sound(w, s.peeked)
    BY <1>3, GlobalKeySound
  <1> HIDE DEF w
  <1> QED BY <1>2, <1>4, CommitKept

LEMMA LeftPressKept ==
  ASSUME Kept, NEW row \in Int, NEW column \in Int, NEW soon, LeftPress(row, column, soon)
  PROVE  Kept'
  <1> DEFINE u == Pointed(Spend("pointer"))
             v == [u EXCEPT !.region = GestureRegion(s, row)]
             w == CASE v.region = "body" -> SelectionPress(v, BodyView(v), row, column, soon)
                    [] v.region = "composer" -> PositionComposerCaret(v, row, column)
                    [] OTHER -> v
  <1>1. Sound(u, s.peeked)
    BY PointedSound DEF Kept
  <1>2. Commit(w)
    BY DEF LeftPress
  <1> HIDE DEF u
  <1>3. Sound(v, s.peeked)
    BY <1>1, NewElse, Zenon
  <1> HIDE DEF v
  <1>4. View(BodyView(v))
    BY <1>3, ViewIs
  <1>5. /\ Sound(SelectionPress(v, BodyView(v), row, column, soon), s.peeked)
        /\ Sound(PositionComposerCaret(v, row, column), s.peeked)
    BY <1>3, <1>4, PressedSound, PlacedSound
  <1>6. Sound(w, s.peeked)
    BY <1>3, <1>5
  <1> HIDE DEF w
  <1> QED BY <1>2, <1>6, CommitKept

LEMMA LeftDragKept ==
  ASSUME Kept, NEW row \in Int, NEW column \in Int, NEW released, LeftDrag(row, column, released)
  PROVE  Kept'
  <1> DEFINE u == Pointed(Spend("pointer"))
             v == IF u.region = "body"
                  THEN SelectionDrag(u, BodyView(u), row, column, released) ELSE u
             w == IF released THEN [v EXCEPT !.region = "none"] ELSE v
  <1>1. Commit(w)
    BY DEF LeftDrag
  <1>2. Sound(u, s.peeked)
    BY PointedSound DEF Kept
  <1> HIDE DEF u
  <1>3. View(BodyView(u))
    BY <1>2, ViewIs
  <1>4. Sound(v, s.peeked)
    BY <1>2, <1>3, DraggedSound
  <1> HIDE DEF v
  <1>5. Sound(w, s.peeked)
    BY <1>4, NewElse, Zenon
  <1> HIDE DEF w
  <1> QED BY <1>1, <1>5, CommitKept

LEMMA WheelKept ==
  ASSUME Kept, NEW row, NEW column, NEW up, Wheel(row, column, up)
  PROVE  Kept'
  <1> DEFINE u == Pointed(Spend("pointer"))
             target == WheelTarget(u, row, column)
             w == CASE target = "composer" -> ScrollComposer(u, up)
                    [] target = "body" -> ScrollBody(u, IF up THEN WheelRows ELSE -WheelRows)
                    [] OTHER -> u
  <1>1. Commit(w)
    BY DEF Wheel
  <1>2. Sound(u, s.peeked)
    BY PointedSound DEF Kept
  <1> HIDE DEF u, target
  <1>3. Sound(ScrollComposer(u, up), s.peeked)
    BY <1>2, ComposerScrolledSound
  <1>4. Sound(ScrollBody(u, IF up THEN WheelRows ELSE -WheelRows), s.peeked)
    <2>1. (IF up THEN WheelRows ELSE -WheelRows) \in Int
      BY DEF WheelRows
    <2> QED BY <1>2, <2>1, ScrolledSound
  <1>5. Sound(w, s.peeked)
    BY <1>2, <1>3, <1>4
  <1> HIDE DEF w
  <1> QED BY <1>1, <1>5, CommitKept

LEMMA RightClickKept ==
  ASSUME Kept, RightClick
  PROVE  Kept'
  <1> DEFINE p == Pointed(Spend("pointer"))
             v == [p EXCEPT !.suppress = TRUE]
             u == [v EXCEPT !.selection = NoSelection]
             w == RightClicked(u, CopySelection(s))
  <1>1. Sound(p, s.peeked)
    BY PointedSound DEF Kept
  <1>2. Commit(w)
    BY DEF RightClick
  <1> HIDE DEF p
  <1>3. Sound(v, s.peeked)
    BY <1>1, NewElse, Zenon
  <1> HIDE DEF v
  <1>4. Sound(u, s.peeked)
    <2>1. NoSelection \in Selections
      BY DEF NoSelection, Selection, Point, Selections, Place
    <2> QED BY <1>3, <2>1, NewSelection
  <1> HIDE DEF u
  <1>5. Sound(w, s.peeked)
    BY <1>4, NewElse, Zenon DEF RightClicked, PasteFromClipboard
  <1> HIDE DEF w
  <1> QED BY <1>2, <1>5, CommitKept

LEMMA PasteKept ==
  ASSUME Kept, NEW text \in Pastes,
         ClipboardFails \/ ClipboardRead(text) \/ \E soon \in BOOLEAN : PasteArrives(text, soon)
  PROVE  Kept'
  <1> DEFINE read == [s EXCEPT !.reading = FALSE]
             u == [Spend("events") EXCEPT !.suppress = FALSE]
  <1>1. Sound(read, s.peeked) /\ Sound(u, s.peeked)
    <2>1. Sound(s, s.peeked) /\ Sound(Spend("events"), s.peeked)
      BY SpendSound DEF Kept
    <2> QED BY <2>1, NewElse, Zenon
  <1>2. /\ ClipboardFails => Commit(read)
        /\ ClipboardRead(text) => Commit(Inserted(read, text))
        /\ (\E soon \in BOOLEAN : PasteArrives(text, soon)) => Commit(u) \/ Commit(Inserted(u, text))
    BY DEF ClipboardFails, ClipboardRead, PasteArrives
  <1> HIDE DEF read, u
  <1>3. text \in Text
    BY InputAssumption
  <1>4. Sound(Inserted(read, text), s.peeked) /\ Sound(Inserted(u, text), s.peeked)
    BY <1>1, <1>3, PutSound
  <1> QED BY <1>1, <1>2, <1>4, CommitKept

LEMMA EventKept ==
  ASSUME Kept, NEW i, TranscriptEvent(i) \/ SubmitFails(i) \/ DiscardLocalSubmit(i)
  PROVE  Kept'
  <1> DEFINE u == Spend("events")
  <1>1. Sound(u, s.peeked) /\ Sound(s, s.peeked)
    BY SpendSound DEF Kept
  <1>2. u.queue = s.queue /\ u.notices = s.notices
    <2>1. DOMAIN s = ScreenFields
      BY <1>1 DEF Sound
    <2> QED BY <2>1 DEF Spend, ScreenFields
  <1>3. i \in Unsettled(s)
    BY DEF TranscriptEvent, SubmitFails, DiscardLocalSubmit, ActivateTurn, AppendDelta, SettleTurn,
           SettleUnauthorised, RemoveTurn
  <1> DEFINE active == [k \in DOMAIN s.queue |->
               IF k \in Unsettled(s)
               THEN [s.queue[k] EXCEPT !.state = IF k = i THEN "active" ELSE "queued"]
               ELSE s.queue[k]]
             longer == [s.queue EXCEPT ![i].stream = @ \o Chunk]
             removed == RemoveAt(s.queue, i)
             settled == [s.queue EXCEPT ![i].state = "settled"]
             refused == Settle(s, i, Result("error", <<"E">>))
  <1>4. \A result \in Entry : Settle(s, i, result) \in Seq(Turns)
    BY <1>1, <1>3, QueuesAre
  <1>5. <<"E">> \in Text
    BY ChromeAssumption DEF Text
  <1>6. /\ Result("assistant", Answer) \in Entry /\ Result("muted", <<"E">>) \in Entry
        /\ Result("error", <<"E">>) \in Entry
    BY <1>5, InputAssumption DEF Result, Entry, Kind
  <1>7. /\ active \in Seq(Turns) /\ longer \in Seq(Turns) /\ removed \in Seq(Turns)
        /\ settled \in Seq(Turns) /\ s.queue[i] \in Turns
    BY <1>1, <1>3, <1>6, QueuesAre
  <1>8. refused \in Seq(Turns)
    BY <1>4, <1>6
  <1>9. \A queue \in Seq(Turns) : Sound(ApplyTranscriptEvent(u, queue), s.peeked)
    BY <1>1, FollowedSound
  <1>10. TranscriptEvent(i) =>
           \/ \E queue \in Seq(Turns) : Commit(ApplyTranscriptEvent(u, queue))
           \/ Commit(IF s.restore = <<>>
                     THEN [ApplyTranscriptEvent(u, refused)
                             EXCEPT !.restore = s.queue[i].text, !.surface = "docked"]
                     ELSE ApplyTranscriptEvent(u, refused))
    <2>1. ActivateTurn(i) => Commit(ApplyTranscriptEvent(u, active))
      BY DEF ActivateTurn
    <2>2. AppendDelta(i) => Commit(ApplyTranscriptEvent(u, longer))
      BY DEF AppendDelta
    <2>3. RemoveTurn(i) => Commit(ApplyTranscriptEvent(u, removed))
      BY DEF RemoveTurn
    <2>4. \A result : SettleTurn(i, result) => Commit(ApplyTranscriptEvent(u, Settle(s, i, result)))
      BY DEF SettleTurn
    <2>5. SettleUnauthorised(i) =>
            Commit(IF s.restore = <<>>
                   THEN [ApplyTranscriptEvent(u, refused)
                           EXCEPT !.restore = s.queue[i].text, !.surface = "docked"]
                   ELSE ApplyTranscriptEvent(u, refused))
      BY DEF SettleUnauthorised
    <2> HIDE DEF active, longer, removed, refused, u
    <2> QED BY <1>4, <1>6, <1>7, <2>1, <2>2, <2>3, <2>4, <2>5 DEF TranscriptEvent
  <1>11. CASE TranscriptEvent(i)
    <2> DEFINE v == ApplyTranscriptEvent(u, refused)
               text == s.queue[i].text
    <2>1. text \in Text
      BY <1>7 DEF Turns
    <2>2. Sound(v, s.peeked)
      BY <1>8, <1>9
    <2>3. (\E queue \in Seq(Turns) : Commit(ApplyTranscriptEvent(u, queue)))
           \/ Commit([v EXCEPT !.restore = text, !.surface = "docked"]) \/ Commit(v)
      BY <1>10, <1>11
    <2> HIDE DEF v, text
    <2>4. Sound([v EXCEPT !.restore = text, !.surface = "docked"], s.peeked)
      BY <2>1, <2>2 DEF Sound, ScreenFields
    <2> QED BY <1>9, <2>2, <2>3, <2>4, CommitKept
  <1>12. CASE SubmitFails(i)
    <2> DEFINE notices == Append(s.notices, [sequence |-> s.queue[i].sequence, text |-> <<"E">>])
               v == [u EXCEPT !.notices = notices, !.queue = settled]
    <2>1. Commit(v)
      <3>1. [u EXCEPT !.notices = Append(@, [sequence |-> s.queue[i].sequence, text |-> <<"E">>]),
                      !.queue[i].state = "settled"] = v
        <4> DEFINE w == [u EXCEPT !.notices = notices]
        <4>1. [u EXCEPT !.notices = Append(@, [sequence |-> s.queue[i].sequence, text |-> <<"E">>]),
                      !.queue[i].state = "settled"] = [w EXCEPT !.queue[i].state = "settled"]
          BY <1>2
        <4>2. w.queue = s.queue
          <5>1. DOMAIN u = ScreenFields
            BY <1>1 DEF Sound
          <5> QED BY <1>2, <5>1 DEF ScreenFields
        <4>3. [w EXCEPT !.queue[i].state = "settled"]
                = [w EXCEPT !.queue = [w.queue EXCEPT ![i].state = "settled"]]
          BY Zenon
        <4> QED BY <4>1, <4>2, <4>3
      <3> QED BY <1>12, <3>1 DEF SubmitFails
    <2>2. notices \in Seq(Notices)
      <3>1. s.notices \in Seq(Notices) /\ s.queue[i].sequence \in Int
        BY <1>1, <1>7 DEF Sound, Turns
      <3>2. [sequence |-> s.queue[i].sequence, text |-> <<"E">>] \in Notices
        BY <1>5, <3>1 DEF Notices
      <3> QED BY <3>1, <3>2
    <2> HIDE DEF notices, settled, u
    <2>3. Sound(v, s.peeked)
      BY <1>1, <1>7, <2>2 DEF Sound, ScreenFields
    <2> HIDE DEF v
    <2> QED BY <2>1, <2>3, CommitKept
  <1>13. CASE DiscardLocalSubmit(i)
    <2>1. Commit([u EXCEPT !.queue = removed])
      BY <1>2, <1>13 DEF DiscardLocalSubmit
    <2> HIDE DEF u, removed
    <2>2. Sound([u EXCEPT !.queue = removed], s.peeked)
      BY <1>1, <1>7, NewQueue
    <2> QED BY <2>1, <2>2, CommitKept
  <1> QED BY <1>11, <1>12, <1>13

LEMMA ElseKept ==
  ASSUME Kept,
         \/ \E turns \in Transcripts : HydrateTranscript(turns)
         \/ AskQuestion \/ ClosePanel \/ StartupDone
         \/ \E rows \in Heights, columns \in Widths : Resize(rows, columns)
  PROVE  Kept'
  <1>1. Sound(s, s.peeked) /\ \A kind : Sound(Spend(kind), s.peeked)
    BY SpendSound DEF Kept
  <1>2. CASE \E turns \in Transcripts : HydrateTranscript(turns)
    <2>1. PICK turns \in Transcripts :
            Commit([Spend("events") EXCEPT !.queue = HydrateResumeTranscript(turns), !.notices = <<>>,
                                           !.bodyOffset = 0, !.popup = "none"])
      BY <1>2 DEF HydrateTranscript
    <2> DEFINE u == Spend("events")
               queue == HydrateResumeTranscript(turns)
               v == [u EXCEPT !.queue = queue, !.notices = <<>>, !.bodyOffset = 0, !.popup = "none"]
    <2>2. queue \in Seq(Turns) /\ <<>> \in Seq(Notices)
      BY HydratedAre
    <2>3. Sound(u, s.peeked) /\ Commit(v)
      BY <1>1, <2>1
    <2> HIDE DEF u, queue
    <2>4. Sound(v, s.peeked)
      BY <2>2, <2>3 DEF Sound, ScreenFields
    <2> HIDE DEF v
    <2> QED BY <2>3, <2>4, CommitKept
  <1>3. CASE AskQuestion \/ ClosePanel
    <2>1. /\ Sound([Spend("events") EXCEPT !.popup = "question"], s.peeked)
          /\ Sound([Spend("events") EXCEPT !.surface = "home"], s.peeked)
      BY <1>1, NewElse, Zenon
    <2> QED BY <1>3, <2>1, CommitKept DEF AskQuestion, ClosePanel
  <1>4. CASE StartupDone
    <2>1. Sound([s EXCEPT !.locked = FALSE], s.peeked)
      BY <1>1, NewElse, Zenon
    <2> QED BY <1>4, <2>1, CommitKept DEF StartupDone
  <1>5. CASE \E rows \in Heights, columns \in Widths : Resize(rows, columns)
    <2>1. PICK rows \in Heights, columns \in Widths : Resize(rows, columns)
      BY <1>5
    <2> DEFINE u == Spend("resizes")
               term == [rows |-> rows, columns |-> columns]
    <2>2. Sound(u, s.peeked) /\ Commit([u EXCEPT !.term = term])
      BY <1>1, <2>1 DEF Resize
    <2>3. term \in [rows: Nat, columns: Nat]
      BY InputAssumption
    <2> HIDE DEF u, term
    <2>4. Sound([u EXCEPT !.term = term], s.peeked)
      BY <2>2, <2>3 DEF Sound, ScreenFields
    <2> QED BY <2>2, <2>4, CommitKept
  <1> QED BY <1>2, <1>3, <1>4, <1>5

\* An empty prompt has one row.
LEMMA EmptyWrapped ==
  ASSUME NEW columns
  PROVE  Len(WrapPromptText(<<>>, columns)) = 1
  <1> DEFINE T == {i \in DOMAIN <<>> : <<>>[i] = Newline}
             q == Positions(0, T)
             line == [start |-> 0, end |-> 0]
             lines == HardLines(<<>>)
             ss == [k \in DOMAIN lines |-> AppendLineRows(<<>>, lines[k], AtLeast(1, columns))]
  <1>1. Len(<<>>) = 0
    OBVIOUS
  <1>2. q = <<>>
    <2>1. q \in Seq(1..0)
      <3>1. 0 \in Nat
        OBVIOUS
      <3> QED BY <3>1, PositionsIs
    <2> HIDE DEF q
    <2>2. Len(q) \in Nat /\ \A k \in 1..Len(q) : q[k] \in 1..0
      BY <2>1
    <2>3. 1..0 = {}
      OBVIOUS
    <2>4. Len(q) = 0
      BY <2>2, <2>3
    <2> QED BY <2>1, <2>4
  <1>3. lines = LinesBetween(<<0>> \o q \o <<0 + 1>>)
    BY <1>1 DEF HardLines
  <1> HIDE DEF q
  <1>4. <<0>> \o q \o <<0 + 1>> = <<0, 1>>
    <2>1. <<0>> \o <<>> = <<0>>
      <3>1. <<0>> \in Seq(Nat)
        OBVIOUS
      <3> QED BY <3>1, ConcatEmptySeq
    <2>2. <<0>> \o <<1>> = <<0, 1>> /\ 0 + 1 = 1
      <3>1. Append(<<0>>, 1) = <<0, 1>>
        <4> DEFINE two == Append(<<0>>, 1)
        <4>1. <<0>> \in Seq(Nat) /\ 1 \in Nat /\ Len(<<0>>) = 1 /\ <<0>>[1] = 0
          OBVIOUS
        <4>2. two \in Seq(Nat) /\ Len(two) = 2 /\ two[1] = 0 /\ two[2] = 1
          BY <4>1, AppendProperties
        <4> HIDE DEF two
        <4>3. two = <<0, 1>>
          BY <4>2
        <4> QED BY <4>3 DEF two
      <3>2. <<0>> \in Seq(Nat) /\ 1 \in Nat /\ 0 + 1 = 1
        OBVIOUS
      <3> QED BY <3>1, <3>2, AppendIsConcat
    <2>3. <<0>> \o q = <<0>>
      BY <1>2, <2>1, Zenon
    <2> QED BY <2>2, <2>3, Zenon
  <1>5. lines = <<line>>
    BY <1>3, <1>4 DEF LinesBetween
  <1> HIDE DEF lines
  <1>6. AppendLineRows(<<>>, line, AtLeast(1, columns)) = <<line>>
    <2>1. ASSUME NEW text, NEW row, NEW wide, row.start = row.end
          PROVE  AppendLineRows(text, row, wide) = <<row>>
      BY <2>1, Zenon DEF AppendLineRows
    <2>2. line.start = line.end
      OBVIOUS
    <2> HIDE DEF line
    <2> QED BY <2>1, <2>2, Zenon
  <1>7. DOMAIN lines = 1..1 /\ lines[1] = line
    BY <1>5
  <1>8. ss = [k \in 1..1 |-> ss[k]] /\ ss[1] = <<line>>
    BY <1>6, <1>7
  <1>9. WrapPromptText(<<>>, columns) = FlattenSeq(ss)
    BY DEF WrapPromptText, FlatMap, lines
  <1> HIDE DEF ss, line
  <1>10. ss \in Seq(Seq({line})) /\ Len(ss) = 1
    <2> DEFINE S == {line}
    <2>1. <<line>> \in Seq(S)
      <3>1. line \in S
        OBVIOUS
      <3> HIDE DEF S
      <3> QED BY <3>1
    <2> HIDE DEF S
    <2>2. \A k \in 1..1 : ss[k] \in Seq(S)
      BY <1>8, <2>1
    <2>3. 1 \in Nat
      OBVIOUS
    <2>4. ss \in Seq(Seq(S)) /\ Len(ss) = 1
      BY <1>8, <2>2, <2>3, SeqOfN
    <2> QED BY <2>4 DEF S
  <1>11. FlattenSeq(ss) = ss[1]
    <2>1. Len(ss) # 0
      BY <1>10
    <2>2. PICK flat \in [1..Len(ss) -> Seq({line})] : FlattenSeq(ss) = flat[Len(ss)] /\ flat[1] = ss[1]
      BY <1>10, <2>1, FlattenSteps
    <2> QED BY <1>10, <2>2
  <1> QED BY <1>8, <1>9, <1>11

LEMMA KeptStart == Init => Kept
  <1> SUFFICES ASSUME Init PROVE Kept
    OBVIOUS
  <1>1. PICK term \in Terms, turns \in Transcripts, budget \in Budgets, begun \in BOOLEAN :
          LET u == InitialScreen(term, HydrateResumeTranscript(turns), budget)
          IN  s = IF begun THEN Begun(u, Prompt) ELSE u
    BY DEF Init
  <1> DEFINE queue == HydrateResumeTranscript(turns)
             u == InitialScreen(term, queue, budget)
             v == Capture(u, Prompt)
             w == EnqueuePrompt(v, Prompt, u.sequence)
             b == Begun(u, Prompt)
  <1>2. queue \in Seq(Turns) /\ <<>> \in Seq(Notices) /\ term \in [rows: Nat, columns: Nat]
        /\ Prompt \in Text
    BY HydratedAre, InputAssumption
  <1> HIDE DEF queue
  <1>3. Caret(EmptyComposer) /\ Ring(EmptyRing) /\ <<>> \in Text /\ NoSelection \in Selections
    <2>1. <<>> \in Text
      BY Empty
    <2>2. Ring(EmptyRing)
      <3>1. Ring(EmptyRing)
        BY <2>1 DEF Ring, EmptyRing, NoRecall, Text
      <3> QED BY <3>1
    <2>3. NoSelection \in Selections
      BY DEF NoSelection, Selection, Point, Selections, Place
    <2> QED BY <2>1, <2>2, <2>3, NewText
  <1> DEFINE Fresh(x) == /\ Sound(x, FALSE) /\ x.composer = EmptyComposer /\ x.restore = <<>>
                         /\ x.composerRows = PaddingRows + 1
  <1>4. Fresh(u)
    <2>1. Caret(u.composer) /\ Ring(u.ring) /\ u.composer = EmptyComposer
      BY <1>3 DEF InitialScreen
    <2>2. DOMAIN u = ScreenFields
      BY DEF InitialScreen, ScreenFields
    <2>3. /\ u.restore = <<>> /\ u.queue = queue /\ u.notices = <<>> /\ u.sequence = 0 /\ u.term = term
          /\ u.composerRows = PaddingRows + 1 /\ u.bodyOffset = 0 /\ u.highlight = 0
          /\ u.selection = NoSelection /\ u.peeked = FALSE
      BY DEF InitialScreen
    <2> HIDE DEF u
    <2>4. Sound(u, FALSE)
      BY <1>2, <1>3, <2>1, <2>2, <2>3 DEF Sound, PaddingRows
    <2> QED BY <2>1, <2>3, <2>4
  <1>5. b = [w EXCEPT !.locked = FALSE]
    BY DEF Begun
  <1> HIDE DEF u
  <1>6. Sound(w, FALSE)
    <2>1. Sound(v, FALSE) /\ u.sequence \in Int
      BY <1>2, <1>4, CapturedSound DEF Sound
    <2> HIDE DEF v
    <2> QED BY <1>2, <2>1, EnqueuedSound
  <1>7. w.composer = EmptyComposer /\ w.restore = <<>> /\ w.composerRows = PaddingRows + 1
    <2>1. DOMAIN u = ScreenFields
      BY <1>4 DEF Sound
    <2>2. /\ v.composer = u.composer /\ v.restore = u.restore /\ v.composerRows = u.composerRows
          /\ DOMAIN v = ScreenFields
      BY <2>1 DEF Capture, ScreenFields
    <2> HIDE DEF v
    <2> QED BY <1>4, <2>2 DEF EnqueuePrompt, ScreenFields
  <1> HIDE DEF w
  <1>8. Fresh(b)
    <2>1. Sound([w EXCEPT !.locked = FALSE], FALSE)
      BY <1>6, NewElse, Zenon
    <2>2. DOMAIN w = ScreenFields
      BY <1>6 DEF Sound
    <2> QED BY <1>5, <1>7, <2>1, <2>2 DEF ScreenFields
  <1>9. Fresh(s)
    BY <1>1, <1>4, <1>8 DEF u, queue
  <1>10. Mounted(s)
    <2> DEFINE visible == ComposerVisibleRows(s)
               window == ComposerWindow(s)
    <2>1. Caret(s.composer) /\ s.composer.text = <<>> /\ s.composer.offset = 0 /\ s.composer.error = FALSE
      BY <1>3, <1>9 DEF EmptyComposer
    <2>2. visible \in Nat \ {0}
      <3>1. Sound(s, FALSE)
        BY <1>9
      <3> QED BY <3>1, LayoutOf
    <2>3. window = ResolveComposerWindow(s.composer, InputColumns(s), visible)
      BY DEF ComposerWindow
    <2>4. window.rows = AtMost(Len(WrapPromptText(<<>>, InputColumns(s))), visible) /\ window.cursorVisible
      BY <2>1, <2>2, <2>3, WindowIs
    <2> HIDE DEF visible, window
    <2>5. window.rows = 1
      BY <2>2, <2>4, EmptyWrapped
    <2>6. s.composerRows = CountVisibleComposerRows(window.rows, s.composer.error)
      BY <1>9, <2>1, <2>5 DEF CountVisibleComposerRows, PaddingRows
    <2> QED BY <1>9, <2>4, <2>6 DEF Mounted, window
  <1>11. s.peeked = FALSE
    BY <1>9 DEF Sound
  <1> QED BY <1>9, <1>10, <1>11 DEF Kept

LEMMA KeptStep == Kept /\ [Next]_s => Kept'
  <1> SUFFICES ASSUME Kept, Next PROVE Kept'
    <2>1. UNCHANGED s /\ Kept => Kept'
      BY DEF Kept
    <2> QED BY <2>1
  <1>1. PointerRows \subseteq Int /\ PointerColumns \subseteq Int
    BY InputAssumption
  <1>2. ASSUME NEW row \in PointerRows, NEW column \in PointerColumns, NEW b \in BOOLEAN,
               LeftPress(row, column, b) \/ LeftDrag(row, column, b) \/ Wheel(row, column, b)
        PROVE  Kept'
    <2>1. row \in Int /\ column \in Int
      BY <1>1
    <2> QED BY <1>2, <2>1, LeftPressKept, LeftDragKept, WheelKept
  <1>3. ASSUME ClipboardFails PROVE Kept'
    <2>1. Sound([s EXCEPT !.reading = FALSE], s.peeked)
      BY NewElse, Zenon DEF Kept
    <2> QED BY <1>3, <2>1, CommitKept DEF ClipboardFails
  <1> QED BY <1>2, <1>3, KeyPressKept, RightClickKept, PasteKept, EventKept, ElseKept DEF Next

\* Whatever reaches the home screen, its state stays what its handlers take it for: the
\* caret in its text, rows and offsets numbers, texts in the transcript and the ring; and
\* what the composer told the layout of its height is still so while it is on the screen.
\* The step is of every handler, from the keys to the events, and of the repaint after it.
THEOREM ScreenSound == Spec => [](Sound(s, s.peeked) /\ Mounted(s))
  <1>1. Kept => Sound(s, s.peeked) /\ Mounted(s)
    BY DEF Kept
  <1> QED BY <1>1, KeptStart, KeptStep, PTL DEF Spec

-----------------------------------------------------------------------------
(* The caret is where the user types *)

LEMMA WidthIs ==
  ASSUME NEW text \in Text
  PROVE  DisplayWidth(text) \in Nat
  <1>1. Len(text) \in Nat /\ DisplayWidthBeforeIndex(text) \in [0..Len(text) -> Nat]
    BY WidthsBefore DEF Text
  <1>2. Len(text) \in 0..Len(text)
    BY <1>1
  <1> QED BY <1>1, <1>2 DEF DisplayWidth

LEMMA CaretShown ==
  ASSUME NEW u, Sound(u, u.peeked), Mounted(u), ComposerMounted(u),
         ~u.peeked \/ u.composer.offset = 0
  PROVE  /\ ComposerWindow(u).cursorVisible
         /\ CaretCell(u).y \in (ComposerTop(u) + 1)..(Rows(u) - 3)
         /\ CaretCell(u).x <= SafeColumns(u)
  <1> DEFINE c == u.composer
             columns == InputColumns(u)
             visible == ComposerVisibleRows(u)
             rows == WrapPromptText(c.text, columns)
             row == ResolveCursorRowIndex(rows, c.cursor)
             start == BoundsOn(rows, c, visible).visibleStart
             window == ComposerWindow(u)
             before == SubSeq(c.text, rows[row + 1].start + 1, c.cursor)
             n == Len(rows)
             height == u.composerRows
             all == Rows(u)
             safe == SafeColumns(u)
             width == DisplayWidth(before)
             more == IF c.error THEN 1 ELSE 0
  <1>1. Caret(c) /\ visible \in Nat \ {0} /\ all \in Nat /\ columns \in Nat \ {0} /\ height \in Int
    BY LayoutOf, Measures DEF Sound
  <1>2. window = ResolveComposerWindow(c, columns, visible)
    BY DEF ComposerWindow
  <1>3. /\ rows \in Seq(RowsIn(c.text)) /\ n \in Nat \ {0} /\ row \in 0..(n - 1)
        /\ start \in 0..(n - 1) /\ window.rows = AtMost(n, visible)
        /\ window.cursorVisible <=> start <= row /\ row < start + visible
        /\ c.offset = 0 => window.cursorVisible
    BY <1>1, <1>2, WindowIs
  <1>4. CaretCell(u).x = PromptPrefixColumns + AtMost(width, columns)
    BY DEF CaretCell
  <1>5. CaretCell(u).y = ComposerTop(u) + 1 + row - start
    BY DEF CaretCell
  <1>6. ComposerTop(u) = all - 1 - height
    BY DEF ComposerTop
  <1>7. height = window.rows + more + PaddingRows /\ more \in 0..1
    BY DEF Mounted, CountVisibleComposerRows
  <1>8. window.cursorVisible
    BY <1>3 DEF Mounted
  <1>9. safe \in Int /\ columns = safe - PromptPrefixColumns
    <2>1. u.term \in [rows: Nat, columns: Nat] /\ ~(u.term.columns < MinColumns + SafeColumnGuard)
      BY DEF Sound, ComposerMounted, HomeMounted, TooSmall
    <2>2. u.term.columns \in Nat
      BY <2>1
    <2>3. safe = AtLeast(1, u.term.columns - 1) /\ columns = AtLeast(1, safe - 2)
      BY DEF SafeColumns, InputColumns, SafeColumnGuard, PromptPrefixColumns
    <2> HIDE DEF safe, columns
    <2> QED BY <2>1, <2>2, <2>3, SizeAssumption DEF SafeColumnGuard, PromptPrefixColumns
  <1>10. width \in Int
    <2>1. before \in Text
      <3>1. rows[row + 1] \in RowsIn(c.text)
        <4> HIDE DEF rows, row
        <4>1. row + 1 \in 1..n
          BY <1>3
        <4> QED BY <1>3, <4>1
      <3>2. rows[row + 1].start + 1 \in Nat \ {0}
        BY <3>1 DEF RowsIn
      <3>3. c.text \in Text /\ c.cursor \in Int /\ c.cursor <= Len(c.text)
        BY <1>1, CaretAt DEF Caret
      <3> HIDE DEF rows, row
      <3> QED BY <3>2, <3>3, SubText
    <2> HIDE DEF before
    <2> QED BY <2>1, WidthIs
  <1> DEFINE cell == CaretCell(u)
  <1> HIDE DEF cell, window, rows, row, start, before, n, columns, visible, height, all, safe, width, more, c
  <1>11. cell.x <= safe
    BY <1>4, <1>9, <1>10 DEF PromptPrefixColumns, cell
  <1>12. cell.y \in (ComposerTop(u) + 1)..(all - 3)
    <2>1. cell.y = all - 1 - height + 1 + row - start
      BY <1>5, <1>6 DEF cell
    <2>2. start <= row /\ row < start + visible
      BY <1>3, <1>8
    <2>3. ComposerTop(u) + 1 = all - 1 - height + 1
      BY <1>6
    <2> DEFINE seen == AtMost(n, visible)
               top == ComposerTop(u) + 1
    <2>4. height = seen + more + 2
      BY <1>3, <1>7 DEF PaddingRows
    <2>5. seen \in Int /\ row \in Int /\ start \in Int /\ row - start + 1 <= seen
      BY <1>1, <1>3, <2>2
    <2> HIDE DEF seen, top
    <2>6. top = all - height /\ cell.y = all - height + row - start
      BY <1>1, <2>1, <2>3, <2>5 DEF top
    <2>7. cell.y \in top..(all - 3)
      BY <1>1, <1>7, <2>2, <2>4, <2>5, <2>6
    <2> QED BY <2>7 DEF top
  <1> QED BY <1>8, <1>11, <1>12 DEF cell, window, all, safe

\* The caret is where the user types, in every state of every run: on a row of the
\* composer that shows and in its columns, whatever handlers, pastes, recalls, restored
\* drafts, clicks and resizes brought it there, unless the user has scrolled away since it
\* last moved.  (scrollComposerCursorIntoViewAtom; the composer's row count is reported
\* after the layout has been computed from the one before.)
THEOREM CaretStaysInView == Spec => []CaretInView
  <1>1. Kept => CaretInView
    <2> SUFFICES ASSUME Kept, ComposerMounted(s), ~s.peeked \/ s.composer.offset = 0
                 PROVE  /\ ComposerWindow(s).cursorVisible
                        /\ CaretCell(s).y \in (ComposerTop(s) + 1)..(Rows(s) - 3)
                        /\ CaretCell(s).x <= SafeColumns(s)
      BY DEF CaretInView
    <2> QED BY CaretShown DEF Kept
  <1> QED BY <1>1, KeptStart, KeptStep, PTL DEF Spec

-----------------------------------------------------------------------------
(* What is highlighted is what a copy takes *)

LEMMA PrefixIs ==
  ASSUME NEW S, NEW a \in Seq(S), NEW b \in Seq(S), Len(a) <= Len(b),
         \A i \in 1..Len(a) : a[i] = b[i]
  PROVE  IsPrefix(a, b)
  <1> DEFINE n == Len(a)
             c == SubSeq(b, 1, n)
  <1>1. n \in Nat /\ Len(b) \in Nat
    OBVIOUS
  <1>2. SubSeq(a, 1, n) = a
    BY SubSeqFull
  <1>3. c \in Seq(S) /\ Len(c) = n /\ \A i \in 1..n : c[i] = b[i]
    <2>1. \A i \in 1..n : b[i] \in S
      BY <1>1
    <2>2. 1 \in Int /\ n \in Int
      BY <1>1
    <2>3. /\ c \in Seq(S) /\ Len(c) = (IF 1 <= n THEN n - 1 + 1 ELSE 0)
          /\ \A i \in 1..(n - 1 + 1) : c[i] = b[1 + i - 1]
      BY <2>1, <2>2, SubSeqProperties
    <2> HIDE DEF c, n
    <2> QED BY <1>1, <2>3
  <1> HIDE DEF c
  <1>4. c = a
    BY <1>1, <1>3, SeqEqual
  <1> QED BY <1>2, <1>4 DEF IsPrefix, c

\* The end of a part of a text may go as far as graphemes without a width.
LEMMA SliceSeen ==
  ASSUME NEW text \in Text, NEW from \in 0..Len(text), NEW to \in 0..Len(text), NEW end \in to..Len(text),
         \A j \in (to + 1)..end : Width[text[j]] = 0
  PROVE  SeenAs(SubSeq(text, from + 1, to), SubSeq(text, from + 1, end))
  <1> DEFINE a == SubSeq(text, from + 1, to)
             b == SubSeq(text, from + 1, end)
  <1>1. Len(text) \in Nat /\ from \in Nat /\ to \in Nat /\ end \in Nat /\ to <= end /\ end <= Len(text)
    BY DEF Text
  <1>2. \A j \in 1..Len(text) : text[j] \in Grapheme
    BY DEF Text
  <1>3. ASSUME NEW n \in Nat, n <= Len(text)
        PROVE  LET q == SubSeq(text, from + 1, n)
               IN  /\ q \in Seq(Grapheme) /\ Len(q) = (IF from + 1 <= n THEN n - (from + 1) + 1 ELSE 0)
                   /\ \A i \in 1..(n - (from + 1) + 1) : q[i] = text[from + 1 + i - 1]
    <2>1. from + 1 \in Int /\ n \in Int
      BY <1>1
    <2>2. \A i \in (from + 1)..n : text[i] \in Grapheme
      BY <1>1, <1>2, <1>3
    <2> QED BY <2>1, <2>2, SubSeqProperties
  <1>4. /\ a \in Seq(Grapheme) /\ Len(a) = AtLeast(0, to - from)
        /\ \A i \in 1..(to - from) : a[i] = text[from + i]
    <2>1. to <= Len(text)
      BY <1>1
    <2>2. /\ a \in Seq(Grapheme) /\ Len(a) = (IF from + 1 <= to THEN to - (from + 1) + 1 ELSE 0)
          /\ \A i \in 1..(to - (from + 1) + 1) : a[i] = text[from + 1 + i - 1]
      BY <1>1, <1>3, <2>1
    <2> HIDE DEF a
    <2> QED BY <1>1, <2>2
  <1>5. /\ b \in Seq(Grapheme) /\ Len(b) = AtLeast(0, end - from)
        /\ \A i \in 1..(end - from) : b[i] = text[from + i]
    <2>2. /\ b \in Seq(Grapheme) /\ Len(b) = (IF from + 1 <= end THEN end - (from + 1) + 1 ELSE 0)
          /\ \A i \in 1..(end - (from + 1) + 1) : b[i] = text[from + 1 + i - 1]
      BY <1>1, <1>3
    <2> HIDE DEF b
    <2> QED BY <1>1, <2>2
  <1> HIDE DEF a, b
  <1>6. IsPrefix(a, b)
    <2>1. Len(a) <= Len(b)
      BY <1>1, <1>4, <1>5
    <2>2. \A i \in 1..Len(a) : a[i] = b[i]
      BY <1>1, <1>4, <1>5
    <2> QED BY <1>4, <1>5, <2>1, <2>2, PrefixIs
  <1>7. ASSUME NEW i \in (Len(a) + 1)..Len(b) PROVE Width[b[i]] = 0
    <2>1. i \in 1..(end - from) /\ from + i \in (to + 1)..end
      BY <1>1, <1>4, <1>5
    <2>2. b[i] = text[from + i]
      BY <1>5, <2>1
    <2> QED BY <2>1, <2>2
  <1> QED BY <1>6, <1>7 DEF SeenAs, a, b

\* Where columns are in a text: at the start, further on, and past its width.
LEMMA ColumnsIn ==
  ASSUME NEW text \in Text
  PROVE  /\ IndexAtDisplayColumn(text, 0) = 0
         /\ \A c, d \in Nat : c <= d => IndexAtDisplayColumn(text, c) <= IndexAtDisplayColumn(text, d)
         /\ \A c \in Nat : IndexAtDisplayColumn(text, c) \in 0..Len(text)
         /\ \A j \in (IndexAtDisplayColumn(text, DisplayWidth(text)) + 1)..Len(text) : Width[text[j]] = 0
  <1> DEFINE n == Len(text)
             before == DisplayWidthBeforeIndex(text)
             at(c) == IndexAtDisplayColumn(text, c)
             width == DisplayWidth(text)
  <1>1. /\ n \in Nat /\ before \in [0..n -> Nat] /\ before[0] = 0
        /\ \A i \in 1..n : before[i] = before[i - 1] + Width[text[i]] /\ Width[text[i]] \in Nat
    BY WidthsBefore, TextAssumption DEF Text
  <1>2. ASSUME NEW c \in Nat
        PROVE  /\ at(c) \in 0..n /\ before[at(c)] <= c
               /\ \A i \in 0..n : before[i] <= c /\ before[i] # c => i <= at(c)
               /\ \A i \in 0..n : before[i] = c => before[at(c)] = c /\ at(c) <= i
               /\ before[at(c)] # c => \A i \in 0..n : before[i] <= c => i <= at(c)
    <2>1. AtLeast(0, c) = c /\ c \in Int
      OBVIOUS
    <2> HIDE DEF before, n
    <2> QED BY <2>1, ColumnIndex DEF before, n
  <1>3. \A i \in 0..n : before[i] <= width
    <2>1. ASSUME NEW i \in 0..n PROVE before[i] <= width
      <3>1. n \in i..n
        BY <1>1
      <3> QED BY <3>1, WidthsGrow DEF DisplayWidth
    <2> QED BY <2>1
  <1>4. width \in Nat
    BY WidthIs
  <1>5. \A i \in 0..n, j \in 0..n : i <= j => before[i] <= before[j]
    <2>1. \A i \in 0..n, j \in 0..n : i <= j => j \in i..n
      BY <1>1
    <2> QED BY <2>1, WidthsGrow
  <1>6. before[n] = width
    BY DEF DisplayWidth
  <1> HIDE DEF before, n, at, width
  <1>7. at(0) = 0
    BY <1>1, <1>2
  <1>8. ASSUME NEW c \in Nat, NEW d \in Nat, c <= d PROVE at(c) <= at(d)
    <2> DEFINE k == at(c)
               l == at(d)
    <2>1. /\ k \in 0..n /\ before[k] <= c /\ l \in 0..n
          /\ \A i \in 0..n : before[i] <= d /\ before[i] # d => i <= l
          /\ before[l] # d => \A i \in 0..n : before[i] <= d => i <= l
      BY <1>2
    <2> HIDE DEF k, l
    <2>2. before[k] \in Nat
      BY <1>1, <2>1
    <2>3. CASE c = d
      BY <1>1, <1>2, <2>3
    <2>4. CASE c # d
      <3>1. before[k] <= d /\ before[k] # d
        BY <1>8, <2>1, <2>2, <2>4
      <3> QED BY <2>1, <3>1 DEF k, l
    <2> QED BY <2>3, <2>4
  <1>9. ASSUME NEW j \in (at(width) + 1)..n PROVE Width[text[j]] = 0
    <2> DEFINE k == at(width)
    <2>1. k \in 0..n /\ before[k] = width
      <3>1. n \in 0..n
        BY <1>1
      <3> QED BY <1>2, <1>4, <1>6, <3>1
    <2>2. j \in (k + 1)..n
      BY <1>9
    <2> HIDE DEF k
    <2>3. j \in 1..n /\ j - 1 \in 0..n /\ j \in 0..n /\ k <= j - 1
      BY <1>1, <2>1, <2>2
    <2>4. width <= before[j - 1] /\ before[j] <= width
      BY <1>3, <1>5, <2>1, <2>3
    <2>5. before[j] = before[j - 1] + Width[text[j]] /\ Width[text[j]] \in Nat
      BY <1>1, <2>3
    <2>6. before[j - 1] \in Nat
      BY <1>1, <2>3
    <2> HIDE DEF k
    <2> QED BY <1>4, <2>4, <2>5, <2>6
  <1> QED BY <1>2, <1>7, <1>8, <1>9 DEF at, n, width

LEMMA BoundsAre ==
  ASSUME NEW selection \in Selections
  PROVE  LET bounds == SelectionBounds(selection) IN bounds.start \in Place /\ bounds.end \in Place
  BY DEF SelectionBounds, Selections

\* Both ways of painting a row highlight what a copy takes of it, but for graphemes
\* without a width at its end.
LEMMA HighlightIsFragment ==
  ASSUME NEW row \in Painted, NEW index \in Int, NEW bounds, bounds.start \in Place, bounds.end \in Place
  PROVE  SeenAs(HighlightOf(row, index, bounds),
                IF index \in bounds.start.row..bounds.end.row /\ ~IsSelectionEmpty(bounds)
                THEN Fragment(row, index, bounds)
                ELSE <<>>)
  <1> DEFINE text == row.text
             n == Len(text)
             a == AtLeast(0, bounds.start.column - row.marker)
             b == AtLeast(0, bounds.end.column - row.marker)
             first == index = bounds.start.row
             last == index = bounds.end.row
             outside == IsSelectionEmpty(bounds) \/ index < bounds.start.row \/ index > bounds.end.row
             at == [c \in Nat |-> IndexAtDisplayColumn(text, c)]
             from == IF first THEN at[a] ELSE 0
             to == IF last THEN at[b] ELSE n
             width == DisplayWidth(text)
             left == IF first THEN a ELSE 0
             right == AtMost(width, IF last THEN b ELSE width)
             taken == IF index \in bounds.start.row..bounds.end.row /\ ~IsSelectionEmpty(bounds)
                      THEN Fragment(row, index, bounds) ELSE <<>>
             shown == HighlightOf(row, index, bounds)
  <1>1. /\ text \in Text /\ n \in Nat /\ row.marker \in Nat /\ row.segments \in BOOLEAN /\ width \in Nat
        /\ bounds.start.row \in Int /\ bounds.end.row \in Int
        /\ bounds.start.column \in Int /\ bounds.end.column \in Int
    <2>1. text \in Text /\ row.marker \in Nat /\ row.segments \in BOOLEAN
      BY DEF Painted
    <2>2. /\ bounds.start.row \in Int /\ bounds.end.row \in Int
          /\ bounds.start.column \in Int /\ bounds.end.column \in Int
      BY DEF Place
    <2>3. n \in Nat /\ width \in Nat
      BY <2>1, WidthIs DEF Text
    <2> QED BY <2>1, <2>2, <2>3
  <1>2. a \in Nat /\ b \in Nat /\ AtLeast(0, 0 - row.marker) = 0
    BY <1>1
  <1>3. /\ at[0] = 0 /\ \A c, d \in Nat : c <= d => at[c] <= at[d]
        /\ at \in [Nat -> 0..n]
        /\ \A j \in (at[width] + 1)..n : Width[text[j]] = 0
    <2>1. \A c \in Nat : at[c] = IndexAtDisplayColumn(text, c)
      OBVIOUS
    <2>2. \A c \in Nat : at[c] \in 0..n
      BY <1>1, <2>1, ColumnsIn
    <2> HIDE DEF text
    <2>3. at \in [Nat -> 0..n]
      BY <2>2
    <2>4. at[0] = 0 /\ \A j \in (at[width] + 1)..n : Width[text[j]] = 0
      BY <1>1, <2>1, ColumnsIn
    <2>5. \A c, d \in Nat : c <= d => at[c] <= at[d]
      BY <1>1, <2>1, ColumnsIn
    <2> QED BY <2>3, <2>4, <2>5
  <1>4. Fragment(row, index, bounds) = SubSeq(text, 1 + from, to)
    BY <1>2 DEF Fragment
  <1>5. RowHighlight(row, index, bounds) = IF outside THEN <<>> ELSE SubSeq(text, from + 1, to)
    <2>1. RowHighlight(row, index, bounds)
            = IF outside THEN <<>> ELSE SubSeq(text, (IF first THEN at[a] ELSE at[0]) + 1, to)
      BY <1>2 DEF RowHighlight
    <2> QED BY <1>3, <2>1
  <1>6. left \in Nat /\ right \in Nat
    BY <1>1, <1>2
  <1>7. RowSegmentHighlights(row, index, bounds)
          = IF outside \/ right <= left THEN <<>> ELSE SubSeq(text, at[left] + 1, at[right])
    <2>1. RowSegmentHighlights(row, index, bounds)
            = IF outside \/ right <= left THEN <<>>
              ELSE SubSeq(text, IndexAtDisplayColumn(text, left) + 1, IndexAtDisplayColumn(text, right))
      BY DEF RowSegmentHighlights
    <2> QED BY <1>6, <2>1
  <1>8. at[left] = from
    BY <1>2, <1>3
  <1>9. index \in bounds.start.row..bounds.end.row /\ ~IsSelectionEmpty(bounds) <=> ~outside
    BY <1>1
  <1>10. shown = IF row.segments THEN RowSegmentHighlights(row, index, bounds)
                 ELSE RowHighlight(row, index, bounds)
    BY DEF HighlightOf
  <1>11. /\ from \in 0..n /\ to \in 0..n /\ at[right] \in 0..to
         /\ \A j \in (at[right] + 1)..to : Width[text[j]] = 0
    <2> HIDE DEF at, a, b, width, n, first, last, text
    <2>1. from \in 0..n /\ to \in 0..n
      BY <1>1, <1>2, <1>3
    <2>2. CASE last /\ b <= width
      <3>1. right = b /\ to = at[b]
        BY <1>1, <1>2, <2>2
      <3> QED BY <1>2, <1>3, <2>1, <3>1
    <2>3. CASE ~(last /\ b <= width)
      <3>1. right = width
        BY <1>1, <1>2, <2>3
      <3>2. at[width] <= to
        BY <1>1, <1>2, <1>3, <2>3
      <3> QED BY <1>1, <1>2, <1>3, <2>1, <3>1, <3>2
    <2> QED BY <2>1, <2>2, <2>3
  <1> HIDE DEF text, n, a, b, first, last, outside, at, from, to, width, left, right, shown
  <1>12. CASE outside
    <2>1. shown = <<>> /\ taken = <<>>
      BY <1>5, <1>7, <1>9, <1>10, <1>12
    <2>2. SeenAs(<<>>, <<>>)
      <3>1. IsPrefix(<<>>, <<>>)
        <4>1. <<>> \in Seq(Grapheme) /\ Len(<<>>) <= Len(<<>>) /\ \A i \in 1..Len(<<>>) : <<>>[i] = <<>>[i]
          OBVIOUS
        <4> QED BY <4>1, PrefixIs
      <3>2. Len(<<>>) = 0 /\ \A i \in (0 + 1)..0 : FALSE
        OBVIOUS
      <3> QED BY <3>1, <3>2 DEF SeenAs
    <2> QED BY <2>1, <2>2 DEF shown
  <1>13. CASE ~outside
    <2>1. taken = SubSeq(text, from + 1, to)
      <3>1. 1 + from = from + 1
        BY <1>11
      <3> QED BY <1>4, <1>9, <1>13, <3>1
    <2>2. CASE ~row.segments
      <3>1. shown = SubSeq(text, from + 1, to)
        BY <1>5, <1>10, <1>13, <2>2
      <3>2. SeenAs(SubSeq(text, from + 1, to), SubSeq(text, from + 1, to))
        <4>1. to \in to..Len(text) /\ from \in 0..Len(text) /\ to \in 0..Len(text)
              /\ \A j \in (to + 1)..to : FALSE
          BY <1>1, <1>11 DEF n
        <4> QED BY <1>1, <4>1, SliceSeen
      <3> QED BY <2>1, <3>1, <3>2 DEF shown
    <2>3. CASE row.segments
      <3> DEFINE end == at[right]
      <3>1. shown = SubSeq(text, from + 1, end)
        <4>1. CASE right <= left
          <5>1. shown = <<>>
            BY <1>7, <1>10, <1>13, <2>3, <4>1
          <5>2. end <= from
            BY <1>3, <1>6, <1>8, <4>1
          <5>3. from + 1 \in Int /\ end \in Int /\ end < from + 1
            BY <1>1, <1>11, <5>2
          <5> HIDE DEF end
          <5> QED BY <5>1, <5>3, SubSeqEmpty
        <4>2. CASE ~(right <= left)
          BY <1>7, <1>8, <1>10, <1>13, <2>3, <4>2
        <4> QED BY <4>1, <4>2
      <3>2. SeenAs(SubSeq(text, from + 1, end), SubSeq(text, from + 1, to))
        <4>1. end \in 0..Len(text) /\ to \in end..Len(text) /\ from \in 0..Len(text)
              /\ \A j \in (end + 1)..to : Width[text[j]] = 0
          BY <1>1, <1>11 DEF n
        <4> HIDE DEF end
        <4> QED BY <1>1, <4>1, SliceSeen
      <3> QED BY <2>1, <3>1, <3>2 DEF shown
    <2> QED BY <1>1, <2>2, <2>3
  <1> QED BY <1>12, <1>13 DEF shown

\* What is highlighted is what a copy takes, in every state of every run: whatever has been
\* selected by drags and clicks, and streamed, removed, hydrated and wrapped anew since.
\* (rowHighlight, rowSegmentHighlights and selectedText.)
THEOREM CopiesWhatIsHighlighted == Spec => []HighlightIsCopied
  <1>1. Kept => HighlightIsCopied
    <2> SUFFICES ASSUME Kept PROVE HighlightIsCopied
      OBVIOUS
    <2> DEFINE view == BodyView(s)
               bounds == SelectionBounds(s.selection)
    <2>1. View(view)
      BY ViewIs DEF Kept
    <2>2. bounds.start \in Place /\ bounds.end \in Place
      BY BoundsAre DEF Kept, Sound
    <2> SUFFICES ASSUME NEW i \in view.window.startIndex..(view.window.end - 1)
                 PROVE  SeenAs(HighlightOf(view.rows[i + 1], i, bounds),
                               IF i \in bounds.start.row..bounds.end.row /\ ~IsSelectionEmpty(bounds)
                               THEN Fragment(view.rows[i + 1], i, bounds)
                               ELSE <<>>)
      BY DEF HighlightIsCopied
    <2> HIDE DEF view, bounds
    <2>3. i \in Int /\ view.rows[i + 1] \in Painted
      <3> DEFINE rows == view.rows
                 start == view.window.startIndex
                 end == view.window.end
      <3>1. rows \in Seq(Painted) /\ Len(rows) \in Nat /\ start \in Nat /\ end \in 0..Len(rows)
        BY <2>1 DEF View
      <3>2. i \in start..(end - 1)
        OBVIOUS
      <3> HIDE DEF rows, start, end
      <3>3. i \in Int /\ i + 1 \in 1..Len(rows)
        BY <3>1, <3>2
      <3>4. rows[i + 1] \in Painted
        BY <3>1, <3>3
      <3> QED BY <3>3, <3>4 DEF rows
    <2> QED BY <2>2, <2>3, HighlightIsFragment
  <1> QED BY <1>1, KeptStart, KeptStep, PTL DEF Spec

-----------------------------------------------------------------------------
(* The parts of the screen fill it *)

\* A quotient by any divisor.
LEMMA DivAtMost ==
  ASSUME NEW a \in Nat, NEW b \in Nat \ {0}, NEW k \in Nat, a < (k + 1) * b
  PROVE  a \div b \in 0..k
  <1> DEFINE q == a \div b
  <1>1. q \in Int /\ a - b * q >= 0
    OBVIOUS
  <1>2. q \in Nat
    OBVIOUS
  <1>3. q <= k
    <2> SUFFICES ASSUME q >= k + 1 PROVE FALSE
      BY <1>2
    <2>1. PICK d \in Nat : q = k + 1 + d
      BY <1>2
    <2> HIDE DEF q
    <2>2. b * q = (k + 1) * b + b * d
      BY <2>1
    <2>3. b * d >= 0
      OBVIOUS
    <2>4. b * q \in Int /\ (k + 1) * b \in Int /\ b * d \in Int
      BY <1>2
    <2> QED BY <1>1, <2>2, <2>3, <2>4
  <1> HIDE DEF q
  <1>4. q \in 0..k
    BY <1>2, <1>3
  <1> QED BY <1>4 DEF q

\* The thumb stays on its track, wherever the window is.
LEMMA ThumbOnTrack ==
  ASSUME NEW view, View(view), Len(view.rows) > view.visible
  PROVE  ScrollbarThumb(view).start + ScrollbarThumb(view).size <= view.visible
  <1> DEFINE total == Len(view.rows)
             v == view.visible
             first == view.window.startIndex
             part == (v * v) \div total
             size == AtLeast(1, part)
             span == total - v
             scaled == 2 * first * (v - size) + span
             start == IF span = 0 THEN 0 ELSE scaled \div (2 * span)
  <1>1. total \in Nat /\ v \in Nat \ {0} /\ first \in Nat /\ first <= span /\ span \in Nat \ {0} /\ total > v
    <2>1. total \in Nat /\ v \in Nat \ {0} /\ total > v
      BY DEF View
    <2>2. first \in 0..view.window.end /\ view.window.end \in 0..total /\ view.window.end - first = AtMost(total, v)
      BY DEF View
    <2> HIDE DEF total, v, first
    <2> QED BY <2>1, <2>2
  <1>2. ScrollbarThumb(view).start = start /\ ScrollbarThumb(view).size = size
    BY DEF ScrollbarThumb
  <1> HIDE DEF total, v, first
  <1>3. part \in 0..(v - 1)
    <2>1. v * v \in Nat /\ v * v < v * total
      <3>1. PICK d \in Nat \ {0} : total = v + d
        BY <1>1
      <3>2. v * total = v * v + v * d
        BY <1>1, <3>1
      <3>3. v * d > 0 /\ v * d \in Nat
        BY <1>1
      <3>4. v * v \in Nat
        BY <1>1
      <3> QED BY <3>2, <3>3, <3>4
    <2>2. v - 1 \in Nat /\ (v - 1) + 1 = v /\ total \in Nat \ {0}
      BY <1>1
    <2> QED BY <2>1, <2>2, DivAtMost
  <1> HIDE DEF part
  <1>4. size \in 1..v
    BY <1>1, <1>3
  <1> HIDE DEF size, span
  <1>5. start \in 0..(v - size)
    <2> DEFINE room == v - size
    <2>1. room \in Nat
      BY <1>1, <1>4
    <2>2. 2 * first * room \in Nat /\ 2 * first * room <= 2 * span * room
      <3>1. PICK d \in Nat : span = first + d
        BY <1>1
      <3>2. 2 * span * room = 2 * first * room + 2 * d * room
        BY <1>1, <2>1, <3>1
      <3>3. 2 * first * room \in Nat /\ 2 * d * room \in Nat
        BY <1>1, <2>1
      <3> HIDE DEF room
      <3> QED BY <3>2, <3>3
    <2> HIDE DEF room
    <2>3. 2 * span * room + 2 * span = (room + 1) * (2 * span)
      BY <1>1, <2>1
    <2>4. 2 * span * room \in Nat
      BY <1>1, <2>1
    <2>5. scaled \in Nat /\ scaled < (room + 1) * (2 * span)
      <3> DEFINE x == 2 * first * room
                 y == 2 * span * room
                 z == (room + 1) * (2 * span)
      <3>1. scaled = x + span
        BY DEF room
      <3>2. x \in Nat /\ x <= y /\ y + 2 * span = z /\ y \in Nat
        BY <2>2, <2>3, <2>4
      <3> HIDE DEF x, y, z, scaled
      <3>3. scaled \in Nat /\ scaled < z
        BY <1>1, <3>1, <3>2
      <3> QED BY <3>3 DEF z
    <2> HIDE DEF scaled
    <2>6. 2 * span \in Nat \ {0} /\ span # 0
      BY <1>1
    <2>7. scaled \div (2 * span) \in 0..room
      BY <2>1, <2>5, <2>6, DivAtMost
    <2>8. start = scaled \div (2 * span)
      BY <2>6
    <2> QED BY <2>7, <2>8 DEF room
  <1> HIDE DEF start
  <1> QED BY <1>1, <1>2, <1>4, <1>5 DEF v

\* A repaint never paints more rows than the body has.
LEMMA PaintedFit ==
  ASSUME NEW view, View(view)
  PROVE  Len(RenderedRows(view)) <= view.visible
  <1> DEFINE from == view.window.startIndex
             to == view.window.end
             n == Len(view.rows)
             v == view.visible
             shown == SubSeq(view.rows, from + 1, to)
             blank == PlainRow(BlankLine)
  <1>1. from \in 0..to /\ to \in 0..n /\ n \in Nat /\ v \in Nat \ {0} /\ to - from = AtMost(n, v)
        /\ view.rows \in Seq(Painted)
    BY DEF View
  <1>2. shown \in Seq(Painted) /\ Len(shown) = AtMost(n, v)
    <2>1. from + 1 \in 1..(to + 1) /\ to \in Int /\ (from + 1) - 1 = from /\ (to <= n)
      BY <1>1
    <2>2. \A i \in (from + 1)..to : view.rows[i] \in Painted
      <3> TAKE i \in (from + 1)..to
      <3>1. i \in 1..Len(view.rows)
        BY <1>1
      <3> QED BY <1>1, <3>1
    <2> HIDE DEF from, to, n, v
    <2>3. SubSeq(view.rows, from + 1, to) \in Seq(Painted)
      BY <1>1, <2>1, <2>2, SubSeqProperties
    <2>4. Len(SubSeq(view.rows, from + 1, to)) = IF from + 1 <= to THEN to - (from + 1) + 1 ELSE 0
      BY <1>1, <2>1, <2>2, SubSeqProperties
    <2>5. to - from = (IF from + 1 <= to THEN to - (from + 1) + 1 ELSE 0)
      BY <1>1
    <2> QED BY <1>1, <2>3, <2>4, <2>5
  <1>3. RenderedRows(view) = IF n > v \/ Len(shown) = v THEN shown ELSE Append(shown, blank)
    BY DEF RenderedRows
  <1> HIDE DEF shown, blank, n, v
  <1>4. Len(Append(shown, blank)) = Len(shown) + 1
    BY <1>2
  <1>5. Len(shown) <= v
    BY <1>1, <1>2
  <1>6. Len(RenderedRows(view)) <= v
    BY <1>1, <1>2, <1>3, <1>4, <1>5
  <1> QED BY <1>6 DEF v

\* The menu's window follows the highlight.
LEMMA HighlightInMenu ==
  ASSUME NEW n \in Nat \ {0}, NEW highlight \in Int, NEW rows \in Nat, rows > 1,
         NEW matches, Len(matches) = n
  PROVE  HighlightShown(matches, highlight, rows)
  <1> DEFINE h == Clamp(highlight, 0, Len(matches) - 1)
             start == MenuStart(matches, highlight, rows)
  <1>1. h \in 0..(n - 1)
    OBVIOUS
  <1>2. start = AtMost(AtLeast(0, h - AtLeast(0, rows - 1) + 1), AtLeast(0, n - AtLeast(0, rows - 1)))
    BY DEF MenuStart
  <1> HIDE DEF h, start
  <1>3. h \in start..(start + rows - 2)
    BY <1>1, <1>2
  <1> QED BY <1>3 DEF HighlightShown, h, start

-----------------------------------------------------------------------------
\* The line with the folder and the branch wraps into six lines at most.
LEMMA FolderLines ==
  ASSUME NEW u, Sound(u, u.peeked), HomeMounted(u), CwdLength <= 6 * MinColumns
  PROVE  CwdRows(u) \in 0..6
  <1> DEFINE wide == SafeColumns(u)
             n == (CwdLength + wide - 1) \div wide
  <1>1. wide \in Nat \ {0} /\ wide >= MinColumns /\ MinColumns \in Nat \ {0} /\ CwdLength \in Nat
    <2>1. u.term \in [rows: Nat, columns: Nat] /\ ~(u.term.columns < MinColumns + SafeColumnGuard)
      BY DEF Sound, HomeMounted, TooSmall
    <2>2. u.term.columns \in Nat
      BY <2>1
    <2>3. wide = AtLeast(1, u.term.columns - 1)
      BY DEF SafeColumns, SafeColumnGuard
    <2> HIDE DEF wide
    <2> QED BY <2>1, <2>2, <2>3, SizeAssumption DEF SafeColumnGuard
  <1>2. CwdRows(u) = IF MenuOpen(u) \/ Docked(u) THEN 0 ELSE AtLeast(1, n)
    BY DEF CwdRows
  <1> HIDE DEF wide
  <1>3. CwdLength + wide - 1 \in Nat /\ CwdLength + wide - 1 < (6 + 1) * wide
    BY <1>1
  <1>4. n \in 0..6
    BY <1>1, <1>3, DivAtMost
  <1> HIDE DEF n
  <1> QED BY <1>2, <1>4

\* Above a composer of any height it may have there is a row for the transcript.
LEMMA RoomLeft ==
  ASSUME NEW u, Sound(u, u.peeked), Mounted(u), ComposerMounted(u), CwdLength <= 6 * MinColumns
  PROVE  HeaderOf(u) + CwdGapRows + CwdRows(u) + 1 + u.composerRows + MenuRowsOf(u) + 1 <= Rows(u)
  <1> DEFINE rows == Rows(u)
             header == HeaderOf(u)
             cwd == CwdRows(u)
             menu == MenuRowsOf(u)
             height == u.composerRows
             seen == ComposerWindow(u).rows
             visible == ComposerVisibleRows(u)
             more == IF u.composer.error THEN 1 ELSE 0
             n == Len(WrapPromptText(u.composer.text, InputColumns(u)))
  <1>1. rows \in Nat /\ rows >= 15 /\ header \in 0..1 /\ cwd \in 0..6 /\ menu \in 0..8
    BY Measures, FolderLines DEF ComposerMounted
  <1>2. height = seen + more + 2 /\ more \in 0..1
    BY DEF Mounted, CountVisibleComposerRows, PaddingRows
  <1>3. seen = AtMost(n, visible) /\ n \in Nat /\ visible \in Nat \ {0}
    <2>1. visible \in Nat \ {0} /\ Caret(u.composer)
      BY LayoutOf DEF Sound
    <2>2. ComposerWindow(u) = ResolveComposerWindow(u.composer, InputColumns(u), visible)
      BY DEF ComposerWindow
    <2> HIDE DEF visible
    <2> QED BY <2>1, <2>2, WindowIs
  <1>4. ~Docked(u) /\ DockedRowsOf(u) = 0
    BY DEF ComposerMounted, DockedRowsOf, ResolveDockedPanelRows
  <1>5. menu = IF MenuOpen(u) THEN AtMost(8, AtLeast(0, rows - header - 2 - cwd - 1 - height - 1)) ELSE 0
    BY <1>4 DEF MenuRowsOf, MenuRows, CwdGapRows
  <1>6. visible = AtLeast(1, AtMost(rows - (header + 2 + cwd + 1) - 2 - 1 - 1, (rows \div 2) - 2 - 1))
    <2>1. visible = ResolveHomeScreenLayout(rows, 0, height, cwd, menu, 0, header).composerRows
      BY <1>4 DEF ComposerVisibleRows, LayoutFor
    <2>2. AtLeast(0, header) = header /\ AtLeast(0, cwd) = cwd
      BY <1>1
    <2> HIDE DEF visible, rows, header, cwd, menu, height
    <2> QED BY <2>1, <2>2 DEF ResolveHomeScreenLayout, CwdGapRows, PaddingRows, ErrorReserveRows, MaxHeightDivisor
  <1> HIDE DEF rows, header, cwd, menu, height, seen, visible, more, n
  <1>7. height \in Int /\ header + 2 + cwd + 1 + height + 1 <= rows
    BY <1>1, <1>2, <1>3, <1>6
  <1>8. header + 2 + cwd + 1 + height + menu + 1 <= rows
    BY <1>1, <1>5, <1>7
  <1> QED BY <1>8 DEF CwdGapRows, rows, header, cwd, menu, height

LEMMA FilledDocked ==
  ASSUME NEW u, Sound(u, u.peeked), Docked(u)
  PROVE  HeaderOf(u) + Layout(u).bodyRows + BottomSpacerRows(u, Layout(u)) + DockedRowsOf(u) = Rows(u)
  <1> DEFINE rows == Rows(u)
             header == HeaderOf(u)
             docked == DockedRowsOf(u)
             body == Layout(u).bodyRows
             spacer == BottomSpacerRows(u, Layout(u))
             n == Len(StructuralBodyRows(Entries(u), SafeColumns(u), Rows(u)))
             layout == ResolveHomeScreenLayout(rows, n, u.composerRows, CwdRows(u), MenuRowsOf(u), docked, header)
  <1>1. rows \in Nat /\ rows >= MinRows /\ header \in 0..HeaderRows /\ n \in Nat /\ body \in Nat
    BY Measures, EntriesOf, LayoutOf DEF MinRows, HeaderRows
  <1>2. docked = ResolveDockedPanelRows(rows, DockedRows) /\ DockedRows \in Nat \ {0}
    BY DEF DockedRowsOf, DockedRows
  <1>3. Layout(u) = layout
    BY DEF Layout, LayoutFor
  <1> HIDE DEF rows, header, docked, n
  <1>4. docked >= 1 /\ layout.bodyRows >= 1 /\ header + layout.bodyRows + docked <= rows
    BY <1>1, <1>2, PopupLeavesRoom
  <1>5. docked \in Int
    BY <1>1, <1>2 DEF ResolveDockedPanelRows, DockedRows, MaxHeightDivisor, HeaderRows
  <1>6. spacer = AtLeast(0, rows - header - body - (IF docked > 0 THEN docked
                   ELSE CwdGapRows + Layout(u).cwdRows + u.composerRows + 1 + MenuRowsOf(u)))
    BY DEF BottomSpacerRows, rows, header, docked
  <1> HIDE DEF layout
  <1>7. header + body + docked <= rows /\ docked > 0
    BY <1>3, <1>4, <1>5
  <1> HIDE DEF body, spacer
  <1>8. header \in 0..1
    BY <1>1 DEF HeaderRows
  <1>9. spacer = rows - header - body - docked
    BY <1>1, <1>5, <1>6, <1>7, <1>8
  <1>10. header + body + spacer + docked = rows
    BY <1>1, <1>5, <1>8, <1>9
  <1> QED BY <1>10 DEF rows, header, docked, body, spacer

LEMMA FilledHome ==
  ASSUME NEW u, Sound(u, u.peeked), Mounted(u), ComposerMounted(u), CwdLength <= 6 * MinColumns
  PROVE  HeaderOf(u) + Layout(u).bodyRows + BottomSpacerRows(u, Layout(u))
           + CwdGapRows + Layout(u).cwdRows + MenuRowsOf(u) + u.composerRows + 1 = Rows(u)
  <1> DEFINE rows == Rows(u)
             header == HeaderOf(u)
             cwd == CwdRows(u)
             menu == MenuRowsOf(u)
             height == u.composerRows
             body == Layout(u).bodyRows
             spacer == BottomSpacerRows(u, Layout(u))
             n == Len(StructuralBodyRows(Entries(u), SafeColumns(u), Rows(u)))
  <1>1. /\ rows \in Nat /\ header \in 0..1 /\ cwd \in Nat /\ menu \in Nat /\ height \in Int
        /\ n \in Nat /\ body \in Nat
    <2>1. height \in Int
      BY DEF Sound
    <2>2. rows \in Nat /\ header \in 0..1 /\ cwd \in Nat /\ menu \in 0..8
      BY Measures
    <2>3. n \in Nat /\ body \in Nat
      BY EntriesOf, LayoutOf
    <2> HIDE DEF rows, header, cwd, menu, height, n, body
    <2> QED BY <2>1, <2>2, <2>3
  <1>2. DockedRowsOf(u) = 0
    BY DEF ComposerMounted, DockedRowsOf, ResolveDockedPanelRows
  <1>3. Layout(u).cwdRows = cwd
    BY <1>2, LayoutOf
  <1>4. spacer = AtLeast(0, rows - header - body - (2 + cwd + height + 1 + menu))
    <2>1. ~(DockedRowsOf(u) > 0)
      BY <1>2
    <2> QED BY <1>3, <2>1 DEF BottomSpacerRows, CwdGapRows
  <1>5. body = AtLeast(1, AtMost(rows - (header + 2 + cwd + 1) - height - menu, n + 1))
    <2>1. body = ResolveHomeScreenLayout(rows, n, height, cwd, menu, 0, header).bodyRows
      BY <1>2 DEF Layout, LayoutFor
    <2>2. AtLeast(0, header) = header /\ AtLeast(0, cwd) = cwd
      BY <1>1
    <2> HIDE DEF body, rows, header, cwd, menu, height, n
    <2> QED BY <2>1, <2>2 DEF ResolveHomeScreenLayout, CwdGapRows
  <1>6. header + 2 + cwd + 1 + height + menu + 1 <= rows
    BY RoomLeft DEF CwdGapRows
  <1> HIDE DEF rows, header, cwd, menu, height, body, spacer, n
  <1>7. header + body + 2 + cwd + height + 1 + menu <= rows
    BY <1>1, <1>5, <1>6
  <1>8. spacer = rows - header - body - (2 + cwd + height + 1 + menu)
    BY <1>1, <1>4, <1>7
  <1>9. header + body + spacer + 2 + cwd + menu + height + 1 = rows
    BY <1>1, <1>8
  <1> QED BY <1>3, <1>9 DEF CwdGapRows, rows, header, cwd, menu, height, body, spacer

LEMMA ShownInMenu ==
  ASSUME NEW u, Sound(u, u.peeked), MenuRowsOf(u) > 1
  PROVE  HighlightShown(Matches(u), u.highlight, MenuRowsOf(u))
  <1>1. Matches(u) \in Seq(MenuEntry) /\ u.highlight \in Int /\ MenuRowsOf(u) \in Nat
    <2>1. MenuRowsOf(u) \in 0..8
      BY Measures
    <2> QED BY <2>1, FilteredAre DEF Matches, Sound
  <1>2. CASE Matches(u) = <<>>
    BY <1>2 DEF HighlightShown
  <1>3. CASE Matches(u) # <<>>
    <2>1. Len(Matches(u)) \in Nat \ {0}
      BY <1>1, <1>3
    <2> QED BY <1>1, <2>1, HighlightInMenu
  <1> QED BY <1>2, <1>3

LEMMA FitsNow ==
  ASSUME CwdLength <= 6 * MinColumns, Kept
  PROVE  ScreenFits
  <1> DEFINE layout == Layout(s)
             view == BodyView(s)
             above == HeaderOf(s) + layout.bodyRows + BottomSpacerRows(s, layout)
  <1> SUFFICES ASSUME HomeMounted(s)
      PROVE  /\ IF Docked(s)
                THEN above + DockedRowsOf(s) = Rows(s)
                ELSE above + CwdGapRows + layout.cwdRows + MenuRowsOf(s) + s.composerRows + 1 = Rows(s)
             /\ Len(RenderedRows(view)) <= view.visible
             /\ MenuRowsOf(s) > 1 => HighlightShown(Matches(s), s.highlight, MenuRowsOf(s))
             /\ Len(view.rows) > view.visible
                  => ScrollbarThumb(view).start + ScrollbarThumb(view).size <= view.visible
    BY DEF ScreenFits
  <1>1. Sound(s, s.peeked) /\ Mounted(s)
    BY DEF Kept
  <1>2. View(view)
    BY <1>1, ViewIs
  <1>3. Docked(s) => above + DockedRowsOf(s) = Rows(s)
    BY <1>1, FilledDocked
  <1>4. ~Docked(s) => above + CwdGapRows + layout.cwdRows + MenuRowsOf(s) + s.composerRows + 1 = Rows(s)
    BY <1>1, FilledHome DEF ComposerMounted
  <1> HIDE DEF view, above, layout
  <1> QED BY <1>1, <1>2, <1>3, <1>4, PaintedFit, ThumbOnTrack, ShownInMenu

\* The parts of the screen fill the terminal's rows exactly in every state of every run,
\* with the composer as high as its text makes it, the menu open or a popup docked, and
\* the header, the folder's line and an error coming and going; the menu shows the command
\* it would run and the scrollbar's thumb stays on its track.  The folder and the branch
\* must fit six lines of the narrowest terminal the program paints on: nothing cuts them,
\* and a seventh line beside a one-row composer with an error would be a row too many.
\* (layoutAtom, commandMenuRowsAtom, bottomSpacerRowsAtom)
THEOREM ScreenAlwaysFits ==
  ASSUME CwdLength <= 6 * MinColumns
  PROVE  Spec => []ScreenFits
  <1>1. Kept => ScreenFits
    BY FitsNow
  <1> QED BY <1>1, KeptStart, KeptStep, PTL DEF Spec

-----------------------------------------------------------------------------
(* A reader who has scrolled up *)

\* f[k] are the elements of q that are in K, of the first k.
Filters(q, K, f) ==
  /\ Only(q, K) = f[Len(q)] /\ f[0] = <<>>
  /\ \A k \in 1..Len(q) : f[k] = IF q[k] \in K THEN Append(f[k - 1], q[k]) ELSE f[k - 1]

LEMMA Filtered ==
  ASSUME NEW q \in Seq(Nat), NEW K
  PROVE  \E f : Filters(q, K, f)
  <1>1. PICK kept : /\ Only(q, K) = kept[Len(q)] /\ kept[0] = <<>>
                    /\ \A k \in 1..Len(q) :
                         kept[k] = IF q[k] \in K THEN Append(kept[k - 1], q[k]) ELSE kept[k - 1]
    BY OnlySteps
  <1>2. Filters(q, K, kept)
    BY <1>1, Zenon DEF Filters
  <1> QED BY <1>2, Zenon

\* The indices of T do not depend on how far past them one looks.
LEMMA SamePositions ==
  ASSUME NEW n \in Nat, NEW m \in Nat, n <= m, NEW T \in SUBSET (1..n)
  PROVE  Positions(m, T) = Positions(n, T)
  <1> DEFINE short == [i \in 1..n |-> i]
             long  == [i \in 1..m |-> i]
  <1>1. short \in Seq(Nat) /\ Len(short) = n /\ \A i \in 1..n : short[i] = i
    <2>1. short = [i \in 1..n |-> short[i]] /\ \A i \in 1..n : short[i] \in Nat
      OBVIOUS
    <2>2. \A i \in 1..n : short[i] = i
      OBVIOUS
    <2> HIDE DEF short
    <2> QED BY <2>1, <2>2, SeqOfN
  <1>2. long \in Seq(Nat) /\ Len(long) = m /\ \A i \in 1..m : long[i] = i
    <2>1. long = [i \in 1..m |-> long[i]] /\ \A i \in 1..m : long[i] \in Nat
      OBVIOUS
    <2>2. \A i \in 1..m : long[i] = i
      OBVIOUS
    <2> HIDE DEF long
    <2> QED BY <2>1, <2>2, SeqOfN
  <1> HIDE DEF short, long
  <1>3. PICK f : /\ Only(short, T) = f[n] /\ f[0] = <<>>
                 /\ \A k \in 1..n : f[k] = IF k \in T THEN Append(f[k - 1], k) ELSE f[k - 1]
    <2>1. PICK f : Filters(short, T, f)
      BY <1>1, Filtered
    <2>2. \A k \in 1..n : f[k] = IF k \in T THEN Append(f[k - 1], k) ELSE f[k - 1]
      BY <1>1, <2>1 DEF Filters
    <2> QED BY <1>1, <2>1, <2>2 DEF Filters
  <1>4. PICK g : /\ Only(long, T) = g[m] /\ g[0] = <<>>
                 /\ \A k \in 1..m : g[k] = IF k \in T THEN Append(g[k - 1], k) ELSE g[k - 1]
    <2>1. PICK g : Filters(long, T, g)
      BY <1>2, Filtered
    <2>2. \A k \in 1..m : g[k] = IF k \in T THEN Append(g[k - 1], k) ELSE g[k - 1]
      BY <1>2, <2>1 DEF Filters
    <2> QED BY <1>2, <2>1, <2>2 DEF Filters
  <1> DEFINE same == {k \in 0..m : g[k] = f[AtMost(k, n)]}
  <1>5. 0 \in same
    BY <1>3, <1>4
  <1>6. ASSUME NEW k \in 1..m, k - 1 \in same PROVE k \in same
    <2>1. g[k - 1] = f[AtMost(k - 1, n)]
      BY <1>6
    <2>2. CASE k <= n
      <3>1. AtMost(k, n) = k /\ AtMost(k - 1, n) = k - 1 /\ k \in 1..n
        BY <2>2
      <3>2. g[k] = f[k]
        BY <1>3, <1>4, <2>1, <3>1
      <3> QED BY <3>1, <3>2
    <2>3. CASE k > n
      <3>1. AtMost(k, n) = n /\ AtMost(k - 1, n) = n /\ k \notin T
        BY <2>3
      <3>2. g[k] = f[n]
        BY <1>4, <2>1, <3>1
      <3> QED BY <3>1, <3>2
    <2> QED BY <2>2, <2>3
  <1>7. m \in same
    <2> HIDE DEF same
    <2>1. 0..m \subseteq same
      BY <1>5, <1>6, InductionUpTo
    <2> QED BY <2>1
  <1>8. g[m] = f[n]
    BY <1>7
  <1> QED BY <1>3, <1>4, <1>8 DEF Positions, short, long

\* What a copy takes is in the rows the selection spans.
LEMMA SameSelected ==
  ASSUME NEW a \in Seq(Painted), NEW b \in Seq(Painted), NEW end \in Nat,
         end <= Len(a), end <= Len(b), \A i \in 1..end : a[i] = b[i],
         NEW selection \in Selections, SelectionBounds(selection).end.row < end
  PROVE  SelectedText(b, selection) = SelectedText(a, selection)
  <1> DEFINE bounds == SelectionBounds(selection)
             span == bounds.start.row..bounds.end.row
             at(rows) == {i \in DOMAIN rows : i - 1 \in span /\ ~rows[i].decorative}
             taken(rows) == Positions(Len(rows), at(rows))
             part(rows, i) == [text |-> Fragment(rows[i], i - 1, bounds), more |-> rows[i].more]
             parts(rows) == [k \in DOMAIN taken(rows) |-> part(rows, taken(rows)[k])]
  <1>1. bounds.start.row \in Int /\ bounds.end.row \in Int
    BY DEF SelectionBounds, Selections, Place
  <1>2. Len(a) \in Nat /\ Len(b) \in Nat /\ DOMAIN a = 1..Len(a) /\ DOMAIN b = 1..Len(b)
    OBVIOUS
  <1>3. \A i \in Int : i - 1 \in span => i <= end
    <2> HIDE DEF bounds
    <2>1. bounds.end.row < end
      BY DEF bounds
    <2> QED BY <1>1, <2>1
  <1> HIDE DEF span
  <1>4. at(a) = at(b) /\ at(a) \in SUBSET (1..end)
    BY <1>2, <1>3
  <1>5. taken(a) = taken(b)
    <2> DEFINE T == at(a)
    <2>1. T \in SUBSET (1..end) /\ at(b) = T
      BY <1>4
    <2> HIDE DEF T
    <2>2. Positions(Len(a), T) = Positions(end, T) /\ Positions(Len(b), T) = Positions(end, T)
      BY <1>2, <2>1, SamePositions
    <2>3. taken(a) = Positions(Len(a), T) /\ taken(b) = Positions(Len(b), T)
      BY <2>1, Zenon DEF T
    <2> QED BY <2>2, <2>3, Zenon
  <1>6. \A k \in DOMAIN taken(a) : taken(a)[k] \in 1..end
    <2>1. \A k \in DOMAIN taken(a) : taken(a)[k] \in at(a)
      BY <1>2, PositionsIs
    <2> HIDE DEF taken, at
    <2> QED BY <1>4, <2>1
  <1> HIDE DEF taken
  <1>7. parts(a) = parts(b)
    <2>1. \A i \in 1..end : part(a, i) = part(b, i)
      OBVIOUS
    <2>2. \A k \in DOMAIN taken(a) : part(a, taken(a)[k]) = part(b, taken(b)[k])
      <3> HIDE DEF part
      <3> QED BY <1>5, <1>6, <2>1, Zenon
    <2> HIDE DEF part
    <2> QED BY <1>5, <2>2, Zenon
  <1>8. \A rows : SelectedText(rows, selection) =
                    IF selection = NoSelection \/ IsSelectionEmpty(bounds) THEN <<>> ELSE JoinParts(parts(rows))
    BY Zenon DEF SelectedText, taken, part, at, span, bounds
  <1> HIDE DEF parts, bounds
  <1> QED BY <1>7, <1>8, Zenon

\* The window of a reader who has scrolled up starts where it started, and ends no
\* earlier, once the transcript has grown or shrunk below it.
LEMMA WindowHeld ==
  ASSUME NEW visible \in Nat \ {0}, NEW total \in Nat, NEW grown \in Nat, NEW offset \in Nat \ {0},
         NEW next, next > 0,
         next = ResolveFollowScrollOffset(offset, AtLeast(0, total - visible), AtLeast(0, grown - visible)),
         BodyWindow(total, visible, offset).end <= grown
  PROVE  /\ BodyWindow(grown, visible, next).startIndex = BodyWindow(total, visible, offset).startIndex
         /\ BodyWindow(total, visible, offset).end <= BodyWindow(grown, visible, next).end
  <1>1. grown > visible
    BY DEF ResolveFollowScrollOffset
  <1>2. next = Clamp(offset + (grown - visible) - AtLeast(0, total - visible), 0, grown - visible)
    BY <1>1 DEF ResolveFollowScrollOffset
  <1>3. next \in 1..(grown - visible)
    BY <1>1, <1>2
  <1>4. /\ BodyWindow(grown, visible, next).end = grown - next
        /\ BodyWindow(grown, visible, next).startIndex = grown - next - visible
    BY <1>1, <1>3 DEF BodyWindow
  <1>5. CASE total <= visible
    <2>1. next = grown - visible
      BY <1>2, <1>3, <1>5
    <2>2. BodyWindow(total, visible, offset).end = total /\ BodyWindow(total, visible, offset).startIndex = 0
      BY <1>5 DEF BodyWindow
    <2> QED BY <1>4, <1>5, <2>1, <2>2
  <1>6. CASE total > visible
    <2> DEFINE held == AtMost(offset, total - visible)
    <2>1. held \in 1..(total - visible)
      BY <1>6
    <2>2. /\ BodyWindow(total, visible, offset).end = total - held
          /\ BodyWindow(total, visible, offset).startIndex = total - held - visible
      BY <1>6 DEF BodyWindow
    <2>3. total - held <= grown
      BY <2>2
    <2>4. next = grown - (total - held)
      <3>1. CASE offset <= total - visible
        BY <1>1, <1>2, <1>6, <2>3, <3>1
      <3>2. CASE offset > total - visible
        BY <1>1, <1>2, <1>6, <3>2
      <3> QED BY <3>1, <3>2
    <2> HIDE DEF held
    <2> QED BY <1>4, <2>1, <2>2, <2>4
  <1> QED BY <1>5, <1>6

\* Where nothing was said there are no rows.
LEMMA NoRows ==
  ASSUME NEW u, NEW p, Sound(u, p), u.queue = <<>>, u.notices = <<>>
  PROVE  MaxBodyOffset(u) = 0
  <1> DEFINE queue == u.queue
             notices == u.notices
             turns == [i \in DOMAIN queue |-> [sequence |-> queue[i].sequence,
                                               entries |-> BuildItemEntries(queue[i])]]
             notes == [i \in DOMAIN notices |-> [sequence |-> notices[i].sequence,
                                                 entries |-> <<Result("error", notices[i].text)>>]]
             groups == InOrder(turns \o notes)
             ss == [k \in DOMAIN groups |-> groups[k].entries]
  <1>1. ComposeTranscriptRows(queue, notices) = FlattenSeq(ss)
    BY DEF ComposeTranscriptRows, FlatMap
  <1>2. turns = <<>> /\ notes = <<>>
    <2>1. DOMAIN queue = {} /\ DOMAIN notices = {}
      OBVIOUS
    <2> HIDE DEF queue, notices
    <2>2. DOMAIN turns = {} /\ DOMAIN notes = {}
      BY <2>1
    <2>3. \A i \in 1..0 : FALSE
      OBVIOUS
    <2>4. turns \in Seq({}) /\ Len(turns) = 0 /\ notes \in Seq({}) /\ Len(notes) = 0
      <3>1. 0 \in Nat /\ 1..0 = {}
        OBVIOUS
      <3>2. turns = [i \in 1..0 |-> turns[i]] /\ notes = [i \in 1..0 |-> notes[i]]
        BY <2>1, <3>1
      <3> HIDE DEF turns, notes
      <3> QED BY <3>1, <3>2, SeqOfN
    <2> HIDE DEF turns, notes
    <2> QED BY <2>4
  <1> HIDE DEF turns, notes, queue, notices
  <1>3. turns \o notes = <<>>
    BY <1>2
  <1>4. groups = <<>>
    <2>1. InOrder(<<>>) = <<>>
      BY DEF InOrder
    <2> QED BY <1>3, <2>1, Zenon
  <1>5. ss = <<>>
    <2> HIDE DEF groups
    <2> QED BY <1>4
  <1>6. FlattenSeq(<<>>) = <<>>
    BY DEF FlattenSeq
  <1>7. Entries(u) = <<>>
    BY <1>1, <1>5, <1>6, Zenon DEF Entries, queue, notices
  <1>8. \A columns : RowsOf(<<>>, columns) = <<>>
    <2>1. ASSUME NEW columns PROVE RowsOf(<<>>, columns) = <<>>
      <3> DEFINE rr == [k \in DOMAIN <<>> |-> ToBodyRows((<<>>)[k], columns)]
      <3>1. RowsOf(<<>>, columns) = FlattenSeq(rr)
        BY DEF RowsOf, FlatMap
      <3>2. rr = <<>>
        OBVIOUS
      <3> QED BY <1>6, <3>1, <3>2, Zenon
    <2> QED BY <2>1
  <1>9. \A visible : StructuralBodyRows(Entries(u), SafeColumns(u), visible) = <<>>
    BY <1>7, <1>8 DEF StructuralBodyRows, WrapAgain
  <1>10. Layout(u).bodyRows \in Nat
    BY LayoutOf
  <1>11. BodyView(u).rows = <<>> /\ BodyView(u).visible = Layout(u).bodyRows
    BY <1>9 DEF BodyView, BodyViewAt, BodyViewOf
  <1> QED BY <1>10, <1>11 DEF MaxBodyOffset, MaxOffsetOf

\* What the view of the transcript depends on, besides how far it is scrolled.
SameRoom(u, v) ==
  /\ v.term = u.term /\ v.queue = u.queue /\ v.notices = u.notices
  /\ Docked(v) = Docked(u) /\ MenuOpen(v) = MenuOpen(u)
  /\ Docked(u) \/ v.composerRows = u.composerRows

LEMMA SameView ==
  ASSUME NEW u, NEW p, Sound(u, p), NEW v, NEW q, Sound(v, q), SameRoom(u, v)
  PROVE  /\ BodyView(v).rows = BodyView(u).rows /\ BodyView(v).visible = BodyView(u).visible
         /\ MaxBodyOffset(v) = MaxBodyOffset(u)
  <1>1. /\ Rows(v) = Rows(u) /\ SafeColumns(v) = SafeColumns(u) /\ Entries(v) = Entries(u)
        /\ HeaderOf(v) = HeaderOf(u)
    BY Zenon DEF SameRoom, Rows, SafeColumns, Entries, HeaderOf
  <1>2. DockedRowsOf(v) = DockedRowsOf(u) /\ CwdRows(v) = CwdRows(u)
    BY <1>1, Zenon DEF SameRoom, DockedRowsOf, CwdRows
  <1> DEFINE n == Len(StructuralBodyRows(Entries(u), SafeColumns(u), Rows(u)))
  <1>3. Layout(u) = LayoutFor(u, n) /\ Layout(v) = LayoutFor(v, n)
    BY <1>1, Zenon DEF Layout
  <1> HIDE DEF n
  <1>4. Layout(v).bodyRows = Layout(u).bodyRows
    <2>1. CASE Docked(u)
      <3>1. DockedRowsOf(u) > 0
        <4>1. Rows(u) \in Nat /\ Rows(u) >= 15
          BY Measures
        <4> QED BY <2>1, <4>1 DEF DockedRowsOf, ResolveDockedPanelRows, DockedRows, MaxHeightDivisor, HeaderRows
      <3> QED BY <1>1, <1>2, <1>3, <3>1 DEF LayoutFor, ResolveHomeScreenLayout
    <2>2. CASE ~Docked(u)
      <3>1. v.composerRows = u.composerRows
        BY <2>2 DEF SameRoom
      <3>2. MenuRowsOf(v) = MenuRowsOf(u)
        BY <1>1, <1>2, <3>1, Zenon DEF SameRoom, MenuRowsOf
      <3>3. Layout(v) = Layout(u)
        BY <1>1, <1>2, <1>3, <3>1, <3>2, Zenon DEF LayoutFor
      <3> QED BY <3>3
    <2> QED BY <2>1, <2>2
  <1>5. BodyView(v).rows = BodyView(u).rows /\ BodyView(v).visible = BodyView(u).visible
    BY <1>1, <1>4 DEF BodyView, BodyViewAt, BodyViewOf
  <1> QED BY <1>5, Zenon DEF MaxBodyOffset, MaxOffsetOf

\* Every event of the transcript replaces its turns, and one may also hand back the prompt
\* and open a panel.
LEMMA EventIs ==
  ASSUME Kept, NEW i, TranscriptEvent(i)
  PROVE  \E queue \in Seq(Turns) :
           LET v == ApplyTranscriptEvent(Spend("events"), queue)
           IN  \/ Commit(v)
               \/ \E text \in Text : Commit([v EXCEPT !.restore = text, !.surface = "docked"])
  <1> DEFINE u == Spend("events")
             active == [k \in DOMAIN s.queue |->
               IF k \in Unsettled(s)
               THEN [s.queue[k] EXCEPT !.state = IF k = i THEN "active" ELSE "queued"]
               ELSE s.queue[k]]
             longer == [s.queue EXCEPT ![i].stream = @ \o Chunk]
             removed == RemoveAt(s.queue, i)
             refused == Settle(s, i, Result("error", <<"E">>))
             Of(queue) == LET v == ApplyTranscriptEvent(u, queue)
                          IN  \/ Commit(v)
                              \/ \E text \in Text : Commit([v EXCEPT !.restore = text, !.surface = "docked"])
  <1>1. Sound(s, s.peeked)
    BY DEF Kept
  <1>2. i \in Unsettled(s)
    BY DEF TranscriptEvent, ActivateTurn, AppendDelta, SettleTurn, SettleUnauthorised, RemoveTurn
  <1>3. /\ Result("assistant", Answer) \in Entry /\ Result("muted", <<"E">>) \in Entry
        /\ Result("error", <<"E">>) \in Entry
    <2>1. <<"E">> \in Text
      BY ChromeAssumption DEF Text
    <2> QED BY <2>1, InputAssumption DEF Result, Entry, Kind
  <1>4. \A result \in Entry : Settle(s, i, result) \in Seq(Turns)
    BY <1>1, <1>2, QueuesAre
  <1>5. active \in Seq(Turns) /\ longer \in Seq(Turns) /\ removed \in Seq(Turns) /\ s.queue[i] \in Turns
    BY <1>1, <1>2, <1>3, QueuesAre
  <1>6. refused \in Seq(Turns)
    BY <1>3, <1>4
  <1>7. s.queue[i].text \in Text
    BY <1>5 DEF Turns
  <1>8. ActivateTurn(i) => Of(active)
    BY DEF ActivateTurn
  <1>9. AppendDelta(i) => Of(longer)
    BY DEF AppendDelta
  <1>10. RemoveTurn(i) => Of(removed)
    BY DEF RemoveTurn
  <1>11. \A result : SettleTurn(i, result) => Of(Settle(s, i, result))
    BY DEF SettleTurn
  <1>12. SettleUnauthorised(i) => Of(refused)
    BY <1>7 DEF SettleUnauthorised
  <1> HIDE DEF active, longer, removed, refused, Of
  <1>13. \E queue \in Seq(Turns) : Of(queue)
    BY <1>3, <1>4, <1>5, <1>6, <1>8, <1>9, <1>10, <1>11, <1>12 DEF TranscriptEvent
  <1> QED BY <1>13 DEF Of

\* The event's own part of the state, before the composer's effects.
LEMMA EventFields ==
  ASSUME Sound(s, s.peeked), NEW queue \in Seq(Turns)
  PROVE  LET u == Spend("events")
             v == ApplyTranscriptEvent(u, queue)
             w == [u EXCEPT !.queue = queue]
         IN  /\ \A f \in ScreenFields \ {"budget"} : u[f] = s[f]
             /\ \A f \in ScreenFields \ {"budget", "queue", "bodyOffset"} : v[f] = s[f]
             /\ \A f \in ScreenFields \ {"bodyOffset"} : v[f] = w[f]
             /\ v.queue = queue
             /\ v.bodyOffset = ResolveFollowScrollOffset(s.bodyOffset, MaxBodyOffset(u), MaxBodyOffset(w))
  <1> DEFINE u == Spend("events")
             w == [u EXCEPT !.queue = queue]
             offset == ResolveFollowScrollOffset(w.bodyOffset, MaxBodyOffset(u), MaxBodyOffset(w))
             v == [w EXCEPT !.bodyOffset = offset]
  <1>1. ApplyTranscriptEvent(u, queue) = v
    BY DEF ApplyTranscriptEvent
  <1>2. DOMAIN s = ScreenFields
    BY DEF Sound
  <1>3. DOMAIN u = ScreenFields /\ \A f \in ScreenFields \ {"budget"} : u[f] = s[f]
    BY <1>2 DEF Spend
  <1> HIDE DEF u
  <1>4. /\ DOMAIN w = ScreenFields /\ w.queue = queue
        /\ \A f \in ScreenFields \ {"queue"} : w[f] = u[f]
    BY <1>3 DEF ScreenFields
  <1> HIDE DEF w
  <1>5. v.bodyOffset = offset /\ \A f \in ScreenFields \ {"bodyOffset"} : v[f] = w[f]
    <2> HIDE DEF offset
    <2> QED BY <1>4 DEF ScreenFields
  <1>6. w.bodyOffset = s.bodyOffset
    BY <1>3, <1>4 DEF ScreenFields
  <1> HIDE DEF v
  <1>7. \A f \in ScreenFields \ {"budget", "queue", "bodyOffset"} : v[f] = s[f]
    BY <1>3, <1>4, <1>5
  <1>8. v.queue = queue
    BY <1>4, <1>5 DEF ScreenFields
  <1> QED BY <1>1, <1>3, <1>5, <1>6, <1>7, <1>8 DEF w, u, offset

\* A repaint leaves what is not the composer's or a gesture's.
Unpainted == ScreenFields \ {"composer", "composerRows", "peeked", "restore", "unannounced",
                             "region", "lastPress", "boundsLocked"}

LEMMA RepaintLeaves ==
  ASSUME NEW u, NEW p, Sound(u, p)
  PROVE  \A f \in Unpainted : Repaint(s, u)[f] = u[f]
  <1>1. DOMAIN u = ScreenFields
    BY DEF Sound
  <1>2. DOMAIN RestoreDraft(u) = ScreenFields /\ \A f \in Unpainted : RestoreDraft(u)[f] = u[f]
    BY <1>1 DEF RestoreDraft, Unpainted
  <1>3. \A f \in Unpainted : LeaveHome(u)[f] = u[f]
    BY <1>1 DEF LeaveHome, Unpainted
  <1> DEFINE r == RestoreDraft(u)
  <1>4. \A f \in Unpainted : ComposerEffects(s, r)[f] = r[f]
    <2> DEFINE offset == ScrollIntoView(s, r)
               w == [r EXCEPT !.composer.offset = offset]
               rows == CountVisibleComposerRows(ComposerWindow(w).rows, w.composer.error)
               peeked == ~CaretMoved(s, w) /\ (w.peeked \/ WindowChanged(s, w))
    <2>1. ComposerEffects(s, r) = [w EXCEPT !.peeked = peeked, !.composerRows = rows]
      BY DEF ComposerEffects, ReportRows
    <2>2. DOMAIN w = ScreenFields /\ \A f \in Unpainted : w[f] = r[f]
      <3> HIDE DEF offset, r
      <3> QED BY <1>2 DEF Unpainted, r
    <2> HIDE DEF w, peeked, rows, r
    <2> QED BY <2>1, <2>2 DEF Unpainted
  <1>5. Repaint(s, u) \in {ComposerEffects(s, r), u, LeaveHome(u)}
    BY DEF Repaint
  <1> HIDE DEF r
  <1> QED BY <1>2, <1>3, <1>4, <1>5 DEF r

\* The composer's rows are what its text fills of what the layout lets it have.
LEMMA RowsFilled ==
  ASSUME NEW u, NEW p, Sound(u, p)
  PROVE  ComposerWindow(u).rows
           = AtMost(Len(WrapPromptText(u.composer.text, InputColumns(u))), ComposerVisibleRows(u))
  <1> DEFINE visible == ComposerVisibleRows(u)
  <1>1. visible \in Nat \ {0} /\ Caret(u.composer)
    BY LayoutOf DEF Sound
  <1>2. ComposerWindow(u) = ResolveComposerWindow(u.composer, InputColumns(u), visible)
    BY DEF ComposerWindow
  <1> HIDE DEF visible
  <1> QED BY <1>1, <1>2, WindowIs DEF visible

\* A composer without a caret moved keeps its height if the layout lets it.
LEMMA SameHeight ==
  ASSUME Sound(s, s.peeked), Mounted(s), ComposerMounted(s),
         NEW v, NEW p, Sound(v, p), ComposerMounted(v), v.restore = s.restore,
         v.composer = s.composer, v.term = s.term, v.locked = s.locked, v.dismissed = s.dismissed,
         HeaderOf(v) = HeaderOf(s)
  PROVE  /\ Repaint(s, v).composerRows = s.composerRows
         /\ Repaint(s, v).composer.text = s.composer.text
  <1> DEFINE offset == ScrollIntoView(s, v)
             w == [v EXCEPT !.composer.offset = offset]
             rows == CountVisibleComposerRows(ComposerWindow(w).rows, w.composer.error)
             peeked == ~CaretMoved(s, w) /\ (w.peeked \/ WindowChanged(s, w))
  <1>1. RestoreDraft(v) = v
    BY DEF Mounted, RestoreDraft
  <1>2. Repaint(s, v) = [w EXCEPT !.peeked = peeked, !.composerRows = rows]
    BY <1>1 DEF Repaint, ComposerEffects, ReportRows
  <1>3. offset \in Int
    <2>1. offset = s.composer.offset
      BY DEF ScrollIntoView, CaretMoved
    <2> QED BY <2>1 DEF Sound, Caret
  <1> HIDE DEF offset
  <1>4. /\ Sound(w, p) /\ \A f \in ScreenFields \ {"composer"} : w[f] = v[f]
        /\ w.composer = [v.composer EXCEPT !.offset = offset] /\ w.composer.text = v.composer.text
    BY <1>3, WithOffset
  <1> HIDE DEF w, peeked
  <1>5. w.composer.error = s.composer.error
    <2>1. DOMAIN s.composer = ComposerFields
      BY DEF Sound, Caret
    <2> QED BY <1>4, <2>1 DEF ComposerFields
  <1>6. /\ w.term = s.term /\ w.locked = s.locked /\ w.dismissed = s.dismissed
        /\ w.queue = v.queue /\ w.notices = v.notices /\ w.popup = v.popup /\ w.surface = v.surface
    BY <1>4, Zenon DEF ScreenFields
  <1>7. InputColumns(w) = InputColumns(s) /\ Rows(w) = Rows(s) /\ SafeColumns(w) = SafeColumns(s)
    BY <1>6, Zenon DEF InputColumns, SafeColumns, Rows
  <1>8. HeaderOf(w) = HeaderOf(s) /\ MenuOpen(w) = MenuOpen(s) /\ ~Docked(w) /\ ~Docked(s)
    <2>1. HeaderOf(w) = HeaderOf(v)
      BY <1>6, Zenon DEF HeaderOf
    <2>2. MenuOpen(w) = MenuOpen(s)
      BY <1>4, <1>6, Zenon DEF MenuOpen
    <2>3. ~Docked(w) /\ ~Docked(s)
      BY <1>6 DEF ComposerMounted, Docked
    <2> QED BY <2>1, <2>2, <2>3
  <1>9. CwdRows(w) = CwdRows(s) /\ DockedRowsOf(w) = DockedRowsOf(s)
    BY <1>7, <1>8 DEF CwdRows, DockedRowsOf
  <1>10. ComposerVisibleRows(w) = ComposerVisibleRows(s)
    BY <1>7, <1>8, <1>9 DEF ComposerVisibleRows, LayoutFor, ResolveHomeScreenLayout
  <1>11. ComposerWindow(w).rows = ComposerWindow(s).rows
    <2> DEFINE tall(u) == AtMost(Len(WrapPromptText(u.composer.text, InputColumns(u))), ComposerVisibleRows(u))
    <2>1. ComposerWindow(w).rows = tall(w) /\ ComposerWindow(s).rows = tall(s)
      BY <1>4, RowsFilled
    <2>2. tall(w) = tall(s)
      BY <1>4, <1>7, <1>10
    <2> HIDE DEF tall
    <2> QED BY <2>1, <2>2
  <1>12. rows = s.composerRows
    BY <1>5, <1>11 DEF Mounted
  <1>13. DOMAIN w = ScreenFields
    BY <1>4 DEF Sound
  <1> HIDE DEF rows
  <1> QED BY <1>2, <1>4, <1>12, <1>13 DEF ScreenFields

LEMMA EventHolds ==
  ASSUME Kept, NEW i \in DOMAIN s.queue, TranscriptEvent(i), s.bodyOffset > 0, s'.bodyOffset > 0,
         HomeMounted(s), HomeMounted(s'), Docked(s) = Docked(s')
  PROVE  /\ s'.selection = s.selection
         /\ s'.bodyOffset = ResolveFollowScrollOffset(s.bodyOffset, MaxBodyOffset(s), MaxBodyOffset(s'))
  <1>1. Sound(s, s.peeked) /\ Mounted(s) /\ Sound(s', s'.peeked)
    <2>1. Kept'
      BY EventKept
    <2> QED BY <2>1 DEF Kept
  <1> DEFINE u == Spend("events")
  <1>2. PICK queue \in Seq(Turns) :
          LET v == ApplyTranscriptEvent(u, queue)
          IN  \/ Commit(v)
              \/ \E text \in Text : Commit([v EXCEPT !.restore = text, !.surface = "docked"])
    BY EventIs
  <1> DEFINE v == ApplyTranscriptEvent(u, queue)
             w == [u EXCEPT !.queue = queue]
  <1>3. Sound(u, s.peeked) /\ Sound(v, s.peeked) /\ Sound(w, s.peeked)
    <2>1. Sound(u, s.peeked)
      BY <1>1, SpendSound
    <2> HIDE DEF u
    <2> QED BY <2>1, FollowedSound, NewQueue
  <1>4. /\ \A f \in ScreenFields \ {"budget"} : u[f] = s[f]
        /\ \A f \in ScreenFields \ {"budget", "queue", "bodyOffset"} : v[f] = s[f]
        /\ \A f \in ScreenFields \ {"bodyOffset"} : v[f] = w[f]
        /\ v.queue = queue
        /\ v.bodyOffset = ResolveFollowScrollOffset(s.bodyOffset, MaxBodyOffset(u), MaxBodyOffset(w))
    BY <1>1, EventFields
  <1> HIDE DEF u, v, w
  <1>5. PICK x : /\ Commit(x) /\ Sound(x, s.peeked)
                 /\ x = v \/ x.surface = "docked"
                 /\ \A f \in ScreenFields \ {"restore", "surface"} : x[f] = v[f]
    <2>1. CASE Commit(v)
      BY <1>3, <2>1
    <2>2. CASE \E text \in Text : Commit([v EXCEPT !.restore = text, !.surface = "docked"])
      <3>1. PICK text \in Text : Commit([v EXCEPT !.restore = text, !.surface = "docked"])
        BY <2>2
      <3> DEFINE y == [v EXCEPT !.restore = text, !.surface = "docked"]
      <3>2. Sound(y, s.peeked) /\ y.surface = "docked"
            /\ \A f \in ScreenFields \ {"restore", "surface"} : y[f] = v[f]
        BY <1>3 DEF Sound, ScreenFields
      <3>3. Commit(y)
        BY <3>1
      <3> HIDE DEF y
      <3> QED BY <3>2, <3>3
    <2> QED BY <1>2, <2>1, <2>2 DEF v
  <1>6. s' = Repaint(s, x)
    BY <1>5 DEF Commit
  <1>7. \A f \in Unpainted : s'[f] = x[f]
    BY <1>5, <1>6, RepaintLeaves
  <1>8. /\ s'.term = s.term /\ s'.exited = s.exited /\ s'.popup = s.popup /\ s'.locked = s.locked
        /\ s'.dismissed = s.dismissed /\ s'.notices = s.notices /\ s'.selection = s.selection
        /\ s'.queue = queue /\ s'.bodyOffset = v.bodyOffset /\ s'.surface = x.surface
    <2>1. \A f \in Unpainted \ {"budget", "queue", "bodyOffset", "surface"} : s'[f] = s[f]
      BY <1>4, <1>5, <1>7 DEF Unpainted
    <2>2. s'.queue = queue /\ s'.bodyOffset = v.bodyOffset /\ s'.surface = x.surface
      BY <1>4, <1>5, <1>7 DEF Unpainted, ScreenFields
    <2> QED BY <2>1, <2>2 DEF Unpainted, ScreenFields
  <1>9. /\ x.term = s.term /\ x.exited = s.exited /\ x.popup = s.popup
    BY <1>4, <1>5 DEF ScreenFields
  <1>10. /\ w.term = s.term /\ w.popup = s.popup /\ w.surface = s.surface /\ w.locked = s.locked
         /\ w.dismissed = s.dismissed /\ w.notices = s.notices /\ w.queue = queue
         /\ w.composer = s.composer /\ w.composerRows = s.composerRows
    BY <1>4 DEF ScreenFields
  <1>11. MaxBodyOffset(u) = MaxBodyOffset(s)
    <2>1. SameRoom(s, u)
      <3>1. /\ u.term = s.term /\ u.queue = s.queue /\ u.notices = s.notices /\ u.popup = s.popup
            /\ u.surface = s.surface /\ u.composer = s.composer /\ u.locked = s.locked
            /\ u.dismissed = s.dismissed /\ u.composerRows = s.composerRows
        BY <1>4 DEF ScreenFields
      <3> QED BY <3>1, Zenon DEF SameRoom, Docked, MenuOpen
    <2> QED BY <1>1, <1>3, <2>1, SameView
  <1>12. Docked(w) = Docked(s) /\ Docked(s') = Docked(x)
    BY <1>8, <1>9, <1>10 DEF Docked
  <1>13. SameRoom(w, s')
    <2>1. CASE Docked(s)
      <3>1. Docked(x)
        BY <1>12, <2>1
      <3>2. s' \in {x, LeaveHome(x)}
        BY <1>6, <3>1 DEF Repaint, ComposerMounted
      <3>3. s'.composer = x.composer
        <4>1. LeaveHome(x).composer = x.composer
          <5>1. DOMAIN x = ScreenFields
            BY <1>5 DEF Sound
          <5> QED BY <5>1 DEF LeaveHome, ScreenFields
        <4> QED BY <3>2, <4>1
      <3>4. s'.composer = w.composer
        BY <1>4, <1>5, <3>3 DEF ScreenFields
      <3>5. MenuOpen(s') = MenuOpen(w)
        BY <1>8, <1>10, <3>4, Zenon DEF MenuOpen
      <3> QED BY <1>8, <1>10, <1>12, <2>1, <3>5 DEF SameRoom
    <2>2. CASE ~Docked(s)
      <3>1. x = v
        BY <1>5, <1>12, <2>2 DEF Docked
      <3>2. /\ v.surface = s.surface /\ v.restore = s.restore /\ v.composer = s.composer
            /\ v.locked = s.locked /\ v.dismissed = s.dismissed /\ v.notices = s.notices
        BY <1>4 DEF ScreenFields
      <3>3. ComposerMounted(s) /\ ComposerMounted(v)
        BY <1>9, <2>2, <3>1, <3>2 DEF ComposerMounted, HomeMounted, TooSmall, Docked
      <3>4. HeaderOf(v) = HeaderOf(s)
        <4>1. HeaderOf(s) = 0
          BY DEF HeaderOf
        <4>2. HeaderOf(v) = 0
          <5> SUFFICES ASSUME HeaderOf(v) # 0 PROVE FALSE
            OBVIOUS
          <5>1. v.queue = <<>> /\ v.notices = <<>>
            BY DEF HeaderOf
          <5>2. MaxBodyOffset(w) = 0
            BY <1>3, <1>4, <1>10, <3>2, <5>1, NoRows
          <5>3. MaxBodyOffset(u) \in Nat /\ s.bodyOffset \in Nat
            BY <1>1, <1>3, ViewIs DEF Sound
          <5>4. v.bodyOffset = 0
            BY <1>4, <5>2, <5>3 DEF ResolveFollowScrollOffset
          <5> QED BY <1>8, <5>4
        <4> QED BY <4>1, <4>2
      <3>5. s'.composerRows = s.composerRows /\ s'.composer.text = s.composer.text
        BY <1>1, <1>3, <1>6, <1>9, <3>1, <3>2, <3>3, <3>4, SameHeight
      <3>6. MenuOpen(s') = MenuOpen(w)
        BY <1>8, <1>10, <3>5, Zenon DEF MenuOpen
      <3> QED BY <1>8, <1>10, <1>12, <3>5, <3>6 DEF SameRoom
    <2> QED BY <2>1, <2>2
  <1>14. MaxBodyOffset(s') = MaxBodyOffset(w)
    BY <1>1, <1>3, <1>13, SameView
  <1> QED BY <1>4, <1>8, <1>11, <1>14

LEMMA ViewHeld ==
  ASSUME NEW old, View(old), NEW new, View(new), new.visible = old.visible,
         NEW offset \in Nat \ {0}, NEW next, next > 0,
         next = ResolveFollowScrollOffset(offset, MaxOffsetOf(old), MaxOffsetOf(new)),
         old.window = BodyWindow(Len(old.rows), old.visible, offset),
         new.window = BodyWindow(Len(new.rows), new.visible, next),
         old.window.end <= Len(new.rows)
  PROVE  /\ new.window.startIndex = old.window.startIndex
         /\ old.window.end <= new.window.end
  <1> DEFINE visible == old.visible
             total == Len(old.rows)
             grown == Len(new.rows)
  <1>1. visible \in Nat \ {0} /\ total \in Nat /\ grown \in Nat
    BY DEF View
  <1>2. next = ResolveFollowScrollOffset(offset, AtLeast(0, total - visible), AtLeast(0, grown - visible))
    BY DEF MaxOffsetOf
  <1>3. old.window = BodyWindow(total, visible, offset) /\ new.window = BodyWindow(grown, visible, next)
    OBVIOUS
  <1>4. BodyWindow(total, visible, offset).end <= grown
    BY <1>3
  <1> HIDE DEF visible, total, grown
  <1>5. /\ BodyWindow(grown, visible, next).startIndex = BodyWindow(total, visible, offset).startIndex
        /\ BodyWindow(total, visible, offset).end <= BodyWindow(grown, visible, next).end
    BY <1>1, <1>2, <1>4, WindowHeld
  <1> QED BY <1>3, <1>5

LEMMA ReaderKept ==
  ASSUME Kept, NEW i \in DOMAIN s.queue, TranscriptEvent(i), s.bodyOffset > 0, s'.bodyOffset > 0,
         HomeMounted(s), HomeMounted(s'), Docked(s) = Docked(s'),
         NEW old, NEW new, old = BodyView(s), new = BodyView(s'), SameAbove(old, new)
  PROVE  /\ new.window.startIndex = old.window.startIndex
         /\ IsPrefix(SubSeq(old.rows, old.window.startIndex + 1, old.window.end),
                     SubSeq(new.rows, new.window.startIndex + 1, new.window.end))
         /\ SelectionBounds(s.selection).end.row < old.window.end
              => SelectedText(new.rows, s'.selection) = SelectedText(old.rows, s.selection)
  <1>1. Sound(s, s.peeked) /\ Sound(s', s'.peeked)
    <2>1. Kept'
      BY EventKept
    <2> QED BY <2>1 DEF Kept
  <1>2. View(old) /\ View(new)
    BY <1>1, ViewIs
  <1> DEFINE total == Len(old.rows)
             grown == Len(new.rows)
             visible == old.visible
             from == old.window.startIndex
             end == old.window.end
             next == s'.bodyOffset
  <1>3. /\ new.visible = visible /\ end <= grown /\ \A j \in 1..end : old.rows[j] = new.rows[j]
    BY DEF SameAbove
  <1>4. /\ old.window = BodyWindow(total, visible, s.bodyOffset)
        /\ new.window = BodyWindow(grown, visible, next)
    BY <1>3 DEF BodyView, BodyViewAt, BodyViewOf
  <1>5. /\ s'.selection = s.selection
        /\ next = ResolveFollowScrollOffset(s.bodyOffset, MaxBodyOffset(s), MaxBodyOffset(s'))
    BY EventHolds
  <1>6. MaxBodyOffset(s) = AtLeast(0, total - visible) /\ MaxBodyOffset(s') = AtLeast(0, grown - visible)
    BY <1>3 DEF MaxBodyOffset, MaxOffsetOf
  <1>7. /\ total \in Nat /\ grown \in Nat /\ visible \in Nat \ {0}
        /\ old.rows \in Seq(Painted) /\ new.rows \in Seq(Painted)
        /\ from \in 0..end /\ end \in 0..total /\ new.window.end \in 0..grown
    BY <1>2 DEF View
  <1>8. s.bodyOffset \in Nat \ {0}
    BY <1>1 DEF Sound
  <1> HIDE DEF total, grown, visible, next
  <1>9. new.window.startIndex = from /\ end <= new.window.end
    <2>1. next = ResolveFollowScrollOffset(s.bodyOffset, MaxOffsetOf(old), MaxOffsetOf(new))
      BY <1>5, Zenon DEF MaxBodyOffset
    <2>2. next > 0 /\ end <= Len(new.rows)
      BY <1>3 DEF next, grown
    <2>3. /\ old.window = BodyWindow(Len(old.rows), old.visible, s.bodyOffset)
          /\ new.window = BodyWindow(Len(new.rows), new.visible, next)
      BY <1>3, <1>4, Zenon DEF total, grown, visible
    <2> QED BY <1>2, <1>3, <1>8, <2>1, <2>2, <2>3, ViewHeld, Zenon DEF visible
  <1>10. IsPrefix(SubSeq(old.rows, from + 1, end), SubSeq(new.rows, from + 1, new.window.end))
    <2> DEFINE last == new.window.end
               a == SubSeq(old.rows, from + 1, end)
               b == SubSeq(new.rows, from + 1, last)
    <2>1. from \in Nat /\ end \in Nat /\ last \in Nat /\ from <= end /\ end <= last /\ end <= total /\ last <= grown
      BY <1>7, <1>9
    <2> HIDE DEF from, end, last
    <2>2. from + 1 \in Int /\ end \in Int /\ last \in Int
      BY <2>1
    <2>3. \A j \in (from + 1)..end : old.rows[j] \in Painted
      BY <1>7, <2>1 DEF total
    <2>4. \A j \in (from + 1)..last : new.rows[j] \in Painted
      BY <1>7, <2>1 DEF grown
    <2>5. /\ a \in Seq(Painted) /\ Len(a) = (IF from + 1 <= end THEN end - (from + 1) + 1 ELSE 0)
          /\ \A k \in 1..(end - (from + 1) + 1) : a[k] = old.rows[from + 1 + k - 1]
      BY <2>2, <2>3, SubSeqProperties
    <2>6. /\ b \in Seq(Painted) /\ Len(b) = (IF from + 1 <= last THEN last - (from + 1) + 1 ELSE 0)
          /\ \A k \in 1..(last - (from + 1) + 1) : b[k] = new.rows[from + 1 + k - 1]
      BY <2>2, <2>4, SubSeqProperties
    <2> HIDE DEF a, b
    <2>7. Len(a) <= Len(b) /\ Len(a) = end - from
      BY <2>1, <2>5, <2>6
    <2>8. \A k \in 1..Len(a) : a[k] = b[k]
      <3> TAKE k \in 1..Len(a)
      <3>1. k \in 1..(end - (from + 1) + 1) /\ k \in 1..(last - (from + 1) + 1) /\ from + 1 + k - 1 \in 1..end
        BY <2>1, <2>7
      <3>2. old.rows[from + 1 + k - 1] = new.rows[from + 1 + k - 1]
        BY <1>3, <3>1 DEF end
      <3> QED BY <2>5, <2>6, <3>1, <3>2
    <2>9. IsPrefix(a, b)
      BY <2>5, <2>6, <2>7, <2>8, PrefixIs
    <2> QED BY <2>9 DEF a, b, last
  <1>11. ASSUME SelectionBounds(s.selection).end.row < end
         PROVE  SelectedText(new.rows, s'.selection) = SelectedText(old.rows, s.selection)
    <2>1. s.selection \in Selections
      BY <1>1 DEF Sound
    <2>2. end \in Nat /\ end <= Len(old.rows) /\ end <= Len(new.rows)
      BY <1>3, <1>7 DEF total, grown
    <2>3. SelectedText(new.rows, s.selection) = SelectedText(old.rows, s.selection)
      BY <1>3, <1>7, <1>11, <2>1, <2>2, SameSelected
    <2> QED BY <1>5, <2>3
  <1> QED BY <1>9, <1>10, <1>11

\* A reader who has scrolled up keeps the very rows being read, and what is selected of
\* them, on every step of every run on which a turn below is activated, streamed, settled
\* or removed.  (resolveFollowScrollOffset; a repaint of an unmoved composer leaves its
\* height, so that the offset computed before it still fits the view after it.)
THEOREM ReaderIsHeld == Spec => ReaderHolds
  <1> DEFINE Step ==
        LET old == BodyView(s)
            new == BodyView(s')
            read(view) == SubSeq(view.rows, view.window.startIndex + 1, view.window.end)
        IN  /\ \E i \in DOMAIN s.queue : TranscriptEvent(i)
            /\ s.bodyOffset > 0 /\ s'.bodyOffset > 0
            /\ HomeMounted(s) /\ HomeMounted(s') /\ Docked(s) = Docked(s') /\ SameAbove(old, new)
            => /\ new.window.startIndex = old.window.startIndex
               /\ IsPrefix(read(old), read(new))
               /\ SelectionBounds(s.selection).end.row < old.window.end
                    => SelectedText(new.rows, s'.selection) = SelectedText(old.rows, s.selection)
  <1>1. Kept /\ [Next]_s => [Step]_s
    <2> SUFFICES ASSUME Kept, NEW i \in DOMAIN s.queue, TranscriptEvent(i),
                        s.bodyOffset > 0, s'.bodyOffset > 0,
                        HomeMounted(s), HomeMounted(s'), Docked(s) = Docked(s'),
                        SameAbove(BodyView(s), BodyView(s'))
                 PROVE  Step
      BY Zenon
    <2> QED BY ReaderKept
  <1> QED BY <1>1, KeptStart, KeptStep, PTL DEF Spec, ReaderHolds

=============================================================================
