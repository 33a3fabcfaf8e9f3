-------------------------- MODULE BootChainProofs --------------------------
(***************************************************************************)
(* Proofs about BootChain, for all SBAT texts, every size of the tables    *)
(* and every depth of the scan.                                            *)
(***************************************************************************)
EXTENDS BootChain, WellFoundedInduction, SequenceTheorems, TLAPS

(***************************************************************************)
(* Parsing.  Parsed is defined by recursion on the line; what it computes  *)
(* is shown for the least line at which it would fail.                     *)
(***************************************************************************)

\* Every nonempty set of naturals has a least member.
LEMMA LeastMember ==
  ASSUME NEW S \in SUBSET Nat, S # {}
  PROVE  \E m \in S : \A j \in S : m <= j
<1>1. PICK m \in S : \A j \in S : ~(<<j, m>> \in OpToRel(<, Nat))
  BY NatLessThanWellFounded, WFMin
<1>2. \A j \in S : ~(j < m)
  BY <1>1 DEF OpToRel
<1> QED BY <1>2

\* g is what the recursion asks of the lines up to m.
Follows(g, text, room, m) ==
  g = [i \in 0..m |-> IF i = 0 THEN <<>> ELSE TakeLine(g[i - 1], text[i], room)]

LEMMA ParsedUnfolds ==
  ASSUME NEW text, NEW room, Len(text) \in Nat
  PROVE  Follows(Parsed(text, room), text, room, Len(text))
<1> DEFINE Bad == {m \in Nat : ~\E g : Follows(g, text, room, m)}
<1>1. Bad = {}
  <2> SUFFICES ASSUME Bad # {} PROVE FALSE
    OBVIOUS
  <2>1. PICK m \in Bad : \A j \in Bad : m <= j
    <3>1. Bad \in SUBSET Nat
      OBVIOUS
    <3> HIDE DEF Bad
    <3> QED BY <3>1, LeastMember
  <2>2. CASE m = 0
    <3> DEFINE g == [i \in 0..0 |-> <<>>]
    <3>1. Follows(g, text, room, 0)
      BY DEF Follows
    <3> QED BY <2>1, <2>2, <3>1
  <2>3. CASE m # 0
    <3>1. m \in Nat /\ m - 1 \in Nat /\ m - 1 \notin Bad
      BY <2>1, <2>3
    <3>2. PICK g : Follows(g, text, room, m - 1)
      BY <3>1
    <3> DEFINE h == [i \in 0..m |-> IF i = m THEN TakeLine(g[m - 1], text[m], room) ELSE g[i]]
    <3>3. ASSUME NEW i \in 0..m
          PROVE  h[i] = IF i = 0 THEN <<>> ELSE TakeLine(h[i - 1], text[i], room)
      <4>1. CASE i = m
        <5>1. m - 1 \in 0..m /\ m - 1 # m
          BY <3>1
        <5>2. h[i] = TakeLine(g[m - 1], text[m], room) /\ h[m - 1] = g[m - 1]
          BY <4>1, <5>1
        <5> QED BY <4>1, <5>2, <2>3
      <4>2. CASE i # m
        <5>1. i \in 0..(m - 1)
          BY <3>1, <4>2
        <5>2. g[i] = IF i = 0 THEN <<>> ELSE TakeLine(g[i - 1], text[i], room)
          BY <3>2, <5>1 DEF Follows
        <5>3. h[i] = g[i]
          BY <4>2
        <5>4. i # 0 => h[i - 1] = g[i - 1]
          <6> SUFFICES ASSUME i # 0 PROVE i - 1 \in 0..m /\ i - 1 # m
            OBVIOUS
          <6> QED BY <3>1, <5>1
        <5> HIDE DEF h
        <5> QED BY <5>2, <5>3, <5>4
      <4> QED BY <4>1, <4>2
    <3>4. h = [i \in 0..m |-> h[i]]
      OBVIOUS
    <3> HIDE DEF h
    <3>5. Follows(h, text, room, m)
      BY <3>3, <3>4 DEF Follows
    <3> QED BY <2>1, <3>5
  <2> QED BY <2>2, <2>3
<1>2. PICK g : Follows(g, text, room, Len(text))
  BY <1>1
<1> QED BY <1>2 DEF Follows, Parsed

\* bythos_parse_sbat_csv: entries, never more than there is room for.
LEMMA CsvFits ==
  ASSUME NEW text \in Seq(SbatLine), NEW room \in Nat
  PROVE  ParseCsv(text, room) \in Seq(SbatLine) /\ Len(ParseCsv(text, room)) <= room
<1> DEFINE g == Parsed(text, room)
           Good(s) == s \in Seq(SbatLine) /\ Len(s) <= room
           Bad == {i \in 0..Len(text) : ~Good(g[i])}
<1>1. Len(text) \in Nat
  OBVIOUS
<1>2. Follows(g, text, room, Len(text))
  BY <1>1, ParsedUnfolds
<1> HIDE DEF g
<1>3. Bad = {}
  <2> SUFFICES ASSUME Bad # {} PROVE FALSE
    OBVIOUS
  <2>1. PICK m \in Bad : \A j \in Bad : m <= j
    <3>1. Bad \in SUBSET Nat
      BY <1>1
    <3> HIDE DEF Bad
    <3> QED BY <3>1, LeastMember
  <2>2. CASE m = 0
    <3>1. 0 \in 0..Len(text)
      BY <1>1
    <3>2. g[0] = <<>>
      BY <1>2, <3>1 DEF Follows
    <3>3. Good(<<>>)
      OBVIOUS
    <3> HIDE DEF Good
    <3> QED BY <2>1, <2>2, <3>2, <3>3
  <2>3. CASE m # 0
    <3>1. m \in 1..Len(text) /\ m \in 0..Len(text) /\ m - 1 \in 0..Len(text) /\ m - 1 \notin Bad
      BY <1>1, <2>1, <2>3
    <3>2. Good(g[m - 1]) /\ text[m] \in SbatLine
      BY <3>1
    <3>3. g[m] = TakeLine(g[m - 1], text[m], room)
      BY <1>2, <2>3, <3>1 DEF Follows
    <3> DEFINE s == g[m - 1]
    <3> HIDE DEF s
    <3>4. Good(s) /\ Len(s) \in Nat
      BY <3>2 DEF s
    <3> DEFINE l == text[m]
    <3>5. Good(TakeLine(s, l, room))
      <4>1. l \in SbatLine
        BY <3>2
      <4> HIDE DEF l
      <4>2. Append(s, l) \in Seq(SbatLine) /\ Len(Append(s, l)) = Len(s) + 1
        BY <3>4, <4>1
      <4>3. Len(s) >= room \/ Len(Append(s, l)) <= room
        BY <3>4, <4>2
      <4> QED BY <3>4, <4>2, <4>3 DEF TakeLine
    <3> QED BY <2>1, <3>3, <3>5 DEF s
  <2> QED BY <2>2, <2>3
<1>4. Len(text) \in 0..Len(text)
  BY <1>1
<1> QED BY <1>3, <1>4 DEF ParseCsv, g

\* s is t as far as there is room for it.
CutTo(s, t, room) ==
  /\ Len(s) = IF Len(t) <= room THEN Len(t) ELSE room
  /\ \A k \in 1..Len(s) : s[k] = t[k]

LEMMA CutStep ==
  ASSUME NEW s \in Seq(SbatLine), NEW t \in Seq(SbatLine), NEW line \in SbatLine,
         NEW room \in Nat, NEW more \in Nat, CutTo(s, t, room), Len(t) < more
  PROVE  CutTo(TakeLine(s, line, room), TakeLine(t, line, more), room)
<1> DEFINE a == Len(s)
           b == Len(t)
           u == Append(s, line)
           v == Append(t, line)
<1>1. /\ a \in Nat /\ b \in Nat /\ b < more /\ a = (IF b <= room THEN b ELSE room)
      /\ \A k \in 1..a : s[k] = t[k]
  BY DEF CutTo
<1>2. /\ Len(u) = a + 1 /\ u[a + 1] = line /\ \A k \in 1..a : u[k] = s[k]
      /\ Len(v) = b + 1 /\ v[b + 1] = line /\ \A k \in 1..b : v[k] = t[k]
  OBVIOUS
<1>3. /\ TakeLine(s, line, room) = IF line.component = "" \/ a >= room THEN s ELSE u
      /\ TakeLine(t, line, more) = IF line.component = "" \/ b >= more THEN t ELSE v
  BY DEF TakeLine
<1>4. CutTo(s, v, room) <=> a = (IF Len(v) <= room THEN Len(v) ELSE room)
                            /\ \A k \in 1..a : s[k] = v[k]
  BY DEF CutTo
<1> HIDE DEF a, b, u, v
<1>5. ~(b >= more) /\ (a >= room \/ a < room)
  BY <1>1
<1>6. CASE line.component = ""
  BY <1>3, <1>6
<1>7. CASE line.component # ""
  <2>1. CASE a >= room
    <3>1. a = room /\ room <= b
      BY <1>1, <2>1
    <3>2. a = IF Len(v) <= room THEN Len(v) ELSE room
      BY <1>1, <1>2, <3>1
    <3>3. ASSUME NEW k \in 1..a PROVE s[k] = v[k]
      <4>1. k \in 1..b
        BY <1>1, <3>1
      <4> QED BY <1>1, <1>2, <4>1
    <3> QED BY <1>3, <1>4, <1>5, <1>7, <2>1, <3>2, <3>3
  <2>2. CASE a < room
    <3>1. a = b /\ ~(a >= room)
      BY <1>1, <2>2
    <3>2. Len(u) = IF Len(v) <= room THEN Len(v) ELSE room
      BY <1>1, <1>2, <2>2, <3>1
    <3>3. ASSUME NEW k \in 1..Len(u) PROVE u[k] = v[k]
      <4>1. k \in 1..a \/ k = a + 1
        BY <1>1, <1>2
      <4> QED BY <1>1, <1>2, <3>1, <4>1
    <3>4. CutTo(u, v, room)
      BY <3>2, <3>3 DEF CutTo
    <3> QED BY <1>3, <1>5, <1>7, <3>1, <3>4
  <2> QED BY <1>5, <2>1, <2>2
<1> QED BY <1>6, <1>7

\* What bythos_parse_sbat_csv returns for a table of any size: the readable
\* lines of the text in their order, all of them if they fit and otherwise as
\* many as the table takes.  A line it cannot read costs no room.
THEOREM CsvTakesFirst ==
  ASSUME NEW text \in Seq(SbatLine), NEW room \in Nat
  PROVE  CutTo(ParseCsv(text, room), ParseCsv(text, Len(text)), room)
<1> DEFINE n == Len(text)
           g == Parsed(text, room)
           h == Parsed(text, n)
           Good(s, t, i) == /\ s \in Seq(SbatLine) /\ t \in Seq(SbatLine)
                            /\ Len(t) <= i /\ CutTo(s, t, room)
           Bad == {i \in 0..n : ~Good(g[i], h[i], i)}
<1>1. n \in Nat
  OBVIOUS
<1>2. Follows(g, text, room, n) /\ Follows(h, text, n, n)
  BY <1>1, ParsedUnfolds
<1> HIDE DEF g, h
<1>3. Bad = {}
  <2> SUFFICES ASSUME Bad # {} PROVE FALSE
    OBVIOUS
  <2>1. PICK m \in Bad : \A j \in Bad : m <= j
    <3>1. Bad \in SUBSET Nat
      BY <1>1
    <3> HIDE DEF Bad
    <3> QED BY <3>1, LeastMember
  <2>2. CASE m = 0
    <3>1. 0 \in 0..n
      BY <1>1
    <3>2. g[0] = <<>> /\ h[0] = <<>>
      BY <1>2, <3>1 DEF Follows
    <3>3. Good(<<>>, <<>>, 0)
      BY DEF CutTo
    <3> HIDE DEF Good
    <3> QED BY <2>1, <2>2, <3>2, <3>3
  <2>3. CASE m # 0
    <3>1. m \in 1..n /\ m \in 0..n /\ m - 1 \in 0..n /\ m - 1 \notin Bad
      BY <1>1, <2>1, <2>3
    <3> DEFINE s == g[m - 1]
               t == h[m - 1]
               l == text[m]
    <3>2. Good(s, t, m - 1) /\ l \in SbatLine
      BY <3>1
    <3>3. g[m] = TakeLine(s, l, room) /\ h[m] = TakeLine(t, l, n)
      BY <1>2, <2>3, <3>1 DEF Follows
    <3> HIDE DEF s, t, l
    <3>4. Len(t) < n /\ Len(t) + 1 <= m /\ Len(t) \in Nat
      BY <1>1, <3>1, <3>2
    <3>5. CutTo(TakeLine(s, l, room), TakeLine(t, l, n), room)
      <4> HIDE DEF n
      <4> QED BY <1>1, <3>2, <3>4, CutStep
    <3>6. Append(s, l) \in Seq(SbatLine) /\ Append(t, l) \in Seq(SbatLine)
          /\ Len(Append(t, l)) = Len(t) + 1
      BY <3>2
    <3>7. Good(TakeLine(s, l, room), TakeLine(t, l, n), m)
      <4>1. Len(t) <= m
        BY <3>1, <3>4
      <4>2. /\ TakeLine(s, l, room) \in {s, Append(s, l)}
            /\ TakeLine(t, l, n) \in {t, Append(t, l)}
        BY DEF TakeLine
      <4> QED BY <3>2, <3>4, <3>5, <3>6, <4>1, <4>2
    <3> HIDE DEF Good
    <3> QED BY <2>1, <3>3, <3>7
  <2> QED BY <2>2, <2>3
<1>4. n \in 0..n
  BY <1>1
<1> QED BY <1>3, <1>4 DEF ParseCsv, g, h

\* A table that takes the readable lines of a text takes all of them.
LEMMA CsvTakesAll ==
  ASSUME NEW text \in Seq(SbatLine), NEW room \in Nat,
         Len(ParseCsv(text, Len(text))) <= room
  PROVE  ParseCsv(text, room) = ParseCsv(text, Len(text))
<1> DEFINE s == ParseCsv(text, room)
           t == ParseCsv(text, Len(text))
<1>1. s \in Seq(SbatLine) /\ t \in Seq(SbatLine) /\ CutTo(s, t, room)
  <2>1. Len(text) \in Nat
    OBVIOUS
  <2> QED BY <2>1, CsvFits, CsvTakesFirst
<1>2. Len(t) <= room
  OBVIOUS
<1> HIDE DEF s, t
<1>3. Len(s) = Len(t) /\ \A k \in 1..Len(s) : s[k] = t[k]
  BY <1>1, <1>2 DEF CutTo
<1>4. s = t
  BY <1>1, <1>3, SeqEqual
<1> QED BY <1>4 DEF s, t

Elements(s) == {s[k] : k \in DOMAIN s}

ReadableTo(text, i) == {text[k] : k \in {j \in 1..i : text[j].component # ""}}

LEMMA AppendElements ==
  ASSUME NEW s \in Seq(SbatLine), NEW line \in SbatLine
  PROVE  Elements(Append(s, line)) = Elements(s) \cup {line}
<1> DEFINE u == Append(s, line)
           n == Len(s)
<1>1. n \in Nat /\ DOMAIN s = 1..n
  OBVIOUS
<1>2. DOMAIN u = 1..(n + 1) /\ u[n + 1] = line /\ \A k \in 1..n : u[k] = s[k]
  OBVIOUS
<1> HIDE DEF u, n
<1>3. \A k : k \in 1..(n + 1) <=> k \in 1..n \/ k = n + 1
  BY <1>1
<1>4. Elements(u) = Elements(s) \cup {line}
  BY <1>1, <1>2, <1>3 DEF Elements
<1> QED BY <1>4 DEF u

\* With room for all of them the entries are the readable lines and no others.
LEMMA CsvReadsAll ==
  ASSUME NEW text \in Seq(SbatLine)
  PROVE  Elements(ParseCsv(text, Len(text))) = Readable(text)
<1> DEFINE n == Len(text)
           h == Parsed(text, n)
           Good(t, i) == t \in Seq(SbatLine) /\ Len(t) <= i /\ Elements(t) = ReadableTo(text, i)
           Bad == {i \in 0..n : ~Good(h[i], i)}
<1>1. n \in Nat
  OBVIOUS
<1>2. Follows(h, text, n, n)
  BY <1>1, ParsedUnfolds
<1> HIDE DEF h
<1>3. Bad = {}
  <2> SUFFICES ASSUME Bad # {} PROVE FALSE
    OBVIOUS
  <2>1. PICK m \in Bad : \A j \in Bad : m <= j
    <3>1. Bad \in SUBSET Nat
      BY <1>1
    <3> HIDE DEF Bad
    <3> QED BY <3>1, LeastMember
  <2>2. CASE m = 0
    <3>1. 0 \in 0..n
      BY <1>1
    <3>2. h[0] = <<>>
      BY <1>2, <3>1 DEF Follows
    <3>3. <<>> \in Seq(SbatLine) /\ Len(<<>>) <= 0 /\ DOMAIN <<>> = {}
      OBVIOUS
    <3>4. Elements(<<>>) = {} /\ ReadableTo(text, 0) = {}
      <4>1. Elements(<<>>) = {}
        BY <3>3 DEF Elements
      <4>2. \A k : k \notin 1..0
        OBVIOUS
      <4>3. ReadableTo(text, 0) = {}
        BY <4>2 DEF ReadableTo
      <4> QED BY <4>1, <4>3
    <3>5. Good(<<>>, 0)
      BY <3>3, <3>4
    <3> HIDE DEF Good
    <3> QED BY <2>1, <2>2, <3>2, <3>5
  <2>3. CASE m # 0
    <3>1. m \in 1..n /\ m \in 0..n /\ m - 1 \in 0..n /\ m - 1 \notin Bad
      BY <1>1, <2>1, <2>3
    <3> DEFINE t == h[m - 1]
               l == text[m]
    <3>2. Good(t, m - 1) /\ l \in SbatLine
      BY <3>1
    <3>3. h[m] = TakeLine(t, l, n)
      BY <1>2, <2>3, <3>1 DEF Follows
    <3>4. \A k : k \in 1..m <=> k \in 1..(m - 1) \/ k = m
      BY <1>1, <3>1
    <3>5. ReadableTo(text, m) = IF l.component # "" THEN ReadableTo(text, m - 1) \cup {l}
                                ELSE ReadableTo(text, m - 1)
      BY <3>4 DEF ReadableTo
    <3> HIDE DEF t, l
    <3>6. /\ Append(t, l) \in Seq(SbatLine) /\ Len(Append(t, l)) = Len(t) + 1
          /\ Elements(Append(t, l)) = Elements(t) \cup {l}
      BY <3>2, AppendElements
    <3>7. Len(t) \in Nat /\ Len(t) <= m - 1
      BY <3>2
    <3>8. ~(Len(t) >= n) /\ Len(t) <= m /\ Len(t) + 1 <= m
      BY <1>1, <3>1, <3>7
    <3>9. TakeLine(t, l, n) = IF l.component = "" THEN t ELSE Append(t, l)
      BY <3>8 DEF TakeLine
    <3>10. Good(TakeLine(t, l, n), m)
      <4>1. CASE l.component = ""
        BY <3>2, <3>5, <3>8, <3>9, <4>1
      <4>2. CASE l.component # ""
        BY <3>2, <3>5, <3>6, <3>8, <3>9, <4>2
      <4> QED BY <4>1, <4>2
    <3> HIDE DEF Good
    <3> QED BY <2>1, <3>3, <3>10
  <2> QED BY <2>2, <2>3
<1>4. n \in 0..n /\ DOMAIN text = 1..n
  BY <1>1
<1>5. Elements(h[n]) = ReadableTo(text, n)
  BY <1>3, <1>4
<1>6. ReadableTo(text, n) = Readable(text)
  BY <1>4 DEF ReadableTo, Readable
<1> QED BY <1>5, <1>6 DEF ParseCsv, h

\* With less room they are some of the readable lines.
LEMMA CsvReadsSome ==
  ASSUME NEW text \in Seq(SbatLine), NEW room \in Nat
  PROVE  Elements(ParseCsv(text, room)) \subseteq Readable(text)
<1> DEFINE s == ParseCsv(text, room)
           t == ParseCsv(text, Len(text))
           a == Len(s)
           b == Len(t)
<1>1. s \in Seq(SbatLine) /\ t \in Seq(SbatLine) /\ CutTo(s, t, room) /\ Elements(t) = Readable(text)
  <2>1. Len(text) \in Nat
    OBVIOUS
  <2> QED BY <2>1, CsvFits, CsvTakesFirst, CsvReadsAll
<1> HIDE DEF s, t
<1>2. /\ DOMAIN s = 1..a /\ DOMAIN t = 1..b /\ a \in Nat /\ b \in Nat
      /\ a = (IF b <= room THEN b ELSE room) /\ \A k \in 1..a : s[k] = t[k]
  BY <1>1 DEF CutTo
<1> HIDE DEF a, b
<1>3. a <= b
  BY <1>2
<1>4. \A k \in 1..a : k \in 1..b
  BY <1>2, <1>3
<1>5. Elements(s) \subseteq Elements(t)
  BY <1>2, <1>4 DEF Elements
<1> QED BY <1>1, <1>5 DEF s

LEMMA JoinedElements ==
  ASSUME NEW s \in Seq(SbatLine), NEW t \in Seq(SbatLine)
  PROVE  Elements(s \o t) = Elements(s) \cup Elements(t)
<1> DEFINE u == s \o t
           a == Len(s)
           b == Len(t)
<1>1. /\ a \in Nat /\ b \in Nat /\ DOMAIN s = 1..a /\ DOMAIN t = 1..b /\ DOMAIN u = 1..(a + b)
      /\ \A k \in 1..(a + b) : u[k] = IF k <= a THEN s[k] ELSE t[k - a]
  OBVIOUS
<1> HIDE DEF u, a, b
<1>2. \A k \in 1..a : k \in 1..(a + b) /\ k <= a
  BY <1>1
<1>3. \A k \in 1..b : k + a \in 1..(a + b) /\ ~(k + a <= a) /\ (k + a) - a = k
  BY <1>1
<1>4. \A k \in 1..(a + b) : k \in 1..a \/ (~(k <= a) /\ k - a \in 1..b)
  BY <1>1
<1>5. Elements(u) \subseteq Elements(s) \cup Elements(t)
  BY <1>1, <1>2, <1>4 DEF Elements
<1>6. Elements(s) \subseteq Elements(u)
  BY <1>1, <1>2 DEF Elements
<1>7. Elements(t) \subseteq Elements(u)
  <2> SUFFICES ASSUME NEW k \in 1..b PROVE t[k] \in Elements(u)
    BY <1>1 DEF Elements
  <2>1. u[k + a] = t[k] /\ k + a \in DOMAIN u
    BY <1>1, <1>3
  <2> QED BY <2>1 DEF Elements
<1> QED BY <1>5, <1>6, <1>7 DEF u

\* Among the first m revocations of a component one has the largest generation.
LEMMA LargestGeneration ==
  ASSUME NEW s \in Seq(SbatLine), NEW c, NEW k \in DOMAIN s, s[k].component = c
  PROVE  \E r \in DOMAIN s :
           /\ s[r].component = c
           /\ \A q \in DOMAIN s : s[q].component = c => s[q].generation <= s[r].generation
<1> DEFINE Of(m) == {q \in 1..m : s[q].component = c}
           Largest(m) == Of(m) = {} \/ \E r \in Of(m) : \A q \in Of(m) : s[q].generation <= s[r].generation
           Bad == {m \in 0..Len(s) : ~Largest(m)}
<1>1. Len(s) \in Nat /\ DOMAIN s = 1..Len(s)
  OBVIOUS
<1>2. ASSUME NEW q \in 1..Len(s) PROVE s[q].generation \in Nat
  <2>1. s[q] \in SbatLine
    BY <1>1
  <2> QED BY <2>1 DEF SbatLine
<1>3. Bad = {}
  <2> SUFFICES ASSUME Bad # {} PROVE FALSE
    OBVIOUS
  <2>1. PICK m \in Bad : \A j \in Bad : m <= j
    <3>1. Bad \in SUBSET Nat
      BY <1>1
    <3> HIDE DEF Bad
    <3> QED BY <3>1, LeastMember
  <2>2. CASE m = 0
    BY <2>1, <2>2
  <2>3. CASE m # 0
    <3>1. m \in 1..Len(s) /\ m - 1 \in 0..Len(s) /\ m - 1 \notin Bad
      <4>1. m \in 0..Len(s) /\ \A j \in Bad : m <= j
        BY <2>1
      <4>2. m \in 1..Len(s) /\ m - 1 \in 0..Len(s) /\ m - 1 < m /\ ~(m <= m - 1)
        BY <1>1, <2>3, <4>1
      <4> HIDE DEF Bad
      <4> QED BY <4>1, <4>2
    <3>2. \A q : q \in 1..m <=> q = m \/ q \in 1..(m - 1)
      BY <1>1, <3>1
    <3>3. Largest(m - 1)
      BY <3>1
    <3>4. Of(m) = IF s[m].component = c THEN Of(m - 1) \cup {m} ELSE Of(m - 1)
      BY <3>2
    <3>5. \A q \in Of(m) : s[q].generation \in Nat
      BY <1>1, <1>2, <3>1
    <3> HIDE DEF Of
    <3>6. Largest(m)
      <4>1. CASE s[m].component # c
        BY <3>3, <3>4, <4>1
      <4>2. CASE s[m].component = c /\ Of(m - 1) = {}
        <5>1. m \in Of(m) /\ \A q \in Of(m) : q = m
          BY <3>4, <4>2
        <5>2. s[m].generation <= s[m].generation
          BY <3>5, <5>1
        <5> QED BY <5>1, <5>2
      <4>3. CASE s[m].component = c /\ Of(m - 1) # {}
        <5>1. PICK r \in Of(m - 1) : \A q \in Of(m - 1) : s[q].generation <= s[r].generation
          BY <3>3, <4>3
        <5>2. CASE s[m].generation <= s[r].generation
          BY <3>4, <3>5, <4>3, <5>1, <5>2
        <5>3. CASE ~(s[m].generation <= s[r].generation)
          <6>1. \A q \in Of(m) : s[q].generation <= s[m].generation
            BY <3>4, <3>5, <4>3, <5>1, <5>3
          <6> QED BY <3>4, <4>3, <6>1
        <5> QED BY <5>2, <5>3
      <4> QED BY <4>1, <4>2, <4>3
    <3> QED BY <2>1, <3>6
  <2> QED BY <2>2, <2>3
<1>4. Largest(Len(s)) /\ k \in Of(Len(s))
  <2>1. Len(s) \in 0..Len(s)
    BY <1>1
  <2> QED BY <1>1, <1>3, <2>1
<1> QED BY <1>1, <1>4

\* Hence the comparison with the worst revocation finds what a comparison with
\* each of them would.
LEMMA WorstSuffices ==
  ASSUME NEW entry \in SbatLine, NEW revoked \in Seq(SbatLine)
  PROVE  Revoked(entry, revoked) <=>
           \E j \in DOMAIN revoked : /\ entry.component = revoked[j].component
                                     /\ entry.generation < revoked[j].generation
<1> DEFINE matching == {r \in {revoked[j] : j \in DOMAIN revoked} : r.component = entry.component}
<1>1. ASSUME NEW j \in DOMAIN revoked, entry.component = revoked[j].component,
             entry.generation < revoked[j].generation
      PROVE  Revoked(entry, revoked)
  <2>1. PICK r \in DOMAIN revoked :
          /\ revoked[r].component = entry.component
          /\ \A q \in DOMAIN revoked :
               revoked[q].component = entry.component => revoked[q].generation <= revoked[r].generation
    BY <1>1, LargestGeneration
  <2>2. revoked[r] \in matching /\ \A q \in matching : q.generation <= revoked[r].generation
    BY <2>1
  <2>3. entry.generation \in Nat /\ revoked[j].generation \in Nat /\ revoked[r].generation \in Nat
    <3>1. revoked[j] \in SbatLine /\ revoked[r] \in SbatLine
      OBVIOUS
    <3> QED BY <3>1 DEF SbatLine
  <2>4. entry.generation < revoked[r].generation
    BY <1>1, <2>1, <2>3
  <2> QED BY <2>2, <2>4 DEF Revoked
<1>2. ASSUME Revoked(entry, revoked)
      PROVE  \E j \in DOMAIN revoked : /\ entry.component = revoked[j].component
                                       /\ entry.generation < revoked[j].generation
  BY <1>2 DEF Revoked
<1> QED BY <1>1, <1>2
-----------------------------------------------------------------------------
(***************************************************************************)
(* The inductive invariant: types, the rows emitted when each section      *)
(* begins (a row once emitted stays, so a verdict must be the first), and  *)
(* that the scan's flag is what a plain look at the files says.            *)
(***************************************************************************)

Pcs == {"version", "sbat", "collect", "verdict", "signature", "permissions",
        "scan", "scanned", "revocations", "done"}

SbatTypes ==
  /\ toRead \subseteq {"shim", "grub"}
  /\ installed \in Seq(SbatLine) /\ Len(installed) <= Cap
  /\ anySection \in BOOLEAN /\ tooBig \in BOOLEAN

ScanTypes ==
  /\ anyWarn \in BOOLEAN /\ depthExceeded \in BOOLEAN /\ unverifiedLink \in BOOLEAN
  /\ bad \in BOOLEAN
  /\ open \in 0..(MaxDepth + 1) /\ visits \in 0..MaxVisits /\ count \in 0..visits
  /\ pc # "verdict" => (bad <=> anyWarn)

RowsInv ==
  /\ pc \in Pcs
  /\ missed \subseteq {"binary", "revocation", "file", "directory"}
  /\ DOMAIN rows \subseteq AllNames
  /\ pc \in {"version", "sbat", "collect"} => SbatRow \notin DOMAIN rows
  /\ pc \notin {"scanned", "revocations", "done"} => PermissionsRow \notin DOMAIN rows
  /\ pc = "scanned" => PermissionsRow \in DOMAIN rows /\ rows[PermissionsRow] = ScanResult

IInv == SbatTypes /\ ScanTypes /\ RowsInv /\ SbatVerdictRight

LEMMA RowNames ==
  /\ SbatRow # PermissionsRow /\ VersionRow \notin {SbatRow, PermissionsRow}
  /\ SignatureRow \notin {SbatRow, PermissionsRow} /\ RevocationsRow # PermissionsRow
BY DEF SbatRow, PermissionsRow, VersionRow, SignatureRow, RevocationsRow

LEMMA AddRow ==
  ASSUME NEW f, NEW name, NEW row
  PROVE  /\ DOMAIN Add(f, Fill({name}, row)) = DOMAIN f \cup {name}
         /\ \A n \in DOMAIN f : Add(f, Fill({name}, row))[n] = f[n]
         /\ name \notin DOMAIN f => Add(f, Fill({name}, row))[name] = row
BY DEF Add, Fill

LEMMA States ==
  /\ Row("OK").state = "OK" /\ Row("WARN").state = "WARN"
  /\ \A r : Skip(r).state = "SKIP"
BY DEF Row, Skip

LEMMA NothingInstalled == <<>> \in Seq(SbatLine) /\ Len(<<>>) <= Cap
<1>1. Cap \in Nat
  BY BoundsAssumption
<1> QED BY <1>1

\* A section that ends: everything but its row is as at the beginning.
LEMMA SectionEnds ==
  ASSUME IInv, NEW name \in AllNames, NEW row, NEW next \in Pcs \ {"verdict", "scanned", "collect"},
         EndSection(name, row, next), missed' = missed,
         next \in {"version", "sbat"} => name # SbatRow /\ SbatRow \notin DOMAIN rows,
         next \notin {"revocations", "done"} =>
           name # PermissionsRow /\ PermissionsRow \notin DOMAIN rows
  PROVE  IInv'
<1>1. rows' = Add(rows, Fill({name}, row)) /\ pc' = next
  BY DEF EndSection
<1>2. SbatTypes'
  <2>1. toRead' = {} /\ installed' = <<>> /\ anySection' = FALSE /\ tooBig' = FALSE
    BY DEF EndSection
  <2>2. installed' \in Seq(SbatLine) /\ Len(installed') <= Cap
    BY <2>1, NothingInstalled
  <2> QED BY <2>1, <2>2 DEF SbatTypes
<1>3. ScanTypes'
  <2>1. open' = 0 /\ visits' = 0 /\ count' = 0
    BY DEF EndSection
  <2>2. open' \in 0..(MaxDepth + 1) /\ visits' \in 0..MaxVisits /\ count' \in 0..visits'
    BY <2>1, BoundsAssumption
  <2>3. anyWarn' = FALSE /\ depthExceeded' = FALSE /\ unverifiedLink' = FALSE /\ bad' = FALSE
    BY DEF EndSection
  <2> QED BY <2>2, <2>3 DEF ScanTypes
<1>4. DOMAIN rows' = DOMAIN rows \cup {name}
  BY <1>1, AddRow
<1>5. RowsInv'
  BY <1>1, <1>4 DEF IInv, RowsInv
<1>6. SbatVerdictRight'
  BY <1>1 DEF SbatVerdictRight
<1> QED BY <1>2, <1>3, <1>5, <1>6 DEF IInv

LEMMA BootInit == Init => IInv
<1> SUFFICES ASSUME Init PROVE IInv
  OBVIOUS
<1>1. SbatTypes
  <2>1. toRead = {} /\ installed = <<>> /\ anySection = FALSE /\ tooBig = FALSE
    BY DEF Init
  <2>2. installed \in Seq(SbatLine) /\ Len(installed) <= Cap
    BY <2>1, NothingInstalled
  <2> QED BY <2>1, <2>2 DEF SbatTypes
<1>2. ScanTypes
  <2>1. open = 0 /\ visits = 0 /\ count = 0
    BY DEF Init
  <2>2. open \in 0..(MaxDepth + 1) /\ visits \in 0..MaxVisits /\ count \in 0..visits
    BY <2>1, BoundsAssumption
  <2>3. anyWarn = FALSE /\ depthExceeded = FALSE /\ unverifiedLink = FALSE /\ bad = FALSE
    BY DEF Init
  <2> QED BY <2>2, <2>3 DEF ScanTypes
<1>3. RowsInv /\ SbatVerdictRight
  <2>1. pc = "version" /\ rows = <<>> /\ missed = {}
    BY DEF Init
  <2>2. DOMAIN rows = {}
    BY <2>1
  <2> QED BY <2>1, <2>2 DEF RowsInv, SbatVerdictRight, Pcs
<1> QED BY <1>1, <1>2, <1>3 DEF IInv

\* The sections of one step.
LEMMA SingleSections ==
  IInv /\ (BootloaderVersion \/ SbatReturns \/ ShimSignature \/ NoScan \/ PermissionsReturns
           \/ SbatRevocations) => IInv'
<1> USE DEF Pcs, AllNames
<1> USE RowNames
<1>1. ASSUME IInv, BootloaderVersion PROVE IInv'
  <2>1. \E row : EndSection(VersionRow, row, "sbat") /\ missed' = missed /\ pc = "version"
    BY <1>1 DEF BootloaderVersion
  <2>2. SbatRow \notin DOMAIN rows /\ PermissionsRow \notin DOMAIN rows
    BY <1>1, <2>1 DEF IInv, RowsInv
  <2> QED BY <1>1, <2>1, <2>2, SectionEnds
<1>2. ASSUME IInv, SbatReturns PROVE IInv'
  <2>1. EndSection(SbatRow, rows[SbatRow], "signature") /\ missed' = missed /\ pc = "verdict"
    BY <1>2 DEF SbatReturns
  <2>2. PermissionsRow \notin DOMAIN rows
    BY <1>2, <2>1 DEF IInv, RowsInv
  <2> QED BY <1>2, <2>1, <2>2, SectionEnds
<1>3. ASSUME IInv, ShimSignature PROVE IInv'
  <2>1. \E row : EndSection(SignatureRow, row, "permissions") /\ missed' = missed /\ pc = "signature"
    BY <1>3 DEF ShimSignature
  <2>2. PermissionsRow \notin DOMAIN rows
    BY <1>3, <2>1 DEF IInv, RowsInv
  <2> QED BY <1>3, <2>1, <2>2, SectionEnds
<1>4. ASSUME IInv, NoScan \/ PermissionsReturns PROVE IInv'
  <2>1. \E row : EndSection(PermissionsRow, row, "revocations") /\ missed' = missed
    BY <1>4 DEF NoScan, PermissionsReturns
  <2> QED BY <1>4, <2>1, SectionEnds
<1>5. ASSUME IInv, SbatRevocations PROVE IInv'
  <2>1. \E row : EndSection(RevocationsRow, row, "done") /\ missed' = missed
    BY <1>5 DEF SbatRevocations
  <2> QED BY <1>5, <2>1, SectionEnds
<1> QED BY <1>1, <1>2, <1>3, <1>4, <1>5

\* The SBAT section.
LEMMA FindKeeps == IInv /\ FindBinaries => IInv'
<1> SUFFICES ASSUME IInv, FindBinaries PROVE IInv'
  OBVIOUS
<1>1. /\ pc = "sbat" /\ missed' = missed
      /\ \/ \E row : EndSection(SbatRow, row, "signature")
         \/ /\ toRead' \subseteq {"shim", "grub"} /\ pc' = "collect"
            /\ UNCHANGED <<rows, installed, anySection, tooBig, scanVars>>
  BY DEF FindBinaries
<1>2. SbatRow \notin DOMAIN rows /\ PermissionsRow \notin DOMAIN rows
  BY <1>1 DEF IInv, RowsInv
<1>3. CASE \E row : EndSection(SbatRow, row, "signature")
  BY <1>1, <1>2, <1>3, RowNames, SectionEnds DEF Pcs, AllNames
<1>4. CASE pc' = "collect" /\ toRead' \subseteq {"shim", "grub"}
           /\ UNCHANGED <<rows, installed, anySection, tooBig, scanVars>>
  BY <1>1, <1>2, <1>4 DEF IInv, SbatTypes, ScanTypes, RowsInv, SbatVerdictRight, scanVars, Pcs
<1> QED BY <1>1, <1>3, <1>4

LEMMA CollectKeeps ==
  IInv /\ ((\E why : CollectNothing(why)) \/ \E text \in Texts : CollectSection(text)) => IInv'
<1> SUFFICES ASSUME IInv, (\E why : CollectNothing(why)) \/ \E text \in Texts : CollectSection(text)
             PROVE  IInv'
  OBVIOUS
<1>1. /\ pc = "collect" /\ pc' = "collect" /\ toRead' \subseteq toRead
      /\ UNCHANGED <<rows, scanVars>> /\ missed' \in {missed, missed \cup {"binary"}}
      /\ anySection' \in {anySection, TRUE}
      /\ \/ tooBig' = tooBig
         \/ \E why : tooBig' = (tooBig \/ why = "larger")
  BY DEF CollectNothing, CollectSection
<1>2. installed' \in Seq(SbatLine) /\ Len(installed') <= Cap
  <2>1. CASE installed' = installed
    BY <2>1 DEF IInv, SbatTypes
  <2>2. CASE \E text \in Texts : CollectSection(text)
    <3>1. PICK text \in Texts : CollectSection(text)
      BY <2>2
    <3> DEFINE room == Cap - Len(installed)
               parsed == ParseCsv(text, room)
    <3>2. installed \in Seq(SbatLine) /\ Len(installed) \in Nat /\ Len(installed) <= Cap
      BY DEF IInv, SbatTypes
    <3>3. room \in Nat /\ text \in Seq(SbatLine)
      BY <3>2, BoundsAssumption, TextsAssumption
    <3>4. parsed \in Seq(SbatLine) /\ Len(parsed) <= room
      BY <3>3, CsvFits
    <3>5. installed' = installed \o parsed
      BY <3>1 DEF CollectSection
    <3> HIDE DEF parsed
    <3>6. Len(parsed) \in Nat /\ Len(installed') = Len(installed) + Len(parsed)
          /\ installed' \in Seq(SbatLine)
      BY <3>2, <3>4, <3>5
    <3> QED BY <3>2, <3>4, <3>6, BoundsAssumption
  <2> QED BY <2>1, <2>2 DEF CollectNothing
<1>3. SbatTypes'
  BY <1>1, <1>2 DEF IInv, SbatTypes
<1>4. ScanTypes' /\ RowsInv' /\ SbatVerdictRight'
  BY <1>1 DEF IInv, ScanTypes, RowsInv, SbatVerdictRight, scanVars
<1> QED BY <1>3, <1>4 DEF IInv

LEMMA SkipKeeps == IInv /\ SbatSkip => IInv'
<1> SUFFICES ASSUME IInv, SbatSkip PROVE IInv'
  OBVIOUS
<1>1. (\E row : EndSection(SbatRow, row, "signature")) /\ missed' = missed /\ pc = "collect"
  BY DEF SbatSkip
<1>2. PermissionsRow \notin DOMAIN rows
  BY <1>1 DEF IInv, RowsInv
<1> QED BY <1>1, <1>2, RowNames, SectionEnds DEF Pcs, AllNames

LEMMA CompareKeeps == ASSUME IInv, NEW text \in Texts, SbatCompare(text) PROVE IInv'
<1> DEFINE revoked == ParseCsv(text, Cap)
           row == IF revoked = <<>> THEN Skip("PROBE_INDETERMINATE") ELSE SbatVerdict(revoked)
           worse == \E i \in DOMAIN installed, j \in DOMAIN revoked :
                      /\ installed[i].component = revoked[j].component
                      /\ installed[i].generation < revoked[j].generation
<1>1. /\ pc = "collect" /\ pc' = "verdict"
      /\ UNCHANGED <<toRead, installed, anySection, tooBig>>
      /\ UNCHANGED <<open, visits, count, anyWarn, depthExceeded, unverifiedLink>>
      /\ missed' \in {missed, missed \cup {"revocation"}}
      /\ rows' = Add(rows, Fill({SbatRow}, row))
      /\ bad' = worse
  BY DEF SbatCompare, sbatVars
<1>2. SbatRow \notin DOMAIN rows /\ PermissionsRow \notin DOMAIN rows
  BY <1>1 DEF IInv, RowsInv
<1>3. revoked \in Seq(SbatLine) /\ installed \in Seq(SbatLine)
  BY CsvFits, TextsAssumption, BoundsAssumption DEF IInv, SbatTypes
<1>4. (\E i \in DOMAIN installed : Revoked(installed[i], revoked)) <=> worse
  <2> HIDE DEF revoked
  <2>1. ASSUME NEW i \in DOMAIN installed PROVE installed[i] \in SbatLine
    BY <1>3
  <2>2. \A i \in DOMAIN installed :
          Revoked(installed[i], revoked) <=>
            \E j \in DOMAIN revoked : /\ installed[i].component = revoked[j].component
                                      /\ installed[i].generation < revoked[j].generation
    BY <1>3, <2>1, WorstSuffices
  <2> QED BY <2>2
<1>5. bad' \in BOOLEAN
  BY <1>1
<1>6. row.state # "SKIP" => (row.state = "OK" <=> ~worse)
  <2> HIDE DEF revoked, worse
  <2> QED BY <1>4, States DEF SbatVerdict
<1> HIDE DEF row, worse
<1>7. DOMAIN rows' = DOMAIN rows \cup {SbatRow} /\ rows'[SbatRow] = row
  BY <1>1, <1>2, AddRow
<1>8. SbatTypes' /\ ScanTypes'
  BY <1>1, <1>5 DEF IInv, SbatTypes, ScanTypes
<1>9. RowsInv'
  BY <1>1, <1>2, <1>7, RowNames DEF IInv, RowsInv, Pcs, AllNames
<1>10. SbatVerdictRight'
  BY <1>1, <1>6, <1>7 DEF SbatVerdictRight
<1> QED BY <1>8, <1>9, <1>10 DEF IInv

\* The scan of /boot.
LEMMA DirectoryVisited ==
  ASSUME NEW opens, VisitDirectory(opens)
  PROVE  /\ pc = "scan" /\ visits < MaxVisits /\ visits' = visits + 1
         /\ UNCHANGED <<pc, rows, sbatVars, count, anyWarn, unverifiedLink, bad>>
         /\ depthExceeded \in BOOLEAN => depthExceeded' \in BOOLEAN
         /\ missed' \in {missed, missed \cup {"directory"}}
         /\ open' = open \/ (open <= MaxDepth /\ open' = open + 1)
<1>1. pc = "scan" /\ visits < MaxVisits /\ visits' = visits + 1 /\ UNCHANGED <<pc, rows, sbatVars>>
  BY DEF VisitDirectory, Visit
<1>2. UNCHANGED <<count, anyWarn, unverifiedLink, bad>>
  BY DEF VisitDirectory
<1>3. CASE open <= MaxDepth
  <2>1. /\ open' = IF opens THEN open + 1 ELSE open
        /\ missed' = IF opens THEN missed ELSE missed \cup {"directory"}
        /\ UNCHANGED depthExceeded
    BY <1>3 DEF VisitDirectory
  <2> QED BY <1>1, <1>2, <1>3, <2>1
<1>4. CASE ~(open <= MaxDepth)
  <2>1. depthExceeded' = TRUE /\ UNCHANGED <<open, missed>>
    BY <1>4 DEF VisitDirectory
  <2> QED BY <1>1, <1>2, <2>1
<1> QED BY <1>3, <1>4

LEMMA ScanKeeps ==
  IInv /\ (StartScan \/ CloseDirectory \/ ScanEnds
           \/ (\E b \in BOOLEAN : VisitFile(b) \/ VisitDirectory(b) \/ VisitOther(b))
           \/ \E verified, safe \in BOOLEAN : VisitLink(verified, safe)) => IInv'
<1> USE BoundsAssumption
<1> USE DEF IInv, ScanTypes, RowsInv, SbatTypes, SbatVerdictRight, sbatVars, Pcs
<1>1. ASSUME IInv, StartScan PROVE IInv'
  BY <1>1 DEF StartScan
<1>2. ASSUME IInv, CloseDirectory PROVE IInv'
  BY <1>2 DEF CloseDirectory
<1>3. ASSUME IInv, ScanEnds PROVE IInv'
  <2>1. /\ pc = "scan" /\ pc' = "scanned" /\ rows' = Add(rows, Fill({PermissionsRow}, ScanResult))
        /\ UNCHANGED <<sbatVars, missed, scanVars>>
    BY <1>3 DEF ScanEnds
  <2>2. PermissionsRow \notin DOMAIN rows
    BY <1>3, <2>1
  <2>3. DOMAIN rows' = DOMAIN rows \cup {PermissionsRow} /\ rows'[PermissionsRow] = ScanResult
    BY <2>1, <2>2, AddRow
  <2>4. ScanResult' = ScanResult
    BY <2>1 DEF ScanResult, scanVars
  <2>5. SbatTypes' /\ ScanTypes' /\ SbatVerdictRight'
    BY <1>3, <2>1 DEF scanVars
  <2>6. RowsInv'
    BY <1>3, <2>1, <2>3, <2>4, RowNames DEF AllNames
  <2> QED BY <2>5, <2>6
<1>4. ASSUME IInv, NEW b \in BOOLEAN, VisitFile(b) PROVE IInv'
  BY <1>4 DEF VisitFile, Visit
<1>5. ASSUME IInv, NEW b \in BOOLEAN, VisitDirectory(b) PROVE IInv'
  <2>1. /\ pc = "scan" /\ visits < MaxVisits /\ visits' = visits + 1
        /\ UNCHANGED <<pc, rows, sbatVars, count, anyWarn, unverifiedLink, bad>>
        /\ depthExceeded \in BOOLEAN => depthExceeded' \in BOOLEAN
        /\ missed' \in {missed, missed \cup {"directory"}}
        /\ open' = open \/ (open <= MaxDepth /\ open' = open + 1)
    BY <1>5, DirectoryVisited
  <2>2. open' \in 0..(MaxDepth + 1) /\ visits' \in 0..MaxVisits /\ count' \in 0..visits'
    BY <1>5, <2>1
  <2>3. ScanTypes' /\ RowsInv'
    BY <1>5, <2>1, <2>2
  <2> QED BY <1>5, <2>1, <2>3
<1>6. ASSUME IInv, NEW b \in BOOLEAN, VisitOther(b) PROVE IInv'
  BY <1>6 DEF VisitOther, Visit
<1>7. ASSUME IInv, NEW verified \in BOOLEAN, NEW safe \in BOOLEAN, VisitLink(verified, safe) PROVE IInv'
  <2>1. CASE verified
    BY <1>7, <2>1 DEF VisitLink, Visit
  <2>2. CASE ~verified
    BY <1>7, <2>2 DEF VisitLink, Visit
  <2> QED BY <2>1, <2>2
<1> QED BY <1>1, <1>2, <1>3, <1>4, <1>5, <1>6, <1>7

LEMMA BootStep == IInv /\ [Next]_vars => IInv'
<1> SUFFICES ASSUME IInv, [Next]_vars PROVE IInv'
  OBVIOUS
<1>1. CASE UNCHANGED vars
  BY <1>1 DEF vars, sbatVars, scanVars, IInv, SbatTypes, ScanTypes, RowsInv, SbatVerdictRight, ScanResult
<1>2. CASE \E text \in Texts : SbatCompare(text)
  BY <1>2, CompareKeeps
<1> QED BY <1>1, <1>2, SingleSections, FindKeeps, CollectKeeps, SkipKeeps, ScanKeeps DEF Next, Returned

LEMMA Invariance == Spec => []IInv
BY BootInit, BootStep, PTL DEF Spec

\* "bootloader SBAT" compares every entry with the worst revocation of its
\* component only, and is still right about all of them, for any texts.
THEOREM SbatRight == Spec => []SbatVerdictRight
<1>1. IInv => SbatVerdictRight
  BY DEF IInv
<1> QED BY <1>1, Invariance, PTL

\* "/boot file permissions" is ok only if every file looked at is safe, however
\* deep and wide /boot is and in whatever order the scan meets its files.
THEOREM ScanRight == Spec => []ScanVerdictRight
<1>1. IInv => ScanVerdictRight
  <2> SUFFICES ASSUME IInv, pc = "scanned"
               PROVE  /\ rows[PermissionsRow].state = "OK" =>
                           count > 0 /\ ~bad /\ ~depthExceeded /\ ~unverifiedLink
                      /\ bad /\ count > 0 => rows[PermissionsRow].state = "WARN"
    BY DEF ScanVerdictRight
  <2>1. rows[PermissionsRow] = ScanResult /\ (bad <=> anyWarn) /\ count \in Nat
    BY DEF IInv, RowsInv, ScanTypes
  <2>2. /\ ScanResult.state = "OK" => count # 0 /\ ~anyWarn /\ ~depthExceeded /\ ~unverifiedLink
        /\ anyWarn /\ count # 0 => ScanResult.state = "WARN"
    BY States DEF ScanResult
  <2> QED BY <2>1, <2>2
<1> QED BY <1>1, Invariance, PTL

\* The lines of all the texts that were read.
Held(texts) == UNION {Readable(t) : t \in texts}

LEMMA HeldGrows ==
  ASSUME NEW texts, NEW text
  PROVE  Held(texts \cup {text}) = Held(texts) \cup Readable(text)
BY DEF Held

\* The table holds lines of the texts, and all of them unless that was noted.
TableInv ==
  /\ sections \subseteq Texts /\ below \in BOOLEAN
  /\ Elements(installed) \subseteq Held(sections)
  /\ "binary" \notin missed => Elements(installed) = Held(sections)

FilesInv == TableInv /\ SbatSpeaksOfFiles

LEMMA NothingHeld ==
  ASSUME sections = {}, installed = <<>>, below = FALSE
  PROVE  TableInv
<1>1. Elements(installed) = {}
  BY DEF Elements
<1>2. Held(sections) = {}
  BY DEF Held
<1> QED BY <1>1, <1>2 DEF TableInv

LEMMA FilesInit == Init => FilesInv
<1> SUFFICES ASSUME Init PROVE FilesInv
  OBVIOUS
<1>1. sections = {} /\ installed = <<>> /\ below = FALSE /\ pc = "version"
  BY DEF Init
<1> QED BY <1>1, NothingHeld DEF FilesInv, SbatSpeaksOfFiles

LEMMA CollectHolds ==
  ASSUME IInv, TableInv, NEW text \in Texts, CollectSection(text)
  PROVE  TableInv'
<1> DEFINE room == Cap - Len(installed)
           parsed == ParseCsv(text, room)
<1>1. installed \in Seq(SbatLine) /\ Len(installed) \in Nat /\ Len(installed) <= Cap
  BY DEF IInv, SbatTypes
<1>2. room \in Nat /\ text \in Seq(SbatLine)
  BY <1>1, BoundsAssumption, TextsAssumption
<1>3. /\ parsed \in Seq(SbatLine)
      /\ Elements(parsed) \subseteq Readable(text)
      /\ parsed = ParseCsv(text, Len(text)) => Elements(parsed) = Readable(text)
  BY <1>2, CsvFits, CsvReadsSome, CsvReadsAll
<1>4. /\ installed' = installed \o parsed /\ below' = below
      /\ sections' = sections \cup {text}
      /\ missed' = IF parsed = ParseCsv(text, Len(text)) THEN missed ELSE missed \cup {"binary"}
  BY DEF CollectSection
<1> HIDE DEF parsed
<1>5. Elements(installed') = Elements(installed) \cup Elements(parsed)
  BY <1>1, <1>3, <1>4, JoinedElements
<1>6. Held(sections') = Held(sections) \cup Readable(text)
  BY <1>4, HeldGrows
<1>7. "binary" \notin missed' => parsed = ParseCsv(text, Len(text)) /\ "binary" \notin missed
  BY <1>4
<1> QED BY <1>3, <1>4, <1>5, <1>6, <1>7 DEF TableInv

\* What the tables say is what the texts say, as far as the tables hold them.
LEMMA CompareSpeaks ==
  ASSUME IInv, TableInv, NEW text \in Texts, SbatCompare(text)
  PROVE  FilesInv'
<1> DEFINE revoked == ParseCsv(text, Cap)
           Below(e, r) == e.component = r.component /\ e.generation < r.generation
<1>1. /\ pc = "collect" /\ pc' = "verdict" /\ UNCHANGED <<installed, sections>>
      /\ missed' = IF revoked = ParseCsv(text, Len(text)) THEN missed ELSE missed \cup {"revocation"}
      /\ bad' = \E i \in DOMAIN installed, j \in DOMAIN revoked : Below(installed[i], revoked[j])
      /\ below' = \E t \in sections : \E e \in Readable(t), r \in Readable(text) : Below(e, r)
  BY DEF SbatCompare
<1>2. TableInv'
  <2>1. "binary" \notin missed' => "binary" \notin missed
    BY <1>1
  <2>2. below' \in BOOLEAN
    BY <1>1
  <2> QED BY <1>1, <2>1, <2>2 DEF TableInv
<1>3. SbatVerdictRight'
  BY CompareKeeps DEF IInv
<1>4. /\ Elements(revoked) \subseteq Readable(text)
      /\ "revocation" \notin missed' => Elements(revoked) = Readable(text)
  <2>1. text \in Seq(SbatLine) /\ Cap \in Nat
    BY TextsAssumption, BoundsAssumption
  <2>2. Elements(revoked) \subseteq Readable(text)
    BY <2>1, CsvReadsSome
  <2>3. Elements(ParseCsv(text, Len(text))) = Readable(text)
    BY <2>1, CsvReadsAll
  <2> HIDE DEF revoked
  <2> QED BY <1>1, <2>2, <2>3
<1> HIDE DEF revoked, Below
<1>5. bad' <=> \E e \in Elements(installed), r \in Elements(revoked) : Below(e, r)
  BY <1>1 DEF Elements
<1>6. below' <=> \E e \in Held(sections), r \in Readable(text) : Below(e, r)
  BY <1>1 DEF Held
<1>7. bad' => below'
  BY <1>4, <1>5, <1>6 DEF TableInv
<1>8. "binary" \notin missed' /\ "revocation" \notin missed' => (below' => bad')
  <2>1. "binary" \notin missed' => Elements(installed) = Held(sections)
    BY <1>1, <1>2 DEF TableInv
  <2> QED BY <1>4, <1>5, <1>6, <2>1
<1>9. missed' \cap {"binary", "revocation"} = {} => "binary" \notin missed' /\ "revocation" \notin missed'
  OBVIOUS
<1>10. rows'[SbatRow].state # "SKIP" => (rows'[SbatRow].state = "OK" <=> ~bad')
  BY <1>1, <1>3 DEF SbatVerdictRight
<1>11. SbatSpeaksOfFiles'
  BY <1>7, <1>8, <1>9, <1>10 DEF SbatSpeaksOfFiles
<1> QED BY <1>2, <1>11 DEF FilesInv

LEMMA FilesStep == FilesInv /\ IInv /\ [Next]_vars => FilesInv'
<1> SUFFICES ASSUME FilesInv, IInv, [Next]_vars PROVE FilesInv'
  OBVIOUS
<1>1. CASE UNCHANGED <<installed, sections, below>> /\ pc' # "verdict"
           /\ ("binary" \in missed => "binary" \in missed')
  BY <1>1 DEF FilesInv, TableInv, SbatSpeaksOfFiles
<1>2. ASSUME NEW name, NEW row, NEW next, EndSection(name, row, next), next # "verdict"
      PROVE  FilesInv'
  <2>1. sections' = {} /\ installed' = <<>> /\ below' = FALSE /\ pc' # "verdict"
    BY <1>2 DEF EndSection
  <2>2. Elements(installed') = {} /\ Held(sections') = {}
    BY <2>1 DEF Elements, Held
  <2> QED BY <2>1, <2>2 DEF FilesInv, TableInv, SbatSpeaksOfFiles
<1>3. CASE BootloaderVersion \/ SbatReturns \/ ShimSignature
  BY <1>2, <1>3 DEF BootloaderVersion, SbatReturns, ShimSignature
<1>4. CASE NoScan \/ PermissionsReturns \/ SbatRevocations
  BY <1>2, <1>4 DEF NoScan, PermissionsReturns, SbatRevocations
<1>5. CASE SbatSkip
  BY <1>2, <1>5 DEF SbatSkip
<1>6. CASE FindBinaries
  <2>1. \/ \E row : EndSection(SbatRow, row, "signature")
        \/ pc' = "collect" /\ UNCHANGED <<installed, sections, below, missed>>
    BY <1>6 DEF FindBinaries
  <2> QED BY <1>1, <1>2, <2>1
<1>7. CASE \E why : CollectNothing(why)
  <2>1. /\ pc = "collect" /\ UNCHANGED <<pc, installed, sections, below>>
        /\ missed' \in {missed, missed \cup {"binary"}}
    BY <1>7 DEF CollectNothing
  <2> QED BY <1>1, <2>1
<1>8. CASE \E text \in Texts : CollectSection(text)
  <2>1. pc' # "verdict"
    BY <1>8 DEF CollectSection
  <2> QED BY <1>8, <2>1, CollectHolds DEF FilesInv, SbatSpeaksOfFiles
<1>9. CASE \E text \in Texts : SbatCompare(text)
  BY <1>9, CompareSpeaks DEF FilesInv
<1>10. CASE StartScan \/ CloseDirectory \/ ScanEnds
  <2>1. pc' # "verdict" /\ UNCHANGED <<installed, sections, below, missed>>
    BY <1>10 DEF StartScan, CloseDirectory, ScanEnds, sbatVars
  <2> QED BY <1>1, <2>1
<1>11. CASE (\E b \in BOOLEAN : VisitFile(b) \/ VisitDirectory(b) \/ VisitOther(b))
            \/ \E verified, safe \in BOOLEAN : VisitLink(verified, safe)
  <2>1. Visit /\ missed \subseteq missed'
    BY <1>11 DEF VisitFile, VisitDirectory, VisitOther, VisitLink
  <2>2. pc' # "verdict" /\ UNCHANGED <<installed, sections, below>>
    BY <2>1 DEF Visit, sbatVars
  <2> QED BY <1>1, <2>1, <2>2
<1>12. CASE UNCHANGED vars
  BY <1>12 DEF vars, sbatVars, FilesInv, TableInv, SbatSpeaksOfFiles
<1> QED BY <1>3, <1>4, <1>5, <1>6, <1>7, <1>8, <1>9, <1>10, <1>11, <1>12 DEF Next, Returned

LEMMA FilesHold == Spec => []FilesInv
BY FilesInit, FilesStep, Invariance, PTL DEF Spec

\* Types of bythos_check_boot_chain's variables; scan_boot_dir never has more
\* than MaxDepth + 1 directories open, whatever /boot looks like.
THEOREM TypeCorrect == Spec => []TypeOK
<1>1. IInv /\ FilesInv => TypeOK
  BY DEF IInv, FilesInv, TableInv, SbatTypes, ScanTypes, RowsInv, TypeOK, Pcs
<1> QED BY <1>1, Invariance, FilesHold, PTL

\* "bootloader SBAT" is right about the texts in the binaries and in mokutil's
\* list, not only about its tables: for any texts and any size of the tables it
\* warns only of a line that is below one listed, and it is ok only if there is
\* none, unless a binary or a line was passed over.
THEOREM SbatOfFiles == Spec => []SbatSpeaksOfFiles
<1>1. FilesInv => SbatSpeaksOfFiles
  BY DEF FilesInv
<1> QED BY <1>1, FilesHold, PTL

\* The row of check_boot_permissions, from what the scan came across.
ScanRowExact ==
  pc = "scanned" =>
    /\ rows[PermissionsRow].state = "WARN" <=> bad /\ count > 0
    /\ rows[PermissionsRow].state = "OK" <=>
         count > 0 /\ ~bad /\ ~depthExceeded /\ ~unverifiedLink
    /\ rows[PermissionsRow].state = "SKIP" <=>
         count = 0 \/ (~bad /\ (depthExceeded \/ unverifiedLink))

\* "/boot file permissions" in both directions: there is no warning without an
\* unsafe file or link target, and the row skips for three causes and no other.
\* One of them hides something: with no regular file counted, an unsafe target
\* of a link is not reported.
THEOREM ScanExact == Spec => []ScanRowExact
<1>1. IInv => ScanRowExact
  <2> SUFFICES ASSUME IInv, pc = "scanned"
               PROVE  /\ rows[PermissionsRow].state = "WARN" <=> bad /\ count > 0
                      /\ rows[PermissionsRow].state = "OK" <=>
                           count > 0 /\ ~bad /\ ~depthExceeded /\ ~unverifiedLink
                      /\ rows[PermissionsRow].state = "SKIP" <=>
                           count = 0 \/ (~bad /\ (depthExceeded \/ unverifiedLink))
    BY DEF ScanRowExact
  <2>1. rows[PermissionsRow] = ScanResult /\ (bad <=> anyWarn) /\ count \in Nat
    BY DEF IInv, RowsInv, ScanTypes
  <2>2. /\ count = 0 => ScanResult.state = "SKIP"
        /\ count # 0 /\ anyWarn => ScanResult.state = "WARN"
        /\ count # 0 /\ ~anyWarn /\ (depthExceeded \/ unverifiedLink) => ScanResult.state = "SKIP"
        /\ count # 0 /\ ~anyWarn /\ ~depthExceeded /\ ~unverifiedLink => ScanResult.state = "OK"
    BY States DEF ScanResult
  <2>3. count > 0 <=> count # 0
    BY <2>1
  <2> QED BY <2>1, <2>2, <2>3
<1> QED BY <1>1, Invariance, PTL

\* The revocation list fits the table of check_bootloader_sbat.
RevocationsFit == \A text \in Texts : Len(ParseCsv(text, Len(text))) <= Cap

\* What is left of OkMeansObserved for "bootloader SBAT": no revocation is
\* dropped unless there are more of them than BYTHOS_SBAT_MAX_COMPONENTS, so
\* the row was then decided against the whole list.
THEOREM NoRevocationDropped ==
  ASSUME RevocationsFit PROVE Spec => []("revocation" \notin missed)
<1> DEFINE Seen == "revocation" \notin missed
<1>1. Init => Seen
  BY DEF Init
<1>2. Seen /\ [Next]_vars => Seen'
  <2> SUFFICES ASSUME Seen, [Next]_vars PROVE Seen'
    OBVIOUS
  <2>1. CASE missed' = missed
    BY <2>1
  <2>2. CASE \E text \in Texts : SbatCompare(text)
    <3>1. PICK text \in Texts : SbatCompare(text)
      BY <2>2
    <3>2. text \in Seq(SbatLine) /\ Cap \in Nat /\ Len(ParseCsv(text, Len(text))) <= Cap
      BY TextsAssumption, BoundsAssumption DEF RevocationsFit
    <3>3. ParseCsv(text, Cap) = ParseCsv(text, Len(text))
      BY <3>2, CsvTakesAll
    <3> QED BY <3>1, <3>3, <2>1 DEF SbatCompare
  <2>3. CASE \E why : CollectNothing(why)
    BY <2>3 DEF CollectNothing
  <2>4. CASE \E text \in Texts : CollectSection(text)
    <3>1. missed' \subseteq missed \cup {"binary"}
      BY <2>4 DEF CollectSection
    <3> QED BY <3>1
  <2>5. CASE \E b \in BOOLEAN : VisitFile(b) \/ VisitDirectory(b) \/ VisitOther(b)
    <3>1. missed' \subseteq missed \cup {"file", "directory"}
      BY <2>5 DEF VisitFile, VisitDirectory, VisitOther
    <3> QED BY <3>1
  <2>6. BootloaderVersion \/ FindBinaries \/ SbatSkip \/ SbatReturns \/ ShimSignature \/ NoScan
          => missed' = missed
    BY DEF BootloaderVersion, FindBinaries, SbatSkip, SbatReturns, ShimSignature, NoScan
  <2>7. StartScan \/ CloseDirectory \/ ScanEnds \/ PermissionsReturns \/ SbatRevocations
          \/ (\E verified, safe \in BOOLEAN : VisitLink(verified, safe)) => missed' = missed
    BY DEF StartScan, CloseDirectory, ScanEnds, PermissionsReturns, SbatRevocations, VisitLink
  <2>8. Returned \/ UNCHANGED vars => missed' = missed
    BY DEF Returned, vars
  <2> QED BY <2>1, <2>2, <2>3, <2>4, <2>5, <2>6, <2>7, <2>8 DEF Next
<1> QED BY <1>1, <1>2, PTL DEF Spec
=============================================================================
